---------------------------- MODULE HostProofs ----------------------------
(***************************************************************************)
(* Proofs about HostClient, for every choice of scripts and every bound on *)
(* sessions, polls and interrupts: a motor test that has come to its try   *)
(* block leaves no axis under power.                                       *)
(*   The argument has three parts.  A fact about the scripts: one with a   *)
(* try block disables each axis it is in charge of at a place of its       *)
(* cleanup that no exception jumps over, and enables none after it.  A     *)
(* fact about the board: only an enable, a home or a direction check arms  *)
(* an axis that is off or ramping down.  And the invariant that joins      *)
(* them: an axis in charge has its disable ahead, or is left to be         *)
(* released already.                                                       *)
(*   A second argument: the session and the board stay in step, or fall    *)
(* out of step only where no enable is asked and no answer believed.  Its  *)
(* parts are the order of the steps of a script (which query comes after   *)
(* a line that may be left unread), the stream (how many lines are due and *)
(* what each cannot be), and the invariant SyncInv that joins them.        *)
(*   A third, small one: the driver classes of MotorBoard leave out no     *)
(* outcome that DriverDevice gives a driver.                               *)
(***************************************************************************)
EXTENDS HostClient, WellFoundedInduction, TLAPS

-----------------------------------------------------------------------------
\* The commands, and what a step may expect.
Dos == {"PING", "INFO", "STOP", "DRIVER CONFIGURE", "ENABLE", "DISABLE",
        "STATE?", "DRIVER?", "DRIVER-DIAG?", "HOME", "JOG", "DIR-CHECK",
        "ENDSTOP?", "VEL"}
Expectations == {"ANY", "PARSED", "OK", "REST", "HOMED", "READY_OR_CONFIGURE",
                 "READY", "CALIBRATED", "REFRESH", "RELEASED"}
Steps == [zone : 0..5, do : Dos, axis : {"PAN", "TILT", "BOTH"},
          expect : Expectations]

\* A request as the scripts write it.
Requests ==
    [do : {"PING", "INFO", "STOP", "DRIVER CONFIGURE"}, axis : {"BOTH"}]
      \cup [do : {"ENABLE", "DISABLE", "STATE?", "DRIVER?", "DRIVER-DIAG?"},
            axis : Axes]
      \cup [do : {"HOME", "JOG", "DIR-CHECK", "ENDSTOP?"}, axis : {"TILT"}]
      \cup [do : {"VEL"}, axis : {"PAN", "TILT", "BOTH"}]

-----------------------------------------------------------------------------
\* The scripts are put together from pieces.  In each the zones only grow,
\* and the step that may skip two others has three after it.
Good(p) ==
    /\ p \in Seq(Steps)
    /\ \A i \in 1..Len(p) :
         /\ Request(p[i]) \in Requests
         /\ p[i].expect = "READY_OR_CONFIGURE" =>
              p[i].zone = 0 /\ i + 3 <= Len(p)

Within(p, y, z) ==
    /\ Good(p)
    /\ \A i \in 1..Len(p) : y <= p[i].zone /\ p[i].zone <= z
    /\ \A i, j \in 1..Len(p) : i <= j => p[i].zone <= p[j].zone

LEMMA GoodZones ==
  ASSUME NEW p, Good(p) PROVE \A i \in 1..Len(p) : p[i].zone \in 0..5
<1>1. ASSUME NEW s \in Steps PROVE s.zone \in 0..5
  BY DEF Steps
<1>2. \A i \in 1..Len(p) : p[i] \in Steps
  BY DEF Good
<1> QED
  BY <1>1, <1>2

\* The concatenation of two good pieces, element by element.
LEMMA Joined ==
  ASSUME NEW s, NEW t, Good(s), Good(t)
  PROVE  /\ Good(s \o t) /\ Len(s) \in Nat /\ Len(t) \in Nat
         /\ Len(s \o t) = Len(s) + Len(t)
         /\ \A i \in 1..Len(s) : (s \o t)[i] = s[i]
         /\ \A i \in 1..Len(s \o t) :
              i \notin 1..Len(s) => /\ i - Len(s) \in 1..Len(t)
                                    /\ (s \o t)[i] = t[i - Len(s)]
<1> DEFINE u == s \o t
<1>0. /\ s \in Seq(Steps) /\ t \in Seq(Steps)
      /\ Len(s) \in Nat /\ Len(t) \in Nat
  BY DEF Good
<1>1. /\ u \in Seq(Steps) /\ Len(u) = Len(s) + Len(t)
      /\ \A i \in 1..Len(s) : u[i] = s[i]
      /\ \A i \in 1..Len(u) : i \notin 1..Len(s) => u[i] = t[i - Len(s)]
  BY <1>0
<1> HIDE DEF u
<1>2. ASSUME NEW i \in 1..Len(u), i \notin 1..Len(s)
      PROVE  i - Len(s) \in 1..Len(t) /\ u[i] = t[i - Len(s)]
  BY <1>0, <1>1, <1>2
<1>3. Good(u)
  <2> SUFFICES ASSUME NEW i \in 1..Len(u)
               PROVE  /\ Request(u[i]) \in Requests
                      /\ u[i].expect = "READY_OR_CONFIGURE" =>
                           u[i].zone = 0 /\ i + 3 <= Len(u)
    BY <1>1 DEF Good
  <2>1. CASE i \in 1..Len(s)
    <3>1. u[i] = s[i] /\ i + 3 <= Len(s) => i + 3 <= Len(u)
      BY <1>0, <1>1, <2>1
    <3>2. u[i] = s[i]
      BY <1>1, <2>1
    <3> QED
      BY <1>0, <1>1, <2>1, <3>2 DEF Good
  <2>2. CASE i \notin 1..Len(s)
    <3> DEFINE j == i - Len(s)
    <3>1. /\ j \in 1..Len(t) /\ u[i] = t[j]
          /\ j + 3 <= Len(t) => i + 3 <= Len(u)
      BY <1>0, <1>1, <1>2, <2>2
    <3> HIDE DEF j
    <3> QED
      BY <3>1 DEF Good
  <2> QED
    BY <2>1, <2>2
<1> QED
  BY <1>0, <1>1, <1>2, <1>3 DEF u

\* A piece of later zones may follow a piece of earlier ones.
LEMMA JoinedWithin ==
  ASSUME NEW x \in 0..5, NEW y \in 0..5, NEW z \in 0..5, x <= y, y <= z,
         NEW s, NEW t, Within(s, x, y), Within(t, y, z)
  PROVE  Within(s \o t, x, z)
<1> DEFINE u == s \o t
<1>0. Good(s) /\ Good(t)
  BY DEF Within
<1>1. /\ Good(u) /\ Len(s) \in Nat /\ Len(u) \in Nat
      /\ \A i \in 1..Len(s) : u[i] = s[i]
      /\ \A i \in 1..Len(u) :
              i \notin 1..Len(s) => /\ i - Len(s) \in 1..Len(t)
                                    /\ u[i] = t[i - Len(s)]
  BY <1>0, Joined
<1> HIDE DEF u
<1>2. \A i \in 1..Len(u) : u[i].zone \in 0..5
  BY <1>1, GoodZones
<1>3. ASSUME NEW i \in 1..Len(u), i \notin 1..Len(s)
      PROVE  y <= u[i].zone /\ u[i].zone <= z
  BY <1>1, <1>3 DEF Within
<1>4. ASSUME NEW i \in 1..Len(u), i \in 1..Len(s)
      PROVE  x <= u[i].zone /\ u[i].zone <= y
  BY <1>1, <1>4 DEF Within
<1>5. \A i \in 1..Len(u) : x <= u[i].zone /\ u[i].zone <= z
  BY <1>2, <1>3, <1>4
<1>6. ASSUME NEW i \in 1..Len(u), NEW j \in 1..Len(u), i <= j
      PROVE  u[i].zone <= u[j].zone
  <2>1. CASE j \in 1..Len(s)
    <3>1. i \in 1..Len(s)
      BY <1>1, <1>6, <2>1
    <3> QED
      BY <1>1, <1>6, <2>1, <3>1 DEF Within
  <2>2. CASE j \notin 1..Len(s) /\ i \in 1..Len(s)
    BY <1>2, <1>3, <1>4, <2>2
  <2>3. CASE j \notin 1..Len(s) /\ i \notin 1..Len(s)
    <3> DEFINE k == i - Len(s)
               l == j - Len(s)
    <3>1. /\ k \in 1..Len(t) /\ l \in 1..Len(t) /\ k <= l
          /\ u[i] = t[k] /\ u[j] = t[l]
      BY <1>1, <1>6, <2>3
    <3> HIDE DEF k, l
    <3> QED
      BY <3>1 DEF Within
  <2> QED
    BY <2>1, <2>2, <2>3
<1>7. Within(u, x, z)
  BY <1>1, <1>5, <1>6 DEF Within
<1> QED
  BY <1>7 DEF u

\* The same with the zones fixed, as the scripts need it.
LEMMA Blocks ==
  \A z \in 0..5 : \A s, t :
    /\ Within(s, z, z) /\ Within(t, z, z) => Within(s \o t, z, z)
    /\ Within(s, 0, z) /\ Within(t, z, z) => Within(s \o t, 0, z)
  BY JoinedWithin

LEMMA Wider ==
  ASSUME NEW p, NEW y \in 0..5, NEW z \in 0..5, y <= z, Within(p, 0, y)
  PROVE  Within(p, 0, z)
<1>1. \A i \in 1..Len(p) : p[i].zone \in 0..5
  BY GoodZones DEF Within
<1> QED
  BY <1>1 DEF Within

-----------------------------------------------------------------------------
\* The pieces.
Plain(s, z) == /\ s \in Steps /\ s.zone = z /\ Request(s) \in Requests
               /\ s.expect # "READY_OR_CONFIGURE"

LEMMA PlainPieces ==
  ASSUME NEW z \in 0..5, NEW s, Plain(s, z)
  PROVE  /\ Within(<<s>>, z, z)
         /\ \A t : Plain(t, z) => Within(<<s, t>>, z, z)
<1>1. Within(<<s>>, z, z)
  <2>1. /\ <<s>> \in Seq(Steps) /\ Len(<<s>>) = 1
        /\ \A i \in 1..Len(<<s>>) : <<s>>[i] = s
    BY DEF Plain
  <2> QED
    BY <2>1 DEF Within, Good, Plain
<1>2. ASSUME NEW t, Plain(t, z) PROVE Within(<<s, t>>, z, z)
  <2>1. /\ <<s, t>> \in Seq(Steps) /\ Len(<<s, t>>) = 2
        /\ \A i \in 1..Len(<<s, t>>) : <<s, t>>[i] \in {s, t}
    BY <1>2 DEF Plain
  <2> QED
    BY <1>2, <2>1 DEF Within, Good, Plain
<1> QED
  BY <1>1, <1>2

LEMMA NoSteps == \A z \in 0..5 : Within(<< >>, z, z)
  BY DEF Within, Good

LEMMA PlainStep ==
  \A z \in 0..5, do \in Dos, axis \in {"PAN", "TILT", "BOTH"},
     e \in Expectations \ {"READY_OR_CONFIGURE"} :
       [do |-> do, axis |-> axis] \in Requests
         => Plain(Step(z, do, axis, e), z)
  BY DEF Plain, Step, Steps, Request

\* The requests the scripts write.
LEMMA KnownRequests ==
  /\ \A do \in {"PING", "INFO", "STOP", "DRIVER CONFIGURE"} :
       [do |-> do, axis |-> "BOTH"] \in Requests
  /\ \A a \in Axes, do \in {"ENABLE", "DISABLE", "STATE?", "DRIVER?",
                            "DRIVER-DIAG?", "VEL"} :
       [do |-> do, axis |-> a] \in Requests
  /\ \A do \in {"HOME", "JOG", "DIR-CHECK", "ENDSTOP?"} :
       [do |-> do, axis |-> "TILT"] \in Requests
  /\ [do |-> "VEL", axis |-> "BOTH"] \in Requests
  BY DEF Requests, Axes

\* The steps the pieces are made of, by their command.
LEMMA PlainSteps ==
  ASSUME NEW z \in 0..5, NEW e \in Expectations \ {"READY_OR_CONFIGURE"}
  PROVE  /\ \A do \in {"PING", "INFO", "STOP", "DRIVER CONFIGURE"} :
              Plain(Step(z, do, "BOTH", e), z)
         /\ \A a \in Axes, do \in {"ENABLE", "DISABLE", "STATE?", "DRIVER?",
                                   "DRIVER-DIAG?", "VEL"} :
              Plain(Step(z, do, a, e), z)
         /\ \A do \in {"HOME", "JOG", "DIR-CHECK", "ENDSTOP?"} :
              Plain(Step(z, do, "TILT", e), z)
         /\ Plain(Step(z, "VEL", "BOTH", e), z)
<1>1. ASSUME NEW do \in Dos, NEW axis \in {"PAN", "TILT", "BOTH"},
             [do |-> do, axis |-> axis] \in Requests
      PROVE  Plain(Step(z, do, axis, e), z)
  BY <1>1, PlainStep
<1>2. \A do \in {"PING", "INFO", "STOP", "DRIVER CONFIGURE"} :
        Plain(Step(z, do, "BOTH", e), z)
  BY <1>1, KnownRequests DEF Dos
<1>3. \A a \in Axes, do \in {"ENABLE", "DISABLE", "STATE?", "DRIVER?",
                            "DRIVER-DIAG?", "VEL"} :
        Plain(Step(z, do, a, e), z)
  BY <1>1, KnownRequests DEF Dos, Axes
<1>4. \A do \in {"HOME", "JOG", "DIR-CHECK", "ENDSTOP?"} :
        Plain(Step(z, do, "TILT", e), z)
  BY <1>1, KnownRequests DEF Dos
<1>5. Plain(Step(z, "VEL", "BOTH", e), z)
  BY <1>1, KnownRequests DEF Dos
<1> QED
  BY <1>2, <1>3, <1>4, <1>5

LEMMA Answers ==
  /\ \A e \in {"ANY", "PARSED", "OK", "REST", "HOMED", "READY", "CALIBRATED",
             "REFRESH", "RELEASED"} :
       e \in Expectations \ {"READY_OR_CONFIGURE"}
  /\ 0 \in 0..5 /\ 1 \in 0..5
  BY DEF Expectations

\* Preparing an axis: the only piece with a step that may skip others.
LEMMA Preparing ==
  \A a \in Axes : Within(PrepareAxisMotorTest(a), 0, 0)
<1> TAKE a \in Axes
<1> DEFINE p == PrepareAxisMotorTest(a)
<1>1. Other(a) \in Axes
  BY DEF Other, Axes
<1>2. /\ Step(0, "DRIVER?", a, "READY_OR_CONFIGURE") \in Steps
      /\ Request(Step(0, "DRIVER?", a, "READY_OR_CONFIGURE")) \in Requests
  BY DEF Step, Steps, Request, Requests, Dos, Expectations, Axes
<1>3. /\ Plain(Step(0, "DRIVER CONFIGURE", "BOTH", "ANY"), 0)
      /\ Plain(Step(0, "DRIVER?", a, "READY"), 0)
      /\ Plain(Step(0, "DRIVER?", Other(a), "PARSED"), 0)
  BY <1>1, PlainSteps, Answers
<1> DEFINE w == Step(0, "DRIVER?", a, "READY_OR_CONFIGURE")
           x == Step(0, "DRIVER CONFIGURE", "BOTH", "ANY")
           y == Step(0, "DRIVER?", a, "READY")
           z == Step(0, "DRIVER?", Other(a), "PARSED")
<1>4. w.zone = 0
  BY DEF Step
<1>5. p = <<w, x, y, z>>
  BY DEF PrepareAxisMotorTest
<1>6. /\ w \in Steps /\ x \in Steps /\ y \in Steps /\ z \in Steps
      /\ Plain(x, 0) /\ Plain(y, 0) /\ Plain(z, 0) /\ Request(w) \in Requests
  BY <1>2, <1>3 DEF Plain
<1> HIDE DEF w, x, y, z, p
<1>7. /\ p \in Seq(Steps) /\ Len(p) = 4
      /\ p[1] = w /\ p[2] = x /\ p[3] = y /\ p[4] = z
  BY <1>5, <1>6
<1>8. \A i \in 1..4 : i = 1 \/ i = 2 \/ i = 3 \/ i = 4
  OBVIOUS
<1>9. \A i \in 1..4 : /\ p[i].zone = 0 /\ Request(p[i]) \in Requests
                      /\ p[i].expect = "READY_OR_CONFIGURE" => i = 1
  BY <1>4, <1>6, <1>7, <1>8 DEF Plain
<1>10. Within(p, 0, 0)
  BY <1>7, <1>9 DEF Within, Good
<1> QED
  BY <1>10 DEF p

LEMMA Pieces ==
  ASSUME NEW a \in Axes
  PROVE  /\ Within(Greeting, 0, 0) /\ Within(CheckCalibration, 0, 0)
         /\ Within(QueryDriverReport(a), 0, 0)
         /\ Within(RunSegment(a), 1, 1) /\ Within(RunDualSegment, 1, 1)
         /\ \A e \in {"PARSED", "RELEASED"} : Within(Endstop(e), 0, 0)
         /\ \A z \in 0..5 : /\ Within(State(z, a), z, z)
                            /\ Within(WaitForStop(z, a), z, z)
                            /\ Within(WaitForHome(z), z, z)
                            /\ Within(HomeTilt(z), z, z)
<1>0. "PAN" \in Axes /\ "TILT" \in Axes /\ a \in {"PAN", "TILT", "BOTH"}
  BY DEF Axes
<1>1. /\ Within(Greeting, 0, 0) /\ Within(CheckCalibration, 0, 0)
      /\ Within(QueryDriverReport(a), 0, 0)
      /\ \A e \in {"PARSED", "RELEASED"} : Within(Endstop(e), 0, 0)
  <2>1. /\ Plain(Step(0, "PING", "BOTH", "OK"), 0)
        /\ Plain(Step(0, "INFO", "BOTH", "OK"), 0)
        /\ Plain(Step(0, "STATE?", "TILT", "CALIBRATED"), 0)
        /\ Plain(Step(0, "DRIVER?", a, "PARSED"), 0)
        /\ Plain(Step(0, "DRIVER-DIAG?", a, "PARSED"), 0)
        /\ \A e \in {"PARSED", "RELEASED"} :
             Plain(Step(0, "ENDSTOP?", "TILT", e), 0)
    BY <1>0, PlainSteps, Answers
  <2> QED
    BY <2>1, PlainPieces, Answers, Zenon
       DEF Greeting, CheckCalibration, QueryDriverReport, Endstop
<1>2. ASSUME NEW x \in Axes, NEW z \in 0..5
      PROVE  /\ Within(State(z, x), z, z) /\ Within(WaitForStop(z, x), z, z)
             /\ Within(WaitForHome(z), z, z) /\ Within(HomeTilt(z), z, z)
  <2>1. x \in {"PAN", "TILT", "BOTH"}
    BY DEF Axes
  <2> QED
    BY <1>0, <2>1, KnownRequests, PlainStep, PlainPieces
       DEF State, WaitForStop, WaitForHome, HomeTilt, Dos, Expectations
<1>3. /\ Within(<<Step(1, "VEL", a, "REFRESH"), Step(1, "STOP", "BOTH", "OK")>>,
                1, 1)
      /\ Within(<<Step(1, "VEL", "BOTH", "REFRESH"),
                  Step(1, "STOP", "BOTH", "OK")>>, 1, 1)
  <2>1. /\ Plain(Step(1, "VEL", a, "REFRESH"), 1)
        /\ Plain(Step(1, "VEL", "BOTH", "REFRESH"), 1)
        /\ Plain(Step(1, "STOP", "BOTH", "OK"), 1)
    BY <1>0, PlainSteps, Answers
  <2> QED
    BY <2>1, PlainPieces, Answers, Zenon
<1>4. Within(RunSegment(a), 1, 1) /\ Within(RunDualSegment, 1, 1)
  BY <1>0, <1>2, <1>3, Blocks DEF RunSegment, RunDualSegment
<1> QED
  BY <1>1, <1>2, <1>4

-----------------------------------------------------------------------------
\* Program p disables axis a at place d of its cleanup, whatever fails before,
\* and enables it no more.
Releases(p, a, d) ==
    /\ d \in 1..Len(p) /\ Request(p[d]) = [do |-> "DISABLE", axis |-> a]
    /\ p[d].zone >= Cleanup
    /\ \A i \in 1..Len(p) :
         /\ i < d => p[i].zone < p[d].zone
         /\ i > d => ~Enables(p[i], a)
         /\ p[i].expect = "READY_OR_CONFIGURE" => i + 3 <= d

\* The cleanup c releases the axis wherever the steps before it end.
LEMMA CleansUp ==
  ASSUME NEW y, NEW c, NEW a, NEW z \in 0..5, Within(y, 0, z), Good(c),
         NEW k \in 1..Len(c), z < c[k].zone, Cleanup <= c[k].zone,
         Request(c[k]) = [do |-> "DISABLE", axis |-> a],
         \A i \in 1..Len(c) : /\ c[i].zone > 0
                              /\ i < k => c[i].zone < c[k].zone
                              /\ i > k => ~Enables(c[i], a)
  PROVE  \E d \in 1..Len(y \o c) : Releases(y \o c, a, d)
<1> DEFINE p == y \o c
           d == Len(y) + k
<1>0. Good(y) /\ Good(c)
  BY DEF Within
<1>1. /\ Good(p) /\ Len(y) \in Nat /\ Len(c) \in Nat /\ Len(p) = Len(y) + Len(c)
      /\ \A i \in 1..Len(y) : p[i] = y[i]
      /\ \A i \in 1..Len(p) :
              i \notin 1..Len(y) => /\ i - Len(y) \in 1..Len(c)
                                    /\ p[i] = c[i - Len(y)]
  BY <1>0, Joined
<1> HIDE DEF p
<1>2. /\ d \in 1..Len(p) /\ d \notin 1..Len(y) /\ d - Len(y) = k
  BY <1>1
<1>3. p[d] = c[k] /\ p[d].zone \in 0..5 /\ z < p[d].zone
  <2>1. p[d] = c[k]
    BY <1>1, <1>2
  <2> QED
    BY <1>1, <1>2, <2>1, GoodZones
<1>4. ASSUME NEW i \in 1..Len(p)
      PROVE  /\ i < d => p[i].zone < p[d].zone
             /\ i > d => ~Enables(p[i], a)
             /\ p[i].expect = "READY_OR_CONFIGURE" => i + 3 <= d
  <2>1. CASE i \in 1..Len(y)
    <3>1. /\ p[i] = y[i] /\ p[i].zone \in 0..5 /\ p[i].zone <= z /\ i < d
          /\ i + 3 <= Len(y) => i + 3 <= d
      BY <1>0, <1>1, <2>1, GoodZones DEF Within
    <3> HIDE DEF d
    <3>2. p[i].zone < p[d].zone
      BY <1>3, <3>1
    <3>3. y[i].expect = "READY_OR_CONFIGURE" => i + 3 <= Len(y)
      BY <1>0, <2>1 DEF Good
    <3> QED
      BY <1>1, <1>2, <3>1, <3>2, <3>3
  <2>2. CASE i \notin 1..Len(y)
    <3> DEFINE j == i - Len(y)
    <3>1. /\ j \in 1..Len(c) /\ p[i] = c[j] /\ i \in Nat
          /\ i < d => j < k
          /\ i > d => j > k
      BY <1>1, <2>2
    <3> HIDE DEF j, d
    <3>2. c[j].expect # "READY_OR_CONFIGURE"
      <4>1. c[j].zone \in 0..5 /\ c[j].zone > 0
        BY <1>0, <3>1, GoodZones
      <4> QED
        BY <1>0, <3>1, <4>1 DEF Good
    <3>3. i < d => p[i].zone < p[d].zone
      BY <1>3, <3>1
    <3>4. i > d => ~Enables(p[i], a)
      BY <3>1
    <3> QED
      BY <3>1, <3>2, <3>3, <3>4
  <2> QED
    BY <2>1, <2>2
<1>5. Releases(p, a, d)
  BY <1>2, <1>3, <1>4 DEF Releases
<1> QED
  BY <1>2, <1>5 DEF p

\* It still does with more steps after it that enable nothing.
LEMMA CleansUpStill ==
  ASSUME NEW p, NEW t, NEW a, NEW z \in 1..5, Good(p), Within(t, z, z),
         \A i \in 1..Len(t) : ~Enables(t[i], a),
         \E d \in 1..Len(p) : Releases(p, a, d)
  PROVE  \E d \in 1..Len(p \o t) : Releases(p \o t, a, d)
<1> DEFINE u == p \o t
<1>0. Good(t)
  BY DEF Within
<1>1. /\ Good(u) /\ Len(p) \in Nat /\ Len(t) \in Nat /\ Len(u) = Len(p) + Len(t)
      /\ \A i \in 1..Len(p) : u[i] = p[i]
      /\ \A i \in 1..Len(u) :
              i \notin 1..Len(p) => /\ i - Len(p) \in 1..Len(t)
                                    /\ u[i] = t[i - Len(p)]
  BY <1>0, Joined
<1> HIDE DEF u
<1>2. PICK d \in 1..Len(p) : Releases(p, a, d)
  OBVIOUS
<1>3. d \in 1..Len(u) /\ u[d] = p[d]
  BY <1>1
<1>4. ASSUME NEW i \in 1..Len(u)
      PROVE  /\ i < d => u[i].zone < u[d].zone
             /\ i > d => ~Enables(u[i], a)
             /\ u[i].expect = "READY_OR_CONFIGURE" => i + 3 <= d
  <2>1. CASE i \in 1..Len(p)
    <3>1. u[i] = p[i]
      BY <1>1, <2>1
    <3> QED
      BY <1>2, <1>3, <2>1, <3>1 DEF Releases
  <2>2. CASE i \notin 1..Len(p)
    <3> DEFINE j == i - Len(p)
    <3>1. j \in 1..Len(t) /\ u[i] = t[j] /\ ~(i < d)
      BY <1>1, <1>2, <2>2
    <3> HIDE DEF j
    <3>2. t[j].expect # "READY_OR_CONFIGURE"
      <4>1. t[j].zone \in 0..5 /\ t[j].zone >= z
        BY <1>0, <3>1, GoodZones DEF Within
      <4> QED
        BY <1>0, <3>1, <4>1 DEF Good
    <3> QED
      BY <3>1, <3>2
  <2> QED
    BY <2>1, <2>2
<1>5. Releases(u, a, d)
  BY <1>2, <1>3, <1>4 DEF Releases
<1> QED
  BY <1>3, <1>5 DEF u

\* The axes a session takes charge of when it comes to its try block.
InCharge(name, axis) == Named(IF name = "dual-motor-test" THEN "BOTH" ELSE axis)

\* A script runs through its zones in order, and one that has a try block
\* disables each axis it is in charge of.
Cleanly(name, axis, p) ==
    /\ Within(p, 0, 5) /\ Len(p) >= 1
    /\ (\E i \in 1..Len(p) : p[i].zone > 0) =>
         \A b \in InCharge(name, axis) : \E d \in 1..Len(p) : Releases(p, b, d)

LEMMA SingleTest ==
  ASSUME NEW a \in Axes PROVE Cleanly("motor-test", a, RunMotorTest(a))
<1> DEFINE before == Greeting \o PrepareAxisMotorTest(a)
                       \o (IF a = "TILT" THEN CheckCalibration ELSE << >>)
                       \o <<Step(0, "ENABLE", a, "OK")>>
           inside == before
                       \o (IF a = "TILT" THEN HomeTilt(1) \o WaitForHome(1)
                           ELSE << >>)
                       \o RunSegment(a) \o RunSegment(a)
           y == inside \o <<Step(2, "STOP", "BOTH", "OK")>> \o WaitForStop(2, a)
           c == <<Step(3, "DISABLE", a, "OK")>>
<1>0. /\ RunMotorTest(a) = (y \o c) \o State(3, a)
      /\ 0 \in 0..5 /\ 1 \in 0..5 /\ 2 \in 0..5 /\ 3 \in 0..5
  BY DEF RunMotorTest
<1>1. Within(before, 0, 0)
  <2>1. Within(IF a = "TILT" THEN CheckCalibration ELSE << >>, 0, 0)
    BY <1>0, Pieces, NoSteps
  <2>2. Within(<<Step(0, "ENABLE", a, "OK")>>, 0, 0)
    BY <1>0, PlainSteps, PlainPieces, Answers
  <2> QED
    BY <1>0, <2>1, <2>2, Pieces, Preparing, Blocks
<1> HIDE DEF before
<1>2. Within(inside, 0, 1)
  <2>1. Within(IF a = "TILT" THEN HomeTilt(1) \o WaitForHome(1) ELSE << >>, 1, 1)
    BY <1>0, Pieces, NoSteps, Blocks
  <2>2. Within(before, 0, 1)
    BY <1>0, <1>1, Wider
  <2> QED
    BY <1>0, <2>1, <2>2, Pieces, Blocks
<1> HIDE DEF inside
<1>3. Within(y, 0, 2)
  <2>1. Within(<<Step(2, "STOP", "BOTH", "OK")>>, 2, 2)
    BY <1>0, PlainSteps, PlainPieces, Answers
  <2>2. Within(inside, 0, 2)
    BY <1>0, <1>2, Wider
  <2> QED
    BY <1>0, <2>1, <2>2, Pieces, Blocks
<1> HIDE DEF y
<1>4. /\ Within(c, 3, 3) /\ Len(c) = 1
      /\ c[1].zone = 3 /\ Request(c[1]) = [do |-> "DISABLE", axis |-> a]
  <2>1. Within(c, 3, 3)
    BY <1>0, PlainSteps, PlainPieces, Answers
  <2> QED
    BY <2>1 DEF Step, Request
<1>5. /\ Within(State(3, a), 3, 3)
      /\ \A i \in 1..Len(State(3, a)) : ~Enables(State(3, a)[i], a)
  <2>1. Len(State(3, a)) = 1 /\ State(3, a)[1].do = "STATE?"
    BY DEF State, Step
  <2> QED
    BY <1>0, <2>1, Pieces DEF Enables
<1> HIDE DEF c
<1>6. Within(y \o c, 0, 3) /\ Within((y \o c) \o State(3, a), 0, 3)
  <2>1. Within(y, 0, 3)
    BY <1>0, <1>3, Wider
  <2> QED
    BY <1>0, <1>4, <1>5, <2>1, Blocks
<1>7. \E d \in 1..Len(y \o c) : Releases(y \o c, a, d)
  <2>1. Good(c) /\ 1 \in 1..Len(c) /\ Cleanup <= c[1].zone
    BY <1>4 DEF Within, Cleanup
  <2>2. \A i \in 1..Len(c) : /\ c[i].zone > 0
                             /\ i < 1 => c[i].zone < c[1].zone
                             /\ i > 1 => ~Enables(c[i], a)
    BY <1>4
  <2>3. 2 < c[1].zone
    BY <1>4
  <2> QED
    BY <1>0, <1>3, <1>4, <2>1, <2>2, <2>3, CleansUp
<1>8. \E d \in 1..Len((y \o c) \o State(3, a)) :
        Releases((y \o c) \o State(3, a), a, d)
  <2>1. Good(y \o c)
    BY <1>6 DEF Within
  <2> QED
    BY <1>5, <1>7, <2>1, 3 \in 1..5, CleansUpStill
<1>9. InCharge("motor-test", a) = {a}
  BY DEF InCharge, Named, Axes
<1>10. Len((y \o c) \o State(3, a)) >= 1
  <2>1. Len((y \o c) \o State(3, a)) \in Nat
    BY <1>6 DEF Within, Good
  <2> QED
    BY <1>8, <2>1
<1> QED
  BY <1>0, <1>6, <1>8, <1>9, <1>10, Wider DEF Cleanly

LEMMA DualTest ==
  ASSUME NEW a \in Axes PROVE Cleanly("dual-motor-test", a, RunDualMotorTest)
<1> DEFINE before == Greeting \o PrepareAxisMotorTest("PAN")
                       \o PrepareAxisMotorTest("TILT") \o CheckCalibration
                       \o <<Step(0, "ENABLE", "PAN", "OK"),
                            Step(0, "ENABLE", "TILT", "OK")>>
           y == before \o HomeTilt(1) \o WaitForHome(1)
                  \o RunDualSegment \o RunDualSegment
           c == <<Step(2, "STOP", "BOTH", "ANY"), Step(3, "DISABLE", "PAN", "ANY"),
                  Step(4, "DISABLE", "TILT", "ANY")>>
           p == y \o c
           u == p \o State(5, "PAN")
           v == u \o State(5, "TILT")
<1>0. /\ RunDualMotorTest = v
      /\ "PAN" \in Axes /\ "TILT" \in Axes
      /\ 0 \in 0..5 /\ 1 \in 0..5 /\ 4 \in 0..5 /\ 5 \in 0..5 /\ 5 \in 1..5
  BY DEF RunDualMotorTest, Axes
<1>1. Within(before, 0, 0)
  <2>1. Within(<<Step(0, "ENABLE", "PAN", "OK"), Step(0, "ENABLE", "TILT", "OK")>>,
               0, 0)
    <3>1. /\ Plain(Step(0, "ENABLE", "PAN", "OK"), 0)
          /\ Plain(Step(0, "ENABLE", "TILT", "OK"), 0)
      BY <1>0, PlainSteps, Answers
    <3> QED
      BY <1>0, <3>1, PlainPieces
  <2> QED
    BY <1>0, <2>1, Pieces, Preparing, Blocks
<1> HIDE DEF before
<1>2. Within(y, 0, 1)
  <2>1. Within(before, 0, 1)
    BY <1>0, <1>1, Wider
  <2> QED
    BY <1>0, <2>1, Pieces, Blocks
<1> HIDE DEF y
<1> DEFINE r == Step(2, "STOP", "BOTH", "ANY")
           s == Step(3, "DISABLE", "PAN", "ANY")
           t == Step(4, "DISABLE", "TILT", "ANY")
<1>3. /\ Plain(r, 2) /\ Plain(s, 3) /\ Plain(t, 4)
      /\ r.do = "STOP" /\ s.do = "DISABLE" /\ t.do = "DISABLE"
      /\ Request(s) = [do |-> "DISABLE", axis |-> "PAN"]
      /\ Request(t) = [do |-> "DISABLE", axis |-> "TILT"]
  <2>1. Plain(r, 2) /\ Plain(s, 3) /\ Plain(t, 4)
    BY <1>0, 2 \in 0..5, 3 \in 0..5, PlainSteps, Answers
  <2> QED
    BY <2>1 DEF Step, Request
<1>4. c = <<r, s, t>>
  OBVIOUS
<1> HIDE DEF r, s, t, c
<1>5. /\ c \in Seq(Steps) /\ Len(c) = 3 /\ c[1] = r /\ c[2] = s /\ c[3] = t
  BY <1>3, <1>4 DEF Plain
<1>6. \A i \in 1..3 : i = 1 \/ i = 2 \/ i = 3
  OBVIOUS
<1>7. \A i \in 1..3 : /\ c[i].zone = i + 1 /\ Request(c[i]) \in Requests
                      /\ c[i].expect # "READY_OR_CONFIGURE"
                      /\ i = 1 \/ c[i].do = "DISABLE"
                      /\ c[i].do \in {"STOP", "DISABLE"}
  BY <1>3, <1>5, <1>6 DEF Plain
<1>8. Within(c, 2, 4)
  BY <1>5, <1>7 DEF Within, Good
<1>9. Within(p, 0, 4) /\ Within(u, 0, 5) /\ Within(v, 0, 5)
  <2>1. Within(y, 0, 2)
    BY <1>0, <1>2, 2 \in 0..5, Wider
  <2>2. Within(p, 0, 4)
    BY <1>0, <1>8, <2>1, 2 \in 0..5, JoinedWithin
  <2>3. Within(p, 0, 5)
    BY <1>0, <2>2, Wider
  <2> HIDE DEF p
  <2> QED
    BY <1>0, <2>2, <2>3, Pieces, Blocks
<1>10. ASSUME NEW b \in Axes, NEW k \in {2, 3},
              Request(c[k]) = [do |-> "DISABLE", axis |-> b]
       PROVE  \E d \in 1..Len(v) : Releases(v, b, d)
  <2>1. /\ k \in 1..Len(c) /\ Good(c) /\ 1 < c[k].zone /\ Cleanup <= c[k].zone
        /\ \A i \in 1..Len(c) : /\ c[i].zone > 0
                                /\ i < k => c[i].zone < c[k].zone
                                /\ i > k => ~Enables(c[i], b)
    BY <1>5, <1>7, <1>8 DEF Within, Cleanup, Enables
  <2>2. \E d \in 1..Len(p) : Releases(p, b, d)
    BY <1>0, <1>2, <1>10, <2>1, CleansUp
  <2>3. ASSUME NEW x \in Axes
        PROVE  /\ Within(State(5, x), 5, 5)
               /\ \A i \in 1..Len(State(5, x)) : ~Enables(State(5, x)[i], b)
    <3>1. Len(State(5, x)) = 1 /\ State(5, x)[1].do = "STATE?"
      BY DEF State, Step
    <3> QED
      BY <1>0, <3>1, Pieces DEF Enables
  <2>4. Good(p) /\ Good(u)
    BY <1>9 DEF Within
  <2> HIDE DEF p
  <2>5. \E d \in 1..Len(u) : Releases(u, b, d)
    BY <1>0, <2>2, <2>3, <2>4, CleansUpStill
  <2> HIDE DEF u
  <2> QED
    BY <1>0, <2>3, <2>4, <2>5, CleansUpStill
<1>11. \A b \in Axes : \E d \in 1..Len(v) : Releases(v, b, d)
  BY <1>3, <1>5, <1>10 DEF Axes
<1>12. InCharge("dual-motor-test", a) = Axes
  BY DEF InCharge, Named
<1>13. Len(v) >= 1
  <2>1. Len(v) \in Nat
    BY <1>9 DEF Within, Good
  <2> QED
    BY <1>0, <1>11, <2>1
<1> QED
  BY <1>0, <1>9, <1>11, <1>12, <1>13 DEF Cleanly

\* A script without a try block.
LEMMA OneZone ==
  ASSUME NEW name, NEW a, NEW p, Within(p, 0, 0), Len(p) >= 1
  PROVE  Cleanly(name, a, p)
<1>1. \A i \in 1..Len(p) : p[i].zone \in 0..5
  BY GoodZones DEF Within
<1>2. ~\E i \in 1..Len(p) : p[i].zone > 0
  BY <1>1 DEF Within
<1>3. Within(p, 0, 5)
  BY Wider
<1> QED
  BY <1>2, <1>3 DEF Cleanly

LEMMA Longer ==
  ASSUME NEW s, NEW t, Within(s, 0, 0), Within(t, 0, 0), Len(t) >= 1
  PROVE  Within(s \o t, 0, 0) /\ Len(s \o t) >= 1
<1>1. Good(s) /\ Good(t)
  BY DEF Within
<1>2. Len(s \o t) = Len(s) + Len(t) /\ Len(s) \in Nat /\ Len(t) \in Nat
  BY <1>1, Joined
<1>3. Within(s \o t, 0, 0)
  BY JoinedWithin
<1> QED
  BY <1>2, <1>3

\* Every session of the utility runs such a script.
LEMMA Scripted ==
  \A name \in Names, a \in Axes : Cleanly(name, a, Script(name, a))
<1> TAKE name \in Names, a \in Axes
<1>0. "TILT" \in Axes /\ 0 \in 0..5
  BY DEF Axes
<1>1. CASE name = "motor-test"
  BY <1>1, SingleTest DEF Script
<1>2. CASE name = "dual-motor-test"
  BY <1>2, DualTest DEF Script
<1>3. CASE name = "home-tilt"
  <2> DEFINE p == PrepareAxisMotorTest("TILT") \o CheckCalibration
                    \o Endstop("PARSED") \o HomeTilt(0)
  <2>1. Within(p, 0, 0)
    BY <1>0, Pieces, Preparing, Blocks
  <2>2. Script(name, a) = p \o WaitForHome(0)
    BY <1>3 DEF Script
  <2> HIDE DEF p
  <2>3. Within(WaitForHome(0), 0, 0) /\ Len(WaitForHome(0)) >= 1
    BY <1>0, Pieces DEF WaitForHome
  <2> QED
    BY <2>1, <2>2, <2>3, Longer, OneZone
<1>4. CASE name = "tilt-dir-check"
  <2>1. Within(<<Step(0, "DIR-CHECK", "TILT", "OK")>>, 0, 0)
    BY <1>0, PlainSteps, PlainPieces, Answers
  <2> DEFINE p == PrepareAxisMotorTest("TILT") \o Endstop("RELEASED")
                    \o <<Step(0, "DIR-CHECK", "TILT", "OK")>>
  <2>2. Within(p, 0, 0)
    BY <1>0, <2>1, Pieces, Preparing, Blocks
  <2>3. Script(name, a) = p \o WaitForStop(0, "TILT")
    BY <1>4 DEF Script
  <2> HIDE DEF p
  <2>4. Within(WaitForStop(0, "TILT"), 0, 0) /\ Len(WaitForStop(0, "TILT")) >= 1
    <3>1. Len(WaitForStop(0, "TILT")) = 1
      BY DEF WaitForStop
    <3> QED
      BY <1>0, <3>1, Pieces
  <2> QED
    BY <2>2, <2>3, <2>4, Longer, OneZone
<1>5. CASE name = "jog-tilt"
  <2>1. Within(<<Step(0, "JOG", "TILT", "OK")>>, 0, 0)
    BY <1>0, PlainSteps, PlainPieces, Answers
  <2> DEFINE p == <<Step(0, "JOG", "TILT", "OK")>>
  <2>2. Script(name, a) = p \o WaitForStop(0, "TILT")
    BY <1>5 DEF Script
  <2> HIDE DEF p
  <2>3. Within(WaitForStop(0, "TILT"), 0, 0) /\ Len(WaitForStop(0, "TILT")) >= 1
    <3>1. Len(WaitForStop(0, "TILT")) = 1
      BY DEF WaitForStop
    <3> QED
      BY <1>0, <3>1, Pieces
  <2> QED
    BY <2>1, <2>2, <2>3, Longer, OneZone DEF p
<1>6. CASE name \in {"state", "driver", "endstop"}
  <2>1. /\ Within(State(0, a), 0, 0) /\ Within(QueryDriverReport(a), 0, 0)
        /\ Within(Endstop("PARSED"), 0, 0)
    BY <1>0, Pieces
  <2>2. /\ Len(State(0, a)) >= 1 /\ Len(QueryDriverReport(a)) >= 1
        /\ Len(Endstop("PARSED")) >= 1
    BY DEF State, QueryDriverReport, Endstop
  <2>3. Script(name, a) \in {State(0, a), QueryDriverReport(a), Endstop("PARSED")}
    BY <1>6 DEF Script
  <2> QED
    BY <2>1, <2>2, <2>3, OneZone
<1>7. CASE name \in {"configure-drivers", "velocity", "enable", "disable",
                     "stop", "ping", "info"}
  <2>1. /\ Plain(Step(0, "DRIVER CONFIGURE", "BOTH", "OK"), 0)
        /\ Plain(Step(0, "VEL", a, "ANY"), 0)
        /\ Plain(Step(0, "ENABLE", a, "ANY"), 0)
        /\ Plain(Step(0, "DISABLE", a, "ANY"), 0)
        /\ Plain(Step(0, "STOP", "BOTH", "ANY"), 0)
        /\ Plain(Step(0, "PING", "BOTH", "ANY"), 0)
        /\ Plain(Step(0, "INFO", "BOTH", "ANY"), 0)
    BY <1>0, PlainSteps, Answers
  <2>2. /\ Within(<<Step(0, "DRIVER CONFIGURE", "BOTH", "OK")>>, 0, 0)
        /\ Within(Send("VEL", a), 0, 0) /\ Within(Send("ENABLE", a), 0, 0)
        /\ Within(Send("DISABLE", a), 0, 0) /\ Within(Send("STOP", "BOTH"), 0, 0)
        /\ Within(Send("PING", "BOTH"), 0, 0) /\ Within(Send("INFO", "BOTH"), 0, 0)
    BY <1>0, <2>1, PlainPieces DEF Send
  <2> DEFINE configure == <<Step(0, "DRIVER CONFIGURE", "BOTH", "OK")>>
             scripts == {configure, Send("VEL", a), Send("ENABLE", a),
                         Send("DISABLE", a), Send("STOP", "BOTH"),
                         Send("PING", "BOTH"), Send("INFO", "BOTH")}
  <2>3. Script(name, a) \in scripts
    BY <1>7 DEF Script
  <2>4. Len(configure) >= 1 /\ \A do, axis : Len(Send(do, axis)) >= 1
    BY DEF Send
  <2> QED
    BY <2>2, <2>3, <2>4, OneZone
<1> QED
  BY <1>1, <1>2, <1>3, <1>4, <1>5, <1>6, <1>7 DEF Names

-----------------------------------------------------------------------------
\* A set of numbers has a least one.
LEMMA MinimalElements ==
  ASSUME NEW R, NEW S, IsWellFoundedOn(R, S)
  PROVE  \A T : T \subseteq S /\ T # {}
                  => \E x \in T : \A y \in T : ~ (<<y, x>> \in R)
BY WFMin, Zenon

LEMMA LeastNumber ==
  ASSUME NEW T, T \subseteq Nat, T # {}
  PROVE  \E x \in T : \A y \in T : x <= y
<1> DEFINE R == OpToRel(<, Nat)
<1>1. PICK x \in T : \A y \in T : ~ (<<y, x>> \in R)
  BY NatLessThanWellFounded, MinimalElements, Zenon
<1>2. ASSUME NEW y \in T PROVE x <= y
  <2>1. x \in Nat /\ y \in Nat /\ ~ (<<y, x>> \in R)
    BY <1>1
  <2>2. ~(y < x)
    BY <2>1 DEF OpToRel
  <2> HIDE DEF R
  <2> QED
    BY <2>1, <2>2
<1> QED
  BY <1>2

LEMMA FirstIsLeast ==
  ASSUME NEW T, T \subseteq Nat, T # {}
  PROVE  First(T) \in T /\ \A j \in T : First(T) <= j
<1>1. \E i \in T : \A j \in T : i <= j
  BY LeastNumber
<1> QED
  BY <1>1 DEF First

-----------------------------------------------------------------------------
(***************************************************************************)
(* The invariant.  An axis the session is in charge of has its disable     *)
(* ahead, or is left to be released already.                               *)
(***************************************************************************)
\* LeftToRelease, with the disable among the first k requests.
LeftBy(a, k) ==
    \/ /\ board.mode[a] \in {"OFF", "RELEASING"}
       /\ \A i \in DOMAIN sent : ~Enables(sent[i], a)
    \/ \E i \in DOMAIN sent :
         /\ i <= k /\ sent[i] = [do |-> "DISABLE", axis |-> a]
         /\ \A j \in DOMAIN sent : j > i => ~Enables(sent[j], a)

\* The same, with a disable the board has taken: it cannot be dropped.
Taken == Len(sent) - untaken
Firm(a) == LeftBy(a, Taken)

Charged(a) ==
    \E d \in 1..Len(Program) :
      /\ Releases(Program, a, d)
      /\ at = d /\ reading => LeftToRelease(a)
      /\ at > d => Firm(a)

HostType ==
    /\ script \in Scripts /\ at \in 0..Len(Program)
    /\ sent \in Seq(Requests) /\ untaken \in 0..Len(sent)
    /\ board \in BoardState /\ tested \subseteq Axes

ChargedOrReleased ==
    link => \A a \in tested \ abandoned : IF Open THEN Charged(a) ELSE Firm(a)

HostInv ==
    /\ HostType
    /\ Open /\ tested # {} => Current.zone > 0
    /\ ChargedOrReleased

LEMMA ProgramFacts ==
  ASSUME script \in Scripts
  PROVE  /\ script[1] \in Names /\ script[2] \in Axes
         /\ Program = Script(script[1], script[2])
         /\ Cleanly(script[1], script[2], Program)
         /\ Within(Program, 0, 5) /\ Program \in Seq(Steps)
         /\ Len(Program) \in Nat \ {0} /\ DOMAIN Program = 1..Len(Program)
         /\ \A i \in 1..Len(Program) : Program[i].zone \in 0..5
<1>1. script \in Names \X Axes
  BY HostAssumption
<1>2. script[1] \in Names /\ script[2] \in Axes
  BY <1>1
<1>3. Program = Script(script[1], script[2])
  BY DEF Program, Programs
<1> DEFINE p == Program
<1>4. Cleanly(script[1], script[2], p)
  BY <1>2, <1>3, Scripted
<1> HIDE DEF p
<1>5. Within(p, 0, 5) /\ Good(p) /\ p \in Seq(Steps)
  BY <1>4 DEF Cleanly, Within, Good
<1>6. Len(p) \in Nat \ {0} /\ DOMAIN p = 1..Len(p)
  BY <1>4, <1>5 DEF Cleanly
<1>7. \A i \in 1..Len(p) : p[i].zone \in 0..5
  BY <1>5, GoodZones
<1> QED
  BY <1>2, <1>3, <1>4, <1>5, <1>6, <1>7 DEF p

\* Places before and after the disable.
LEMMA Places ==
  ASSUME HostType, NEW a, NEW d \in 1..Len(Program), Releases(Program, a, d),
         Open
  PROVE  /\ at \in 1..Len(Program) /\ Current.zone \in 0..5
         /\ Program[d].zone \in 0..5 /\ Program[d].zone >= Cleanup
         /\ at < d => /\ Current.zone < Program[d].zone
                      /\ at + 1 <= d /\ at + 1 \in 1..Len(Program)
                      /\ Current.expect = "READY_OR_CONFIGURE" =>
                           at + 3 <= d /\ at + 3 \in 1..Len(Program)
         /\ at >= d => Current.zone >= Cleanup
<1>1. /\ Len(Program) \in Nat /\ at \in 1..Len(Program)
      /\ \A i \in 1..Len(Program) : Program[i].zone \in 0..5
  BY ProgramFacts DEF HostType, Open
<1>2. /\ Program[d].zone >= Cleanup /\ Current = Program[at]
      /\ at < d => Current.zone < Program[d].zone
      /\ Current.expect = "READY_OR_CONFIGURE" => at + 3 <= d
  BY <1>1 DEF Releases, Current
<1>3. at >= d => Current.zone >= Program[d].zone
  BY <1>1, <1>2, ProgramFacts DEF HostType, Within
<1> QED
  BY <1>1, <1>2, <1>3 DEF Cleanup

\* A move past the disable of an axis is made when the disable is out.
MoveFits(a, d, i) ==
    /\ at < d /\ (Current.zone > 0 \/ i \in 1..Len(Program)) => i <= d /\ i # 0
    /\ at = d => Flushed
Keeps(a) == Firm(a) => Firm(a)'

LEMMA FirmLeaves ==
  ASSUME HostType, NEW a
  PROVE  /\ Firm(a) => LeftToRelease(a)
         /\ untaken = 0 /\ LeftToRelease(a) => Firm(a)
<1>1. /\ Len(sent) \in Nat /\ DOMAIN sent = 1..Len(sent)
      /\ untaken = 0 => \A i \in DOMAIN sent : i <= Taken
  BY DEF HostType, Taken
<1> QED
  BY <1>1 DEF Firm, LeftBy, LeftToRelease

\* The move of a session: to the step i, or out of it.
LEMMA Moves ==
  ASSUME HostInv, Open, NEW i \in Nat, Goto(i),
         UNCHANGED <<script, link, board>>,
         sent' \in Seq(Requests), untaken' \in 0..Len(sent'),
         i \in 1..Len(Program) => Current.zone <= Program[i].zone,
         abandoned \subseteq abandoned',
         link => \A a \in Axes \ abandoned' : \A d \in 1..Len(Program) :
           Releases(Program, a, d) => MoveFits(a, d, i) /\ (at >= d => Keeps(a))
  PROVE  HostInv'
<1> DEFINE c == InCharge(script[1], script[2])
<1>0. /\ Program' = Program /\ script \in Scripts
      /\ at \in 1..Len(Program) /\ Len(Program) \in Nat
      /\ DOMAIN Program = 1..Len(Program)
      /\ \A j \in 1..Len(Program) : Program[j].zone \in 0..5
      /\ Current = Program[at] /\ Current.zone \in 0..5
      /\ tested \subseteq Axes
  BY ProgramFacts DEF HostInv, HostType, Program, Programs, Open, Current
<1>1. /\ at' = IF i \in 1..Len(Program) THEN i ELSE 0
      /\ ~reading'
  BY <1>0 DEF Goto
<1>2. /\ tested' = IF at' # 0 /\ Current.zone = 0 /\ Program[i].zone > 0
                   THEN c ELSE tested
      /\ c \subseteq Axes
  BY <1>0, ProgramFacts DEF Goto, InCharge, Named, Axes
<1>4. HostType'
  BY <1>0, <1>1, <1>2 DEF HostInv, HostType
<1>5. (Open /\ tested # {} => Current.zone > 0)'
  <2> SUFFICES ASSUME at' # 0, tested' # {} PROVE Program[at'].zone > 0
    BY <1>0 DEF Open, Current
  <2>1. at' = i /\ i \in 1..Len(Program) /\ Current.zone <= Program[i].zone
    BY <1>1
  <2>2. CASE tested = {}
    BY <1>2, <2>1, <2>2
  <2>3. CASE tested # {}
    <3>1. Current.zone > 0
      BY <2>3 DEF HostInv
    <3>2. Current.zone \in 0..5 /\ Program[i].zone \in 0..5
      BY <1>0, <2>1
    <3> QED
      BY <2>1, <3>1, <3>2
  <2> QED
    BY <2>2, <2>3
<1>6. ChargedOrReleased'
  <2> SUFFICES ASSUME link, NEW a \in tested', a \notin abandoned'
               PROVE  IF at' # 0 THEN Charged(a)' ELSE Firm(a)'
    BY DEF ChargedOrReleased, Open
  <2>0. /\ a \in Axes /\ a \notin abandoned
        /\ \A d \in 1..Len(Program) : Releases(Program, a, d) =>
             MoveFits(a, d, i) /\ (at >= d => Keeps(a))
    BY <1>0, <1>2
  <2>1. ASSUME NEW d \in 1..Len(Program), Releases(Program, a, d), at' # 0,
               i <= d
        PROVE  Charged(a)'
    BY <1>0, <1>1, <2>1 DEF Charged
  <2>2. CASE a \in tested
    <3>1. PICK d \in 1..Len(Program) :
            /\ Releases(Program, a, d)
            /\ at = d /\ reading => LeftToRelease(a)
            /\ at > d => Firm(a)
      BY <2>0, <2>2 DEF HostInv, ChargedOrReleased, Charged
    <3>2. Current.zone > 0
      BY <2>2 DEF HostInv
    <3>3. CASE at < d
      <4>1. i <= d /\ i # 0
        BY <2>0, <3>1, <3>2, <3>3 DEF MoveFits
      <4> QED
        BY <1>1, <2>1, <3>1, <4>1
    <3>4. CASE ~(at < d)
      <4>1. at >= d
        BY <1>0, <3>4
      <4>2. Firm(a)
        <5>1. CASE at > d
          BY <3>1, <5>1
        <5>2. CASE at = d
          <6>1. reading /\ untaken = 0
            BY <2>0, <3>1, <5>2 DEF MoveFits, Flushed
          <6> QED
            BY <3>1, <5>2, <6>1, FirmLeaves DEF HostInv
        <5> QED
          BY <1>0, <4>1, <5>1, <5>2
      <4>4. Firm(a)'
        BY <2>0, <3>1, <4>1, <4>2 DEF Keeps
      <4>5. at' # 0 => Charged(a)'
        BY <1>0, <1>1, <3>1, <4>4 DEF Charged
      <4> QED
        BY <4>4, <4>5
    <3> QED
      BY <3>3, <3>4
  <2>3. CASE a \notin tested
    <3>1. /\ at' # 0 /\ Current.zone = 0 /\ Program[i].zone > 0 /\ a \in c
          /\ i \in 1..Len(Program)
      BY <1>1, <1>2, <2>3
    <3>2. PICK d \in 1..Len(Program) : Releases(Program, a, d)
      BY <1>0, <3>1, ProgramFacts DEF Cleanly
    <3>3. at < d
      <4>1. ~(at >= d)
        BY <3>1, <3>2, Places DEF HostInv, Cleanup
      <4> QED
        BY <1>0, <4>1
    <3>4. i <= d
      BY <2>0, <3>1, <3>2, <3>3 DEF MoveFits
    <3> QED
      BY <2>1, <3>1, <3>2, <3>4
  <2> QED
    BY <2>2, <2>3
<1> QED
  BY <1>4, <1>5, <1>6 DEF HostInv

LEMMA StepsOn ==
  ASSUME HostInv, Open, Flushed, NextStep \/ Again \/
         (SkipsConfigure /\ Current.expect = "READY_OR_CONFIGURE"),
         UNCHANGED <<script, link, sent, untaken, board, abandoned>>
  PROVE  HostInv'
<1>0. /\ at \in 1..Len(Program) /\ Len(Program) \in Nat /\ Current = Program[at]
      /\ Within(Program, 0, 5) /\ HostType
      /\ sent' \in Seq(Requests) /\ untaken' \in 0..Len(sent')
  BY ProgramFacts DEF HostInv, HostType, Open, Current
<1>a. \A a : /\ Keeps(a)
             /\ Firm(a)' <=> Firm(a)
             /\ LeftToRelease(a)' <=> LeftToRelease(a)
  BY DEF Keeps, Firm, LeftBy, Taken, LeftToRelease
<1>1. \A a \in Axes : \A d \in 1..Len(Program) :
        Releases(Program, a, d) =>
          /\ at < d => at + 1 <= d
          /\ at < d /\ Current.expect = "READY_OR_CONFIGURE" => at + 3 <= d
          /\ MoveFits(a, d, at + 1)
          /\ Current.expect = "READY_OR_CONFIGURE" => MoveFits(a, d, at + 3)
  BY <1>0, Places DEF MoveFits
<1>2. \A i \in 1..Len(Program) : at <= i => Current.zone <= Program[i].zone
  BY <1>0 DEF Within
<1>3. CASE NextStep
  BY <1>0, <1>a, <1>1, <1>2, <1>3, Moves DEF NextStep
<1>4. CASE SkipsConfigure /\ Current.expect = "READY_OR_CONFIGURE"
  BY <1>0, <1>a, <1>1, <1>2, <1>4, Moves DEF SkipsConfigure
<1>5. CASE Again
  <2>1. /\ at' = at /\ tested' = tested /\ ~reading' /\ Program' = Program
        /\ Current' = Current
    BY <1>5 DEF Again, Program, Programs, Current
  <2>2. \A a : Charged(a) => Charged(a)'
    BY <1>a, <2>1 DEF Charged
  <2> QED
    BY <1>a, <2>1, <2>2 DEF HostInv, HostType, ChargedOrReleased, Open
<1> QED
  BY <1>3, <1>4, <1>5

\* A step that fails: out of the session, or to the first step of a later
\* zone, which is no later than the disable.
LEMMA Raises ==
  ASSUME HostInv, Open, Raise, UNCHANGED <<script, link, board>>,
         sent' \in Seq(Requests), untaken' \in 0..Len(sent'),
         abandoned \subseteq abandoned', link => Undone \subseteq abandoned',
         link => \A a \in Axes, d \in 1..Len(Program) :
                   Releases(Program, a, d) /\ at >= d => Keeps(a)
  PROVE  HostInv'
<1>0. /\ at \in 1..Len(Program) /\ Len(Program) \in Nat /\ Current = Program[at]
      /\ DOMAIN Program = 1..Len(Program) /\ HostType
      /\ \A j \in 1..Len(Program) : Program[j].zone \in 0..5
  BY ProgramFacts DEF HostInv, HostType, Open, Current
<1>a. ASSUME link, NEW a \in Axes, a \notin abandoned',
             NEW d \in 1..Len(Program), Releases(Program, a, d)
      PROVE  /\ at = d => Flushed
             /\ at >= d => Keeps(a)
  <2>1. at = d => Current.do = "DISABLE" /\ Current.axis = a
    BY <1>0, <1>a DEF Releases, Request
  <2> QED
    BY <1>a, <2>1 DEF Undone
<1>1. CASE Current.zone = 0
  <2>1. Goto(0) /\ 0 \notin 1..Len(Program)
    BY <1>0, <1>1 DEF Raise
  <2> QED
    BY <1>0, <1>a, <1>1, <2>1, Moves DEF MoveFits
<1>2. CASE Current.zone # 0 /\ NextZones = {}
  <2>1. Goto(0) /\ 0 \notin 1..Len(Program)
    BY <1>0, <1>2 DEF Raise
  <2>2. \A a \in Axes : \A d \in 1..Len(Program) :
          ~(Releases(Program, a, d) /\ at < d)
    <3>1. \A d \in 1..Len(Program) : ~(Program[d].zone > Current.zone)
      BY <1>0, <1>2 DEF NextZones
    <3> QED
      BY <1>0, <3>1, Places
  <2> QED
    BY <1>0, <1>a, <2>1, <2>2, Moves DEF MoveFits
<1>3. CASE Current.zone # 0 /\ NextZones # {}
  <2> DEFINE i == First(NextZones)
  <2>1. NextZones \subseteq Nat
    BY <1>0 DEF NextZones
  <2>2. i \in NextZones /\ \A j \in NextZones : i <= j
    BY <1>3, <2>1, FirstIsLeast
  <2>3. Goto(i)
    BY <1>3 DEF Raise
  <2> HIDE DEF i
  <2>4. i \in 1..Len(Program) /\ Program[i].zone > Current.zone
    BY <1>0, <2>2 DEF NextZones
  <2>5. ASSUME NEW a \in Axes, NEW d \in 1..Len(Program),
               Releases(Program, a, d), at < d
        PROVE  i <= d /\ i # 0
    <3>1. Program[d].zone > Current.zone
      BY <1>0, <2>5, Places
    <3>2. d \in NextZones
      BY <1>0, <3>1 DEF NextZones
    <3> QED
      BY <2>2, <2>4, <3>2
  <2>6. Current.zone <= Program[i].zone
    BY <1>0, <2>4
  <2>7. link => \A a \in Axes \ abandoned' : \A d \in 1..Len(Program) :
          Releases(Program, a, d) => MoveFits(a, d, i) /\ (at >= d => Keeps(a))
    BY <1>a, <2>5 DEF MoveFits
  <2>8. i \in Nat
    BY <1>0, <2>4
  <2> QED
    BY <2>3, <2>6, <2>7, <2>8, Moves
<1> QED
  BY <1>1, <1>2, <1>3

LEMMA TakesLines ==
  ASSUME HostInv, Open, Flushed, NEW r, Takes(r),
         UNCHANGED <<script, link, sent, untaken, board, abandoned>>
  PROVE  HostInv'
<1>1. \/ NextStep
      \/ SkipsConfigure /\ Current.expect = "READY_OR_CONFIGURE"
      \/ Again
      \/ Raise
  BY DEF Takes
<1>2. /\ Undone = {} /\ \A a : Keeps(a)
      /\ sent' \in Seq(Requests) /\ untaken' \in 0..Len(sent')
  BY DEF Undone, Keeps, Firm, LeftBy, Taken, HostInv, HostType
<1> QED
  BY <1>1, <1>2, StepsOn, Raises

-----------------------------------------------------------------------------
\* What the board does to the axes.
LEMMA ModeSet ==
  ASSUME NEW b \in BoardState, NEW a \in Axes, NEW mode \in Modes
  PROVE  /\ WithMode(b, a, mode) \in BoardState
         /\ WithMode(b, a, mode).mode = [b.mode EXCEPT ![a] = mode]
<1> DEFINE keeps == a = "PAN" \/ mode \in {"REST", "BUSY"}
<1>1. PICK h \in BOOLEAN : h = (b.homed /\ keeps)
  OBVIOUS
<1>2. WithMode(b, a, mode) = [b EXCEPT !.mode[a] = mode, !.homed = h]
  <2> DEFINE x == [b EXCEPT !.mode[a] = mode]
  <2>1. x.homed = b.homed
    BY DEF BoardState
  <2>2. WithMode(b, a, mode) = [x EXCEPT !.homed = x.homed /\ keeps]
    BY Zenon DEF WithMode
  <2> HIDE DEF x, keeps
  <2>3. WithMode(b, a, mode) = [x EXCEPT !.homed = h]
    BY <1>1, <2>1, <2>2, Zenon
  <2> QED
    BY <2>3 DEF x
<1>3. /\ b.mode \in [Axes -> Modes] /\ b.driver \in [Axes -> Drivers]
      /\ b.calibrated \in BOOLEAN
  BY DEF BoardState
<1>4. PICK m : m = [b.mode EXCEPT ![a] = mode]
  OBVIOUS
<1>5. m \in [Axes -> Modes]
  BY <1>3, <1>4
<1>6. WithMode(b, a, mode)
        = [mode |-> m, driver |-> b.driver, homed |-> h, calibrated |-> b.calibrated]
  BY <1>2, <1>4 DEF BoardState
<1> QED
  BY <1>3, <1>4, <1>5, <1>6 DEF BoardState

LEMMA ModeAt ==
  ASSUME NEW b \in BoardState, NEW a \in Axes, NEW mode \in Modes, NEW x \in Axes
  PROVE  WithMode(b, a, mode).mode[x] = IF x = a THEN mode ELSE b.mode[x]
<1>1. b.mode \in [Axes -> Modes]
  BY DEF BoardState
<1>2. WithMode(b, a, mode).mode = [b.mode EXCEPT ![a] = mode]
  BY ModeSet
<1> QED
  BY <1>1, <1>2

LEMMA OthersKeep ==
  ASSUME NEW b \in BoardState, NEW a \in Axes, NEW mode \in Modes
  PROVE  /\ WithMode(b, a, mode) \in BoardState
         /\ \A x \in Axes : x # a => WithMode(b, a, mode).mode[x] = b.mode[x]
<1>1. ASSUME NEW x \in Axes, x # a
      PROVE  WithMode(b, a, mode).mode[x] = b.mode[x]
  <2>1. WithMode(b, a, mode).mode[x] = IF x = a THEN mode ELSE b.mode[x]
    BY ModeAt
  <2> QED
    BY <1>1, <2>1
<1> QED
  BY <1>1, ModeSet

\* Off, or on its way to off.
Disarmed(b, a) == b.mode[a] \in {"OFF", "RELEASING"}

\* A step of the board from b to c arms no axis.
ArmsNone(b, c) == c \in BoardState /\ \A a \in Axes : Disarmed(b, a) => Disarmed(c, a)

LEMMA Releasing ==
  ASSUME NEW b \in BoardState, NEW a \in Axes
  PROVE  ArmsNone(b, Released(b, a)) /\ Disarmed(Released(b, a), a)
<1> DEFINE m == IF Standing(b, a) THEN "OFF" ELSE "RELEASING"
<1>1. m \in Modes /\ m \in {"OFF", "RELEASING"}
  BY DEF Modes
<1>2. Released(b, a) = WithMode(b, a, m)
  BY DEF Released
<1> HIDE DEF m
<1>3. /\ Released(b, a) \in BoardState
      /\ Released(b, a).mode = [b.mode EXCEPT ![a] = m]
  BY <1>1, <1>2, ModeSet
<1>4. b.mode \in [Axes -> Modes]
  BY DEF BoardState
<1> QED
  BY <1>1, <1>3, <1>4 DEF ArmsNone, Disarmed

LEMMA DriversSet ==
  ASSUME NEW b \in BoardState, NEW driver \in [Axes -> Drivers]
  PROVE  /\ [b EXCEPT !.driver = driver] \in BoardState
         /\ [b EXCEPT !.driver = driver].mode = b.mode
  BY DEF BoardState

LEMMA Refreshing ==
  ASSUME NEW b \in BoardState, NEW a \in Axes, NEW c \in Refreshed(b, a)
  PROVE  ArmsNone(b, c)
<1>1. PICK f \in Findings(b.driver[a]) :
        \/ c = [b EXCEPT !.driver[a] = f.class]
        \/ c = Released([b EXCEPT !.driver[a] = f.class], a)
  BY DEF Refreshed
<1> DEFINE x == [b EXCEPT !.driver[a] = f.class]
<1>2. f.class \in Drivers
  BY <1>1 DEF Findings, Finding, Drivers
<1>3. x \in BoardState /\ x.mode = b.mode
  <2>1. PICK driver : driver = [b.driver EXCEPT ![a] = f.class]
    OBVIOUS
  <2>2. driver \in [Axes -> Drivers]
    BY <1>2, <2>1 DEF BoardState
  <2>3. x = [b EXCEPT !.driver = driver]
    BY <2>1 DEF BoardState
  <2> QED
    BY <2>2, <2>3, DriversSet
<1>4. c = x \/ c = Released(x, a)
  BY <1>1
<1> HIDE DEF x
<1>5. ArmsNone(x, Released(x, a))
  BY <1>3, Releasing
<1> QED
  BY <1>3, <1>4, <1>5 DEF ArmsNone, Disarmed

LEMMA Moving ==
  ASSUME NEW b \in BoardState, NEW a \in Axes, NEW mode \in Modes,
         ~Disarmed(b, a)
  PROVE  ArmsNone(b, WithMode(b, a, mode))
<1>1. ASSUME NEW x \in Axes, Disarmed(b, x)
      PROVE  Disarmed(WithMode(b, a, mode), x)
  <2>1. x # a
    BY <1>1
  <2> QED
    BY <1>1, <2>1, ModeAt DEF Disarmed
<1> QED
  BY <1>1, ModeSet DEF ArmsNone

\* What a request does: unless it enables an axis, it arms none, and a
\* disable disarms.
LEMMA Serving ==
  ASSUME NEW b \in BoardState, NEW q \in Requests, NEW e \in Effects(b, q)
  PROVE  /\ e.board \in BoardState
         /\ \A a \in Axes : Disarmed(b, a) /\ ~Enables(q, a) => Disarmed(e.board, a)
         /\ \A a \in Axes :
              q = [do |-> "DISABLE", axis |-> a] => Disarmed(e.board, a)
<1> DEFINE a == q.axis
<1>0. /\ \A r : Effect(b, r).board = b
      /\ \A c, r : Effect(c, r).board = c
      /\ Refusal(b).board = b
      /\ ArmsNone(b, b)
      /\ "TILT" \in Axes /\ "REST" \in Modes /\ "BUSY" \in Modes
      /\ "HOMING" \in Modes
  BY DEF Effect, Refusal, ArmsNone, Axes, Modes
<1>a. ASSUME ArmsNone(b, e.board), q.do # "DISABLE"
      PROVE  /\ e.board \in BoardState
             /\ \A x \in Axes : Disarmed(b, x) /\ ~Enables(q, x)
                                 => Disarmed(e.board, x)
             /\ \A x \in Axes :
                  q = [do |-> "DISABLE", axis |-> x] => Disarmed(e.board, x)
  BY <1>a DEF ArmsNone
<1>1. CASE q.do \in {"PING", "INFO", "DRIVER-DIAG?", "STATE?", "ENDSTOP?"}
  <2>1. e.board = b
    BY <1>0, <1>1 DEF Effects
  <2> QED
    BY <1>0, <1>1, <1>a, <2>1
<1>2. CASE q.do = "STOP"
  <2>1. e.board = Stopped(b)
    BY <1>0, <1>2 DEF Effects
  <2>2. ArmsNone(b, Stopped(b))
    BY <1>0, Moving DEF Stopped, Disarmed
  <2> QED
    BY <1>2, <1>a, <2>1, <2>2
<1>3. CASE q.do = "DISABLE"
  <2>1. a \in Axes
    BY <1>3 DEF Requests
  <2>2. e.board = Released(b, a)
    BY <1>0, <1>3 DEF Effects
  <2>3. ArmsNone(b, e.board) /\ Disarmed(e.board, a)
    BY <2>1, <2>2, Releasing
  <2> QED
    BY <2>3 DEF ArmsNone
<1>4. CASE q.do = "DRIVER?"
  <2>1. a \in Axes
    BY <1>4 DEF Requests
  <2>2. e.board \in Refreshed(b, a)
    BY <1>0, <1>4 DEF Effects
  <2>3. ArmsNone(b, e.board)
    BY <2>1, <2>2, Refreshing
  <2> QED
    BY <1>4, <1>a, <2>3
<1>5. CASE q.do = "DRIVER CONFIGURE"
  <2>1. \/ e \in {Refusal(b)}
        \/ \E driver \in [Axes -> Drivers] : \E r :
             e = Effect([b EXCEPT !.driver = driver], r)
    BY <1>5 DEF Effects
  <2>2. \/ e.board = b
        \/ \E driver \in [Axes -> Drivers] : e.board = [b EXCEPT !.driver = driver]
    BY <2>1 DEF Effect, Refusal
  <2>3. ASSUME NEW driver \in [Axes -> Drivers]
        PROVE  ArmsNone(b, [b EXCEPT !.driver = driver])
    <3> DEFINE c == [b EXCEPT !.driver = driver]
    <3>1. c \in BoardState /\ c.mode = b.mode
      BY DriversSet
    <3> HIDE DEF c
    <3>2. ArmsNone(b, c)
      BY <3>1 DEF ArmsNone, Disarmed
    <3> QED
      BY <3>2 DEF c
  <2>4. ArmsNone(b, e.board)
    BY <1>0, <2>2, <2>3
  <2> QED
    BY <1>5, <1>a, <2>4
<1>6. CASE q.do = "ENABLE"
  <2>1. a \in Axes
    BY <1>6 DEF Requests
  <2>2. e.board = b \/ e.board = WithMode(b, a, "REST")
    BY <1>0, <1>6 DEF Effects
  <2>3. /\ e.board \in BoardState
        /\ \A x \in Axes : x # a => e.board.mode[x] = b.mode[x]
    <3>1. CASE e.board = b
      BY <3>1
    <3>2. CASE e.board = WithMode(b, a, "REST")
      <4> DEFINE c == WithMode(b, a, "REST")
      <4>1. c \in BoardState /\ \A x \in Axes : x # a => c.mode[x] = b.mode[x]
        BY <1>0, <2>1, OthersKeep
      <4> HIDE DEF c
      <4> QED
        BY <3>2, <4>1 DEF c
    <3> QED
      BY <2>2, <3>1, <3>2
  <2>4. \A x \in Axes : ~Enables(q, x) => x # a
    BY <1>6 DEF Enables
  <2>5. \A x \in Axes : q # [do |-> "DISABLE", axis |-> x]
    BY <1>6
  <2> QED
    BY <2>3, <2>4, <2>5 DEF Disarmed
<1>7. CASE q.do = "VEL"
  <2>1. \/ e.board = b
        \/ /\ \A x \in Named(a) : MayMove(b, x)
           /\ e.board = [b EXCEPT !.mode = [x \in Axes |->
                           IF x \in Named(a) THEN "BUSY" ELSE b.mode[x]]]
    BY <1>0, <1>7 DEF Effects
  <2>2. ArmsNone(b, e.board)
    <3>1. PICK m : m = [x \in Axes |-> IF x \in Named(a) THEN "BUSY" ELSE b.mode[x]]
      OBVIOUS
    <3>2. m \in [Axes -> Modes]
      BY <1>0, <3>1 DEF BoardState
    <3>3. [b EXCEPT !.mode = m] \in BoardState /\ [b EXCEPT !.mode = m].mode = m
      BY <3>2 DEF BoardState
    <3>4. ASSUME \A x \in Named(a) : MayMove(b, x), NEW x \in Axes, Disarmed(b, x)
          PROVE  m[x] = b.mode[x]
      BY <3>1, <3>4 DEF MayMove, Disarmed
    <3> DEFINE c == [b EXCEPT !.mode = m]
    <3>5. e.board = b \/ (e.board = c /\ \A x \in Named(a) : MayMove(b, x))
      BY <2>1, <3>1
    <3>6. c \in BoardState /\ c.mode = m
      BY <3>3
    <3> HIDE DEF c
    <3>7. (\A x \in Named(a) : MayMove(b, x)) => ArmsNone(b, c)
      BY <3>4, <3>6 DEF ArmsNone, Disarmed
    <3> QED
      BY <1>0, <3>5, <3>7
  <2> QED
    BY <1>7, <1>a, <2>2
<1>8. CASE q.do \in {"HOME", "DIR-CHECK"}
  <2>1. a = "TILT"
    BY <1>8 DEF Requests
  <2>2. \/ e = Refusal(b)
        \/ e = Effect(WithMode(b, "TILT", "HOMING"), Ok)
        \/ e = Effect(WithMode(b, "TILT", "BUSY"), Ok)
    BY <1>8 DEF Effects
  <2>3. /\ e.board \in BoardState
        /\ \A x \in Axes : x # "TILT" => e.board.mode[x] = b.mode[x]
    <3>1. \/ e.board = b
          \/ \E mode \in Modes : e.board = WithMode(b, "TILT", mode)
      BY <1>0, <2>2
    <3>2. ASSUME NEW mode \in Modes
          PROVE  /\ WithMode(b, "TILT", mode) \in BoardState
                 /\ \A x \in Axes : x # "TILT" =>
                      WithMode(b, "TILT", mode).mode[x] = b.mode[x]
      BY <1>0, OthersKeep
    <3> QED
      BY <3>1, <3>2
  <2>4. \A x \in Axes : ~Enables(q, x) => x # "TILT"
    BY <1>8, <2>1 DEF Enables
  <2>5. \A x \in Axes : q # [do |-> "DISABLE", axis |-> x]
    BY <1>8
  <2> QED
    BY <2>3, <2>4, <2>5 DEF Disarmed
<1>9. CASE q.do = "JOG"
  <2>1. \/ e.board = b
        \/ b.mode["TILT"] = "REST" /\ e.board = WithMode(b, "TILT", "BUSY")
    BY <1>0, <1>9 DEF Effects
  <2>2. ArmsNone(b, e.board)
    BY <1>0, <2>1, Moving DEF Disarmed
  <2> QED
    BY <1>9, <1>a, <2>2
<1>10. q.do \in Dos
  BY DEF Requests, Dos
<1> QED
  BY <1>1, <1>2, <1>3, <1>4, <1>5, <1>6, <1>7, <1>8, <1>9, <1>10 DEF Dos

LEMMA Ending ==
  ASSUME NEW b \in BoardState, NEW a \in Axes, NEW c \in Ended(b, a)
  PROVE  ArmsNone(b, c)
<1>0. "OFF" \in Modes /\ "REST" \in Modes /\ "RELEASING" \in Modes
  BY DEF Modes
<1>1. CASE b.mode[a] = "RELEASING"
  <2>1. c = WithMode(b, a, "OFF")
    BY <1>1 DEF Ended
  <2>2. ASSUME NEW x \in Axes, Disarmed(b, x) PROVE Disarmed(c, x)
    BY <1>0, <2>1, <2>2, ModeAt DEF Disarmed
  <2> QED
    BY <1>0, <2>1, <2>2, ModeSet DEF ArmsNone
<1>2. CASE b.mode[a] \in {"BUSY", "HOMING"}
  <2> DEFINE y == WithMode(b, a, "REST")
             z == [y EXCEPT !.homed = TRUE]
  <2>1. \/ \E mode \in Modes : c = WithMode(b, a, mode)
        \/ c = z
    BY <1>0, <1>2 DEF Ended
  <2>2. \A mode \in Modes : ArmsNone(b, WithMode(b, a, mode))
    BY <1>2, Moving DEF Disarmed
  <2>3. ArmsNone(b, y)
    BY <1>0, <2>2
  <2> HIDE DEF y
  <2>4. z \in BoardState /\ z.mode = y.mode
    BY <2>3 DEF ArmsNone, BoardState
  <2> HIDE DEF z
  <2>5. ArmsNone(b, z)
    BY <2>3, <2>4 DEF ArmsNone, Disarmed
  <2> QED
    BY <2>1, <2>2, <2>5
<1>3. CASE b.mode[a] \notin {"RELEASING", "BUSY", "HOMING"}
  BY <1>3 DEF Ended
<1> QED
  BY <1>1, <1>2, <1>3

-----------------------------------------------------------------------------
\* The queue of requests.
LEMMA Queued ==
  ASSUME sent \in Seq(Requests), NEW q \in Requests, sent' = Append(sent, q),
         board' = board, NEW a
  PROVE  /\ sent' \in Seq(Requests) /\ Len(sent') = Len(sent) + 1
         /\ \A k : LeftBy(a, k) /\ ~Enables(q, a) => LeftBy(a, k)'
         /\ q = [do |-> "DISABLE", axis |-> a] => LeftToRelease(a)'
<1>1. /\ sent' \in Seq(Requests) /\ Len(sent) \in Nat /\ Len(sent') = Len(sent) + 1
      /\ DOMAIN sent = 1..Len(sent) /\ DOMAIN sent' = 1..Len(sent')
      /\ sent'[Len(sent')] = q
      /\ \A i \in 1..Len(sent) : sent'[i] = sent[i]
  OBVIOUS
<1>2. \A i \in DOMAIN sent' : i \in DOMAIN sent \/ i = Len(sent')
  BY <1>1
<1>3. \A i \in DOMAIN sent : i \in DOMAIN sent' /\ sent'[i] = sent[i]
  BY <1>1
<1>4. ASSUME NEW k, LeftBy(a, k), ~Enables(q, a) PROVE LeftBy(a, k)'
  <2>1. CASE /\ board.mode[a] \in {"OFF", "RELEASING"}
             /\ \A i \in DOMAIN sent : ~Enables(sent[i], a)
    <3>1. \A i \in DOMAIN sent' : ~Enables(sent'[i], a)
      BY <1>1, <1>2, <1>3, <1>4, <2>1
    <3> QED
      BY <2>1, <3>1 DEF LeftBy
  <2>2. ASSUME NEW i \in DOMAIN sent, i <= k,
               sent[i] = [do |-> "DISABLE", axis |-> a],
               \A j \in DOMAIN sent : j > i => ~Enables(sent[j], a)
        PROVE  LeftBy(a, k)'
    <3>1. i \in DOMAIN sent' /\ sent'[i] = [do |-> "DISABLE", axis |-> a]
      BY <1>3, <2>2
    <3>2. \A j \in DOMAIN sent' : j > i => ~Enables(sent'[j], a)
      BY <1>1, <1>2, <1>3, <1>4, <2>2
    <3> QED
      BY <2>2, <3>1, <3>2 DEF LeftBy
  <2> QED
    BY <1>4, <2>1, <2>2 DEF LeftBy
<1>5. ASSUME q = [do |-> "DISABLE", axis |-> a] PROVE LeftToRelease(a)'
  <2>1. /\ Len(sent') \in DOMAIN sent' /\ sent'[Len(sent')] = [do |-> "DISABLE", axis |-> a]
        /\ \A j \in DOMAIN sent' : ~(j > Len(sent'))
    BY <1>1, <1>5
  <2> QED
    BY <2>1 DEF LeftToRelease
<1> QED
  BY <1>1, <1>4, <1>5

\* A release that is under way stays so when the port holds one more request.
LEMMA PortHoldsMore ==
  ASSUME HostType, NEW q \in Requests, sent' = Append(sent, q),
         untaken' = untaken + 1, board' = board
  PROVE  /\ sent' \in Seq(Requests) /\ untaken' \in 0..Len(sent')
         /\ \A a : ~Enables(q, a) => Keeps(a)
         /\ \A a : q = [do |-> "DISABLE", axis |-> a] => LeftToRelease(a)'
<1>1. sent \in Seq(Requests) /\ Len(sent) \in Nat /\ untaken \in 0..Len(sent)
  BY DEF HostType
<1>2. /\ sent' \in Seq(Requests) /\ untaken' \in 0..Len(sent')
      /\ Taken' = Taken
      /\ \A a : q = [do |-> "DISABLE", axis |-> a] => LeftToRelease(a)'
  BY <1>1, Queued DEF Taken
<1>3. ASSUME NEW a, ~Enables(q, a), Firm(a) PROVE Firm(a)'
  <2>1. PICK k : k = Taken
    OBVIOUS
  <2>2. LeftBy(a, k)
    BY <1>3, <2>1 DEF Firm
  <2>3. LeftBy(a, k)'
    BY <1>1, <1>3, <2>2, Queued
  <2>4. Taken' = k
    BY <1>2, <2>1
  <2> QED
    BY <2>3, <2>4 DEF Firm, LeftBy
<1> QED
  BY <1>2, <1>3 DEF Keeps

LEMMA Unqueued ==
  ASSUME HostInv, sent # << >>, NEW e \in Effects(board, Head(sent)),
         board' = e.board, sent' = Tail(sent)
  PROVE  /\ sent' \in Seq(Requests) /\ Len(sent') = Len(sent) - 1
         /\ board' \in BoardState
         /\ \A a \in Axes : \A k \in Int : LeftBy(a, k) => LeftBy(a, k - 1)'
<1>0. sent \in Seq(Requests) /\ board \in BoardState
  BY DEF HostInv, HostType
<1>1. /\ sent' \in Seq(Requests) /\ Len(sent) \in Nat \ {0}
      /\ Len(sent') = Len(sent) - 1 /\ Head(sent) = sent[1]
      /\ sent[1] \in Requests
      /\ DOMAIN sent = 1..Len(sent) /\ DOMAIN sent' = 1..Len(sent')
      /\ \A i \in 1..Len(sent') : sent'[i] = sent[i + 1]
  BY <1>0
<1>2. /\ board' \in BoardState
      /\ \A a \in Axes : Disarmed(board, a) /\ ~Enables(sent[1], a)
                           => Disarmed(board', a)
      /\ \A a \in Axes :
           sent[1] = [do |-> "DISABLE", axis |-> a] => Disarmed(board', a)
  BY <1>0, <1>1, Serving
<1>3. /\ 1 \in DOMAIN sent
      /\ \A i \in DOMAIN sent' : /\ i \in Nat /\ i + 1 \in DOMAIN sent
                                 /\ i + 1 > 1 /\ sent'[i] = sent[i + 1]
      /\ \A i \in DOMAIN sent : /\ i \in Nat
                                /\ i # 1 => /\ i - 1 \in DOMAIN sent'
                                            /\ sent'[i - 1] = sent[i]
  BY <1>1
<1>4. ASSUME NEW a \in Axes, NEW k \in Int, LeftBy(a, k) PROVE LeftBy(a, k - 1)'
  <2>1. CASE /\ board.mode[a] \in {"OFF", "RELEASING"}
             /\ \A i \in DOMAIN sent : ~Enables(sent[i], a)
    <3>1. Disarmed(board', a)
      BY <1>2, <1>3, <2>1 DEF Disarmed
    <3>2. \A i \in DOMAIN sent' : ~Enables(sent'[i], a)
      BY <1>3, <2>1
    <3> QED
      BY <3>1, <3>2 DEF LeftBy, Disarmed
  <2>2. ASSUME NEW i \in DOMAIN sent, i <= k,
               sent[i] = [do |-> "DISABLE", axis |-> a],
               \A j \in DOMAIN sent : j > i => ~Enables(sent[j], a)
        PROVE  LeftBy(a, k - 1)'
    <3>1. CASE i = 1
      <4>1. Disarmed(board', a)
        BY <1>2, <2>2, <3>1
      <4>2. \A j \in DOMAIN sent' : ~Enables(sent'[j], a)
        BY <1>3, <2>2, <3>1
      <4> QED
        BY <4>1, <4>2 DEF LeftBy, Disarmed
    <3>2. CASE i # 1
      <4>1. /\ i - 1 \in DOMAIN sent' /\ i - 1 <= k - 1
            /\ sent'[i - 1] = [do |-> "DISABLE", axis |-> a]
        BY <1>3, <1>4, <2>2, <3>2
      <4>2. ASSUME NEW j \in DOMAIN sent', j > i - 1
            PROVE  ~Enables(sent'[j], a)
        <5>1. j + 1 \in DOMAIN sent /\ j + 1 > i /\ sent'[j] = sent[j + 1]
          BY <1>3, <3>2, <4>2
        <5> QED
          BY <2>2, <5>1
      <4> QED
        BY <4>1, <4>2 DEF LeftBy
    <3> QED
      BY <3>1, <3>2
  <2> QED
    BY <1>4, <2>1, <2>2 DEF LeftBy
<1> QED
  BY <1>1, <1>2, <1>4

-----------------------------------------------------------------------------
\* Steps that keep the session where it is.
LEMMA Stays ==
  ASSUME HostInv, UNCHANGED <<script, at, reading, tested, abandoned>>,
         sent' \in Seq(Requests), untaken' \in 0..Len(sent'),
         board' \in BoardState, link' => link,
         link' => \A a \in Axes : /\ Keeps(a)
                                  /\ Open /\ LeftToRelease(a) => LeftToRelease(a)'
  PROVE  HostInv'
<1>1. Program' = Program /\ Open' = Open /\ tested \subseteq Axes
  BY DEF Program, Programs, Open, HostInv, HostType
<1>2. HostType'
  BY <1>1 DEF HostInv, HostType
<1>3. (Open /\ tested # {} => Current.zone > 0)'
  BY <1>1 DEF HostInv, Current
<1>4. ChargedOrReleased'
  <2> SUFFICES ASSUME link', NEW a \in tested \ abandoned
               PROVE  IF Open THEN Charged(a)' ELSE Firm(a)'
    BY <1>1 DEF ChargedOrReleased
  <2>1. IF Open THEN Charged(a) ELSE Firm(a)
    BY DEF HostInv, ChargedOrReleased
  <2>2. Keeps(a) /\ (Open /\ LeftToRelease(a) => LeftToRelease(a)')
    BY <1>1
  <2>3. Open /\ Charged(a) => Charged(a)'
    BY <1>1, <2>2 DEF Charged, Keeps
  <2> QED
    BY <2>1, <2>2, <2>3 DEF Keeps
<1> QED
  BY <1>2, <1>3, <1>4 DEF HostInv

\* The request of a step at or after the disable enables nothing.
LEMMA AfterDisable ==
  ASSUME HostInv, Open, NEW a \in Axes, NEW d \in 1..Len(Program),
         Releases(Program, a, d), at >= d
  PROVE  ~Enables(Request(Current), a)
<1>1. /\ at \in 1..Len(Program) /\ Len(Program) \in Nat /\ Current = Program[at]
  BY ProgramFacts DEF HostInv, HostType, Open, Current
<1>2. CASE at = d
  <2>1. Request(Current).do = "DISABLE"
    BY <1>1, <1>2 DEF Releases
  <2> QED
    BY <2>1 DEF Enables
<1>3. CASE at > d
  BY <1>1, <1>3 DEF Releases, Enables, Request
<1> QED
  BY <1>1, <1>2, <1>3

LEMMA AsksRequest ==
  ASSUME HostInv, Open PROVE Request(Current) \in Requests
<1>1. /\ at \in 1..Len(Program) /\ Current = Program[at]
      /\ Within(Program, 0, 5)
  BY ProgramFacts DEF HostInv, HostType, Open, Current
<1> QED
  BY <1>1 DEF Within, Good

LEMMA Writes ==
  ASSUME HostInv, Write PROVE HostInv'
<1>0. /\ at \in 1..Len(Program) /\ Len(Program) \in Nat /\ Current = Program[at]
      /\ HostType /\ Open /\ tested \subseteq Axes
  BY ProgramFacts DEF HostInv, HostType, Open, Current, Write
<1>1. /\ sent' = Append(sent, Request(Current)) /\ untaken' = untaken + 1
      /\ reading' /\ ~reading /\ link
      /\ UNCHANGED <<script, at, link, board, tested, abandoned>>
  BY DEF Write, session
<1>2. Request(Current) \in Requests
  BY <1>0, AsksRequest
<1>3. /\ Program' = Program /\ Current' = Current /\ Open' = Open
  BY <1>1 DEF Program, Programs, Current, Open
<1>4. HostType'
  BY <1>0, <1>1, <1>2, <1>3, PortHoldsMore DEF HostType
<1>5. (Open /\ tested # {} => Current.zone > 0)'
  BY <1>0, <1>1, <1>3 DEF HostInv
<1>6. ASSUME NEW a \in tested \ abandoned PROVE Charged(a)'
  <2>1. PICK d \in 1..Len(Program) :
          /\ Releases(Program, a, d)
          /\ at = d /\ reading => LeftToRelease(a)
          /\ at > d => Firm(a)
    BY <1>0, <1>1, <1>6 DEF HostInv, ChargedOrReleased, Charged
  <2>2. at = d => LeftToRelease(a)'
    <3>1. at = d => Request(Current) = [do |-> "DISABLE", axis |-> a]
      BY <1>0, <2>1 DEF Releases
    <3> QED
      BY <1>0, <1>1, <1>2, <3>1, PortHoldsMore
  <2>3. at > d => Firm(a)'
    <3>1. at > d => ~Enables(Request(Current), a)
      BY <1>0, <1>6, <2>1, AfterDisable
    <3>2. at > d => Keeps(a)
      BY <1>0, <1>1, <1>2, <3>1, PortHoldsMore
    <3> QED
      BY <2>1, <3>2 DEF Keeps
  <2> QED
    BY <1>1, <1>3, <2>1, <2>2, <2>3 DEF Charged
<1>7. ChargedOrReleased'
  BY <1>0, <1>1, <1>3, <1>6 DEF ChargedOrReleased
<1> QED
  BY <1>4, <1>5, <1>7 DEF HostInv

\* A write that fails has left its request in the port, or nothing.
LEMMA WriteFails ==
  ASSUME HostInv, WriteTimesOut PROVE HostInv'
<1>0. /\ Open /\ Raise /\ UNCHANGED <<script, link, board>> /\ HostType
      /\ abandoned' = abandoned \cup Undone
      /\ \/ UNCHANGED <<sent, untaken>>
         \/ sent' = Append(sent, Request(Current)) /\ untaken' = untaken + 1
  BY DEF WriteTimesOut, session, HostInv
<1>1. CASE UNCHANGED <<sent, untaken>>
  <2>1. /\ sent' \in Seq(Requests) /\ untaken' \in 0..Len(sent')
        /\ \A a : Keeps(a)
    BY <1>0, <1>1 DEF HostType, Keeps, Firm, LeftBy, Taken
  <2> QED
    BY <1>0, <2>1, Raises
<1>2. CASE sent' = Append(sent, Request(Current)) /\ untaken' = untaken + 1
  <2>1. /\ sent' \in Seq(Requests) /\ untaken' \in 0..Len(sent')
        /\ \A a : ~Enables(Request(Current), a) => Keeps(a)
    BY <1>0, <1>2, AsksRequest, PortHoldsMore
  <2>2. \A a \in Axes, d \in 1..Len(Program) :
          Releases(Program, a, d) /\ at >= d => Keeps(a)
    BY <1>0, <2>1, AfterDisable
  <2> QED
    BY <1>0, <2>1, <2>2, Raises
<1> QED
  BY <1>0, <1>1, <1>2

\* The board takes a request: nothing changes but that it cannot be dropped.
LEMMA Taking ==
  ASSUME HostInv, BoardTakes PROVE HostInv'
<1>1. /\ UNCHANGED <<script, at, reading, link, sent, board, tested, abandoned>>
      /\ untaken > 0 /\ untaken' = untaken - 1
  BY DEF BoardTakes, session
<1>2. /\ sent \in Seq(Requests) /\ Len(sent) \in Nat /\ untaken \in 0..Len(sent)
      /\ DOMAIN sent = 1..Len(sent) /\ board \in BoardState
  BY DEF HostInv, HostType
<1>3. /\ untaken' \in 0..Len(sent') /\ Taken' = Taken + 1
      /\ \A i \in DOMAIN sent : i <= Taken => i <= Taken'
  BY <1>1, <1>2 DEF Taken
<1>4. \A a : Keeps(a) /\ (LeftToRelease(a) => LeftToRelease(a)')
  BY <1>1, <1>3 DEF Keeps, Firm, LeftBy, LeftToRelease
<1> QED
  BY <1>1, <1>2, <1>3, <1>4, Stays

\* The close drops what the board has not taken: nothing firm is lost.
LEMMA Dropping ==
  ASSUME HostInv, PortDropsRest PROVE HostInv'
<1>1. /\ UNCHANGED <<script, at, reading, link, board, tested, abandoned>>
      /\ ~Open /\ sent' = SubSeq(sent, 1, Taken) /\ untaken' = 0
  BY DEF PortDropsRest, session, Taken
<1>2. /\ sent \in Seq(Requests) /\ Len(sent) \in Nat /\ untaken \in 0..Len(sent)
      /\ DOMAIN sent = 1..Len(sent) /\ board \in BoardState
      /\ Taken \in 0..Len(sent)
  BY DEF HostInv, HostType, Taken
<1>3. /\ sent' \in Seq(Requests) /\ Len(sent') = Taken
      /\ untaken' \in 0..Len(sent') /\ Taken' = Taken
      /\ DOMAIN sent' = 1..Taken
      /\ \A i \in DOMAIN sent' : i \in DOMAIN sent /\ sent'[i] = sent[i]
      /\ \A i \in DOMAIN sent : i <= Taken => i \in DOMAIN sent'
  <2>1. /\ sent' \in Seq(Requests) /\ Len(sent') = Taken
        /\ \A i \in 1..Taken : sent'[i] = sent[i]
    BY <1>1, <1>2
  <2>2. DOMAIN sent' = 1..Taken
    BY <2>1
  <2>3. Taken' = Len(sent') - 0
    BY <1>1 DEF Taken
  <2>4. Taken' = Taken
    BY <1>2, <2>1, <2>3
  <2> QED
    BY <1>1, <1>2, <2>1, <2>2, <2>4
<1>4. ASSUME NEW a, Firm(a) PROVE Firm(a)'
  <2>1. CASE /\ board.mode[a] \in {"OFF", "RELEASING"}
             /\ \A i \in DOMAIN sent : ~Enables(sent[i], a)
    BY <1>1, <1>3, <2>1 DEF Firm, LeftBy
  <2>2. ASSUME NEW i \in DOMAIN sent, i <= Taken,
               sent[i] = [do |-> "DISABLE", axis |-> a],
               \A j \in DOMAIN sent : j > i => ~Enables(sent[j], a)
        PROVE  Firm(a)'
    <3>1. /\ i \in DOMAIN sent' /\ i <= Taken'
          /\ sent'[i] = [do |-> "DISABLE", axis |-> a]
          /\ \A j \in DOMAIN sent' : j > i => ~Enables(sent'[j], a)
      BY <1>3, <2>2
    <3> QED
      BY <3>1 DEF Firm, LeftBy
  <2> QED
    BY <1>4, <2>1, <2>2 DEF Firm, LeftBy
<1> QED
  BY <1>1, <1>2, <1>3, <1>4, Stays DEF Keeps

LEMMA BoardServing ==
  ASSUME HostInv, BoardServes PROVE HostInv'
<1>0. /\ UNCHANGED <<script, at, reading, link, untaken, tested, abandoned>>
      /\ sent' = Tail(sent) /\ Len(sent) > untaken
      /\ Len(sent) \in Nat /\ untaken \in 0..Len(sent) /\ sent \in Seq(Requests)
  BY DEF BoardServes, session, HostInv, HostType
<1>a. sent # << >>
  BY <1>0
<1>1. PICK e \in Effects(board, Head(sent)) : board' = e.board
  BY DEF BoardServes
<1>2. /\ sent' \in Seq(Requests) /\ Len(sent') = Len(sent) - 1
      /\ board' \in BoardState
      /\ \A a \in Axes : \A k \in Int : LeftBy(a, k) => LeftBy(a, k - 1)'
  BY <1>0, <1>a, <1>1, Unqueued
<1>3. ASSUME NEW a \in Axes, NEW k \in Int, NEW l, LeftBy(a, k), l = k - 1
      PROVE  LeftBy(a, l)'
  BY <1>2, <1>3
<1>4. ASSUME NEW a \in Axes, Firm(a) PROVE Firm(a)'
  <2>1. PICK k \in Int : k = Taken
    BY <1>0 DEF Taken
  <2>2. PICK l : l = k - 1
    OBVIOUS
  <2>3. LeftBy(a, l)'
    BY <1>3, <1>4, <2>1, <2>2 DEF Firm
  <2>4. Taken' = l
    BY <1>0, <1>2, <2>1, <2>2 DEF Taken
  <2> QED
    BY <2>3, <2>4 DEF Firm, LeftBy
<1>5. ASSUME NEW a \in Axes, LeftToRelease(a) PROVE LeftToRelease(a)'
  <2>1. PICK k \in Int : k = Len(sent)
    BY <1>0
  <2>2. PICK l : l = k - 1
    OBVIOUS
  <2>3. LeftBy(a, k)
    <3>1. \A i \in DOMAIN sent : i <= k
      BY <1>0, <2>1
    <3> QED
      BY <1>5, <3>1 DEF LeftBy, LeftToRelease
  <2>4. LeftBy(a, l)'
    BY <1>3, <2>2, <2>3
  <2> QED
    BY <2>4 DEF LeftBy, LeftToRelease
<1>6. untaken' \in 0..Len(sent')
  BY <1>0, <1>2
<1> QED
  BY <1>0, <1>2, <1>4, <1>5, <1>6, Stays DEF Keeps

LEMMA MotionsEnd ==
  ASSUME HostInv, MotionEnds PROVE HostInv'
<1>1. PICK a \in Axes : board' \in Ended(board, a)
  BY DEF MotionEnds
<1>2. ArmsNone(board, board')
  BY <1>1, Ending DEF HostInv, HostType
<1>3. UNCHANGED <<script, at, reading, tested, abandoned, link, sent, untaken>>
  BY DEF MotionEnds, session, wire
<1>4. \A x \in Axes : Keeps(x) /\ (LeftToRelease(x) => LeftToRelease(x)')
  BY <1>2, <1>3 DEF LeftToRelease, Keeps, Firm, LeftBy, Taken, ArmsNone, Disarmed
<1> QED
  BY <1>2, <1>3, <1>4, Stays DEF ArmsNone, HostInv, HostType

\* Every step keeps the invariant.
LEMMA HostStep ==
  HostInv /\ [Next]_vars => HostInv'
<1> SUFFICES ASSUME HostInv, [Next]_vars PROVE HostInv'
  OBVIOUS
<1>0. HostType /\ sent \in Seq(Requests) /\ untaken \in 0..Len(sent)
  BY DEF HostInv, HostType
<1>a. UNCHANGED <<sent, untaken, board>> =>
        /\ sent' \in Seq(Requests) /\ untaken' \in 0..Len(sent')
        /\ \A a : Keeps(a) /\ (LeftToRelease(a) => LeftToRelease(a)')
  BY <1>0 DEF Keeps, Firm, LeftBy, Taken, LeftToRelease
<1>1. CASE Start
  <2>1. /\ script' \in Scripts /\ at' = 1 /\ tested' = {}
        /\ sent' = sent /\ untaken' = untaken /\ board' = board
    BY <1>1 DEF Start
  <2>2. at' \in 0..Len(Program')
    <3>1. PICK s \in Scripts : s = script'
      BY <2>1
    <3>2. s[1] \in Names /\ s[2] \in Axes
      BY HostAssumption
    <3>3. Program' = Script(s[1], s[2])
      BY <3>1 DEF Program, Programs
    <3> DEFINE p == Script(s[1], s[2])
    <3>4. Len(p) \in Nat /\ Len(p) >= 1
      BY <3>2, Scripted DEF Cleanly, Within, Good
    <3> HIDE DEF p
    <3> QED
      BY <2>1, <3>3, <3>4 DEF p
  <2> QED
    BY <2>1, <2>2 DEF HostInv, HostType, ChargedOrReleased
<1>2. CASE Write
  BY <1>2, Writes
<1>3. CASE PortFails
  <2>1. /\ Open /\ ~link /\ Raise /\ abandoned' = abandoned
        /\ UNCHANGED <<script, link, sent, untaken, board>>
    BY <1>3 DEF PortFails, session, wire
  <2> QED
    BY <1>a, <2>1, Raises
<1>4. CASE ReadLine
  BY <1>4, TakesLines DEF ReadLine, session
<1>5. CASE ReadCut
  <2>1. \E r : Takes(r)
    BY <1>5 DEF ReadCut
  <2> QED
    BY <1>5, <2>1, TakesLines DEF ReadCut, session
<1>6. CASE ReadTimesOut
  <2>1. /\ Open /\ Flushed /\ Raise /\ abandoned' = abandoned
        /\ UNCHANGED <<script, link, sent, untaken, board>>
    BY <1>6 DEF ReadTimesOut, session, wire
  <2>2. Undone = {}
    BY <2>1 DEF Undone
  <2> QED
    BY <1>a, <2>1, <2>2, Raises
<1>7. CASE Interrupt
  <2>1. /\ Open
        /\ abandoned' = abandoned \cup (IF InDualCleanup THEN Axes ELSE Undone)
        /\ IF InDualCleanup THEN Goto(0) ELSE Raise
        /\ UNCHANGED <<script, link, sent, untaken, board>>
    BY <1>7 DEF Interrupt, session, wire
  <2>2. CASE ~InDualCleanup
    BY <1>a, <2>1, <2>2, Raises
  <2>3. CASE InDualCleanup
    <3>1. Axes \ abandoned' = {} /\ abandoned \subseteq abandoned' /\ Goto(0)
      BY <2>1, <2>3
    <3>2. 0 \in Nat /\ 0 \notin 1..Len(Program)
      BY ProgramFacts DEF HostInv, HostType
    <3> QED
      BY <1>a, <2>1, <3>1, <3>2, Moves
  <2> QED
    BY <2>2, <2>3
<1>8. CASE BoardServes
  BY <1>8, BoardServing
<1>9. CASE MotionEnds
  BY <1>9, MotionsEnd
<1>10. CASE CableComesLoose
  <2>1. << >> \in Seq(Requests) /\ 0 \in 0..Len(<< >>)
    OBVIOUS
  <2> QED
    BY <1>10, <2>1, Stays DEF CableComesLoose, session, HostInv, HostType
<1>11. CASE UNCHANGED vars
  BY <1>a, <1>11, Stays DEF vars, HostInv, HostType
<1>12. CASE WriteTimesOut
  BY <1>12, WriteFails
<1>13. CASE BoardTakes
  BY <1>13, Taking
<1>14. CASE PortDropsRest
  BY <1>14, Dropping
<1> QED
  BY <1>1, <1>2, <1>3, <1>4, <1>5, <1>6, <1>7, <1>8, <1>9, <1>10, <1>11,
     <1>12, <1>13, <1>14
     DEF Next, Client

LEMMA HostStart == Init => HostInv
<1> SUFFICES ASSUME Init PROVE HostInv
  OBVIOUS
<1>1. board \in BoardState
  <2>1. \A m \in [Axes -> {"OFF"}] : m \in [Axes -> Modes]
    BY DEF Modes
  <2> QED
    BY <2>1 DEF Init, BoardState
<1>2. << >> \in Seq(Requests) /\ 0 \in 0..Len(Program)
  BY ProgramFacts DEF Init
<1> QED
  BY <1>1, <1>2 DEF Init, HostInv, HostType, ChargedOrReleased, Open

(***************************************************************************)
(* The invariant holds in every state, for every set of scripts of the     *)
(* utility and every bound on sessions, polls and interrupts.              *)
(***************************************************************************)
THEOREM HostInvAlways == Spec => []HostInv
<1> QED
  BY HostStart, HostStep, PTL DEF Spec

(***************************************************************************)
(* Whatever fails in a motor test, and however late the replies are, no    *)
(* axis it has taken charge of is left under power when it ends (the       *)
(* finally blocks of run_motor_test and run_dual_motor_test).              *)
(***************************************************************************)
THEOREM TestsReleaseAxes == Spec => []ReleasedAtExit
<1>1. HostInv => ReleasedAtExit
  BY FirmLeaves DEF HostInv, ChargedOrReleased, ReleasedAtExit
<1> QED
  BY <1>1, HostInvAlways, PTL

-----------------------------------------------------------------------------
Configures(s) == s.do = "DRIVER CONFIGURE"

LEMMA ConfiguresOnly ==
  ASSUME NEW s, Configures(s)
  PROVE  s.do \notin {"DRIVER?", "STATE?", "STOP", "ENABLE", "PING", "INFO"}
  BY Zenon DEF Configures

\* What a step of a script may ask and expect.
Allowed(s) ==
    /\ s.expect = "READY_OR_CONFIGURE" => s.do = "DRIVER?" /\ s.zone = 0
    /\ s.expect = "REST" => s.do = "STATE?" /\ s.zone <= 2
    /\ s.do = "DRIVER?" => s.expect # "ANY"
    /\ Configures(s) => s.zone = 0 /\ s.expect \in {"ANY", "OK"}
    /\ s.do = "ENABLE" => s.zone = 0
    /\ s.zone = 2 => \/ s.do = "STOP" /\ s.expect \in {"ANY", "OK"}
                     \/ s.do = "STATE?" /\ s.expect = "REST"

\* What step may come after which: a query of a driver after what may leave
\* an old line unread, a poll for rest only after the STOP of its cleanup.
Follows(s, n) ==
    /\ s.expect = "READY_OR_CONFIGURE" => Configures(n)
    /\ Configures(s) =>
         n.do = "DRIVER?" /\ n.expect = "READY" /\ n.zone = 0
    /\ s.expect = "READY" => n.do = "DRIVER?" /\ n.zone = 0
    /\ s.expect = "ANY" =>
         \/ s.zone < 2 /\ Configures(s)
         \/ s.zone = 2 /\ n.zone > 2
         \/ s.zone > 2
    /\ n.zone = 2 => (n.do = "STATE?" <=> s.zone = 2)

Chained(p) ==
    /\ Good(p)
    /\ \A i \in 1..Len(p) : Allowed(p[i])
    /\ \A i, j \in 1..Len(p) : j = i + 1 => Follows(p[i], p[j])

\* A step any other piece may come after, and one that may come after any.
Leaves(s) == /\ s.expect \notin {"READY_OR_CONFIGURE", "READY"}
             /\ ~Configures(s)
             /\ s.expect = "ANY" => s.zone > 2
             /\ s.zone # 2
Enters(n) == n.zone = 2 => n.do # "STATE?"
Piece(p) ==
    /\ Chained(p)
    /\ \A i \in 1..Len(p) : /\ i = 1 => Enters(p[i])
                            /\ i = Len(p) => Leaves(p[i])

LEMMA Chains ==
  ASSUME NEW s, NEW t, Chained(s), Chained(t),
         \A i \in 1..Len(s), j \in 1..Len(t) :
           i = Len(s) /\ j = 1 => Follows(s[i], t[j])
  PROVE  Chained(s \o t)
<1> DEFINE u == s \o t
<1>0. Good(s) /\ Good(t)
  BY DEF Chained
<1>1. /\ Good(u) /\ Len(s) \in Nat /\ Len(t) \in Nat /\ Len(u) = Len(s) + Len(t)
      /\ \A i \in 1..Len(s) : u[i] = s[i]
      /\ \A i \in 1..Len(u) :
              i \notin 1..Len(s) => /\ i - Len(s) \in 1..Len(t)
                                    /\ u[i] = t[i - Len(s)]
  BY <1>0, Joined
<1> HIDE DEF u
<1>2. ASSUME NEW i \in 1..Len(u) PROVE Allowed(u[i])
  BY <1>1 DEF Chained
<1>3. ASSUME NEW i \in 1..Len(u), NEW j \in 1..Len(u), j = i + 1
      PROVE  Follows(u[i], u[j])
  <2>1. CASE i \in 1..Len(s) /\ j \in 1..Len(s)
    BY <1>1, <1>3, <2>1 DEF Chained
  <2>2. CASE i \in 1..Len(s) /\ j \notin 1..Len(s)
    <3>1. /\ i = Len(s) /\ j - Len(s) = 1 /\ 1 \in 1..Len(t)
          /\ u[i] = s[i] /\ u[j] = t[1]
      BY <1>1, <1>3, <2>2
    <3> QED
      BY <2>2, <3>1
  <2>3. CASE i \notin 1..Len(s)
    <3> DEFINE k == i - Len(s)
               l == j - Len(s)
    <3>1. /\ k \in 1..Len(t) /\ l \in 1..Len(t) /\ l = k + 1
          /\ u[i] = t[k] /\ u[j] = t[l]
      BY <1>1, <1>3, <2>3
    <3> HIDE DEF k, l
    <3> QED
      BY <3>1 DEF Chained
  <2> QED
    BY <2>1, <2>2, <2>3
<1>4. Chained(u)
  BY <1>1, <1>2, <1>3 DEF Chained
<1> QED
  BY <1>4 DEF u

\* Free pieces join.
LEMMA FreePieces ==
  ASSUME NEW s, NEW t, Piece(s), Piece(t) PROVE Piece(s \o t)
<1> DEFINE u == s \o t
<1>0. Good(s) /\ Good(t) /\ Chained(s) /\ Chained(t)
  BY DEF Piece, Chained
<1>1. /\ Good(u) /\ Len(s) \in Nat /\ Len(t) \in Nat /\ Len(u) = Len(s) + Len(t)
      /\ \A i \in 1..Len(s) : u[i] = s[i]
      /\ \A i \in 1..Len(u) :
              i \notin 1..Len(s) => /\ i - Len(s) \in 1..Len(t)
                                    /\ u[i] = t[i - Len(s)]
  BY <1>0, Joined
<1>2. ASSUME NEW i \in 1..Len(s), NEW j \in 1..Len(t), i = Len(s), j = 1
      PROVE  Follows(s[i], t[j])
  <2>1. Leaves(s[i]) /\ Enters(t[j]) /\ s[i] \in Steps
    BY <1>0, <1>2 DEF Piece, Good
  <2>2. s[i].zone \in 0..5
    BY <1>0, GoodZones
  <2> QED
    BY <2>1, <2>2 DEF Follows, Leaves, Enters
<1>3. Chained(u)
  BY <1>0, <1>2, Chains
<1> HIDE DEF u
<1>4. ASSUME NEW i \in 1..Len(u)
      PROVE  /\ i = 1 => Enters(u[i])
             /\ i = Len(u) => Leaves(u[i])
  <2>1. CASE i \in 1..Len(s)
    <3>1. i = Len(u) => i = Len(s)
      BY <1>1, <2>1
    <3> QED
      BY <1>1, <2>1, <3>1 DEF Piece
  <2>2. CASE i \notin 1..Len(s)
    <3> DEFINE j == i - Len(s)
    <3>1. /\ j \in 1..Len(t) /\ u[i] = t[j]
          /\ i = 1 => j = 1
          /\ i = Len(u) => j = Len(t)
      BY <1>1, <2>2
    <3> HIDE DEF j
    <3> QED
      BY <3>1 DEF Piece
  <2> QED
    BY <2>1, <2>2
<1>5. Piece(u)
  BY <1>3, <1>4 DEF Piece
<1> QED
  BY <1>5 DEF u

LEMMA Empty == Piece(<< >>) /\ Chained(<< >>)
<1>1. Good(<< >>) /\ Len(<< >>) = 0
  BY DEF Good
<1> QED
  BY <1>1 DEF Piece, Chained

\* Pieces of one step and of two.
LEMMA Single ==
  ASSUME NEW z \in 0..5, NEW s, Plain(s, z), Allowed(s)
  PROVE  /\ Chained(<<s>>)
         /\ Leaves(s) /\ Enters(s) => Piece(<<s>>)
<1>1. Good(<<s>>)
  BY PlainPieces DEF Within
<1> DEFINE p == <<s>>
<1>2. Len(p) = 1 /\ p[1] = s
  OBVIOUS
<1> HIDE DEF p
<1>3. Chained(p)
  BY <1>1, <1>2 DEF p, Chained
<1>4. Leaves(s) /\ Enters(s) => Piece(p)
  BY <1>2, <1>3 DEF Piece
<1> QED
  BY <1>3, <1>4 DEF p

LEMMA Pair ==
  ASSUME NEW s, NEW t, Piece(<<s>>), Piece(<<t>>) PROVE Piece(<<s, t>>)
<1>1. ASSUME NEW x, Piece(<<x>>)
      PROVE  /\ x \in Steps /\ Request(x) \in Requests /\ Allowed(x)
             /\ Leaves(x) /\ Enters(x) /\ x.zone \in 0..5
  <2> DEFINE q == <<x>>
  <2>1. Len(q) = 1 /\ q[1] = x
    OBVIOUS
  <2> HIDE DEF q
  <2>2. Chained(q) /\ Good(q) /\ Enters(x) /\ Leaves(x)
    BY <1>1, <2>1 DEF q, Piece, Chained
  <2>3. Allowed(x) /\ x.zone \in 0..5
    BY <2>1, <2>2, GoodZones DEF Chained
  <2>4. x \in Steps /\ Request(x) \in Requests
    BY <2>1, <2>2 DEF Good
  <2> QED
    BY <2>2, <2>3, <2>4
<1>2. \A x \in {s, t} :
        /\ x \in Steps /\ Request(x) \in Requests /\ Allowed(x)
        /\ Leaves(x) /\ Enters(x) /\ x.zone \in 0..5
  BY <1>1
<1> DEFINE p == <<s, t>>
<1>3. p \in Seq(Steps) /\ Len(p) = 2 /\ p[1] = s /\ p[2] = t
  BY <1>2
<1> HIDE DEF p
<1>4. \A i \in 1..2 : p[i] \in {s, t}
  BY <1>3
<1>5. Good(p)
  BY <1>2, <1>3, <1>4 DEF Good, Leaves
<1>6. Follows(s, t)
  BY <1>2 DEF Follows, Leaves, Enters
<1>7. Chained(p)
  BY <1>2, <1>3, <1>4, <1>5, <1>6 DEF Chained
<1>8. Piece(p)
  BY <1>2, <1>3, <1>4, <1>7 DEF Piece
<1> QED
  BY <1>8 DEF p

\* A chain gets one more step.
LEMMA Adds ==
  ASSUME NEW p, NEW z \in 0..5, NEW s, Chained(p), Plain(s, z), Allowed(s),
         \A i \in 1..Len(p) : i = Len(p) => Follows(p[i], s)
  PROVE  /\ Chained(p \o <<s>>)
         /\ \A i \in 1..Len(p \o <<s>>) :
              i = Len(p \o <<s>>) => (p \o <<s>>)[i] = s
<1> DEFINE t == <<s>>
<1>1. Chained(t) /\ Len(t) = 1 /\ t[1] = s
  BY Single
<1> HIDE DEF t
<1>2. Good(p) /\ Good(t)
  BY <1>1 DEF Chained
<1>3. \A i \in 1..Len(p), j \in 1..Len(t) :
        i = Len(p) /\ j = 1 => Follows(p[i], t[j])
  BY <1>1
<1>4. Chained(p \o t)
  BY <1>1, <1>3, Chains
<1> DEFINE u == p \o t
<1>5. /\ Good(u) /\ Len(p) \in Nat /\ Len(t) \in Nat /\ Len(u) = Len(p) + Len(t)
      /\ \A i \in 1..Len(p) : u[i] = p[i]
      /\ \A i \in 1..Len(u) :
              i \notin 1..Len(p) => /\ i - Len(p) \in 1..Len(t)
                                    /\ u[i] = t[i - Len(p)]
  BY <1>2, Joined
<1> HIDE DEF u
<1>6. \A i \in 1..Len(u) : i = Len(u) => u[i] = s
  BY <1>1, <1>5
<1> QED
  BY <1>4, <1>6 DEF t, u

\* The ordinary steps.
LEMMA FreeSteps ==
  ASSUME NEW z \in {0, 1, 3, 4, 5}, NEW e \in {"PARSED", "OK", "REST", "HOMED",
                                      "CALIBRATED", "REFRESH", "RELEASED"}
  PROVE  /\ e # "REST" => \A do \in {"PING", "INFO", "STOP"} :
              Piece(<<Step(z, do, "BOTH", e)>>)
         /\ z <= 1 => \A a \in Axes : Piece(<<Step(z, "STATE?", a, e)>>)
         /\ e # "REST" => \A a \in Axes, do \in {"DISABLE", "STATE?", "DRIVER?",
                                         "DRIVER-DIAG?", "VEL"} :
              Piece(<<Step(z, do, a, e)>>)
         /\ e # "REST" /\ z = 0 => \A a \in Axes :
              Piece(<<Step(z, "ENABLE", a, e)>>)
         /\ e # "REST" => \A do \in {"HOME", "JOG", "DIR-CHECK", "ENDSTOP?"} :
              Piece(<<Step(z, do, "TILT", e)>>)
         /\ e # "REST" => Piece(<<Step(z, "VEL", "BOTH", e)>>)
<1>1. z \in 0..5 /\ e \in Expectations \ {"READY_OR_CONFIGURE"}
  BY DEF Expectations
<1>a. /\ e \notin {"READY_OR_CONFIGURE", "READY", "ANY"} /\ z # 2
      /\ z <= 1 => z <= 2
  OBVIOUS
<1>2. ASSUME NEW do \in Dos, do # "DRIVER CONFIGURE", NEW a,
             Plain(Step(z, do, a, e), z),
             e = "REST" => do = "STATE?" /\ z <= 2,
             do = "ENABLE" => z = 0
      PROVE  Piece(<<Step(z, do, a, e)>>)
  <2> DEFINE s == Step(z, do, a, e)
  <2>1. s.zone = z /\ s.do = do /\ s.expect = e
    BY DEF Step
  <2>a. ~Configures(s)
    BY <1>2, <2>1, Zenon DEF Configures
  <2> HIDE DEF s
  <2>2. Allowed(s) /\ Leaves(s) /\ Enters(s)
    BY <1>a, <1>2, <2>1, <2>a DEF Allowed, Leaves, Enters
  <2>3. Plain(s, z)
    BY <1>2 DEF s
  <2>4. Piece(<<s>>)
    BY <1>1, <2>2, <2>3, Single
  <2> QED
    BY <2>4 DEF s
<1>3. /\ \A do \in {"PING", "INFO", "STOP"} : Plain(Step(z, do, "BOTH", e), z)
      /\ \A a \in Axes, do \in {"ENABLE", "DISABLE", "STATE?", "DRIVER?",
                                "DRIVER-DIAG?", "VEL"} :
              Plain(Step(z, do, a, e), z)
      /\ \A do \in {"HOME", "JOG", "DIR-CHECK", "ENDSTOP?"} :
              Plain(Step(z, do, "TILT", e), z)
      /\ Plain(Step(z, "VEL", "BOTH", e), z)
  BY <1>1, PlainSteps
<1>4. e # "REST" => \A do \in {"PING", "INFO", "STOP"} :
              Piece(<<Step(z, do, "BOTH", e)>>)
  BY <1>2, <1>3 DEF Dos
<1>5. z <= 1 => \A a \in Axes : Piece(<<Step(z, "STATE?", a, e)>>)
  <2>1. "STATE?" \in Dos /\ "STATE?" # "DRIVER CONFIGURE" /\ "STATE?" # "ENABLE"
    BY DEF Dos
  <2> QED
    BY <1>a, <1>2, <1>3, <2>1
<1>6. e # "REST" => \A a \in Axes, do \in {"DISABLE", "STATE?", "DRIVER?",
                                         "DRIVER-DIAG?", "VEL"} :
              Piece(<<Step(z, do, a, e)>>)
  BY <1>2, <1>3 DEF Dos
<1>7. e # "REST" /\ z = 0 => \A a \in Axes : Piece(<<Step(z, "ENABLE", a, e)>>)
  BY <1>2, <1>3 DEF Dos
<1>8. e # "REST" => \A do \in {"HOME", "JOG", "DIR-CHECK", "ENDSTOP?"} :
              Piece(<<Step(z, do, "TILT", e)>>)
  BY <1>2, <1>3 DEF Dos
<1>9. e # "REST" => Piece(<<Step(z, "VEL", "BOTH", e)>>)
  BY <1>2, <1>3 DEF Dos
<1> QED
  BY <1>4, <1>5, <1>6, <1>7, <1>8, <1>9

-----------------------------------------------------------------------------
\* The pieces of the scripts are such pieces.
LEMMA FreePreparing ==
  \A a \in Axes : Piece(PrepareAxisMotorTest(a))
<1> TAKE a \in Axes
<1> DEFINE p == PrepareAxisMotorTest(a)
           w == Step(0, "DRIVER?", a, "READY_OR_CONFIGURE")
           x == Step(0, "DRIVER CONFIGURE", "BOTH", "ANY")
           y == Step(0, "DRIVER?", a, "READY")
           z == Step(0, "DRIVER?", Other(a), "PARSED")
<1>1. p = <<w, x, y, z>> /\ Good(p)
  <2>1. Good(p)
    BY Preparing DEF Within
  <2> QED
    BY <2>1 DEF PrepareAxisMotorTest
<1>2. /\ Len(p) = 4 /\ p[1] = w /\ p[2] = x /\ p[3] = y /\ p[4] = z
  <2>1. /\ Len(<<w, x, y, z>>) = 4 /\ <<w, x, y, z>>[1] = w
        /\ <<w, x, y, z>>[2] = x /\ <<w, x, y, z>>[3] = y
        /\ <<w, x, y, z>>[4] = z
    OBVIOUS
  <2> QED
    BY <1>1, <2>1, Zenon
<1>3. /\ w.zone = 0 /\ w.do = "DRIVER?" /\ w.expect = "READY_OR_CONFIGURE"
      /\ x.zone = 0 /\ Configures(x) /\ x.expect = "ANY"
      /\ y.zone = 0 /\ y.do = "DRIVER?" /\ y.expect = "READY"
      /\ z.zone = 0 /\ z.do = "DRIVER?" /\ z.expect = "PARSED"
  BY DEF Step, Configures
<1> HIDE DEF p, w, x, y, z
<1>4. \A i \in 1..4 : i = 1 \/ i = 2 \/ i = 3 \/ i = 4
  OBVIOUS
<1>a. ASSUME NEW s \in Steps, NEW n \in Steps, s.zone = 0, n.zone = 0
      PROVE  /\ s.do = "DRIVER?" /\ s.expect # "REST" /\ s.expect # "ANY"
                  => Allowed(s)
             /\ Configures(s) /\ s.expect = "ANY" => Allowed(s)
             /\ s.expect = "READY_OR_CONFIGURE" /\ s.do = "DRIVER?"
                  /\ Configures(n) => Follows(s, n)
             /\ Configures(s) /\ s.expect = "ANY"
                  /\ n.do = "DRIVER?" /\ n.expect = "READY" => Follows(s, n)
             /\ s.do = "DRIVER?" /\ s.expect = "READY" /\ n.do = "DRIVER?"
                  => Follows(s, n)
             /\ s.do = "DRIVER?" /\ s.expect = "PARSED" => Leaves(s)
             /\ Enters(s)
  BY <1>a, ConfiguresOnly DEF Allowed, Follows, Leaves, Enters, Steps
<1>b. /\ w.expect # "REST" /\ w.expect # "ANY"
      /\ y.expect # "REST" /\ y.expect # "ANY"
      /\ z.expect # "REST" /\ z.expect # "ANY"
      /\ w \in Steps /\ x \in Steps /\ y \in Steps /\ z \in Steps
  BY <1>1, <1>2, <1>3 DEF Good
<1>5. Allowed(w) /\ Allowed(x) /\ Allowed(y) /\ Allowed(z)
  BY <1>3, <1>a, <1>b
<1>6. Follows(w, x) /\ Follows(x, y) /\ Follows(y, z)
  BY <1>3, <1>a, <1>b
<1>7. ASSUME NEW i \in 1..4, NEW j \in 1..4, j = i + 1
      PROVE  Follows(p[i], p[j])
  <2>1. (i = 1 /\ j = 2) \/ (i = 2 /\ j = 3) \/ (i = 3 /\ j = 4)
    BY <1>7
  <2> QED
    BY <1>2, <1>6, <2>1
<1>8. Chained(p)
  BY <1>1, <1>2, <1>4, <1>5, <1>7 DEF Chained
<1>9. Enters(w) /\ Leaves(z)
  BY <1>3, <1>a, <1>b
<1>10. Piece(p)
  BY <1>2, <1>8, <1>9 DEF Piece
<1> QED
  BY <1>10 DEF p

\* The steps of FreeSteps, one by one.
LEMMA FreeParts ==
  ASSUME NEW a \in Axes
  PROVE  /\ Piece(Greeting) /\ Piece(CheckCalibration)
         /\ Piece(QueryDriverReport(a))
         /\ Piece(RunSegment(a)) /\ Piece(RunDualSegment)
         /\ Piece(Endstop("PARSED")) /\ Piece(Endstop("RELEASED"))
         /\ \A z \in {0, 1, 3, 5} : Piece(State(z, a))
         /\ \A z \in {0, 1} : /\ Piece(WaitForStop(z, a))
                              /\ Piece(WaitForHome(z)) /\ Piece(HomeTilt(z))
         /\ Piece(<<Step(0, "ENABLE", a, "OK")>>)
         /\ \A do \in {"JOG", "DIR-CHECK"} : Piece(<<Step(0, do, "TILT", "OK")>>)
<1>0. /\ "PAN" \in Axes /\ "TILT" \in Axes
      /\ \A e \in {"PARSED", "OK", "HOMED", "CALIBRATED", "REFRESH",
                   "RELEASED"} :
           /\ e # "REST"
           /\ e \in {"PARSED", "OK", "REST", "HOMED", "CALIBRATED", "REFRESH",
                     "RELEASED"}
  BY DEF Axes
<1>1. /\ Piece(<<Step(0, "PING", "BOTH", "OK")>>)
      /\ Piece(<<Step(0, "INFO", "BOTH", "OK")>>)
      /\ Piece(<<Step(1, "STOP", "BOTH", "OK")>>)
  BY <1>0, FreeSteps
<1>2. /\ Piece(<<Step(0, "DRIVER?", a, "PARSED")>>)
      /\ Piece(<<Step(0, "DRIVER-DIAG?", a, "PARSED")>>)
      /\ Piece(<<Step(0, "STATE?", "TILT", "CALIBRATED")>>)
  BY <1>0, FreeSteps
<1>3. /\ Piece(<<Step(1, "VEL", a, "REFRESH")>>)
      /\ Piece(<<Step(1, "VEL", "BOTH", "REFRESH")>>)
  BY <1>0, FreeSteps
<1>4. /\ Piece(Greeting) /\ Piece(CheckCalibration)
      /\ Piece(QueryDriverReport(a))
  BY <1>1, <1>2, Pair, Zenon DEF Greeting, CheckCalibration, QueryDriverReport
<1>5. /\ Piece(<<Step(1, "VEL", a, "REFRESH"), Step(1, "STOP", "BOTH", "OK")>>)
      /\ Piece(<<Step(1, "VEL", "BOTH", "REFRESH"),
                 Step(1, "STOP", "BOTH", "OK")>>)
  BY <1>1, <1>3, Pair, Zenon
<1>6. \A x \in Axes, z \in {0, 1, 3, 5} : Piece(State(z, x))
  BY <1>0, FreeSteps DEF State
<1>7. ASSUME NEW x \in Axes, NEW z \in {0, 1} PROVE Piece(WaitForStop(z, x))
  <2>1. z \in {0, 1, 3, 4, 5} /\ z <= 1
    OBVIOUS
  <2>2. Piece(<<Step(z, "STATE?", x, "REST")>>)
    BY <2>1, FreeSteps
  <2> QED
    BY <2>2 DEF WaitForStop
<1>8. \A z \in {0, 1} : Piece(WaitForHome(z)) /\ Piece(HomeTilt(z))
  BY <1>0, FreeSteps DEF WaitForHome, HomeTilt
<1>9. Piece(RunSegment(a)) /\ Piece(RunDualSegment)
  BY <1>0, <1>5, <1>6, <1>7, FreePieces DEF RunSegment, RunDualSegment
<1>10. /\ Piece(Endstop("PARSED")) /\ Piece(Endstop("RELEASED"))
       /\ Piece(<<Step(0, "ENABLE", a, "OK")>>)
       /\ \A do \in {"JOG", "DIR-CHECK"} : Piece(<<Step(0, do, "TILT", "OK")>>)
  BY <1>0, FreeSteps DEF Endstop
<1> QED
  BY <1>4, <1>6, <1>7, <1>8, <1>9, <1>10

-----------------------------------------------------------------------------
\* How a motor test begins.
Opens(p) ==
    /\ Len(p) >= 3
    /\ p[1].do = "PING" /\ p[1].expect = "OK" /\ p[1].zone = 0
    /\ p[2].do = "INFO" /\ p[2].expect = "OK" /\ p[2].zone = 0
    /\ p[3].expect = "READY_OR_CONFIGURE"

LEMMA OpensStill ==
  ASSUME NEW s, NEW t, Good(s), Good(t), Opens(s) PROVE Opens(s \o t)
<1> DEFINE u == s \o t
<1>1. /\ Good(u) /\ Len(s) \in Nat /\ Len(t) \in Nat /\ Len(u) = Len(s) + Len(t)
      /\ \A i \in 1..Len(s) : u[i] = s[i]
      /\ \A i \in 1..Len(u) :
              i \notin 1..Len(s) => /\ i - Len(s) \in 1..Len(t)
                                    /\ u[i] = t[i - Len(s)]
  BY Joined
<1> HIDE DEF u
<1>2. u[1] = s[1] /\ u[2] = s[2] /\ u[3] = s[3] /\ Len(u) >= 3
  <2>1. 1 \in 1..Len(s) /\ 2 \in 1..Len(s) /\ 3 \in 1..Len(s)
    BY <1>1 DEF Opens
  <2> QED
    BY <1>1, <2>1 DEF Opens
<1>3. Opens(u)
  BY <1>2 DEF Opens
<1> QED
  BY <1>3 DEF u

LEMMA GreetingOpens ==
  ASSUME NEW a \in Axes PROVE Opens(Greeting \o PrepareAxisMotorTest(a))
<1> DEFINE s == Greeting
           t == PrepareAxisMotorTest(a)
           u == s \o t
<1>1. /\ Good(s) /\ Good(t)
  BY Pieces, Preparing DEF Within
<1>2. /\ Len(s) = 2 /\ s[1] = Step(0, "PING", "BOTH", "OK")
      /\ s[2] = Step(0, "INFO", "BOTH", "OK")
  BY DEF Greeting
<1>3. Len(t) = 4 /\ t[1] = Step(0, "DRIVER?", a, "READY_OR_CONFIGURE")
  BY DEF PrepareAxisMotorTest
<1>4. /\ Good(u) /\ Len(s) \in Nat /\ Len(t) \in Nat /\ Len(u) = Len(s) + Len(t)
      /\ \A i \in 1..Len(s) : u[i] = s[i]
      /\ \A i \in 1..Len(u) :
              i \notin 1..Len(s) => /\ i - Len(s) \in 1..Len(t)
                                    /\ u[i] = t[i - Len(s)]
  BY <1>1, Joined
<1> HIDE DEF s, t, u
<1>5. Len(u) = 6 /\ u[1] = s[1] /\ u[2] = s[2] /\ u[3] = t[1]
  BY <1>2, <1>3, <1>4
<1>6. Opens(u)
  BY <1>2, <1>3, <1>5 DEF Opens, Step
<1> QED
  BY <1>6 DEF u, s, t

\* A script is a chain, and a motor test begins as it does.
Paced(name, p) ==
    /\ Chained(p)
    /\ name \in {"motor-test", "dual-motor-test"} => Opens(p)

LEMMA SinglePaced ==
  ASSUME NEW a \in Axes PROVE Paced("motor-test", RunMotorTest(a))
<1> DEFINE first == Greeting \o PrepareAxisMotorTest(a)
           more == IF a = "TILT" THEN CheckCalibration ELSE << >>
           enable == <<Step(0, "ENABLE", a, "OK")>>
           home == IF a = "TILT" THEN HomeTilt(1) \o WaitForHome(1) ELSE << >>
           inside == first \o more \o enable \o home
                       \o RunSegment(a) \o RunSegment(a)
           w == Step(2, "STOP", "BOTH", "OK")
           x == Step(2, "STATE?", a, "REST")
           y == Step(3, "DISABLE", a, "OK")
           z == Step(3, "STATE?", a, "PARSED")
           p1 == inside \o <<w>>
           p2 == p1 \o <<x>>
           p3 == p2 \o <<y>>
           p4 == p3 \o <<z>>
<1>0. 2 \in 0..5 /\ 3 \in 0..5
  OBVIOUS
<1>1. RunMotorTest(a) = p4
  BY DEF RunMotorTest, WaitForStop, State
<1>2. Piece(inside) /\ Opens(inside)
  <2>1. Piece(first) /\ Opens(first)
    BY FreePreparing, FreeParts, FreePieces, GreetingOpens
  <2>2. Piece(more) /\ Piece(home) /\ Piece(enable)
    BY FreeParts, FreePieces, Empty
  <2>3. \A t : Piece(t) => Good(t)
    BY DEF Piece, Chained
  <2> HIDE DEF first, more, home, enable
  <2>4. Piece(RunSegment(a))
    BY FreeParts
  <2> DEFINE q1 == first \o more
             q2 == q1 \o enable
             q3 == q2 \o home
             q4 == q3 \o RunSegment(a)
  <2>5. Piece(q1) /\ Opens(q1)
    BY <2>1, <2>2, <2>3, FreePieces, OpensStill
  <2> HIDE DEF q1
  <2>6. Piece(q2) /\ Opens(q2)
    BY <2>2, <2>3, <2>5, FreePieces, OpensStill
  <2> HIDE DEF q2
  <2>7. Piece(q3) /\ Opens(q3)
    BY <2>2, <2>3, <2>6, FreePieces, OpensStill
  <2> HIDE DEF q3
  <2>8. Piece(q4) /\ Opens(q4)
    BY <2>3, <2>4, <2>7, FreePieces, OpensStill
  <2> HIDE DEF q4
  <2>9. Piece(q4 \o RunSegment(a)) /\ Opens(q4 \o RunSegment(a))
    BY <2>3, <2>4, <2>8, FreePieces, OpensStill
  <2> QED
    BY <2>9 DEF q1, q2, q3, q4
<1> HIDE DEF first, more, enable, home, inside
<1>3. /\ Plain(w, 2) /\ Plain(x, 2) /\ Plain(y, 3) /\ Plain(z, 3)
  BY PlainSteps, Answers, <1>0
<1>4. /\ w.zone = 2 /\ w.do = "STOP" /\ w.expect = "OK"
      /\ x.zone = 2 /\ x.do = "STATE?" /\ x.expect = "REST"
      /\ y.zone = 3 /\ y.do = "DISABLE" /\ y.expect = "OK"
      /\ z.zone = 3 /\ z.do = "STATE?" /\ z.expect = "PARSED"
      /\ ~Configures(w) /\ ~Configures(x) /\ ~Configures(y) /\ ~Configures(z)
  BY DEF Step, Configures
<1> HIDE DEF w, x, y, z
<1>5. /\ Allowed(w) /\ Allowed(x) /\ Allowed(y) /\ Allowed(z)
      /\ Follows(w, x) /\ Follows(x, y) /\ Follows(y, z) /\ Enters(w)
  BY <1>3, <1>4 DEF Allowed, Follows, Enters, Plain, Steps
<1>6. /\ Chained(inside)
      /\ \A i \in 1..Len(inside) : i = Len(inside) => Follows(inside[i], w)
  <2>1. Good(inside) /\ \A i \in 1..Len(inside) : inside[i].zone \in 0..5
    BY <1>2, GoodZones DEF Piece, Chained
  <2> QED
    BY <1>2, <1>4, <1>5, <2>1 DEF Piece, Follows, Leaves
<1>7. Chained(p1) /\ \A i \in 1..Len(p1) : i = Len(p1) => p1[i] = w
  BY <1>3, <1>5, <1>6, Adds, <1>0
<1> HIDE DEF p1
<1>8. Chained(p2) /\ \A i \in 1..Len(p2) : i = Len(p2) => p2[i] = x
  BY <1>3, <1>5, <1>7, Adds, <1>0
<1> HIDE DEF p2
<1>9. Chained(p3) /\ \A i \in 1..Len(p3) : i = Len(p3) => p3[i] = y
  BY <1>3, <1>5, <1>8, Adds, <1>0
<1> HIDE DEF p3
<1>10. Chained(p4)
  BY <1>3, <1>5, <1>9, Adds, <1>0
<1>11. Opens(p4)
  <2>1. Good(<<w>>) /\ Good(<<x>>) /\ Good(<<y>>) /\ Good(<<z>>)
    BY <1>3, PlainPieces, <1>0 DEF Within
  <2>2. Good(inside) /\ Good(p1) /\ Good(p2) /\ Good(p3)
    BY <1>6, <1>7, <1>8, <1>9 DEF Chained
  <2>3. Opens(p1)
    BY <1>2, <2>1, <2>2, OpensStill DEF p1
  <2>4. Opens(p2)
    BY <2>1, <2>2, <2>3, OpensStill DEF p2
  <2>5. Opens(p3)
    BY <2>1, <2>2, <2>4, OpensStill DEF p3
  <2> QED
    BY <2>1, <2>2, <2>5, OpensStill
<1> QED
  BY <1>1, <1>10, <1>11 DEF Paced

LEMMA DualPaced == Paced("dual-motor-test", RunDualMotorTest)
<1> DEFINE first == Greeting \o PrepareAxisMotorTest("PAN")
           enable == <<Step(0, "ENABLE", "PAN", "OK"),
                       Step(0, "ENABLE", "TILT", "OK")>>
           r == Step(2, "STOP", "BOTH", "ANY")
           s == Step(3, "DISABLE", "PAN", "ANY")
           t == Step(4, "DISABLE", "TILT", "ANY")
           c == <<r, s, t>>
           q1 == first \o PrepareAxisMotorTest("TILT")
           q2 == q1 \o CheckCalibration
           q3 == q2 \o enable
           q4 == q3 \o HomeTilt(1)
           q5 == q4 \o WaitForHome(1)
           q6 == q5 \o RunDualSegment
           q7 == q6 \o RunDualSegment
           q8 == q7 \o c
           q9 == q8 \o State(5, "PAN")
           q10 == q9 \o State(5, "TILT")
<1>0. /\ RunDualMotorTest = q10 /\ "PAN" \in Axes /\ "TILT" \in Axes
      /\ 2 \in 0..5 /\ 3 \in 0..5 /\ 4 \in 0..5
      /\ 0 \in {0, 1} /\ 1 \in {0, 1} /\ 5 \in {0, 1, 3, 5}
  BY DEF RunDualMotorTest, Axes
<1>1. Piece(first) /\ Opens(first)
  BY <1>0, FreePreparing, FreeParts, FreePieces, GreetingOpens
<1>2. /\ Piece(PrepareAxisMotorTest("TILT")) /\ Piece(CheckCalibration)
      /\ Piece(HomeTilt(1)) /\ Piece(WaitForHome(1)) /\ Piece(RunDualSegment)
      /\ Piece(State(5, "PAN")) /\ Piece(State(5, "TILT"))
  BY <1>0, FreePreparing, FreeParts
<1>3. Piece(enable)
  BY <1>0, FreeParts, Pair, Zenon
<1>4. /\ Plain(r, 2) /\ Plain(s, 3) /\ Plain(t, 4)
  BY <1>0, PlainSteps, Answers
<1>5. /\ r.zone = 2 /\ r.do = "STOP" /\ r.expect = "ANY"
      /\ s.zone = 3 /\ s.do = "DISABLE" /\ s.expect = "ANY"
      /\ t.zone = 4 /\ t.do = "DISABLE" /\ t.expect = "ANY"
      /\ ~Configures(r) /\ ~Configures(s) /\ ~Configures(t)
  BY DEF Step, Configures
<1> HIDE DEF r, s, t
<1>6. /\ Allowed(r) /\ Allowed(s) /\ Allowed(t)
      /\ Follows(r, s) /\ Follows(s, t) /\ Enters(r) /\ Leaves(t)
  BY <1>4, <1>5 DEF Allowed, Follows, Enters, Leaves, Plain, Steps
<1>7. Piece(c)
  <2>1. /\ c \in Seq(Steps) /\ Len(c) = 3 /\ c[1] = r /\ c[2] = s /\ c[3] = t
    BY <1>4 DEF Plain
  <2> HIDE DEF c
  <2>2. \A i \in 1..3 : i = 1 \/ i = 2 \/ i = 3
    OBVIOUS
  <2>3. Good(c)
    BY <1>4, <2>1, <2>2 DEF Good, Plain
  <2>4. ASSUME NEW i \in 1..3, NEW j \in 1..3, j = i + 1
        PROVE  Follows(c[i], c[j])
    <3>1. (i = 1 /\ j = 2) \/ (i = 2 /\ j = 3)
      BY <2>4
    <3> QED
      BY <1>6, <2>1, <3>1
  <2>5. Chained(c)
    BY <1>6, <2>1, <2>2, <2>3, <2>4 DEF Chained
  <2> QED
    BY <1>6, <2>1, <2>5 DEF Piece
<1> HIDE DEF first, enable, c
<1>8. ASSUME NEW p, NEW d, Piece(p), Opens(p), Piece(d)
      PROVE  Piece(p \o d) /\ Opens(p \o d)
  BY <1>8, FreePieces, OpensStill DEF Piece, Chained
<1>9. Piece(q1) /\ Opens(q1)
  BY <1>1, <1>2, <1>8
<1> HIDE DEF q1
<1>10. Piece(q2) /\ Opens(q2)
  BY <1>2, <1>8, <1>9
<1> HIDE DEF q2
<1>11. Piece(q3) /\ Opens(q3)
  BY <1>3, <1>8, <1>10
<1> HIDE DEF q3
<1>12. Piece(q4) /\ Opens(q4)
  BY <1>2, <1>8, <1>11
<1> HIDE DEF q4
<1>13. Piece(q5) /\ Opens(q5)
  BY <1>2, <1>8, <1>12
<1> HIDE DEF q5
<1>14. Piece(q6) /\ Opens(q6)
  BY <1>2, <1>8, <1>13
<1> HIDE DEF q6
<1>15. Piece(q7) /\ Opens(q7)
  BY <1>2, <1>8, <1>14
<1> HIDE DEF q7
<1>16. Piece(q8) /\ Opens(q8)
  BY <1>7, <1>8, <1>15
<1> HIDE DEF q8
<1>17. Piece(q9) /\ Opens(q9)
  BY <1>2, <1>8, <1>16
<1> HIDE DEF q9
<1>18. Piece(q10) /\ Opens(q10)
  BY <1>2, <1>8, <1>17
<1> QED
  BY <1>0, <1>18 DEF Paced, Piece

\* A script that is no motor test.
LEMMA OtherPaced ==
  ASSUME NEW name \in Names \ {"motor-test", "dual-motor-test"}, NEW a \in Axes
  PROVE  Chained(Script(name, a))
<1>0. /\ "TILT" \in Axes /\ 0 \in 0..5 /\ 0 \in {0, 1, 3, 5} /\ 0 \in {0, 1}
      /\ \A p : Piece(p) => Chained(p)
  BY DEF Axes, Piece
<1>1. CASE name = "home-tilt"
  <2>1. Script(name, a) = PrepareAxisMotorTest("TILT") \o CheckCalibration
                            \o Endstop("PARSED") \o HomeTilt(0) \o WaitForHome(0)
    BY <1>1 DEF Script
  <2>2. /\ Piece(PrepareAxisMotorTest("TILT")) /\ Piece(CheckCalibration)
        /\ Piece(Endstop("PARSED")) /\ Piece(HomeTilt(0)) /\ Piece(WaitForHome(0))
    BY <1>0, FreePreparing, FreeParts
  <2> QED
    BY <1>0, <2>1, <2>2, FreePieces
<1>2. CASE name = "tilt-dir-check"
  <2> DEFINE k == <<Step(0, "DIR-CHECK", "TILT", "OK")>>
  <2>1. Script(name, a) = PrepareAxisMotorTest("TILT") \o Endstop("RELEASED")
                            \o k \o WaitForStop(0, "TILT")
    BY <1>2 DEF Script
  <2>2. /\ Piece(PrepareAxisMotorTest("TILT")) /\ Piece(Endstop("RELEASED"))
        /\ Piece(k) /\ Piece(WaitForStop(0, "TILT"))
    BY <1>0, FreePreparing, FreeParts
  <2> HIDE DEF k
  <2> QED
    BY <1>0, <2>1, <2>2, FreePieces
<1>3. CASE name = "jog-tilt"
  <2> DEFINE k == <<Step(0, "JOG", "TILT", "OK")>>
  <2>1. Script(name, a) = k \o WaitForStop(0, "TILT")
    BY <1>3 DEF Script
  <2>2. Piece(k) /\ Piece(WaitForStop(0, "TILT"))
    BY <1>0, FreeParts
  <2> HIDE DEF k
  <2> QED
    BY <1>0, <2>1, <2>2, FreePieces
<1>4. CASE name \in {"state", "driver", "endstop"}
  <2>1. Script(name, a) \in {State(0, a), QueryDriverReport(a), Endstop("PARSED")}
    BY <1>4 DEF Script
  <2>2. /\ Piece(State(0, a)) /\ Piece(QueryDriverReport(a))
        /\ Piece(Endstop("PARSED"))
    BY <1>0, FreeParts
  <2> QED
    BY <1>0, <2>1, <2>2
<1>5. CASE name \in {"configure-drivers", "velocity", "enable", "disable",
                     "stop", "ping", "info"}
  <2> DEFINE x == Step(0, "DRIVER CONFIGURE", "BOTH", "OK")
             sends == {Step(0, "VEL", a, "ANY"), Step(0, "ENABLE", a, "ANY"),
                       Step(0, "DISABLE", a, "ANY"), Step(0, "STOP", "BOTH", "ANY"),
                       Step(0, "PING", "BOTH", "ANY"), Step(0, "INFO", "BOTH", "ANY")}
  <2>1. \E s \in sends \cup {x} : Script(name, a) = <<s>>
    BY <1>5 DEF Script, Send
  <2>2. Plain(x, 0) /\ \A s \in sends : Plain(s, 0)
    BY <1>0, PlainSteps, Answers
  <2>3. x.zone = 0 /\ Configures(x) /\ x.expect = "OK"
    BY DEF Step, Configures
  <2>4. \A s \in sends : /\ s.zone = 0 /\ s.expect = "ANY" /\ s.do # "DRIVER?"
                         /\ ~Configures(s)
    <3>1. ASSUME NEW do \in {"VEL", "ENABLE", "DISABLE", "STOP", "PING", "INFO"},
                 NEW b
          PROVE  /\ Step(0, do, b, "ANY").zone = 0
                 /\ Step(0, do, b, "ANY").expect = "ANY"
                 /\ Step(0, do, b, "ANY").do # "DRIVER?"
                 /\ ~Configures(Step(0, do, b, "ANY"))
      <4>1. Step(0, do, b, "ANY").do = do /\ do # "DRIVER CONFIGURE"
        BY Zenon DEF Step
      <4> QED
        BY <4>1 DEF Step, Configures
    <3> QED
      BY <3>1
  <2> HIDE DEF x, sends
  <2>5. Allowed(x)
    BY <2>2, <2>3, ConfiguresOnly DEF Allowed, Plain, Steps
  <2>6. \A s \in sends : Allowed(s)
    BY <2>2, <2>4 DEF Allowed, Plain, Steps
  <2>7. \A s \in sends \cup {x} : Chained(<<s>>)
    BY <1>0, <2>2, <2>5, <2>6, Single
  <2> QED
    BY <2>1, <2>7
<1> QED
  BY <1>1, <1>2, <1>3, <1>4, <1>5 DEF Names

LEMMA ScriptsPaced ==
  \A name \in Names, a \in Axes : Paced(name, Script(name, a))
<1> TAKE name \in Names, a \in Axes
<1>1. CASE name = "motor-test"
  BY <1>1, SinglePaced DEF Script
<1>2. CASE name = "dual-motor-test"
  BY <1>2, DualPaced DEF Script
<1>3. CASE name \notin {"motor-test", "dual-motor-test"}
  BY <1>3, OtherPaced DEF Paced
<1> QED
  BY <1>1, <1>2, <1>3

-----------------------------------------------------------------------------
(***************************************************************************)
(* The stream.  No line says which request it answers: what can be known   *)
(* is how many lines are due, read or unserved, and what the k-th of them  *)
(* cannot be.                                                              *)
(***************************************************************************)
Lines ==
    [kind : {"OK", "ERR", "CUT", "JUNK", "STATE", "DRIVER", "ENDSTOP", "DIAG"},
     axis : {"PAN", "TILT", "BOTH"},
     says : {"NOTHING", "HOMING", "BUSY", "HOMED", "REST", "READY", "NOT_READY",
             "TRIGGERED", "RELEASED"}]

Queues == inbox \in Seq(Lines) /\ sent \in Seq(Requests)

Due == Len(inbox) + Len(sent)
JunkAhead == inbox # << >> /\ inbox[1] = Junk

Kinds == {"DRIVER", "STATE"}
Query(K) == IF K = "DRIVER" THEN "DRIVER?" ELSE "STATE?"
\* The places of the stream where no reply of kind K is due.
NoReply(K) ==
    {k \in Nat :
       /\ k \in 1..Len(inbox) => inbox[k].kind # K
       /\ k - Len(inbox) \in 1..Len(sent) => sent[k - Len(inbox)].do # Query(K)}

\* A snapshot of an axis at rest was true when it was sent.
Truthful(b, r) ==
    r.kind = "STATE" /\ r.says \in {"REST", "HOMED"} =>
      r.axis \in Axes /\ Standing(b, r.axis)

\* What the board answers.
Fits(e, q) ==
    /\ e.reply \in Lines /\ Truthful(e.board, e.reply)
    /\ \A K \in Kinds : e.reply.kind = K => q.do = Query(K)

LEMMA PlainReplies ==
  ASSUME NEW c, NEW q
  PROVE  /\ Fits(Effect(c, Ok), q) /\ Fits(Effect(c, Err), q)
         /\ Fits(Refusal(c), q)
         /\ \A x \in Axes : Fits(Effect(c, Reply("DIAG", x, "NOTHING")), q)
         /\ \A says \in {"TRIGGERED", "RELEASED"} :
              Fits(Effect(c, Reply("ENDSTOP", "TILT", says)), q)
  BY DEF Fits, Effect, Refusal, Ok, Err, Reply, Lines, Truthful, Kinds, Axes

LEMMA QueryReplies ==
  ASSUME NEW c \in BoardState, NEW q, NEW x \in Axes
  PROVE  /\ q.do = "STATE?" => Fits(Effect(c, StateReply(c, x)), q)
         /\ q.do = "DRIVER?" => Fits(Effect(c, DriverReply(c, x)), q)
<1>1. PICK s : s = Snapshot(c, x)
  OBVIOUS
<1>2. /\ s \in {"HOMING", "BUSY", "HOMED", "REST"}
      /\ s \in {"REST", "HOMED"} => Standing(c, x)
  BY <1>1 DEF Snapshot
<1>3. PICK d : d = IF Ready(c, x) THEN "READY" ELSE "NOT_READY"
  OBVIOUS
<1>4. /\ StateReply(c, x) = [kind |-> "STATE", axis |-> x, says |-> s]
      /\ DriverReply(c, x) = [kind |-> "DRIVER", axis |-> x, says |-> d]
      /\ d \in {"READY", "NOT_READY"}
  BY <1>1, <1>3 DEF StateReply, DriverReply, Reply
<1>5. q.do = "STATE?" => Fits(Effect(c, StateReply(c, x)), q)
  BY <1>2, <1>4 DEF Fits, Effect, Lines, Truthful, Kinds, Query, Axes
<1>6. q.do = "DRIVER?" => Fits(Effect(c, DriverReply(c, x)), q)
  BY <1>4 DEF Fits, Effect, Lines, Truthful, Kinds, Query, Axes
<1> QED
  BY <1>5, <1>6

LEMMA Replying ==
  ASSUME NEW b \in BoardState, NEW q \in Requests, NEW e \in Effects(b, q)
  PROVE  Fits(e, q)
<1> DEFINE a == q.axis
<1>1. CASE q.do \in {"PING", "INFO", "STOP", "DISABLE"}
  BY <1>1, PlainReplies DEF Effects
<1>2. CASE q.do = "DRIVER-DIAG?" \/ q.do = "ENDSTOP?"
  <2>1. q.do = "DRIVER-DIAG?" => a \in Axes
    BY DEF Requests
  <2>2. \/ a \in Axes /\ e = Effect(b, Reply("DIAG", a, "NOTHING"))
        \/ \E says \in {"TRIGGERED", "RELEASED"} :
             e = Effect(b, Reply("ENDSTOP", "TILT", says))
    BY <1>2, <2>1 DEF Effects
  <2> QED
    BY <2>2, PlainReplies
<1>3. CASE q.do = "STATE?"
  <2>1. a \in Axes
    BY <1>3 DEF Requests
  <2>2. e = Effect(b, StateReply(b, a))
    BY <1>3 DEF Effects
  <2> QED
    BY <1>3, <2>1, <2>2, QueryReplies
<1>4. CASE q.do = "DRIVER?"
  <2>1. a \in Axes
    BY <1>4 DEF Requests
  <2>2. PICK c \in Refreshed(b, a) : e = Effect(c, DriverReply(c, a))
    BY <1>4 DEF Effects
  <2>3. c \in BoardState
    BY <2>1, Refreshing DEF ArmsNone
  <2> QED
    BY <1>4, <2>1, <2>2, <2>3, QueryReplies
<1>5. CASE q.do = "DRIVER CONFIGURE"
  <2>1. \/ e = Refusal(b)
        \/ \E c : e = Effect(c, Ok) \/ e = Effect(c, Err)
    BY <1>5 DEF Effects
  <2> QED
    BY <2>1, PlainReplies
<1>6. CASE q.do \in {"ENABLE", "VEL", "HOME", "JOG", "DIR-CHECK"}
  <2>1. e = Refusal(b) \/ \E c : e = Effect(c, Ok)
    BY <1>6 DEF Effects
  <2> QED
    BY <2>1, PlainReplies
<1>7. q.do \in Dos
  BY DEF Requests, Dos
<1> QED
  BY <1>1, <1>2, <1>3, <1>4, <1>5, <1>6, <1>7 DEF Dos

\* A line is read, or cut in two; a request goes out, or is answered.
LEMMA LineRead ==
  ASSUME Queues, inbox # << >>, inbox' = Tail(inbox), sent' = sent
  PROVE  /\ Queues' /\ Due \in Nat /\ Due >= 1 /\ Due' = Due - 1
         /\ \A k \in Nat \ {0}, K \in Kinds : k + 1 \in NoReply(K) => k \in NoReply(K)'
         /\ inbox' # << >> => inbox'[Len(inbox')] = inbox[Len(inbox)]
<1>1. /\ inbox' \in Seq(Lines) /\ Len(inbox) \in Nat \ {0} /\ Len(sent) \in Nat
      /\ Len(inbox') = Len(inbox) - 1
      /\ \A i \in 1..Len(inbox') : inbox'[i] = inbox[i + 1]
      /\ inbox' # << >> => Len(inbox') >= 1
  BY DEF Queues
<1>2. ASSUME NEW k \in Nat \ {0}, NEW K \in Kinds, k + 1 \in NoReply(K) PROVE k \in NoReply(K)'
  <2>1. k \in 1..Len(inbox') => inbox'[k].kind # K
    BY <1>1, <1>2 DEF NoReply
  <2>2. k - Len(inbox') = k + 1 - Len(inbox)
    BY <1>1
  <2>3. k - Len(inbox') \in 1..Len(sent') => sent'[k - Len(inbox')].do # Query(K)
    BY <1>2, <2>2 DEF NoReply
  <2> QED
    BY <2>1, <2>3 DEF NoReply, Query
<1>3. /\ Due \in Nat /\ Due >= 1 /\ Due' = Due - 1
      /\ inbox' # << >> => inbox'[Len(inbox')] = inbox[Len(inbox)]
  BY <1>1 DEF Due
<1> QED
  BY <1>1, <1>2, <1>3 DEF Queues

LEMMA LineCut ==
  ASSUME Queues, inbox # << >>, inbox' = <<Junk>> \o Tail(inbox), sent' = sent
  PROVE  /\ Queues' /\ Due \in Nat /\ Due >= 1 /\ Due' = Due /\ JunkAhead'
         /\ \A k \in Nat, K \in Kinds :
              k = 1 \/ k \in NoReply(K) => k \in NoReply(K)'
         /\ \/ inbox'[Len(inbox')] = inbox[Len(inbox)]
            \/ inbox'[Len(inbox')] = Junk
<1>1. Junk \in Lines /\ Junk.kind = "JUNK"
  BY DEF Junk, Reply, Lines
<1>2. <<Junk>> \in Seq(Lines) /\ Len(<<Junk>>) = 1 /\ <<Junk>>[1] = Junk
  BY <1>1
<1>3. PICK t : t = Tail(inbox)
  OBVIOUS
<1>4. /\ t \in Seq(Lines) /\ Len(inbox) \in Nat \ {0} /\ Len(sent) \in Nat
      /\ Len(t) = Len(inbox) - 1
      /\ \A i \in 1..Len(t) : t[i] = inbox[i + 1]
  BY <1>3 DEF Queues
<1>5. PICK j : j = <<Junk>>
  OBVIOUS
<1>6. inbox' = j \o t /\ j \in Seq(Lines) /\ Len(j) = 1 /\ j[1] = Junk
  BY <1>2, <1>3, <1>5
<1>7. /\ inbox' \in Seq(Lines) /\ Len(inbox') = Len(inbox) /\ inbox'[1] = Junk
      /\ \A i \in 2..Len(inbox) : inbox'[i] = inbox[i]
  <2> DEFINE u == j \o t
  <2>a. /\ u \in Seq(Lines) /\ Len(u) = Len(j) + Len(t)
        /\ \A i \in 1..Len(j) : u[i] = j[i]
        /\ \A i \in 1..Len(u) : i \notin 1..Len(j) => u[i] = t[i - Len(j)]
    BY <1>4, <1>6
  <2>b. inbox' = u
    BY <1>6
  <2> HIDE DEF u
  <2>1. /\ inbox' \in Seq(Lines) /\ Len(inbox') = 1 + Len(t) /\ inbox'[1] = Junk
        /\ \A i \in 1..(1 + Len(t)) : i > 1 => inbox'[i] = t[i - 1]
    <3>1. /\ Len(u) = 1 + Len(t) /\ u[1] = Junk /\ Len(t) \in Nat
          /\ \A i \in 1..(1 + Len(t)) : i > 1 => u[i] = t[i - 1]
      BY <1>4, <1>6, <2>a
    <3> QED
      BY <2>a, <2>b, <3>1
  <2>2. ASSUME NEW i \in 2..Len(inbox) PROVE inbox'[i] = inbox[i]
    <3>1. i - 1 \in 1..Len(t) /\ i \in 1..(1 + Len(t)) /\ i > 1 /\ i - 1 + 1 = i
      BY <1>4
    <3> QED
      BY <1>4, <2>1, <3>1
  <2> QED
    BY <1>4, <2>1, <2>2
<1>8. inbox' # << >>
  BY <1>4, <1>7
<1>9. ASSUME NEW k \in Nat, NEW K \in Kinds, k = 1 \/ k \in NoReply(K)
      PROVE  k \in NoReply(K)'
  <2>1. CASE k = 1
    <3>1. inbox'[1].kind # K
      BY <1>1, <1>7 DEF Kinds
    <3>2. k - Len(inbox') \notin 1..Len(sent')
      BY <1>4, <1>7, <2>1
    <3> QED
      BY <2>1, <3>1, <3>2 DEF NoReply
  <2>2. CASE k # 1 /\ k \in NoReply(K)
    <3>1. k \in 1..Len(inbox') => k \in 2..Len(inbox) /\ k \in 1..Len(inbox)
      BY <1>4, <1>7, <2>2
    <3>2. k \in 1..Len(inbox') => inbox'[k].kind # K
      BY <1>7, <2>2, <3>1 DEF NoReply
    <3>3. k - Len(inbox') \in 1..Len(sent') => sent'[k - Len(inbox')].do # Query(K)
      BY <1>7, <2>2 DEF NoReply
    <3> QED
      BY <3>2, <3>3 DEF NoReply, Query
  <2> QED
    BY <1>9, <2>1, <2>2
<1>10. \/ inbox'[Len(inbox')] = inbox[Len(inbox)]
       \/ inbox'[Len(inbox')] = Junk
  <2>1. Len(inbox) = 1 \/ Len(inbox) \in 2..Len(inbox)
    BY <1>4
  <2> QED
    BY <1>7, <2>1
<1>11. Due \in Nat /\ Due >= 1 /\ Due' = Due
  BY <1>4, <1>7 DEF Due
<1> QED
  BY <1>7, <1>8, <1>9, <1>10, <1>11 DEF Queues, JunkAhead

LEMMA Asked ==
  ASSUME Queues, NEW q \in Requests, sent' = Append(sent, q), inbox' = inbox
  PROVE  /\ Queues' /\ Due \in Nat /\ Due' = Due + 1
         /\ JunkAhead => JunkAhead'
         /\ \A k \in 1..Due, K \in Kinds : k \in NoReply(K) => k \in NoReply(K)'
         /\ \A K \in Kinds : q.do # Query(K) => Due' \in NoReply(K)'
<1>1. /\ sent' \in Seq(Requests) /\ Len(inbox) \in Nat /\ Len(sent) \in Nat
      /\ Len(sent') = Len(sent) + 1 /\ sent'[Len(sent) + 1] = q
      /\ \A i \in 1..Len(sent) : sent'[i] = sent[i]
  BY DEF Queues
<1>2. ASSUME NEW k \in 1..Due, NEW K \in Kinds, k \in NoReply(K) PROVE k \in NoReply(K)'
  <2>1. k - Len(inbox') \in 1..Len(sent') => k - Len(inbox) \in 1..Len(sent)
    BY <1>1 DEF Due
  <2>2. k - Len(inbox') \in 1..Len(sent') => sent'[k - Len(inbox')].do # Query(K)
    BY <1>1, <1>2, <2>1 DEF NoReply
  <2>3. k \in 1..Len(inbox') => inbox'[k].kind # K
    BY <1>2 DEF NoReply
  <2> QED
    BY <2>2, <2>3 DEF NoReply, Query
<1>3. ASSUME NEW K \in Kinds, q.do # Query(K) PROVE Due' \in NoReply(K)'
  <2>1. /\ Due' \in Nat /\ Due' \notin 1..Len(inbox')
        /\ Due' - Len(inbox') = Len(sent) + 1
    BY <1>1 DEF Due
  <2>2. sent'[Due' - Len(inbox')].do # Query(K)
    BY <1>1, <1>3, <2>1
  <2> QED
    BY <2>1, <2>2 DEF NoReply, Query
<1> QED
  BY <1>1, <1>2, <1>3 DEF Queues, Due, JunkAhead

LEMMA Answered ==
  ASSUME Queues, sent # << >>, NEW e, Fits(e, Head(sent)),
         sent' = Tail(sent), inbox' = Append(inbox, e.reply)
  PROVE  /\ Queues' /\ Due \in Nat /\ Due' = Due
         /\ JunkAhead => JunkAhead'
         /\ \A k \in Nat, K \in Kinds : k \in NoReply(K) => k \in NoReply(K)'
         /\ inbox'[Len(inbox')] = e.reply
<1>1. PICK r : r = e.reply
  OBVIOUS
<1>2. /\ r \in Lines /\ \A K \in Kinds : r.kind = K => sent[1].do = Query(K)
  BY <1>1 DEF Fits, Queues
<1>3. /\ sent' \in Seq(Requests) /\ Len(sent) \in Nat \ {0}
      /\ Len(sent') = Len(sent) - 1
      /\ \A i \in 1..Len(sent') : sent'[i] = sent[i + 1]
  BY DEF Queues
<1>4. /\ inbox' \in Seq(Lines) /\ Len(inbox) \in Nat
      /\ Len(inbox') = Len(inbox) + 1 /\ inbox'[Len(inbox) + 1] = r
      /\ \A i \in 1..Len(inbox) : inbox'[i] = inbox[i]
  BY <1>1, <1>2 DEF Queues
<1>5. ASSUME NEW k \in Nat, NEW K \in Kinds, k \in NoReply(K) PROVE k \in NoReply(K)'
  <2>1. k \in 1..Len(inbox') => inbox'[k].kind # K
    <3>1. CASE k \in 1..Len(inbox)
      BY <1>4, <1>5, <3>1 DEF NoReply
    <3>2. CASE k = Len(inbox) + 1
      <4>1. k - Len(inbox) = 1 /\ 1 \in 1..Len(sent)
        BY <1>3, <1>4, <3>2
      <4>2. sent[1].do # Query(K)
        BY <1>5, <4>1 DEF NoReply
      <4> QED
        BY <1>2, <1>4, <3>2, <4>2
    <3> QED
      BY <1>4, <3>1, <3>2
  <2>2. ASSUME k - Len(inbox') \in 1..Len(sent')
        PROVE  sent'[k - Len(inbox')].do # Query(K)
    <3> DEFINE i == k - Len(inbox')
    <3>1. /\ i \in 1..Len(sent') /\ i + 1 = k - Len(inbox)
          /\ i + 1 \in 1..Len(sent)
      BY <1>3, <1>4, <2>2
    <3>2. sent[i + 1].do # Query(K)
      BY <1>5, <3>1 DEF NoReply
    <3> QED
      BY <1>3, <3>1, <3>2
  <2> QED
    BY <2>1, <2>2 DEF NoReply, Query
<1>6. JunkAhead => JunkAhead'
  <2>1. inbox # << >> => 1 \in 1..Len(inbox)
    BY <1>4 DEF Queues
  <2>2. inbox' # << >>
    BY <1>4
  <2> QED
    BY <1>4, <2>1, <2>2 DEF JunkAhead
<1> QED
  BY <1>1, <1>3, <1>4, <1>5, <1>6 DEF Queues, Due

\* A short queue, and the head of one.
LEMMA Heads ==
  ASSUME Queues
  PROVE  /\ Due \in Nat
         /\ inbox = << >> => ~JunkAhead
         /\ inbox # << >> =>
              /\ Due >= 1 /\ Head(inbox) = inbox[1]
              /\ JunkAhead <=> Head(inbox) = Junk
              /\ \A K \in Kinds : 1 \in NoReply(K) => Head(inbox).kind # K
         /\ Due = 0 => sent = << >> /\ inbox = << >>
         /\ Due = 1 /\ inbox # << >> => sent = << >> /\ Len(inbox) = 1
<1>1. /\ Len(inbox) \in Nat /\ Len(sent) \in Nat
      /\ inbox # << >> => Len(inbox) >= 1 /\ Head(inbox) = inbox[1]
      /\ Len(inbox) = 0 => inbox = << >>
      /\ Len(sent) = 0 => sent = << >>
  BY DEF Queues
<1>2. inbox # << >> => 1 \in 1..Len(inbox)
  BY <1>1
<1>3. Due = Len(inbox) + Len(sent) /\ Due \in Nat
  BY <1>1 DEF Due
<1>4. \A K \in Kinds : 1 \in NoReply(K) /\ inbox # << >> => inbox[1].kind # K
  BY <1>2 DEF NoReply
<1>5. JunkAhead <=> inbox # << >> /\ inbox[1] = Junk
  BY DEF JunkAhead
<1>6. /\ Due = 0 => Len(inbox) = 0 /\ Len(sent) = 0
      /\ Due = 1 /\ Len(inbox) >= 1 => Len(inbox) = 1 /\ Len(sent) = 0
      /\ Len(inbox) >= 1 => Due >= 1
  BY <1>1, <1>3
<1> QED
  BY <1>1, <1>3, <1>4, <1>5, <1>6

-----------------------------------------------------------------------------
(***************************************************************************)
(* The invariant.  A session is in step when the lines still due are those *)
(* of the request it waits for, or one more that is the rest of a line it  *)
(* gave up on.  It may fall out of step in three ways, and in none of them *)
(* does it come to an enable or believe that an axis stands: a query of a  *)
(* driver whose next line cannot answer it (Awry), the first steps of a    *)
(* motor test with lines of an earlier session ahead (Early), and the STOP *)
(* and the poll of a cleanup after a line that was given up (Stale).       *)
(***************************************************************************)
Waiting == IF reading THEN 1 ELSE 0
Timely == late = 0 \/ (IsMotorTest /\ late <= 3)

Own == reading =>
    /\ Current.do # "DRIVER?" => Due \in NoReply("DRIVER")
    /\ Current.do # "STATE?" => Due \in NoReply("STATE")
InStep ==
    /\ Due = Waiting \/ (Due = Waiting + 1 /\ JunkAhead)
    /\ Own
Awry ==
    \/ Current.do = "DRIVER?" /\ Due >= 1 /\ 1 \in NoReply("DRIVER")
    \/ Configures(Current) /\ Due >= 2 /\ 2 \in NoReply("DRIVER")
LateLines ==
    /\ Due = late + Waiting
    /\ reading => Due \in NoReply("DRIVER")
Early ==
    /\ late \in 1..3 /\ IsMotorTest
    /\ \/ at = 1 /\ LateLines
       \/ at = 2 /\ (JunkAhead \/ (LateLines /\ late \in NoReply("DRIVER")))
       \/ at = 3 /\ Due >= 3 /\ 2 \in NoReply("DRIVER") /\ 3 \in NoReply("DRIVER")
Stale ==
    \/ /\ Current.do = "STOP"
       /\ \/ JunkAhead
          \/ Due = 1 + Waiting /\ (reading => Due \in NoReply("STATE"))
    \/ Current.do = "STATE?" /\ Due >= 1 /\ 1 \in NoReply("STATE")

Sound ==
    link /\ Open /\ Timely =>
      /\ Current.zone = 0 => InStep \/ Awry \/ Early
      /\ Current.zone = 1 => InStep
      /\ Current.zone = 2 => InStep \/ Stale

\* The last line tells of the board as it still is.
Truth == inbox # << >> => Truthful(board, inbox[Len(inbox)])

SyncInv ==
    /\ Queues /\ late \in Nat /\ (~link => inbox = << >>)
    /\ Truth
    /\ Sound

\* What the scripts say of the step a session is at.
LEMMA Here ==
  ASSUME script \in Scripts, at \in 0..Len(Program)
  PROVE  /\ Len(Program) \in Nat \ {0} /\ DOMAIN Program = 1..Len(Program)
         /\ \A i \in 1..Len(Program) :
              /\ Program[i] \in Steps /\ Request(Program[i]) \in Requests
              /\ Program[i].zone \in 0..5 /\ Allowed(Program[i])
         /\ \A i, j \in 1..Len(Program) :
              /\ i <= j => Program[i].zone <= Program[j].zone
              /\ j = i + 1 => Follows(Program[i], Program[j])
         /\ IsMotorTest => Opens(Program)
         /\ Open => at \in 1..Len(Program) /\ Current = Program[at]
<1> DEFINE p == Program
<1>1. /\ script[1] \in Names /\ script[2] \in Axes
      /\ p = Script(script[1], script[2])
      /\ Within(p, 0, 5) /\ p \in Seq(Steps)
      /\ Len(p) \in Nat \ {0} /\ DOMAIN p = 1..Len(p)
      /\ \A i \in 1..Len(p) : p[i].zone \in 0..5
  BY ProgramFacts
<1>2. Paced(script[1], p)
  BY <1>1, ScriptsPaced
<1>3. Open => at \in 1..Len(p) /\ Current = p[at]
  BY <1>1 DEF Open, Current
<1> HIDE DEF p
<1>4. IsMotorTest => Opens(p)
  BY <1>2 DEF Paced, IsMotorTest
<1>5. \A i \in 1..Len(p) : /\ p[i] \in Steps /\ Request(p[i]) \in Requests
                           /\ Allowed(p[i])
  BY <1>1, <1>2 DEF Paced, Chained, Within, Good
<1>6. \A i, j \in 1..Len(p) :
              /\ i <= j => p[i].zone <= p[j].zone
              /\ j = i + 1 => Follows(p[i], p[j])
  BY <1>1, <1>2 DEF Paced, Chained, Within
<1> QED
  BY <1>1, <1>3, <1>4, <1>5, <1>6 DEF p

\* Steps that leave the session where it is and the stream in its order.
LEMMA SoundStays ==
  ASSUME Sound, UNCHANGED <<script, at, reading, late>>, link' => link,
         Due \in Nat, late \in Nat,
         link' => /\ Due' = Due
                  /\ JunkAhead => JunkAhead'
                  /\ \A k \in Nat, K \in Kinds : k \in NoReply(K) => k \in NoReply(K)'
  PROVE  Sound'
<1>1. /\ Program' = Program /\ Current' = Current /\ Open' = Open
      /\ Timely' = Timely /\ Waiting' = Waiting /\ IsMotorTest' = IsMotorTest
  BY DEF Program, Programs, Current, Open, Timely, Waiting, IsMotorTest
<1>2. Configures(Current)' = Configures(Current)
  BY <1>1 DEF Configures
<1> SUFFICES ASSUME link', Open, Timely, Sound
             PROVE  /\ Current.zone = 0 => InStep' \/ Awry' \/ Early'
                    /\ Current.zone = 1 => InStep'
                    /\ Current.zone = 2 => InStep' \/ Stale'
  BY <1>1 DEF Sound
<1>3. /\ Due' = Due
      /\ JunkAhead => JunkAhead'
      /\ \A k \in {1, 2, 3, late, Due} :
           /\ k \in NoReply("DRIVER") => k \in NoReply("DRIVER")'
           /\ k \in NoReply("STATE") => k \in NoReply("STATE")'
  BY DEF Kinds
<1>4. InStep => InStep'
  BY <1>1, <1>3 DEF InStep, Own
<1>5. Awry => Awry'
  BY <1>1, <1>2, <1>3 DEF Awry
<1>6. LateLines => LateLines'
  BY <1>1, <1>3 DEF LateLines
<1>7. Early => Early'
  BY <1>1, <1>3, <1>6 DEF Early
<1>8. Stale => Stale'
  BY <1>1, <1>3 DEF Stale
<1> QED
  BY <1>4, <1>5, <1>7, <1>8 DEF Sound

\* With nothing due the session is in step, wherever it is.
Calm == Due = 0 \/ (Due = 1 /\ JunkAhead)
LEMMA Settled ==
  ASSUME ~reading', Calm' PROVE Sound'
<1>1. InStep'
  BY DEF InStep, Own, Waiting, Calm
<1> QED
  BY <1>1 DEF Sound

\* An exception ends the session or goes on in a later zone, in the cleanup
\* with its STOP.
LEMMA Raising ==
  ASSUME HostType, Open, Raise, script' = script
  PROVE  /\ ~reading' /\ Program' = Program
         /\ \/ at' = 0
            \/ /\ Current.zone > 0 /\ at' \in 1..Len(Program)
               /\ Current.zone < Program[at'].zone
               /\ Program[at'].zone = 2 => Program[at'].do = "STOP"
<1>0. /\ script \in Scripts /\ at \in 0..Len(Program) /\ Program' = Program
  BY DEF HostType, Program, Programs
<1>1. /\ Len(Program) \in Nat \ {0} /\ DOMAIN Program = 1..Len(Program)
      /\ \A i \in 1..Len(Program) :
           Program[i].zone \in 0..5 /\ Allowed(Program[i])
      /\ \A i, j \in 1..Len(Program) :
           /\ i <= j => Program[i].zone <= Program[j].zone
           /\ j = i + 1 => Follows(Program[i], Program[j])
      /\ at \in 1..Len(Program) /\ Current = Program[at]
  BY <1>0, Here
<1>2. CASE Current.zone = 0 \/ NextZones = {}
  <2>1. Goto(0)
    BY <1>2 DEF Raise
  <2> QED
    BY <1>0, <1>1, <2>1 DEF Goto
<1>3. CASE Current.zone # 0 /\ NextZones # {}
  <2> DEFINE i == First(NextZones)
  <2>1. NextZones \subseteq Nat
    BY <1>1 DEF NextZones
  <2>2. i \in NextZones /\ \A j \in NextZones : i <= j
    BY <1>3, <2>1, FirstIsLeast
  <2>3. Goto(i)
    BY <1>3 DEF Raise
  <2> HIDE DEF i
  <2>4. i \in 1..Len(Program) /\ Program[i].zone > Current.zone
    BY <1>1, <2>2 DEF NextZones
  <2>5. at' = i /\ ~reading'
    BY <1>1, <2>3, <2>4 DEF Goto
  <2>6. i > at
    BY <1>1, <2>4
  <2>7. PICK j \in 1..Len(Program) : i = j + 1
    BY <1>1, <2>4, <2>6
  <2>8. Program[j].zone <= Current.zone
    <3>1. j \notin NextZones
      BY <1>1, <2>2, <2>4, <2>7
    <3> QED
      BY <1>1, <2>7, <3>1 DEF NextZones
  <2>9. ASSUME Program[i].zone = 2 PROVE Program[i].do = "STOP"
    <3>1. Program[j].zone # 2
      BY <1>1, <2>4, <2>8, <2>9
    <3>2. Program[i].do # "STATE?"
      BY <1>1, <2>4, <2>7, <2>9, <3>1 DEF Follows
    <3> QED
      BY <1>1, <2>4, <2>9, <3>2 DEF Allowed
  <2> QED
    BY <1>0, <1>1, <1>3, <2>4, <2>5, <2>9
<1> QED
  BY <1>2, <1>3

LEMMA RaisesSound ==
  ASSUME HostType, Open, Raise, script' = script,
         Current.zone = 1 =>
           (Due' \in Nat /\ Due' <= 1) \/ JunkAhead'
  PROVE  Sound'
<1>1. /\ ~reading' /\ Program' = Program
      /\ \/ at' = 0
         \/ /\ Current.zone > 0 /\ at' \in 1..Len(Program)
            /\ Current.zone < Program[at'].zone
            /\ Program[at'].zone = 2 => Program[at'].do = "STOP"
  BY Raising
<1>2. CASE at' = 0
  BY <1>2 DEF Sound, Open
<1>3. CASE at' # 0
  <2>1. /\ Current.zone \in 0..5 /\ Program[at'].zone \in 0..5
        /\ Current' = Program[at']
    BY <1>1, <1>3, Here DEF HostType, Current
  <2>2. CASE Program[at'].zone # 2
    <3>1. Current'.zone # 0 /\ Current'.zone # 1 /\ Current'.zone # 2
      BY <1>1, <1>3, <2>1, <2>2
    <3> QED
      BY <3>1 DEF Sound
  <2>3. CASE Program[at'].zone = 2
    <3>1. /\ Current.zone = 1 /\ Current'.do = "STOP" /\ Current'.zone = 2
      BY <1>1, <1>3, <2>1, <2>3
    <3>2. Waiting' = 0
      BY <1>1 DEF Waiting
    <3>3. (InStep \/ Stale)'
      BY <1>1, <3>1, <3>2 DEF InStep, Own, Stale
    <3> QED
      BY <3>1, <3>3 DEF Sound
  <2> QED
    BY <2>2, <2>3
<1> QED
  BY <1>2, <1>3

\* What a line makes of the step: an exception, or it was an answer to the
\* request, or any line would do.
Onward ==
    \/ NextStep
    \/ SkipsConfigure /\ Current.expect = "READY_OR_CONFIGURE"
    \/ Again /\ Current.expect \in {"REST", "HOMED", "REFRESH"}

LEMMA TakesWays ==
  ASSUME NEW r, Takes(r)
  PROVE  Raise \/ (Onward /\ (Current.expect = "ANY" \/ Parses(Current, r)))
  BY DEF Takes, Satisfies, Pending, Onward

LEMMA OnwardTo ==
  ASSUME HostType, Open, Onward, script' = script
  PROVE  /\ ~reading' /\ Program' = Program
         /\ \/ at' = 0
            \/ at' \in 1..Len(Program) /\ at' = at + 1
            \/ /\ at' \in 1..Len(Program) /\ at' = at + 3
               /\ Current.expect = "READY_OR_CONFIGURE"
            \/ at' = at /\ Current.expect \in {"REST", "HOMED", "REFRESH"}
<1>1. /\ at \in 1..Len(Program) /\ Len(Program) \in Nat
      /\ DOMAIN Program = 1..Len(Program) /\ Program' = Program
  BY Here DEF HostType, Program, Programs
<1>2. CASE NextStep
  BY <1>1, <1>2 DEF NextStep, Goto
<1>3. CASE SkipsConfigure /\ Current.expect = "READY_OR_CONFIGURE"
  BY <1>1, <1>3 DEF SkipsConfigure, Goto
<1>4. CASE Again /\ Current.expect \in {"REST", "HOMED", "REFRESH"}
  BY <1>1, <1>4 DEF Again
<1> QED
  BY <1>2, <1>3, <1>4 DEF Onward

\* A line that is the rest of another, or of another kind, is no answer.
LEMMA NoAnswer ==
  ASSUME NEW s, NEW r
  PROVE  /\ r.kind \in {"JUNK", "ERR"} => ~Parses(s, r)
         /\ s.do = "STATE?" /\ Parses(s, r) => r.kind = "STATE" /\ r.axis = s.axis
         /\ s.do = "DRIVER?" /\ Parses(s, r) => r.kind = "DRIVER"
  BY DEF Parses, StartsWithOk

-----------------------------------------------------------------------------
\* The line r is taken from the stream, or the head of it is.
Pops ==
    /\ Due' = Due - 1
    /\ \A k \in Nat \ {0}, K \in Kinds : k + 1 \in NoReply(K) => k \in NoReply(K)'
Splits ==
    /\ ~JunkAhead /\ JunkAhead' /\ Due' = Due
    /\ \A k \in Nat, K \in Kinds : k = 1 \/ k \in NoReply(K) => k \in NoReply(K)'
LineTaken(r) ==
    /\ Open /\ reading /\ link /\ Takes(r)
    /\ Due \in Nat /\ Due >= 1
    /\ JunkAhead => r = Junk
    /\ \A K \in Kinds : 1 \in NoReply(K) => r.kind # K
    /\ Pops \/ Splits
    /\ UNCHANGED <<script, late, link>>

LEMMA ReadingTakes ==
  ASSUME Queues, ReadLine \/ ReadCut PROVE \E r : LineTaken(r)
<1>1. CASE ReadLine
  <2>1. Pops /\ Due \in Nat /\ Due >= 1
    BY <1>1, LineRead DEF ReadLine, Flushed, Pops
  <2> DEFINE r == Head(inbox)
  <2>2. /\ JunkAhead => r = Junk
        /\ \A K \in Kinds : 1 \in NoReply(K) => r.kind # K
    BY <1>1, Heads DEF ReadLine
  <2>3. LineTaken(r)
    BY <1>1, <2>1, <2>2 DEF ReadLine, Flushed, LineTaken, session
  <2> QED
    BY <2>3
<1>2. CASE ReadCut
  <2>1. /\ inbox # << >> /\ Head(inbox) # Junk
        /\ inbox' = <<Junk>> \o Tail(inbox) /\ sent' = sent
        /\ Open /\ reading /\ link /\ UNCHANGED <<script, late, link>>
    BY <1>2 DEF ReadCut, Flushed, session
  <2>2. PICK r \in {Head(inbox), IF StartsWithOk(Head(inbox)) THEN Cut ELSE Err} :
          Takes(r)
    BY <1>2 DEF ReadCut
  <2>3. ~JunkAhead /\ \A K \in Kinds : 1 \in NoReply(K) => Head(inbox).kind # K
    BY <2>1, Heads
  <2>4. \A K \in Kinds : Cut.kind # K /\ Err.kind # K
    BY DEF Kinds, Cut, Err, Reply
  <2>5. \A K \in Kinds : 1 \in NoReply(K) => r.kind # K
    BY <2>2, <2>3, <2>4
  <2>6. /\ Splits /\ Due \in Nat /\ Due >= 1
    BY <2>1, <2>3, LineCut DEF Splits
  <2>7. LineTaken(r)
    BY <2>1, <2>2, <2>3, <2>5, <2>6 DEF LineTaken
  <2> QED
    BY <2>7
<1> QED
  BY <1>1, <1>2

LEMMA CalmsDown ==
  ASSUME NEW r, LineTaken(r), InStep, Due = 1 \/ ~JunkAhead PROVE Calm'
<1>1. Due = 1
  BY DEF InStep, Waiting, LineTaken
<1> QED
  BY <1>1 DEF Calm, LineTaken, Pops, Splits

LEMMA AfterJunk ==
  ASSUME NEW r, LineTaken(r), InStep, JunkAhead, Due # 1
  PROVE  /\ ~Parses(Current, r) /\ Due' = 1
         /\ Current.do # "DRIVER?" => 1 \in NoReply("DRIVER")'
<1>1. Due = 2 /\ Due' = 1 /\ Pops /\ r = Junk
  BY DEF InStep, Waiting, LineTaken, Pops, Splits
<1>2. ~Parses(Current, r)
  BY <1>1, NoAnswer DEF Junk, Reply
<1>3. Current.do # "DRIVER?" => 2 \in NoReply("DRIVER")
  BY <1>1 DEF InStep, Own, LineTaken
<1>4. 2 \in NoReply("DRIVER") => 1 \in NoReply("DRIVER")'
  <2>1. 1 \in Nat \ {0} /\ 1 + 1 = 2 /\ "DRIVER" \in Kinds
    BY DEF Kinds
  <2> QED
    BY <1>1, <2>1 DEF Pops
<1> QED
  BY <1>1, <1>2, <1>3, <1>4

\* A query of a driver whose line cannot answer it.
LEMMA QueriesAwry ==
  ASSUME Current'.do = "DRIVER?", Current'.zone = 0, Due' >= 1,
         1 \in NoReply("DRIVER")'
  PROVE  Sound'
<1>1. Awry'
  BY DEF Awry
<1> QED
  BY <1>1 DEF Sound

\* The places that are left when a line is gone.
LEMMA LeftPlaces ==
  ASSUME NEW r, LineTaken(r)
  PROVE  /\ Due' \in {Due, Due - 1}
         /\ \A k \in {1, 2} : k \in NoReply("DRIVER") /\ k + 1 \in NoReply("DRIVER")
              => k \in NoReply("DRIVER")'
         /\ 2 \in NoReply("DRIVER") => 1 \in NoReply("DRIVER")'
         /\ \/ JunkAhead' /\ 1 \in NoReply("DRIVER")' /\ Due' = Due
            \/ Due' = Due - 1
<1>1. /\ 1 \in Nat \ {0} /\ 2 \in Nat \ {0} /\ 1 \in Nat /\ 2 \in Nat
      /\ 1 + 1 = 2 /\ 2 + 1 = 3 /\ "DRIVER" \in Kinds
  BY DEF Kinds
<1>2. CASE Pops
  BY <1>1, <1>2 DEF Pops
<1>3. CASE Splits
  BY <1>1, <1>3 DEF Splits
<1> QED
  BY <1>2, <1>3 DEF LineTaken

\* In step, a line ends the request it was asked by.
LEMMA InStepReads ==
  ASSUME HostType, NEW r, LineTaken(r), InStep, Current.zone <= 2
  PROVE  Sound'
<1>0. /\ Open /\ script' = script
      /\ Raise \/ (Onward /\ (Current.expect = "ANY" \/ Parses(Current, r)))
  BY TakesWays DEF LineTaken
<1>1. Calm' \/ (/\ ~Parses(Current, r) /\ Due' = 1
                /\ Current.do # "DRIVER?" => 1 \in NoReply("DRIVER")')
  BY CalmsDown, AfterJunk
<1>2. CASE Raise
  <2>1. (Due' \in Nat /\ Due' <= 1) \/ JunkAhead'
    BY <1>1 DEF Calm
  <2> QED
    BY <1>0, <1>2, <2>1, RaisesSound
<1>3. CASE Onward /\ (Current.expect = "ANY" \/ Parses(Current, r))
  <2>1. /\ ~reading' /\ Program' = Program
        /\ \/ at' = 0
           \/ at' \in 1..Len(Program) /\ at' = at + 1
           \/ /\ at' \in 1..Len(Program) /\ at' = at + 3
              /\ Current.expect = "READY_OR_CONFIGURE"
           \/ at' = at /\ Current.expect \in {"REST", "HOMED", "REFRESH"}
    BY <1>0, <1>3, OnwardTo
  <2>2. CASE Calm'
    BY <2>1, <2>2, Settled
  <2>3. CASE at' = 0
    BY <2>3 DEF Sound, Open
  <2>4. CASE ~Calm' /\ at' # 0
    <3>1. /\ Current.expect = "ANY" /\ Due' = 1
          /\ Current.do # "DRIVER?" => 1 \in NoReply("DRIVER")'
      BY <1>1, <1>3, <2>4
    <3>2. at' \in 1..Len(Program) /\ at' = at + 1
      BY <2>1, <2>4, <3>1
    <3>3. /\ Follows(Current, Program[at']) /\ Program[at'].zone \in 0..5
          /\ Current.zone \in 0..5 /\ Current' = Program[at']
      BY <1>0, <2>1, <3>2, Here DEF HostType, Current
    <3>4. \/ Configures(Current)
          \/ Current'.zone > 2
      BY <3>1, <3>3 DEF Follows
    <3>5. CASE Configures(Current)
      <4>1. Current'.do = "DRIVER?" /\ Current'.zone = 0
        BY <3>3, <3>5 DEF Follows
      <4>2. Current.do # "DRIVER?"
        BY <3>5, ConfiguresOnly
      <4> QED
        BY <3>1, <4>1, <4>2, QueriesAwry
    <3>6. CASE Current'.zone > 2
      <4>1. Current'.zone # 0 /\ Current'.zone # 1 /\ Current'.zone # 2
        BY <3>3, <3>6
      <4> QED
        BY <4>1 DEF Sound
    <3> QED
      BY <3>4, <3>5, <3>6
  <2> QED
    BY <2>2, <2>3, <2>4
<1> QED
  BY <1>0, <1>2, <1>3

\* A query of a driver that cannot be answered raises; the line a
\* DRIVER CONFIGURE takes leaves the next query such a one.
LEMMA AwryReads ==
  ASSUME HostType, NEW r, LineTaken(r), Awry, Current.zone = 0
  PROVE  Sound'
<1>0. /\ Open /\ script' = script /\ Due \in Nat
      /\ Raise \/ (Onward /\ (Current.expect = "ANY" \/ Parses(Current, r)))
      /\ 1 \in NoReply("DRIVER") => r.kind # "DRIVER"
  BY TakesWays DEF LineTaken, Kinds
<1>1. /\ Allowed(Current) /\ at \in 1..Len(Program)
  BY <1>0, Here DEF HostType
<1>2. CASE Raise
  BY <1>0, <1>2, RaisesSound
<1>3. CASE Onward /\ (Current.expect = "ANY" \/ Parses(Current, r))
  <2>1. /\ ~reading' /\ Program' = Program
        /\ \/ at' = 0
           \/ at' \in 1..Len(Program) /\ at' = at + 1
           \/ /\ at' \in 1..Len(Program) /\ at' = at + 3
              /\ Current.expect = "READY_OR_CONFIGURE"
           \/ at' = at /\ Current.expect \in {"REST", "HOMED", "REFRESH"}
    BY <1>0, <1>3, OnwardTo
  <2>2. ~(Current.do = "DRIVER?" /\ 1 \in NoReply("DRIVER"))
    <3>1. Current.do = "DRIVER?" => Current.expect # "ANY"
      BY <1>1 DEF Allowed
    <3> QED
      BY <1>0, <1>3, <3>1, NoAnswer
  <2>3. Configures(Current) /\ Due >= 2 /\ 2 \in NoReply("DRIVER")
    BY <2>2 DEF Awry
  <2>4. CASE at' = 0
    BY <2>4 DEF Sound, Open
  <2>5. CASE at' # 0
    <3>1. Current.expect \in {"ANY", "OK"}
      BY <1>1, <2>3 DEF Allowed
    <3>2. at' \in 1..Len(Program) /\ at' = at + 1
      BY <2>1, <2>5, <3>1
    <3>3. Follows(Current, Program[at']) /\ Current' = Program[at']
      BY <1>0, <2>1, <3>2, Here DEF HostType, Current
    <3>4. Current'.do = "DRIVER?" /\ Current'.zone = 0
      BY <2>3, <3>3 DEF Follows
    <3>5. Due' >= 1 /\ 1 \in NoReply("DRIVER")'
      BY <1>0, <2>3, LeftPlaces
    <3> QED
      BY <3>4, <3>5, QueriesAwry
  <2> QED
    BY <2>4, <2>5
<1> QED
  BY <1>0, <1>2, <1>3

\* In the cleanup after a line that was given up.
LEMMA StaleReads ==
  ASSUME HostType, NEW r, LineTaken(r), Stale, Current.zone = 2
  PROVE  Sound'
<1>0. /\ Open /\ script' = script /\ Due \in Nat /\ reading
      /\ Raise \/ (Onward /\ (Current.expect = "ANY" \/ Parses(Current, r)))
      /\ 1 \in NoReply("STATE") => r.kind # "STATE"
      /\ JunkAhead => r = Junk
  BY TakesWays DEF LineTaken, Kinds
<1>1. /\ Allowed(Current) /\ at \in 1..Len(Program) /\ Current = Program[at]
      /\ \A i \in 1..Len(Program) : Program[i].zone \in 0..5
  BY <1>0, Here DEF HostType
<1>2. CASE Raise
  BY <1>0, <1>2, RaisesSound
<1>3. CASE Onward /\ (Current.expect = "ANY" \/ Parses(Current, r))
  <2>1. /\ ~reading' /\ Program' = Program
        /\ \/ at' = 0
           \/ at' \in 1..Len(Program) /\ at' = at + 1
           \/ /\ at' \in 1..Len(Program) /\ at' = at + 3
              /\ Current.expect = "READY_OR_CONFIGURE"
           \/ at' = at /\ Current.expect \in {"REST", "HOMED", "REFRESH"}
    BY <1>0, <1>3, OnwardTo
  <2>2. ~(Current.do = "STATE?" /\ 1 \in NoReply("STATE"))
    <3>1. Current.do = "STATE?" => Current.expect = "REST"
      BY <1>1 DEF Allowed
    <3> QED
      BY <1>0, <1>3, <3>1, NoAnswer
  <2>3. /\ Current.do = "STOP"
        /\ JunkAhead \/ (Due = 1 + Waiting /\ (reading => Due \in NoReply("STATE")))
    BY <2>2 DEF Stale
  <2>4. Current.expect \in {"ANY", "OK"}
    BY <1>1, <2>3 DEF Allowed
  <2>5. CASE at' = 0
    BY <2>5 DEF Sound, Open
  <2>6. CASE at' # 0
    <3>1. at' \in 1..Len(Program) /\ at' = at + 1
      BY <2>1, <2>4, <2>6
    <3>2. /\ Follows(Current, Program[at']) /\ Current' = Program[at']
          /\ Current.zone <= Program[at'].zone
      <4>1. at <= at'
        BY <1>1, <3>1
      <4> QED
        BY <1>0, <1>1, <2>1, <3>1, <4>1, Here DEF HostType, Current
    <3>3. CASE Current'.zone # 2
      <4>1. Current'.zone # 0 /\ Current'.zone # 1 /\ Current'.zone # 2
        BY <1>1, <3>1, <3>2, <3>3
      <4> QED
        BY <4>1 DEF Sound
    <3>4. CASE Current'.zone = 2
      <4>1. Current'.do = "STATE?" /\ Current.expect # "ANY"
        BY <3>2, <3>4 DEF Follows
      <4>2. ~JunkAhead
        <5>1. JunkAhead => ~Parses(Current, r)
          BY <1>0, NoAnswer DEF Junk, Reply
        <5> QED
          BY <1>3, <4>1, <5>1
      <4>3. Due = 2 /\ 2 \in NoReply("STATE")
        BY <1>0, <2>3, <4>2 DEF Waiting
      <4>4. Due' >= 1 /\ 1 \in NoReply("STATE")'
        <5>1. 1 \in Nat \ {0} /\ 1 \in Nat /\ 1 + 1 = 2 /\ "STATE" \in Kinds
          BY DEF Kinds
        <5>2. CASE Pops
          BY <4>3, <5>1, <5>2 DEF Pops
        <5>3. CASE Splits
          BY <4>3, <5>1, <5>3 DEF Splits
        <5> QED
          BY <5>2, <5>3 DEF LineTaken
      <4>5. Stale'
        BY <4>1, <4>4 DEF Stale
      <4> QED
        BY <3>4, <4>5 DEF Sound
    <3> QED
      BY <3>3, <3>4
  <2> QED
    BY <2>5, <2>6
<1> QED
  BY <1>0, <1>2, <1>3

\* How a motor test begins, step by step.
LEMMA Beginning ==
  ASSUME script \in Scripts, at \in 0..Len(Program), IsMotorTest
  PROVE  /\ Len(Program) \in Nat /\ 1 \in 1..Len(Program) /\ 2 \in 1..Len(Program)
         /\ \A i \in {1, 2} : /\ Program[i].zone = 0 /\ Program[i].expect = "OK"
                              /\ Program[i].do \in {"PING", "INFO"}
         /\ Program[3].do = "DRIVER?" /\ Program[3].zone = 0
         /\ Program[3].expect = "READY_OR_CONFIGURE"
         /\ Configures(Program[4]) /\ Program[4].zone = 0
         /\ Program[6].do = "DRIVER?" /\ Program[6].zone = 0
<1> DEFINE p == Program
<1>1. /\ Len(p) \in Nat \ {0} /\ Opens(p)
      /\ \A i \in 1..Len(p) : p[i].zone \in 0..5 /\ Allowed(p[i])
      /\ \A i, j \in 1..Len(p) : j = i + 1 => Follows(p[i], p[j])
  BY Here
<1>2. Good(p)
  BY ProgramFacts DEF Within
<1> HIDE DEF p
<1>3. 3 \in 1..Len(p) /\ 1 \in 1..Len(p) /\ 2 \in 1..Len(p)
  BY <1>1 DEF Opens
<1>4. p[3].do = "DRIVER?" /\ p[3].zone = 0 /\ 6 <= Len(p)
  BY <1>1, <1>2, <1>3 DEF Opens, Allowed, Good
<1>5. 4 \in 1..Len(p) /\ 5 \in 1..Len(p) /\ 6 \in 1..Len(p)
  BY <1>1, <1>4
<1>6. Follows(p[3], p[4]) /\ Follows(p[4], p[5]) /\ Follows(p[5], p[6])
  BY <1>1, <1>3, <1>5
<1>7. Configures(p[4])
  BY <1>1, <1>6 DEF Follows, Opens
<1>8. p[4].zone = 0 /\ p[5].expect = "READY"
  BY <1>1, <1>5, <1>6, <1>7 DEF Follows, Allowed
<1>9. p[6].do = "DRIVER?" /\ p[6].zone = 0
  BY <1>6, <1>8 DEF Follows
<1> QED
  BY <1>1, <1>3, <1>4, <1>7, <1>8, <1>9 DEF Opens, p

\* The first steps of a motor test take up to three late lines; with the
\* third it is at the query of the driver, which cannot be answered then.
LEMMA EarlyReads ==
  ASSUME HostType, NEW r, LineTaken(r), Early, Current.zone = 0
  PROVE  Sound'
<1>0. /\ Open /\ script' = script /\ late' = late /\ Due \in Nat /\ reading
      /\ Raise \/ (Onward /\ (Current.expect = "ANY" \/ Parses(Current, r)))
      /\ JunkAhead => r = Junk
      /\ IsMotorTest /\ IsMotorTest' /\ late \in 1..3 /\ Waiting = 1
  BY TakesWays DEF LineTaken, Early, IsMotorTest, Waiting
<1>1. /\ Len(Program) \in Nat /\ 1 \in 1..Len(Program) /\ 2 \in 1..Len(Program)
      /\ \A i \in {1, 2} : /\ Program[i].zone = 0 /\ Program[i].expect = "OK"
                           /\ Program[i].do \in {"PING", "INFO"}
      /\ Program[3].do = "DRIVER?" /\ Program[3].zone = 0
      /\ Program[3].expect = "READY_OR_CONFIGURE"
      /\ Configures(Program[4]) /\ Program[4].zone = 0
      /\ Program[6].do = "DRIVER?" /\ Program[6].zone = 0
      /\ at \in 1..Len(Program) /\ Current = Program[at]
  BY <1>0, Beginning, Here DEF HostType
<1>2. CASE Raise
  BY <1>0, <1>1, <1>2, RaisesSound
<1>3. CASE Onward /\ (Current.expect = "ANY" \/ Parses(Current, r))
  <2>1. /\ ~reading' /\ Program' = Program
        /\ \/ at' = 0
           \/ at' \in 1..Len(Program) /\ at' = at + 1
           \/ /\ at' \in 1..Len(Program) /\ at' = at + 3
              /\ Current.expect = "READY_OR_CONFIGURE"
           \/ at' = at /\ Current.expect \in {"REST", "HOMED", "REFRESH"}
    BY <1>0, <1>3, OnwardTo
  <2>2. CASE at' = 0
    BY <2>2 DEF Sound, Open
  <2>3. Waiting' = 0 /\ Current' = Program[at']
    BY <2>1 DEF Waiting, Current
  <2>4. /\ Due' \in {Due, Due - 1}
        /\ \A k \in {1, 2} : k \in NoReply("DRIVER") /\ k + 1 \in NoReply("DRIVER")
             => k \in NoReply("DRIVER")'
        /\ 2 \in NoReply("DRIVER") => 1 \in NoReply("DRIVER")'
    BY LeftPlaces
  <2>5. Pops \/ (JunkAhead' /\ 1 \in NoReply("DRIVER")' /\ Due' = Due /\ ~JunkAhead)
    <3>1. 1 \in Nat /\ "DRIVER" \in Kinds
      BY DEF Kinds
    <3> QED
      BY <3>1 DEF LineTaken, Splits
  <2>6. ASSUME Pops, NEW k \in 1..3, k + 1 \in NoReply("DRIVER")
        PROVE  k \in NoReply("DRIVER")'
    <3>1. k \in Nat \ {0} /\ "DRIVER" \in Kinds
      BY DEF Kinds
    <3> QED
      BY <2>6, <3>1 DEF Pops
  <2>7. CASE at' # 0 /\ at = 1 /\ LateLines
    <3>1. at' = 2 /\ Current'.zone = 0
      BY <1>1, <2>1, <2>3, <2>7
    <3>2. Due = late + 1 /\ late + 1 \in NoReply("DRIVER")
      BY <1>0, <2>7 DEF LateLines
    <3>3. CASE JunkAhead'
      BY <1>0, <3>1, <3>3 DEF Early, Sound
    <3>4. CASE Pops
      <4>1. late' \in NoReply("DRIVER")'
        BY <1>0, <2>6, <3>2, <3>4
      <4>2. LateLines'
        BY <1>0, <2>1, <2>3, <3>2, <3>4 DEF LateLines, Pops
      <4> QED
        BY <1>0, <3>1, <4>1, <4>2 DEF Early, Sound
    <3> QED
      BY <2>5, <3>3, <3>4
  <2>8. CASE at' # 0 /\ at = 2
    <3>1. at' = 3 /\ Current'.zone = 0 /\ Current'.do = "DRIVER?"
      BY <1>1, <2>1, <2>3, <2>8
    <3>2. ~JunkAhead
      <4>1. JunkAhead => ~Parses(Current, r)
        BY <1>0, NoAnswer DEF Junk, Reply
      <4> QED
        BY <1>1, <1>3, <2>8, <4>1
    <3>3. /\ Due = late + 1 /\ late \in NoReply("DRIVER")
          /\ late + 1 \in NoReply("DRIVER")
      BY <1>0, <2>8, <3>2 DEF Early, LateLines
    <3>4. CASE ~Pops
      <4>1. Due' >= 1 /\ 1 \in NoReply("DRIVER")'
        BY <1>0, <2>5, <3>3, <3>4
      <4> QED
        BY <3>1, <4>1, QueriesAwry
    <3>5. CASE Pops
      <4>1. Due' = late /\ late \in NoReply("DRIVER")'
        BY <1>0, <2>6, <3>3, <3>5 DEF Pops
      <4>2. CASE late = 1
        BY <3>1, <4>1, <4>2, QueriesAwry
      <4>3. CASE late = 2
        <5>1. 1 \in NoReply("DRIVER")'
          BY <2>4, <3>3, <4>3
        <5> QED
          BY <3>1, <4>1, <4>3, <5>1, QueriesAwry
      <4>4. CASE late = 3
        <5>1. 2 \in 1..3 /\ 2 + 1 = 3
          OBVIOUS
        <5>2. 2 \in NoReply("DRIVER")'
          BY <2>6, <3>3, <3>5, <4>4, <5>1
        <5>3. Early'
          BY <1>0, <3>1, <4>1, <4>4, <5>2 DEF Early
        <5> QED
          BY <3>1, <5>3 DEF Sound
      <4> QED
        BY <1>0, <4>2, <4>3, <4>4
    <3> QED
      BY <3>4, <3>5
  <2>9. CASE at' # 0 /\ at = 3
    <3>1. Due >= 3 /\ 2 \in NoReply("DRIVER") /\ 3 \in NoReply("DRIVER")
      BY <2>9 DEF Early
    <3>2. at' = 4 \/ at' = 6
      BY <1>1, <2>1, <2>9
    <3>3. Due' >= 2 /\ 1 \in NoReply("DRIVER")' /\ 2 \in NoReply("DRIVER")'
      BY <1>0, <2>4, <3>1
    <3>4. CASE at' = 6
      <4>1. Current'.do = "DRIVER?" /\ Current'.zone = 0 /\ Due' >= 1
        BY <1>0, <1>1, <2>3, <2>4, <3>1, <3>4
      <4> QED
        BY <3>3, <4>1, QueriesAwry
    <3>5. CASE at' = 4
      <4>1. Configures(Current)' /\ Current'.zone = 0
        BY <1>1, <2>3, <3>5 DEF Configures
      <4>2. Awry'
        BY <3>3, <4>1 DEF Awry
      <4> QED
        BY <4>1, <4>2 DEF Sound
    <3> QED
      BY <3>2, <3>4, <3>5
  <2> QED
    BY <2>2, <2>7, <2>8, <2>9 DEF Early
<1> QED
  BY <1>0, <1>2, <1>3

\* A request that goes out.
LEMMA WritesSound ==
  ASSUME HostType, SyncInv, Write PROVE Sound'
<1>0. /\ Open /\ link /\ ~reading /\ reading' /\ inbox' = inbox
      /\ UNCHANGED <<script, at, late, link>> /\ late \in Nat /\ Queues /\ Sound
      /\ sent' = Append(sent, Request(Current))
  BY DEF Write, session, Request, SyncInv
<1>1. /\ Program' = Program /\ Current' = Current /\ Open' = Open
      /\ Timely' = Timely /\ IsMotorTest' = IsMotorTest
      /\ Waiting = 0 /\ Waiting' = 1 /\ Configures(Current)' = Configures(Current)
  BY <1>0 DEF Program, Programs, Current, Open, Timely, Waiting, IsMotorTest,
              Configures
<1>2. /\ Request(Current) \in Requests /\ Request(Current).do = Current.do
      /\ at \in 1..Len(Program) /\ Current = Program[at]
  BY <1>0, Here DEF HostType, Request
<1>3. /\ Due \in Nat /\ Due' = Due + 1
      /\ JunkAhead => JunkAhead'
      /\ \A k \in 1..Due, K \in Kinds : k \in NoReply(K) => k \in NoReply(K)'
      /\ \A K \in Kinds : Request(Current).do # Query(K) => Due' \in NoReply(K)'
  BY <1>0, <1>2, Asked
<1>4. /\ Current.do # "DRIVER?" => Due' \in NoReply("DRIVER")'
      /\ Current.do # "STATE?" => Due' \in NoReply("STATE")'
  BY <1>2, <1>3 DEF Kinds, Query
<1>5. \A k \in Nat \ {0} : k <= Due =>
        /\ k \in NoReply("DRIVER") => k \in NoReply("DRIVER")'
        /\ k \in NoReply("STATE") => k \in NoReply("STATE")'
  BY <1>3 DEF Kinds
<1> SUFFICES ASSUME Timely
             PROVE  /\ Current.zone = 0 => InStep' \/ Awry' \/ Early'
                    /\ Current.zone = 1 => InStep'
                    /\ Current.zone = 2 => InStep' \/ Stale'
  BY <1>1 DEF Sound
<1>6. InStep => InStep'
  BY <1>0, <1>1, <1>3, <1>4 DEF InStep, Own
<1>7. Awry => Awry'
  BY <1>1, <1>3, <1>5 DEF Awry
<1>8. Current.zone = 0 /\ Early => Early'
  <2> SUFFICES ASSUME Early PROVE Early'
    OBVIOUS
  <2>1. /\ late \in 1..3 /\ IsMotorTest /\ late' = late /\ at' = at
        /\ IsMotorTest'
    BY <1>0, <1>1 DEF Early
  <2>2. \A i \in {1, 2} : /\ Program[i].expect = "OK"
                          /\ Program[i].do \in {"PING", "INFO"}
    BY <2>1, Beginning DEF HostType
  <2>3. LateLines /\ at \in {1, 2} => LateLines' /\ late <= Due
    BY <1>0, <1>1, <1>2, <1>3, <1>4, <2>1, <2>2 DEF LateLines
  <2>4. late <= Due /\ late \in NoReply("DRIVER") => late \in NoReply("DRIVER")'
    BY <1>5, <2>1
  <2>5. Due >= 3 /\ 2 \in NoReply("DRIVER") /\ 3 \in NoReply("DRIVER")
          => /\ Due' >= 3 /\ 2 \in NoReply("DRIVER")' /\ 3 \in NoReply("DRIVER")'
    BY <1>3, <1>5
  <2> QED
    BY <1>3, <2>1, <2>3, <2>4, <2>5 DEF Early
<1>9. Stale => Stale'
  BY <1>1, <1>3, <1>4, <1>5 DEF Stale
<1> QED
  BY <1>0, <1>6, <1>7, <1>8, <1>9 DEF Sound

\* A line that is taken.
LEMMA ReadsSound ==
  ASSUME HostType, SyncInv, ReadLine \/ ReadCut PROVE Sound'
<1>1. PICK r : LineTaken(r)
  BY ReadingTakes DEF SyncInv
<1>2. /\ Open /\ link /\ link' = link /\ script' = script /\ late' = late
      /\ Timely' = Timely /\ Current.zone \in 0..5
  BY <1>1, Here DEF LineTaken, Timely, IsMotorTest, HostType
<1>3. CASE ~Timely
  BY <1>2, <1>3 DEF Sound
<1>4. CASE Timely /\ Current.zone = 0
  <2>1. InStep \/ Awry \/ Early
    BY <1>2, <1>4 DEF SyncInv, Sound
  <2> QED
    BY <1>1, <1>4, <2>1, InStepReads, AwryReads, EarlyReads
<1>5. CASE Timely /\ Current.zone = 1
  <2>1. InStep
    BY <1>2, <1>5 DEF SyncInv, Sound
  <2> QED
    BY <1>1, <1>5, <2>1, InStepReads
<1>6. CASE Timely /\ Current.zone = 2
  <2>1. InStep \/ Stale
    BY <1>2, <1>6 DEF SyncInv, Sound
  <2> QED
    BY <1>1, <1>6, <2>1, InStepReads, StaleReads
<1>7. CASE Current.zone > 2
  <2>1. /\ script' = script
        /\ Raise \/ (Onward /\ (Current.expect = "ANY" \/ Parses(Current, r)))
    BY <1>1, TakesWays DEF LineTaken
  <2>2. CASE Raise
    BY <1>2, <1>7, <2>1, <2>2, RaisesSound
  <2>3. CASE Onward
    <3>1. /\ Program' = Program
          /\ \/ at' = 0
             \/ at' \in 1..Len(Program) /\ at' = at + 1
             \/ at' \in 1..Len(Program) /\ at' = at + 3
             \/ at' = at
      BY <1>2, <2>1, <2>3, OnwardTo
    <3>2. CASE at' = 0
      BY <3>2 DEF Sound, Open
    <3>3. CASE at' # 0
      <4>1. at \in 1..Len(Program) /\ at' \in 1..Len(Program) /\ at <= at'
        BY <1>2, <3>1, <3>3, Here DEF HostType
      <4>2. /\ Current.zone <= Program[at'].zone /\ Program[at'].zone \in 0..5
            /\ Current' = Program[at']
        BY <1>2, <3>1, <4>1, Here DEF HostType, Current
      <4>3. Current'.zone # 0 /\ Current'.zone # 1 /\ Current'.zone # 2
        BY <1>2, <1>7, <4>2
      <4> QED
        BY <4>3 DEF Sound
    <3> QED
      BY <3>2, <3>3
  <2> QED
    BY <2>1, <2>2, <2>3
<1> QED
  BY <1>2, <1>3, <1>4, <1>5, <1>6, <1>7

\* An exception that no line caused: a read that timed out, a Ctrl-C.
LEMMA BreaksSound ==
  ASSUME HostType, SyncInv, Open, Raise \/ Goto(0),
         UNCHANGED <<script, late, link, sent, inbox>>
  PROVE  Sound'
<1>1. Timely' = Timely /\ Due' = Due /\ JunkAhead' = JunkAhead
  BY DEF Timely, IsMotorTest, Due, JunkAhead
<1>2. CASE Goto(0)
  <2>1. DOMAIN Program = 1..Len(Program) /\ Program' = Program
    BY Here DEF HostType, Program, Programs
  <2>2. at' = 0
    BY <1>2, <2>1 DEF Goto
  <2> QED
    BY <2>2 DEF Sound, Open
<1>3. CASE ~(link /\ Timely)
  BY <1>1, <1>3 DEF Sound
<1>4. CASE link /\ Timely /\ Raise
  <2>1. Due \in Nat
    BY Heads DEF SyncInv
  <2>2. Current.zone = 1 => InStep
    BY <1>4 DEF SyncInv, Sound
  <2>3. InStep => Due <= 1 \/ JunkAhead
    BY <2>1 DEF InStep, Waiting
  <2> QED
    BY <1>1, <1>4, <2>1, <2>2, <2>3, RaisesSound
<1> QED
  BY <1>2, <1>3, <1>4

\* What is on the way is well formed, and the last line still true.
Streams ==
    /\ Queues /\ late \in Nat /\ (~link => inbox = << >>)
    /\ Truth

\* Steps of the utility that read, or leave the stream alone.
LEMMA StreamRead ==
  ASSUME SyncInv, ReadLine \/ ReadCut PROVE Streams'
<1>1. /\ inbox # << >> /\ link' = link /\ link /\ late' = late /\ board' = board
      /\ sent' = sent /\ late \in Nat /\ Queues /\ Truth
  BY DEF SyncInv, ReadLine, ReadCut, session
<1>2. CASE ReadLine
  <2>1. /\ Queues'
        /\ inbox' # << >> => inbox'[Len(inbox')] = inbox[Len(inbox)]
    BY <1>1, <1>2, LineRead DEF ReadLine
  <2>2. Truth'
    BY <1>1, <2>1 DEF Truth
  <2> QED
    BY <1>1, <2>1, <2>2 DEF Streams
<1>3. CASE ReadCut
  <2>1. /\ Queues'
        /\ \/ inbox'[Len(inbox')] = inbox[Len(inbox)]
           \/ inbox'[Len(inbox')] = Junk
    BY <1>1, <1>3, LineCut DEF ReadCut
  <2>2. \A b : Truthful(b, Junk)
    BY DEF Truthful, Junk, Reply
  <2>3. Truth'
    BY <1>1, <2>1, <2>2 DEF Truth
  <2> QED
    BY <1>1, <2>1, <2>3 DEF Streams
<1> QED
  BY <1>2, <1>3

LEMMA StreamKeeps ==
  ASSUME SyncInv, UNCHANGED <<link, late, sent, inbox, board>> PROVE Streams'
<1>1. Queues' /\ Truth'
  BY DEF SyncInv, Queues, Truth
<1> QED
  BY <1>1 DEF SyncInv, Streams

\* A session starts: what has come is thrown away, what is due stays due.
LEMMA StartsInSync ==
  ASSUME HostType, SyncInv, Start PROVE SyncInv'
<1>1. /\ script' \in Scripts /\ at' = 1 /\ ~reading' /\ inbox' = << >>
      /\ sent' = sent /\ late' = Len(sent) /\ Len(sent) \in Nat
      /\ sent \in Seq(Requests)
  BY DEF Start, SyncInv, Queues
<1>2. Due' = late' /\ Waiting' = 0 /\ late' \in Nat
  BY <1>1 DEF Due, Waiting
<1>3. << >> \in Seq(Lines)
  OBVIOUS
<1>4. Streams'
  BY <1>1, <1>2, <1>3 DEF Streams, Queues, Truth
<1>5. CASE late' = 0
  <2>1. Calm'
    BY <1>2, <1>5 DEF Calm
  <2>2. Sound'
    BY <1>1, <2>1, Settled
  <2> QED
    BY <1>4, <2>2 DEF Streams, SyncInv
<1>6. CASE late' # 0
  <2> SUFFICES ASSUME Timely' PROVE Sound'
    BY <1>4 DEF Streams, SyncInv, Sound
  <2>1. IsMotorTest' /\ late' \in 1..3
    BY <1>2, <1>6 DEF Timely
  <2>2. PICK s \in Scripts : s = script'
    BY <1>1
  <2>3. s[1] \in Names /\ s[2] \in Axes
    BY HostAssumption
  <2>4. Program' = Script(s[1], s[2])
    BY <2>2 DEF Program, Programs
  <2> DEFINE p == Script(s[1], s[2])
  <2>5. Paced(s[1], p)
    BY <2>3, ScriptsPaced
  <2> HIDE DEF p
  <2>6. p[1].zone = 0
    BY <2>1, <2>2, <2>5 DEF Paced, Opens, IsMotorTest
  <2>7. Current'.zone = 0
    BY <1>1, <2>4, <2>6 DEF Current, p
  <2>8. Early'
    BY <1>1, <1>2, <2>1 DEF Early, LateLines
  <2> QED
    BY <2>7, <2>8 DEF Sound
<1> QED
  BY <1>5, <1>6

LEMMA WritesInSync ==
  ASSUME HostType, SyncInv, Write PROVE SyncInv'
<1>1. Sound'
  BY WritesSound
<1>2. /\ Open /\ link /\ link' = link /\ inbox' = inbox /\ late' = late
      /\ sent' = Append(sent, Request(Current)) /\ Queues /\ late \in Nat
  BY DEF Write, session, Request, SyncInv
<1>3. Request(Current) \in Requests
  BY <1>2, Here DEF HostType
<1>4. Queues'
  BY <1>2, <1>3, Asked
<1>5. Truth'
  BY DEF SyncInv, Write, Truth
<1> QED
  BY <1>1, <1>2, <1>4, <1>5 DEF SyncInv

\* A request that the port takes or not, and the session gives up.
LEMMA WriteFailsInSync ==
  ASSUME HostType, SyncInv, WriteTimesOut PROVE SyncInv'
<1>0. /\ Open /\ link /\ ~reading /\ Raise /\ HostType /\ Queues /\ Sound
      /\ UNCHANGED <<script, late, link, inbox, board>> /\ late \in Nat
      /\ sent' = sent \/ sent' = Append(sent, Request(Current))
  BY DEF WriteTimesOut, session, SyncInv
<1>1. Truth'
  BY <1>0 DEF SyncInv, Truth
<1>2. CASE sent' = sent
  <2>1. Sound'
    BY <1>0, <1>2, BreaksSound
  <2> QED
    BY <1>0, <1>1, <1>2, <2>1 DEF SyncInv, Queues
<1>3. CASE sent' = Append(sent, Request(Current))
  <2>1. Request(Current) \in Requests
    BY <1>0, Here DEF HostType
  <2>2. /\ Queues' /\ Due \in Nat /\ Due' = Due + 1
        /\ JunkAhead => JunkAhead'
    BY <1>0, <1>3, <2>1, Asked
  <2>3. CASE ~Timely
    <3>1. Sound'
      BY <1>0, <2>3 DEF Sound, Timely, IsMotorTest
    <3> QED
      BY <1>0, <1>1, <2>2, <3>1 DEF SyncInv
  <2>4. CASE Timely
    <3>1. Current.zone = 1 => Due = 0 \/ JunkAhead
      BY <1>0, <2>4 DEF Sound, InStep, Waiting
    <3>2. Sound'
      BY <1>0, <2>2, <3>1, RaisesSound
    <3> QED
      BY <1>0, <1>1, <2>2, <3>2 DEF SyncInv
  <2> QED
    BY <2>3, <2>4
<1> QED
  BY <1>0, <1>2, <1>3

\* A port that is closed drops what the board has not taken.
LEMMA DropsInSync ==
  ASSUME HostType, SyncInv, PortDropsRest PROVE SyncInv'
<1>1. /\ ~Open /\ sent' = SubSeq(sent, 1, Len(sent) - untaken)
      /\ sent \in Seq(Requests) /\ untaken \in 0..Len(sent)
      /\ UNCHANGED <<link, inbox, board, late, at>>
  BY DEF PortDropsRest, session, HostType, SyncInv, Queues
<1>2. sent' \in Seq(Requests)
  <2>1. PICK n : n = Len(sent) - untaken
    OBVIOUS
  <2>2. n \in 0..Len(sent)
    BY <1>1, <2>1
  <2>3. SubSeq(sent, 1, n) \in Seq(Requests)
    BY <1>1, <2>2
  <2> QED
    BY <1>1, <2>1, <2>3
<1>3. Sound' /\ Truth'
  BY <1>1 DEF SyncInv, Sound, Truth, Open
<1> QED
  BY <1>1, <1>2, <1>3 DEF SyncInv, Queues

\* The board answers, in the order it is asked in.
LEMMA BoardInSync ==
  ASSUME HostType, SyncInv, BoardServes PROVE SyncInv'
<1>0. /\ link /\ link' = link /\ sent # << >> /\ sent' = Tail(sent)
      /\ UNCHANGED <<script, at, reading, late>>
      /\ Queues /\ Sound /\ late \in Nat /\ board \in BoardState
      /\ sent \in Seq(Requests)
  BY DEF BoardServes, SyncInv, Queues, session, HostType
<1>1. PICK e \in Effects(board, Head(sent)) :
        board' = e.board /\ inbox' = Append(inbox, e.reply)
  BY DEF BoardServes
<1>2. Fits(e, Head(sent))
  <2>1. Head(sent) \in Requests
    BY <1>0
  <2> QED
    BY <1>0, <1>1, <2>1, Replying
<1>3. /\ Queues' /\ Due \in Nat /\ Due' = Due
      /\ JunkAhead => JunkAhead'
      /\ \A k \in Nat, K \in Kinds : k \in NoReply(K) => k \in NoReply(K)'
      /\ inbox'[Len(inbox')] = e.reply
  BY <1>0, <1>1, <1>2, Answered
<1>4. Truth'
  BY <1>1, <1>2, <1>3 DEF Truth, Fits
<1>5. Sound'
  BY <1>0, <1>3, SoundStays
<1> QED
  BY <1>0, <1>3, <1>4, <1>5 DEF SyncInv

\* A motion that ends disturbs no axis that stands.
LEMMA EndsStand ==
  ASSUME NEW b \in BoardState, NEW a \in Axes, NEW c \in Ended(b, a),
         NEW x \in Axes, Standing(b, x)
  PROVE  Standing(c, x)
<1>0. "OFF" \in Modes /\ "REST" \in Modes /\ "RELEASING" \in Modes
  BY DEF Modes
<1> DEFINE y == WithMode(b, a, "REST")
           z == [y EXCEPT !.homed = TRUE]
<1>1. b.mode[a] \in {"RELEASING", "BUSY", "HOMING"}
  BY DEF Ended
<1>2. x # a
  BY <1>1 DEF Standing
<1>3. c = z \/ \E mode \in Modes : c = WithMode(b, a, mode)
  BY <1>0, <1>1 DEF Ended
<1>4. \A mode \in Modes : Standing(WithMode(b, a, mode), x)
  BY <1>2, ModeAt DEF Standing
<1>5. y \in BoardState /\ Standing(y, x)
  BY <1>0, <1>4, ModeSet
<1> HIDE DEF y
<1>6. Standing(z, x)
  BY <1>5 DEF Standing, BoardState
<1> QED
  BY <1>3, <1>4, <1>6

\* The stream is left as it is, by the session too.
LEMMA QuietStays ==
  ASSUME SyncInv, UNCHANGED <<script, at, reading, late, link, sent, inbox>>
  PROVE  Sound'
<1>1. /\ Due' = Due /\ Due \in Nat
      /\ JunkAhead => JunkAhead'
      /\ \A k \in Nat, K \in Kinds : k \in NoReply(K) => k \in NoReply(K)'
      /\ late \in Nat /\ Sound
  BY Heads DEF SyncInv, Due, JunkAhead, NoReply
<1> QED
  BY <1>1, SoundStays

LEMMA MotionsInSync ==
  ASSUME HostType, SyncInv, MotionEnds PROVE SyncInv'
<1>1. PICK a \in Axes : board' \in Ended(board, a)
  BY DEF MotionEnds
<1>2. /\ UNCHANGED <<script, at, reading, late, link, sent, inbox>>
      /\ board \in BoardState
  BY DEF MotionEnds, session, wire, HostType
<1>3. \A r : Truthful(board, r) => Truthful(board', r)
  BY <1>1, <1>2, EndsStand DEF Truthful
<1>4. Truth'
  BY <1>2, <1>3 DEF SyncInv, Truth
<1>5. Sound'
  BY <1>2, QuietStays
<1> QED
  BY <1>2, <1>4, <1>5 DEF SyncInv, Queues

\* Without the cable nothing is on the way, and no line will be taken.
LEMMA Unplugged ==
  ASSUME ~link', inbox' = << >>, Queues', late' \in Nat PROVE SyncInv'
<1>1. Sound' /\ Truth'
  BY DEF Sound, Truth
<1> QED
  BY <1>1 DEF SyncInv

\* Every step keeps a session in step, or out of it where that does no harm.
LEMMA SyncStep ==
  HostInv /\ SyncInv /\ [Next]_vars => SyncInv'
<1> SUFFICES ASSUME HostInv, SyncInv, [Next]_vars PROVE SyncInv'
  OBVIOUS
<1>0. HostType /\ Queues /\ late \in Nat
  BY DEF HostInv, SyncInv
<1>1. CASE Start
  BY <1>0, <1>1, StartsInSync
<1>2. CASE Write
  BY <1>0, <1>2, WritesInSync
<1>3. CASE PortFails
  <2>1. ~link /\ UNCHANGED <<link, late, sent, inbox>>
    BY <1>3 DEF PortFails, session, wire
  <2> QED
    BY <1>0, <2>1, Unplugged DEF SyncInv, Queues
<1>4. CASE ReadLine \/ ReadCut
  BY <1>0, <1>4, ReadsSound, StreamRead DEF SyncInv, Streams
<1>5. CASE ReadTimesOut \/ Interrupt
  <2>1. /\ Open
        /\ Raise \/ Goto(0)
        /\ UNCHANGED <<script, late, link, sent, inbox, board>>
    BY <1>5 DEF ReadTimesOut, Interrupt, session, wire
  <2>2. Sound'
    BY <1>0, <2>1, BreaksSound
  <2>3. Streams'
    BY <2>1, StreamKeeps
  <2> QED
    BY <2>2, <2>3 DEF SyncInv, Streams
<1>6. CASE BoardServes
  BY <1>0, <1>6, BoardInSync
<1>7. CASE MotionEnds
  BY <1>0, <1>7, MotionsInSync
<1>8. CASE CableComesLoose
  <2>1. << >> \in Seq(Lines) /\ << >> \in Seq(Requests)
    OBVIOUS
  <2>2. ~link' /\ inbox' = << >> /\ sent' = << >> /\ late' = late
    BY <1>8 DEF CableComesLoose, session
  <2> QED
    BY <1>0, <2>1, <2>2, Unplugged DEF Queues
<1>9. CASE UNCHANGED vars \/ BoardTakes
  <2>1. UNCHANGED <<script, at, reading, late, link, sent, inbox, board>>
    BY <1>9 DEF vars, BoardTakes, session
  <2> QED
    BY <2>1, QuietStays, StreamKeeps DEF SyncInv, Streams
<1>10. CASE WriteTimesOut
  BY <1>0, <1>10, WriteFailsInSync
<1>11. CASE PortDropsRest
  BY <1>0, <1>11, DropsInSync
<1> QED
  BY <1>1, <1>2, <1>3, <1>4, <1>5, <1>6, <1>7, <1>8, <1>9, <1>10, <1>11
  DEF Next, Client

LEMMA SyncStart == Init => SyncInv
<1> SUFFICES ASSUME Init PROVE SyncInv
  OBVIOUS
<1>1. << >> \in Seq(Lines) /\ << >> \in Seq(Requests)
  OBVIOUS
<1>2. Queues /\ Truth /\ Sound
  BY <1>1 DEF Init, Queues, Truth, Sound, Open
<1> QED
  BY <1>2 DEF Init, SyncInv

(***************************************************************************)
(* A session is in step with the board, or out of step in one of the three *)
(* ways that do no harm, in every state, whatever scripts are run and      *)
(* however often a read gives up or a Ctrl-C comes.                        *)
(***************************************************************************)
THEOREM SyncInvAlways == Spec => []SyncInv
<1> QED
  BY SyncStart, SyncStep, HostInvAlways, PTL DEF Spec

(***************************************************************************)
(* The snapshot by which a wait is about to believe that an axis stands is *)
(* true of it: no old snapshot that came late is taken for the answer      *)
(* (wait_for_stop, state).                                                 *)
(***************************************************************************)
THEOREM RestsAreReal == Spec => []RestIsReal
<1>1. HostInv /\ SyncInv => RestIsReal
  <2> SUFFICES ASSUME HostInv, SyncInv, Open, reading, inbox # << >>,
                      late = 0 \/ (IsMotorTest /\ late <= 3),
                      Current.expect = "REST", Satisfies(Current, Head(inbox))
               PROVE  Standing(board, Current.axis)
    BY DEF RestIsReal
  <2> DEFINE r == Head(inbox)
  <2>1. /\ HostType /\ link /\ Queues /\ Truth /\ Sound /\ Timely
        /\ Waiting = 1
    BY DEF HostInv, SyncInv, Timely, Waiting
  <2>2. /\ Allowed(Current) /\ at \in 1..Len(Program) /\ Current = Program[at]
        /\ Current.zone \in 0..5
    BY <2>1, Here DEF HostType
  <2>3. Current.do = "STATE?" /\ Current.zone \in {0, 1, 2}
    BY <2>2 DEF Allowed
  <2>4. /\ Parses(Current, r) /\ r.says \in {"REST", "HOMED"}
    BY DEF Satisfies
  <2>5. r.kind = "STATE" /\ r.axis = Current.axis
    BY <2>3, <2>4, NoAnswer
  <2>6. /\ Due \in Nat /\ ~JunkAhead /\ 1 \notin NoReply("STATE")
        /\ r = inbox[1]
        /\ Due = 1 => sent = << >> /\ Len(inbox) = 1
    BY <2>1, <2>5, Heads DEF Junk, Reply, Kinds
  <2>7. ~Awry /\ ~Stale
    BY <2>3, <2>6, ConfiguresOnly DEF Awry, Stale
  <2>8. ~(Early /\ Current.zone = 0)
    <3>1. SUFFICES ASSUME Early, Current.zone = 0 PROVE FALSE
      OBVIOUS
    <3>2. /\ \A i \in {1, 2} : Program[i].do \in {"PING", "INFO"}
          /\ Program[3].do = "DRIVER?"
      BY <2>1, <3>1, Beginning DEF HostType, Early
    <3> QED
      BY <2>2, <2>3, <3>1, <3>2 DEF Early
  <2>9. InStep
    BY <2>1, <2>3, <2>7, <2>8 DEF Sound
  <2>10. Due = 1
    BY <2>1, <2>6, <2>9 DEF InStep
  <2>11. Truthful(board, r)
    BY <2>1, <2>6, <2>10 DEF Truth
  <2> QED
    BY <2>4, <2>5, <2>11 DEF Truthful
<1> QED
  BY <1>1, HostInvAlways, SyncInvAlways, PTL

\* Only a write makes what is under way longer.
LEMMA SentGrows ==
  ASSUME HostType, [Next]_vars, Len(sent') > Len(sent)
  PROVE  link /\ ~reading
<1>1. /\ sent \in Seq(Requests) /\ untaken \in 0..Len(sent)
      /\ Len(sent) \in Nat
  BY DEF HostType
<1>2. CASE Write \/ WriteTimesOut
  BY <1>2 DEF Write, WriteTimesOut
<1>3. CASE BoardServes
  BY <1>1, <1>3 DEF BoardServes
<1>4. CASE PortDropsRest
  <2>1. PICK n : n = Len(sent) - untaken
    OBVIOUS
  <2>2. n \in 0..Len(sent) /\ sent' = SubSeq(sent, 1, n)
    BY <1>1, <1>4, <2>1 DEF PortDropsRest
  <2>3. Len(sent') = n
    BY <1>1, <2>2
  <2> QED
    BY <1>1, <2>2, <2>3
<1>5. CASE CableComesLoose
  BY <1>1, <1>5 DEF CableComesLoose
<1>6. CASE sent' = sent
  BY <1>1, <1>6
<1> QED
  BY <1>2, <1>3, <1>4, <1>5, <1>6
  DEF Next, Client, Start, PortFails, ReadLine, ReadCut, ReadTimesOut, Interrupt,
      BoardTakes, MotionEnds, wire, vars

(***************************************************************************)
(* A motor test asks for the enable only in step with the board: every     *)
(* earlier request is served and its line read (prepare_axis_motor_test,   *)
(* run_motor_test).                                                        *)
(***************************************************************************)
THEOREM EnablesInStep == Spec => EnableInSync
<1> DEFINE Asks == IsMotorTest /\ late <= 3 /\ Open /\ Current.do = "ENABLE"
                     /\ Len(sent') > Len(sent)
           Clear == sent = << >> /\ \A i \in DOMAIN inbox : inbox[i] = Junk
<1>1. HostInv /\ SyncInv /\ [Next]_vars => (Asks => Clear)
  <2> SUFFICES ASSUME HostInv, SyncInv, [Next]_vars, Asks PROVE Clear
    OBVIOUS
  <2>1. link /\ ~reading
    BY SentGrows DEF HostInv
  <2>2. /\ HostType /\ Queues /\ Sound /\ Timely /\ Waiting = 0
    BY <2>1 DEF HostInv, SyncInv, Timely, Waiting
  <2>3. /\ Allowed(Current) /\ at \in 1..Len(Program) /\ Current = Program[at]
    BY <2>2, Here DEF HostType
  <2>4. Current.zone = 0
    BY <2>3 DEF Allowed
  <2>5. ~Awry
    BY ConfiguresOnly DEF Awry
  <2>6. ~Early
    <3>1. SUFFICES ASSUME Early PROVE FALSE
      OBVIOUS
    <3>2. /\ \A i \in {1, 2} : Program[i].do \in {"PING", "INFO"}
          /\ Program[3].do = "DRIVER?"
      BY <2>2, <3>1, Beginning DEF HostType, Early
    <3> QED
      BY <2>3, <3>1, <3>2 DEF Early
  <2>7. Due = 0 \/ (Due = 1 /\ JunkAhead)
    BY <2>1, <2>2, <2>4, <2>5, <2>6 DEF Sound, InStep
  <2>8. CASE Due = 0
    BY <2>2, <2>8, Heads
  <2>9. CASE Due = 1 /\ JunkAhead
    <3>1. sent = << >> /\ Len(inbox) = 1 /\ inbox[1] = Junk /\ inbox \in Seq(Lines)
      BY <2>2, <2>9, Heads DEF JunkAhead, Queues
    <3> QED
      BY <3>1
  <2> QED
    BY <2>7, <2>8, <2>9
<1>2. HostInv /\ SyncInv /\ [Next]_vars => [Asks => Clear]_vars
  BY <1>1
<1>3. (Spec => [][Asks => Clear]_vars)
  BY <1>2, HostInvAlways, SyncInvAlways, PTL DEF Spec
<1> QED
  BY <1>3 DEF EnableInSync

-----------------------------------------------------------------------------
(***************************************************************************)
(* The three classes of a driver are what is left of a tmc2209_device_t    *)
(* between two calls, when only its class and a fault are looked at.       *)
(***************************************************************************)
DD == INSTANCE DriverDevice

BetweenCalls ==
    {d \in DD!DriverState :
       /\ d.state \in {"PRESENT", "CONFIGURED", "ERROR"}
       /\ d.state = "CONFIGURED" <=> DD!Ready(d)
       /\ d.state = "PRESENT" \/ d.error = "RESET" => ~d.valid}
Class(d) == IF DD!Ready(d) THEN "READY" ELSE IF d.valid THEN "UNSURE" ELSE "LOST"
\* What makes a DRIVER? shut the axis down.
IsFault(d) == d.fatal \/ d.error = "RESET"

LEMMA Observing ==
  ASSUME NEW d \in DD!DriverState, NEW faults, NEW o \in DD!RefreshOutcomes(d, faults)
  PROVE  /\ o \in BetweenCalls /\ o \in DD!DriverState
         /\ d.valid \/ Class(o) = "LOST"
         /\ o.state = "CONFIGURED" => ~IsFault(o)
         /\ ~o.valid /\ d.valid => IsFault(o)
<1>1. CASE o \in DD!CommFailures(d, faults)
  <2>1. o = [d EXCEPT !.state = "ERROR", !.error = "COMM"]
    BY <1>1 DEF DD!CommFailures
  <2>2. /\ o.state = "ERROR" /\ o.error = "COMM" /\ o.valid = d.valid
        /\ o \in DD!DriverState
    BY <2>1 DEF DD!DriverState
  <2> QED
    BY <2>2 DEF BetweenCalls, Class, IsFault, DD!Ready
<1>2. CASE o \in DD!Observations(d, faults, "CONFIGURED")
  <2>1. PICK reset \in BOOLEAN, fatal \in BOOLEAN :
          o = DD!Observe(d, reset, fatal, "CONFIGURED")
    BY <1>2 DEF DD!Observations
  <2> QED
    BY <2>1 DEF DD!Observe, DD!DriverState, BetweenCalls, Class, IsFault, DD!Ready
<1> QED
  BY <1>1, <1>2 DEF DD!RefreshOutcomes

\* A probe that comes before a configuration.
LEMMA Probing ==
  ASSUME NEW d \in DD!DriverState, NEW faults, NEW p \in DD!ProbeOutcomes(d, faults)
  PROVE  /\ p \in DD!DriverState
         /\ p.state = "ERROR" => p \in BetweenCalls /\ Class(p) \in {"UNSURE", "LOST"}
         /\ ~d.valid => p \in BetweenCalls
<1> DEFINE c == [d EXCEPT !.fatal = FALSE]
<1>1. c \in DD!DriverState /\ c.valid = d.valid
  BY DEF DD!DriverState
<1> HIDE DEF c
<1>2. CASE p \in DD!CommFailures(c, faults)
  <2>1. p = [c EXCEPT !.state = "ERROR", !.error = "COMM"]
    BY <1>2 DEF DD!CommFailures
  <2>2. /\ p.state = "ERROR" /\ p.error = "COMM" /\ p \in DD!DriverState
    BY <1>1, <2>1 DEF DD!DriverState
  <2> QED
    BY <2>2 DEF BetweenCalls, Class, DD!Ready
<1>3. CASE p \in DD!Observations(c, faults, "PRESENT")
  <2>1. PICK reset \in BOOLEAN, fatal \in BOOLEAN :
          p = DD!Observe(c, reset, fatal, "PRESENT")
    BY <1>3 DEF DD!Observations
  <2> QED
    BY <1>1, <2>1
    DEF DD!Observe, DD!DriverState, BetweenCalls, Class, DD!Ready
<1> QED
  BY <1>2, <1>3 DEF DD!ProbeOutcomes, c

LEMMA Configuring ==
  ASSUME NEW d \in DD!DriverState, NEW faults,
         NEW o \in DD!ConfigureOutcomes(d, faults)
  PROVE  o \in BetweenCalls
<1>1. CASE o \in DD!CommFailures([d EXCEPT !.valid = FALSE], faults)
  <2>1. /\ [d EXCEPT !.valid = FALSE] \in DD!DriverState
        /\ o \in DD!RefreshOutcomes([d EXCEPT !.valid = FALSE], faults)
    BY <1>1 DEF DD!DriverState, DD!RefreshOutcomes
  <2> QED
    BY <2>1, Observing
<1>2. CASE o \in DD!RefreshOutcomes([d EXCEPT !.valid = TRUE], faults)
  <2>1. [d EXCEPT !.valid = TRUE] \in DD!DriverState
    BY DEF DD!DriverState
  <2> QED
    BY <1>2, <2>1, Observing
<1> QED
  BY <1>1, <1>2 DEF DD!ConfigureOutcomes

(***************************************************************************)
(* The board of the utility leaves out nothing a driver does: whatever a   *)
(* refresh finds, by its class and by whether it is a fault, DRIVER? may   *)
(* find, whatever DRIVER CONFIGURE makes of a driver it may make of its    *)
(* class, and after the boot and after every call the classes fit again    *)
(* (tmc2209_refresh_status, configure_driver, driver_control_init).        *)
(***************************************************************************)
THEOREM BoardKnowsDrivers ==
  ASSUME NEW faults
  PROVE  /\ DD!BootOutcomes(faults) \subseteq BetweenCalls
         /\ \A d \in BetweenCalls :
              /\ \A o \in DD!RefreshOutcomes(d, faults) :
                   /\ o \in BetweenCalls
                   /\ Finding(Class(o), IsFault(o)) \in Findings(Class(d))
              /\ \A o \in DD!ConfigureDriverOutcomes(d, faults) :
                   o \in BetweenCalls /\ Class(o) \in Configured(Class(d))
<1>1. DD!BootOutcomes(faults) \subseteq BetweenCalls
  <2>1. DD!InitialDevice \in DD!DriverState /\ ~DD!InitialDevice.valid
    BY DEF DD!InitialDevice, DD!DriverState
  <2> QED
    BY <2>1, Probing DEF DD!BootOutcomes
<1>2. ASSUME NEW d \in BetweenCalls, NEW o \in DD!RefreshOutcomes(d, faults)
      PROVE  /\ o \in BetweenCalls
             /\ Finding(Class(o), IsFault(o)) \in Findings(Class(d))
  <2>1. d \in DD!DriverState /\ IsFault(o) \in BOOLEAN
    BY DEF BetweenCalls, IsFault
  <2>2. /\ o \in BetweenCalls
        /\ d.valid \/ Class(o) = "LOST"
        /\ o.state = "CONFIGURED" => ~IsFault(o)
        /\ ~o.valid /\ d.valid => IsFault(o)
    BY <2>1, Observing
  <2>3. CASE Class(d) = "LOST"
    <3>1. Class(o) = "LOST"
      BY <2>2, <2>3 DEF Class
    <3> QED
      BY <2>1, <2>2, <2>3, <3>1 DEF Findings
  <2>4. CASE Class(d) # "LOST"
    <3>1. d.valid
      BY <2>4 DEF Class, DD!Ready
    <3>2. \/ Class(o) = "READY" /\ IsFault(o) = FALSE
          \/ Class(o) = "UNSURE"
          \/ Class(o) = "LOST" /\ IsFault(o) = TRUE
      BY <2>1, <2>2, <3>1 DEF Class, DD!Ready
    <3> QED
      BY <2>1, <2>2, <2>4, <3>2 DEF Findings
  <2> QED
    BY <2>3, <2>4
<1>3. ASSUME NEW d \in BetweenCalls, NEW o \in DD!ConfigureDriverOutcomes(d, faults)
      PROVE  o \in BetweenCalls /\ Class(o) \in Configured(Class(d))
  <2>1. d \in DD!DriverState
    BY DEF BetweenCalls
  <2>2. CASE DD!Ready(d)
    BY <2>2 DEF DD!ConfigureDriverOutcomes, Configured, Class
  <2>3. CASE ~DD!Ready(d)
    <3>1. o \in BetweenCalls
      BY <2>1, <2>3, Probing, Configuring DEF DD!ConfigureDriverOutcomes
    <3>2. Class(o) \in Drivers /\ Class(d) # "READY"
      BY <2>3 DEF Class, Drivers
    <3> QED
      BY <3>1, <3>2 DEF Configured
  <2> QED
    BY <2>2, <2>3
<1> QED
  BY <1>1, <1>2, <1>3
=============================================================================
