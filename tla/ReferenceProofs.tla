--------------------------- MODULE ReferenceProofs ---------------------------
(***************************************************************************)
(* The tilt reference of MotionController, for every value of its          *)
(* constants: what the axis counts, reports and owes while it homes, jogs  *)
(* or is referenced (the inductive invariant Lawful), and what one step    *)
(* may do to positions, velocities and pins.                               *)
(***************************************************************************)
EXTENDS MotionProofs

Parks(r) == r.homePhase = "POST_HOME_PARK"

\* A homing phase belongs to a home, which has no reference and has not used
\* up its steps.
HomeLawful(r) ==
    /\ r.operation = "HOMING" <=> r.homePhase # "NONE"
    /\ r.operation = "HOMING" => /\ ~r.homed
                                 /\ r.phaseSteps <= PhaseBound(r.homePhase)
    /\ r.latched => r.homed

\* Parking leaves the switch and counts from it.
ParkLawful(r, s) ==
    Parks(r) => s.position = r.phaseSteps /\ s.velocity >= 0

\* A jog turns one way only, and downward it has room for what it owes.
JogLawful(r, s) ==
    r.operation = "JOGGING" =>
        /\ r.homed
        /\ r.forward => s.velocity >= 0
        /\ ~r.forward => s.velocity <= 0 /\ s.position >= r.remaining

ZeroLawful(r, s) ==
    /\ r.homed => s.position >= 0
    /\ r.minLimit <=> (r.homed \/ Parks(r)) /\ s.position = 0

LawfulTilt(r, s) == HomeLawful(r) /\ ParkLawful(r, s) /\ JogLawful(r, s)
                      /\ ZeroLawful(r, s)

\* At rest the phase accumulator is empty.
Rested(s) == s.velocity = 0 => s.phase = 0

Lawful == LawfulTilt(ref, axis["TILT"]) /\ \A a \in Axes : Rested(axis[a])

-----------------------------------------------------------------------------
(* What leaves the reference lawful.                                       *)

LEMMA RefParts ==
    ASSUME NEW r \in TiltRef
    PROVE  /\ r.operation \in Operations /\ r.homePhase \in HomePhases
           /\ r.phaseSteps \in Nat /\ r.remaining \in Nat
           /\ r.triggerTicks \in 0..StableTicks
           /\ r.homed \in BOOLEAN /\ r.minLimit \in BOOLEAN
           /\ r.forward \in BOOLEAN /\ r.latched \in BOOLEAN
           /\ r.disableReq \in BOOLEAN
BY DEF TiltRef

LEMMA MotionParts ==
    ASSUME NEW a \in Axes, NEW s \in AxisState(a)
    PROVE  /\ s.position \in Positions /\ s.position \in Int
           /\ s.velocity \in Velocities(a) /\ s.velocity \in Int
           /\ s.target \in Velocities(a) /\ s.target \in Int
           /\ s.phase \in 0..(SchedFreq - 1) /\ s.phase \in Int
BY AxisAssumption DEF AxisState, Positions, Velocities

LEMMA BoundType == \A p : PhaseBound(p) \in Nat
BY TiltAssumption DEF PhaseBound

\* The fields of the reference the invariant is about.
SameRef(r, q) ==
    /\ q.operation = r.operation /\ q.homePhase = r.homePhase
    /\ q.phaseSteps = r.phaseSteps /\ q.remaining = r.remaining
    /\ q.homed = r.homed /\ q.minLimit = r.minLimit
    /\ q.forward = r.forward /\ q.latched = r.latched

\* A velocity that does not change its sign, except to vanish.
SameSense(v, w) == (v >= 0 => w >= 0) /\ (v <= 0 => w <= 0)

LEMMA SameLawful ==
    ASSUME NEW r, NEW q, NEW s, NEW u, LawfulTilt(r, s), SameRef(r, q),
           u.position = s.position, SameSense(s.velocity, u.velocity)
    PROVE  LawfulTilt(q, u)
BY DEF LawfulTilt, HomeLawful, ParkLawful, JogLawful, ZeroLawful, Parks,
       SameRef, SameSense

\* Halting, on the spot or at the switch, and the internal velocities.
LEMMA HaltEffect ==
    ASSUME NEW s \in AxisState("TILT")
    PROVE  /\ ForceStop(s).position = s.position
           /\ ForceStop(s).velocity = 0 /\ ForceStop(s).target = 0
           /\ ForceStop(s).phase = 0
           /\ Stop(s).position = s.position /\ Stop(s).velocity = s.velocity
           /\ Stop(s).phase = s.phase
           /\ SetPosition(s, 0).position = 0
           /\ SetPosition(s, 0).velocity = s.velocity
           /\ SetPosition(s, 0).target = s.target
           /\ SetPosition(s, 0).phase = s.phase
BY DEF ForceStop, Stop, SetPosition, AxisState

LEMMA DriveEffect ==
    ASSUME NEW t \in TiltState, NEW v
    PROVE  /\ Drive(t, v).ref = t.ref
           /\ Drive(t, v).axis.position = t.axis.position
           /\ Drive(t, v).axis.velocity = t.axis.velocity
           /\ Drive(t, v).axis.phase = t.axis.phase
           /\ Drive(t, v).axis.target = v
BY TiltParts DEF Drive, SetInternalVelocity, TiltState, AxisState

-----------------------------------------------------------------------------
(* The tilt at its control tick.                                           *)

\* An operation that may only turn one way has asked for nothing else.
Aimed(t) ==
    /\ Parks(t.ref) => t.axis.target >= 0
    /\ t.ref.operation = "JOGGING" =>
           IF t.ref.forward THEN t.axis.target >= 0 ELSE t.axis.target <= 0

\* The axis goes on as before or is halted, and is placed at zero only on the
\* pressed switch.
Glides(s, u) ==
    \/ u.velocity = s.velocity /\ u.phase = s.phase
    \/ u.velocity = 0 /\ u.target = 0 /\ u.phase = 0

Placed(s, u, pressed) ==
    \/ u.position = s.position
    \/ pressed /\ u.position = 0

Ticked(t, u, pressed) ==
    /\ LawfulTilt(u.ref, u.axis) /\ Aimed(u)
    /\ Glides(t.axis, u.axis) /\ Placed(t.axis, u.axis, pressed)

LEMMA HaltTicked ==
    ASSUME NEW t \in TiltState, NEW pressed \in BOOLEAN,
           LawfulTilt(t.ref, t.axis)
    PROVE  Ticked(t, [t EXCEPT !.axis = ForceStop(@)], pressed)
<1> DEFINE u == [t EXCEPT !.axis = ForceStop(@)]
<1> SUFFICES Ticked(t, u, pressed)
  OBVIOUS
<1>1. u.ref = t.ref /\ u.axis = ForceStop(t.axis)
  BY DEF TiltState
<1>2. /\ u.axis.position = t.axis.position /\ u.axis.velocity = 0
      /\ u.axis.target = 0 /\ u.axis.phase = 0
  BY <1>1, TiltParts, HaltEffect
<1> HIDE DEF u
<1>3. LawfulTilt(u.ref, u.axis)
  BY <1>1, <1>2, SameLawful DEF SameRef, SameSense
<1> QED
  BY <1>2, <1>3 DEF Ticked, Aimed, Glides, Placed

\* Driving on in a phase that may turn either way, or the way it must.
LEMMA DriveTicked ==
    ASSUME NEW t \in TiltState, NEW pressed \in BOOLEAN, NEW v \in Int,
           LawfulTilt(t.ref, t.axis),
           Parks(t.ref) => v >= 0,
           t.ref.operation = "JOGGING" =>
               IF t.ref.forward THEN v >= 0 ELSE v <= 0
    PROVE  Ticked(t, Drive(t, v), pressed)
<1> DEFINE u == Drive(t, v)
<1> SUFFICES Ticked(t, u, pressed)
  OBVIOUS
<1>1. /\ u.ref = t.ref /\ u.axis.position = t.axis.position
      /\ u.axis.velocity = t.axis.velocity /\ u.axis.phase = t.axis.phase
      /\ u.axis.target = v
  BY DriveEffect
<1> HIDE DEF u
<1>2. LawfulTilt(u.ref, u.axis)
  BY <1>1, SameLawful DEF SameRef, SameSense
<1> QED
  BY <1>1, <1>2 DEF Ticked, Aimed, Glides, Placed

\* A home that fails.
LEMMA FailTicked ==
    ASSUME NEW t \in TiltState, NEW pressed \in BOOLEAN, NEW status,
           LawfulTilt(t.ref, t.axis), t.ref.operation = "HOMING"
    PROVE  Ticked(t, FailHome(t, status), pressed)
<1> DEFINE u == FailHome(t, status)
<1> SUFFICES Ticked(t, u, pressed)
  OBVIOUS
<1>1. /\ u.ref.operation = "IDLE" /\ u.ref.homePhase = "NONE"
      /\ u.ref.homed = FALSE /\ u.ref.minLimit = FALSE
      /\ u.ref.latched = t.ref.latched /\ u.axis = ForceStop(t.axis)
  BY TiltParts DEF FailHome, TiltRef
<1>2. /\ u.axis.position = t.axis.position /\ u.axis.velocity = 0
      /\ u.axis.target = 0 /\ u.axis.phase = 0
  BY <1>1, TiltParts, HaltEffect
<1> HIDE DEF u
<1>3. LawfulTilt(u.ref, u.axis)
  BY <1>1
  DEF LawfulTilt, HomeLawful, ParkLawful, JogLawful, ZeroLawful, Parks
<1> QED
  BY <1>1, <1>2, <1>3 DEF Ticked, Aimed, Glides, Placed, Parks

\* A new phase, other than the last one.
LEMMA EnterTicked ==
    ASSUME NEW t \in TiltState, NEW pressed \in BOOLEAN,
           NEW phase \in HomePhases \ {"NONE", "POST_HOME_PARK"},
           LawfulTilt(t.ref, t.axis), t.ref.operation = "HOMING",
           ~Parks(t.ref)
    PROVE  Ticked(t, EnterPhase(t, phase), pressed)
<1> DEFINE u == EnterPhase(t, phase)
<1> SUFFICES Ticked(t, u, pressed)
  OBVIOUS
<1>1. /\ u.ref.operation = "HOMING" /\ u.ref.homePhase = phase
      /\ u.ref.phaseSteps = 0 /\ u.ref.homed = t.ref.homed
      /\ u.ref.minLimit = t.ref.minLimit /\ u.ref.latched = t.ref.latched
      /\ u.axis = ForceStop(t.axis)
  BY TiltParts DEF EnterPhase, TiltRef
<1>2. /\ u.axis.position = t.axis.position /\ u.axis.velocity = 0
      /\ u.axis.target = 0 /\ u.axis.phase = 0
  BY <1>1, TiltParts, HaltEffect
<1> HIDE DEF u
<1>3. PhaseBound(phase) >= 0
  BY BoundType
<1>4. LawfulTilt(u.ref, u.axis)
  BY <1>1, <1>3
  DEF LawfulTilt, HomeLawful, ParkLawful, JogLawful, ZeroLawful, Parks
<1> QED
  BY <1>1, <1>2, <1>4 DEF Ticked, Aimed, Glides, Placed, Parks

\* The switch found: the fast approach backs off, the slow one parks from a
\* position that is now zero.
LEMMA FoundTicked ==
    ASSUME NEW t \in TiltState, LawfulTilt(t.ref, t.axis),
           t.ref.operation = "HOMING", ~Parks(t.ref)
    PROVE  Ticked(t, FoundSwitch(t), TRUE)
<1>1. CASE t.ref.homePhase = "FAST_APPROACH"
  <2>1. FoundSwitch(t) = EnterPhase(t, "RELEASE_SEARCH")
    BY <1>1 DEF FoundSwitch
  <2> QED
    BY <2>1, EnterTicked DEF HomePhases
<1>2. CASE t.ref.homePhase # "FAST_APPROACH"
  <2> DEFINE u == FoundSwitch(t)
  <2> SUFFICES Ticked(t, u, TRUE)
    OBVIOUS
  <2>1. /\ u.ref.operation = "HOMING" /\ u.ref.homePhase = "POST_HOME_PARK"
        /\ u.ref.phaseSteps = 0 /\ u.ref.homed = t.ref.homed
        /\ u.ref.minLimit = TRUE /\ u.ref.latched = t.ref.latched
        /\ u.axis = SetPosition(ForceStop(t.axis), 0)
    BY <1>2, TiltParts DEF FoundSwitch, EnterPhase, TiltRef
  <2>2. ForceStop(t.axis) \in AxisState("TILT")
    BY TiltParts, ForceStopTilt
  <2>3. /\ u.axis.position = 0 /\ u.axis.velocity = 0
        /\ u.axis.target = 0 /\ u.axis.phase = 0
    BY <2>1, <2>2, TiltParts, HaltEffect
  <2> HIDE DEF u
  <2>4. PhaseBound("POST_HOME_PARK") >= 0
    BY BoundType
  <2>5. LawfulTilt(u.ref, u.axis)
    BY <2>1, <2>3, <2>4
    DEF LawfulTilt, HomeLawful, ParkLawful, JogLawful, ZeroLawful, Parks
  <2> QED
    BY <2>1, <2>3, <2>5 DEF Ticked, Aimed, Glides, Placed
<1> QED
  BY <1>1, <1>2

\* Parking ends at Park, above the switch.
LEMMA ParkTicked ==
    ASSUME NEW t \in TiltState, NEW pressed \in BOOLEAN,
           LawfulTilt(t.ref, t.axis), t.ref.operation = "HOMING",
           Parks(t.ref)
    PROVE  Ticked(t, ParkTick(t), pressed)
<1>1. CASE ~Exhausted(t.ref)
  <2>1. ParkTick(t) = Drive(t, PostHomeVelocity)
    BY <1>1 DEF ParkTick
  <2> QED
    BY <2>1, DriveTicked, TiltAssumption
<1>2. CASE Exhausted(t.ref)
  <2> DEFINE u == ParkTick(t)
  <2> SUFFICES Ticked(t, u, pressed)
    OBVIOUS
  <2>1. /\ u.ref.operation = "IDLE" /\ u.ref.homePhase = "NONE"
        /\ u.ref.homed = TRUE /\ u.ref.minLimit = FALSE
        /\ u.axis = ForceStop(t.axis)
    BY <1>2, TiltParts DEF ParkTick, TiltRef
  <2>2. /\ u.axis.position = t.axis.position /\ u.axis.velocity = 0
        /\ u.axis.target = 0 /\ u.axis.phase = 0
    BY <2>1, TiltParts, HaltEffect
  <2> HIDE DEF u
  <2>3. t.axis.position > 0 /\ t.axis.position \in Int
    <3>1. t.axis.position = t.ref.phaseSteps /\ t.ref.phaseSteps \in Nat
      BY TiltParts, RefParts DEF LawfulTilt, ParkLawful
    <3>2. t.ref.phaseSteps >= Park
      BY <1>2 DEF Exhausted, PhaseBound, Parks
    <3> QED
      BY <3>1, <3>2, TiltAssumption
  <2>4. LawfulTilt(u.ref, u.axis)
    BY <2>1, <2>2, <2>3
    DEF LawfulTilt, HomeLawful, ParkLawful, JogLawful, ZeroLawful, Parks
  <2> QED
    BY <2>1, <2>2, <2>4 DEF Ticked, Aimed, Glides, Placed, Parks
<1> QED
  BY <1>1, <1>2

LEMMA HomeTicked ==
    ASSUME NEW t \in TiltState, NEW pressed \in BOOLEAN,
           LawfulTilt(t.ref, t.axis), t.ref.operation = "HOMING"
    PROVE  Ticked(t, UpdateHome(t, pressed), pressed)
<1> DEFINE Good(u) == Ticked(t, u, pressed)
           Drives(v) == v \in Int /\ ~Parks(t.ref)
<1>1. t.ref.homePhase \in HomePhases /\ t.ref.homePhase # "NONE"
  BY TiltParts, RefParts DEF LawfulTilt, HomeLawful
<1>2. \A v : Drives(v) => Good(Drive(t, v))
  BY DriveTicked
<1>3. \A status : Good(FailHome(t, status))
  BY FailTicked
<1>4. Good([t EXCEPT !.axis = ForceStop(@)])
  BY HaltTicked
<1>5. ~Parks(t.ref) => \A phase \in HomePhases \ {"NONE", "POST_HOME_PARK"} :
                           Good(EnterPhase(t, phase))
  BY EnterTicked
<1>6. pressed /\ ~Parks(t.ref) => Good(FoundSwitch(t))
  BY FoundTicked
<1>7. /\ BackoffVelocity \in Int /\ -FastVelocity \in Int
      /\ -SlowVelocity \in Int
  BY TiltAssumption
<1>8. CASE Parks(t.ref)
  <2>1. UpdateHome(t, pressed) = ParkTick(t)
    BY <1>8 DEF UpdateHome, Parks
  <2> QED
    BY <1>8, <2>1, ParkTicked
<1>9. CASE ~Parks(t.ref)
  <2> HIDE DEF Good
  <2>1. \A next \in HomePhases \ {"NONE", "POST_HOME_PARK"} :
           Good(ReleaseTick(t, pressed, next))
    BY <1>2, <1>3, <1>4, <1>5, <1>7, <1>9 DEF ReleaseTick
  <2>2. Good(ClearanceTick(t))
    BY <1>2, <1>5, <1>7, <1>9 DEF ClearanceTick, HomePhases
  <2>3. \A v \in Int : Good(ApproachTick(t, pressed, v))
    BY <1>2, <1>3, <1>4, <1>6, <1>9 DEF ApproachTick
  <2>4. Good(UpdateHome(t, pressed))
    BY <1>1, <1>3, <1>7, <1>9, <2>1, <2>2, <2>3
    DEF UpdateHome, HomePhases, Parks
  <2> QED
    BY <2>4 DEF Good
<1> QED
  BY <1>8, <1>9

LEMMA JogTicked ==
    ASSUME NEW t \in TiltState, NEW pressed \in BOOLEAN,
           LawfulTilt(t.ref, t.axis), t.ref.operation = "JOGGING"
    PROVE  Ticked(t, JogTick(t), pressed)
<1> DEFINE v == IF t.ref.forward THEN JogVelocity ELSE -JogVelocity
<1>1. v \in Int /\ IF t.ref.forward THEN v >= 0 ELSE v <= 0
  BY TiltAssumption
<1>2. ~Parks(t.ref)
  BY DEF LawfulTilt, HomeLawful, Parks
<1>3. JogTick(t) = Drive(t, v)
  BY DEF JogTick
<1> HIDE DEF v
<1> QED
  BY <1>1, <1>2, <1>3, DriveTicked

LEMMA CheckTicked ==
    ASSUME NEW t \in TiltState, NEW pressed \in BOOLEAN,
           LawfulTilt(t.ref, t.axis), t.ref.operation = "DIRECTION_CHECKING"
    PROVE  Ticked(t, DirectionCheckTick(t, pressed), pressed)
<1>1. ~Parks(t.ref)
  BY DEF LawfulTilt, HomeLawful, Parks
<1>2. CASE ~pressed
  BY <1>1, <1>2, DriveTicked, TiltAssumption DEF DirectionCheckTick
<1>3. CASE pressed
  <2> DEFINE u == DirectionCheckTick(t, pressed)
  <2> SUFFICES Ticked(t, u, pressed)
    OBVIOUS
  <2>1. /\ u.ref.operation = "IDLE" /\ u.ref.homePhase = t.ref.homePhase
        /\ u.ref.homed = t.ref.homed /\ u.ref.minLimit = t.ref.minLimit
        /\ u.ref.latched = t.ref.latched /\ u.axis = ForceStop(t.axis)
    BY <1>3, TiltParts DEF DirectionCheckTick, TiltRef
  <2>2. /\ u.axis.position = t.axis.position /\ u.axis.velocity = 0
        /\ u.axis.target = 0 /\ u.axis.phase = 0
    BY <2>1, TiltParts, HaltEffect
  <2> HIDE DEF u
  <2>3. LawfulTilt(u.ref, u.axis)
    BY <1>1, <2>1, <2>2
    DEF LawfulTilt, HomeLawful, ParkLawful, JogLawful, ZeroLawful, Parks
  <2> QED
    BY <2>1, <2>2, <2>3 DEF Ticked, Aimed, Glides, Placed
<1> QED
  BY <1>2, <1>3

\* Without an operation the switch halts a downward axis, places it at zero
\* once it is stable, and zero bounds a referenced one.
LEMMA IdleTicked ==
    ASSUME NEW t \in TiltState, NEW pressed \in BOOLEAN,
           LawfulTilt(t.ref, t.axis), t.ref.operation = "IDLE",
           TriggerIsStable(t.ref) => pressed
    PROVE  Ticked(t, IdleTick(t, pressed), pressed)
<1> DEFINE hit     == t.ref.homed /\ pressed /\ Downward(t.axis)
           held    == t.ref.latched \/ hit
           settled == held /\ TriggerIsStable(t.ref)
           halted  == IF hit THEN ForceStop(t.axis) ELSE t.axis
           placed  == IF settled THEN SetPosition(halted, 0) ELSE halted
           last    == IF t.ref.homed /\ placed.position <= 0 /\ Downward(placed)
                      THEN ForceStop(placed) ELSE placed
           u       == IdleTick(t, pressed)
<1> SUFFICES Ticked(t, u, pressed)
  OBVIOUS
<1>1. t.ref \in TiltRef /\ t.axis \in AxisState("TILT")
  BY TiltParts
<1>2. /\ u.ref.operation = "IDLE" /\ u.ref.homePhase = t.ref.homePhase
      /\ u.ref.homed = t.ref.homed
      /\ u.ref.latched = (held /\ pressed /\ ~settled)
      /\ u.ref.minLimit = \/ t.ref.homed /\ placed.position = 0
                          \/ pressed /\ (t.ref.minLimit \/ settled)
      /\ u.axis = last
  BY <1>1 DEF IdleTick, TiltRef
<1>3. /\ halted \in AxisState("TILT") /\ halted.position = t.axis.position
      /\ Glides(t.axis, halted)
  BY <1>1, ForceStopTilt, HaltEffect DEF Glides
<1>4. held => t.ref.homed
  BY DEF LawfulTilt, HomeLawful
<1>5. t.ref.minLimit <=> t.ref.homed /\ t.axis.position = 0
  BY DEF LawfulTilt, HomeLawful, ZeroLawful, Parks
<1>6. t.ref.homed => t.axis.position >= 0
  BY DEF LawfulTilt, ZeroLawful
<1> HIDE DEF hit, held, halted
<1>7. /\ placed \in AxisState("TILT") /\ Glides(t.axis, placed)
      /\ placed.position = IF settled THEN 0 ELSE t.axis.position
  BY <1>3, ForceStopTilt, HaltEffect DEF Glides
<1>8. settled => held /\ pressed
  OBVIOUS
<1> HIDE DEF placed, settled
<1>9. Glides(t.axis, last) /\ last.position = placed.position
  BY <1>7, HaltEffect DEF Glides
<1> HIDE DEF last, u
<1>10. LawfulTilt(u.ref, u.axis)
  <2>1. u.ref.minLimit <=> t.ref.homed /\ placed.position = 0
    BY <1>1, <1>2, <1>4, <1>5, <1>7, <1>8, RefParts
  <2>2. t.ref.homed => placed.position >= 0
    BY <1>6, <1>7
  <2>3. ~Parks(t.ref) /\ t.ref.homePhase = "NONE"
    BY DEF LawfulTilt, HomeLawful, Parks
  <2> QED
    BY <1>2, <1>4, <1>9, <2>1, <2>2, <2>3
    DEF LawfulTilt, HomeLawful, ParkLawful, JogLawful, ZeroLawful, Parks
<1>11. Aimed(u)
  BY <1>2 DEF Aimed, Parks, LawfulTilt, HomeLawful
<1> QED
  BY <1>2, <1>7, <1>8, <1>9, <1>10, <1>11 DEF Ticked, Placed

\* The whole of tilt_reference_before_tick; a jog counts nothing by itself.
LEMMA BeforeTicked ==
    ASSUME NEW t0 \in TiltState, NEW pressed \in BOOLEAN,
           LawfulTilt(t0.ref, t0.axis)
    PROVE  LET u == BeforeTick(t0, pressed)
           IN  /\ Ticked(t0, u, pressed)
               /\ t0.ref.operation = "JOGGING" =>
                     /\ u.ref.operation = "JOGGING"
                     /\ u.ref.remaining = t0.ref.remaining
                     /\ u.ref.forward = t0.ref.forward
                     /\ u.axis.position = t0.axis.position
<1> DEFINE t == [t0 EXCEPT !.ref = UpdateStability(@, pressed)]
           u == BeforeTick(t0, pressed)
<1>1. t \in TiltState
  BY TiltParts, UpdateStabilityType DEF TiltState
<1>2. /\ t.axis = t0.axis /\ SameRef(t0.ref, t.ref)
      /\ ~pressed => t.ref.triggerTicks = 0
  BY TiltParts DEF UpdateStability, TiltState, TiltRef, SameRef
<1>3. LawfulTilt(t.ref, t.axis)
  BY <1>2, SameLawful DEF SameSense
<1>4. TriggerIsStable(t.ref) => pressed
  BY <1>2, TiltAssumption DEF TriggerIsStable
<1>5. u = CASE t.ref.operation = "HOMING" -> UpdateHome(t, pressed)
            [] t.ref.operation = "JOGGING" -> JogTick(t)
            [] t.ref.operation = "DIRECTION_CHECKING" ->
                   DirectionCheckTick(t, pressed)
            [] OTHER -> IdleTick(t, pressed)
  BY DEF BeforeTick
<1>6. t.ref.operation \in Operations
  BY <1>1, TiltParts, RefParts
<1> HIDE DEF t, u
<1>7. Ticked(t, u, pressed)
  BY <1>1, <1>3, <1>4, <1>5, <1>6, HomeTicked, JogTicked, CheckTicked,
     IdleTicked
  DEF Operations
<1>8. Ticked(t0, u, pressed)
  BY <1>2, <1>7 DEF Ticked
<1>9. t.ref.operation = "JOGGING" =>
         u.ref = t.ref /\ u.axis.position = t.axis.position
  BY <1>1, <1>5, DriveEffect DEF JogTick
<1> QED
  BY <1>2, <1>8, <1>9 DEF SameRef, u

-----------------------------------------------------------------------------
(* The ramp.                                                               *)

\* An acceleration step towards a target on the same side stays there, one
\* from rest is at most Delta long, and none changes the sense.
LEMMA ApproachSense ==
    ASSUME NEW c \in Int, NEW g \in Int
    PROVE  LET v == ApproachVelocity(c, RampTarget(c, g))
           IN  /\ v \in Int /\ ~Opposed(c, v)
               /\ c >= 0 /\ g >= 0 => v >= 0
               /\ c <= 0 /\ g <= 0 => v <= 0
               /\ c = 0 => v \in -Delta..Delta
               /\ c = 0 /\ g = 0 => v = 0
<1> DEFINE h == RampTarget(c, g)
           v == ApproachVelocity(c, h)
<1>1. h \in Int /\ ~Opposed(c, h) /\ (h = g \/ h = 0)
  BY DEF RampTarget, Opposed
<1>2. Delta \in Nat /\ Delta > 0
  BY AxisAssumption
<1> HIDE DEF h
<1>3. /\ v \in Int /\ ~Opposed(c, v)
      /\ c >= 0 /\ h >= 0 => v >= 0
      /\ c <= 0 /\ h <= 0 => v <= 0
      /\ c = 0 => v \in -Delta..Delta
      /\ c = 0 /\ h = 0 => v = 0
  BY <1>1, <1>2 DEF ApproachVelocity, Opposed
<1> HIDE DEF v
<1> QED
  BY <1>1, <1>3 DEF h, v

\* Far from a step: at rest, or just set in motion.
Slow(s) == s.phase = 0 /\ s.velocity \in -Delta..Delta

LEMMA SlowNeverSteps ==
    ASSUME NEW s, Slow(s)
    PROVE  ~SchedulerTickSteps(s)
BY AxisAssumption DEF Slow, SchedulerTickSteps, Speed

\* One control tick of an axis.
LEMMA ControlTickMotion ==
    ASSUME NEW a \in Axes, NEW s \in AxisState(a), AxisSafe(s), Rested(s)
    PROVE  LET u == ControlTick(s)
           IN  /\ u.position = s.position /\ Rested(u)
               /\ ~Opposed(s.velocity, u.velocity)
               /\ s.velocity >= 0 /\ s.target >= 0 => u.velocity >= 0
               /\ s.velocity <= 0 /\ s.target <= 0 => u.velocity <= 0
               /\ s.velocity = 0 /\ s.target = 0 => u.velocity = 0
               /\ DirectionChanged(s) => /\ s.velocity = 0 /\ u.velocity # 0
                                         /\ Slow(u)
<1> DEFINE target   == IF LeaseExpires(s) THEN 0 ELSE s.target
           velocity == ApproachVelocity(s.velocity,
                                        RampTarget(s.velocity, target))
           u == ControlTick(s)
<1> SUFFICES /\ u.position = s.position /\ Rested(u)
             /\ ~Opposed(s.velocity, u.velocity)
             /\ s.velocity >= 0 /\ s.target >= 0 => u.velocity >= 0
             /\ s.velocity <= 0 /\ s.target <= 0 => u.velocity <= 0
             /\ s.velocity = 0 /\ s.target = 0 => u.velocity = 0
             /\ DirectionChanged(s) => /\ s.velocity = 0 /\ u.velocity # 0
                                       /\ Slow(u)
  OBVIOUS
<1>1. s.velocity \in Int /\ s.target \in Int /\ target \in Int
  BY MotionParts
<1>2. /\ u.position = s.position /\ u.velocity = velocity
      /\ u.phase = IF velocity # 0 THEN s.phase ELSE 0
      /\ u.positive = IF velocity # 0 THEN velocity > 0 ELSE s.positive
  BY DEF ControlTick, AxisState
<1>3. target = s.target \/ target = 0
  OBVIOUS
<1>4. DirectionChanged(s) <=> u.positive # s.positive
  BY DEF DirectionChanged
<1> HIDE DEF target
<1>5. /\ velocity \in Int /\ ~Opposed(s.velocity, velocity)
      /\ s.velocity >= 0 /\ target >= 0 => velocity >= 0
      /\ s.velocity <= 0 /\ target <= 0 => velocity <= 0
      /\ s.velocity = 0 => velocity \in -Delta..Delta
      /\ s.velocity = 0 /\ target = 0 => velocity = 0
  BY <1>1, ApproachSense
<1> HIDE DEF velocity, u
<1>6. Rested(u)
  BY <1>2 DEF Rested
<1>7. DirectionChanged(s) => s.velocity = 0 /\ velocity # 0
  <2> SUFFICES ASSUME DirectionChanged(s), s.velocity # 0 \/ velocity = 0
               PROVE  FALSE
    OBVIOUS
  <2>1. velocity # 0 /\ u.positive = (velocity > 0)
    BY <1>2, <1>4
  <2>2. s.positive = (s.velocity > 0)
    BY <2>1 DEF AxisSafe
  <2>3. (velocity > 0) <=> (s.velocity > 0)
    BY <1>1, <1>5, <2>1 DEF Opposed
  <2> QED
    BY <1>4, <2>1, <2>2, <2>3
<1>8. DirectionChanged(s) => Slow(u)
  BY <1>2, <1>5, <1>7 DEF Slow, Rested
<1> QED
  BY <1>1, <1>2, <1>3, <1>5, <1>6, <1>7, <1>8

LEMMA DisableMotion ==
    ASSUME NEW a \in Axes, NEW s \in AxisState(a)
    PROVE  LET u == RequestDisable(s)
           IN  /\ u.position = s.position
               /\ \/ u.velocity = s.velocity /\ u.phase = s.phase
                  \/ u.velocity = 0 /\ u.phase = 0
BY DEF RequestDisable, ForceStop, Stop, AxisState

-----------------------------------------------------------------------------
(* The interrupt.                                                          *)

\* What the control stage hands to the step stage.
FrameLawful(f) ==
    /\ LawfulTilt(f.ref, f.axis["TILT"])
    /\ f.axis["PAN"].position = axis["PAN"].position
    /\ Placed(axis["TILT"], f.axis["TILT"], endstop)
    /\ \A a \in Axes :
          /\ Rested(f.axis[a])
          /\ ~Opposed(axis[a].velocity, f.axis[a].velocity)
          /\ f.pinDir[a] # pinDir[a] =>
                axis[a].velocity = 0 /\ ~SchedulerTickSteps(f.axis[a])
    /\ ref.operation = "JOGGING" =>
          /\ f.ref.operation = "JOGGING"
          /\ f.ref.remaining = ref.remaining /\ f.ref.forward = ref.forward
          /\ f.axis["TILT"].position = axis["TILT"].position

LEMMA NotOpposed == \A v \in Int : ~Opposed(v, v) /\ ~Opposed(v, 0)
BY DEF Opposed

LEMMA CurrentFrameLawful ==
    ASSUME TypeOK, Lawful
    PROVE  FrameLawful(CurrentFrame)
<1>1. \A a \in Axes : axis[a].velocity \in Int
  BY StateParts, MotionParts
<1> QED
  BY <1>1, NotOpposed DEF CurrentFrame, FrameLawful, Lawful, Placed

LEMMA ControlFrameLawful ==
    ASSUME TypeOK, Safe, Lawful
    PROVE  FrameLawful(ControlFrame)
<1> DEFINE b == BeforeTick(Tilt, endstop)
           pan == ControlTick(axis["PAN"])
           tilt == ControlTick(b.axis)
           asked == b.ref.disableReq
           level == IF b.ref.operation = "DIRECTION_CHECKING"
                    THEN b.ref.checkHigh ELSE tilt.positive
           last == IF asked THEN RequestDisable(tilt) ELSE tilt
           r == TakeDisableRequest(b.ref)
           f == ControlFrame
<1> SUFFICES FrameLawful(f)
  OBVIOUS
<1>1. /\ Tilt \in TiltState /\ Tilt.axis = axis["TILT"] /\ Tilt.ref = ref
      /\ TiltSafe(Tilt) /\ endstop \in BOOLEAN
      /\ axis["PAN"] \in AxisState("PAN") /\ "PAN" \in Axes /\ "TILT" \in Axes
      /\ AxisSafe(axis["PAN"])
      /\ Rested(axis["PAN"]) /\ Rested(axis["TILT"])
      /\ LawfulTilt(Tilt.ref, Tilt.axis)
      /\ axis["TILT"].velocity \in Int
  BY StateParts, MotionParts DEF Safe, PanSafe, TypeOK, Lawful
<1>2. /\ f.axis["PAN"] = pan /\ f.axis["TILT"] = last /\ f.ref = r
      /\ f.pinDir["PAN"] = IF DirectionChanged(axis["PAN"]) THEN pan.positive
                                                            ELSE pinDir["PAN"]
      /\ f.pinDir["TILT"] = IF DirectionChanged(b.axis) THEN level
                                                        ELSE pinDir["TILT"]
  BY <1>1 DEF ControlFrame
<1>3. /\ b \in TiltState /\ TiltSafe(b) /\ b.ref \in TiltRef
      /\ b.axis \in AxisState("TILT") /\ AxisSafe(b.axis)
  BY <1>1, BeforeTickType, BeforeTickSafe, TiltParts DEF TiltSafe
<1>4. /\ Ticked(Tilt, b, endstop)
      /\ ref.operation = "JOGGING" =>
            /\ b.ref.operation = "JOGGING"
            /\ b.ref.remaining = ref.remaining /\ b.ref.forward = ref.forward
            /\ b.axis.position = axis["TILT"].position
  BY <1>1, BeforeTicked
<1>5. SameRef(b.ref, r)
  BY <1>3 DEF TakeDisableRequest, TiltRef, SameRef
<1> HIDE DEF f, b, r, level
<1>6. Rested(b.axis)
  BY <1>1, <1>4 DEF Ticked, Glides, Rested
<1>7. /\ pan.position = axis["PAN"].position /\ Rested(pan)
      /\ ~Opposed(axis["PAN"].velocity, pan.velocity)
      /\ DirectionChanged(axis["PAN"]) => axis["PAN"].velocity = 0 /\ Slow(pan)
  BY <1>1, ControlTickMotion
<1>8. /\ tilt.position = b.axis.position /\ Rested(tilt)
      /\ ~Opposed(b.axis.velocity, tilt.velocity)
      /\ b.axis.velocity >= 0 /\ b.axis.target >= 0 => tilt.velocity >= 0
      /\ b.axis.velocity <= 0 /\ b.axis.target <= 0 => tilt.velocity <= 0
      /\ b.axis.velocity = 0 /\ b.axis.target = 0 => tilt.velocity = 0
      /\ DirectionChanged(b.axis) => /\ b.axis.velocity = 0
                                     /\ tilt.velocity # 0 /\ Slow(tilt)
  BY <1>1, <1>3, <1>6, ControlTickMotion
<1>9. tilt \in AxisState("TILT")
  BY <1>1, <1>3, ControlTickType
<1> HIDE DEF pan, tilt
<1>10. /\ last.position = tilt.position
       /\ \/ last.velocity = tilt.velocity /\ last.phase = tilt.phase
          \/ last.velocity = 0 /\ last.phase = 0
       /\ tilt.velocity \in Int
  BY <1>1, <1>9, DisableMotion, MotionParts
<1> HIDE DEF last, asked
<1>11. LawfulTilt(r, last)
  <2>1. LawfulTilt(b.ref, b.axis) /\ Aimed(b)
    BY <1>4 DEF Ticked
  <2>2. LawfulTilt(b.ref, last)
    BY <1>8, <1>10, <2>1
    DEF LawfulTilt, HomeLawful, ParkLawful, JogLawful, ZeroLawful, Aimed
  <2> QED
    BY <1>5, <1>10, <2>2, SameLawful, NotOpposed DEF SameSense
<1>12. Placed(axis["TILT"], last, endstop)
  BY <1>1, <1>4, <1>8, <1>10 DEF Ticked, Placed
<1>13. Rested(last) /\ (Slow(tilt) => Slow(last))
  BY <1>8, <1>10, AxisAssumption DEF Rested, Slow
<1>14. ~Opposed(axis["TILT"].velocity, last.velocity)
  BY <1>1, <1>4, <1>8, <1>10 DEF Ticked, Glides, Opposed
<1>15. DirectionChanged(b.axis) => axis["TILT"].velocity = 0 /\ Slow(last)
  BY <1>1, <1>4, <1>8, <1>13 DEF Ticked, Glides
<1>16. ref.operation = "JOGGING" =>
          /\ r.operation = "JOGGING" /\ r.remaining = ref.remaining
          /\ r.forward = ref.forward /\ last.position = axis["TILT"].position
  BY <1>4, <1>5, <1>8, <1>10 DEF SameRef
<1> QED
  BY <1>1, <1>2, <1>7, <1>11, <1>12, <1>13, <1>14, <1>15, <1>16,
     SlowNeverSteps
  DEF FrameLawful, Axes

-----------------------------------------------------------------------------
(* The step stage.                                                         *)

\* The phase accumulator moves nothing else, and one counted step moves the
\* position by one in the direction of the axis, inside int64_t.
LEMMA TickMotion ==
    ASSUME NEW a \in Axes, NEW s \in AxisState(a)
    PROVE  LET u == SchedulerTick(s)
           IN  /\ u.position = s.position /\ u.velocity = s.velocity
               /\ u.positive = s.positive /\ Rested(u)
               /\ SchedulerTickSteps(s) => s.velocity # 0
BY DEF SchedulerTick, SchedulerTickSteps, AxisState, Rested

LEMMA CommitMotion ==
    ASSUME NEW a \in Axes, NEW s \in AxisState(a)
    PROVE  LET u == CommitStep(s)
           IN  /\ u.velocity = s.velocity /\ u.phase = s.phase
               /\ u.position = Counted(s.position, IF s.positive THEN 1 ELSE -1)
<1>1. /\ s.position \in Positions /\ s.position \in Int
      /\ PositionMin < PositionMax /\ PositionMin \in Int /\ PositionMax \in Int
  BY MotionParts, AxisAssumption
<1>2. CASE s.positive
  BY <1>1, <1>2 DEF CommitStep, Counted, AxisState
<1>3. CASE ~s.positive
  BY <1>1, <1>3 DEF CommitStep, Counted, AxisState
<1> QED
  BY <1>2, <1>3

LEMMA CountedInside ==
    ASSUME NEW p \in (PositionMin + 1)..(PositionMax - 1)
    PROVE  /\ Counted(p, 1) = p + 1 /\ Counted(p, -1) = p - 1
           /\ Counted(p, 0) = p
BY AxisAssumption DEF Counted

\* A step the reference allows keeps it lawful.
LEMMA StepLawful ==
    ASSUME NEW r \in TiltRef, NEW s \in AxisState("TILT"), AxisSafe(s),
           LawfulTilt(r, s), s.velocity # 0, NEW pressed,
           AllowStep([ref |-> r, axis |-> s], pressed),
           s.position \in (PositionMin + 1)..(PositionMax - 1)
    PROVE  LET u == StepCommitted([ref |-> r, axis |-> CommitStep(s)])
           IN  /\ LawfulTilt(u.ref, u.axis)
               /\ u.axis.position = s.position + (IF s.positive THEN 1 ELSE -1)
               /\ \/ u.axis.velocity = s.velocity /\ u.axis.phase = s.phase
                  \/ u.axis.velocity = 0 /\ u.axis.phase = 0
               /\ r.operation = "JOGGING" =>
                     /\ u.ref.remaining = r.remaining - 1
                     /\ s.positive <=> r.forward
<1> DEFINE c == CommitStep(s)
           t == [ref |-> r, axis |-> c]
           u == StepCommitted(t)
           bounded == r.operation \in {"JOGGING", "DIRECTION_CHECKING"}
           left    == IF r.remaining > 0 THEN r.remaining - 1 ELSE 0
           done    == bounded /\ left = 0
           edge    == IF s.positive THEN 1 ELSE -1
<1>1. /\ c.velocity = s.velocity /\ c.phase = s.phase
      /\ c.position = s.position + edge
      /\ c \in AxisState("TILT") /\ s.velocity \in Int /\ s.position \in Int
      /\ s.positive \in BOOLEAN
  BY CommitMotion, CountedInside, CommitStepType, MotionParts, AxisParts
  DEF Axes
<1>2. /\ u.ref.operation = IF done THEN "IDLE" ELSE r.operation
      /\ u.ref.homePhase = r.homePhase /\ u.ref.homed = r.homed
      /\ u.ref.forward = r.forward /\ u.ref.latched = r.latched
      /\ u.ref.phaseSteps = IF r.operation = "HOMING" THEN r.phaseSteps + 1
                                                      ELSE r.phaseSteps
      /\ u.ref.remaining = IF bounded THEN left ELSE r.remaining
      /\ u.ref.minLimit = IF r.homed \/ Parks(r) THEN c.position = 0
                                                 ELSE r.minLimit
      /\ u.axis = IF done THEN ForceStop(c) ELSE c
  BY DEF StepCommitted, TiltRef, Parks
<1>3. /\ u.axis.position = s.position + edge
      /\ \/ u.axis.velocity = s.velocity /\ u.axis.phase = s.phase
         \/ u.axis.velocity = 0 /\ u.axis.phase = 0
  BY <1>1, <1>2, HaltEffect
<1>4. /\ s.positive <=> s.velocity > 0
      /\ s.positive \/ ~r.homed \/ s.position > 0
      /\ r.operation = "HOMING" =>
             r.homePhase = "NONE" \/ r.phaseSteps < PhaseBound(r.homePhase)
      /\ bounded => r.remaining > 0
  <2>1. r.phaseSteps \in Int /\ PhaseBound(r.homePhase) \in Int
    BY RefParts, BoundType
  <2>2. s.positive <=> s.velocity > 0
    <3>1. s.positive = (s.velocity > 0)
      BY DEF AxisSafe
    <3> QED
      BY ONLY <3>1, Zenon
  <2>3. s.positive \/ ~r.homed \/ s.position > 0
    BY DEF AllowStep, AboveZero
  <2>4. /\ r.operation = "HOMING" =>
               r.homePhase = "NONE" \/ ~(r.phaseSteps >= PhaseBound(r.homePhase))
        /\ bounded => r.remaining > 0
    BY DEF AllowStep, WithinBounds, Exhausted
  <2> QED
    BY <2>1, <2>2, <2>3, <2>4
<1>5. /\ r.remaining \in Nat /\ r.phaseSteps \in Nat
      /\ PhaseBound(r.homePhase) \in Nat
  BY RefParts, BoundType
<1> HIDE DEF c, t, u
<1>6. HomeLawful(u.ref)
  BY <1>2, <1>4, <1>5 DEF LawfulTilt, HomeLawful
<1>7. ParkLawful(u.ref, u.axis)
  <2> SUFFICES ASSUME Parks(r)
               PROVE  /\ u.axis.position = u.ref.phaseSteps
                      /\ u.axis.velocity >= 0
    BY <1>2 DEF ParkLawful, Parks
  <2>1. /\ s.position = r.phaseSteps /\ s.velocity >= 0
        /\ r.operation = "HOMING"
    BY DEF LawfulTilt, HomeLawful, ParkLawful, Parks
  <2> QED
    BY <1>1, <1>2, <1>3, <1>4, <2>1
<1>8. JogLawful(u.ref, u.axis)
       /\ (r.operation = "JOGGING" => /\ u.ref.remaining = r.remaining - 1
                                      /\ s.positive <=> r.forward)
  <2>1. CASE r.operation = "JOGGING"
    <3>1. /\ r.homed
          /\ r.forward => s.velocity >= 0
          /\ ~r.forward => s.velocity <= 0 /\ s.position >= r.remaining
      BY <2>1 DEF LawfulTilt, JogLawful
    <3>5. s.positive <=> r.forward
      BY <1>1, <1>4, <3>1
    <3>6. bounded /\ left = r.remaining - 1
      BY <1>4, <1>5, <2>1
    <3>2. /\ s.positive <=> r.forward
          /\ u.ref.remaining = r.remaining - 1
      BY <1>2, <3>5, <3>6
    <3> HIDE DEF left, done
    <3>4. JogLawful(u.ref, u.axis)
      BY <1>1, <1>2, <1>3, <1>5, <3>1, <3>2 DEF JogLawful
    <3> QED
      BY <3>2, <3>4
  <2>2. CASE r.operation # "JOGGING"
    BY <1>2, <2>2 DEF JogLawful
  <2> QED
    BY <2>1, <2>2
<1>9. ZeroLawful(u.ref, u.axis)
  <2>1. /\ r.homed => s.position >= 0
        /\ r.minLimit <=> (r.homed \/ Parks(r)) /\ s.position = 0
    BY DEF LawfulTilt, ZeroLawful
  <2>2. u.ref.homed => u.axis.position >= 0
    BY <1>1, <1>2, <1>3, <1>4, <2>1
  <2>3. u.ref.minLimit <=> /\ u.ref.homed \/ Parks(u.ref)
                           /\ u.axis.position = 0
    BY <1>1, <1>2, <1>3, <2>1 DEF Parks
  <2> QED
    BY <2>2, <2>3 DEF ZeroLawful
<1> QED
  BY <1>3, <1>6, <1>7, <1>8, <1>9 DEF LawfulTilt, t, u, c

\* A turning axis is enabled, so its DIR pin shows the way it is counted.
LEMMA PinIsDirection ==
    ASSUME NEW a \in Axes, NEW s, AxisSafe(s), NEW en, NEW dir,
           PinSafe(a, s, en, dir), Oriented(a), s.velocity # 0
    PROVE  dir = s.positive
BY DEF AxisSafe, PinSafe

\* The edges of the step stage count on PAN, with the wrap of int64_t.
LEMMA PanStageMotion ==
    ASSUME NEW f, FrameOK(f), FrameSafe(f)
    PROVE  /\ PanStage(f).velocity = f.axis["PAN"].velocity
           /\ Rested(PanStage(f))
           /\ PanStage(f).position = Counted(f.axis["PAN"].position,
                                             Edge(f, "PAN", PanSteps(f)))
<1> DEFINE p == f.axis["PAN"]
           s == SchedulerTick(p)
<1>1. p \in AxisState("PAN") /\ "PAN" \in Axes /\ AxisSafe(p)
      /\ PinSafe("PAN", p, f.pinEn["PAN"], f.pinDir["PAN"])
  BY DEF FrameOK, AxisTypeOK, Axes, FrameSafe, PanSafe
<1>2. /\ s.position = p.position /\ s.velocity = p.velocity /\ Rested(s)
      /\ s.positive = p.positive /\ (PanSteps(f) => p.velocity # 0)
      /\ s \in AxisState("PAN")
  BY <1>1, TickMotion, SchedulerTickType DEF PanSteps
<1>3. PanSteps(f) => f.pinDir["PAN"] = p.positive
  BY <1>1, <1>2, PinIsDirection DEF Oriented
<1>4. PanStage(f) = IF PanSteps(f) THEN CommitStep(s) ELSE s
  BY DEF PanStage
<1> HIDE DEF s
<1>5. CASE PanSteps(f)
  <2>1. /\ CommitStep(s).velocity = s.velocity /\ CommitStep(s).phase = s.phase
        /\ CommitStep(s).position =
              Counted(s.position, IF s.positive THEN 1 ELSE -1)
    BY <1>1, <1>2, CommitMotion
  <2>2. Edge(f, "PAN", PanSteps(f)) = IF s.positive THEN 1 ELSE -1
    BY <1>2, <1>3, <1>5 DEF Edge
  <2> QED
    BY <1>2, <1>4, <1>5, <2>1, <2>2 DEF Rested
<1>6. CASE ~PanSteps(f)
  <2>1. Edge(f, "PAN", PanSteps(f)) = 0
    BY <1>6 DEF Edge
  <2>2. p.position \in Int
    BY <1>1, MotionParts
  <2> QED
    BY <1>2, <1>4, <1>6, <2>1, <2>2 DEF Counted
<1> QED
  BY <1>5, <1>6

\* They count on a calibrated TILT, never into the pressed switch, and pay
\* what a jog owes.
LEMMA TiltStageMotion ==
    ASSUME TypeOK, NEW f, FrameOK(f), FrameSafe(f), FrameLawful(f), TiltHorizon
    PROVE  LET u == TiltStage(f)
               t == f.axis["TILT"]
               e == Edge(f, "TILT", TiltSteps(f))
           IN  /\ LawfulTilt(u.ref, u.axis) /\ Rested(u.axis)
               /\ u.axis.velocity = t.velocity \/ u.axis.velocity = 0
               /\ DirectionCalibrated => u.axis.position = Counted(t.position, e)
               /\ DirectionCalibrated /\ endstop => e >= 0
               /\ f.ref.operation = "JOGGING" =>
                     u.axis.position - t.position =
                        IF f.ref.forward THEN f.ref.remaining - u.ref.remaining
                        ELSE -(f.ref.remaining - u.ref.remaining)
<1> DEFINE t == f.axis["TILT"]
           s == SchedulerTick(t)
           r == f.ref
           u == TiltStage(f)
           e == Edge(f, "TILT", TiltSteps(f))
<1> SUFFICES /\ LawfulTilt(u.ref, u.axis) /\ Rested(u.axis)
             /\ u.axis.velocity = t.velocity \/ u.axis.velocity = 0
             /\ DirectionCalibrated => u.axis.position = Counted(t.position, e)
             /\ DirectionCalibrated /\ endstop => e >= 0
             /\ r.operation = "JOGGING" =>
                   u.axis.position - t.position =
                      IF r.forward THEN r.remaining - u.ref.remaining
                      ELSE -(r.remaining - u.ref.remaining)
  OBVIOUS
<1>1. /\ t \in AxisState("TILT") /\ "TILT" \in Axes /\ AxisSafe(t)
      /\ r \in TiltRef /\ LawfulTilt(r, t)
      /\ PinSafe("TILT", t, f.pinEn["TILT"], f.pinDir["TILT"])
  BY DEF FrameOK, AxisTypeOK, Axes, FrameSafe, TiltSafe, FrameLawful
<1>2. /\ s.position = t.position /\ s.velocity = t.velocity /\ Rested(s)
      /\ s.positive = t.positive /\ (TiltSteps(f) => t.velocity # 0)
      /\ s \in AxisState("TILT") /\ AxisSafe(s)
  BY <1>1, TickMotion, SchedulerTickType, StepStageSafe DEF TiltSteps
<1>3. t.position \in (PositionMin + 1)..(PositionMax - 1)
  <2>1. 0 \in (PositionMin + 1)..(PositionMax - 1)
    BY AxisAssumption
  <2> QED
    BY <2>1 DEF FrameLawful, Placed, TiltHorizon
<1>4. LawfulTilt(r, s)
  <2>1. t.velocity \in Int
    BY <1>1, MotionParts
  <2> QED
    BY <1>1, <1>2, <2>1, SameLawful DEF SameRef, SameSense
<1>5. TiltSteps(f) => AllowStep([ref |-> r, axis |-> s], endstop)
  BY DEF TiltSteps
<1>6. u = IF TiltSteps(f)
          THEN StepCommitted([ref |-> r, axis |-> CommitStep(s)])
          ELSE [ref |-> r, axis |-> s]
  BY DEF TiltStage
<1>7. DirectionCalibrated /\ TiltSteps(f) => f.pinDir["TILT"] = s.positive
  BY <1>1, <1>2, PinIsDirection DEF Oriented
<1>8. TiltSteps(f) /\ endstop => s.positive
  BY <1>5 DEF AllowStep, AboveSwitch
<1>9. r.remaining \in Int /\ r.forward \in BOOLEAN /\ s.positive \in BOOLEAN
  BY <1>1, <1>2, RefParts, AxisParts
<1> HIDE DEF s, u
<1>10. CASE TiltSteps(f)
  <2>1. /\ LawfulTilt(u.ref, u.axis)
        /\ u.axis.position = s.position + (IF s.positive THEN 1 ELSE -1)
        /\ \/ u.axis.velocity = s.velocity /\ u.axis.phase = s.phase
           \/ u.axis.velocity = 0 /\ u.axis.phase = 0
        /\ r.operation = "JOGGING" =>
              /\ u.ref.remaining = r.remaining - 1
              /\ s.positive <=> r.forward
    BY <1>1, <1>2, <1>3, <1>4, <1>5, <1>6, <1>10, StepLawful
  <2>2. DirectionCalibrated => e = IF s.positive THEN 1 ELSE -1
    BY <1>7, <1>10 DEF Edge
  <2>3. DirectionCalibrated => u.axis.position = Counted(t.position, e)
    BY <1>2, <1>3, <2>1, <2>2, CountedInside
  <2>4. r.operation = "JOGGING" =>
           u.axis.position - t.position =
              IF r.forward THEN r.remaining - u.ref.remaining
              ELSE -(r.remaining - u.ref.remaining)
    BY <1>2, <1>3, <1>9, <2>1
  <2>5. Rested(u.axis)
    BY <1>2, <2>1 DEF Rested
  <2> HIDE DEF e, t, r
  <2>6. DirectionCalibrated /\ endstop => e >= 0
    BY <1>8, <1>10, <2>2
  <2> QED
    BY <1>2, <2>1, <2>3, <2>4, <2>5, <2>6
<1>11. CASE ~TiltSteps(f)
  <2>1. u.ref = r /\ u.axis = s /\ e = 0
    BY <1>6, <1>11 DEF Edge
  <2> QED
    BY <1>2, <1>3, <1>4, <1>9, <2>1, CountedInside
<1> QED
  BY <1>10, <1>11

\* What one interrupt does to the counts, the senses and the pins.
Counts(a) ==
    Oriented(a) =>
       \/ axis'[a].position = Counted(axis[a].position, pulse'[a])
       \/ a = "TILT" /\ endstop /\ axis'[a].position = pulse'[a]

Reverses(a) ==
    \/ Opposed(axis[a].velocity, axis'[a].velocity)
    \/ pinDir'[a] # pinDir[a] /\ ~(axis[a].velocity = 0 /\ pulse'[a] = 0)

Accounts ==
    ref.operation = "JOGGING" =>
       LET moved == axis'["TILT"].position - axis["TILT"].position
           paid  == ref.remaining - ref'.remaining
       IN  \/ moved = (IF ref.forward THEN paid ELSE -paid)
           \/ moved = 0 /\ ref'.operation = "IDLE"

LEMMA IsrMotion ==
    ASSUME TypeOK, Safe, Lawful, Tim4Isr
    PROVE  /\ Lawful' /\ Accounts
           /\ \A a \in Axes : Counts(a) /\ ~Reverses(a)
           /\ DirectionCalibrated /\ endstop' => pulse'["TILT"] >= 0
<1> DEFINE f == IF sub = 1 THEN ControlFrame ELSE CurrentFrame
           pan == PanStage(f)
           tilt == TiltStage(f)
           e == Edge(f, "TILT", TiltSteps(f))
           p == Edge(f, "PAN", PanSteps(f))
<1>1. FrameOK(f) /\ FrameSafe(f) /\ FrameLawful(f)
  <2>1. FrameOK(CurrentFrame) /\ FrameSafe(CurrentFrame)
    BY StateParts DEF CurrentFrame, FrameOK, FrameSafe, Safe, TypeOK, Tilt
  <2>2. FrameOK(ControlFrame) /\ FrameSafe(ControlFrame)
    BY ControlFrameType, PanControlSafe, TiltControlSafe DEF FrameSafe, Axes
  <2> QED
    BY <2>1, <2>2, CurrentFrameLawful, ControlFrameLawful
<1>2. /\ axis' = [a \in Axes |-> IF a = "PAN" THEN pan ELSE tilt.axis]
      /\ ref' = tilt.ref /\ pinDir' = f.pinDir /\ endstop' = endstop
      /\ pulse' = [a \in Axes |-> Edge(f, a, IF a = "PAN" THEN PanSteps(f)
                                                          ELSE TiltSteps(f))]
      /\ TiltHorizon
  BY DEF Tim4Isr, Countdown
<1> HIDE DEF f
<1>3. /\ axis'["PAN"] = pan /\ axis'["TILT"] = tilt.axis
      /\ pulse'["PAN"] = p /\ pulse'["TILT"] = e
  BY <1>2 DEF Axes
<1>4. /\ pan.velocity = f.axis["PAN"].velocity /\ Rested(pan)
      /\ pan.position = Counted(axis["PAN"].position, p)
  BY <1>1, PanStageMotion DEF FrameLawful
<1> DEFINE t == f.axis["TILT"]
<1>5. /\ LawfulTilt(tilt.ref, tilt.axis) /\ Rested(tilt.axis)
      /\ tilt.axis.velocity = t.velocity \/ tilt.axis.velocity = 0
      /\ DirectionCalibrated => tilt.axis.position = Counted(t.position, e)
      /\ DirectionCalibrated /\ endstop => e >= 0
      /\ f.ref.operation = "JOGGING" =>
            tilt.axis.position - t.position =
               IF f.ref.forward THEN f.ref.remaining - tilt.ref.remaining
               ELSE -(f.ref.remaining - tilt.ref.remaining)
  BY <1>1, <1>2, TiltStageMotion
<1>6. /\ Placed(axis["TILT"], t, endstop)
      /\ \A a \in Axes : ~Opposed(axis[a].velocity, f.axis[a].velocity)
      /\ \A a \in Axes : f.pinDir[a] # pinDir[a] =>
            axis[a].velocity = 0 /\ ~SchedulerTickSteps(f.axis[a])
      /\ ref.operation = "JOGGING" =>
            /\ f.ref.operation = "JOGGING"
            /\ f.ref.remaining = ref.remaining /\ f.ref.forward = ref.forward
            /\ t.position = axis["TILT"].position
  BY <1>1 DEF FrameLawful
<1>7. /\ ~SchedulerTickSteps(f.axis["PAN"]) => p = 0
      /\ ~SchedulerTickSteps(t) => e = 0
      /\ e \in {-1, 0, 1}
  BY DEF Edge, PanSteps, TiltSteps
<1> HIDE DEF pan, tilt, e, p, t
<1>8. Lawful'
  BY <1>2, <1>3, <1>4, <1>5 DEF Lawful, Axes
<1>9. Accounts
  BY <1>2, <1>3, <1>5, <1>6 DEF Accounts
<1>10. Counts("PAN") /\ Counts("TILT")
  <2>1. Counts("PAN")
    BY <1>3, <1>4 DEF Counts
  <2>2. Counted(0, e) = e
    BY <1>7, AxisAssumption DEF Counted
  <2>3. Counts("TILT")
    BY <1>3, <1>5, <1>6, <2>2 DEF Counts, Oriented, Placed
  <2> QED
    BY <2>1, <2>3
<1>11. ~Reverses("PAN") /\ ~Reverses("TILT")
  <2>1. "PAN" \in Axes /\ "TILT" \in Axes
    BY DEF Axes
  <2>2. axis["TILT"].velocity \in Int
    BY StateParts, MotionParts
  <2>3. ~Opposed(axis["TILT"].velocity, tilt.axis.velocity)
    BY <1>5, <1>6, <2>1, <2>2, NotOpposed DEF t
  <2> QED
    BY <1>2, <1>3, <1>4, <1>6, <1>7, <2>1, <2>3 DEF Reverses, t
<1> QED
  BY <1>2, <1>3, <1>5, <1>8, <1>9, <1>10, <1>11 DEF Axes

-----------------------------------------------------------------------------
(* The commands and the main loop.                                         *)

\* Everything but the interrupt leaves an axis where it is, and either goes
\* on as before or is at rest.
Calm(s, u) == /\ u.position = s.position
              /\ \/ u.velocity = s.velocity /\ u.phase = s.phase
                 \/ u.velocity = 0 /\ u.phase = 0

LEMMA CalmPrimitives ==
    ASSUME NEW a \in Axes, NEW s \in AxisState(a), NEW v
    PROVE  /\ Calm(s, s) /\ Calm(s, Stop(s)) /\ Calm(s, EnableAxis(s))
           /\ Calm(s, RequestDisable(s)) /\ Calm(s, ApplyVelocity(s, v))
           /\ Calm(s, Stop(Stop(s))) /\ Calm(s, RequestDisable(Stop(s)))
<1>1. Calm(s, s) /\ Calm(s, Stop(s)) /\ Calm(s, ApplyVelocity(s, v))
  BY DEF Calm, Stop, ApplyVelocity, AxisState
<1>2. Calm(s, EnableAxis(s))
  BY DEF Calm, EnableAxis, InitialAxis, AxisState
<1>3. \A x \in AxisState(a) : Calm(x, RequestDisable(x))
  BY DisableMotion DEF Calm
<1>4. Stop(s) \in AxisState(a)
  BY StopType
<1>5. Calm(s, Stop(Stop(s)))
  BY <1>1, <1>4 DEF Calm, Stop, AxisState
<1>6. Calm(s, RequestDisable(Stop(s)))
  BY <1>1, <1>3, <1>4 DEF Calm
<1> QED
  BY <1>1, <1>2, <1>3, <1>5, <1>6

\* What every step but stuttering and the interrupt is left to show.
Kept == /\ Lawful' /\ Accounts
        /\ \A a \in Axes : Counts(a) /\ ~Reverses(a)
        /\ DirectionCalibrated /\ endstop' => pulse'["TILT"] >= 0

LEMMA CalmStep ==
    ASSUME TypeOK, Lawful, pulse' = NoPulse,
           \A a \in Axes : Calm(axis[a], axis'[a]),
           \A a \in Axes : pinDir'[a] = pinDir[a] \/ axis[a].velocity = 0,
           \/ SameRef(ref, ref')
           \/ /\ LawfulTilt(ref', axis["TILT"])
              /\ ref.operation = "JOGGING" => ref'.operation = "IDLE"
    PROVE  Kept
<1>1. /\ \A a \in Axes : /\ axis[a].position \in Int
                        /\ axis[a].velocity \in Int
                        /\ Calm(axis[a], axis'[a])
      /\ "TILT" \in Axes /\ ref.remaining \in Nat
  BY StateParts, MotionParts, RefParts DEF TypeOK
<1>2. \A a \in Axes : /\ axis'[a].position = axis[a].position
                     /\ SameSense(axis[a].velocity, axis'[a].velocity)
                     /\ ~Opposed(axis[a].velocity, axis'[a].velocity)
  BY <1>1, NotOpposed DEF Calm, SameSense
<1>3. LawfulTilt(ref, axis["TILT"]) /\ SameRef(ref', ref')
  BY DEF Lawful, SameRef
<1>4. LawfulTilt(ref', axis'["TILT"])
  BY <1>1, <1>2, <1>3, SameLawful
<1>5. \A a \in Axes : Rested(axis'[a])
  BY <1>1 DEF Calm, Rested, Lawful
<1>6. \A a \in Axes : pulse'[a] = 0
  BY DEF NoPulse
<1>7. \A a \in Axes : Counts(a) /\ ~Reverses(a)
  BY <1>1, <1>2, <1>6 DEF Counts, Reverses, Counted
<1>8. Accounts
  BY <1>1, <1>2 DEF Accounts, SameRef
<1> QED
  BY <1>1, <1>4, <1>5, <1>6, <1>7, <1>8 DEF Kept, Lawful

\* Giving the reference or an operation up, and starting an operation.
LEMMA GiveUpLawful ==
    ASSUME NEW t \in TiltState, LawfulTilt(t.ref, t.axis)
    PROVE  \A u \in {Abort(t), OnDisable(t), OnDriverFault(t)} :
              /\ LawfulTilt(u.ref, t.axis) /\ u.ref.operation = "IDLE"
              /\ u.axis = Stop(t.axis)
<1>1. t.ref \in TiltRef
  BY TiltParts
<1>2. /\ Abort(t).ref.operation = "IDLE" /\ Abort(t).ref.homePhase = "NONE"
      /\ Abort(t).ref.homed = (t.ref.homed /\ t.ref.operation # "HOMING")
      /\ Abort(t).ref.minLimit = (t.ref.minLimit /\ t.ref.operation # "HOMING")
      /\ Abort(t).ref.latched = t.ref.latched
      /\ Abort(t).axis = Stop(t.axis)
  BY <1>1 DEF Abort, TiltRef
<1>3. LawfulTilt(Abort(t).ref, t.axis)
  BY <1>1, <1>2, RefParts
  DEF LawfulTilt, HomeLawful, ParkLawful, JogLawful, ZeroLawful, Parks
<1>4. \A status, request :
         LET u == Unreference(t, status, request)
         IN  /\ u.ref.operation = "IDLE" /\ u.ref.homePhase = "NONE"
             /\ u.ref.homed = FALSE /\ u.ref.minLimit = FALSE
             /\ u.ref.latched = FALSE /\ u.axis = Stop(t.axis)
  BY <1>1 DEF Unreference, TiltRef
<1>5. \A status, request :
         LET u == Unreference(t, status, request)
         IN  /\ LawfulTilt(u.ref, t.axis) /\ u.ref.operation = "IDLE"
             /\ u.axis = Stop(t.axis)
  BY <1>4
  DEF LawfulTilt, HomeLawful, ParkLawful, JogLawful, ZeroLawful, Parks
<1>6. LawfulTilt(OnDisable(t).ref, t.axis)
      /\ OnDisable(t).ref.operation = "IDLE"
      /\ OnDisable(t).axis = Stop(t.axis)
  BY <1>5 DEF OnDisable
<1>7. LawfulTilt(OnDriverFault(t).ref, t.axis)
      /\ OnDriverFault(t).ref.operation = "IDLE"
      /\ OnDriverFault(t).axis = Stop(t.axis)
  BY <1>5 DEF OnDriverFault
<1> QED
  BY <1>2, <1>3, <1>6, <1>7

LEMMA StartLawful ==
    ASSUME NEW r \in TiltRef, NEW s \in AxisState("TILT"), LawfulTilt(r, s),
           r.operation = "IDLE"
    PROVE  /\ \A b : LawfulTilt(StartHome(r, b), s)
           /\ ~r.homed => \A b : LawfulTilt(StartDirectionCheck(r, b), s)
           /\ \A n \in Int \ {0} :
                 r.homed /\ s.velocity = 0 /\ (n < 0 => -n <= s.position) =>
                    LawfulTilt(StartJog(r, n), s)
<1>1. ASSUME NEW b PROVE LawfulTilt(StartHome(r, b), s)
  <2> DEFINE q == StartHome(r, b)
  <2> SUFFICES LawfulTilt(q, s)
    OBVIOUS
  <2>1. /\ q.operation = "HOMING"
        /\ q.homePhase \in {"INITIAL_RELEASE", "FAST_APPROACH"}
        /\ q.phaseSteps = 0 /\ q.homed = FALSE /\ q.minLimit = FALSE
        /\ q.latched = FALSE
    BY DEF StartHome, TiltRef
  <2>2. 0 <= PhaseBound(q.homePhase)
    BY BoundType
  <2> HIDE DEF q
  <2> QED
    BY <2>1, <2>2
    DEF LawfulTilt, HomeLawful, ParkLawful, JogLawful, ZeroLawful, Parks
<1>2. ASSUME NEW b, ~r.homed PROVE LawfulTilt(StartDirectionCheck(r, b), s)
  <2> DEFINE q == StartDirectionCheck(r, b)
  <2> SUFFICES LawfulTilt(q, s)
    OBVIOUS
  <2>1. /\ q.operation = "DIRECTION_CHECKING" /\ q.homePhase = r.homePhase
        /\ q.homed = FALSE /\ q.minLimit = FALSE /\ q.latched = r.latched
    BY DEF StartDirectionCheck, TiltRef
  <2> HIDE DEF q
  <2> QED
    BY <1>2, <2>1
    DEF LawfulTilt, HomeLawful, ParkLawful, JogLawful, ZeroLawful, Parks
<1>3. ASSUME NEW n \in Int \ {0}, r.homed, s.velocity = 0,
             n < 0 => -n <= s.position
      PROVE  LawfulTilt(StartJog(r, n), s)
  <2> DEFINE q == StartJog(r, n)
             up == n > 0
  <2> SUFFICES LawfulTilt(q, s)
    OBVIOUS
  <2>1. /\ q.operation = "JOGGING" /\ q.homePhase = r.homePhase
        /\ q.homed = r.homed /\ q.minLimit = r.minLimit
        /\ q.latched = r.latched /\ q.forward = up
        /\ q.remaining = IF up THEN n ELSE -n
    BY DEF StartJog, TiltRef
  <2>2. ~up => q.remaining <= s.position
    BY <1>3, <2>1
  <2> HIDE DEF q, up
  <2>3. JogLawful(q, s)
    <3>1. s.position \in Int /\ (~up => q.remaining \in Int)
      BY <2>1, MotionParts DEF Axes, up
    <3> QED
      BY <1>3, <2>1, <2>2, <3>1 DEF JogLawful
  <2> QED
    BY <2>1, <2>3
    DEF LawfulTilt, HomeLawful, ParkLawful, ZeroLawful, Parks
<1> QED
  BY <1>1, <1>2, <1>3

\* One axis replaced by another, the rest as before.
LEMMA ReplaceCalm ==
    ASSUME TypeOK, NEW a \in Axes, NEW u, axis' = [axis EXCEPT ![a] = u],
           Calm(axis[a], u)
    PROVE  \A b \in Axes : Calm(axis[b], axis'[b])
BY StateParts, CalmPrimitives DEF TypeOK

LEMMA KeptAxisCommand ==
    ASSUME TypeOK, Safe, Lawful, NEW a \in Axes,
           \/ Enable(a) \/ EnableRefused(a) \/ Disable(a)
           \/ \E v \in HostVelocities : SetVelocity(a, v)
    PROVE  Kept
<1>1. /\ axis[a] \in AxisState(a) /\ AxisSafe(axis[a])
      /\ pinDir \in [Axes -> BOOLEAN] /\ LawfulTilt(ref, axis["TILT"])
      /\ SameRef(ref, ref) /\ Tilt \in TiltState
      /\ Tilt.ref = ref /\ Tilt.axis = axis["TILT"]
  BY SafeParts, StateParts DEF TypeOK, Lawful, SameRef
<1>2. pulse' = NoPulse
  BY DEF Enable, EnableRefused, ReleasePin, Disable, SetVelocity, Command
<1>3. CASE Enable(a)
  <2>1. /\ axis' = [axis EXCEPT ![a] = EnableAxis(axis[a])]
        /\ pinDir' = [pinDir EXCEPT ![a] = TRUE]
        /\ ref' = ref /\ ~axis[a].enabled
    BY <1>3 DEF Enable
  <2>2. \A b \in Axes : pinDir'[b] = pinDir[b] \/ axis[b].velocity = 0
    BY <1>1, <2>1 DEF AxisSafe
  <2> QED
    BY <1>1, <1>2, <2>1, <2>2, CalmPrimitives, ReplaceCalm, CalmStep
<1>4. CASE EnableRefused(a)
  <2>1. UNCHANGED <<axis, ref, pinDir>>
    BY <1>4 DEF EnableRefused, ReleasePin
  <2>2. \A b \in Axes : Calm(axis[b], axis'[b])
    BY <2>1, StateParts, CalmPrimitives
  <2> QED
    BY <1>1, <1>2, <2>1, <2>2, CalmStep
<1>5. CASE Disable(a)
  <2> DEFINE t == IF a = "TILT" THEN OnDisable(Tilt)
                               ELSE [ref |-> ref, axis |-> axis[a]]
  <2>1. /\ axis' = [axis EXCEPT ![a] = RequestDisable(t.axis)]
        /\ ref' = t.ref /\ pinDir' = pinDir
    BY <1>5 DEF Disable
  <2>2. \/ SameRef(ref, ref')
        \/ LawfulTilt(ref', axis["TILT"]) /\ ref'.operation = "IDLE"
    BY <1>1, <2>1, GiveUpLawful
  <2>3. Calm(axis[a], RequestDisable(t.axis))
    BY <1>1, GiveUpLawful, CalmPrimitives
  <2> HIDE DEF t
  <2>4. \A b \in Axes : Calm(axis[b], axis'[b])
    BY <2>1, <2>3, ReplaceCalm
  <2> QED
    BY <1>2, <2>1, <2>2, <2>4, CalmStep
<1>6. ASSUME NEW v \in HostVelocities, SetVelocity(a, v) PROVE Kept
  <2>1. /\ axis' = [axis EXCEPT ![a] = ApplyVelocity(axis[a], v)]
        /\ UNCHANGED <<ref, pinDir>>
    BY <1>6 DEF SetVelocity
  <2> QED
    BY <1>1, <1>2, <2>1, CalmPrimitives, ReplaceCalm, CalmStep
<1> QED
  BY <1>3, <1>4, <1>5, <1>6

LEMMA KeptBothCommand ==
    ASSUME TypeOK, Safe, Lawful,
           \/ StopAll
           \/ \E v, w \in HostVelocities : SetBothVelocities(v, w)
    PROVE  Kept
<1>1. /\ axis["PAN"] \in AxisState("PAN") /\ axis["TILT"] \in AxisState("TILT")
      /\ "PAN" \in Axes /\ "TILT" \in Axes
      /\ LawfulTilt(ref, axis["TILT"]) /\ SameRef(ref, ref)
      /\ Tilt \in TiltState /\ Tilt.ref = ref /\ Tilt.axis = axis["TILT"]
  BY StateParts DEF Lawful, SameRef
<1>2. pulse' = NoPulse /\ pinDir' = pinDir
  BY DEF StopAll, SetBothVelocities, Command
<1>3. CASE StopAll
  <2>1. /\ axis'["PAN"] = Stop(axis["PAN"])
        /\ axis'["TILT"] = Stop(Abort(Tilt).axis) /\ ref' = Abort(Tilt).ref
    BY <1>3 DEF StopAll, Axes
  <2>2. /\ LawfulTilt(ref', axis["TILT"]) /\ ref'.operation = "IDLE"
        /\ axis'["TILT"] = Stop(Stop(axis["TILT"]))
    BY <1>1, <2>1, GiveUpLawful
  <2>3. \A a \in Axes : Calm(axis[a], axis'[a])
    BY <1>1, <2>1, <2>2, CalmPrimitives DEF Axes
  <2> QED
    BY <1>2, <2>2, <2>3, CalmStep
<1>4. ASSUME NEW v \in HostVelocities, NEW w \in HostVelocities,
             SetBothVelocities(v, w)
      PROVE  Kept
  <2>1. /\ \A a \in Axes :
              axis'[a] = ApplyVelocity(axis[a], IF a = "PAN" THEN v ELSE w)
        /\ ref' = ref
    BY <1>4 DEF SetBothVelocities
  <2>2. \A a \in Axes : Calm(axis[a], axis'[a])
    BY <2>1, StateParts, CalmPrimitives
  <2> QED
    BY <1>1, <1>2, <2>1, <2>2, CalmStep
<1> QED
  BY <1>3, <1>4

LEMMA KeptTiltCommand ==
    ASSUME TypeOK, Safe, Lawful,
           \/ HomeTilt \/ HomeRefused \/ DirectionCheckRefused
           \/ \E n \in HostJogs : JogTilt(n)
           \/ \E high \in BOOLEAN : DirectionCheckTilt(high)
    PROVE  Kept
<1>1. /\ axis["TILT"] \in AxisState("TILT") /\ "TILT" \in Axes
      /\ AxisSafe(axis["TILT"]) /\ pinDir \in [Axes -> BOOLEAN]
      /\ LawfulTilt(ref, axis["TILT"]) /\ SameRef(ref, ref)
      /\ ref \in TiltRef /\ TiltSafe([ref |-> ref, axis |-> axis["TILT"]])
  BY SafeParts DEF Lawful, SameRef
<1>2. pulse' = NoPulse
  BY DEF HomeTilt, HomeRefused, DirectionCheckRefused, ReleasePin, JogTilt,
         DirectionCheckTilt, Command
<1>3. CASE HomeTilt
  <2>1. /\ axis' = [axis EXCEPT !["TILT"] = EnableAxis(axis["TILT"])]
        /\ pinDir' = [pinDir EXCEPT
                        !["TILT"] = @ \/ ~axis["TILT"].enabled]
        /\ ref' = StartHome(ref, endstop) /\ ref.operation = "IDLE"
    BY <1>3 DEF HomeTilt, AtRest
  <2>2. \A b \in Axes : pinDir'[b] = pinDir[b] \/ axis[b].velocity = 0
    BY <1>1, <2>1 DEF AxisSafe
  <2>3. LawfulTilt(ref', axis["TILT"])
    BY <1>1, <2>1, StartLawful
  <2> QED
    BY <1>1, <1>2, <2>1, <2>2, <2>3, CalmPrimitives, ReplaceCalm, CalmStep
<1>4. CASE HomeRefused \/ DirectionCheckRefused
  <2>1. UNCHANGED <<axis, ref, pinDir>>
    BY <1>4 DEF HomeRefused, DirectionCheckRefused, ReleasePin
  <2>2. \A b \in Axes : Calm(axis[b], axis'[b])
    BY <2>1, StateParts, CalmPrimitives
  <2> QED
    BY <1>1, <1>2, <2>1, <2>2, CalmStep
<1>5. ASSUME NEW n \in HostJogs, JogTilt(n) PROVE Kept
  <2>1. /\ UNCHANGED <<axis, pinDir>> /\ ref' = StartJog(ref, n)
        /\ ref.homed /\ ref.operation = "IDLE" /\ ~axis["TILT"].moving
        /\ n # 0 /\ (n < 0 => -n <= axis["TILT"].position)
    BY <1>5 DEF JogTilt
  <2>2. n \in Int \ {0} /\ axis["TILT"].velocity = 0
    BY <1>1, <2>1, ControllerAssumption DEF AxisSafe
  <2>3. LawfulTilt(ref', axis["TILT"])
    BY <1>1, <2>1, <2>2, StartLawful
  <2>4. \A b \in Axes : Calm(axis[b], axis'[b])
    BY <2>1, StateParts, CalmPrimitives
  <2> QED
    BY <1>2, <2>1, <2>3, <2>4, CalmStep
<1>6. ASSUME NEW high \in BOOLEAN, DirectionCheckTilt(high) PROVE Kept
  <2>1. /\ axis' = [axis EXCEPT !["TILT"] = EnableAxis(axis["TILT"])]
        /\ pinDir' = [pinDir EXCEPT !["TILT"] = high]
        /\ ref' = StartDirectionCheck(ref, high) /\ ref.operation = "IDLE"
        /\ ~axis["TILT"].enabled
    BY <1>6 DEF DirectionCheckTilt, CheckAllowed, AtRest
  <2>2. \A b \in Axes : pinDir'[b] = pinDir[b] \/ axis[b].velocity = 0
    BY <1>1, <2>1 DEF AxisSafe
  <2>3. ~ref.homed
    BY <1>1, <2>1 DEF TiltSafe, Claimed
  <2>4. LawfulTilt(ref', axis["TILT"])
    BY <1>1, <2>1, <2>3, StartLawful
  <2> QED
    BY <1>1, <1>2, <2>1, <2>2, <2>4, CalmPrimitives, ReplaceCalm, CalmStep
<1> QED
  BY <1>3, <1>4, <1>5, <1>6

\* A fault gives the tilt up; the other steps of the main loop, and what the
\* host and the endstop do by themselves, move no axis.
LEMMA KeptOther ==
    ASSUME TypeOK, Safe, Lawful,
           \/ EndstopChanges \/ HostVanishes \/ DriverHandler
           \/ ConfigureDrivers \/ \E a \in Axes : QueryDriver(a)
    PROVE  Kept
<1>1. /\ main.axis \in Axes /\ "TILT" \in Axes /\ SameRef(ref, ref)
      /\ LawfulTilt(ref, axis["TILT"])
      /\ Tilt \in TiltState /\ Tilt.ref = ref /\ Tilt.axis = axis["TILT"]
      /\ axis[main.axis] \in AxisState(main.axis)
  BY StateParts DEF TypeOK, Lawful, SameRef
<1>2. pulse' = NoPulse
  BY DEF EndstopChanges, HostVanishes, DriverHandler, RefreshDriver,
         SnapshotAfterRefresh, DriverFault, CheckTilt, ConfigureDriver,
         InHandler, ConfigureDrivers, QueryDriver
<1>3. CASE DriverFault
  <2> DEFINE t == IF main.axis = "TILT" THEN OnDriverFault(Tilt)
                  ELSE [ref |-> ref, axis |-> Stop(axis[main.axis])]
  <2>1. /\ axis' = [axis EXCEPT ![main.axis] = RequestDisable(t.axis)]
        /\ ref' = t.ref /\ pinDir' = pinDir
    BY <1>3 DEF DriverFault
  <2>2. \/ SameRef(ref, ref')
        \/ LawfulTilt(ref', axis["TILT"]) /\ ref'.operation = "IDLE"
    BY <1>1, <2>1, GiveUpLawful
  <2>3. Calm(axis[main.axis], RequestDisable(t.axis))
    BY <1>1, GiveUpLawful, CalmPrimitives
  <2> HIDE DEF t
  <2>4. \A b \in Axes : Calm(axis[b], axis'[b])
    BY <1>1, <2>1, <2>3, ReplaceCalm
  <2> QED
    BY <1>2, <2>1, <2>2, <2>4, CalmStep
<1>4. CASE ~DriverFault
  <2>1. UNCHANGED <<axis, ref, pinDir>>
    BY <1>4 DEF EndstopChanges, HostVanishes, DriverHandler, RefreshDriver,
                SnapshotAfterRefresh, CheckTilt, ConfigureDriver,
                ConfigureDrivers, QueryDriver
  <2>2. \A b \in Axes : Calm(axis[b], axis'[b])
    BY <2>1, StateParts, CalmPrimitives
  <2> QED
    BY <1>1, <1>2, <2>1, <2>2, CalmStep
<1> QED
  BY <1>3, <1>4

-----------------------------------------------------------------------------
(* The theorems.                                                           *)

LEMMA KeptNext == TypeOK /\ Safe /\ Lawful /\ Next => Kept
<1> SUFFICES ASSUME TypeOK, Safe, Lawful, Next PROVE Kept
  OBVIOUS
<1>1. CASE Tim4Isr
  BY <1>1, IsrMotion DEF Kept
<1>2. CASE EndstopChanges \/ HostVanishes \/ DriverHandler
  BY <1>2, KeptOther
<1>3. CASE HostCommand
  BY <1>3, KeptAxisCommand, KeptBothCommand, KeptTiltCommand, KeptOther
  DEF HostCommand, HandleVelocity, HandleEnable, HandleDisable
<1> QED
  BY <1>1, <1>2, <1>3 DEF Next

LEMMA LawfulInit == Init => Lawful /\ NoEdgeIntoSwitch
BY DEF Init, Lawful, LawfulTilt, HomeLawful, ParkLawful, JogLawful,
       ZeroLawful, Parks, Rested, InitialRef, InitialAxis, Axes,
       NoEdgeIntoSwitch, NoPulse

\* The inductive invariant of the reference, on top of Safe.
THEOREM LawfulAlways ==
    Spec => [](TypeOK /\ Safe /\ Lawful /\ NoEdgeIntoSwitch)
<1>1. Init => TypeOK /\ Safe /\ Lawful /\ NoEdgeIntoSwitch
  BY TypeInit, SafeInit, LawfulInit
<1>2. TypeOK /\ Safe /\ Lawful /\ NoEdgeIntoSwitch /\ [Next]_vars =>
         (TypeOK /\ Safe /\ Lawful /\ NoEdgeIntoSwitch)'
  <2> SUFFICES ASSUME TypeOK, Safe, Lawful, NoEdgeIntoSwitch, [Next]_vars
               PROVE  Lawful' /\ NoEdgeIntoSwitch'
    BY TypeNext, SafeNext
  <2>1. CASE Next
    BY <2>1, KeptNext DEF Kept, NoEdgeIntoSwitch
  <2>2. CASE UNCHANGED vars
    BY <2>2 DEF vars, Lawful, NoEdgeIntoSwitch
  <2> QED
    BY <2>1, <2>2
<1> QED
  BY <1>1, <1>2, PTL DEF Spec

\* What a referenced TILT axis counts and reports is true: it stays above its
\* switch, parks at the step it has counted from there, owes a jog no more
\* than there is room for, and reports the limit exactly at zero.
THEOREM ReferenceKept == Spec => []ReferenceIsKept
<1>1. TypeOK /\ Lawful => ReferenceIsKept
  <2> SUFFICES ASSUME TypeOK, Lawful PROVE ReferenceIsKept
    OBVIOUS
  <2>1. /\ HomeLawful(ref) /\ ParkLawful(ref, axis["TILT"])
        /\ JogLawful(ref, axis["TILT"]) /\ ZeroLawful(ref, axis["TILT"])
    BY DEF Lawful, LawfulTilt
  <2>2. HomingIsBounded /\ MinLimitReportsZero
    BY <2>1 DEF HomingIsBounded, MinLimitReportsZero, Referenced, Parking,
                HomeLawful, ParkLawful, ZeroLawful, Parks
  <2>3. Parks(ref) => axis["TILT"].position >= 0
    BY <2>1, RefParts DEF TypeOK, ParkLawful
  <2> QED
    BY <2>1, <2>2, <2>3
    DEF ReferenceIsKept, HomedNeverBelowZero, Referenced, Parking, Parks,
        JogLawful, ZeroLawful
<1> QED
  BY <1>1, LawfulAlways, PTL

\* No STEP edge reaches the coil driver towards the pressed switch.
THEOREM NeverIntoSwitch == Spec => []NoEdgeIntoSwitch
BY LawfulAlways, PTL

\* Every reversal of an axis comes to rest first, and DIR turns only there.
THEOREM ReversesAtRest == Spec => ReversalPassesThroughRest
<1>1. TypeOK /\ Safe /\ Lawful /\ [Next]_vars =>
        [\A a \in Axes :
            /\ ~Opposed(axis[a].velocity, axis'[a].velocity)
            /\ pinDir'[a] # pinDir[a] => axis[a].velocity = 0 /\ pulse'[a] = 0
        ]_vars
  BY KeptNext DEF Kept, Reverses
<1> QED
  BY <1>1, LawfulAlways, PTL DEF Spec, ReversalPassesThroughRest

\* The counted position is the sum of the STEP edges.
THEOREM CountsEveryEdge == Spec => PositionCountsEdges
<1>1. TypeOK /\ Safe /\ Lawful /\ [Next]_vars =>
        [\A a \in Axes :
            LET p == axis[a].position
            IN  Oriented(a) =>
                   \/ axis'[a].position = Counted(p, pulse'[a])
                   \/ a = "TILT" /\ endstop /\ axis'[a].position = pulse'[a]
        ]_vars
  BY KeptNext DEF Kept, Counts
<1> QED
  BY <1>1, LawfulAlways, PTL DEF Spec, PositionCountsEdges

\* Every step of a jog is paid for, and only giving it up forgets the rest.
THEOREM JogAccounts == Spec => JogAccountsEveryStep
<1>1. TypeOK /\ Safe /\ Lawful /\ [Next]_vars =>
        [ref.operation = "JOGGING" =>
            LET moved == axis'["TILT"].position - axis["TILT"].position
                paid  == ref.remaining - ref'.remaining
            IN  \/ moved = (IF ref.forward THEN paid ELSE -paid)
                \/ moved = 0 /\ ref'.operation = "IDLE"
        ]_vars
  BY KeptNext DEF Kept, Accounts
<1> QED
  BY <1>1, LawfulAlways, PTL DEF Spec, JogAccountsEveryStep
=============================================================================
