---------------------------- MODULE VisionProofs ----------------------------
(***************************************************************************)
(* Proofs about VisionService, for every set of callers, every frame and   *)
(* every selection of detections.                                          *)
(*   The argument: a generation read earlier that still equals the current *)
(* one means that nothing was switched in between, which makes a published *)
(* result fresh and an enable current; a caller that loads holds the model *)
(* lock while there is no detector, so no error can reach an enabled       *)
(* service; and the flag of the tracking state machine always says whether *)
(* the snapshot shows a target.                                            *)
(***************************************************************************)
EXTENDS VisionService, WellFoundedInduction, TLAPS

\* Each thread's memory of a generation.
GenerationsAgree ==
    /\ worker.generation <= generation
    /\ worker.pc \in {"INFER", "PUBLISH"} /\ Current => fresh
    /\ \A c \in Callers :
          /\ call[c].generation <= generation
          /\ c \in overtaken /\ ~CallAt(c, "IDLE")
                => call[c].generation < generation

\* Who loads, and what an enabled service has.
LoadsAgree ==
    /\ \A c \in Callers : CallAt(c, "LOAD") => modelLock = c /\ ~detector
    /\ \A c \in Callers : CallAt(c, "COMMIT") => detector
    /\ EnabledIsHealthy

\* The tracking memory and the snapshot.
TrackingAgrees ==
    /\ present <=> snapshot.target # NoTarget
    /\ ~enabled => snapshot = Searching
    /\ At("PUBLISH") => worker.result \in Frames

Inv == TypeOK /\ GenerationsAgree /\ LoadsAgree /\ TrackingAgrees

-----------------------------------------------------------------------------
\* The selection.

\* A well-founded relation has a minimal element in every set that is not empty.
LEMMA MinimalElements ==
    ASSUME NEW R, NEW S, IsWellFoundedOn(R, S)
    PROVE  \A T : T \subseteq S /\ T # {}
                 => \E x \in T : \A y \in T : ~ (<<y, x>> \in R)
BY WFMin, Zenon

\* A set of numbers has a least one.
LEMMA LeastNumber ==
    ASSUME NEW T, T \subseteq Nat, T # {}
    PROVE  \E x \in T : \A y \in T : x <= y
<1> DEFINE R == OpToRel(<, Nat)
<1>1. \E x \in T : \A y \in T : ~ (<<y, x>> \in R)
  BY NatLessThanWellFounded, MinimalElements, Zenon
<1>2. PICK x \in T : \A y \in T : ~ (<<y, x>> \in R)  BY <1>1
<1>3. \A y \in T : x <= y
  <2> TAKE y \in T
  <2>1. x \in Nat /\ y \in Nat  OBVIOUS
  <2>2. ~ (<<y, x>> \in R)  BY <1>2
  <2>3. y < x => <<y, x>> \in R  BY <2>1 DEF OpToRel
  <2>4. ~ (y < x)  BY <2>2, <2>3
  <2> HIDE DEF R
  <2> QED BY <2>1, <2>4, SMT
<1> QED BY <1>3

\* The frame that leads is there: the least index of the least doubt.
LEMMA LeaderExists ==
    ASSUME NEW ds \in Frames, Eligible(ds) # {}
    PROVE  \E i \in Eligible(ds) : Leads(ds, i)
<1> DEFINE Doubt(i) == MaxConfidence - ds[i].confidence
           Doubts == {Doubt(i) : i \in Eligible(ds)}
<1>1. ds \in Seq(Detections)  BY TrackingAssumption
<1>2. \A i \in Eligible(ds) : i \in Nat /\ ds[i] \in Detections
  BY <1>1 DEF Eligible
<1>3. \A i \in Eligible(ds) : ds[i].confidence \in 0 .. MaxConfidence
  BY <1>2, TrackingAssumption
<1>4. MaxConfidence \in Nat  BY TrackingAssumption
<1>5. Doubts \subseteq Nat /\ Doubts # {}  BY <1>3, <1>4
<1>6. PICK least \in Doubts : \A doubt \in Doubts : least <= doubt
  <2> HIDE DEF Doubts
  <2> QED BY <1>5, LeastNumber
<1> DEFINE Best == {i \in Eligible(ds) : Doubt(i) = least}
<1>7. Best \subseteq Nat /\ Best # {}  BY <1>2
<1>8. PICK first \in Best : \A i \in Best : first <= i
  <2> HIDE DEF Best
  <2> QED BY <1>7, LeastNumber
<1>9. ASSUME NEW j \in Eligible(ds)
      PROVE  /\ ds[j].confidence <= ds[first].confidence
             /\ j < first => ds[j].confidence < ds[first].confidence
  <2>1. Doubt(first) <= Doubt(j)  BY <1>6, <1>8
  <2>2. j < first => Doubt(j) # Doubt(first)  BY <1>2, <1>8
  <2>3. /\ ds[j].confidence \in Nat /\ ds[first].confidence \in Nat
    BY <1>3, <1>4
  <2> QED BY <2>1, <2>2, <2>3, <1>4
<1> QED BY <1>9 DEF Leads

\* What is selected is one of the most confident detections of its class.
LEMMA SelectIsCandidate ==
    ASSUME NEW ds \in Frames, Eligible(ds) # {}
    PROVE  /\ Select(ds) \in Detections /\ Select(ds) # NoTarget
           /\ Select(ds) \in Service!Candidates(ds)
<1> DEFINE i == CHOOSE k \in Eligible(ds) : Leads(ds, k)
<1>1. i \in Eligible(ds) /\ Leads(ds, i)  BY LeaderExists
<1>2. Select(ds) = ds[i]  BY DEF Select
<1> HIDE DEF i
<1>3. ds \in Seq(Detections)  BY TrackingAssumption
<1>4. ds[i] \in Detections  BY <1>1, <1>3 DEF Eligible
<1>5. \A j \in Eligible(ds) : ds[j].confidence <= ds[i].confidence
  BY <1>1 DEF Leads
<1>6. Eligible(ds) = Service!Eligible(ds)
  BY DEF Eligible, Service!Eligible
<1>7. ds[i] \in Service!Candidates(ds)
  BY <1>1, <1>5, <1>6 DEF Service!Candidates
<1> QED BY <1>2, <1>4, <1>7, TrackingAssumption

LEMMA NothingSelected ==
    ASSUME NEW ds, Eligible(ds) = {}
    PROVE  Select(ds) = NoTarget
BY DEF Select

-----------------------------------------------------------------------------
\* The invariant.

LEMMA UpdateIsSnapshot ==
    ASSUME NEW ds \in Frames
    PROVE  Update(present, ds) \in Snapshots
<1>1. CASE Eligible(ds) = {}
  BY <1>1, NothingSelected DEF Update, Blank, Snapshots, States
<1>2. CASE Eligible(ds) # {}
  BY <1>2, SelectIsCandidate DEF Update, Snapshots, States
<1> QED BY <1>1, <1>2

LEMMA SearchingIsSnapshot ==
    Searching \in Snapshots /\ Searching.target = NoTarget /\ ~Searching.ofFrame
BY DEF Searching, Blank, Snapshots, States

LEMMA InitInv == Init => Inv
<1> SUFFICES ASSUME Init PROVE Inv  OBVIOUS
<1> USE DEF Init
<1>1. worker \in Workers /\ call \in [Callers -> Calls]
  BY DEF Workers, Calls, WorkerPcs, CallPcs
<1>2. TypeOK  BY <1>1, SearchingIsSnapshot DEF TypeOK
<1>3. GenerationsAgree  BY DEF GenerationsAgree, CallAt
<1>4. LoadsAgree  BY DEF LoadsAgree, EnabledIsHealthy, CallAt
<1>5. TrackingAgrees  BY SearchingIsSnapshot DEF TrackingAgrees, At
<1> QED BY <1>2, <1>3, <1>4, <1>5 DEF Inv

\* What a thread's next place leaves of its type.
LEMMA CallMovesType ==
    ASSUME TypeOK, NEW c \in Callers, NEW pc \in CallPcs, CallMoves(c, pc)
    PROVE  call' \in [Callers -> Calls]
BY DEF TypeOK, CallMoves, Calls

LEMMA NotifiedType ==
    ASSUME TypeOK  PROVE Notified(worker) \in Workers
BY DEF TypeOK, Notified, Workers, WorkerPcs

LEMMA SwitchedType ==
    ASSUME TypeOK, Switched
    PROVE  /\ generation' \in Nat /\ snapshot' \in Snapshots
           /\ present' \in BOOLEAN /\ fresh' \in BOOLEAN
<1> USE DEF Switched
<1>1. generation' \in Nat  BY DEF TypeOK, NextGeneration
<1>2. snapshot' \in Snapshots  BY SearchingIsSnapshot DEF ResetTracking
<1>3. present' \in BOOLEAN /\ fresh' \in BOOLEAN  BY DEF ResetTracking
<1> QED BY <1>1, <1>2, <1>3

\* The callers' steps.
LEMMA StartEnableInv ==
    ASSUME Inv, NEW c \in Callers, StartEnable(c)  PROVE Inv'
<1> USE DEF StartEnable, switch, CallAt
<1>1. TypeOK'
  <2>1. call' \in [Callers -> Calls]  BY DEF Inv, TypeOK, Calls, CallPcs
  <2> QED BY <2>1 DEF Inv, TypeOK
<1>2. GenerationsAgree'  BY DEF Inv, TypeOK, Workers, Calls, GenerationsAgree, Current
<1>3. LoadsAgree'  BY DEF Inv, TypeOK, Calls, LoadsAgree, EnabledIsHealthy
<1>4. TrackingAgrees'  BY DEF Inv, TrackingAgrees, At
<1> QED BY <1>1, <1>2, <1>3, <1>4 DEF Inv

LEMMA AcquireModelInv ==
    ASSUME Inv, NEW c \in Callers, AcquireModel(c)  PROVE Inv'
<1> USE VisionAssumption
    DEF AcquireModel, ModelIsFree, switch, CallAt, CallMoves
<1>1. TypeOK'
  <2>1. call' \in [Callers -> Calls]  BY CallMovesType DEF Inv, CallPcs
  <2> QED BY <2>1 DEF Inv, TypeOK
<1>2. GenerationsAgree'  BY DEF Inv, TypeOK, Workers, Calls, GenerationsAgree, Current
<1>3. LoadsAgree'  BY DEF Inv, TypeOK, Calls, LoadsAgree, EnabledIsHealthy
<1>4. TrackingAgrees'  BY DEF Inv, TrackingAgrees, At
<1> QED BY <1>1, <1>2, <1>3, <1>4 DEF Inv

LEMMA LoadFailsInv ==
    ASSUME Inv, NEW c \in Callers, LoadFails(c)  PROVE Inv'
<1> USE VisionAssumption DEF LoadFails, CallAt, CallMoves
<1>1. TypeOK'
  <2>1. call' \in [Callers -> Calls]  BY CallMovesType DEF Inv, CallPcs
  <2> QED BY <2>1 DEF Inv, TypeOK
<1>2. GenerationsAgree'  BY DEF Inv, TypeOK, Workers, Calls, GenerationsAgree, Current
<1>3. LoadsAgree'  BY DEF Inv, TypeOK, Calls, LoadsAgree, EnabledIsHealthy
<1>4. TrackingAgrees'  BY DEF Inv, TrackingAgrees, At
<1> QED BY <1>1, <1>2, <1>3, <1>4 DEF Inv

LEMMA LoadSucceedsInv ==
    ASSUME Inv, NEW c \in Callers, LoadSucceeds(c)  PROVE Inv'
<1> USE VisionAssumption DEF LoadSucceeds, CallAt, CallMoves
<1>1. TypeOK'
  <2>1. call' \in [Callers -> Calls]  BY CallMovesType DEF Inv, CallPcs
  <2> QED BY <2>1 DEF Inv, TypeOK
<1>2. GenerationsAgree'  BY DEF Inv, TypeOK, Workers, Calls, GenerationsAgree, Current
<1>3. LoadsAgree'  BY DEF Inv, TypeOK, Calls, LoadsAgree, EnabledIsHealthy
<1>4. TrackingAgrees'  BY DEF Inv, TrackingAgrees, At
<1> QED BY <1>1, <1>2, <1>3, <1>4 DEF Inv

\* An enable commits, or finds that it is too late.
LEMMA CommitInv ==
    ASSUME Inv, NEW c \in Callers, Commit(c)  PROVE Inv'
<1> USE DEF Commit, CallAt, CallMoves
<1>1. CASE UNCHANGED <<switch, worker, fresh>>
  <2> USE DEF switch
  <2>1. TypeOK'
    <3>1. call' \in [Callers -> Calls]  BY CallMovesType DEF Inv, CallPcs
    <3> QED BY <1>1, <3>1 DEF Inv, TypeOK
  <2>2. GenerationsAgree'  BY <1>1 DEF Inv, TypeOK, Workers, Calls, GenerationsAgree, Current
  <2>3. LoadsAgree'  BY <1>1 DEF Inv, TypeOK, Calls, LoadsAgree, EnabledIsHealthy
  <2>4. TrackingAgrees'  BY <1>1 DEF Inv, TrackingAgrees, At
  <2> QED BY <2>1, <2>2, <2>3, <2>4 DEF Inv
<1>2. CASE /\ ~shutdown /\ enabled' = TRUE /\ error' = "NONE" /\ Switched
           /\ worker' = Notified(worker)
  <2>1. TypeOK'
    <3>1. call' \in [Callers -> Calls]  BY CallMovesType DEF Inv, CallPcs
    <3>2. worker' \in Workers  BY <1>2, NotifiedType DEF Inv
    <3>3. /\ generation' \in Nat /\ snapshot' \in Snapshots
          /\ present' \in BOOLEAN /\ fresh' \in BOOLEAN
      BY <1>2, SwitchedType DEF Inv
    <3> QED BY <1>2, <3>1, <3>2, <3>3 DEF Inv, TypeOK
  <2> USE SearchingIsSnapshot
      DEF Switched, NextGeneration, ResetTracking, Notified
  <2>2. GenerationsAgree'  BY <1>2 DEF Inv, TypeOK, Workers, Calls, GenerationsAgree, Current
  <2>3. LoadsAgree'  BY <1>2 DEF Inv, TypeOK, Calls, LoadsAgree, EnabledIsHealthy
  <2>4. TrackingAgrees'  BY <1>2 DEF Inv, TypeOK, Workers, TrackingAgrees, At
  <2> QED BY <2>1, <2>2, <2>3, <2>4 DEF Inv
<1> QED BY <1>1, <1>2

\* What disable and close do to every thread.
LEMMA SwitchOffInv ==
    ASSUME Inv, Disable \/ Close  PROVE Inv'
<1>1. /\ enabled' = FALSE /\ Switched /\ Overtakes
      /\ worker' = Notified(worker)
      /\ shutdown' \in {shutdown, TRUE} /\ UNCHANGED <<error, detector, modelLock, call>>
      /\ main' \in {main, "JOINING"}
  BY DEF Disable, Close
<1>2. TypeOK'
  <2>1. worker' \in Workers  BY <1>1, NotifiedType DEF Inv
  <2>2. /\ generation' \in Nat /\ snapshot' \in Snapshots
        /\ present' \in BOOLEAN /\ fresh' \in BOOLEAN
    BY <1>1, SwitchedType DEF Inv
  <2>3. overtaken' \in SUBSET Callers  BY <1>1 DEF Overtakes
  <2> QED BY <1>1, <2>1, <2>2, <2>3 DEF Inv, TypeOK
<1> USE SearchingIsSnapshot
    DEF Switched, NextGeneration, ResetTracking, Notified, Overtakes
<1>3. GenerationsAgree'
  BY <1>1 DEF Inv, TypeOK, Workers, Calls, GenerationsAgree, Current, CallAt
<1>4. LoadsAgree'  BY <1>1 DEF Inv, LoadsAgree, EnabledIsHealthy, CallAt
<1>5. TrackingAgrees'  BY <1>1 DEF Inv, TypeOK, Workers, TrackingAgrees, At
<1> QED BY <1>2, <1>3, <1>4, <1>5 DEF Inv

\* The worker moves on, and perhaps remembers something.
LEMMA WorkerMovesInv ==
    ASSUME Inv, Sleep \/ Exit \/ Begin \/ Infer \/ Pace \/ Start \/ Joined
    PROVE  Inv'
<1> USE DEF At, Moves
<1>1. /\ UNCHANGED <<switch, shutdown, detector, modelLock, call, overtaken>>
      /\ main' \in {main, "SERVING", "CLOSED"} /\ fresh' \in {fresh, TRUE}
  BY DEF Sleep, Exit, Begin, Infer, Pace, Start, Joined, WorkerStep
<1>2. /\ worker' \in Workers
      /\ worker'.generation \in {worker.generation, generation}
      /\ worker'.pc = "PUBLISH" => worker'.result \in Frames
  BY DEF Inv, TypeOK, Workers, WorkerPcs, TrackingAgrees,
         Sleep, Exit, Begin, Infer, Pace, Start, Joined
<1>3. worker'.pc \in {"INFER", "PUBLISH"}
         => \/ fresh'
            \/ /\ worker.pc \in {"INFER", "PUBLISH"} /\ fresh' = fresh
               /\ worker'.generation = worker.generation
  BY DEF Inv, TypeOK, Workers, Sleep, Exit, Begin, Infer, Pace, Start, Joined,
         WorkerStep
<1> USE DEF switch
<1>4. TypeOK'  BY <1>1, <1>2 DEF Inv, TypeOK
<1>5. GenerationsAgree'
  BY <1>1, <1>2, <1>3
     DEF Inv, TypeOK, Workers, GenerationsAgree, Current, CallAt
<1>6. LoadsAgree'  BY <1>1 DEF Inv, LoadsAgree, EnabledIsHealthy, CallAt
<1>7. TrackingAgrees'  BY <1>1, <1>2 DEF Inv, TrackingAgrees
<1> QED BY <1>4, <1>5, <1>6, <1>7 DEF Inv

LEMMA PublishResultInv ==
    ASSUME Inv, PublishResult  PROVE Inv'
<1>1. /\ UNCHANGED <<enabled, generation, error, fresh, shutdown, detector,
                     modelLock, call, main, overtaken>>
      /\ worker.result \in Frames /\ worker.generation = worker'.generation
      /\ worker' \in Workers /\ worker'.pc \in {"TOP", "PACE"}
  BY DEF Inv, TypeOK, TrackingAgrees, PublishResult, Done, WorkerStep, Workers,
         WorkerPcs
<1>2. \/ UNCHANGED <<snapshot, present>>
      \/ /\ enabled /\ snapshot' = Update(present, worker.result)
         /\ present' = (Select(worker.result) # NoTarget)
  BY DEF PublishResult
<1>3. snapshot' \in Snapshots /\ present' \in BOOLEAN
  BY <1>1, <1>2, UpdateIsSnapshot DEF Inv, TypeOK
<1>4. TypeOK'  BY <1>1, <1>3 DEF Inv, TypeOK
<1>5. GenerationsAgree'
  BY <1>1 DEF Inv, TypeOK, Workers, GenerationsAgree, Current, CallAt
<1>6. LoadsAgree'  BY <1>1 DEF Inv, LoadsAgree, EnabledIsHealthy, CallAt
<1>7. Update(present, worker.result).target = Select(worker.result)
  BY DEF Update, Blank
<1>8. present' <=> snapshot'.target # NoTarget
  <2>1. CASE UNCHANGED <<snapshot, present>>
    BY <2>1 DEF Inv, TrackingAgrees
  <2>2. CASE /\ snapshot' = Update(present, worker.result)
             /\ present' = (Select(worker.result) # NoTarget)
    BY <1>7, <2>2, Zenon
  <2> QED BY <1>2, <2>1, <2>2
<1>9. ~enabled' => snapshot' = Searching
  BY <1>1, <1>2 DEF Inv, TrackingAgrees
<1>10. TrackingAgrees'  BY <1>1, <1>8, <1>9 DEF TrackingAgrees, At
<1> QED BY <1>4, <1>5, <1>6, <1>10 DEF Inv

LEMMA FailActiveGenerationInv ==
    ASSUME Inv, FailActiveGeneration  PROVE Inv'
<1>1. /\ UNCHANGED <<shutdown, detector, modelLock, call, main, overtaken>>
      /\ worker' \in Workers /\ worker'.pc = "TOP"
      /\ worker'.generation = worker.generation
  BY DEF Inv, TypeOK, FailActiveGeneration, Moves, WorkerStep, Workers,
         WorkerPcs
<1>2. CASE UNCHANGED <<switch, fresh>>
  <2> USE DEF switch
  <2>1. TypeOK'  BY <1>1, <1>2 DEF Inv, TypeOK
  <2>2. GenerationsAgree'
    BY <1>1, <1>2 DEF Inv, TypeOK, Workers, GenerationsAgree, CallAt
  <2>3. LoadsAgree'  BY <1>1, <1>2 DEF Inv, LoadsAgree, EnabledIsHealthy, CallAt
  <2>4. TrackingAgrees'  BY <1>1, <1>2 DEF Inv, TrackingAgrees, At
  <2> QED BY <2>1, <2>2, <2>3, <2>4 DEF Inv
<1>3. CASE enabled' = FALSE /\ error' = "WORKER" /\ Switched
  <2>1. /\ generation' \in Nat /\ snapshot' \in Snapshots
        /\ present' \in BOOLEAN /\ fresh' \in BOOLEAN
    BY <1>3, SwitchedType DEF Inv
  <2>2. TypeOK'  BY <1>1, <1>3, <2>1 DEF Inv, TypeOK
  <2> USE SearchingIsSnapshot DEF Switched, NextGeneration, ResetTracking
  <2>3. GenerationsAgree'
    BY <1>1, <1>3 DEF Inv, TypeOK, Workers, Calls, GenerationsAgree, CallAt
  <2>4. LoadsAgree'  BY <1>1, <1>3 DEF Inv, LoadsAgree, EnabledIsHealthy, CallAt
  <2>5. TrackingAgrees'  BY <1>1, <1>3 DEF TrackingAgrees, At
  <2> QED BY <2>2, <2>3, <2>4, <2>5 DEF Inv
<1> QED BY <1>2, <1>3 DEF FailActiveGeneration

LEMMA UnchangedInv ==
    ASSUME Inv, UNCHANGED vars  PROVE Inv'
BY DEF vars, switch, threads, Inv, TypeOK, GenerationsAgree, LoadsAgree,
       TrackingAgrees, EnabledIsHealthy, Current, CallAt, At

\* Every step preserves the invariant.
LEMMA NextInv == Inv /\ [Next]_vars => Inv'
<1> SUFFICES ASSUME Inv, [Next]_vars PROVE Inv'  OBVIOUS
<1>1. CASE \E c \in Callers : StartEnable(c) \/ EnableCall(c)
  BY <1>1, StartEnableInv, AcquireModelInv, LoadFailsInv, LoadSucceedsInv,
     CommitInv DEF EnableCall
<1>2. CASE Disable \/ Close  BY <1>2, SwitchOffInv
<1>3. CASE Start \/ Joined  BY <1>3, WorkerMovesInv
<1>4. CASE Worker
  BY <1>4, WorkerMovesInv, PublishResultInv, FailActiveGenerationInv DEF Worker
<1>5. CASE UNCHANGED vars  BY <1>5, UnchangedInv
<1> QED BY <1>1, <1>2, <1>3, <1>4, <1>5 DEF Next

LEMMA SpecInv == Spec => []Inv
BY InitInv, NextInv, PTL DEF Spec

-----------------------------------------------------------------------------
\* The theorems.

(***************************************************************************)
(* Enabled vision has a detector, is not closed and shows no error,        *)
(* whatever the callers and the worker do.                                 *)
(***************************************************************************)
THEOREM Healthy == Spec => []EnabledIsHealthy
BY SpecInv, PTL DEF Inv, LoadsAgree

(***************************************************************************)
(* A published snapshot comes from a frame since which nothing was         *)
(* switched.                                                               *)
(***************************************************************************)
THEOREM Fresh == Spec => NothingStale
<1>1. ASSUME Inv, [Next]_vars, snapshot' # snapshot, snapshot'.ofFrame
      PROVE  fresh
  <2>1. ~ Switched  BY <1>1, SearchingIsSnapshot DEF Switched, ResetTracking
  <2>2. CASE PublishResult
    BY <1>1, <2>2 DEF PublishResult, Inv, GenerationsAgree, At
  <2>3. CASE UNCHANGED snapshot  BY <1>1, <2>3
  <2> QED
    BY <1>1, <2>1, <2>2, <2>3
       DEF Next, EnableCall, Worker, vars, switch, WorkerStep, StartEnable,
           AcquireModel, LoadFails, LoadSucceeds, Commit, Disable, Start, Close,
           Joined, Sleep, Exit, Begin, Infer, FailActiveGeneration, Pace
<1> QED BY <1>1, SpecInv, PTL DEF Spec, NothingStale

(***************************************************************************)
(* No enable that a disable or a close overtook switches vision on.        *)
(***************************************************************************)
THEOREM LastWordWins == Spec => DisableWins
<1>1. ASSUME Inv, [Next]_vars, ~enabled, enabled', NEW c \in Callers,
             call'[c] # call[c]
      PROVE  c \notin overtaken
  <2>1. PICK d \in Callers : Commit(d)
    BY <1>1
       DEF Next, EnableCall, Worker, vars, switch, threads, WorkerStep,
           StartEnable, AcquireModel, LoadFails, LoadSucceeds, Disable, Start,
           Close, Joined, Sleep, Exit, Begin, Infer, PublishResult,
           FailActiveGeneration, Pace
  <2>2. StillRequested(d) /\ CallAt(d, "COMMIT")
    BY <1>1, <2>1 DEF Commit, switch
  <2>3. c = d  BY <1>1, <2>1 DEF Commit, CallMoves, Inv, TypeOK
  <2>4. ~ (call[c].generation < generation)
    BY <2>2, <2>3, <1>1 DEF StillRequested, Inv, TypeOK
  <2> QED BY <1>1, <2>2, <2>3, <2>4
           DEF Inv, GenerationsAgree, CallAt
<1>2. Inv /\ [Next]_vars
        => [\A c \in Callers : ~enabled /\ enabled' /\ call'[c] # call[c]
                                 => c \notin overtaken]_vars
  BY <1>1
<1> QED BY <1>2, SpecInv, PTL DEF Spec, DisableWins

(***************************************************************************)
(* Both together: whoever switched last is obeyed by everyone.             *)
(***************************************************************************)
THEOREM LastSwitchHolds == Spec => SwitchesHold
BY Fresh, LastWordWins DEF SwitchesHold

(***************************************************************************)
(* VisionService, with its worker, its locks and its callers, implements   *)
(* TrackingService.                                                        *)
(***************************************************************************)
THEOREM ImplementsTracking == Spec => TrackingImplemented
<1> DEFINE Promised == Service!TurnOn \/ Service!TurnOff \/ Service!Publish
           promise == <<enabled, shutdown, snapshot>>
<1>1. Init => Service!ServiceInit
  BY DEF Init, Service!ServiceInit, Searching, Service!Searching, Blank,
         Service!Blank
<1>2. Searching = Service!Searching
  BY DEF Searching, Service!Searching, Blank, Service!Blank
<1>3. ASSUME Inv, [Next]_vars  PROVE [Promised]_promise
  <2>1. CASE PublishResult
    <3> DEFINE ds == worker.result
    <3>1. CASE UNCHANGED <<snapshot, present>>
      BY <2>1, <3>1 DEF PublishResult, WorkerStep
    <3>2. CASE enabled /\ snapshot' = Update(present, ds)
      <4>1. ds \in Frames /\ (present <=> snapshot.target # NoTarget)
        BY <1>3, <2>1 DEF Inv, TrackingAgrees, PublishResult
      <4>2. UNCHANGED <<enabled, shutdown>>
        BY <2>1 DEF PublishResult, WorkerStep
      <4>3. Eligible(ds) = Service!Eligible(ds)
        BY DEF Eligible, Service!Eligible
      <4>4. CASE Eligible(ds) = {}
        <5>1. Service!ShowsNothing(ds)
          BY <3>2, <4>3, <4>4, NothingSelected
             DEF Update, Blank, Service!Blank, Service!ShowsNothing
        <5> QED BY <3>2, <4>1, <4>2, <5>1 DEF Service!Publish
      <4>5. CASE Eligible(ds) # {}
        <5>1. /\ Select(ds) \in Service!Candidates(ds)
              /\ Select(ds) # NoTarget
          BY <4>1, <4>5, SelectIsCandidate
        <5>2. Service!Locked(Select(ds)) <=> Locked(Select(ds))
          BY DEF Locked, Service!Locked
        <5>3. Service!ShowsTarget(ds)
          BY <3>2, <4>1, <5>1, <5>2 DEF Update, Service!ShowsTarget
        <5> QED BY <3>2, <4>1, <4>2, <5>3 DEF Service!Publish
      <4> QED BY <4>4, <4>5
    <3> QED BY <2>1, <3>1, <3>2 DEF PublishResult
  <2>2. CASE Disable \/ Close
    BY <1>2, <2>2 DEF Disable, Close, Switched, ResetTracking,
                      Service!TurnOff
  <2>3. CASE FailActiveGeneration
    BY <1>2, <2>3 DEF FailActiveGeneration, Switched, ResetTracking, switch,
                      WorkerStep, Service!TurnOff
  <2>4. CASE \E c \in Callers : Commit(c)
    BY <1>2, <2>4 DEF Commit, Switched, ResetTracking, switch, Service!TurnOn
  <2>5. CASE UNCHANGED promise  BY <2>5
  <2> QED
    BY <1>3, <2>1, <2>2, <2>3, <2>4, <2>5
       DEF Next, EnableCall, Worker, vars, switch, WorkerStep, StartEnable,
           AcquireModel, LoadFails, LoadSucceeds, Start, Joined, Sleep, Exit,
           Begin, Infer, Pace
<1> QED BY <1>1, <1>3, SpecInv, PTL
        DEF Spec, TrackingImplemented, Service!ServiceSpec
=============================================================================
