---------------------------- MODULE VisionService ----------------------------
(***************************************************************************)
(* The vision service of the camera host (host/vision/vision_service.py):  *)
(* HTTP threads enable and disable it, one worker thread runs the          *)
(* detector, and the main thread starts and closes it.                     *)
(*   A section under _state_lock is one action; the model is loaded under  *)
(* _model_lock and the detector runs under no lock at all.  _condition is  *)
(* modelled with its notifications: a sleeping worker wakes only when it   *)
(* is notified.  Timing values and log lines are left out.                 *)
(***************************************************************************)
EXTENDS Tracking

CONSTANTS
    Callers,            \* the threads that may call enable at the same time
    GenerationBound     \* bound: no new call once the generation is this high

ASSUME VisionAssumption == GenerationBound \in Nat /\ "NOBODY" \notin Callers

VARIABLES
    enabled, shutdown, generation, snapshot, error,
    present,        \* _tracking._target_was_present
    detector,       \* _detector is not None
    modelLock,      \* the caller that holds _model_lock
    worker,         \* where the worker is, its generation and its result
    call,           \* where each enable is, and its request_generation
    main,           \* the main thread: STARTING, SERVING, JOINING, CLOSED
    fresh,          \* history: nothing was switched since the worker's frame
    overtaken       \* history: the enables a disable or close came after

switch == <<enabled, generation, snapshot, present, error>>
threads == <<worker, call, main>>
vars == <<switch, shutdown, detector, modelLock, threads, fresh, overtaken>>

WorkerPcs == {"NEW", "TOP", "ASLEEP", "INFER", "PUBLISH", "FAIL", "PACE", "DEAD"}
CallPcs == {"IDLE", "LOCK", "LOAD", "COMMIT"}
Workers == [pc : WorkerPcs, generation : Nat, result : Frames \cup {<< >>}]
Calls == [pc : CallPcs, generation : Nat]

At(pc) == worker.pc = pc
Moves(pc) == worker' = [worker EXCEPT !.pc = pc]
CallAt(c, pc) == call[c].pc = pc
CallMoves(c, pc) == call' = [call EXCEPT ![c].pc = pc]

Init ==
    /\ enabled = FALSE /\ shutdown = FALSE /\ generation = 0
    /\ snapshot = Searching /\ present = FALSE /\ error = "NONE"
    /\ detector = FALSE /\ modelLock = "NOBODY"
    /\ worker = [pc |-> "NEW", generation |-> 0, result |-> << >>]
    /\ call = [c \in Callers |-> [pc |-> "IDLE", generation |-> 0]]
    /\ main = "STARTING" /\ fresh = FALSE /\ overtaken = {}

-----------------------------------------------------------------------------
\* What enable, disable, close and a failing worker have in common.
SameGeneration == generation' = generation      \* mutant: no new generation
NextGeneration == generation' = generation + 1

KeepsTarget == snapshot' = Searching /\ UNCHANGED present   \* mutant
ResetTracking == snapshot' = Searching /\ present' = FALSE

WakesNobody(w) == w                 \* mutant: notify_all is missing
Notified(w) == IF w.pc = "ASLEEP" THEN [w EXCEPT !.pc = "TOP"] ELSE w

Switched == NextGeneration /\ ResetTracking /\ fresh' = FALSE

Overtakes == overtaken' = {c \in Callers : ~CallAt(c, "IDLE")}

-----------------------------------------------------------------------------
\* enable: the request, the model under its own lock, the decision.  Requests
\* come once the HTTP server runs, also while the service is being closed.
Served == main # "STARTING" /\ generation < GenerationBound

StartEnable(c) ==
    /\ CallAt(c, "IDLE") /\ Served
    /\ ~shutdown /\ ~enabled
    /\ call' = [call EXCEPT ![c] = [pc |-> "LOCK", generation |-> generation]]
    /\ overtaken' = overtaken \ {c}
    /\ UNCHANGED <<switch, shutdown, detector, modelLock, worker, main, fresh>>

NoLock == TRUE                      \* mutant: two callers load at once
ModelIsFree == modelLock = "NOBODY"

AcquireModel(c) ==
    /\ CallAt(c, "LOCK") /\ ModelIsFree
    /\ IF detector THEN CallMoves(c, "COMMIT") /\ UNCHANGED modelLock
                   ELSE CallMoves(c, "LOAD") /\ modelLock' = c
    /\ UNCHANGED <<switch, shutdown, detector, worker, main, fresh, overtaken>>

\* No model is configured, or it cannot be loaded: enable raises.
LoadFails(c) ==
    /\ CallAt(c, "LOAD")
    /\ error' = "LOAD" /\ modelLock' = "NOBODY"
    /\ CallMoves(c, "IDLE")
    /\ UNCHANGED <<enabled, generation, snapshot, present, shutdown, detector,
                   worker, main, fresh, overtaken>>

LoadSucceeds(c) ==
    /\ CallAt(c, "LOAD")
    /\ detector' = TRUE /\ error' = "NONE" /\ modelLock' = "NOBODY"
    /\ CallMoves(c, "COMMIT")
    /\ UNCHANGED <<enabled, generation, snapshot, present, shutdown, worker,
                   main, fresh, overtaken>>

StillRequested(c) == generation = call[c].generation

Commit(c) ==
    /\ CallAt(c, "COMMIT")
    /\ CallMoves(c, "IDLE")
    /\ IF ~shutdown /\ ~enabled /\ StillRequested(c)
       THEN /\ enabled' = TRUE /\ error' = "NONE"
            /\ Switched
            /\ worker' = Notified(worker)
       ELSE UNCHANGED <<switch, worker, fresh>>
    /\ UNCHANGED <<shutdown, detector, modelLock, main, overtaken>>

Disable ==
    /\ Served
    /\ enabled' = FALSE
    /\ Switched /\ Overtakes
    /\ worker' = Notified(worker)
    /\ UNCHANGED <<error, shutdown, detector, modelLock, call, main>>

-----------------------------------------------------------------------------
\* The main thread.
Start ==
    /\ main = "STARTING" /\ main' = "SERVING"
    /\ Moves("TOP")
    /\ UNCHANGED <<switch, shutdown, detector, modelLock, call, fresh, overtaken>>

\* Also when the camera did not start and vision was never started.
Close ==
    /\ main \in {"STARTING", "SERVING"} /\ main' = "JOINING"
    /\ shutdown' = TRUE /\ enabled' = FALSE
    /\ Switched /\ Overtakes
    /\ worker' = Notified(worker)
    /\ UNCHANGED <<error, detector, modelLock, call>>

Joined ==
    /\ main = "JOINING" /\ worker.pc \in {"NEW", "DEAD"}
    /\ main' = "CLOSED"
    /\ UNCHANGED <<switch, shutdown, detector, modelLock, worker, call, fresh,
                   overtaken>>

-----------------------------------------------------------------------------
\* The worker.
Wanted == shutdown \/ enabled

WorkerStep == UNCHANGED <<shutdown, detector, modelLock, call, main, overtaken>>

Sleep == /\ At("TOP") /\ ~Wanted /\ Moves("ASLEEP")
         /\ WorkerStep /\ UNCHANGED <<switch, fresh>>

Exit == /\ At("TOP") /\ Wanted /\ shutdown /\ Moves("DEAD")
        /\ WorkerStep /\ UNCHANGED <<switch, fresh>>

Begin ==
    /\ At("TOP") /\ Wanted /\ ~shutdown
    /\ worker' = [worker EXCEPT !.generation = generation,
                                !.pc = IF detector THEN "INFER" ELSE "FAIL"]
    /\ fresh' = TRUE
    /\ WorkerStep /\ UNCHANGED switch

\* The camera gives a frame and the detector its detections, or one raises.
Infer ==
    /\ At("INFER")
    /\ \/ \E ds \in Frames :
            worker' = [worker EXCEPT !.pc = "PUBLISH", !.result = ds]
       \/ Moves("FAIL")
    /\ WorkerStep /\ UNCHANGED <<switch, fresh>>

Current == worker.generation = generation

Done(pc) == worker' = [worker EXCEPT !.pc = pc, !.result = << >>]

PublishResult ==
    /\ At("PUBLISH")
    /\ IF shutdown \/ ~enabled \/ ~Current
       THEN Done("TOP") /\ UNCHANGED <<snapshot, present>>
       ELSE /\ Done("PACE")
            /\ snapshot' = Update(present, worker.result)
            /\ present' = (Select(worker.result) # NoTarget)
    /\ WorkerStep /\ UNCHANGED <<enabled, generation, error, fresh>>

FailActiveGeneration ==
    /\ At("FAIL") /\ Moves("TOP")
    /\ IF Current /\ enabled
       THEN enabled' = FALSE /\ error' = "WORKER" /\ Switched
       ELSE UNCHANGED <<switch, fresh>>
    /\ WorkerStep

\* The pause between two frames ends by its timeout or a notification.
Pace == /\ At("PACE") /\ Moves("TOP")
        /\ WorkerStep /\ UNCHANGED <<switch, fresh>>

Worker == \/ Sleep \/ Exit \/ Begin \/ Infer \/ PublishResult
          \/ FailActiveGeneration \/ Pace

-----------------------------------------------------------------------------
EnableCall(c) == \/ AcquireModel(c) \/ LoadFails(c) \/ LoadSucceeds(c)
                 \/ Commit(c)

Next == \/ \E c \in Callers : StartEnable(c) \/ EnableCall(c)
        \/ Disable \/ Start \/ Close \/ Joined \/ Worker

\* Threads are scheduled, and the camera and the detector answer.
Spec == Init /\ [][Next]_vars /\ WF_vars(Worker) /\ WF_vars(Joined)

-----------------------------------------------------------------------------
TypeOK ==
    /\ enabled \in BOOLEAN /\ shutdown \in BOOLEAN /\ generation \in Nat
    /\ snapshot \in Snapshots /\ error \in {"NONE", "LOAD", "WORKER"}
    /\ present \in BOOLEAN /\ detector \in BOOLEAN
    /\ modelLock \in Callers \cup {"NOBODY"}
    /\ worker \in Workers /\ call \in [Callers -> Calls]
    /\ main \in {"STARTING", "SERVING", "JOINING", "CLOSED"}
    /\ fresh \in BOOLEAN /\ overtaken \in SUBSET Callers

(***************************************************************************)
(* Enabled vision has a detector, is not closed and shows no error: the    *)
(* error of one failed load never lands on a service another caller        *)
(* enabled, and the worker never finds the detector missing (enable,       *)
(* _ensure_detector, _worker).                                             *)
(***************************************************************************)
EnabledIsHealthy == enabled => detector /\ ~shutdown /\ error = "NONE"

(***************************************************************************)
(* A result is published only if nothing was switched since the worker     *)
(* took its frame: no target of an earlier enabled period shows up after a *)
(* disable and an enable (_worker).                                        *)
(***************************************************************************)
NothingStale ==
    [][snapshot' # snapshot /\ snapshot'.ofFrame => fresh]_vars

(***************************************************************************)
(* A disable that returns while the model is being loaded wins: the enable *)
(* it overtook does not switch vision on (enable).                         *)
(***************************************************************************)
DisableWins ==
    [][\A c \in Callers :
          ~enabled /\ enabled' /\ call'[c] # call[c] => c \notin overtaken]_vars

(***************************************************************************)
(* The last word about the switch holds, for the worker and its frame as   *)
(* for an enable and its model.                                            *)
(***************************************************************************)
SwitchesHold == NothingStale /\ DisableWins

(***************************************************************************)
(* The service promises what TrackingService says.                         *)
(***************************************************************************)
Service == INSTANCE TrackingService WITH closed <- shutdown
TrackingImplemented == Service!ServiceSpec

(***************************************************************************)
(* close returns: the worker leaves its wait, its pause or its frame.      *)
(***************************************************************************)
CloseReturns == main = "JOINING" ~> main = "CLOSED"

(***************************************************************************)
(* Enabled vision shows a frame before long, or is switched off: the       *)
(* worker does not sleep through the enable (enable, _worker).             *)
(***************************************************************************)
EnabledIsServed == enabled ~> snapshot.ofFrame \/ ~enabled

(***************************************************************************)
(* Nobody waits for ever: not the closing thread, not a client for its     *)
(* first frame.                                                            *)
(***************************************************************************)
NobodyWaitsForEver == CloseReturns /\ EnabledIsServed
=============================================================================
