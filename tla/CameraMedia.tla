----------------------------- MODULE CameraMedia -----------------------------
(***************************************************************************)
(* The camera service and the storage behind it, across restarts: a save   *)
(* runs while the thread that took the picture holds the operation lock,   *)
(* and the process may be killed at any moment (CameraService._capture_    *)
(* locked, MediaStorage.save_capture).                                     *)
(***************************************************************************)
EXTENDS CameraService, CaptureStorage

CONSTANT MaxKills       \* bound: how often the process is killed

ASSUME KillsAssumption == MaxKills \in Nat

VARIABLE kills

service == vars
media == <<vars, storage, kills>>

Saver(t) == At(t, "SAVING")
Begins(t) == ~Saver(t) /\ Saver(t)'
Ends(t) == Saver(t) /\ ~Saver(t)'

MediaInit == Init /\ StorageInit /\ kills = 0

\* StorageLowError and every other error reach the worker as what they are.
Handed(t) == TakeResult /\ (t = "WORKER" => (At(t, "LOW")' <=> saving = "LOW"))

ServiceStep ==
    /\ Next
    /\ \/ \E t \in Photographers : Begins(t) /\ BeginSave
       \/ \E t \in Photographers : Ends(t) /\ Handed(t)
       \/ (\A t \in Photographers : ~Begins(t) /\ ~Ends(t)) /\ UNCHANGED storage
    /\ UNCHANGED kills

StorageStep == SaveStep /\ UNCHANGED <<vars, kills>>

\* A new process starts with the files of the old one.
Restarted ==
    /\ running' = FALSE /\ shutdown' = FALSE /\ recording' = FALSE
    /\ dataset' = FALSE /\ stream' = FALSE /\ record' = FALSE
    /\ lock' = "NOBODY" /\ failed' = FALSE /\ quiet' = FALSE
    /\ pc' = [t \in Threads |-> CASE t = "WORKER" -> "NEW"
                                  [] t = "MAIN" -> "STARTING"
                                  [] OTHER -> "IDLE"]
Kill ==
    /\ kills < MaxKills
    /\ kills' = kills + 1
    /\ Restarted /\ Killed

MediaNext == ServiceStep \/ StorageStep \/ Kill

MediaSpec ==
    /\ MediaInit /\ [][MediaNext]_media
    /\ WF_media(Worker /\ ServiceStep) /\ WF_media(Release /\ ServiceStep)
    /\ WF_media(StorageStep)
    /\ \A c \in Clients : WF_media(Answer(c) /\ ServiceStep)

-----------------------------------------------------------------------------
(***************************************************************************)
(* A save is under way exactly while one thread is saving, and that thread *)
(* holds the operation lock: two saves never mix their steps, and a result *)
(* never reaches a caller of another picture (_capture_locked).            *)
(***************************************************************************)
OneSaveAtATime ==
    \A t \in Photographers : Saver(t) <=> saving # "IDLE" /\ lock = t

(***************************************************************************)
(* What was photographed stays, and is listed truly: no save disturbs      *)
(* another, takes its name or enters what is not there.                    *)
(***************************************************************************)
MediaIsKept == OneSaveAtATime /\ NothingOverwritten /\ TableTellsTruth
=============================================================================
