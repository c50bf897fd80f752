---------------------------- MODULE CameraService ----------------------------
(***************************************************************************)
(* The camera service of the camera host (host/camera/camera_service.py)   *)
(* on the Picamera2 backend (host/camera/picamera2_backend.py): HTTP and   *)
(* vision threads record, take pictures and switch interval capture, one   *)
(* worker takes the interval pictures, and the main thread starts and      *)
(* closes everything.                                                      *)
(*   _operation_lock is held from one action to a later one, because the   *)
(* camera is slow; what happens under _state_lock alone is one action.  A  *)
(* call reads nothing before it holds the lock it needs, so it begins when *)
(* it gets it; a refused call changes nothing and is not an action.        *)
(*   last_error and the frames themselves are left out; what saving does   *)
(* to the disk is CaptureStorage, and CameraMedia puts the two together.   *)
(***************************************************************************)
EXTENDS Naturals

CONSTANT Clients        \* the threads that may call the service

ASSUME CameraAssumption == Clients \cap {"WORKER", "MAIN", "NOBODY"} = {}

VARIABLES
    running, shutdown, recording,
    dataset,        \* _dataset_enabled
    stream,         \* the backend's _stream_encoder is not None
    record,         \* the backend's _record_encoder is not None
    lock,           \* who holds _operation_lock
    pc,             \* where each thread is
    failed,         \* history: the last call that touched the MJPEG encoder failed
    quiet           \* history: a stop_dataset_capture returned, no start since

flags == <<running, shutdown, recording, dataset>>
backend == <<stream, record, failed>>
vars == <<flags, backend, lock, pc, quiet>>

Photographers == Clients \cup {"WORKER"}
Threads == Photographers \cup {"MAIN"}

At(t, place) == pc[t] = place
Moves(t, place) == pc' = [pc EXCEPT ![t] = place]

NoLock == TRUE                          \* mutant: no _operation_lock
LockIsFree == lock = "NOBODY"
Takes(t, place) == lock' = t /\ Moves(t, place)
Leaves(t, place) == lock' = "NOBODY" /\ Moves(t, place)

Notified(p) ==
    IF p["WORKER"] = "ASLEEP" THEN [p EXCEPT !["WORKER"] = "TOP"] ELSE p

\* _require_running_locked
Available == running /\ ~shutdown

Init ==
    /\ running = FALSE /\ shutdown = FALSE /\ recording = FALSE
    /\ dataset = FALSE /\ stream = FALSE /\ record = FALSE
    /\ lock = "NOBODY" /\ failed = FALSE /\ quiet = FALSE
    /\ pc = [t \in Threads |-> CASE t = "WORKER" -> "NEW"
                                 [] t = "MAIN" -> "STARTING"
                                 [] OTHER -> "IDLE"]

-----------------------------------------------------------------------------
\* The backend: the MJPEG encoder may fail to stop, and is gone all the same.
StopStream(works) ==
    /\ stream' = FALSE
    /\ works \/ stream
    /\ failed' = IF works THEN failed ELSE TRUE

StartStream(works) == stream' = works /\ failed' = ~works

\* A picture of the running recording, or one in the sensor's still mode.
Pause(t) == StopStream(TRUE) /\ Takes(t, "NATIVE")

Done(t) == IF t = "WORKER" THEN "AFTER" ELSE "IDLE"

PauseFails(t) == StopStream(FALSE) /\ Moves(t, Done(t)) /\ UNCHANGED lock

Shoot(t) ==
    /\ IF recording THEN Takes(t, "VIDEO") /\ UNCHANGED <<stream, failed>>
                    ELSE Pause(t) \/ PauseFails(t)
    /\ UNCHANGED record

\* mutant: no restart after an error
OnlyAfterPicture(t) == StartStream(TRUE) \/ UNCHANGED <<stream, failed>>

Restart(t) == \/ StartStream(TRUE)
              \/ StartStream(FALSE) /\ ~At(t, "SAVING")'

\* The picture goes to the storage, or the camera fails.
PictureTaken(t) ==
    /\ At(t, "NATIVE") \/ At(t, "VIDEO")
    /\ \/ Moves(t, "SAVING") /\ UNCHANGED lock
       \/ Leaves(t, Done(t))
    /\ IF At(t, "NATIVE") THEN Restart(t) ELSE UNCHANGED <<stream, failed>>
    /\ UNCHANGED <<flags, record, quiet>>

\* The storage has saved it or failed; only the worker minds a full disk.
Stored(t) ==
    /\ At(t, "SAVING")
    /\ \/ Leaves(t, Done(t))
       \/ t = "WORKER" /\ Leaves(t, "LOW")
    /\ UNCHANGED <<flags, backend, quiet>>

-----------------------------------------------------------------------------
\* The callers.
\* Requests come once the camera has started, also while it is being closed.
Idle(c) == At(c, "IDLE") /\ ~At("WORKER", "NEW")

Capture(c) ==
    /\ Idle(c) /\ LockIsFree /\ Available
    /\ Shoot(c)
    /\ UNCHANGED <<flags, quiet>>

GetFrame(c) ==
    /\ Idle(c) /\ LockIsFree /\ Available
    /\ Takes(c, "FRAME")
    /\ UNCHANGED <<flags, backend, quiet>>

GotFrame(c) ==
    /\ At(c, "FRAME") /\ Leaves(c, "IDLE")
    /\ UNCHANGED <<flags, backend, quiet>>

StartRecording(c) ==
    /\ Idle(c) /\ LockIsFree /\ Available
    /\ ~recording
    /\ Takes(c, "START")
    /\ UNCHANGED <<flags, backend, quiet>>

RecordingStarted(c) ==
    /\ At(c, "START") /\ Leaves(c, "IDLE")
    /\ \/ record' = TRUE /\ recording' = TRUE
       \/ UNCHANGED <<record, recording>>
    /\ UNCHANGED <<running, shutdown, dataset, stream, failed, quiet>>

StopRecording(c) ==
    /\ Idle(c) /\ LockIsFree /\ Available
    /\ recording
    /\ Takes(c, "STOP")
    /\ UNCHANGED <<flags, backend, quiet>>

\* The encoder is gone even if it fails; then the service keeps its flag.
RecordingStopped(c) ==
    /\ At(c, "STOP") /\ Leaves(c, "IDLE")
    /\ record' = FALSE
    /\ recording' \in IF record THEN {FALSE, recording} ELSE {FALSE}
    /\ UNCHANGED <<running, shutdown, dataset, stream, failed, quiet>>

StartDataset(c) ==
    /\ Idle(c) /\ Available
    /\ dataset' = TRUE /\ quiet' = FALSE
    /\ pc' = Notified(pc)
    /\ UNCHANGED <<running, shutdown, recording, backend, lock>>

\* stop_dataset_capture switches off, then waits for a picture in progress.
StopDataset(c) ==
    /\ Idle(c)
    /\ dataset' = FALSE
    /\ pc' = [Notified(pc) EXCEPT ![c] = "DRAIN"]
    /\ UNCHANGED <<running, shutdown, recording, backend, lock, quiet>>

NoWait(c) == TRUE                       \* mutant: it returns at once
NoPicture(c) == LockIsFree

DatasetStopped(c) ==
    /\ At(c, "DRAIN") /\ NoPicture(c)
    /\ Moves(c, "IDLE")
    /\ quiet' = ~dataset
    /\ UNCHANGED <<flags, backend, lock>>

-----------------------------------------------------------------------------
\* The worker.
InWorker == UNCHANGED <<flags, backend, lock, quiet>>

OnlyEnabled == dataset                  \* mutant: shutdown does not wake it
Wanted == shutdown \/ dataset

Sleep == At("WORKER", "TOP") /\ ~Wanted /\ Moves("WORKER", "ASLEEP") /\ InWorker
Wake == /\ At("WORKER", "TOP") /\ Wanted
        /\ Moves("WORKER", IF shutdown THEN "DEAD" ELSE "ENTER")
        /\ InWorker

TooLate ==
    /\ At("WORKER", "ENTER") /\ LockIsFree
    /\ ~Available \/ ~dataset
    /\ Moves("WORKER", IF Available THEN "TOP" ELSE "DEAD")
    /\ InWorker

TakeInterval ==
    /\ At("WORKER", "ENTER") /\ LockIsFree
    /\ Available /\ dataset
    /\ \/ Shoot("WORKER")
       \/ Moves("WORKER", "LOW") /\ UNCHANGED <<backend, lock>>
    /\ UNCHANGED <<flags, quiet>>

StorageLow ==
    /\ At("WORKER", "LOW") /\ Moves("WORKER", "TOP")
    /\ dataset' = FALSE
    /\ UNCHANGED <<running, shutdown, recording, backend, lock, quiet>>

After == /\ At("WORKER", "AFTER")
         /\ Moves("WORKER", IF shutdown THEN "DEAD"
                            ELSE IF dataset THEN "PACE" ELSE "TOP")
         /\ InWorker

\* The interval ends by its timeout or a notification.
Pace == At("WORKER", "PACE") /\ Moves("WORKER", "TOP") /\ InWorker

Worker == \/ Sleep \/ Wake \/ TooLate \/ TakeInterval \/ PictureTaken("WORKER")
          \/ Stored("WORKER") \/ StorageLow \/ After \/ Pace

-----------------------------------------------------------------------------
\* The main thread.  A camera that does not start is closed at once.
Start ==
    /\ At("MAIN", "STARTING")
    /\ running' = TRUE /\ StartStream(TRUE)
    /\ pc' = [pc EXCEPT !["MAIN"] = "SERVING", !["WORKER"] = "TOP"]
    /\ UNCHANGED <<shutdown, recording, dataset, record, lock, quiet>>

BeginClose ==
    /\ At("MAIN", "STARTING") \/ At("MAIN", "SERVING")
    /\ shutdown' = TRUE /\ dataset' = FALSE
    /\ pc' = [Notified(pc) EXCEPT !["MAIN"] = "JOINING"]
    /\ UNCHANGED <<running, recording, backend, lock, quiet>>

BackendStops == stream' = FALSE /\ record' = FALSE /\ UNCHANGED failed

Release ==
    /\ At("MAIN", "JOINING") /\ pc["WORKER"] \in {"NEW", "DEAD"}
    /\ LockIsFree
    /\ Moves("MAIN", "CLOSED")
    /\ running' = FALSE /\ recording' = FALSE /\ BackendStops
    /\ UNCHANGED <<shutdown, dataset, lock, quiet>>

-----------------------------------------------------------------------------
Answer(c) == \/ PictureTaken(c) \/ Stored(c) \/ GotFrame(c)
             \/ RecordingStarted(c) \/ RecordingStopped(c) \/ DatasetStopped(c)
Request(c) == \/ Capture(c) \/ GetFrame(c) \/ StartRecording(c)
              \/ StopRecording(c) \/ StartDataset(c) \/ StopDataset(c)

Next == \/ \E c \in Clients : Request(c) \/ Answer(c)
        \/ Worker \/ Start \/ BeginClose \/ Release

\* Threads are scheduled, and the camera answers or fails.
Spec == /\ Init /\ [][Next]_vars
        /\ WF_vars(Worker) /\ WF_vars(Release)
        /\ \A c \in Clients : WF_vars(Answer(c))

-----------------------------------------------------------------------------
Places == {"IDLE", "NATIVE", "VIDEO", "SAVING", "FRAME", "START", "STOP", "DRAIN",
           "NEW", "TOP", "ASLEEP", "ENTER", "LOW", "AFTER", "PACE", "DEAD",
           "STARTING", "SERVING", "JOINING", "CLOSED"}

TypeOK ==
    /\ running \in BOOLEAN /\ shutdown \in BOOLEAN /\ recording \in BOOLEAN
    /\ dataset \in BOOLEAN /\ stream \in BOOLEAN /\ record \in BOOLEAN
    /\ failed \in BOOLEAN /\ quiet \in BOOLEAN
    /\ lock \in Photographers \cup {"NOBODY"}
    /\ pc \in [Threads -> Places]

(***************************************************************************)
(* Once stop_dataset_capture has returned, no interval picture is being    *)
(* taken until someone starts again ("so none complete after this          *)
(* returns", stop_dataset_capture).                                        *)
(***************************************************************************)
NothingAfterStop == quiet => pc["WORKER"] \notin {"NATIVE", "VIDEO", "SAVING"}

(***************************************************************************)
(* The sensor changes its mode only while no recording runs or starts: the *)
(* MP4 is not split (_capture_locked, capture_sensor_native).              *)
(***************************************************************************)
RecordingIsUnsplit ==
    (\E t \in Photographers : At(t, "NATIVE"))
       => ~record /\ \A c \in Clients : ~At(c, "START")

(***************************************************************************)
(* Between two operations a running camera streams, unless the MJPEG       *)
(* encoder itself failed to stop or start: a picture that fails restores   *)
(* the stream (capture_sensor_native).                                     *)
(***************************************************************************)
StreamIsRestored == LockIsFree /\ running => stream \/ failed

(***************************************************************************)
(* close ends, and then nothing holds the camera, now or later: no encoder *)
(* runs, and no late caller and no interval picture starts one (close).    *)
(***************************************************************************)
Released == /\ ~running /\ ~stream /\ ~record /\ LockIsFree
            /\ pc["WORKER"] \in {"NEW", "DEAD"}
CloseReleases == <>[](shutdown => At("MAIN", "CLOSED") /\ Released)

(***************************************************************************)
(* A service that says it is recording is recording: a repeated start      *)
(* returns the path of a file that is being written (start_recording).     *)
(***************************************************************************)
RecordingIsReal == recording /\ LockIsFree => record
=============================================================================
