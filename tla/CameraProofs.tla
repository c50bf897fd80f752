---------------------------- MODULE CameraProofs ----------------------------
(***************************************************************************)
(* Proofs about CameraService and CameraMedia, for every set of callers.   *)
(*   The argument: whoever is in the middle of a camera operation holds    *)
(* the lock, so there is one such thread at most; a picture in still mode  *)
(* was begun while the service was not recording, which only a holder of   *)
(* the lock can change; and a caller that waited for the lock and finds    *)
(* the interval switched off leaves no picture in progress.                *)
(*   A restart brings the service back to its initial state, and no step   *)
(* of the storage touches it, so all of this holds across restarts too.    *)
(***************************************************************************)
EXTENDS CameraMedia, FiniteSetTheorems, TLAPS

Busy == {"NATIVE", "VIDEO", "SAVING", "FRAME", "START", "STOP"}

\* One operation at a time, and only callers record.
LockAgrees ==
    /\ \A t \in Photographers : pc[t] \in Busy => lock = t
    /\ pc["WORKER"] \notin {"FRAME", "START", "STOP"}

\* What is encoded, and what the service takes for it.
EncodersAgree ==
    /\ record => recording
    /\ \A c \in Clients : At(c, "START") => ~recording
    /\ \A t \in Photographers : At(t, "NATIVE") => ~recording
    /\ running => stream \/ failed \/ \E t \in Photographers : At(t, "NATIVE")

QuietAgrees ==
    quiet => ~dataset /\ pc["WORKER"] \notin {"NATIVE", "VIDEO", "SAVING"}

Inv == TypeOK /\ LockAgrees /\ EncodersAgree /\ QuietAgrees

-----------------------------------------------------------------------------
LEMMA InvImplies ==
    Inv => NothingAfterStop /\ RecordingIsUnsplit /\ StreamIsRestored
<1> SUFFICES ASSUME Inv
             PROVE  NothingAfterStop /\ RecordingIsUnsplit /\ StreamIsRestored
  OBVIOUS
<1>1. NothingAfterStop  BY DEF Inv, QuietAgrees, NothingAfterStop
<1>2. RecordingIsUnsplit
  <2> SUFFICES ASSUME NEW t \in Photographers, At(t, "NATIVE")
               PROVE  ~record /\ \A c \in Clients : ~At(c, "START")
    BY DEF RecordingIsUnsplit
  <2>1. lock = t /\ ~recording
    BY DEF Inv, LockAgrees, EncodersAgree, At, Busy
  <2>2. \A c \in Clients : At(c, "START") => c = t
    BY <2>1 DEF Inv, LockAgrees, At, Busy, Photographers
  <2>3. \A c \in Clients : ~At(c, "START")  BY <2>2 DEF At
  <2> QED BY <2>1, <2>3 DEF Inv, EncodersAgree
<1>3. StreamIsRestored
  <2> SUFFICES ASSUME lock = "NOBODY", running  PROVE stream \/ failed
    BY DEF StreamIsRestored, LockIsFree
  <2>1. \A t \in Photographers : ~At(t, "NATIVE")
    BY CameraAssumption DEF Inv, LockAgrees, At, Busy, Photographers
  <2> QED BY <2>1 DEF Inv, EncodersAgree
<1> QED BY <1>1, <1>2, <1>3

LEMMA InitInv == Init => Inv
<1> SUFFICES ASSUME Init PROVE Inv  OBVIOUS
<1> USE CameraAssumption DEF Init
<1>1. \A c \in Clients : pc[c] = "IDLE"  BY DEF Threads, Photographers
<1>2. pc["WORKER"] = "NEW" /\ pc["MAIN"] = "STARTING"
  BY DEF Threads, Photographers
<1>3. TypeOK  BY DEF TypeOK, Places, Threads, Photographers
<1>4. LockAgrees  BY <1>1, <1>2 DEF LockAgrees, Busy, Photographers
<1>5. EncodersAgree  BY <1>1, <1>2 DEF EncodersAgree, At, Photographers
<1>6. QuietAgrees  BY <1>2 DEF QuietAgrees
<1> QED BY <1>3, <1>4, <1>5, <1>6 DEF Inv

\* A thread that is nowhere near the camera comes and goes.
LEMMA MovesType ==
    ASSUME TypeOK, NEW t \in Threads, NEW place \in Places, Moves(t, place)
    PROVE  pc' \in [Threads -> Places]
BY DEF TypeOK, Moves

LEMMA NotifiedPlaces ==
    ASSUME TypeOK
    PROVE  /\ Notified(pc) \in [Threads -> Places]
           /\ \A t \in Threads : Notified(pc)[t] # pc[t]
                => Notified(pc)[t] = "TOP" /\ pc[t] = "ASLEEP"
BY DEF TypeOK, Notified, Places

\* Steps that leave the camera, the encoders and the lock alone.
LEMMA ComesAndGoes ==
    ASSUME Inv, UNCHANGED <<running, recording, backend, lock>>,
           pc' \in [Threads -> Places],
           \A t \in Threads : \/ pc'[t] = pc[t]
                              \/ pc[t] \notin Busy /\ pc'[t] \notin Busy,
           shutdown' \in BOOLEAN, dataset' \in BOOLEAN, QuietAgrees',
           quiet' \in BOOLEAN
    PROVE  Inv'
<1> USE DEF backend, Threads, Photographers
<1>1. TypeOK'  BY DEF Inv, TypeOK
<1>2. LockAgrees'  BY DEF Inv, LockAgrees, Busy
<1>3. EncodersAgree'  BY DEF Inv, EncodersAgree, At, Busy
<1> QED BY <1>1, <1>2, <1>3 DEF Inv

LEMMA WaitingInv ==
    ASSUME Inv, \/ \E c \in Clients : StartDataset(c) \/ StopDataset(c)
                                       \/ DatasetStopped(c)
                \/ Sleep \/ Wake \/ TooLate \/ StorageLow \/ After \/ Pace
                \/ BeginClose
    PROVE  Inv'
<1>1. ASSUME NEW c \in Clients, StartDataset(c)  PROVE Inv'
  <2> USE <1>1 DEF StartDataset
  <2>1. pc' = Notified(pc) /\ quiet' = FALSE /\ dataset' = TRUE  OBVIOUS
  <2>2. QuietAgrees'  BY <2>1 DEF QuietAgrees
  <2> QED BY <2>1, <2>2, NotifiedPlaces, ComesAndGoes DEF Inv, TypeOK, Busy
<1>2. ASSUME NEW c \in Clients, StopDataset(c)  PROVE Inv'
  <2> USE <1>2 DEF StopDataset, Idle, At
  <2>1. /\ pc' \in [Threads -> Places]
        /\ \A t \in Threads : \/ pc'[t] = pc[t]
                              \/ pc[t] \notin Busy /\ pc'[t] \notin Busy
    BY NotifiedPlaces DEF Inv, TypeOK, Places, Busy
  <2>2. QuietAgrees'
    BY <2>1 DEF Inv, QuietAgrees, Threads, Photographers, Busy
  <2> QED BY <2>1, <2>2, ComesAndGoes DEF Inv, TypeOK
<1>3. ASSUME NEW c \in Clients, DatasetStopped(c)  PROVE Inv'
  <2> USE <1>3 DEF DatasetStopped, NoPicture, LockIsFree, flags, At, Moves
  <2>1. /\ pc' \in [Threads -> Places]
        /\ \A t \in Threads : \/ pc'[t] = pc[t]
                              \/ pc[t] \notin Busy /\ pc'[t] \notin Busy
    BY DEF Inv, TypeOK, Places, Busy
  <2>2. pc["WORKER"] \notin Busy
    BY CameraAssumption DEF Inv, LockAgrees, Photographers
  <2>3. pc'["WORKER"] \notin Busy
    BY <2>1, <2>2 DEF Threads, Photographers
  <2>4. quiet' = ~dataset /\ dataset' = dataset  OBVIOUS
  <2>5. quiet' => ~dataset'
    <3> USE <1>3 DEF DatasetStopped
    <3>1. quiet' = ~dataset  OBVIOUS
    <3>2. quiet' => ~dataset  BY <3>1
    <3>3. dataset' = dataset  BY DEF flags
    <3>4. dataset' => dataset  BY <3>3
    <3> QED BY <3>2, <3>4
  <2>6. QuietAgrees'  BY <2>3, <2>5 DEF QuietAgrees, Busy
  <2> QED BY <2>1, <2>4, <2>6, ComesAndGoes DEF Inv, TypeOK
<1>4. ASSUME Sleep \/ Wake \/ TooLate \/ StorageLow \/ After \/ Pace
      PROVE  Inv'
  <2>1. /\ pc["WORKER"] \notin Busy
        /\ \E place \in Places \ Busy : Moves("WORKER", place)
    BY <1>4 DEF Sleep, Wake, TooLate, StorageLow, After, Pace, At, Places, Busy
  <2>2. PICK place \in Places \ Busy : Moves("WORKER", place)  BY <2>1
  <2>3. /\ pc' \in [Threads -> Places] /\ pc'["WORKER"] \notin Busy
        /\ \A t \in Threads : \/ pc'[t] = pc[t]
                              \/ pc[t] \notin Busy /\ pc'[t] \notin Busy
    BY <2>1, <2>2 DEF Inv, TypeOK, Moves, Threads, Photographers
  <2>4. /\ UNCHANGED <<running, recording, shutdown, backend, lock, quiet>>
        /\ dataset' \in {dataset, FALSE}
    BY <1>4 DEF Sleep, Wake, TooLate, StorageLow, After, Pace, InWorker, flags
  <2>5. QuietAgrees'  BY <2>3, <2>4 DEF Inv, QuietAgrees, Busy
  <2> QED BY <2>3, <2>4, <2>5, ComesAndGoes DEF Inv, TypeOK
<1>5. ASSUME BeginClose  PROVE Inv'
  <2> USE <1>5 DEF BeginClose, At
  <2>1. /\ pc' \in [Threads -> Places]
        /\ \A t \in Threads : \/ pc'[t] = pc[t]
                              \/ pc[t] \notin Busy /\ pc'[t] \notin Busy
    BY NotifiedPlaces DEF Inv, TypeOK, Places, Busy
  <2>2. QuietAgrees'
    BY <2>1 DEF Inv, QuietAgrees, Threads, Photographers, Busy
  <2> QED BY <2>1, <2>2, ComesAndGoes DEF Inv, TypeOK
<1> QED BY <1>1, <1>2, <1>3, <1>4, <1>5

\* Steps that take the lock, keep everything and begin an operation.
LEMMA TakesLock ==
    ASSUME Inv, NEW t \in Photographers, NEW place \in Busy, LockIsFree,
           Takes(t, place)
    PROVE  /\ lock' = t /\ pc' = [pc EXCEPT ![t] = place]
           /\ lock' \in Photographers /\ pc' \in [Threads -> Places]
           /\ \A u \in Photographers : pc[u] \notin Busy
           /\ \A u \in Photographers : pc'[u] \in Busy => u = t
           /\ t \in Clients \/ place \in {"NATIVE", "VIDEO"} => LockAgrees'
<1> USE DEF Takes, Moves
<1>1. /\ lock' = t /\ pc' = [pc EXCEPT ![t] = place]
      /\ lock' \in Photographers  OBVIOUS
<1>2. pc' \in [Threads -> Places]
  BY <1>1 DEF Inv, TypeOK, Busy, Places, Threads
<1>3. \A u \in Photographers : pc[u] \notin Busy
  BY CameraAssumption DEF Inv, LockAgrees, LockIsFree, Photographers
<1>4. \A u \in Photographers : u # t => pc'[u] = pc[u]
  BY <1>1 DEF Inv, TypeOK, Threads
<1>5. pc'[t] = place  BY <1>1 DEF Inv, TypeOK, Threads
<1>6. \A u \in Photographers : pc'[u] \in Busy => u = t  BY <1>3, <1>4
<1>7. ASSUME t \in Clients \/ place \in {"NATIVE", "VIDEO"}
      PROVE  LockAgrees'
  BY <1>1, <1>3, <1>4, <1>5, <1>6, <1>7, CameraAssumption
     DEF LockAgrees, Busy, Photographers
<1> QED BY <1>1, <1>2, <1>3, <1>6, <1>7

\* A picture begins, or the encoder fails to stop for it.
LEMMA ShootInv ==
    ASSUME Inv, NEW t \in Photographers, LockIsFree, Shoot(t), UNCHANGED quiet,
           UNCHANGED flags, t = "WORKER" => dataset /\ pc[t] = "ENTER",
           t \in Clients => pc[t] = "IDLE"
    PROVE  Inv'
<1> USE DEF flags
<1>1. CASE recording /\ Takes(t, "VIDEO") /\ UNCHANGED backend
  <2>1. /\ lock' \in Photographers /\ pc' \in [Threads -> Places]
        /\ LockAgrees' /\ pc' = [pc EXCEPT ![t] = "VIDEO"]
        /\ \A u \in Photographers : pc[u] \notin Busy
    BY <1>1, TakesLock DEF Busy
  <2>2. TypeOK'  BY <1>1, <2>1 DEF Inv, TypeOK, backend
  <2>3. \A u \in Photographers : ~At(u, "NATIVE") /\ ~At(u, "START")
                                 /\ ~At(u, "NATIVE")' /\ ~At(u, "START")'
    BY <2>1 DEF At, Busy, Inv, TypeOK, Threads
  <2>4. EncodersAgree'
    BY <1>1, <2>3 DEF Inv, EncodersAgree, backend, Photographers
  <2>5. QuietAgrees'
    BY <1>1, <2>1, CameraAssumption
       DEF Inv, TypeOK, QuietAgrees, Photographers, Threads
  <2> QED BY <2>1, <2>2, <2>4, <2>5 DEF Inv
<1>2. CASE ~recording /\ Pause(t) /\ UNCHANGED record
  <2>1. /\ lock' \in Photographers /\ pc' \in [Threads -> Places]
        /\ LockAgrees' /\ pc' = [pc EXCEPT ![t] = "NATIVE"]
    BY <1>2, TakesLock DEF Busy, Pause
  <2>2. stream' = FALSE /\ failed' = failed
    BY <1>2 DEF Pause, StopStream
  <2>3. TypeOK'  BY <1>2, <2>1, <2>2 DEF Inv, TypeOK
  <2>4. At(t, "NATIVE")'  BY <2>1 DEF At, Inv, TypeOK, Threads
  <2>5. EncodersAgree'
    BY <1>2, <2>4 DEF Inv, EncodersAgree
  <2>6. QuietAgrees'
    BY <1>2, <2>1, CameraAssumption
       DEF Inv, TypeOK, QuietAgrees, Photographers, Threads
  <2> QED BY <2>1, <2>3, <2>5, <2>6 DEF Inv
<1>3. CASE ~recording /\ PauseFails(t) /\ UNCHANGED record
  <2>1. /\ stream' = FALSE /\ failed' = TRUE /\ lock' = lock
        /\ pc' = [pc EXCEPT ![t] = Done(t)]
    BY <1>3 DEF PauseFails, StopStream, Moves
  <2>2. Done(t) \in Places \ Busy  BY DEF Done, Places, Busy
  <2>3. TypeOK'  BY <1>3, <2>1, <2>2 DEF Inv, TypeOK
  <2>4. \A u \in Threads : pc'[u] \in Busy => pc'[u] = pc[u]
    BY <2>1, <2>2 DEF Inv, TypeOK
  <2>5. LockAgrees'
    BY <2>1, <2>4 DEF Inv, LockAgrees, Busy, Threads, Photographers
  <2>6. EncodersAgree'
    BY <1>3, <2>1, <2>4
       DEF Inv, EncodersAgree, At, Busy, Threads, Photographers
  <2>7. QuietAgrees'
    BY <2>1, <2>4 DEF Inv, QuietAgrees, Busy, Threads, Photographers
  <2> QED BY <2>3, <2>5, <2>6, <2>7 DEF Inv
<1> QED BY <1>1, <1>2, <1>3 DEF Shoot, backend

\* A caller begins an operation that leaves the encoders for its end.
LEMMA BeginsInv ==
    ASSUME Inv, NEW c \in Clients, At(c, "IDLE"), LockIsFree,
           NEW place \in {"FRAME", "START", "STOP"}, Takes(c, place),
           place = "START" => ~recording,
           UNCHANGED <<flags, backend, quiet>>
    PROVE  Inv'
<1> USE DEF flags, backend
<1>1. c \in Photographers /\ c # "WORKER"
  BY CameraAssumption DEF Photographers
<1>2. /\ lock' \in Photographers /\ pc' \in [Threads -> Places]
      /\ LockAgrees' /\ pc' = [pc EXCEPT ![c] = place]
      /\ \A u \in Photographers : pc[u] \notin Busy
  BY <1>1, TakesLock DEF Busy
<1>3. TypeOK'  BY <1>2 DEF Inv, TypeOK
<1>4. \A u \in Photographers : ~At(u, "NATIVE") /\ ~At(u, "NATIVE")'
                               /\ (At(u, "START")' => u = c /\ place = "START")
  BY <1>2 DEF At, Busy, Inv, TypeOK, Threads
<1>5. EncodersAgree'
  BY <1>4 DEF Inv, EncodersAgree, Photographers
<1>6. QuietAgrees'
  BY <1>1, <1>2 DEF Inv, TypeOK, QuietAgrees, Threads, Photographers
<1> QED BY <1>2, <1>3, <1>5, <1>6 DEF Inv

\* What the end of an operation does to the threads.
LEMMA LeavesLock ==
    ASSUME Inv, NEW t \in Photographers, pc[t] \in Busy,
           NEW place \in Places \ Busy, Leaves(t, place)
    PROVE  /\ lock = t /\ lock' = "NOBODY"
           /\ pc' = [pc EXCEPT ![t] = place] /\ pc' \in [Threads -> Places]
           /\ \A u \in Photographers : pc'[u] \notin Busy
           /\ \A u \in Photographers : u # t => pc[u] \notin Busy
           /\ LockAgrees'
<1> USE DEF Leaves, Moves
<1>1. /\ lock = t /\ lock' = "NOBODY" /\ pc' = [pc EXCEPT ![t] = place]
  BY DEF Inv, LockAgrees
<1>2. pc' \in [Threads -> Places]  BY <1>1 DEF Inv, TypeOK
<1>3. \A u \in Photographers : u # t => pc[u] \notin Busy
  BY <1>1 DEF Inv, LockAgrees
<1>4. \A u \in Photographers : pc'[u] \notin Busy
  BY <1>1, <1>3 DEF Inv, TypeOK, Threads
<1>5. LockAgrees'  BY <1>4 DEF LockAgrees, Busy, Photographers
<1> QED BY <1>1, <1>2, <1>3, <1>4, <1>5

LEMMA RecordingStartedInv ==
    ASSUME Inv, NEW c \in Clients, RecordingStarted(c)  PROVE Inv'
<1> USE DEF RecordingStarted
<1>1. c \in Photographers /\ "IDLE" \in Places \ Busy /\ pc[c] \in Busy
  BY DEF Photographers, Places, Busy, At
<1>2. /\ pc' \in [Threads -> Places] /\ lock' = "NOBODY" /\ LockAgrees'
      /\ \A u \in Photographers : pc'[u] \notin Busy
      /\ \A u \in Photographers : u # c => pc[u] \notin Busy
  BY <1>1, LeavesLock
<1>3. /\ record' \in BOOLEAN /\ recording' \in BOOLEAN
      /\ record' => recording'
  <2>1. CASE record' = TRUE /\ recording' = TRUE  BY <2>1
  <2>2. CASE UNCHANGED <<record, recording>>
    BY <2>2 DEF Inv, TypeOK, EncodersAgree
  <2> QED BY <2>1, <2>2
<1>4. TypeOK'  BY <1>2, <1>3 DEF Inv, TypeOK
<1>5. \A u \in Photographers : ~At(u, "NATIVE")
  BY <1>2 DEF At, Busy
<1>6. \A u \in Photographers : ~At(u, "NATIVE")' /\ ~At(u, "START")'
  BY <1>2 DEF At, Busy
<1>7. EncodersAgree'
  BY <1>3, <1>5, <1>6 DEF Inv, EncodersAgree, Photographers
<1>8. QuietAgrees'  BY <1>2 DEF Inv, QuietAgrees, Busy, Photographers
<1> QED BY <1>2, <1>4, <1>7, <1>8 DEF Inv

LEMMA RecordingStoppedInv ==
    ASSUME Inv, NEW c \in Clients, RecordingStopped(c)  PROVE Inv'
<1> USE DEF RecordingStopped
<1>1. c \in Photographers /\ "IDLE" \in Places \ Busy /\ pc[c] \in Busy
  BY DEF Photographers, Places, Busy, At
<1>2. /\ pc' \in [Threads -> Places] /\ lock' = "NOBODY" /\ LockAgrees'
      /\ \A u \in Photographers : pc'[u] \notin Busy
      /\ \A u \in Photographers : u # c => pc[u] \notin Busy
  BY <1>1, LeavesLock
<1>3. record' = FALSE /\ recording' \in BOOLEAN  BY DEF Inv, TypeOK
<1>4. TypeOK'  BY <1>2, <1>3 DEF Inv, TypeOK
<1>5. \A u \in Photographers : ~At(u, "NATIVE")
  BY <1>2 DEF At, Busy
<1>6. \A u \in Photographers : ~At(u, "NATIVE")' /\ ~At(u, "START")'
  BY <1>2 DEF At, Busy
<1>7. EncodersAgree'
  BY <1>3, <1>5, <1>6 DEF Inv, EncodersAgree, Photographers
<1>8. QuietAgrees'  BY <1>2 DEF Inv, QuietAgrees, Busy, Photographers
<1> QED BY <1>2, <1>4, <1>7, <1>8 DEF Inv

\* However the picture ends, the stream is on or has failed.
LEMMA PictureTakenInv ==
    ASSUME Inv, NEW t \in Photographers, PictureTaken(t)  PROVE Inv'
<1>0. /\ pc[t] \in {"NATIVE", "VIDEO"} /\ lock = t /\ t \in Threads
      /\ \A u \in Photographers : u # t => pc[u] \notin Busy
  BY DEF PictureTaken, At, Inv, LockAgrees, Busy, Threads
<1>1. \E place \in {"SAVING", Done(t)} :
         /\ pc' = [pc EXCEPT ![t] = place]
         /\ lock' = IF place = "SAVING" THEN lock ELSE "NOBODY"
  BY <1>0 DEF PictureTaken, Leaves, Moves, Done
<1>2. PICK place \in {"SAVING", Done(t)} :
         /\ pc' = [pc EXCEPT ![t] = place]
         /\ lock' = IF place = "SAVING" THEN lock ELSE "NOBODY"
  BY <1>1
<1>3. place \in Places /\ place \notin {"NATIVE", "VIDEO", "FRAME", "START", "STOP"}
      /\ (place \in Busy => place = "SAVING")
  BY <1>2 DEF Done, Places, Busy
<1>4. /\ pc' \in [Threads -> Places] /\ pc'[t] = place
      /\ \A u \in Threads : u # t => pc'[u] = pc[u]
  BY <1>0, <1>2, <1>3 DEF Inv, TypeOK
<1>5. UNCHANGED <<running, shutdown, recording, dataset, record, quiet>>
  BY DEF PictureTaken, flags
<1>6. /\ stream' \in BOOLEAN /\ failed' \in BOOLEAN
      /\ running' => stream' \/ failed'
  <2>1. CASE At(t, "NATIVE")
    BY <2>1 DEF PictureTaken, Restart, StartStream
  <2>2. CASE ~At(t, "NATIVE")
    <3>1. UNCHANGED <<stream, failed>>  BY <2>2 DEF PictureTaken
    <3>2. \A u \in Photographers : ~At(u, "NATIVE")
      BY <1>0, <2>2 DEF At, Busy
    <3> QED BY <1>5, <3>1, <3>2 DEF Inv, TypeOK, EncodersAgree
  <2> QED BY <2>1, <2>2
<1>7. TypeOK'
  BY <1>2, <1>4, <1>5, <1>6 DEF Inv, TypeOK
<1>8. \A u \in Photographers : pc'[u] \in Busy => u = t /\ place = "SAVING"
  BY <1>0, <1>3, <1>4 DEF Threads
<1>9. LockAgrees'
  <2>1. \A u \in Photographers : pc'[u] \in Busy => lock' = u
    BY <1>0, <1>2, <1>8
  <2>2. pc'["WORKER"] \notin {"FRAME", "START", "STOP"}
    BY <1>3, <1>4, <1>8 DEF Busy, Photographers, Threads
  <2> QED BY <2>1, <2>2 DEF LockAgrees
<1>10. \A u \in Photographers : ~At(u, "NATIVE")' /\ ~At(u, "START")'
  BY <1>4, <1>8 DEF At, Busy, Threads
<1>11. EncodersAgree'
  BY <1>5, <1>6, <1>10 DEF Inv, EncodersAgree, Photographers
<1>12. QuietAgrees'
  <2>1. ASSUME quiet  PROVE pc'["WORKER"] \notin {"NATIVE", "VIDEO", "SAVING"}
    <3>1. pc["WORKER"] \notin {"NATIVE", "VIDEO", "SAVING"} /\ t # "WORKER"
      BY <1>0, <2>1 DEF Inv, QuietAgrees
    <3> QED BY <1>4, <3>1 DEF Threads, Photographers
  <2> QED BY <1>5, <2>1 DEF Inv, QuietAgrees
<1> QED BY <1>7, <1>9, <1>11, <1>12 DEF Inv

\* The end of a save, or of a frame for the detector.
LEMMA LeavesInv ==
    ASSUME Inv, NEW t \in Photographers, pc[t] \in {"SAVING", "FRAME"},
           NEW place \in Places \ Busy, Leaves(t, place),
           UNCHANGED <<flags, backend, quiet>>
    PROVE  Inv'
<1> USE DEF flags, backend
<1>1. /\ pc' \in [Threads -> Places] /\ lock' = "NOBODY" /\ LockAgrees'
      /\ \A u \in Photographers : pc'[u] \notin Busy
      /\ \A u \in Photographers : u # t => pc[u] \notin Busy
  BY LeavesLock DEF Busy
<1>2. TypeOK'  BY <1>1 DEF Inv, TypeOK
<1>3. \A u \in Photographers : ~At(u, "NATIVE") /\ ~At(u, "NATIVE")'
                               /\ ~At(u, "START")'
  BY <1>1 DEF At, Busy
<1>4. EncodersAgree'  BY <1>3 DEF Inv, EncodersAgree, Photographers
<1>5. QuietAgrees'  BY <1>1 DEF Inv, QuietAgrees, Busy, Photographers
<1> QED BY <1>1, <1>2, <1>4, <1>5 DEF Inv

LEMMA StoredInv ==
    ASSUME Inv, NEW t \in Photographers, Stored(t) \/ GotFrame(t)  PROVE Inv'
<1>1. CASE Stored(t)
  <2>1. pc[t] = "SAVING" /\ \E place \in Places \ Busy : Leaves(t, place)
    BY <1>1 DEF Stored, At, Places, Busy, Done
  <2> QED BY <1>1, <2>1, LeavesInv DEF Stored
<1>2. CASE GotFrame(t)
  <2>1. pc[t] = "FRAME" /\ "IDLE" \in Places \ Busy
    BY <1>2 DEF GotFrame, At, Places, Busy
  <2> QED BY <1>2, <2>1, LeavesInv DEF GotFrame
<1> QED BY <1>1, <1>2

LEMMA StartInv == Inv /\ Start => Inv'
<1> SUFFICES ASSUME Inv, Start PROVE Inv'  OBVIOUS
<1> USE DEF Start, StartStream
<1>1. /\ pc' \in [Threads -> Places]
      /\ \A t \in Threads : \/ pc'[t] = pc[t]
                            \/ pc'[t] \in {"SERVING", "TOP"}
  BY DEF Inv, TypeOK, Places
<1>2. stream' = TRUE /\ failed' = FALSE /\ running' = TRUE  OBVIOUS
<1>3. TypeOK'  BY <1>1, <1>2 DEF Inv, TypeOK
<1>4. LockAgrees'
  BY <1>1 DEF Inv, LockAgrees, Busy, Threads, Photographers
<1>5. EncodersAgree'
  BY <1>1, <1>2 DEF Inv, EncodersAgree, At, Threads, Photographers
<1>6. QuietAgrees'
  BY <1>1 DEF Inv, QuietAgrees, Threads, Photographers
<1> QED BY <1>3, <1>4, <1>5, <1>6 DEF Inv

LEMMA ReleaseInv == Inv /\ Release => Inv'
<1> SUFFICES ASSUME Inv, Release PROVE Inv'  OBVIOUS
<1> USE DEF Release, BackendStops, Moves
<1>1. /\ pc' \in [Threads -> Places]
      /\ \A t \in Threads : pc'[t] = pc[t] \/ pc'[t] = "CLOSED"
  BY DEF Inv, TypeOK, Places
<1>2. /\ stream' = FALSE /\ record' = FALSE /\ running' = FALSE
      /\ recording' = FALSE
  OBVIOUS
<1>3. TypeOK'  BY <1>1, <1>2 DEF Inv, TypeOK
<1>4. LockAgrees'
  BY <1>1 DEF Inv, LockAgrees, Busy, Threads, Photographers
<1>5. EncodersAgree'  BY <1>2 DEF EncodersAgree
<1>6. QuietAgrees'
  BY <1>1 DEF Inv, QuietAgrees, Threads, Photographers
<1> QED BY <1>3, <1>4, <1>5, <1>6 DEF Inv

LEMMA TakeIntervalInv == Inv /\ TakeInterval => Inv'
<1> SUFFICES ASSUME Inv, TakeInterval PROVE Inv'  OBVIOUS
<1>1. CASE Shoot("WORKER")
  BY <1>1, CameraAssumption, ShootInv DEF TakeInterval, At, Photographers
<1>2. CASE Moves("WORKER", "LOW") /\ UNCHANGED <<backend, lock>>
  <2>1. /\ pc["WORKER"] \notin Busy /\ pc' = [pc EXCEPT !["WORKER"] = "LOW"]
        /\ UNCHANGED <<flags, quiet>>
    BY <1>2 DEF TakeInterval, At, Busy, Moves
  <2>2. /\ pc' \in [Threads -> Places] /\ pc'["WORKER"] \notin Busy
        /\ \A t \in Threads : \/ pc'[t] = pc[t]
                              \/ pc[t] \notin Busy /\ pc'[t] \notin Busy
    BY <2>1 DEF Inv, TypeOK, Places, Busy, Threads, Photographers
  <2>3. QuietAgrees'  BY <2>1, <2>2 DEF Inv, QuietAgrees, Busy, flags
  <2> QED BY <1>2, <2>1, <2>2, <2>3, ComesAndGoes DEF Inv, TypeOK, flags
<1> QED BY <1>1, <1>2 DEF TakeInterval

LEMMA NextInv == Inv /\ [Next]_vars => Inv'
<1> SUFFICES ASSUME Inv, [Next]_vars PROVE Inv'  OBVIOUS
<1>1. ASSUME NEW c \in Clients, Request(c) \/ Answer(c)  PROVE Inv'
  <2>1. c \in Photographers /\ c # "WORKER"
    BY CameraAssumption DEF Photographers
  <2>2. CASE Capture(c)
    BY <2>1, <2>2, ShootInv DEF Capture, Idle, At
  <2>3. CASE GetFrame(c)  BY <2>3, BeginsInv DEF GetFrame, Idle
  <2>4. CASE StartRecording(c)
    BY <2>4, BeginsInv DEF StartRecording, Idle
  <2>5. CASE StopRecording(c)  BY <2>5, BeginsInv DEF StopRecording, Idle
  <2>6. CASE PictureTaken(c)  BY <2>1, <2>6, PictureTakenInv
  <2>9. CASE Stored(c) \/ GotFrame(c)  BY <2>1, <2>9, StoredInv
  <2>7. CASE RecordingStarted(c) \/ RecordingStopped(c)
    BY <2>7, RecordingStartedInv, RecordingStoppedInv
  <2>8. CASE StartDataset(c) \/ StopDataset(c) \/ DatasetStopped(c)
    BY <2>8, WaitingInv
  <2> QED BY <1>1, <2>2, <2>3, <2>4, <2>5, <2>6, <2>7, <2>8, <2>9
          DEF Request, Answer
<1>2. CASE Worker
  BY <1>2, WaitingInv, TakeIntervalInv, PictureTakenInv, StoredInv
     DEF Worker, Photographers
<1>3. CASE Start \/ BeginClose \/ Release
  BY <1>3, StartInv, ReleaseInv, WaitingInv
<1>4. CASE UNCHANGED vars
  BY <1>4 DEF vars, flags, backend, Inv, TypeOK, LockAgrees, EncodersAgree,
              QuietAgrees, At
<1> QED BY <1>1, <1>2, <1>3, <1>4 DEF Next

-----------------------------------------------------------------------------
\* The disk: a name is free until the rename, and taken from then on.
StorageInv ==
    /\ StorageTypeOK /\ NothingOverwritten /\ TableTellsTruth
    /\ saving \in {"PART", "WRITTEN"} => name \notin images
    /\ saving \in {"REPLACED", "OPENED"} => name \in images

LEMMA ImagesAreFinite ==
    ASSUME StorageTypeOK
    PROVE  /\ IsFiniteSet(images) /\ Cardinality(images) \in Nat
           /\ \A n : n \notin images
                => Cardinality(images \cup {n}) = Cardinality(images) + 1
<1>1. IsFiniteSet(FileNames)  BY StorageAssumption, FS_Interval DEF FileNames
<1>2. IsFiniteSet(images)  BY <1>1, FS_Subset DEF StorageTypeOK
<1> QED BY <1>2, FS_CardinalityType, FS_AddElement

LEMMA SaveStepInv == StorageInv /\ SaveStep => StorageInv'
<1> SUFFICES ASSUME StorageInv, SaveStep  PROVE StorageInv'  OBVIOUS
<1> USE DEF StorageInv, StorageTypeOK, Finished, disk, Fails,
            NothingOverwritten, TableTellsTruth
<1>1. CASE NoSpace  BY <1>1 DEF NoSpace
<1>2. CASE WritePart  BY <1>2 DEF WritePart, FreeNames
<1>3. CASE WriteJpeg  BY <1>3 DEF WriteJpeg
<1>4. CASE Replace
  <2>1. /\ images' = images \cup {name} /\ name \notin images
        /\ renames' = renames + 1 /\ saving' = "REPLACED"
        /\ parts' = parts \ {name}
        /\ UNCHANGED <<table, rows, name>>
    BY <1>4 DEF Replace
  <2>2. NothingOverwritten'  BY <2>1, ImagesAreFinite
  <2>3. StorageTypeOK'  BY <2>1
  <2>4. TableTellsTruth'  BY <2>1
  <2> QED BY <2>1, <2>2, <2>3, <2>4
<1>5. CASE OpenTable  BY <1>5 DEF OpenTable
<1>6. CASE AppendRow  BY <1>6 DEF AppendRow
<1>7. CASE AppendFails  BY <1>7 DEF AppendFails
<1>8. CASE OsError  BY <1>8 DEF OsError
<1> QED BY <1>1, <1>2, <1>3, <1>4, <1>5, <1>6, <1>7, <1>8 DEF SaveStep

LEMMA StorageInitInv == StorageInit => StorageInv
<1> SUFFICES ASSUME StorageInit PROVE StorageInv  OBVIOUS
<1>1. Cardinality({}) = 0  BY FS_EmptySet
<1> QED BY <1>1, StorageAssumption
        DEF StorageInit, StorageInv, StorageTypeOK, NothingOverwritten,
            TableTellsTruth, FileNames, Finished

\* Outside a save nothing happens to the disk.
LEMMA CallerInv ==
    ASSUME StorageInv, UNCHANGED <<disk, name>>,
           saving' \in {saving, "IDLE", "BEGIN"}
    PROVE  StorageInv'
BY DEF StorageInv, StorageTypeOK, Finished, disk, NothingOverwritten,
       TableTellsTruth

-----------------------------------------------------------------------------
\* A save is under way exactly while someone is saving; LockAgrees says who.
SomeoneSaves == \E t \in Photographers : Saver(t)
SaveAgrees == saving # "IDLE" <=> SomeoneSaves

LEMMA OnlyAHolderSaves ==
    ASSUME Inv, Next, NEW u \in Photographers, Saver(u)'
    PROVE  lock = u
<1>1. u \in Threads /\ pc \in [Threads -> Places]
  BY DEF Inv, TypeOK, Threads
<1>2. SUFFICES ASSUME ~PictureTaken(u) PROVE pc[u] = "SAVING"
  BY DEF PictureTaken, At, Inv, LockAgrees, Busy
<1>3. pc'[u] = "SAVING"  BY DEF Saver, At
<1>4. ASSUME NEW p \in [Threads -> Places], Notified(p)[u] = "SAVING"
      PROVE  p[u] = "SAVING"
  BY <1>1, <1>4 DEF Notified
<1>5. ASSUME NEW t \in Threads, NEW place \in Places \ {"SAVING"},
             Moves(t, place)
      PROVE  pc[u] = "SAVING"
  BY <1>1, <1>3, <1>5 DEF Moves
<1>6. \A t \in Threads : Done(t) \in Places \ {"SAVING"}
  BY DEF Done, Places
<1>7. ASSUME NEW t \in Photographers, Shoot(t)  PROVE pc[u] = "SAVING"
  <2>1. \E place \in Places \ {"SAVING"} : Moves(t, place)
    BY <1>6, <1>7 DEF Shoot, Pause, PauseFails, Takes, Places, Threads
  <2> QED BY <1>5, <2>1 DEF Threads
<1>8. ASSUME NEW t \in Photographers, PictureTaken(t)
      PROVE  pc[u] = "SAVING"
  <2>1. t # u /\ \E place \in Places : Moves(t, place)
    BY <1>2, <1>6, <1>8 DEF PictureTaken, Leaves, Places, Threads
  <2> QED BY <1>1, <1>3, <2>1 DEF Moves, Threads
<1>9. ASSUME NEW t \in Photographers, Stored(t)  PROVE pc[u] = "SAVING"
  <2>1. \E place \in Places \ {"SAVING"} : Moves(t, place)
    BY <1>6, <1>9 DEF Stored, Leaves, Places, Threads
  <2> QED BY <1>5, <2>1 DEF Threads
<1>10. ASSUME NEW c \in Clients, Request(c) \/ Answer(c)
       PROVE  pc[u] = "SAVING"
  <2>1. c \in Photographers /\ c \in Threads  BY DEF Photographers, Threads
  <2>2. CASE Capture(c)  BY <1>7, <2>1, <2>2 DEF Capture
  <2>3. CASE PictureTaken(c) \/ Stored(c)  BY <1>8, <1>9, <2>1, <2>3
  <2>4. CASE StartDataset(c)  BY <1>1, <1>3, <1>4, <2>4 DEF StartDataset
  <2>5. CASE StopDataset(c)
    BY <1>1, <1>3, <2>1, <2>5 DEF StopDataset, Notified
  <2>6. CASE \/ GetFrame(c) \/ StartRecording(c) \/ StopRecording(c)
             \/ GotFrame(c) \/ RecordingStarted(c) \/ RecordingStopped(c)
             \/ DatasetStopped(c)
    <3>1. \E place \in Places \ {"SAVING"} : Moves(c, place)
      BY <2>6 DEF GetFrame, StartRecording, StopRecording, GotFrame,
                  RecordingStarted, RecordingStopped, DatasetStopped, Takes,
                  Leaves, Places
    <3> QED BY <1>5, <2>1, <3>1
  <2> QED BY <1>10, <2>2, <2>3, <2>4, <2>5, <2>6 DEF Request, Answer
<1>11. CASE Worker
  <2>1. "WORKER" \in Photographers /\ "WORKER" \in Threads
    BY DEF Photographers, Threads
  <2>2. CASE TakeInterval
    <3>1. Shoot("WORKER") \/ Moves("WORKER", "LOW")
      BY <2>2 DEF TakeInterval
    <3> QED BY <1>5, <1>7, <2>1, <3>1 DEF Places
  <2>3. CASE PictureTaken("WORKER") \/ Stored("WORKER")
    BY <1>8, <1>9, <2>1, <2>3
  <2>4. CASE Sleep \/ Wake \/ TooLate \/ StorageLow \/ After \/ Pace
    <3>1. \E place \in Places \ {"SAVING"} : Moves("WORKER", place)
      BY <2>4 DEF Sleep, Wake, TooLate, StorageLow, After, Pace, Places
    <3> QED BY <1>5, <2>1, <3>1
  <2> QED BY <1>11, <2>2, <2>3, <2>4 DEF Worker
<1>12. CASE Start \/ BeginClose \/ Release
  BY <1>1, <1>3, <1>12 DEF Start, BeginClose, Release, Notified, Moves
<1> QED BY <1>10, <1>11, <1>12 DEF Next

LEMMA ServiceKeepsSaves ==
    ASSUME Inv, SaveAgrees, ServiceStep
    PROVE  SaveAgrees'
<1>1. Next  BY DEF ServiceStep
<1>2. ASSUME NEW t \in Photographers, Begins(t), BeginSave
      PROVE  SaveAgrees'
  BY <1>2 DEF Begins, BeginSave, SaveAgrees, SomeoneSaves, Photographers
<1>3. ASSUME NEW t \in Photographers, Ends(t), TakeResult
      PROVE  SaveAgrees'
  <2>1. lock = t /\ ~Saver(t)'
    BY <1>3 DEF Ends, Saver, At, Inv, LockAgrees, Busy
  <2>2. \A u \in Photographers : ~Saver(u)'
    BY <1>1, <2>1, OnlyAHolderSaves
  <2>3. ~SomeoneSaves'  BY <2>2 DEF SomeoneSaves, Photographers
  <2> QED BY <1>3, <2>3 DEF TakeResult, SaveAgrees
<1>4. ASSUME \A t \in Photographers : ~Begins(t) /\ ~Ends(t),
             UNCHANGED storage
      PROVE  SaveAgrees'
  <2>1. SomeoneSaves' <=> SomeoneSaves
    BY <1>4 DEF Begins, Ends, SomeoneSaves, Photographers
  <2> QED BY <1>4, <2>1 DEF SaveAgrees, storage
<1> QED BY <1>2, <1>3, <1>4 DEF ServiceStep, Handed

LEMMA SaveAgreesNext ==
    ASSUME Inv, SaveAgrees, [MediaNext]_media
    PROVE  SaveAgrees'
<1> USE DEF SaveAgrees, SomeoneSaves, Saver, At
<1>1. CASE ServiceStep  BY <1>1, ServiceKeepsSaves
<1>2. CASE StorageStep
  <2>1. saving # "IDLE" /\ saving' # "IDLE"
    BY <1>2 DEF StorageStep, SaveStep, NoSpace, WritePart, WriteJpeg, Replace,
                OpenTable, AppendRow, AppendFails, OsError, Fails
  <2>2. pc' = pc  BY <1>2 DEF StorageStep, vars
  <2> QED BY <2>1, <2>2 DEF Photographers
<1>3. CASE Kill
  <2>1. saving' = "IDLE"  BY <1>3 DEF Kill, Killed
  <2>2. \A t \in Photographers : pc'[t] # "SAVING"
    BY <1>3 DEF Kill, Restarted, Threads
  <2> QED BY <2>1, <2>2 DEF Photographers
<1>4. CASE UNCHANGED media
  BY <1>4 DEF media, vars, storage, Photographers
<1> QED BY <1>1, <1>2, <1>3, <1>4 DEF MediaNext

LEMMA OneSave == Inv /\ SaveAgrees => OneSaveAtATime
<1> SUFFICES ASSUME Inv, SaveAgrees, NEW t \in Photographers
             PROVE  Saver(t) <=> saving # "IDLE" /\ lock = t
  BY DEF OneSaveAtATime
<1>1. \A u \in Photographers : Saver(u) => lock = u
  BY DEF Inv, LockAgrees, Saver, At, Busy
<1> QED BY <1>1 DEF SaveAgrees, SomeoneSaves

-----------------------------------------------------------------------------
MediaInv == Inv /\ StorageInv /\ SaveAgrees

LEMMA RestartedInv == Inv /\ Restarted => Inv'
<1> SUFFICES ASSUME Inv, Restarted PROVE Inv'  OBVIOUS
<1> USE CameraAssumption DEF Restarted
<1>1. \A c \in Clients : pc'[c] = "IDLE"  BY DEF Threads, Photographers
<1>2. pc'["WORKER"] = "NEW" /\ pc'["MAIN"] = "STARTING"
  BY DEF Threads, Photographers
<1>3. TypeOK'  BY DEF TypeOK, Places, Threads, Photographers
<1>4. LockAgrees'  BY <1>1, <1>2 DEF LockAgrees, Busy, Photographers
<1>5. EncodersAgree'  BY <1>1, <1>2 DEF EncodersAgree, At, Photographers
<1>6. QuietAgrees'  BY <1>2 DEF QuietAgrees
<1> QED BY <1>3, <1>4, <1>5, <1>6 DEF Inv

LEMMA MediaInitInv == MediaInit => MediaInv
<1> SUFFICES ASSUME MediaInit PROVE MediaInv  OBVIOUS
<1>1. Inv /\ StorageInv  BY InitInv, StorageInitInv DEF MediaInit
<1>2. \A t \in Photographers : pc[t] # "SAVING"
  BY DEF MediaInit, Init, Threads
<1>3. SaveAgrees
  BY <1>2 DEF MediaInit, StorageInit, SaveAgrees, SomeoneSaves, Saver, At
<1> QED BY <1>1, <1>3 DEF MediaInv

LEMMA MediaNextInv == MediaInv /\ [MediaNext]_media => MediaInv'
<1> SUFFICES ASSUME MediaInv, [MediaNext]_media PROVE MediaInv'  OBVIOUS
<1> USE DEF MediaInv
<1>0. SaveAgrees'  BY SaveAgreesNext
<1>1. CASE ServiceStep
  <2>1. Inv'  BY <1>1, NextInv DEF ServiceStep
  <2>2. UNCHANGED <<disk, name>> /\ saving' \in {saving, "IDLE", "BEGIN"}
    BY <1>1 DEF ServiceStep, BeginSave, Handed, TakeResult, storage
  <2> QED BY <1>0, <2>1, <2>2, CallerInv
<1>2. CASE StorageStep
  <2>1. Inv'  BY <1>2, NextInv DEF StorageStep
  <2> QED BY <1>0, <1>2, <2>1, SaveStepInv DEF StorageStep
<1>3. CASE Kill
  BY <1>0, <1>3, RestartedInv, CallerInv DEF Kill, Killed
<1>4. CASE UNCHANGED media
  BY <1>0, <1>4, NextInv, CallerInv DEF media, storage
<1> QED BY <1>1, <1>2, <1>3, <1>4 DEF MediaNext

LEMMA MediaSpecInv == MediaSpec => []MediaInv
BY MediaInitInv, MediaNextInv, PTL DEF MediaSpec

-----------------------------------------------------------------------------
(***************************************************************************)
(* After stop_dataset_capture has returned, and until someone starts it    *)
(* again, no interval picture is in progress, whoever else uses the camera *)
(* and whenever the process is restarted.                                  *)
(***************************************************************************)
THEOREM StopIsFinal == MediaSpec => []NothingAfterStop
BY MediaSpecInv, InvImplies, PTL DEF MediaInv

(***************************************************************************)
(* No picture switches the sensor's mode while a recording runs.           *)
(***************************************************************************)
THEOREM Unsplit == MediaSpec => []RecordingIsUnsplit
BY MediaSpecInv, InvImplies, PTL DEF MediaInv

(***************************************************************************)
(* Whatever way a picture fails, the stream is on again or the encoder     *)
(* itself has failed.                                                      *)
(***************************************************************************)
THEOREM StreamReturns == MediaSpec => []StreamIsRestored
BY MediaSpecInv, InvImplies, PTL DEF MediaInv

(***************************************************************************)
(* One save at a time, under the lock of the thread that took the picture; *)
(* no picture takes the name of another, and the table lists only pictures *)
(* that are there, through every failed save and every kill.               *)
(***************************************************************************)
THEOREM PicturesAreKept == MediaSpec => []MediaIsKept
<1>1. MediaInv => MediaIsKept
  BY OneSave DEF MediaInv, StorageInv, MediaIsKept
<1> QED BY <1>1, MediaSpecInv, PTL
=============================================================================
