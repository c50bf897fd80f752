--------------------------- MODULE TrackingService ---------------------------
(***************************************************************************)
(* What a client of the vision service may rely on: while vision is        *)
(* enabled the snapshot follows the frames, the first target after a frame *)
(* without one is DETECTED, and whatever ends an enabled period forgets    *)
(* the target at once.  VisionService, with its worker and its locks,      *)
(* implements this.                                                        *)
(***************************************************************************)
EXTENDS Tracking

VARIABLES enabled, closed, snapshot

ServiceInit == enabled = FALSE /\ closed = FALSE /\ snapshot = Searching

TurnOn == /\ ~enabled /\ ~closed
          /\ enabled' = TRUE /\ snapshot' = Searching /\ UNCHANGED closed

\* A disable or a failure; a close.
TurnOff == enabled' = FALSE /\ snapshot' = Searching /\ closed' \in {closed, TRUE}

\* The target is among the most confident detections of its class.
Candidates(ds) ==
    {ds[i] : i \in {k \in Eligible(ds) :
        \A j \in Eligible(ds) : ds[j].confidence <= ds[k].confidence}}

ShowsNothing(ds) == Eligible(ds) = {} /\ snapshot' = Blank(TRUE)

ShowsTarget(ds) ==
    \E target \in Candidates(ds) :
      /\ snapshot'.target = target /\ snapshot'.detections = ds
      /\ snapshot'.ofFrame
      /\ snapshot'.state =
            IF snapshot.target = NoTarget THEN "DETECTED"
            ELSE IF Locked(target) THEN "LOCKED" ELSE "TRACKING"

Publish ==
    /\ enabled
    /\ \E ds \in Frames : ShowsNothing(ds) \/ ShowsTarget(ds)
    /\ UNCHANGED <<enabled, closed>>

ServiceSpec == ServiceInit
                 /\ [][TurnOn \/ TurnOff \/ Publish]_<<enabled, closed, snapshot>>
=============================================================================
