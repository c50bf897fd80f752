------------------------------ MODULE Tracking ------------------------------
(***************************************************************************)
(* What one frame's detections make of the tracking state                  *)
(* (host/vision/target_selector.py, host/vision/tracking_state.py).  A     *)
(* detection is its class, its confidence and how far its centre lies from *)
(* the centre of the frame on either axis.                                 *)
(***************************************************************************)
EXTENDS Integers, Sequences

CONSTANTS
    TargetClass,            \* the class to follow
    Threshold,              \* confidence_threshold
    MaxConfidence,          \* the confidence 1.0, in the unit of the model
    DeadZoneX, DeadZoneY,   \* dead_zone_x, dead_zone_y
    Detections,             \* the detections a frame may hold
    Frames,                 \* what the detector may return for a frame
    NoTarget                \* None

ASSUME TrackingAssumption ==
    /\ MaxConfidence \in Nat /\ Threshold \in Nat
    /\ DeadZoneX \in Nat /\ DeadZoneY \in Nat
    /\ \A d \in Detections : /\ {"class", "confidence", "pan", "tilt"}
                                   \subseteq DOMAIN d
                             /\ d.confidence \in 0 .. MaxConfidence
                             /\ d.pan \in Nat /\ d.tilt \in Nat
    /\ Frames \subseteq Seq(Detections)
    /\ NoTarget \notin Detections

States == {"SEARCHING", "DETECTED", "TRACKING", "LOCKED"}

\* A snapshot of a frame, or the one that stands for none (searching()).
Snapshots == [state : States, detections : Frames \cup {<< >>},
              target : Detections \cup {NoTarget}, ofFrame : BOOLEAN]

Blank(ofFrame) == [state |-> "SEARCHING", detections |-> << >>,
                   target |-> NoTarget, ofFrame |-> ofFrame]
Searching == Blank(FALSE)

Eligible(ds) == {i \in DOMAIN ds : /\ ds[i].class = TargetClass
                                   /\ ds[i].confidence >= Threshold}

\* max of the eligible detections: the first of the most confident ones.
Leads(ds, i) ==
    \A j \in Eligible(ds) : /\ ds[j].confidence <= ds[i].confidence
                            /\ j < i => ds[j].confidence < ds[i].confidence
Select(ds) ==
    IF Eligible(ds) = {} THEN NoTarget
    ELSE ds[CHOOSE i \in Eligible(ds) : Leads(ds, i)]

Locked(target) == target.pan <= DeadZoneX /\ target.tilt <= DeadZoneY

\* TrackingStateMachine.update; present is its _target_was_present.
Update(present, ds) ==
    LET target == Select(ds)
    IN  IF target = NoTarget THEN Blank(TRUE)
        ELSE [state |-> IF ~present THEN "DETECTED"
                        ELSE IF Locked(target) THEN "LOCKED" ELSE "TRACKING",
              detections |-> ds, target |-> target, ofFrame |-> TRUE]
=============================================================================
