SPECIFICATION Spec
CONSTANTS
    TargetClass = "mouse"
    Threshold = 1
    MaxConfidence = 3
    DeadZoneX = 1
    DeadZoneY = 1
    Detections <- SomeDetections
    Frames <- SomeFrames
    NoTarget = NoTarget
    Callers = {c1, c2}
    GenerationBound = 5
INVARIANTS EnabledIsHealthy
PROPERTIES
    SwitchesHold
    TrackingImplemented
    NobodyWaitsForEver
\* The service stops once it is closed.
CHECK_DEADLOCK FALSE
