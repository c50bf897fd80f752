SPECIFICATION Spec
CONSTANTS
    Scripts <- AllScripts
    MaxSessions = 2
    MaxPolls = 1
    MaxInterrupts = 1
    LinkMayFail = TRUE
INVARIANTS RestIsReal ReleasedAtExit
PROPERTIES EnableInSync SessionEnds
CHECK_DEADLOCK FALSE
