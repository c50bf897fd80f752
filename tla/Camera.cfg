SPECIFICATION MediaSpec
CONSTANTS
    Clients = {c1, c2}
    MaxFiles = 2
    MaxKills = 1
INVARIANTS NothingAfterStop RecordingIsUnsplit StreamIsRestored
           MediaIsKept
PROPERTY CloseReleases
\* The service stops once it is closed.
CHECK_DEADLOCK FALSE
