\* The registers of one driver.  The protocol compares IFCNT modulo its range:
\* a modulus of 4 is above Attempts and small enough to wrap in every script.
SPECIFICATION Spec
CONSTANTS
    Attempts = 3
    IfcntModulus = 4
INVARIANT
    ConfiguredMeansWritten
PROPERTIES ProbeChangesNothing ResetIsFound CallEnds CallsImplemented
\* Nothing stops: the main loop may always call again.
CHECK_DEADLOCK TRUE
