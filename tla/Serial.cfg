SPECIFICATION Spec
CONSTANTS
    LineCapacity = 2
    RxCapacity = 3
    TxCapacity = 4
    PacketSize = 2
    MaxResponse = 3
    ReplyLengths = {3}
    SentBytes = {"CHAR", "BLANK", "CR", "LF"}
INVARIANT
    InOrder
PROPERTY HostIsHeard
