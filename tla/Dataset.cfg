SPECIFICATION Spec
CONSTANTS
    Images <- TestImages
    Media <- TestMedia
    Mice <- TestMice
    Rank <- TestRank
    Near <- TestNear
    Twins <- TestTwins
    Ratios <- TestRatios
    Beginnings <- TestBeginnings
    MaxBoxes = 1
    MaxImages = 2
    Retries = 1
    UndoDepth = 2
INVARIANTS
    PoolIsClean
    NoLeakBetweenParts
    DividedAsAsked
    EditsStayOnImage
PROPERTIES
    FinalIsApproved
    DecisionsAreKept
CHECK_DEADLOCK FALSE
