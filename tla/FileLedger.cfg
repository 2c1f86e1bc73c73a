SPECIFICATION FairSpec

CONSTANTS
    MaxVersion = 5
    Blank = ""
    NoMarker = NoMarker
    Returns = FALSE
    InOrder = TRUE
    BlindMayFail = FALSE
    MaxFailures = 2
    Marker <- MCMarker

INVARIANTS
    TypeOK
PROPERTIES
    SkipIsSafe
    NoReread
    CatchesUp
