SPECIFICATION Spec

CONSTANTS
    MaxVersion = 5
    Blank = ""
    NoMarker = NoMarker
    Returns = FALSE
    InOrder = TRUE
    BlindMayFail = TRUE
    MaxFailures = 2
    Marker <- MCMarker

PROPERTIES
    SkipIsSafe
