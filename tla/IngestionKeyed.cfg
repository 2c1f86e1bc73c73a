SPECIFICATION FairSpec

CONSTANTS
    Keys = {k1, k2}
    Unstamped = {}
    Runs = {p1}
    Keyed = TRUE
    Watermarked = TRUE
    Ties = FALSE
    MaxStamp = 4
    MaxVersion = 3
    MaxFailures = 2

INVARIANTS
    TypeOK
    Covered
    OneRowPerKey
PROPERTIES
    Kept
    Converges
