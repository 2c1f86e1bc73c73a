SPECIFICATION Spec

CONSTANTS
    Keys = {k1, k2}
    Unstamped = {}
    Runs = {p1}
    Keyed = FALSE
    Watermarked = TRUE
    Ties = FALSE
    MaxStamp = 4
    MaxVersion = 3
    MaxFailures = 0

INVARIANTS
    CoveredAtRest
SYMMETRY Symmetric
