SPECIFICATION Spec

CONSTANTS
    Runs = {r1, r2}
    NumTables = 2
    Rows = {good, spare, bad}
    Bad = {bad}
    Ruled = {1}
    Facts = {1}
    WithGold = {r1}
    MinRows = 2
    MaxPercent = 40
    Overlapping = FALSE
    MaxFaults = 1

INVARIANTS
    RowsAccountedFor
    StatusTellsSteps

PROPERTY
    NoPartialLoadPublished

SYMMETRY Symmetric

CHECK_DEADLOCK FALSE
