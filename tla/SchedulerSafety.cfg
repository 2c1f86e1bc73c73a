SPECIFICATION Spec

CONSTANTS
    Workers = {w1, w2}
    Conns = {c1, c2}
    Rows = {r1, r2}
    Crons = {2}
    CycleLength = 2
    LockTimeout = 1
    Reports = {"succeeded", "partial", "failed", "running"}
    Retries = {1}
    FailureCap = 2
    MaxRunTime = 1
    MaxCrashes = 1
    MaxEdits = 3
    NoWorker = NoWorker
    NoRow = NoRow
    NoConn = NoConn
    Backoff <- MCBackoff

INVARIANTS
    TypeOK
    NoDoubleRun
    RunHoldsLock
    OffSlotOnlyToRetry
PROPERTIES
    ImplementsExclusiveRuns
SYMMETRY Symmetric
