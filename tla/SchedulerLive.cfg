SPECIFICATION ScheduledFairSpec

CONSTANTS
    Workers = {w1, w2}
    Conns = {c1, c2}
    Rows = {r1, r2}
    Crons = {2}
    CycleLength = 2
    LockTimeout = 1
    Reports = {"succeeded", "running"}
    Retries = {0}
    FailureCap = 2
    MaxRunTime = 1
    MaxCrashes = 1
    MaxEdits = 0
    NoWorker = NoWorker
    NoRow = NoRow
    NoConn = NoConn
    Backoff <- MCBackoff

PROPERTIES
    DueIsServed
    LocksEnd
