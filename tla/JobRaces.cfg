\* One job, two callers, two workers, one timer: the interleavings of submit,
\* cancel, retry, worker, timer and Stop on one row.
SPECIFICATION Spec
CONSTANTS
    Jobs = {j1}
    Keys = {}
    Clients = {c1, c2}
    Workers = {w1, w2}
    Timers = {t1}
    NoJob = NoJob
    NoKey = NoKey
    QueueBuffer = 2
    LimitArgs = {2}
    MaxRetries = 1
    MaxFaults = 0
    MaxCrashes = 0
    MayStop = TRUE
SYMMETRY Symmetry
CHECK_DEADLOCK FALSE
INVARIANTS TypeOK SingleActivation AttemptsWithinLimit LedgerAgrees
PROPERTY CancelSticks
