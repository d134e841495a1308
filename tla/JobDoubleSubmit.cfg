\* Two callers submit under one idempotency key.
SPECIFICATION Spec
CONSTANTS
    Jobs = {j1, j2}
    Keys = {k1}
    Clients = {c1, c2}
    Workers = {w1}
    Timers = {t1}
    NoJob = NoJob
    NoKey = NoKey
    QueueBuffer = 2
    LimitArgs = {1}
    MaxRetries = 0
    MaxFaults = 0
    MaxCrashes = 0
    MayStop = FALSE
CHECK_DEADLOCK FALSE
INVARIANT IdempotentSubmit
