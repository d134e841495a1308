\* One caller, one worker, a channel of one, keyed and plain submissions: full channel,
\* a store error and a crash at every step.
SPECIFICATION FairSpec
CONSTANTS
    Jobs = {j1, j2}
    Keys = {k1}
    Clients = {c1}
    Workers = {w1}
    Timers = {t1}
    NoJob = NoJob
    NoKey = NoKey
    QueueBuffer = 1
    LimitArgs = {2}
    MaxRetries = 0
    MaxFaults = 1
    MaxCrashes = 1
    MayStop = FALSE
CHECK_DEADLOCK FALSE
INVARIANTS NoJobForgotten DeadLetteredOnce
PROPERTIES JobsSettle RefinesIntake
