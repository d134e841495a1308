SPECIFICATION FairSpec
CONSTANTS
    Callers = {c1, c2}
    Commands = {k1, k2}
    Nobody = nobody
    NoCommand = none
    PoolSize = 3
    LockTimeout = TRUE
    Deadlines = FALSE
    AuditLoop = TRUE
    RepairModes = {"entity-index", "head-and-index"}
    Edits = FALSE
    TTL = 2
    MaxCalls = 2
    MaxFaults = 0
    MaxCrashes = 0
CHECK_DEADLOCK FALSE
INVARIANT
    RowAgrees
PROPERTIES
    CallsReturn
    FalseAlarmsClear
