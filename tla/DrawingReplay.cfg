SPECIFICATION Spec
CONSTANTS
    Callers = {c1, c2}
    Commands = {k1}
    Nobody = nobody
    NoCommand = none
    PoolSize = 3
    LockTimeout = FALSE
    Deadlines = FALSE
    AuditLoop = FALSE
    RepairModes = {}
    Edits = FALSE
    TTL = 2
    MaxCalls = 3
    MaxFaults = 0
    MaxCrashes = 0
CHECK_DEADLOCK FALSE
INVARIANT
    DuplicateReplayed
