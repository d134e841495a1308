SPECIFICATION Spec
CONSTANTS
    Callers = {c1, c2}
    Commands = {k1, k2}
    Nobody = nobody
    NoCommand = none
    PoolSize = 3
    LockTimeout = FALSE
    Deadlines = TRUE
    AuditLoop = FALSE
    RepairModes = {}
    Edits = TRUE
    TTL = 1
    MaxCalls = 3
    MaxFaults = 1
    MaxCrashes = 1
SYMMETRY Symmetry
CHECK_DEADLOCK FALSE
INVARIANTS
    TypeOK
    RowAgrees
    AttemptsAgree
PROPERTIES
    RefinesLinear
    ArchivedIsClosed
