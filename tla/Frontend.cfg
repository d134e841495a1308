SPECIFICATION FrontendSpec
CONSTANTS
    Tabs = {t1, t2}
    Writes = {w1, w2, w3}
    NoWrite = nowrite
    MaxStaleRetries = 2
    Projects = {a, b}
    NoProject = none
    Requests = {q1, q2, q3}
CHECK_DEADLOCK FALSE
INVARIANTS
    StoredOnce
    TabsComeToRest
    ProjectIsPolled
PROPERTIES
    LostOnlyUnseen
    WritesEnd
    ViewCatchesUp
