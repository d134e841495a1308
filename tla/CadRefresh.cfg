SPECIFICATION CadFairSpec
CONSTANTS
    Tabs = {t1, t2}
    Writes = {w1, w2, w3}
    NoWrite = nowrite
    MaxStaleRetries = 2
CHECK_DEADLOCK FALSE
PROPERTY
    RetriesCatchUp
