SPECIFICATION ServicesSpec
CONSTANTS
    Clients = {a1, a2}
    Coordinates = {here, there}
    NoPlace = unset
    SiteIds = {s1, s2, s3}
    NoSite = nosite
    NoClient = noclient
    NoProject = noproject
    Engineers = {g1, g2}
    Items = {i1, i2, i3}
    Standard = {i1, i2}
    Required = {i1, i3}
    Entries = {e1, e2, e3}
    Unhandled = {e3}
    Flushes = {f1, f2}
    MaxAttempts = 2
    DemJobs = {d1, d2}
    Instances = {w1, w2}
    NodeCount = 4
    Graphs <- GraphsOfFour
    TerminalLists <- TerminalsOfFour
    Reviewers = {v1, v2, v3}
    NoReviewer = nobody
    Models = {m1, m2, m3}
    KnownSchemas = {m1, m2}
    NoModel = nomodel
    Deployers = {p1, p2}
    MaxDeployments = 3
    Layouts = {k1, k2}
    NoLayout = nolayout
    HistoryLimit = 2
    MaxSaves = 4
    Rate = 1
    Burst = 3
    Forget = 3
    MaxClock = 7
    Height = 3
    Width = 3
    Corridors <- SmallCorridors
    Lines <- SmallLines
    Layings <- SmallLayings
SYMMETRY Symmetry
CHECK_DEADLOCK FALSE
INVARIANTS
    ServicesTypeOK
    OneSite
    StatusIsEarned
    QueueIsSound
    DownloadsAccounted
    PathsAndTreesAreCheapest
    SteinerIsGood
    EventsTellStatus
    TrainingsAccounted
    DeploymentsAgree
    SavesAreKept
    RateIsKept
    RouteIsSound
    SpansHold
    RoutesAreOrdered
PROPERTIES
    DecisionsStand
