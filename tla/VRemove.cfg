\* remove and then a shutdown before the last command returns: the download
\* ends as in-progress instead of removed.
CONSTANTS
    g1 = g1
    g2 = g2
    g3 = g3
    Gid = {g1}
    NoGid = NoGid
    Opts = {}
    MaxCommand = 2
    KeepRunning = TRUE
    Methods = {"remove", "shutdown"}
    Signals = {}
    ConcurrencyLimits = {1}
    InitialLimit = 1
    Optimize = FALSE
    CoeffA = 5
    MaxDownloadResult = 1
    KeepUnfinished = TRUE
    DependsOn <- NoDependency
    Seeders = {}
    InitialGroups <- Group1
    StartPaused = {}
    DeferredInput <- NoGroups
    BadEntry = BadEntry
    Addable = {}
    FollowUps <- NoGroups
SPECIFICATION Spec
INVARIANTS
    RemovedIsReported
