\* A deferred input file whose first entry does not parse, then a download
\* whose follow-ups depend on each other, under optimize-concurrent-downloads
\* with a limit of 1 or 2, signals and shutdown at any moment: nothing is
\* lost, no slot leaks, the dependency is cut only when the torrent file's
\* download is over, the queue makes progress and a halt ends the process.
CONSTANTS
    g1 = g1
    g2 = g2
    g3 = g3
    Gid = {g1, g2, g3}
    NoGid = NoGid
    Opts = {}
    MaxCommand = 1
    KeepRunning = TRUE
    Methods = {"shutdown", "changeGlobalOption", "changePosition"}
    Signals = {"SIGINT", "SIGTERM"}
    ConcurrencyLimits = {1, 2}
    InitialLimit = 1
    Optimize = TRUE
    CoeffA = 1
    MaxDownloadResult = 1
    KeepUnfinished = TRUE
    DependsOn <- G3OnG2
    Seeders = {g1}
    InitialGroups <- NoGroups
    StartPaused = {}
    DeferredInput <- BadThen1
    BadEntry = BadEntry
    Addable = {}
    FollowUps <- Groups23
SPECIFICATION FairSpec
INVARIANTS
    NoDownloadLost
PROPERTIES
    
    QueueProgresses
    HaltTerminates
