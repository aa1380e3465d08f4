\* Two downloads with two commands each, one of them a detached seeder, one
\* or two slots: add, remove, pause, unpause, their All and force forms,
\* result removal and changes of the limit interleaved with the commands and
\* the queue passes keep the accounting, the lists, the wakeups, the pauses
\* and the life cycle the clients were promised.
CONSTANTS
    g1 = g1
    g2 = g2
    g3 = g3
    Gid = {g1, g2}
    NoGid = NoGid
    Opts = {}
    MaxCommand = 2
    KeepRunning = TRUE
    Methods = {"add", "remove", "pause", "unpause", "pauseAll", "unpauseAll",
        "removeResult", "changeGlobalOption"}
    Signals = {}
    ConcurrencyLimits = {1, 2}
    InitialLimit = 1
    Optimize = FALSE
    CoeffA = 5
    MaxDownloadResult = 1
    KeepUnfinished = TRUE
    DependsOn <- NoDependency
    Seeders = {g1}
    InitialGroups <- Group1
    StartPaused = {}
    DeferredInput <- NoGroups
    BadEntry = BadEntry
    Addable = {g2}
    FollowUps <- NoGroups
SPECIFICATION Spec
INVARIANTS
    TypeOK
    NumActiveAccounting
    ListsDisjoint
    CommandsOnlyWhenActive
    NoLostWakeup
    UnfinishedIsKept
PROPERTIES
    ResultIsFinal
    StartsBelowLimit
    PausedStaysPaused
    ImplementsLifecycle
