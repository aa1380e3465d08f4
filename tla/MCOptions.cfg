\* changeOption restarts an active download, with remove, unpause and
\* changeUri going on: the changed option is in force in the queue, and
\* changeUri finds no restarting download without a slot.
CONSTANTS
    g1 = g1
    g2 = g2
    g3 = g3
    Gid = {g1, g2}
    NoGid = NoGid
    Opts = {o1}
    MaxCommand = 2
    KeepRunning = TRUE
    Methods = {"changeOption", "remove", "unpause", "changeUri"}
    Signals = {}
    ConcurrencyLimits = {1}
    InitialLimit = 1
    Optimize = FALSE
    CoeffA = 5
    MaxDownloadResult = 1
    KeepUnfinished = TRUE
    DependsOn <- NoDependency
    Seeders = {}
    InitialGroups <- Groups12
    StartPaused = {}
    DeferredInput <- NoGroups
    BadEntry = BadEntry
    Addable = {}
    FollowUps <- NoGroups
SPECIFICATION Spec
INVARIANTS
    OptionsApplied
