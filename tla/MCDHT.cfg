\* Up to three nodes, one of which has changed its ID since it was saved, that
\* tell of two others at a time.  Buckets of two nodes with one that waits,
\* lookups with two messages in flight, executors with one task, IDs of three
\* bits.
CONSTANTS
    a1 = a1
    a2 = a2
    a3 = a3
    ping = ping
    boot = boot
    peers = peers
    refresh = refresh
    IdBits = 3
    K = 2
    CacheSize = 1
    LocalId = 0
    AssertsOn = TRUE
    Node = {1, 2, 3, 4, 5, 6}
    HomeOf <- Homes
    Task = {ping, boot, refresh, peers}
    NoTask = NoTask
    KindOf <- Kinds
    QueueOf <- Queues
    TargetOf <- Targets
    Retries = 2
    NumConcurrent = 1
    Alpha = 2
    MaxTold = 2
    MaxOut = 1
    Setups <- AllSetups
SPECIFICATION FairSpec
INVARIANTS
    TableOK
    CallbacksAlive
PROPERTIES
    NodesKept
    TasksEnd
