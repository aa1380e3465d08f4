\* Three addresses, two of them on one IP address, and three commands; one
\* regular upload slot instead of three.  A download that has just begun
\* finds, connects to and accepts peers; one with three peers lets them talk
\* and chokes them.  A halted download stops: no deadlock check.
CONSTANTS
    a1 = a1
    a2 = a2
    a3 = a3
    i1 = i1
    i2 = i2
    Addr = {a1, a2, a3}
    IpOf <- Ips
    MaxPeerListSize = 2
    UnchokeSlots = 1
    MaxCuid = 3
    NumNewConnection = 2
    MaxPeers = 2
    RequireCrypto = FALSE
    Setups <- BothSetups
SPECIFICATION FairSpec
CHECK_DEADLOCK FALSE
INVARIANTS
    EachPeerOnce
    UploadSlots
PROPERTIES
    UnchokedInTurn
