\* A web server, a peer and a peer that sends wrong data fetch the blocks of
\* one piece; the process may crash and start again, and one save of the
\* control file may fail.
CONSTANTS
    s1 = s1
    s2 = s2
    p1 = p1
    p2 = p2
    NumPieces = 1
    BlocksPerPiece = 2
    BlockLength = 1
    CacheOn = TRUE
    CacheLimit = 1
    HashKnown = TRUE
    MaxDiskFailures = 0
    Stream = {s1}
    BadStream = {}
    P2P = TRUE
    Peer = {p1, p2}
    BadPeer = {p2}
    PeerHas <- AllPieces
    AllowedFast <- NoneAllowedFast
    MaxOutstanding = 2
    MaxSaveFailures = 1
    MaxStarts = 1
SPECIFICATION Spec
INVARIANTS
    TypeOK
    PieceHolders
    DoneIsGood
