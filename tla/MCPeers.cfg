\* A peer with both pieces and one that has only the first and sends wrong
\* data; they choke, reject, answer late, time out and leave, up to end
\* game; one write of the cache may fail.
CONSTANTS
    s1 = s1
    s2 = s2
    p1 = p1
    p2 = p2
    NumPieces = 2
    BlocksPerPiece = 2
    BlockLength = 1
    CacheOn = TRUE
    CacheLimit = 1
    HashKnown = TRUE
    MaxDiskFailures = 1
    Stream = {}
    BadStream = {}
    P2P = TRUE
    Peer = {p1, p2}
    BadPeer = {p2}
    PeerHas <- FirstAndAll
    AllowedFast <- FirstAllowedFast
    MaxOutstanding = 2
    MaxSaveFailures = 0
    MaxStarts = 0
SPECIFICATION Spec
INVARIANTS
    InFlightIncomplete
    BlockAskedOnce
