\* Two streams fetch two pieces of two blocks through a small write cache;
\* connections drop, segments change hands, and the process stops or crashes
\* and starts again.
CONSTANTS
    s1 = s1
    s2 = s2
    p1 = p1
    p2 = p2
    NumPieces = 2
    BlocksPerPiece = 2
    BlockLength = 2
    CacheOn = TRUE
    CacheLimit = 3
    HashKnown = FALSE
    MaxDiskFailures = 0
    Stream = {s1, s2}
    BadStream = {}
    P2P = FALSE
    Peer = {}
    BadPeer = {}
    PeerHas <- NoPeers
    AllowedFast <- NoPeers
    MaxOutstanding = 1
    MaxSaveFailures = 0
    MaxStarts = 1
SYMMETRY StreamSymmetry
SPECIFICATION Spec
INVARIANTS
    StreamAligned
    RecordedIsOnDisk
    WrittenIsThere
