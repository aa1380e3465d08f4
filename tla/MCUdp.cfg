\* Two downloads share a UDP tracker over a network that loses, duplicates
\* and delays.  Everything may have ended: no deadlock check.
CONSTANTS
    d1 = d1
    d2 = d2
    u1 = u1
    w1 = w1
    bad = bad
    Download = {d1, d2}
    UdpHost = {u1}
    Tiers <- SharedTracker
    Unparsable = {bad}
    Reliable = {}
    Finishes = {}
    UserHalts = {}
SPECIFICATION Spec
SYMMETRY DownloadSymmetry
CHECK_DEADLOCK FALSE
INVARIANTS
    TypeOK
    RequestsAccountedFor
