\* A download with an unparsable URI and a UDP tracker in the first tier and
\* a reliable HTTP tracker in the second, over a network that loses,
\* duplicates and delays.  Everything may have ended: no deadlock check.
CONSTANTS
    d1 = d1
    d2 = d2
    u1 = u1
    w1 = w1
    bad = bad
    Download = {d1}
    UdpHost = {u1}
    Tiers <- TwoTiers
    Unparsable = {bad}
    Reliable = {w1}
    Finishes = {d1}
    UserHalts = {d1}
SPECIFICATION FairSpec
CHECK_DEADLOCK FALSE
INVARIANTS
    EventsInOrder
PROPERTIES
    HaltEndsAnnounce
    ReachesReliable
