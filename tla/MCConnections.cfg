\* Two mirrors, one of them with an address that does not answer, the other
\* over HTTP or FTP; two commands.
CONSTANTS
    u1 = u1
    u2 = u2
    h1 = h1
    h2 = h2
    a1 = a1
    a2 = a2
    a3 = a3
    Uri = {u1, u2}
    HostOf <- Mirrors
    MaxRequest = 4
    ReuseUri = TRUE
    Host = {h1, h2}
    AddrsOf <- Addresses
    MaxSocket = 4
    MaxPool = 1
    NumPieces = 3
    Split = 2
    MaxTries = 5
    Setups <- PassSetups
    Dead = {a1}
SPECIFICATION FairSpec
INVARIANTS
    InFlightIsHeld
    HostLimit
    SocketHasOneUser
    
PROPERTIES
    GoodMirrorCompletes
