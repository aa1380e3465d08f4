------------------------------ MODULE Sockets ------------------------------
(***************************************************************************)
(* What the commands of the engine share: the cache of resolved addresses  *)
(* (DNSCache) and the pool of idle connections (DownloadEngine), with the  *)
(* far end of the connections.                                             *)
(***************************************************************************)
EXTENDS Integers, Sequences, FiniteSets, FiniteSetsExt, SequencesExt

CONSTANTS
    Host,       \* names of servers
    AddrsOf,    \* [Host -> Seq(address)], as names are resolved
    MaxSocket,  \* bound on the sockets open
    MaxPool     \* MAX_POOL_SIZE

NoSock == 0
Sock == 1 .. MaxSocket

Address == UNION {ToSet(AddrsOf[h]) : h \in Host}

ASSUME SocketsAssumption ==
    /\ \A h \in Host : AddrsOf[h] \in Seq(Address) /\ AddrsOf[h] # <<>>
    /\ "noaddr" \notin Address
    /\ MaxSocket \in Nat \ {0} /\ MaxPool \in Nat \ {0}

NoSocket == [addr |-> "noaddr", open |-> FALSE, owed |-> 0]

\* good: the cached addresses not marked bad; cached: there is an entry.
\* open: the server has not closed the connection; owed: the responses it
\* has not delivered completely.
InitNet ==
    [cached |-> {}, bad |-> {}, pool |-> {},
     socks |-> [s \in Sock |-> NoSocket], faults |-> 0]

----------------------------------------------------------------------------
(***************************************************************************)
(* DNSCache, on the state n of the network.                                *)
(***************************************************************************)
\* The good addresses, by their places in the answer of the resolver.
findAll(n, h) ==
    IF h \in n.cached
    THEN {i \in DOMAIN AddrsOf[h] : <<h, AddrsOf[h][i]>> \notin n.bad} ELSE {}

find(n, h) == AddrsOf[h][Min(findAll(n, h))]

removeEntry(n, h) ==
    [n EXCEPT !.cached = @ \ {h}, !.bad = {b \in @ : b[1] # h}]

\* put of all the addresses a name resolves to: new ones are good.
putAll(n, h) == [n EXCEPT !.cached = @ \cup {h}]

\* The name is resolved unless a good address is cached.
resolveHostname(n, h) == IF findAll(n, h) # {} THEN n ELSE putAll(n, h)

\* Fault: an address that fails is the first one taken again.
MarkNothing(n, h, a) == n

markBad(n, h, a) ==
    IF h \in n.cached THEN [n EXCEPT !.bad = @ \cup {<<h, a>>}] ELSE n

\* An address has failed; an entry without a good address is removed.
AddressFailed(n, h, a) ==
    LET m == markBad(n, h, a)
    IN  IF findAll(m, h) = {} THEN removeEntry(m, h) ELSE m

----------------------------------------------------------------------------
(***************************************************************************)
(* Sockets.                                                                *)
(***************************************************************************)
FreeSock(n) == {s \in Sock : n.socks[s] = NoSocket}

OpenSocket(n, a) ==
    [n EXCEPT !.socks[Min(FreeSock(n))] =
        [addr |-> a, open |-> TRUE, owed |-> 0]]

CloseSocket(n, s) ==
    IF s = NoSock THEN n ELSE [n EXCEPT !.socks[s] = NoSocket]

\* The pools after poolSocket: a full pool gives up one of its sockets.
poolSocket(n, s) ==
    IF Cardinality(n.pool) < MaxPool THEN {[n EXCEPT !.pool = @ \cup {s}]}
    ELSE {[CloseSocket(n, t) EXCEPT !.pool = (@ \ {t}) \cup {s}] : t \in n.pool}

popPooledSocket(n, s) == [n EXCEPT !.pool = @ \ {s}]

\* findSocketPoolEntry passes over sockets that are readable: the server has
\* closed them.  The first address that has one decides.
Poolable(n, h) ==
    LET At(i) == {s \in n.pool : n.socks[s].addr = AddrsOf[h][i] /\ n.socks[s].open}
        k == {i \in findAll(n, h) : At(i) # {}}
    IN  IF k = {} THEN {} ELSE At(Min(k))

=============================================================================
