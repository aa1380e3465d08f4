----------------------------- MODULE FileEntry -----------------------------
(***************************************************************************)
(* The URIs of a file and the Request objects made from them: the ones     *)
(* commands work with (in flight) and the ones put aside for the next      *)
(* command (pooled).                                                       *)
(*                                                                         *)
(* The order of uris_ and of the pool (by speed) is what URI selectors and *)
(* measurements make of it: a selection is a choice.  spentUris_ is only   *)
(* read as a set.  Slow start does not engage below five connections per   *)
(* server.                                                                 *)
(***************************************************************************)
EXTENDS Integers, FiniteSets

CONSTANTS
    Uri,        \* the URIs of the file
    HostOf,     \* [Uri -> host]
    MaxRequest, \* bound on the Request objects alive
    ReuseUri    \* --reuse-uri

NoReq == 0
NoUri == "nouri"
NoAddr == "noaddr"
Req == 1 .. MaxRequest

ASSUME FileEntryAssumption ==
    /\ Uri # {} /\ MaxRequest \in Nat \ {0} /\ ReuseUri \in BOOLEAN

\* asleep: the wake time is to come.  addr: the address connected to.
Unused == [uri |-> NoUri, tries |-> 0, asleep |-> FALSE, addr |-> NoAddr]

InitFileEntry ==
    [uris |-> Uri, spent |-> {}, errs |-> {}, pool |-> {}, inflight |-> {},
     reqs |-> [r \in Req |-> Unused]]

IsFileEntry(f) ==
    /\ f.uris \subseteq Uri /\ f.spent \subseteq Uri /\ f.errs \subseteq Uri
    /\ f.pool \subseteq Req /\ f.inflight \subseteq Req
    /\ f.pool \cap f.inflight = {}
    /\ \A r \in f.pool \cup f.inflight : f.reqs[r].uri \in Uri

----------------------------------------------------------------------------
HostCount(f, S, h) == Cardinality({r \in S : HostOf[f.reqs[r].uri] = h})

\* The URIs whose host may be connected to once more.
Selectable(f, S, limit) ==
    {u \in f.uris : HostCount(f, S, HostOf[u]) < limit}

reuseUri(f, ignore) ==
    [f EXCEPT !.uris = @ \cup {u \in f.spent \ f.errs : HostOf[u] \notin ignore}]

\* A new Request object, as long as there are fewer than the bound.
NewRequest(f) ==
    LET free == Req \ (f.pool \cup f.inflight)
    IN  {r \in free : \A q \in free : r <= q}

\* Request r is made of URI u.
MakeRequest(f, u, r) ==
    [fe |-> [f EXCEPT !.uris = @ \ {u}, !.spent = @ \cup {u},
                      !.inflight = @ \cup {r},
                      !.reqs[r] = [Unused EXCEPT !.uri = u]],
     req |-> r]

\* URIs are used again when no other can be.
Refilled(f, S, limit) ==
    IF Selectable(f, S, limit) # {} \/ ~ReuseUri THEN f
    ELSE reuseUri(f, {HostOf[u] : u \in f.uris})

\* The results [fe, req] of taking a URI, none if every host is busy.
getRequestWithInFlightHosts(f, S, limit) ==
    LET g == Refilled(f, S, limit)
        may == Selectable(g, S, limit)
    IN  IF may = {} THEN {[fe |-> g, req |-> NoReq]}
        ELSE {MakeRequest(g, u, r) : u \in may, r \in NewRequest(g)}

TakeFromPool(f, r) ==
    [fe |-> [f EXCEPT !.pool = @ \ {r}, !.inflight = @ \cup {r}], req |-> r]

\* The pooled request first instead of nothing, or of a new one for its URI.
Instead(f, n, first) ==
    IF n.req = NoReq \/ n.fe.reqs[n.req].uri = f.reqs[first].uri
    THEN TakeFromPool(n.fe, first) ELSE n

\* Fault: pooled requests are not counted when a new one is made beside them.
GetIgnoringPool(f, limit) ==
    LET awake == {r \in f.pool : ~f.reqs[r].asleep} IN
    IF awake # {} THEN {TakeFromPool(f, r) : r \in awake}
    ELSE getRequestWithInFlightHosts(f, f.inflight, limit)

\* A pooled request that is awake, or else a new one, or else a pooled one
\* that is still asleep.
getRequest(f, limit) ==
    LET awake == {r \in f.pool : ~f.reqs[r].asleep}
    IN  IF f.pool = {}
        THEN getRequestWithInFlightHosts(f, f.inflight, limit)
        ELSE IF awake # {} THEN {TakeFromPool(f, r) : r \in awake}
        ELSE {Instead(f, n, first) :
                n \in getRequestWithInFlightHosts(f, f.inflight \cup f.pool, limit),
                first \in f.pool}

removeRequest(f, r) == [f EXCEPT !.inflight = @ \ {r}, !.reqs[r] = Unused]

poolRequest(f, r) ==
    [f EXCEPT !.pool = @ \cup {r}, !.inflight = @ \ {r}]

removeIdenticalURI(f, u) == [f EXCEPT !.uris = @ \ {u}]

addURIResult(f, u) == [f EXCEPT !.errs = @ \cup {u}]

=============================================================================
