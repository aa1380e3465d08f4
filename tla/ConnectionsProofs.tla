------------------------- MODULE ConnectionsProofs -------------------------
(***************************************************************************)
(* The requests and connections of a download over HTTP and FTP, for any   *)
(* number of commands, URIs, servers, addresses and pieces.                *)
(***************************************************************************)
EXTENDS Connections, SetProofs

(***************************************************************************)
(* Requests.                                                               *)
(***************************************************************************)
Request ==
    [uri : Uri \cup {NoUri}, tries : Nat, asleep : BOOLEAN, addr : Address \cup {NoAddr}]

Entry ==
    [uris : SUBSET Uri, spent : SUBSET Uri, errs : SUBSET Uri, pool : SUBSET Req,
     inflight : SUBSET Req, reqs : [Req -> Request]]

IsEntry(f) ==
    /\ f \in Entry
    /\ f.pool \cap f.inflight = {}
    /\ \A r \in f.pool \cup f.inflight : f.reqs[r].uri \in Uri

\* Of the requests that are alive no host has more than the limit.
Fine(f, limit) ==
    /\ IsEntry(f)
    /\ \A h \in Host : HostCount(f, f.pool \cup f.inflight, h) <= limit

\* Sets of requests are finite.
LEMMA RequestsFinite ==
    ASSUME NEW S \in SUBSET Req
    PROVE  IsFiniteSet(S) /\ Cardinality(S) \in Nat
<1>1. IsFiniteSet(Req)
  BY FileEntryAssumption, FS_Interval DEF Req
<1> QED BY <1>1, FS_Subset, FS_CardinalityType

\* Fewer requests with the same URIs are no more for any host.
LEMMA CountFewer ==
    ASSUME NEW f, NEW g, NEW S \in SUBSET Req, NEW T \in SUBSET S, NEW h,
           \A r \in T : g.reqs[r].uri = f.reqs[r].uri
    PROVE  /\ HostCount(g, T, h) <= HostCount(f, S, h)
           /\ HostCount(f, S, h) \in Nat /\ HostCount(g, T, h) \in Nat
<1> DEFINE A == {r \in S : HostOf[f.reqs[r].uri] = h}
           B == {r \in T : HostOf[g.reqs[r].uri] = h}
<1>1. B \subseteq A /\ A \in SUBSET Req /\ B \in SUBSET Req
  OBVIOUS
<1>2. HostCount(f, S, h) = Cardinality(A) /\ HostCount(g, T, h) = Cardinality(B)
  BY DEF HostCount
<1> HIDE DEF A, B
<1>3. IsFiniteSet(A) /\ Cardinality(A) \in Nat /\ Cardinality(B) \in Nat
  BY <1>1, RequestsFinite
<1>4. Cardinality(B) <= Cardinality(A)
  BY <1>1, <1>3, FS_Subset
<1> QED BY <1>2, <1>3, <1>4

\* One request more is one more for its host only.
LEMMA CountOneMore ==
    ASSUME NEW f, NEW g, NEW S \in SUBSET Req, NEW r \in Req, NEW h,
           \A q \in S \ {r} : g.reqs[q].uri = f.reqs[q].uri
    PROVE  /\ HostCount(g, S \cup {r}, h) <= HostCount(f, S, h) + 1
           /\ HostOf[g.reqs[r].uri] # h =>
                HostCount(g, S \cup {r}, h) <= HostCount(f, S, h)
<1> DEFINE A == {q \in S : HostOf[f.reqs[q].uri] = h}
           B == {q \in S \cup {r} : HostOf[g.reqs[q].uri] = h}
<1>1. /\ B \subseteq A \cup {r} /\ A \in SUBSET Req /\ B \in SUBSET Req
      /\ HostOf[g.reqs[r].uri] # h => B \subseteq A
  OBVIOUS
<1>2. HostCount(f, S, h) = Cardinality(A) /\ HostCount(g, S \cup {r}, h) = Cardinality(B)
  BY DEF HostCount
<1> HIDE DEF A, B
<1>3. /\ IsFiniteSet(A) /\ Cardinality(A) \in Nat /\ Cardinality(B) \in Nat
      /\ IsFiniteSet(A \cup {r}) /\ Cardinality(A \cup {r}) \in Nat
  BY <1>1, RequestsFinite, FS_AddElement
<1>4. Cardinality(A \cup {r}) <= Cardinality(A) + 1
  BY <1>3, FS_AddElement
<1>5. Cardinality(B) <= Cardinality(A \cup {r})
  BY <1>1, <1>3, FS_Subset
<1>6. B \subseteq A => Cardinality(B) <= Cardinality(A)
  BY <1>3, FS_Subset
<1> QED BY <1>1, <1>2, <1>3, <1>4, <1>5, <1>6

\* Requests are given up, pooled or used again, or changed otherwise.
LEMMA FineFewer ==
    ASSUME NEW f, NEW g, NEW limit \in Nat, Fine(f, limit), IsEntry(g),
           g.pool \cup g.inflight \subseteq f.pool \cup f.inflight,
           \A r \in g.pool \cup g.inflight : g.reqs[r].uri = f.reqs[r].uri
    PROVE  Fine(g, limit)
<1> DEFINE S == f.pool \cup f.inflight
           T == g.pool \cup g.inflight
<1>1. S \in SUBSET Req /\ T \in SUBSET S /\ \A r \in T : g.reqs[r].uri = f.reqs[r].uri
  BY DEF Fine, IsEntry, Entry
<1>2. \A h \in Host : HostCount(f, S, h) <= limit
  BY DEF Fine
<1> HIDE DEF S, T
<1>3. ASSUME NEW h \in Host PROVE HostCount(g, T, h) <= limit
  BY <1>1, <1>2, CountFewer
<1> QED BY <1>3 DEF Fine, T

\* A request is pooled.
LEMMA FinePool ==
    ASSUME NEW f, NEW limit \in Nat, Fine(f, limit), NEW r \in f.inflight
    PROVE  /\ Fine(poolRequest(f, r), limit)
           /\ poolRequest(f, r).inflight = f.inflight \ {r}
           /\ poolRequest(f, r).reqs = f.reqs
<1> DEFINE g == poolRequest(f, r)
<1>1. IsEntry(f)
  BY DEF Fine
<1>2. /\ g \in Entry /\ g.pool = f.pool \cup {r} /\ g.inflight = f.inflight \ {r}
      /\ g.reqs = f.reqs
  BY <1>1 DEF poolRequest, IsEntry, Entry
<1> HIDE DEF g
<1>3. IsEntry(g)
  BY <1>1, <1>2 DEF IsEntry
<1>4. Fine(g, limit)
  BY <1>1, <1>2, <1>3, FineFewer
<1> QED BY <1>2, <1>4 DEF g

\* A pooled request is used again.
LEMMA FineTake ==
    ASSUME NEW f, NEW limit \in Nat, Fine(f, limit), NEW r \in f.pool
    PROVE  /\ Fine(TakeFromPool(f, r).fe, limit)
           /\ TakeFromPool(f, r).fe.inflight = f.inflight \cup {r}
           /\ TakeFromPool(f, r).fe.reqs = f.reqs
           /\ TakeFromPool(f, r).req = r
<1> DEFINE g == TakeFromPool(f, r).fe
<1>1. IsEntry(f)
  BY DEF Fine
<1>2. /\ g \in Entry /\ g.pool = f.pool \ {r} /\ g.inflight = f.inflight \cup {r}
      /\ g.reqs = f.reqs /\ TakeFromPool(f, r).req = r
  BY <1>1 DEF TakeFromPool, IsEntry, Entry
<1> HIDE DEF g
<1>3. IsEntry(g)
  BY <1>1, <1>2 DEF IsEntry
<1>4. Fine(g, limit)
  BY <1>1, <1>2, <1>3, FineFewer
<1> QED BY <1>2, <1>4 DEF g

\* A request is changed, but for its URI.
LEMMA FineTouch ==
    ASSUME NEW f, NEW limit \in Nat, Fine(f, limit), NEW r \in Req, NEW x \in Request,
           x.uri = f.reqs[r].uri, NEW g, g = [f EXCEPT !.reqs = [f.reqs EXCEPT ![r] = x]]
    PROVE  /\ Fine(g, limit) /\ g.pool = f.pool /\ g.inflight = f.inflight
           /\ \A q \in Req : g.reqs[q] = IF q = r THEN x ELSE f.reqs[q]
<1> DEFINE m == [f.reqs EXCEPT ![r] = x]
<1>1. IsEntry(f) /\ f \in Entry /\ f.reqs \in [Req -> Request]
      /\ f.pool \subseteq Req /\ f.inflight \subseteq Req
  BY DEF Fine, IsEntry, Entry
<1>2. m \in [Req -> Request] /\ \A q \in Req : m[q] = IF q = r THEN x ELSE f.reqs[q]
  BY <1>1
<1> HIDE DEF m
<1>3. /\ g \in Entry /\ g.pool = f.pool /\ g.inflight = f.inflight /\ g.reqs = m
  BY <1>1, <1>2 DEF m, Entry
<1>4. \A q \in Req : g.reqs[q].uri = f.reqs[q].uri
  BY <1>2, <1>3
<1>5. IsEntry(g)
  BY <1>1, <1>3, <1>4 DEF IsEntry
<1>6. Fine(g, limit)
  BY <1>1, <1>3, <1>4, <1>5, FineFewer
<1> QED BY <1>2, <1>3, <1>6

\* A URI has failed and its request is given up.
LEMMA FineDrop ==
    ASSUME NEW f, NEW limit \in Nat, Fine(f, limit), NEW r \in f.inflight, NEW u \in Uri,
           NEW g, g = removeRequest(removeIdenticalURI(addURIResult(f, u), u), r)
    PROVE  /\ Fine(g, limit) /\ g.pool = f.pool /\ g.inflight = f.inflight \ {r}
           /\ \A q \in Req : q # r => g.reqs[q] = f.reqs[q]
           /\ ~g.reqs[r].asleep
<1> DEFINE m == [f.reqs EXCEPT ![r] = Unused]
           f1 == addURIResult(f, u)
           f2 == removeIdenticalURI(f1, u)
<1>1. IsEntry(f) /\ f \in Entry /\ f.reqs \in [Req -> Request]
      /\ f.pool \subseteq Req /\ f.inflight \subseteq Req
  BY DEF Fine, IsEntry, Entry
<1>2. Unused \in Request /\ ~Unused.asleep
  BY DEF Unused, Request
<1>3. /\ m \in [Req -> Request] /\ m[r] = Unused
      /\ \A q \in Req : q # r => m[q] = f.reqs[q]
  BY <1>1, <1>2
<1>4. /\ f1 \in Entry /\ f1.pool = f.pool /\ f1.inflight = f.inflight /\ f1.reqs = f.reqs
  BY <1>1 DEF addURIResult, Entry
<1> HIDE DEF f1
<1>5. /\ f2 \in Entry /\ f2.pool = f.pool /\ f2.inflight = f.inflight /\ f2.reqs = f.reqs
  BY <1>4 DEF removeIdenticalURI, Entry
<1> HIDE DEF f2
<1>6. g = [f2 EXCEPT !.inflight = f2.inflight \ {r}, !.reqs = m]
  BY <1>5 DEF removeRequest, m, f1, f2
<1> HIDE DEF m
<1>7. g \in Entry /\ g.pool = f.pool /\ g.inflight = f.inflight \ {r} /\ g.reqs = m
  BY <1>3, <1>5, <1>6 DEF Entry
<1>8. \A q \in g.pool \cup g.inflight : q # r /\ q \in Req /\ g.reqs[q] = f.reqs[q]
  BY <1>1, <1>3, <1>7 DEF IsEntry
<1>9. IsEntry(g)
  BY <1>1, <1>7, <1>8 DEF IsEntry
<1>10. Fine(g, limit)
  BY <1>1, <1>7, <1>8, <1>9, FineFewer
<1> QED BY <1>2, <1>3, <1>7, <1>10

\* No request is to be had, or a new one is.
NoneNew(f, n) ==
    /\ n.req = NoReq /\ n.fe.pool = f.pool /\ n.fe.inflight = f.inflight
    /\ n.fe.reqs = f.reqs
OneNew(f, n, limit) ==
    /\ n.req \in Req \ (f.pool \cup f.inflight)
    /\ n.fe.pool = f.pool /\ n.fe.inflight = f.inflight \cup {n.req}
    /\ \A q \in Req : q # n.req => n.fe.reqs[q] = f.reqs[q]
    /\ ~n.fe.reqs[n.req].asleep
    /\ HostCount(f, f.pool \cup f.inflight, HostOf[n.fe.reqs[n.req].uri]) < limit

\* A request is made for a URI whose host has room, or none is.
LEMMA FineNew ==
    ASSUME NEW f, NEW limit \in Nat, Fine(f, limit),
           NEW n \in getRequestWithInFlightHosts(f, f.pool \cup f.inflight, limit)
    PROVE  Fine(n.fe, limit) /\ (NoneNew(f, n) \/ OneNew(f, n, limit))
<1> DEFINE S == f.pool \cup f.inflight
           g == Refilled(f, S, limit)
<1>1. IsEntry(f) /\ f \in Entry /\ S \in SUBSET Req
  BY DEF Fine, IsEntry, Entry
<1>2. /\ g \in Entry /\ g.pool = f.pool /\ g.inflight = f.inflight /\ g.reqs = f.reqs
  BY <1>1 DEF Refilled, reuseUri, Entry
<1>3. \/ n = [fe |-> g, req |-> NoReq]
      \/ \E u \in Selectable(g, S, limit), r \in NewRequest(g) :
           n = MakeRequest(g, u, r)
  <2> HIDE DEF S
  <2> QED BY DEF getRequestWithInFlightHosts, S
<1> HIDE DEF g
<1>4. IsEntry(g)
  BY <1>1, <1>2 DEF IsEntry
<1>5. CASE n = [fe |-> g, req |-> NoReq]
  <2>1. Fine(g, limit)
    BY <1>2, <1>4, FineFewer
  <2>2. n.fe = g /\ n.req = NoReq
    BY <1>5
  <2> QED BY <1>2, <2>1, <2>2 DEF NoneNew
<1>6. ASSUME NEW u \in Selectable(g, S, limit), NEW r \in NewRequest(g),
             n = MakeRequest(g, u, r)
      PROVE  Fine(n.fe, limit) /\ OneNew(f, n, limit)
  <2> DEFINE x == [Unused EXCEPT !.uri = u]
             m == [g.reqs EXCEPT ![r] = x]
             k == n.fe
  <2>1. r \in Req /\ r \notin S
    BY <1>2 DEF NewRequest
  <2>2. u \in Uri /\ u \in g.uris /\ HostCount(g, S, HostOf[u]) < limit
    BY <1>2 DEF Selectable, Entry
  <2>3. x \in Request /\ x.uri = u /\ ~x.asleep
    BY <2>2 DEF Unused, Request
  <2> HIDE DEF x
  <2>4. g.reqs \in [Req -> Request]
    BY <1>2 DEF Entry
  <2>5. m \in [Req -> Request] /\ m[r] = x /\ \A q \in Req : q # r => m[q] = f.reqs[q]
    BY <1>2, <2>1, <2>3, <2>4
  <2>6. k = [g EXCEPT !.uris = g.uris \ {u}, !.spent = g.spent \cup {u},
                      !.inflight = g.inflight \cup {r}, !.reqs = m] /\ n.req = r
    BY <1>6 DEF MakeRequest, m, x
  <2> HIDE DEF k, m
  <2>7. k \in Entry /\ k.pool = f.pool /\ k.inflight = f.inflight \cup {r} /\ k.reqs = m
    BY <1>2, <2>1, <2>2, <2>5, <2>6 DEF Entry
  <2>8. IsEntry(k)
    BY <1>1, <2>1, <2>2, <2>3, <2>5, <2>7 DEF IsEntry
  <2>9. HostCount(f, S, HostOf[u]) < limit
    BY <1>2, <2>2 DEF HostCount
  <2>10. OneNew(f, n, limit)
    BY <2>1, <2>3, <2>5, <2>6, <2>7, <2>9 DEF OneNew, k
  <2>11. k.pool \cup k.inflight = S \cup {r}
    BY <2>7
  <2>12. ASSUME NEW h \in Host PROVE HostCount(k, S \cup {r}, h) <= limit
    <3>1. \A q \in S \ {r} : k.reqs[q].uri = f.reqs[q].uri
      BY <1>1, <2>5, <2>7
    <3>2. /\ HostCount(k, S \cup {r}, h) <= HostCount(f, S, h) + 1
          /\ HostOf[k.reqs[r].uri] # h =>
               HostCount(k, S \cup {r}, h) <= HostCount(f, S, h)
      BY <1>1, <2>1, <3>1, CountOneMore
    <3>3. HostCount(f, S, h) <= limit /\ HostCount(f, S, h) \in Nat
      <4>1. HostCount(f, S, h) <= limit
        BY DEF Fine
      <4>2. S \in SUBSET S /\ \A q \in S : f.reqs[q].uri = f.reqs[q].uri
        OBVIOUS
      <4> QED BY <1>1, <4>1, <4>2, CountFewer
    <3>4. HostCount(k, S \cup {r}, h) \in Nat
      <4>1. (S \cup {r}) \in SUBSET Req
        BY <1>1, <2>1
      <4> HIDE DEF S
      <4> QED BY <4>1, CountFewer
    <3>5. HostOf[k.reqs[r].uri] = HostOf[u]
      BY <2>3, <2>5, <2>7
    <3> HIDE DEF S
    <3>6. CASE h = HostOf[u]
      BY <2>9, <3>2, <3>3, <3>4, <3>6
    <3>7. CASE h # HostOf[u]
      BY <3>2, <3>3, <3>4, <3>5, <3>7
    <3> QED BY <3>6, <3>7
  <2>13. Fine(k, limit)
    BY <2>8, <2>11, <2>12 DEF Fine
  <2> QED BY <2>10, <2>13 DEF k
<1> QED BY <1>3, <1>5, <1>6

\* What getRequest does: nothing, or a request is in flight that was not.
Got(f, n) ==
    /\ f.inflight \subseteq n.fe.inflight
    /\ \A q \in f.inflight : n.fe.reqs[q] = f.reqs[q]
    /\ \A q \in Req : n.fe.reqs[q] = f.reqs[q] \/ ~n.fe.reqs[q].asleep
    /\ \/ n.req = NoReq /\ n.fe.inflight = f.inflight
       \/ n.req \in Req \ f.inflight /\ n.req \in n.fe.inflight

\* No other request is in flight then.
GotOne(f, n) == n.fe.inflight \subseteq f.inflight \cup {n.req}

\* All pooled requests are asleep: one of them is used instead of a new one
\* for its URI.
LEMMA FineInstead ==
    ASSUME NEW f, NEW limit \in Nat, Fine(f, limit), NEW first \in f.pool,
           NEW k \in getRequestWithInFlightHosts(f, f.pool \cup f.inflight, limit),
           NEW n, n = Instead(f, k, first)
    PROVE  Fine(n.fe, limit) /\ Got(f, n) /\ (limit = 1 => GotOne(f, n))
<1>1. IsEntry(f) /\ f \in Entry /\ f.pool \subseteq Req /\ f.inflight \subseteq Req
      /\ f.pool \cap f.inflight = {}
  BY DEF Fine, IsEntry, Entry
<1>2. Fine(k.fe, limit) /\ (NoneNew(f, k) \/ OneNew(f, k, limit))
  BY FineNew
<1>3. k.fe.pool = f.pool
  BY <1>2 DEF NoneNew, OneNew
<1>4. CASE n = k /\ k.req # NoReq
  <2>1. OneNew(f, k, limit)
    BY <1>2, <1>4 DEF NoneNew
  <2>2. Got(f, n) /\ GotOne(f, n)
    BY <1>1, <1>4, <2>1 DEF Got, GotOne, OneNew
  <2> QED BY <1>2, <1>4, <2>2
<1>5. CASE n = TakeFromPool(k.fe, first)
  <2>1. /\ Fine(n.fe, limit) /\ n.fe.inflight = k.fe.inflight \cup {first}
        /\ n.fe.reqs = k.fe.reqs /\ n.req = first
    BY <1>2, <1>3, <1>5, FineTake
  <2>2. CASE NoneNew(f, k)
    BY <1>1, <2>1, <2>2 DEF NoneNew, Got, GotOne
  <2>3. CASE OneNew(f, k, limit)
    <3>1. Got(f, n)
      BY <1>1, <2>1, <2>3 DEF OneNew, Got
    <3>2. k.req # NoReq /\ k.req # first
      BY <2>3 DEF OneNew, Req, NoReq
    <3>3. CASE k.fe.reqs[k.req].uri = f.reqs[first].uri
      <4> DEFINE S == f.pool \cup f.inflight
                 h == HostOf[f.reqs[first].uri]
      <4>1. HostCount(f, S, h) < limit
        BY <2>3, <3>3 DEF OneNew
      <4>2. S \in SUBSET Req /\ first \in S
        BY <1>1
      <4> HIDE DEF S
      <4>3. HostCount(f, S, h) # 0 /\ HostCount(f, S, h) \in Nat
        <5> DEFINE A == {r \in S : HostOf[f.reqs[r].uri] = h}
        <5>1. A \in SUBSET Req /\ first \in A
          BY <4>2
        <5>2. HostCount(f, S, h) = Cardinality(A)
          BY DEF HostCount
        <5> HIDE DEF A
        <5>3. IsFiniteSet(A) /\ Cardinality(A) \in Nat
          BY <5>1, RequestsFinite
        <5> QED BY <5>1, <5>2, <5>3, FS_EmptySet
      <4> HIDE DEF h
      <4>4. limit # 1
        BY <4>1, <4>3
      <4> QED BY <2>1, <3>1, <4>4
    <3>4. CASE k.fe.reqs[k.req].uri # f.reqs[first].uri
      <4>1. n = k
        BY <3>2, <3>4 DEF Instead
      <4>2. n.req = k.req
        BY <4>1
      <4> QED BY <2>1, <3>2, <4>2
    <3> QED BY <3>3, <3>4
  <2> QED BY <1>2, <2>2, <2>3
<1> QED BY <1>4, <1>5 DEF Instead

\* What FileEntry::getRequest keeps of the requests.
LEMMA FineGet ==
    ASSUME NEW f, NEW limit \in Nat, Fine(f, limit), NEW n \in getRequest(f, limit)
    PROVE  /\ Fine(n.fe, limit) /\ Got(f, n)
           /\ limit = 1 \/ (\A r \in Req : ~f.reqs[r].asleep) => GotOne(f, n)
<1> DEFINE awake == {r \in f.pool : ~f.reqs[r].asleep}
<1>1. IsEntry(f) /\ f \in Entry /\ f.pool \subseteq Req /\ f.inflight \subseteq Req
      /\ f.pool \cap f.inflight = {}
  BY DEF Fine, IsEntry, Entry
<1>2. CASE f.pool = {}
  <2>1. f.pool \cup f.inflight = f.inflight
    BY <1>2
  <2>2. n \in getRequestWithInFlightHosts(f, f.inflight, limit)
    BY <1>2 DEF getRequest
  <2>3. Fine(n.fe, limit) /\ (NoneNew(f, n) \/ OneNew(f, n, limit))
    BY <2>1, <2>2, FineNew
  <2>4. Got(f, n) /\ GotOne(f, n)
    BY <1>1, <2>3 DEF Got, GotOne, NoneNew, OneNew
  <2> QED BY <2>3, <2>4
<1>3. CASE f.pool # {} /\ awake # {}
  <2>1. PICK r \in awake : n = TakeFromPool(f, r)
    BY <1>3 DEF getRequest
  <2>2. /\ Fine(n.fe, limit) /\ n.fe.inflight = f.inflight \cup {r}
        /\ n.fe.reqs = f.reqs /\ n.req = r
    BY <2>1, FineTake
  <2>3. Got(f, n) /\ GotOne(f, n)
    BY <1>1, <2>2 DEF Got, GotOne
  <2> QED BY <2>2, <2>3
<1>4. CASE f.pool # {} /\ awake = {}
  <2>1. PICK k \in getRequestWithInFlightHosts(f, f.inflight \cup f.pool, limit),
             first \in f.pool : n = Instead(f, k, first)
    BY <1>4 DEF getRequest
  <2>2. f.inflight \cup f.pool = f.pool \cup f.inflight
    OBVIOUS
  <2>3. Fine(n.fe, limit) /\ Got(f, n) /\ (limit = 1 => GotOne(f, n))
    BY <2>1, <2>2, FineInstead
  <2>4. \E r \in Req : f.reqs[r].asleep
    BY <1>1, <1>4
  <2> QED BY <2>3, <2>4
<1> QED BY <1>2, <1>3, <1>4

----------------------------------------------------------------------------
(***************************************************************************)
(* Connections.                                                            *)
(***************************************************************************)
SocketState == [addr : Address \cup {NoAddr}, open : BOOLEAN, owed : Nat]

Network ==
    [cached : SUBSET Host, bad : SUBSET (Host \X (Address \cup {NoAddr})),
     pool : SUBSET Sock, socks : [Sock -> SocketState], faults : Nat]

\* Nothing is done to the sockets.
Same(n, k) == k \in Network /\ k.pool = n.pool /\ k.socks = n.socks

\* Faults counted and changes to the cache of addresses leave the sockets
\* alone.
LEMMA SameNet ==
    ASSUME NEW n \in Network, NEW h \in Host, NEW a \in Address \cup {NoAddr}
    PROVE  /\ Same(n, CountFault(n)) /\ Same(n, removeEntry(n, h)) /\ Same(n, putAll(n, h))
           /\ Same(n, markBad(n, h, a)) /\ Same(n, resolveHostname(n, h))
           /\ Same(n, AddressFailed(n, h, a))
<1>1. ASSUME NEW k \in Network PROVE Same(k, CountFault(k))
  BY DEF Network, CountFault, Same
<1>2. ASSUME NEW k \in Network PROVE Same(k, removeEntry(k, h))
  <2> DEFINE b == {x \in k.bad : x[1] # h}
  <2>1. removeEntry(k, h) = [k EXCEPT !.cached = k.cached \ {h}, !.bad = b]
    BY DEF removeEntry
  <2>2. b \in SUBSET (Host \X (Address \cup {NoAddr}))
    BY DEF Network
  <2> HIDE DEF b
  <2> QED BY <2>1, <2>2 DEF Network, Same
<1>3. ASSUME NEW k \in Network PROVE Same(k, putAll(k, h))
  BY DEF Network, putAll, Same
<1>4. ASSUME NEW k \in Network PROVE Same(k, markBad(k, h, a))
  BY DEF Network, markBad, Same
<1>5. Same(n, n)
  BY DEF Same
<1>6. Same(n, resolveHostname(n, h))
  BY <1>3, <1>5 DEF resolveHostname
<1>7. Same(n, AddressFailed(n, h, a))
  <2> DEFINE k == markBad(n, h, a)
  <2>1. Same(n, k) /\ k \in Network
    BY <1>4 DEF Same
  <2>2. AddressFailed(n, h, a) = k \/ AddressFailed(n, h, a) = removeEntry(k, h)
    BY DEF AddressFailed
  <2> HIDE DEF k
  <2>3. Same(k, removeEntry(k, h))
    BY <1>2, <2>1
  <2> QED BY <2>1, <2>2, <2>3 DEF Same
<1> QED BY <1>1, <1>2, <1>3, <1>4, <1>6, <1>7

\* Socket s is given the state x.
SetSocket(n, s, x) == [n EXCEPT !.socks = [n.socks EXCEPT ![s] = x]]

\* Such a change leaves the other sockets and the pool alone.
LEMMA SocketSet ==
    ASSUME NEW n \in Network, NEW s \in Sock, NEW x \in SocketState
    PROVE  /\ SetSocket(n, s, x) \in Network /\ SetSocket(n, s, x).pool = n.pool
           /\ SetSocket(n, s, x).socks[s] = x
           /\ \A t \in Sock : t # s => SetSocket(n, s, x).socks[t] = n.socks[t]
<1> DEFINE m == [n.socks EXCEPT ![s] = x]
<1>1. n.socks \in [Sock -> SocketState]
  BY DEF Network
<1>2. m \in [Sock -> SocketState] /\ m[s] = x /\ \A t \in Sock : t # s => m[t] = n.socks[t]
  BY <1>1
<1> HIDE DEF m
<1>3. /\ SetSocket(n, s, x) \in Network /\ SetSocket(n, s, x).pool = n.pool
      /\ SetSocket(n, s, x).socks = m
  BY <1>2 DEF Network, SetSocket, m
<1> QED BY <1>2, <1>3

\* The pool is changed to P.
LEMMA PoolSet ==
    ASSUME NEW n \in Network, NEW P \in SUBSET Sock
    PROVE  /\ [n EXCEPT !.pool = P] \in Network /\ [n EXCEPT !.pool = P].pool = P
           /\ [n EXCEPT !.pool = P].socks = n.socks
BY DEF Network

\* The operations are such changes.
LEMMA SocketWords ==
    ASSUME NEW n \in Network, NEW s \in Sock, NEW a
    PROVE  /\ CloseSocket(n, s) = SetSocket(n, s, NoSocket)
           /\ NoSocket \in SocketState
           /\ n.socks[s] \in SocketState
           /\ [n EXCEPT !.socks[s].owed = @ + 1]
                = SetSocket(n, s, [n.socks[s] EXCEPT !.owed = @ + 1])
           /\ [n EXCEPT !.socks[s].owed = @ - 1]
                = SetSocket(n, s, [n.socks[s] EXCEPT !.owed = @ - 1])
           /\ [n EXCEPT !.socks[s].addr = a]
                = SetSocket(n, s, [n.socks[s] EXCEPT !.addr = a])
           /\ [n EXCEPT !.socks[s].open = FALSE]
                = SetSocket(n, s, [n.socks[s] EXCEPT !.open = FALSE])
<1>1. s # NoSock
  BY SocketsAssumption DEF Sock, NoSock
<1>2. CloseSocket(n, s) = SetSocket(n, s, NoSocket)
  BY <1>1 DEF CloseSocket, SetSocket, Network
<1>3. NoSocket \in SocketState
  BY DEF NoSocket, SocketState, NoAddr
<1>4. n.socks[s] \in SocketState
  BY DEF Network
<1>5. /\ [n EXCEPT !.socks[s].owed = @ + 1]
                = SetSocket(n, s, [n.socks[s] EXCEPT !.owed = @ + 1])
      /\ [n EXCEPT !.socks[s].owed = @ - 1]
                = SetSocket(n, s, [n.socks[s] EXCEPT !.owed = @ - 1])
      /\ [n EXCEPT !.socks[s].addr = a]
                = SetSocket(n, s, [n.socks[s] EXCEPT !.addr = a])
      /\ [n EXCEPT !.socks[s].open = FALSE]
                = SetSocket(n, s, [n.socks[s] EXCEPT !.open = FALSE])
  BY <1>4 DEF SetSocket, Network
<1> QED BY <1>2, <1>3, <1>4, <1>5

\* A connection somebody uses, with what the server owes over it.
InUse(n, s, owed) ==
    s \in Sock /\ s \notin n.pool /\ n.socks[s].addr \in Address /\ n.socks[s].owed = owed

\* Idle connections are connections and owe nothing.
PoolGood(n) == \A s \in n.pool : n.socks[s].addr \in Address /\ n.socks[s].owed = 0

\* A command goes over from connection old to connection new, and leaves the
\* ones of others alone.
NetStep(n, k, old, new) ==
    /\ k \in Network /\ PoolGood(k)
    /\ \A s \in Sock : s # old /\ s \notin n.pool /\ n.socks[s].addr \in Address =>
          s \notin k.pool /\ k.socks[s] = n.socks[s] /\ s # new

\* What a step does beside the sockets does not matter.
LEMMA NetStepSame ==
    ASSUME NEW m, NEW n, NEW k, NEW l, NEW old, NEW new,
           Same(m, n), NetStep(n, k, old, new), Same(k, l)
    PROVE  NetStep(m, l, old, new)
BY DEF Same, NetStep, PoolGood

\* A command gives up its connection.
LEMMA NetClose ==
    ASSUME NEW n \in Network, PoolGood(n), NEW s \in Sock \cup {NoSock}, s \notin n.pool
    PROVE  NetStep(n, CloseSocket(n, s), s, NoSock)
<1>1. NoSock \notin Sock
  BY DEF Sock, NoSock
<1>2. CASE s = NoSock
  <2>1. CloseSocket(n, s) = n
    BY <1>2 DEF CloseSocket
  <2> QED BY <1>1, <2>1 DEF NetStep
<1>3. CASE s \in Sock
  <2>1. NoSocket \in SocketState /\ CloseSocket(n, s) = SetSocket(n, s, NoSocket)
    BY <1>3, SocketWords
  <2> DEFINE k == SetSocket(n, s, NoSocket)
  <2>2. /\ k \in Network /\ k.pool = n.pool
        /\ \A t \in Sock : t # s => k.socks[t] = n.socks[t]
    BY <1>3, <2>1, SocketSet
  <2> HIDE DEF k
  <2>3. k.pool \subseteq Sock
    BY <2>2 DEF Network
  <2>4. NetStep(n, k, s, NoSock)
    BY <1>1, <2>2, <2>3 DEF NetStep, PoolGood
  <2> QED BY <2>1, <2>4 DEF k
<1> QED BY <1>2, <1>3

\* A connection over which nothing is owed is pooled.
LEMMA NetPool ==
    ASSUME NEW n \in Network, PoolGood(n), NEW s, InUse(n, s, 0),
           NEW k \in poolSocket(n, s)
    PROVE  NetStep(n, k, s, NoSock)
<1>1. s \in Sock /\ s \notin n.pool /\ NoSock \notin Sock /\ n.pool \subseteq Sock
  BY DEF InUse, Network, Sock, NoSock
<1>2. CASE k = [n EXCEPT !.pool = n.pool \cup {s}]
  <2>1. k \in Network /\ k.pool = n.pool \cup {s} /\ k.socks = n.socks
    BY <1>1, <1>2, PoolSet
  <2> QED BY <1>1, <2>1 DEF NetStep, PoolGood, InUse
<1>3. ASSUME NEW t \in n.pool,
             k = [CloseSocket(n, t) EXCEPT !.pool = (@ \ {t}) \cup {s}]
      PROVE  NetStep(n, k, s, NoSock)
  <2> DEFINE m == CloseSocket(n, t)
  <2>1. /\ m \in Network /\ m.pool = n.pool
        /\ \A q \in Sock : q # t => m.socks[q] = n.socks[q]
    <3>1. t \in Sock
      BY <1>1
    <3>2. NoSocket \in SocketState /\ m = SetSocket(n, t, NoSocket)
      BY <3>1, SocketWords
    <3> QED BY <3>1, <3>2, SocketSet
  <2>2. k = [m EXCEPT !.pool = (m.pool \ {t}) \cup {s}]
    BY <1>3
  <2> HIDE DEF m
  <2>3. k \in Network /\ k.pool = (n.pool \ {t}) \cup {s} /\ k.socks = m.socks
    BY <1>1, <2>1, <2>2, PoolSet
  <2> QED BY <1>1, <2>1, <2>3 DEF NetStep, PoolGood, InUse
<1>4. \/ k = [n EXCEPT !.pool = n.pool \cup {s}]
      \/ \E t \in n.pool : k = [CloseSocket(n, t) EXCEPT !.pool = (@ \ {t}) \cup {s}]
  BY DEF poolSocket
<1> QED BY <1>2, <1>3, <1>4

\* The connection after a response.
LEMMA NetAfterResponse ==
    ASSUME NEW n \in Network, PoolGood(n), NEW s, InUse(n, s, 1),
           NEW whole, NEW keep, NEW k \in AfterResponse(n, s, whole, keep)
    PROVE  NetStep(n, k, s, NoSock)
<1>1. s \in Sock /\ s \notin n.pool /\ NoSock \notin Sock /\ n.pool \subseteq Sock
  BY DEF InUse, Network, Sock, NoSock
<1> DEFINE x == [n.socks[s] EXCEPT !.owed = @ - 1]
           m == SetSocket(n, s, x)
<1>2. k \in poolSocket(m, s) \/ k = CloseSocket(n, s)
  <2>1. [n EXCEPT !.socks[s].owed = @ - 1] = m
    BY <1>1, SocketWords
  <2> QED BY <2>1 DEF AfterResponse
<1>3. x \in SocketState /\ x.addr \in Address /\ x.owed = 0
  <2>1. n.socks[s] \in SocketState /\ n.socks[s].owed = 1 /\ n.socks[s].addr \in Address
    BY <1>1 DEF Network, InUse
  <2> QED BY <2>1 DEF SocketState
<1> HIDE DEF x
<1>4. /\ m \in Network /\ m.pool = n.pool /\ m.socks[s] = x
      /\ \A t \in Sock : t # s => m.socks[t] = n.socks[t]
  BY <1>1, <1>3, SocketSet
<1> HIDE DEF m
<1>5. PoolGood(m) /\ InUse(m, s, 0)
  BY <1>1, <1>3, <1>4 DEF PoolGood, InUse
<1>6. CASE k \in poolSocket(m, s)
  <2>1. NetStep(m, k, s, NoSock)
    BY <1>4, <1>5, <1>6, NetPool
  <2> QED BY <1>1, <1>4, <2>1 DEF NetStep
<1>7. CASE k = CloseSocket(n, s)
  BY <1>1, <1>7, NetClose
<1> QED BY <1>2, <1>6, <1>7

\* A message is sent over a connection, one of its own or an idle one, and
\* perhaps to another address of the host.
LEMMA NetSend ==
    ASSUME NEW n \in Network, PoolGood(n), NEW s \in Sock, n.socks[s].addr \in Address,
           n.socks[s].owed = 0, s \notin n.pool
    PROVE  LET k == [n EXCEPT !.socks[s].owed = @ + 1] IN
           NetStep(n, k, s, s) /\ InUse(k, s, 1)
<1> DEFINE x == [n.socks[s] EXCEPT !.owed = @ + 1]
           m == SetSocket(n, s, x)
<1>1. [n EXCEPT !.socks[s].owed = @ + 1] = m
  BY SocketWords
<1>2. x \in SocketState /\ x.addr \in Address /\ x.owed = 1
  <2>1. n.socks[s] \in SocketState
    BY DEF Network
  <2> QED BY <2>1 DEF SocketState
<1> HIDE DEF x
<1>3. /\ m \in Network /\ m.pool = n.pool /\ m.socks[s] = x
      /\ \A t \in Sock : t # s => m.socks[t] = n.socks[t]
  BY <1>2, SocketSet
<1> HIDE DEF m
<1>4. m.pool \subseteq Sock
  BY <1>3 DEF Network
<1>5. NetStep(n, m, s, s) /\ InUse(m, s, 1)
  BY <1>2, <1>3, <1>4 DEF NetStep, PoolGood, InUse
<1> QED BY <1>1, <1>5

\* An idle connection is used again.
LEMMA NetReuse ==
    ASSUME NEW n \in Network, PoolGood(n), NEW s \in n.pool
    PROVE  LET k == [popPooledSocket(n, s) EXCEPT !.socks[s].owed = @ + 1] IN
           NetStep(n, k, NoSock, s) /\ InUse(k, s, 1)
<1> DEFINE m == popPooledSocket(n, s)
           k == [m EXCEPT !.socks[s].owed = @ + 1]
<1>1. n.pool \subseteq Sock /\ s \in Sock
  BY DEF Network
<1>2. m \in Network /\ m.pool = n.pool \ {s} /\ m.socks = n.socks
  BY <1>1, PoolSet DEF popPooledSocket
<1> HIDE DEF m
<1>3. PoolGood(m) /\ m.socks[s].addr \in Address /\ m.socks[s].owed = 0 /\ s \notin m.pool
  BY <1>2 DEF PoolGood
<1>4. NetStep(m, k, s, s) /\ InUse(k, s, 1)
  BY <1>1, <1>2, <1>3, NetSend
<1> HIDE DEF k
<1>5. NetStep(n, k, NoSock, s)
  BY <1>1, <1>2, <1>4 DEF NetStep
<1> QED BY <1>4, <1>5 DEF k, m

\* A connection is opened.
LEMMA NetOpen ==
    ASSUME NEW n \in Network, PoolGood(n), FreeSock(n) # {}, NEW a \in Address
    PROVE  /\ NetStep(n, OpenSocket(n, a), NoSock, Min(FreeSock(n)))
           /\ InUse(OpenSocket(n, a), Min(FreeSock(n)), 0)
<1> DEFINE s == Min(FreeSock(n))
           x == [addr |-> a, open |-> TRUE, owed |-> 0]
           k == OpenSocket(n, a)
<1>1. FreeSock(n) \in SUBSET Nat
  BY SocketsAssumption DEF FreeSock, Sock
<1>2. s \in FreeSock(n)
  BY <1>1, LeastNumber
<1> HIDE DEF s
<1>3. s \in Sock /\ n.socks[s].addr = "noaddr"
  BY <1>2 DEF FreeSock, NoSocket
<1>4. n.socks[s].addr \notin Address
  BY <1>3, SocketsAssumption
<1>5. s \notin n.pool
  BY <1>4 DEF PoolGood
<1>6. x \in SocketState /\ x.addr = a /\ x.owed = 0
  BY DEF SocketState
<1>7. k = SetSocket(n, s, x)
  BY <1>3 DEF OpenSocket, SetSocket, Network, s
<1> HIDE DEF k, x
<1>8. /\ k \in Network /\ k.pool = n.pool /\ k.socks[s] = x
      /\ \A t \in Sock : t # s => k.socks[t] = n.socks[t]
  BY <1>3, <1>6, <1>7, SocketSet
<1>9. k.pool \subseteq Sock
  BY <1>8 DEF Network
<1>10. NetStep(n, k, NoSock, s) /\ InUse(k, s, 0)
  BY <1>3, <1>4, <1>5, <1>6, <1>8, <1>9 DEF NetStep, PoolGood, InUse
<1> QED BY <1>10 DEF k, s

----------------------------------------------------------------------------
(***************************************************************************)
(* Commands.                                                               *)
(***************************************************************************)
Word ==
    {"none", "create", "initiate", "connecting", "response", "download", "finish"}
      \cup FtpStage

Command ==
    [st : Word, req : Req \cup {NoReq}, seg : Piece \cup {NoPiece},
     sock : Sock \cup {NoSock}, end : Nat, keep : BOOLEAN]

\* From the choice of a URI on a command has a request in flight, from the
\* choice of an address on a connection, over which it waits for one reply.
Fits(k, f, n) ==
    /\ k \in Command
    /\ k.st \in {"none", "create"} => k.req = NoReq
    /\ k.st \notin {"none", "create"} => k.req # NoReq /\ k.req \in f.inflight
    /\ k.st \in {"none", "create", "initiate"} => k.sock = NoSock
    /\ k.st \notin {"none", "create", "initiate"} =>
          InUse(n, k.sock, IF k.st = "connecting" THEN 0 ELSE 1)

Apart(k, l) ==
    /\ k.req # NoReq => k.req # l.req
    /\ k.sock # NoSock => k.sock # l.sock

Working(f, n, m) ==
    /\ m \in [Cmd -> Command]
    /\ \A c \in Cmd : Fits(m[c], f, n)
    /\ \A c, d \in Cmd : c # d => Apart(m[c], m[d])

\* A command goes over from request old to request new.
Moved(f, g, old, new) ==
    /\ f.inflight \ {old} \subseteq g.inflight
    /\ new = NoReq \/ new = old \/ new \notin f.inflight

\* A step of one command leaves the requests and connections of the others
\* to them.
LEMMA WorkStep ==
    ASSUME NEW f, NEW g, NEW n, NEW k, NEW m, Working(f, n, m), NEW c \in Cmd, NEW x,
           Fits(x, g, k), NetStep(n, k, m[c].sock, x.sock),
           Moved(f, g, m[c].req, x.req)
    PROVE  Working(g, k, [m EXCEPT ![c] = x])
<1> DEFINE l == [m EXCEPT ![c] = x]
<1>1. m \in [Cmd -> Command] /\ x \in Command
  BY DEF Working, Fits
<1>2. l \in [Cmd -> Command] /\ l[c] = x /\ \A d \in Cmd : d # c => l[d] = m[d]
  BY <1>1
<1> HIDE DEF l
<1>3. ASSUME NEW d \in Cmd, d # c
      PROVE  Fits(m[d], g, k) /\ Apart(m[d], x) /\ Apart(x, m[d])
  <2>1. Fits(m[d], f, n) /\ Fits(m[c], f, n) /\ Apart(m[c], m[d]) /\ Apart(m[d], m[c])
    BY <1>3 DEF Working
  <2>2. NoReq \notin Req /\ NoSock \notin Sock
    BY DEF NoReq, Req, NoSock, Sock
  <2>3. m[d] \in Command /\ m[d].req \in Req \cup {NoReq} /\ m[d].sock \in Sock \cup {NoSock}
    BY <1>1 DEF Command
  <2>4. m[d].req # NoReq => m[d].req \in f.inflight /\ m[d].req # m[c].req
    BY <2>1 DEF Fits, Apart
  <2>5. m[d].req # NoReq => m[d].req \in g.inflight /\ m[d].req # x.req
    BY <2>1, <2>4 DEF Moved
  <2>6. m[d].sock # NoSock =>
           /\ InUse(n, m[d].sock, IF m[d].st = "connecting" THEN 0 ELSE 1)
           /\ m[d].sock # m[c].sock
    BY <2>1 DEF Fits, Apart
  <2>7. m[d].sock # NoSock =>
           /\ InUse(k, m[d].sock, IF m[d].st = "connecting" THEN 0 ELSE 1)
           /\ m[d].sock # x.sock
    BY <2>6 DEF InUse, NetStep
  <2>8. InUse(n, NoSock, 0) \/ InUse(n, NoSock, 1) => FALSE
    BY <2>2 DEF InUse
  <2>9. Fits(m[d], g, k)
    <3>1. m[d].st \notin {"none", "create", "initiate"} => m[d].sock # NoSock
      BY <2>1, <2>8 DEF Fits
    <3> QED BY <2>1, <2>3, <2>5, <2>7, <3>1 DEF Fits
  <2> QED BY <2>5, <2>7, <2>9 DEF Apart
<1>4. \A d \in Cmd : Fits(l[d], g, k)
  BY <1>2, <1>3
<1>5. \A d, e \in Cmd : d # e => Apart(l[d], l[e])
  BY <1>2, <1>3 DEF Working
<1> QED BY <1>2, <1>4, <1>5 DEF Working, l

----------------------------------------------------------------------------
(***************************************************************************)
(* The inductive invariant.                                                *)
(***************************************************************************)
Download ==
    [done : SUBSET Piece, storage : BOOLEAN, ignored : BOOLEAN, halt : BOOLEAN]

\* Requests sleep only with --retry-wait.
Rested(f, u) == \A r \in Req : f.reqs[r].asleep => u.wait

\* Until the length of the file is known there is one command.
Alone(d, m) == d.storage \/ \A c \in Cmd : c # 1 => m[c].st = "none"

\* Every request in flight is a command's.
Covered(f, m) == \A r \in f.inflight : \E c \in Cmd : m[c].req = r

\* FileEntry::getRequest takes no request for nothing: no request is asleep
\* beside others for its host.
OneAtATime == ~setup.wait \/ setup.limit = 1

ConnInv ==
    /\ setup \in Setups
    /\ Fine(fe, setup.limit) /\ Rested(fe, setup)
    /\ dl \in Download
    /\ net \in Network /\ PoolGood(net)
    /\ Working(fe, net, cmd)
    /\ Alone(dl, cmd)
    /\ OneAtATime => Over \/ Covered(fe, cmd)

\* The invariant and the values of the options.
LEMMA InvFacts ==
    ASSUME ConnInv
    PROVE  /\ setup.limit \in Nat /\ setup.wait \in BOOLEAN
           /\ fe \in Entry /\ fe.reqs \in [Req -> Request] /\ fe.inflight \subseteq Req
           /\ \A r \in fe.inflight : fe.reqs[r].uri \in Uri
           /\ \A c \in Cmd : Fits(cmd[c], fe, net) /\ cmd[c] \in Command
           /\ cmd \in [Cmd -> Command]
           /\ NoReq \notin Req /\ NoSock \notin Sock
<1>1. setup.limit \in Nat /\ setup.wait \in BOOLEAN
  BY ConnectionsAssumption DEF ConnInv
<1>2. IsEntry(fe)
  BY DEF ConnInv, Fine
<1>3. /\ fe \in Entry /\ fe.reqs \in [Req -> Request] /\ fe.inflight \subseteq Req
      /\ \A r \in fe.inflight : fe.reqs[r].uri \in Uri
  BY <1>2 DEF IsEntry, Entry
<1>4. /\ \A c \in Cmd : Fits(cmd[c], fe, net) /\ cmd[c] \in Command
      /\ cmd \in [Cmd -> Command]
  BY DEF ConnInv, Working
<1>5. NoReq \notin Req /\ NoSock \notin Sock
  BY DEF NoReq, Req, NoSock, Sock
<1> QED BY <1>1, <1>3, <1>4, <1>5

\* A command goes over to state x.
LEMMA InvStep ==
    ASSUME ConnInv, NEW c \in Cmd, NEW x, UNCHANGED setup, cmd[c].st # "none",
           cmd' = [cmd EXCEPT ![c] = x], Fits(x, fe', net'),
           NetStep(net, net', cmd[c].sock, x.sock), Moved(fe, fe', cmd[c].req, x.req),
           Fine(fe', setup.limit), Rested(fe', setup),
           dl' \in Download, dl'.storage = dl.storage,
           OneAtATime =>
              Over' \/ (~Over /\ fe'.inflight \subseteq (fe.inflight \ {cmd[c].req}) \cup {x.req})
    PROVE  ConnInv'
<1>1. Working(fe', net', cmd')
  BY WorkStep DEF ConnInv
<1>2. cmd \in [Cmd -> Command] /\ x \in Command
  BY DEF ConnInv, Working, Fits
<1>3. cmd'[c] = x /\ \A d \in Cmd : d # c => cmd'[d] = cmd[d]
  BY <1>2
<1>4. Alone(dl', cmd')
  BY <1>3 DEF ConnInv, Alone
<1>5. OneAtATime => Over' \/ Covered(fe', cmd')
  <2>1. SUFFICES ASSUME OneAtATime, ~Over', NEW r \in fe'.inflight
                 PROVE  \E d \in Cmd : cmd'[d].req = r
    BY DEF Covered
  <2>2. ~Over /\ r \in (fe.inflight \ {cmd[c].req}) \cup {x.req}
    BY <2>1
  <2>3. CASE r = x.req
    BY <1>3, <2>3
  <2>4. CASE r # x.req
    <3>1. r \in fe.inflight /\ r # cmd[c].req
      BY <2>2, <2>4
    <3>2. PICK d \in Cmd : cmd[d].req = r
      BY <2>1, <2>2, <3>1 DEF ConnInv, Covered
    <3> QED BY <1>3, <3>1, <3>2
  <2> QED BY <2>3, <2>4
<1>6. net' \in Network /\ PoolGood(net')
  BY DEF NetStep
<1>7. OneAtATime' = OneAtATime
  BY DEF OneAtATime
<1>8. setup' \in Setups /\ Fine(fe', setup'.limit) /\ Rested(fe', setup')
  BY DEF ConnInv
<1> QED BY <1>1, <1>4, <1>5, <1>6, <1>7, <1>8 DEF ConnInv

\* A command without a request.
LEMMA BlankCommands ==
    ASSUME NEW x \in {NoCmd, NewCmd}
    PROVE  /\ \A f, n : Fits(x, f, n)
           /\ x.req = NoReq /\ x.sock = NoSock /\ x.seg = NoPiece /\ x.st \in {"none", "create"}
<1>0. /\ NoCmd \in Command /\ NoCmd.st = "none" /\ NoCmd.req = NoReq
      /\ NoCmd.sock = NoSock /\ NoCmd.seg = NoPiece
  BY DEF NoCmd, Command, Word
<1>1. /\ x \in Command /\ x.st \in {"none", "create"} /\ x.req = NoReq /\ x.sock = NoSock
      /\ x.seg = NoPiece
  <2>1. CASE x = NoCmd
    BY <1>0, <2>1
  <2>2. CASE x = [NoCmd EXCEPT !.st = "create"]
    <3>1. "create" \in Word
      BY DEF Word
    <3> QED BY <1>0, <2>2, <3>1 DEF Command
  <2> QED BY <2>1, <2>2 DEF NewCmd
<1> QED BY <1>1 DEF Fits

\* Command c is done with its request, for which there is another command or
\* none.
Freed(c) ==
    /\ Fine(fe', setup.limit) /\ Rested(fe', setup)
    /\ fe'.inflight = fe.inflight \ {cmd[c].req}
    /\ \E x \in {NoCmd, NewCmd} : cmd' = [cmd EXCEPT ![c] = x]
    /\ dl' \in Download /\ dl'.storage = dl.storage
    /\ dl'.done = dl.done /\ dl'.halt = dl.halt

\* A command that is done with its request and connection.
LEMMA InvFreed ==
    ASSUME ConnInv, NEW c \in Cmd, UNCHANGED setup, cmd[c].st # "none", ~Over, Freed(c),
           NetStep(net, net', cmd[c].sock, NoSock)
    PROVE  ConnInv'
<1>1. PICK x \in {NoCmd, NewCmd} : cmd' = [cmd EXCEPT ![c] = x]
  BY DEF Freed
<1>2. Fits(x, fe', net') /\ x.req = NoReq /\ x.sock = NoSock
  BY BlankCommands
<1>3. Moved(fe, fe', cmd[c].req, x.req)
  BY <1>2 DEF Freed, Moved
<1>4. fe'.inflight \subseteq (fe.inflight \ {cmd[c].req}) \cup {x.req}
  BY DEF Freed
<1> QED BY <1>1, <1>2, <1>3, <1>4, InvStep DEF Freed

\* A URI has failed.
LEMMA AbortFrees ==
    ASSUME ConnInv, NEW c \in Cmd, cmd[c].req \in fe.inflight, NEW f,
           Fine(f, setup.limit), Rested(f, setup), f.inflight = fe.inflight, Abort(c, f)
    PROVE  Freed(c)
<1> DEFINE r == cmd[c].req
           u == f.reqs[r].uri
           g == removeRequest(removeIdenticalURI(addURIResult(f, u), u), r)
<1>1. /\ fe' = g /\ dl' = dl
      /\ \E x \in {NoCmd, NewCmd} : cmd' = [cmd EXCEPT ![c] = x]
  BY DEF Abort, Successor
<1>2. setup.limit \in Nat
  BY InvFacts
<1>3. r \in f.inflight /\ u \in Uri
  BY DEF Fine, IsEntry
<1> HIDE DEF g, u
<1>4. g = removeRequest(removeIdenticalURI(addURIResult(f, u), u), r)
  BY DEF g
<1>5. /\ Fine(g, setup.limit) /\ g.inflight = f.inflight \ {r}
      /\ \A q \in Req : q # r => g.reqs[q] = f.reqs[q]
      /\ ~g.reqs[r].asleep
  BY <1>2, <1>3, <1>4, FineDrop
<1>6. Rested(g, setup)
  <2>1. ASSUME NEW q \in Req, g.reqs[q].asleep PROVE setup.wait
    BY <1>5, <2>1 DEF Rested
  <2> QED BY <2>1 DEF Rested
<1>7. dl' \in Download /\ dl'.storage = dl.storage /\ dl'.done = dl.done /\ dl'.halt = dl.halt
  BY <1>1 DEF ConnInv
<1> QED BY <1>1, <1>5, <1>6, <1>7 DEF Freed

\* The request is put aside for another command.
LEMMA PrepareFrees ==
    ASSUME ConnInv, NEW c \in Cmd, cmd[c].req \in fe.inflight, NEW f,
           Fine(f, setup.limit), Rested(f, setup), f.inflight = fe.inflight,
           prepareForRetry(c, f, cmd[c].req)
    PROVE  Freed(c)
<1> DEFINE r == cmd[c].req
           g == poolRequest(f, r)
<1>1. fe' = g /\ cmd' = [cmd EXCEPT ![c] = NewCmd] /\ dl' = [dl EXCEPT !.ignored = FALSE]
  BY DEF prepareForRetry
<1>2. setup.limit \in Nat
  BY InvFacts
<1>3. Fine(g, setup.limit) /\ g.inflight = f.inflight \ {r} /\ g.reqs = f.reqs
  BY <1>2, FinePool
<1> HIDE DEF g
<1>4. Rested(g, setup)
  BY <1>3 DEF Rested
<1>5. dl' \in Download /\ dl'.storage = dl.storage /\ dl'.done = dl.done /\ dl'.halt = dl.halt
  BY <1>1 DEF ConnInv, Download
<1> QED BY <1>1, <1>3, <1>4, <1>5 DEF Freed

\* A command fails, for good if it has tried often enough.
LEMMA RetryFrees ==
    ASSUME ConnInv, NEW c \in Cmd, cmd[c].req \in fe.inflight,
           NEW asleep \in BOOLEAN, Retry(c, asleep)
    PROVE  Freed(c)
<1> DEFINE r == cmd[c].req
           x == [fe.reqs[r] EXCEPT !.tries = @ + 1, !.addr = NoAddr]
           f == [fe EXCEPT !.reqs[r].tries = @ + 1, !.reqs[r].addr = NoAddr]
           y == [x EXCEPT !.asleep = asleep /\ setup.wait]
           g == [f EXCEPT !.reqs[r].asleep = asleep /\ setup.wait]
<1>0. setup.limit \in Nat /\ setup.wait \in BOOLEAN
  BY InvFacts
<1>1. /\ r \in Req /\ fe \in Entry /\ fe.reqs \in [Req -> Request] /\ fe.reqs[r] \in Request
      /\ Fine(fe, setup.limit)
  BY InvFacts DEF ConnInv
<1>2. x \in Request /\ x.uri = fe.reqs[r].uri /\ (x.asleep => fe.reqs[r].asleep)
  <2>1. ASSUME NEW q \in Request, NEW z, z = [q EXCEPT !.tries = q.tries + 1, !.addr = NoAddr]
        PROVE  z \in Request /\ z.uri = q.uri /\ (z.asleep => q.asleep)
    <3>1. q.tries + 1 \in Nat
      BY DEF Request
    <3>2. z \in Request /\ z.uri = q.uri
      BY <2>1, <3>1 DEF Request
    <3>3. z.asleep = q.asleep
      BY <2>1 DEF Request
    <3> QED BY <3>2, <3>3
  <2> DEFINE q == fe.reqs[r]
  <2>2. q \in Request
    BY <1>1
  <2>3. x = [q EXCEPT !.tries = q.tries + 1, !.addr = NoAddr]
    OBVIOUS
  <2> HIDE DEF q, x
  <2>4. x \in Request /\ x.uri = q.uri /\ (x.asleep => q.asleep)
    BY ZenonT(60), <2>1, <2>2, <2>3
  <2> QED BY <2>4 DEF q
<1>3. f = [fe EXCEPT !.reqs = [fe.reqs EXCEPT ![r] = x]]
  BY <1>1 DEF Entry
<1>4. Abort(c, f) \/ prepareForRetry(c, g, r)
  BY DEF Retry
<1> HIDE DEF x, f
<1>5. /\ Fine(f, setup.limit) /\ f.pool = fe.pool /\ f.inflight = fe.inflight
      /\ \A q \in Req : f.reqs[q] = IF q = r THEN x ELSE fe.reqs[q]
  BY ONLY <1>0, <1>1, <1>2, <1>3, FineTouch
<1>6. Rested(f, setup)
  <2>1. ASSUME NEW q \in Req, f.reqs[q].asleep PROVE setup.wait
    BY <1>1, <1>2, <1>5, <2>1 DEF Rested, ConnInv
  <2> QED BY <2>1 DEF Rested
<1>7. CASE Abort(c, f)
  BY <1>5, <1>6, <1>7, AbortFrees
<1>8. CASE prepareForRetry(c, g, r)
  <2> DEFINE b == asleep /\ setup.wait
  <2>0. b \in BOOLEAN /\ (b => setup.wait)
    BY <1>0
  <2> HIDE DEF b
  <2>1. y = [x EXCEPT !.asleep = b] /\ g = [f EXCEPT !.reqs[r].asleep = b]
    BY DEF b
  <2> HIDE DEF y, g
  <2>2. y \in Request /\ y.uri = x.uri /\ y.asleep = b
    BY <1>2, <2>0, <2>1 DEF Request
  <2>3. f \in Entry /\ f.reqs \in [Req -> Request] /\ f.reqs[r] = x
    BY <1>1, <1>5 DEF Fine, IsEntry, Entry
  <2>4. g = [f EXCEPT !.reqs = [f.reqs EXCEPT ![r] = y]]
    BY <1>1, <2>1, <2>3 DEF Entry
  <2>5. y.uri = f.reqs[r].uri
    BY <2>2, <2>3
  <2>6. /\ Fine(g, setup.limit) /\ g.pool = f.pool /\ g.inflight = f.inflight
        /\ \A q \in Req : g.reqs[q] = IF q = r THEN y ELSE f.reqs[q]
    <3>1. setup.limit \in Nat /\ r \in Req /\ Fine(f, setup.limit) /\ y \in Request
      BY <1>0, <1>1, <1>5, <2>2
    <3> QED BY ONLY <2>3, <2>4, <2>5, <3>1, FineTouch
  <2>7. Rested(g, setup)
    <3>1. ASSUME NEW q \in Req, g.reqs[q].asleep PROVE setup.wait
      <4>1. CASE q = r
        BY <2>0, <2>2, <2>6, <3>1, <4>1
      <4>2. CASE q # r
        BY <1>6, <2>6, <3>1, <4>2 DEF Rested
      <4> QED BY <4>1, <4>2
    <3> QED BY <3>1 DEF Rested
  <2>8. g.inflight = fe.inflight
    BY <1>5, <2>6
  <2> QED BY <1>8, <2>6, <2>7, <2>8, PrepareFrees
<1> QED BY <1>4, <1>7, <1>8

----------------------------------------------------------------------------
(***************************************************************************)
(* The steps.                                                              *)
(***************************************************************************)
\* What a command with a request has.
LEMMA Holds ==
    ASSUME ConnInv, NEW c \in Cmd, cmd[c].st \notin {"none", "create"}
    PROVE  /\ cmd[c].req \in fe.inflight /\ cmd[c].req \in Req /\ cmd[c].req # NoReq
           /\ UriOf(c) \in Uri /\ HostOfCmd(c) \in Host
           /\ fe.reqs[cmd[c].req] \in Request
           /\ fe.reqs[cmd[c].req].addr \in Address \cup {NoAddr}
<1>1. cmd[c].req \in fe.inflight /\ cmd[c].req \in Req
  BY InvFacts DEF Fits
<1>2. fe.reqs[cmd[c].req] \in Request /\ fe.reqs[cmd[c].req].uri \in Uri
  BY <1>1, InvFacts
<1>3. fe.reqs[cmd[c].req].addr \in Address \cup {NoAddr}
  BY <1>2 DEF Request
<1>4. HostOf[fe.reqs[cmd[c].req].uri] \in Host
  BY <1>2, ConnectionsAssumption
<1> QED BY <1>1, <1>2, <1>3, <1>4, InvFacts DEF UriOf, HostOfCmd

\* A command closes its connection, and an address may have failed.
LEMMA GiveUpSocket ==
    ASSUME ConnInv, NEW c \in Cmd, NEW h \in Host, NEW a \in Address \cup {NoAddr}
    PROVE  LET n == CloseSocket(net, cmd[c].sock)
               k == AddressFailed(n, h, a)
           IN  /\ NetStep(net, n, cmd[c].sock, NoSock)
               /\ NetStep(net, CountFault(n), cmd[c].sock, NoSock)
               /\ NetStep(net, k, cmd[c].sock, NoSock)
               /\ NetStep(net, CountFault(k), cmd[c].sock, NoSock)
<1> DEFINE s == cmd[c].sock
           n == CloseSocket(net, s)
           k == AddressFailed(n, h, a)
<1>1. net \in Network /\ PoolGood(net) /\ net.pool \subseteq Sock
  BY DEF ConnInv, Network
<1>2. s \in Sock \cup {NoSock} /\ s \notin net.pool
  <2>1. cmd[c] \in Command /\ Fits(cmd[c], fe, net) /\ NoSock \notin Sock
    BY InvFacts
  <2>2. s \in Sock \cup {NoSock}
    BY <2>1 DEF Command
  <2>3. s = NoSock \/ s \notin net.pool
    BY <2>1 DEF Fits, InUse
  <2> QED BY <1>1, <2>1, <2>2, <2>3
<1>3. NetStep(net, n, s, NoSock)
  BY <1>1, <1>2, NetClose
<1>4. n \in Network
  BY <1>3 DEF NetStep
<1> HIDE DEF n
<1>5. Same(n, CountFault(n)) /\ Same(n, k) /\ Same(net, net)
  BY <1>1, <1>4, SameNet DEF Same
<1>6. k \in Network
  BY <1>5 DEF Same
<1> HIDE DEF k, s
<1>7. Same(k, CountFault(k))
  BY <1>6, SameNet
<1>8. NetStep(net, k, s, NoSock) /\ NetStep(net, CountFault(n), s, NoSock)
  BY <1>3, <1>5, NetStepSame
<1>9. NetStep(net, CountFault(k), s, NoSock)
  BY <1>5, <1>7, <1>8, NetStepSame
<1> QED BY <1>3, <1>8, <1>9 DEF n, k, s

\* After a response.
LEMMA GiveBackSocket ==
    ASSUME ConnInv, NEW c \in Cmd, NEW n, n = net \/ n = CountFault(net),
           cmd[c].st \notin {"none", "create", "initiate", "connecting"},
           NEW whole, NEW keep, NEW k \in AfterResponse(n, cmd[c].sock, whole, keep)
    PROVE  NetStep(net, k, cmd[c].sock, NoSock)
<1>1. net \in Network /\ PoolGood(net) /\ InUse(net, cmd[c].sock, 1)
  BY InvFacts DEF ConnInv, Fits
<1>2. Same(net, CountFault(net)) /\ Same(net, net)
  <2>1. Host # {}
    BY FileEntryAssumption, ConnectionsAssumption
  <2> QED BY <1>1, <2>1, SameNet DEF Same
<1>3. n \in Network /\ PoolGood(n) /\ InUse(n, cmd[c].sock, 1) /\ Same(net, n)
  BY <1>1, <1>2 DEF Same, PoolGood, InUse
<1>4. NetStep(n, k, cmd[c].sock, NoSock)
  BY <1>3, NetAfterResponse
<1>5. Same(k, k)
  BY <1>4 DEF NetStep, Same
<1> QED BY <1>3, <1>4, <1>5, NetStepSame

\* The download is over: the command closes its connection and ends.
LEMMA EndOfDownloadStep ==
    ASSUME ConnInv, NEW c \in Cmd, EndOfDownload(c)
    PROVE  ConnInv'
<1>1. /\ Over /\ cmd[c].st # "none" /\ cmd' = [cmd EXCEPT ![c] = NoCmd]
      /\ net' = CloseSocket(net, cmd[c].sock) /\ UNCHANGED <<setup, fe, dl>>
  BY DEF EndOfDownload
<1>2. NetStep(net, net', cmd[c].sock, NoSock)
  <2>1. Host # {}
    BY FileEntryAssumption, ConnectionsAssumption
  <2> QED BY <1>1, <2>1, GiveUpSocket
<1>3. Fits(NoCmd, fe', net') /\ NoCmd.req = NoReq /\ NoCmd.sock = NoSock
  BY BlankCommands
<1>4. Moved(fe, fe', cmd[c].req, NoCmd.req)
  BY <1>1, <1>3 DEF Moved
<1>5. Over'
  BY <1>1 DEF Over
<1>6. Fine(fe', setup.limit) /\ Rested(fe', setup) /\ dl' \in Download /\ dl'.storage = dl.storage
  BY <1>1 DEF ConnInv
<1> QED BY <1>1, <1>2, <1>3, <1>4, <1>5, <1>6, InvStep

\* The segment of a command was given to another: it begins again.
LEMMA SegmentTakenStep ==
    ASSUME ConnInv, NEW c \in Cmd, SegmentTaken(c)
    PROVE  ConnInv'
<1>1. /\ ~Over /\ cmd[c].st # "none" /\ cmd[c].req # NoReq /\ UNCHANGED setup
      /\ prepareForRetry(c, fe, cmd[c].req) /\ net' = CloseSocket(net, cmd[c].sock)
  BY DEF SegmentTaken, Going
<1>2. cmd[c].st \notin {"none", "create"}
  BY <1>1, InvFacts DEF Fits
<1>3. Freed(c)
  BY <1>1, <1>2, Holds, PrepareFrees DEF ConnInv
<1>4. NetStep(net, net', cmd[c].sock, NoSock)
  BY <1>1, <1>2, Holds, GiveUpSocket
<1> QED BY <1>1, <1>3, <1>4, InvFreed

\* The states in which a command waits for a server.
Waiting == {"connecting", "response", "download"} \cup FtpStage

\* The server has closed the connection in the middle of a response.
LEMMA GotEofStep ==
    ASSUME ConnInv, NEW c \in Cmd, GotEof(c)
    PROVE  ConnInv'
<1>1. /\ ~Over /\ cmd[c].st \in Waiting /\ UNCHANGED setup
      /\ net' = CloseSocket(net, cmd[c].sock) /\ Retry(c, FALSE)
  BY DEF GotEof, Going, Waiting, Negotiating
<1>2. cmd[c].st \notin {"none", "create"}
  BY <1>1 DEF Waiting, FtpStage
<1>3. Freed(c)
  BY <1>1, <1>2, Holds, RetryFrees
<1>4. NetStep(net, net', cmd[c].sock, NoSock)
  BY <1>1, <1>2, Holds, GiveUpSocket
<1> QED BY <1>1, <1>2, <1>3, <1>4, InvFreed

\* Nothing has come for too long.
LEMMA TimeoutStep ==
    ASSUME ConnInv, NEW c \in Cmd, Timeout(c)
    PROVE  ConnInv'
<1> DEFINE a == fe.reqs[cmd[c].req].addr
           n == AddressFailed(CloseSocket(net, cmd[c].sock), HostOfCmd(c), a)
<1>1. /\ ~Over /\ cmd[c].st \in Waiting /\ UNCHANGED setup
      /\ net' = n \/ net' = CountFault(n)
      /\ Retry(c, FALSE)
  BY DEF Timeout, Going, Waiting, Negotiating
<1>2. cmd[c].st \notin {"none", "create"}
  BY <1>1 DEF Waiting, FtpStage
<1>3. Freed(c)
  BY <1>1, <1>2, Holds, RetryFrees
<1>4. HostOfCmd(c) \in Host /\ a \in Address \cup {NoAddr}
  BY <1>2, Holds
<1>5. NetStep(net, n, cmd[c].sock, NoSock) /\ NetStep(net, CountFault(n), cmd[c].sock, NoSock)
  BY <1>4, GiveUpSocket
<1> HIDE DEF n
<1>6. NetStep(net, net', cmd[c].sock, NoSock)
  BY <1>1, <1>5
<1> QED BY <1>1, <1>2, <1>3, <1>6, InvFreed

\* A connection is refused: another address is tried, or the request again.
LEMMA RefusedStep ==
    ASSUME ConnInv, NEW c \in Cmd, Refused(c)
    PROVE  ConnInv'
<1> DEFINE a == fe.reqs[cmd[c].req].addr
           n == AddressFailed(CloseSocket(net, cmd[c].sock), HostOfCmd(c), a)
           x == [cmd[c] EXCEPT !.st = "initiate", !.sock = NoSock]
<1>1. /\ ~Over /\ cmd[c].st = "connecting" /\ UNCHANGED setup
      /\ net' = n \/ net' = CountFault(n)
      /\ \/ /\ cmd' = [cmd EXCEPT ![c].st = "initiate", ![c].sock = NoSock]
            /\ UNCHANGED <<fe, dl>>
         \/ Retry(c, FALSE)
  BY DEF Refused, Going
<1>2. cmd[c].st \notin {"none", "create"}
  BY <1>1
<1>3. HostOfCmd(c) \in Host /\ a \in Address \cup {NoAddr} /\ cmd[c].req \in fe.inflight
      /\ cmd[c].req # NoReq
  BY <1>2, Holds
<1>4. NetStep(net, n, cmd[c].sock, NoSock) /\ NetStep(net, CountFault(n), cmd[c].sock, NoSock)
  BY <1>3, GiveUpSocket
<1> HIDE DEF n
<1>5. NetStep(net, net', cmd[c].sock, NoSock)
  BY <1>1, <1>4
<1>6. CASE Retry(c, FALSE)
  <2>1. Freed(c)
    BY <1>3, <1>6, RetryFrees
  <2> QED BY <1>1, <1>2, <1>5, <2>1, InvFreed
<1>7. CASE /\ cmd' = [cmd EXCEPT ![c].st = "initiate", ![c].sock = NoSock]
           /\ UNCHANGED <<fe, dl>>
  <2>1. cmd[c] \in Command /\ cmd \in [Cmd -> Command]
    BY InvFacts
  <2>2. x \in Command /\ x.st = "initiate" /\ x.sock = NoSock /\ x.req = cmd[c].req
    BY <2>1 DEF Command, Word
  <2>3. cmd' = [cmd EXCEPT ![c] = x]
    BY <1>7, <2>1
  <2> HIDE DEF x
  <2>4. Fits(x, fe', net')
    BY <1>3, <1>7, <2>2 DEF Fits
  <2>5. Moved(fe, fe', cmd[c].req, x.req)
    BY <1>7, <2>2 DEF Moved
  <2>6. Fine(fe', setup.limit) /\ Rested(fe', setup) /\ dl' \in Download /\ dl'.storage = dl.storage
    BY <1>7 DEF ConnInv
  <2>7. fe'.inflight \subseteq (fe.inflight \ {cmd[c].req}) \cup {x.req}
    BY <1>7, <2>2
  <2>8. NetStep(net, net', cmd[c].sock, x.sock)
    BY <1>5, <2>2
  <2> QED BY <1>1, <1>2, <2>3, <2>4, <2>5, <2>6, <2>7, <2>8, InvStep
<1> QED BY <1>1, <1>6, <1>7

\* An error response, after which the connection may be kept.
LEMMA ErrorResponseStep ==
    ASSUME ConnInv, NEW c \in Cmd, ErrorResponse(c)
    PROVE  ConnInv'
<1>1. ~Over /\ cmd[c].st = "response" /\ UNCHANGED setup /\ (Abort(c, fe) \/ Retry(c, TRUE))
  BY DEF ErrorResponse, Going
<1>2. PICK n \in {net, CountFault(net)}, whole \in BOOLEAN, keep \in BOOLEAN :
        net' \in AfterResponse(n, cmd[c].sock, whole, keep)
  BY DEF ErrorResponse
<1>3. NetStep(net, net', cmd[c].sock, NoSock)
  BY <1>1, <1>2, GiveBackSocket
<1>4. cmd[c].req \in fe.inflight
  BY <1>1, Holds
<1>5. Freed(c)
  BY <1>1, <1>4, AbortFrees, RetryFrees DEF ConnInv
<1> QED BY <1>1, <1>3, <1>5, InvFreed

\* An error reply of an FTP server.
LEMMA FtpErrorStep ==
    ASSUME ConnInv, NEW c \in Cmd, FtpError(c)
    PROVE  ConnInv'
<1>1. PICK stage \in FtpStage : /\ ~Over /\ cmd[c].st = stage /\ UNCHANGED setup /\ Abort(c, fe)
                                /\ net' \in AfterResponse(net, cmd[c].sock, TRUE, stage = "cwd")
  BY DEF FtpError, Replies, Going
<1>2. cmd[c].st \notin {"none", "create", "initiate", "connecting"}
  BY <1>1 DEF FtpStage
<1>3. NetStep(net, net', cmd[c].sock, NoSock)
  BY <1>1, <1>2, GiveBackSocket
<1>4. cmd[c].req \in fe.inflight
  BY <1>2, Holds
<1>5. Freed(c)
  BY <1>1, <1>4, AbortFrees DEF ConnInv
<1> QED BY <1>1, <1>2, <1>3, <1>5, InvFreed

\* A data connection is refused.
LEMMA FtpDataRefusedStep ==
    ASSUME ConnInv, NEW c \in Cmd, FtpDataRefused(c)
    PROVE  ConnInv'
<1>1. /\ ~Over /\ cmd[c].st = "data" /\ UNCHANGED setup /\ Abort(c, fe)
      /\ net' = CountFault(CloseSocket(net, cmd[c].sock))
  BY DEF FtpDataRefused, Replies, Going
<1>2. /\ cmd[c].req \in fe.inflight /\ HostOfCmd(c) \in Host
      /\ fe.reqs[cmd[c].req].addr \in Address \cup {NoAddr}
  BY <1>1, Holds
<1>3. NetStep(net, net', cmd[c].sock, NoSock)
  BY <1>1, <1>2, GiveUpSocket
<1>4. Freed(c)
  BY <1>1, <1>2, AbortFrees DEF ConnInv
<1> QED BY <1>1, <1>3, <1>4, InvFreed

\* The end of a transfer over FTP.
LEMMA FtpFinishStep ==
    ASSUME ConnInv, NEW c \in Cmd, FtpFinish(c)
    PROVE  ConnInv'
<1>1. /\ cmd[c].st = "finish" /\ ~dl.halt /\ UNCHANGED setup
      /\ \E whole \in BOOLEAN : net' \in AfterResponse(net, cmd[c].sock, whole, TRUE)
      /\ \/ dl.done = Piece /\ cmd' = [cmd EXCEPT ![c] = NoCmd] /\ UNCHANGED <<fe, dl>>
         \/ dl.done # Piece /\ prepareForRetry(c, fe, cmd[c].req)
  BY DEF FtpFinish
<1>2. NetStep(net, net', cmd[c].sock, NoSock)
  BY <1>1, GiveBackSocket
<1>3. CASE dl.done # Piece /\ prepareForRetry(c, fe, cmd[c].req)
  <2>1. ~Over
    BY <1>1, <1>3 DEF Over
  <2>2. cmd[c].req \in fe.inflight
    BY <1>1, Holds
  <2>3. Freed(c)
    BY <1>3, <2>2, PrepareFrees DEF ConnInv
  <2> QED BY <1>1, <1>2, <2>1, <2>3, InvFreed
<1>4. CASE dl.done = Piece /\ cmd' = [cmd EXCEPT ![c] = NoCmd] /\ UNCHANGED <<fe, dl>>
  <2>1. Fits(NoCmd, fe', net') /\ NoCmd.req = NoReq /\ NoCmd.sock = NoSock
    BY BlankCommands
  <2>2. Moved(fe, fe', cmd[c].req, NoCmd.req)
    BY <1>4, <2>1 DEF Moved
  <2>3. Over'
    BY <1>4 DEF Over
  <2>4. Fine(fe', setup.limit) /\ Rested(fe', setup) /\ dl' \in Download /\ dl'.storage = dl.storage
    BY <1>4 DEF ConnInv
  <2> QED BY <1>1, <1>2, <1>4, <2>1, <2>2, <2>3, <2>4, InvStep
<1> QED BY <1>1, <1>3, <1>4

\* The states in which one reply is waited for.
Owing == {"response", "download", "finish"} \cup FtpStage

\* A command goes on with the same request over the same connection.
LEMMA InvQuiet ==
    ASSUME ConnInv, NEW c \in Cmd, NEW x \in Command, cmd[c].st \in Owing, x.st \in Owing,
           x.req = cmd[c].req, x.sock = cmd[c].sock, cmd' = [cmd EXCEPT ![c] = x],
           UNCHANGED <<setup, fe, net>>, ~Over, dl' \in Download, dl'.storage = dl.storage
    PROVE  ConnInv'
<1>1. Fits(cmd[c], fe, net) /\ NoSock \notin Sock
  BY InvFacts
<1>2. /\ cmd[c].st \notin {"none", "create", "initiate"} /\ cmd[c].st # "connecting"
      /\ x.st \notin {"none", "create", "initiate"} /\ x.st # "connecting"
  BY DEF Owing, FtpStage
<1>3. Fits(x, fe', net')
  BY <1>1, <1>2 DEF Fits
<1>4. Moved(fe, fe', cmd[c].req, x.req)
  BY DEF Moved
<1>5. net \in Network /\ PoolGood(net)
  BY DEF ConnInv
<1>6. NetStep(net, net', cmd[c].sock, x.sock)
  BY <1>5 DEF NetStep
<1>7. Fine(fe', setup.limit) /\ Rested(fe', setup)
  BY DEF ConnInv
<1>8. fe'.inflight \subseteq (fe.inflight \ {cmd[c].req}) \cup {x.req}
  OBVIOUS
<1> QED BY <1>2, <1>3, <1>4, <1>6, <1>7, <1>8, InvStep

\* An FTP session goes on.
LEMMA GoesOnStep ==
    ASSUME ConnInv, NEW c \in Cmd, NEW stage \in FtpStage, NEW next \in FtpStage,
           GoesOn(c, stage, next)
    PROVE  ConnInv'
<1> DEFINE x == [cmd[c] EXCEPT !.st = next]
<1>1. /\ ~Over /\ cmd[c].st = stage /\ UNCHANGED <<setup, fe, dl, net>>
      /\ cmd' = [cmd EXCEPT ![c].st = next]
  BY DEF GoesOn, Replies, Going
<1>2. cmd \in [Cmd -> Command] /\ cmd[c] \in Command
  BY InvFacts
<1>3. next \in Word /\ stage \in Owing /\ next \in Owing
  BY DEF Word, Owing
<1>4. x \in Command /\ x.st = next /\ x.req = cmd[c].req /\ x.sock = cmd[c].sock
  BY <1>2, <1>3 DEF Command
<1>5. cmd' = [cmd EXCEPT ![c] = x]
  BY <1>1, <1>2
<1> HIDE DEF x
<1>6. dl' \in Download /\ dl'.storage = dl.storage
  BY <1>1 DEF ConnInv
<1> QED BY <1>1, <1>3, <1>4, <1>5, <1>6, InvQuiet

\* A transfer over FTP begins.
LEMMA FtpRetrStep ==
    ASSUME ConnInv, NEW c \in Cmd, FtpRetr(c)
    PROVE  ConnInv'
<1> DEFINE x == [cmd[c] EXCEPT !.st = "download", !.keep = TRUE]
<1>1. /\ ~Over /\ cmd[c].st = "retr" /\ UNCHANGED <<setup, fe, dl, net>>
      /\ cmd' = [cmd EXCEPT ![c].st = "download", ![c].keep = TRUE]
  BY DEF FtpRetr, Replies, Going
<1>2. cmd \in [Cmd -> Command] /\ cmd[c] \in Command
  BY InvFacts
<1>3. "download" \in Word /\ "retr" \in Owing /\ "download" \in Owing
  BY DEF Word, Owing, FtpStage
<1>4. x \in Command /\ x.st = "download" /\ x.req = cmd[c].req /\ x.sock = cmd[c].sock
  BY <1>2, <1>3 DEF Command
<1>5. cmd' = [cmd EXCEPT ![c] = x]
  BY <1>1, <1>2
<1> HIDE DEF x
<1>6. dl' \in Download /\ dl'.storage = dl.storage
  BY <1>1 DEF ConnInv
<1> QED BY <1>1, <1>3, <1>4, <1>5, <1>6, InvQuiet

\* The first command knows the length of the file: others begin.
LEMMA InvStarted ==
    ASSUME ConnInv, NEW c \in Cmd, NEW x \in Command, cmd[c].st \in Owing, x.st \in Owing,
           x.req = cmd[c].req, x.sock = cmd[c].sock, ~dl.storage, ~Over,
           cmd' = [Started({c}) EXCEPT ![c] = x],
           UNCHANGED <<setup, fe, net>>, dl' \in Download, dl'.storage
    PROVE  ConnInv'
<1> DEFINE m == Started({c})
<1>1. cmd \in [Cmd -> Command] /\ \A d \in Cmd : Fits(cmd[d], fe, net)
  BY InvFacts
<1>2. NewCmd \in Command /\ NewCmd.req = NoReq /\ NewCmd.sock = NoSock
      /\ \A f, n : Fits(NewCmd, f, n)
  BY BlankCommands DEF Fits
<1>3. m \in [Cmd -> Command] /\ \A d \in Cmd : m[d] = NewCmd \/ m[d] = cmd[d]
  BY <1>1, <1>2 DEF Started
<1> HIDE DEF m
<1>4. /\ cmd' \in [Cmd -> Command] /\ cmd'[c] = x
      /\ \A d \in Cmd : d # c => cmd'[d] = NewCmd \/ cmd'[d] = cmd[d]
  BY <1>3 DEF m
<1>5. /\ cmd[c].st \notin {"none", "create", "initiate"} /\ cmd[c].st # "connecting"
      /\ x.st \notin {"none", "create", "initiate"} /\ x.st # "connecting"
  BY DEF Owing, FtpStage
<1>6. Fits(x, fe, net)
  BY <1>1, <1>5 DEF Fits
<1>7. \A d \in Cmd : Fits(cmd'[d], fe', net')
  BY <1>1, <1>2, <1>4, <1>6
<1>8. \A d, e \in Cmd : d # e => Apart(cmd'[d], cmd'[e])
  <2>1. SUFFICES ASSUME NEW d \in Cmd, NEW e \in Cmd, d # e PROVE Apart(cmd'[d], cmd'[e])
    OBVIOUS
  <2>2. Apart(cmd[d], cmd[e])
    BY <2>1 DEF ConnInv, Working
  <2>3. /\ cmd'[d].req = cmd[d].req \/ cmd'[d].req = NoReq
        /\ cmd'[e].req = cmd[e].req \/ cmd'[e].req = NoReq
        /\ cmd'[d].sock = cmd[d].sock \/ cmd'[d].sock = NoSock
        /\ cmd'[e].sock = cmd[e].sock \/ cmd'[e].sock = NoSock
    BY <1>2, <1>4
  <2> QED BY <2>2, <2>3 DEF Apart
<1>9. Working(fe', net', cmd')
  BY <1>4, <1>7, <1>8 DEF Working
<1>10. OneAtATime => Covered(fe', cmd')
  <2>1. SUFFICES ASSUME OneAtATime, NEW r \in fe.inflight
                 PROVE  \E d \in Cmd : cmd'[d].req = r
    BY DEF Covered
  <2>2. PICK d \in Cmd : cmd[d].req = r
    BY <2>1 DEF ConnInv, Covered
  <2>3. r # NoReq
    BY InvFacts
  <2>4. cmd[d].st # "none"
    BY <1>1, <2>2, <2>3 DEF Fits
  <2>5. d = c
    BY <1>5, <2>4 DEF ConnInv, Alone
  <2> QED BY <1>4, <2>2, <2>5
<1>11. net' \in Network /\ PoolGood(net')
  BY DEF ConnInv
<1>12. OneAtATime' = OneAtATime
  BY DEF OneAtATime
<1>13. setup' \in Setups /\ Fine(fe', setup'.limit) /\ Rested(fe', setup')
  BY DEF ConnInv
<1>14. Alone(dl', cmd')
  BY DEF Alone
<1> QED BY <1>9, <1>10, <1>11, <1>12, <1>13, <1>14 DEF ConnInv

\* A proper response, the first one of all included.
LEMMA GoodResponseStep ==
    ASSUME ConnInv, NEW c \in Cmd, NEW keep \in BOOLEAN, GoodResponse(c, keep)
    PROVE  ConnInv'
<1>1. ~Over /\ cmd[c].st = "response" /\ UNCHANGED <<setup, fe, net>>
  BY DEF GoodResponse, Going
<1>2. cmd \in [Cmd -> Command] /\ cmd[c] \in Command
  BY InvFacts
<1>3. "download" \in Word /\ "response" \in Owing /\ "download" \in Owing
      /\ 1 \in Piece \cup {NoPiece}
  BY ConnectionsAssumption DEF Word, Owing, Piece
<1>4. CASE dl.storage
  <2> DEFINE x == [cmd[c] EXCEPT !.st = "download", !.keep = keep]
  <2>1. cmd' = [cmd EXCEPT ![c].st = "download", ![c].keep = keep] /\ dl' = dl
    BY <1>4 DEF GoodResponse
  <2>2. x \in Command /\ x.st = "download" /\ x.req = cmd[c].req /\ x.sock = cmd[c].sock
    BY <1>2, <1>3 DEF Command
  <2>3. cmd' = [cmd EXCEPT ![c] = x]
    BY <1>2, <2>1
  <2> HIDE DEF x
  <2>4. dl' \in Download /\ dl'.storage = dl.storage
    BY <2>1 DEF ConnInv
  <2> QED BY <1>1, <1>3, <2>2, <2>3, <2>4, InvQuiet
<1>5. CASE ~dl.storage
  <2> DEFINE x == [cmd[c] EXCEPT !.st = "download", !.seg = 1, !.keep = keep]
             m == Started({c})
  <2>1. /\ cmd' = [m EXCEPT ![c].st = "download", ![c].seg = 1, ![c].keep = keep]
        /\ dl' = [dl EXCEPT !.storage = TRUE]
    BY <1>5 DEF GoodResponse
  <2>2. x \in Command /\ x.st = "download" /\ x.req = cmd[c].req /\ x.sock = cmd[c].sock
    BY <1>2, <1>3 DEF Command
  <2>3. m[c] = cmd[c] /\ m = [d \in Cmd |-> m[d]]
    BY DEF Started
  <2> HIDE DEF m
  <2>4. cmd' = [m EXCEPT ![c] = x]
    BY <1>2, <2>1, <2>3
  <2> HIDE DEF x
  <2>5. dl' \in Download /\ dl'.storage
    BY <2>1 DEF ConnInv, Download
  <2> QED BY <1>1, <1>3, <1>5, <2>2, <2>4, <2>5, InvStarted DEF m
<1> QED BY <1>4, <1>5

\* The length of the file over FTP.
LEMMA FtpSizeStep ==
    ASSUME ConnInv, NEW c \in Cmd, FtpSize(c)
    PROVE  ConnInv'
<1>1. CASE GoesOn(c, "size", "data")
  <2>1. "size" \in FtpStage /\ "data" \in FtpStage
    BY DEF FtpStage
  <2> QED BY <1>1, <2>1, GoesOnStep
<1>2. CASE ~dl.storage /\ Replies(c, "size")
           /\ cmd' = [Started({c}) EXCEPT ![c].st = "data", ![c].seg = 1]
           /\ dl' = [dl EXCEPT !.storage = TRUE] /\ UNCHANGED <<setup, fe, net>>
  <2> DEFINE x == [cmd[c] EXCEPT !.st = "data", !.seg = 1]
             m == Started({c})
  <2>1. cmd \in [Cmd -> Command] /\ cmd[c] \in Command
    BY InvFacts
  <2>2. "data" \in Word /\ "size" \in Owing /\ "data" \in Owing /\ 1 \in Piece \cup {NoPiece}
    BY ConnectionsAssumption DEF Word, Owing, FtpStage, Piece
  <2>3. x \in Command /\ x.st = "data" /\ x.req = cmd[c].req /\ x.sock = cmd[c].sock
    BY <2>1, <2>2 DEF Command
  <2>4. m[c] = cmd[c] /\ m = [d \in Cmd |-> m[d]]
    BY DEF Started
  <2>5. cmd' = [m EXCEPT ![c].st = "data", ![c].seg = 1]
    BY <1>2
  <2> HIDE DEF m
  <2>6. cmd' = [m EXCEPT ![c] = x]
    BY <2>1, <2>4, <2>5
  <2> HIDE DEF x
  <2>7. dl' \in Download /\ dl'.storage
    BY <1>2 DEF ConnInv, Download
  <2>8. ~Over /\ cmd[c].st = "size"
    BY <1>2 DEF Replies, Going
  <2> QED BY ZenonT(60), <1>2, <2>2, <2>3, <2>6, <2>7, <2>8, InvStarted DEF m
<1> QED BY <1>1, <1>2 DEF FtpSize

\* A segment is complete: the response goes on with the next piece, which may
\* be taken from another command, or ends.
LEMMA SegmentCompleteStep ==
    ASSUME ConnInv, NEW c \in Cmd, SegmentComplete(c)
    PROVE  ConnInv'
<1> DEFINE p == cmd[c].seg
           r == cmd[c].req
<1>1. ~Over /\ cmd[c].st = "download" /\ p # NoPiece /\ UNCHANGED setup
  BY DEF SegmentComplete, Going
<1>2. cmd \in [Cmd -> Command] /\ cmd[c] \in Command /\ p \in Piece
  <2>1. cmd \in [Cmd -> Command] /\ cmd[c] \in Command
    BY InvFacts
  <2>2. p \in Piece \cup {NoPiece}
    BY <2>1 DEF Command
  <2> QED BY <1>1, <2>1, <2>2
<1>3. r \in fe.inflight
  BY <1>1, Holds
<1>4. \/ /\ p + 1 \in Piece
         /\ cmd' = [d \in Cmd |->
                     IF d = c THEN [cmd[c] EXCEPT !.seg = p + 1]
                     ELSE IF cmd[d].seg = p + 1
                     THEN [cmd[d] EXCEPT !.seg = NoPiece] ELSE cmd[d]]
         /\ dl' = [dl EXCEPT !.done = @ \cup {p}]
         /\ UNCHANGED <<fe, net>>
      \/ FtpFinishes(c)
      \/ /\ \E whole \in BOOLEAN : net' \in AfterResponse(net, cmd[c].sock, whole, cmd[c].keep)
         /\ fe' = poolRequest(fe, r)
         /\ \E x \in {NoCmd, NewCmd} : cmd' = [cmd EXCEPT ![c] = x]
         /\ \E b \in BOOLEAN : dl' = [dl EXCEPT !.done = @ \cup {p}, !.ignored = b]
  <2> DEFINE whole == cmd[c].end = p + 1
             finished == dl.done \cup {p} = Piece
  <2>1. whole \in BOOLEAN /\ (dl.ignored /\ finished) \in BOOLEAN
    OBVIOUS
  <2>2. p + 1 \in Piece \ dl.done => p + 1 \in Piece
    OBVIOUS
  <2> HIDE DEF whole, finished
  <2> QED BY <2>1, <2>2 DEF SegmentComplete, MayTake, whole, finished
<1>5. CASE /\ p + 1 \in Piece
           /\ cmd' = [d \in Cmd |->
                     IF d = c THEN [cmd[c] EXCEPT !.seg = p + 1]
                     ELSE IF cmd[d].seg = p + 1
                     THEN [cmd[d] EXCEPT !.seg = NoPiece] ELSE cmd[d]]
           /\ dl' = [dl EXCEPT !.done = @ \cup {p}]
           /\ UNCHANGED <<fe, net>>
  <2>1. ASSUME NEW d \in Cmd
        PROVE  /\ cmd'[d] \in Command /\ cmd'[d].st = cmd[d].st
               /\ cmd'[d].req = cmd[d].req /\ cmd'[d].sock = cmd[d].sock
    <3>1. cmd[d] \in Command
      BY <1>2
    <3>2. \A q \in Piece \cup {NoPiece} : LET y == [cmd[d] EXCEPT !.seg = q] IN
             /\ y \in Command /\ y.st = cmd[d].st /\ y.req = cmd[d].req
             /\ y.sock = cmd[d].sock
      BY <3>1 DEF Command
    <3>3. cmd'[d] = cmd[d] \/ \E q \in Piece \cup {NoPiece} : cmd'[d] = [cmd[d] EXCEPT !.seg = q]
      BY <1>5
    <3> QED BY <3>1, <3>2, <3>3
  <2>2. cmd' \in [Cmd -> Command]
    <3>1. cmd' = [d \in Cmd |-> cmd'[d]]
      BY <1>5
    <3> QED BY <2>1, <3>1
  <2>3. \A d \in Cmd : Fits(cmd'[d], fe', net')
    BY <1>5, <2>1, InvFacts DEF Fits
  <2>4. \A d, e \in Cmd : d # e => Apart(cmd'[d], cmd'[e])
    BY <2>1 DEF ConnInv, Working, Apart
  <2>5. Working(fe', net', cmd')
    BY <2>2, <2>3, <2>4 DEF Working
  <2>6. dl' \in Download /\ dl'.storage = dl.storage
    BY <1>2, <1>5 DEF ConnInv, Download
  <2>7. Alone(dl', cmd')
    BY <2>1, <2>6 DEF ConnInv, Alone
  <2>8. OneAtATime => Covered(fe', cmd')
    BY <1>1, <1>5, <2>1 DEF ConnInv, Covered
  <2>9. OneAtATime' = OneAtATime
    BY <1>1 DEF OneAtATime
  <2>10. setup' \in Setups /\ Fine(fe', setup'.limit) /\ Rested(fe', setup')
         /\ net' \in Network /\ PoolGood(net')
    BY <1>1, <1>5 DEF ConnInv
  <2> QED BY <2>5, <2>6, <2>7, <2>8, <2>9, <2>10 DEF ConnInv
<1>6. CASE FtpFinishes(c)
  <2> DEFINE x == [cmd[c] EXCEPT !.st = "finish", !.seg = NoPiece]
  <2>1. /\ cmd' = [cmd EXCEPT ![c].st = "finish", ![c].seg = NoPiece]
        /\ dl' = [dl EXCEPT !.done = @ \cup {p}] /\ UNCHANGED <<fe, net>>
    BY <1>6 DEF FtpFinishes
  <2>2. "finish" \in Word /\ "finish" \in Owing /\ "download" \in Owing
    BY DEF Word, Owing
  <2>3. x \in Command /\ x.st = "finish" /\ x.req = cmd[c].req /\ x.sock = cmd[c].sock
    BY <1>2, <2>2 DEF Command
  <2>4. cmd' = [cmd EXCEPT ![c] = x]
    BY <1>2, <2>1
  <2> HIDE DEF x
  <2>5. dl' \in Download /\ dl'.storage = dl.storage
    BY <1>2, <2>1 DEF ConnInv, Download
  <2> QED BY ZenonT(60), <1>1, <2>1, <2>2, <2>3, <2>4, <2>5, InvQuiet
<1>7. CASE /\ \E whole \in BOOLEAN : net' \in AfterResponse(net, cmd[c].sock, whole, cmd[c].keep)
           /\ fe' = poolRequest(fe, r)
           /\ \E x \in {NoCmd, NewCmd} : cmd' = [cmd EXCEPT ![c] = x]
           /\ \E b \in BOOLEAN : dl' = [dl EXCEPT !.done = @ \cup {p}, !.ignored = b]
  <2>1. NetStep(net, net', cmd[c].sock, NoSock)
    BY <1>1, <1>7, GiveBackSocket
  <2>2. setup.limit \in Nat /\ Fine(fe, setup.limit)
    BY InvFacts DEF ConnInv
  <2>3. Fine(fe', setup.limit) /\ fe'.inflight = fe.inflight \ {r} /\ fe'.reqs = fe.reqs
    BY <1>3, <1>7, <2>2, FinePool
  <2>4. Rested(fe', setup)
    BY <2>3 DEF ConnInv, Rested
  <2>5. dl' \in Download /\ dl'.storage = dl.storage
    <3>1. PICK b \in BOOLEAN : dl' = [dl EXCEPT !.done = @ \cup {p}, !.ignored = b]
      BY <1>7
    <3>2. dl \in Download /\ dl.done \cup {p} \in SUBSET Piece
      BY <1>2 DEF ConnInv, Download
    <3> QED BY <3>1, <3>2 DEF Download
  <2>6. PICK x \in {NoCmd, NewCmd} : cmd' = [cmd EXCEPT ![c] = x]
    BY <1>7
  <2>7. Fits(x, fe', net') /\ x.req = NoReq /\ x.sock = NoSock
    BY BlankCommands
  <2>8. Moved(fe, fe', cmd[c].req, x.req)
    BY <2>3, <2>7 DEF Moved
  <2>9. fe'.inflight \subseteq (fe.inflight \ {cmd[c].req}) \cup {x.req}
    BY <2>3
  <2> QED BY <1>1, <2>1, <2>3, <2>4, <2>5, <2>6, <2>7, <2>8, <2>9, InvStep
<1> QED BY <1>4, <1>5, <1>6, <1>7

\* The end of a request is a piece or beyond the last.
LEMMA EndIsNumber ==
    ASSUME NEW c
    PROVE  EndOfRequest(c) \in Nat
<1> DEFINE used == {p \in Piece : p > cmd[c].seg
                      /\ (p \in dl.done \/ \E d \in Cmd : cmd[d].seg = p)}
<1>1. used \in SUBSET Nat /\ NumPieces + 1 \in Nat
  BY ConnectionsAssumption DEF Piece
<1>2. EndOfRequest(c) = NumPieces + 1 \/ (used # {} /\ EndOfRequest(c) = Min(used))
  BY DEF EndOfRequest
<1> HIDE DEF used
<1>3. used # {} => Min(used) \in Nat
  BY <1>1, LeastNumber
<1> QED BY <1>1, <1>2, <1>3

\* The address of a request is noted.
LEMMA AddressNoted ==
    ASSUME ConnInv, NEW r \in fe.inflight, NEW a \in Address \cup {NoAddr}, NEW f,
           f = [fe EXCEPT !.reqs[r].addr = a]
    PROVE  Fine(f, setup.limit) /\ Rested(f, setup) /\ f.inflight = fe.inflight
<1> DEFINE x == [fe.reqs[r] EXCEPT !.addr = a]
<1>1. /\ r \in Req /\ fe \in Entry /\ fe.reqs \in [Req -> Request] /\ fe.reqs[r] \in Request
      /\ Fine(fe, setup.limit) /\ setup.limit \in Nat
  BY InvFacts DEF ConnInv
<1>2. x \in Request /\ x.uri = fe.reqs[r].uri
  BY <1>1 DEF Request
<1>3. x.asleep = fe.reqs[r].asleep
  BY <1>1 DEF Request
<1>4. f = [fe EXCEPT !.reqs = [fe.reqs EXCEPT ![r] = x]]
  BY <1>1 DEF Entry
<1> HIDE DEF x
<1>5. /\ Fine(f, setup.limit) /\ f.pool = fe.pool /\ f.inflight = fe.inflight
      /\ \A q \in Req : f.reqs[q] = IF q = r THEN x ELSE fe.reqs[q]
  BY ONLY <1>1, <1>2, <1>4, FineTouch
<1>6. ASSUME NEW q \in Req, f.reqs[q].asleep PROVE setup.wait
  BY <1>1, <1>3, <1>5, <1>6 DEF Rested, ConnInv
<1> QED BY <1>5, <1>6 DEF Rested

\* A message is sent over connection s.
LEMMA InvSending ==
    ASSUME ConnInv, NEW c \in Cmd, cmd[c].st \in {"initiate", "connecting"}, ~Over,
           NEW n, NEW s, NEW a \in Address \cup {NoAddr}, NEW new, Sending(c, n, s, a, new),
           NetStep(net, [n EXCEPT !.socks[s].owed = @ + 1], cmd[c].sock, s),
           InUse([n EXCEPT !.socks[s].owed = @ + 1], s, 1), UNCHANGED <<setup, dl>>
    PROVE  ConnInv'
<1> DEFINE w == IF ~IsFtp(c) THEN "response" ELSE IF new THEN "login" ELSE "cwd"
           e == EndOfRequest(c)
           x == [cmd[c] EXCEPT !.st = w, !.sock = s, !.end = e]
<1>1. /\ net' = [n EXCEPT !.socks[s].owed = @ + 1]
      /\ fe' = [fe EXCEPT !.reqs[cmd[c].req].addr = a]
      /\ cmd' = [cmd EXCEPT ![c].st = w, ![c].sock = s, ![c].end = e]
  BY DEF Sending
<1>2. w \in Owing /\ w \in Word
  BY DEF Owing, Word, FtpStage
<1>3. e \in Nat /\ s \in Sock /\ InUse(net', s, 1) /\ NetStep(net, net', cmd[c].sock, s)
  BY <1>1, EndIsNumber DEF InUse
<1> HIDE DEF w, e
<1>4. cmd \in [Cmd -> Command] /\ cmd[c] \in Command
  BY InvFacts
<1>5. x \in Command /\ x.st = w /\ x.req = cmd[c].req /\ x.sock = s
  BY <1>2, <1>3, <1>4 DEF Command
<1>6. cmd' = [cmd EXCEPT ![c] = x]
  BY <1>1, <1>4
<1> HIDE DEF x
<1>7. cmd[c].req \in fe.inflight /\ cmd[c].req # NoReq
  BY Holds
<1>8. Fine(fe', setup.limit) /\ Rested(fe', setup) /\ fe'.inflight = fe.inflight
  BY <1>1, <1>7, AddressNoted
<1>9. x.st \notin {"none", "create", "initiate"} /\ x.st # "connecting"
  BY <1>2, <1>5 DEF Owing, FtpStage
<1>10. Fits(x, fe', net')
  BY <1>3, <1>5, <1>7, <1>8, <1>9 DEF Fits
<1>11. Moved(fe, fe', cmd[c].req, x.req)
  BY <1>5, <1>8 DEF Moved
<1>12. dl' \in Download /\ dl'.storage = dl.storage
  BY DEF ConnInv
<1>13. fe'.inflight \subseteq (fe.inflight \ {cmd[c].req}) \cup {x.req}
  BY <1>5, <1>8
<1>14. NetStep(net, net', cmd[c].sock, x.sock)
  BY <1>3, <1>5
<1> QED BY <1>6, <1>8, <1>10, <1>11, <1>12, <1>13, <1>14, InvStep

\* The good addresses of a host are addresses.
LEMMA GoodAddress ==
    ASSUME NEW n, NEW h \in Host, findAll(n, h) # {}
    PROVE  find(n, h) \in Address
<1> DEFINE S == findAll(n, h)
<1>1. AddrsOf[h] \in Seq(Address)
  BY SocketsAssumption
<1>2. S \subseteq DOMAIN AddrsOf[h]
  BY DEF findAll
<1>3. DOMAIN AddrsOf[h] = 1 .. Len(AddrsOf[h]) /\ Len(AddrsOf[h]) \in Nat
  BY <1>1
<1>4. S \in SUBSET Nat
  BY <1>2, <1>3
<1> HIDE DEF S
<1>5. Min(S) \in S
  BY <1>4, LeastNumber DEF S
<1>6. Min(S) \in DOMAIN AddrsOf[h]
  BY <1>2, <1>5
<1> QED BY <1>1, <1>3, <1>6 DEF find, S

\* An idle connection is used, or one is opened.
LEMMA InitiateConnectionStep ==
    ASSUME ConnInv, NEW c \in Cmd, InitiateConnection(c)
    PROVE  ConnInv'
<1> DEFINE h == HostOfCmd(c)
           n == resolveHostname(net, h)
<1>1. ~Over /\ cmd[c].st = "initiate" /\ UNCHANGED <<setup, dl>>
  BY DEF InitiateConnection, Going
<1>2. /\ cmd[c].req \in fe.inflight /\ h \in Host /\ cmd[c].req # NoReq
      /\ fe.reqs[cmd[c].req].addr \in Address \cup {NoAddr}
  BY <1>1, Holds
<1>3. cmd[c].sock = NoSock /\ cmd \in [Cmd -> Command] /\ cmd[c] \in Command
  BY <1>1, InvFacts DEF Fits
<1>4. net \in Network /\ PoolGood(net) /\ net.pool \subseteq Sock /\ NoSock \notin Sock
  BY InvFacts DEF ConnInv, Network
<1>5. Same(net, n)
  BY <1>2, <1>4, SameNet
<1>6. \/ net' = n /\ UNCHANGED <<fe, cmd>>
      \/ \E s \in Poolable(n, h) :
            Sending(c, popPooledSocket(n, s), s, n.socks[s].addr, FALSE)
      \/ /\ FreeSock(n) # {} /\ findAll(n, h) # {}
         /\ net' = OpenSocket(n, find(n, h))
         /\ fe' = [fe EXCEPT !.reqs[cmd[c].req].addr = find(n, h)]
         /\ cmd' = [cmd EXCEPT ![c].st = "connecting", ![c].sock = Min(FreeSock(n))]
  <2> HIDE DEF n, h
  <2> QED BY DEF InitiateConnection, n, h
<1> HIDE DEF n, h
<1>7. n \in Network /\ PoolGood(n) /\ n.pool \subseteq Sock
  BY <1>4, <1>5 DEF Same, PoolGood
<1>8. CASE net' = n /\ UNCHANGED <<fe, cmd>>
  <2>1. Fits(cmd[c], fe', net')
    BY <1>1, <1>3, <1>8, InvFacts DEF Fits
  <2>2. cmd' = [cmd EXCEPT ![c] = cmd[c]]
    BY <1>3, <1>8
  <2>3. NetStep(net, net', cmd[c].sock, cmd[c].sock)
    BY <1>3, <1>4, <1>5, <1>7, <1>8 DEF NetStep, Same
  <2>4. Moved(fe, fe', cmd[c].req, cmd[c].req)
    BY <1>8 DEF Moved
  <2>5. Fine(fe', setup.limit) /\ Rested(fe', setup) /\ dl' \in Download /\ dl'.storage = dl.storage
    BY <1>1, <1>8 DEF ConnInv
  <2>6. fe'.inflight \subseteq (fe.inflight \ {cmd[c].req}) \cup {cmd[c].req}
    BY <1>8
  <2> QED BY <1>1, <2>1, <2>2, <2>3, <2>4, <2>5, <2>6, InvStep
<1>9. ASSUME NEW s \in Poolable(n, h),
             Sending(c, popPooledSocket(n, s), s, n.socks[s].addr, FALSE)
      PROVE  ConnInv'
  <2> DEFINE m == popPooledSocket(n, s)
             k == [m EXCEPT !.socks[s].owed = @ + 1]
  <2>1. s \in n.pool
    BY DEF Poolable
  <2>2. n.socks[s].addr \in Address \cup {NoAddr}
    BY <1>7, <2>1 DEF PoolGood
  <2>3. NetStep(n, k, NoSock, s) /\ InUse(k, s, 1)
    BY <1>7, <2>1, NetReuse
  <2>4. Same(k, k)
    BY <2>3 DEF NetStep, Same
  <2>5. NetStep(net, k, cmd[c].sock, s)
    BY <1>3, <1>5, <2>3, <2>4, NetStepSame
  <2> HIDE DEF m
  <2>6. Sending(c, m, s, n.socks[s].addr, FALSE)
    BY <1>9 DEF m
  <2> QED BY <1>1, <2>2, <2>3, <2>5, <2>6, InvSending
<1>10. CASE /\ FreeSock(n) # {} /\ findAll(n, h) # {}
            /\ net' = OpenSocket(n, find(n, h))
            /\ fe' = [fe EXCEPT !.reqs[cmd[c].req].addr = find(n, h)]
            /\ cmd' = [cmd EXCEPT ![c].st = "connecting", ![c].sock = Min(FreeSock(n))]
  <2> DEFINE s == Min(FreeSock(n))
             a == find(n, h)
             x == [cmd[c] EXCEPT !.st = "connecting", !.sock = s]
  <2>1. a \in Address
    BY <1>2, <1>10, GoodAddress
  <2> HIDE DEF a, s
  <2>2. NetStep(n, net', NoSock, s) /\ InUse(net', s, 0)
    BY <1>7, <1>10, <2>1, NetOpen DEF a, s
  <2>3. Same(net', net')
    BY <2>2 DEF NetStep, Same
  <2>4. NetStep(net, net', cmd[c].sock, s)
    BY <1>3, <1>5, <2>2, <2>3, NetStepSame
  <2>5. s \in Sock /\ "connecting" \in Word
    BY <2>2 DEF InUse, Word
  <2>6. x \in Command /\ x.st = "connecting" /\ x.req = cmd[c].req /\ x.sock = s
    BY <1>3, <2>5 DEF Command
  <2>7. cmd' = [cmd EXCEPT ![c] = x]
    BY <1>3, <1>10 DEF s
  <2> HIDE DEF x
  <2>8. fe' = [fe EXCEPT !.reqs[cmd[c].req].addr = a]
    BY <1>10 DEF a
  <2>9. Fine(fe', setup.limit) /\ Rested(fe', setup) /\ fe'.inflight = fe.inflight
    BY <1>2, <2>1, <2>8, AddressNoted
  <2>10. Fits(x, fe', net')
    BY <1>2, <2>2, <2>6, <2>9 DEF Fits
  <2>11. Moved(fe, fe', cmd[c].req, x.req)
    BY <2>6, <2>9 DEF Moved
  <2>12. dl' \in Download /\ dl'.storage = dl.storage
    BY <1>1 DEF ConnInv
  <2>13. fe'.inflight \subseteq (fe.inflight \ {cmd[c].req}) \cup {x.req}
    BY <2>6, <2>9
  <2>14. NetStep(net, net', cmd[c].sock, x.sock)
    BY <2>4, <2>6
  <2> QED BY <1>1, <2>7, <2>9, <2>10, <2>11, <2>12, <2>13, <2>14, InvStep
<1> QED BY <1>6, <1>8, <1>9, <1>10

\* A connection is established.
LEMMA ConnectedStep ==
    ASSUME ConnInv, NEW c \in Cmd, Connected(c)
    PROVE  ConnInv'
<1> DEFINE a == fe.reqs[cmd[c].req].addr
           s == cmd[c].sock
<1>1. /\ ~Over /\ cmd[c].st = "connecting" /\ UNCHANGED <<setup, dl>>
      /\ Sending(c, net, s, a, TRUE)
  BY DEF Connected, Going
<1>2. a \in Address \cup {NoAddr}
  BY <1>1, Holds
<1>3. net \in Network /\ PoolGood(net) /\ InUse(net, s, 0)
  BY <1>1, InvFacts DEF ConnInv, Fits
<1>4. LET k == [net EXCEPT !.socks[s].owed = @ + 1] IN NetStep(net, k, s, s) /\ InUse(k, s, 1)
  BY <1>3, NetSend DEF InUse
<1> QED BY <1>1, <1>2, <1>4, InvSending

\* The backup connection is established first.
LEMMA BackupConnectedStep ==
    ASSUME ConnInv, NEW c \in Cmd, BackupConnected(c)
    PROVE  ConnInv'
<1> DEFINE a == fe.reqs[cmd[c].req].addr
           h == HostOfCmd(c)
           s == cmd[c].sock
           n == markBad(net, h, a)
<1>1. PICK b \in ToSet(AddrsOf[h]) :
         /\ ~Over /\ cmd[c].st = "connecting" /\ UNCHANGED <<setup, dl>>
         /\ Sending(c, [n EXCEPT !.socks[s].addr = b], s, b, TRUE)
  BY DEF BackupConnected, Going
<1>2. a \in Address \cup {NoAddr} /\ h \in Host
  BY <1>1, Holds
<1>3. b \in Address
  BY SMTT(60), <1>2 DEF Address
<1>4. net \in Network /\ PoolGood(net) /\ InUse(net, s, 0)
  BY <1>1, InvFacts DEF ConnInv, Fits
<1>5. Same(net, n)
  BY <1>2, <1>4, SameNet
<1>6. n \in Network /\ PoolGood(n) /\ InUse(n, s, 0) /\ s \in Sock
  BY <1>4, <1>5 DEF Same, PoolGood, InUse
<1> HIDE DEF n, h, a
<1> DEFINE x == [n.socks[s] EXCEPT !.addr = b]
           m == SetSocket(n, s, x)
           k == [m EXCEPT !.socks[s].owed = @ + 1]
<1>7. [n EXCEPT !.socks[s].addr = b] = m
  <2> HIDE DEF s
  <2> QED BY <1>6 DEF SetSocket, Network
<1>8. x \in SocketState /\ x.addr = b /\ x.owed = 0
  <2>1. n.socks[s] \in SocketState /\ n.socks[s].owed = 0
    BY <1>6 DEF Network, InUse
  <2> QED BY <1>3, <2>1 DEF SocketState
<1> HIDE DEF x
<1>9. /\ m \in Network /\ m.pool = n.pool /\ m.socks[s] = x
      /\ \A t \in Sock : t # s => m.socks[t] = n.socks[t]
  BY <1>6, <1>8, SocketSet
<1> HIDE DEF m
<1>10. PoolGood(m) /\ m.socks[s].addr \in Address /\ m.socks[s].owed = 0 /\ s \notin m.pool
  <2>1. n.pool \subseteq Sock
    BY <1>6 DEF Network
  <2> QED BY <1>3, <1>6, <1>8, <1>9, <2>1 DEF PoolGood, InUse
<1>11. NetStep(m, k, s, s) /\ InUse(k, s, 1)
  BY <1>6, <1>9, <1>10, NetSend
<1> HIDE DEF k
<1>12. NetStep(net, k, s, s)
  BY <1>5, <1>9, <1>11 DEF NetStep, Same
<1>13. Sending(c, m, s, b, TRUE)
  BY <1>1, <1>7
<1> QED BY ZenonT(60), <1>1, <1>3, <1>11, <1>12, <1>13, InvSending DEF k

\* A command gets a request, or learns that there is none, or that it sleeps.
LEMMA GetRequestStep ==
    ASSUME ConnInv, NEW c \in Cmd, ~Over, cmd[c].st = "create",
           NEW seg \in Piece \cup {NoPiece}, GetRequest(c, seg), UNCHANGED <<setup, net>>
    PROVE  ConnInv'
<1>1. /\ setup.limit \in Nat /\ setup.wait \in BOOLEAN /\ Fine(fe, setup.limit)
      /\ cmd \in [Cmd -> Command] /\ cmd[c] \in Command
      /\ NoReq \notin Req /\ NoSock \notin Sock
  BY InvFacts DEF ConnInv
<1>2. cmd[c].req = NoReq /\ cmd[c].sock = NoSock
  BY InvFacts DEF Fits
<1>3. PICK n \in getRequest(fe, setup.limit) :
        \/ /\ n.req = NoReq /\ fe' = n.fe
           /\ \E x \in {NoCmd, NewCmd} : cmd' = [cmd EXCEPT ![c] = x]
           /\ dl' = [dl EXCEPT !.ignored = dl.storage]
        \/ /\ n.req # NoReq /\ n.fe.reqs[n.req].asleep /\ fe' = poolRequest(n.fe, n.req)
           /\ cmd' = [cmd EXCEPT ![c].seg = seg] /\ UNCHANGED dl
        \/ /\ n.req # NoReq /\ fe' = n.fe
           /\ cmd' = [cmd EXCEPT ![c].st = "initiate", ![c].req = n.req, ![c].seg = seg]
           /\ UNCHANGED dl
  BY DEF GetRequest, Successor
<1>4. Fine(n.fe, setup.limit) /\ Got(fe, n)
  BY <1>1, FineGet
<1>5. OneAtATime => GotOne(fe, n)
  <2>1. CASE setup.limit = 1
    BY <1>1, <2>1, FineGet
  <2>2. CASE ~setup.wait
    <3>1. \A r \in Req : ~fe.reqs[r].asleep
      BY <2>2 DEF ConnInv, Rested
    <3> QED BY <1>1, <3>1, FineGet
  <2> QED BY <2>1, <2>2 DEF OneAtATime
<1>6. Rested(n.fe, setup)
  <2>1. ASSUME NEW q \in Req, n.fe.reqs[q].asleep PROVE setup.wait
    <3>1. n.fe.reqs[q] = fe.reqs[q]
      BY <1>4, <2>1 DEF Got
    <3> QED BY <2>1, <3>1 DEF ConnInv, Rested
  <2> QED BY <2>1 DEF Rested
<1>7. net \in Network /\ PoolGood(net)
  BY DEF ConnInv
<1>8. NetStep(net, net', cmd[c].sock, NoSock)
  BY <1>1, <1>2, <1>7 DEF NetStep
<1>9. fe.inflight \subseteq n.fe.inflight /\ n.fe.inflight \subseteq Req
  BY <1>4 DEF Got, Fine, IsEntry, Entry
<1>10. n.req = NoReq \/ (n.req \in Req \ fe.inflight /\ n.req \in n.fe.inflight)
  BY <1>4 DEF Got
<1>11. CASE /\ n.req = NoReq /\ fe' = n.fe
            /\ \E x \in {NoCmd, NewCmd} : cmd' = [cmd EXCEPT ![c] = x]
            /\ dl' = [dl EXCEPT !.ignored = dl.storage]
  <2>1. PICK x \in {NoCmd, NewCmd} : cmd' = [cmd EXCEPT ![c] = x]
    BY <1>11
  <2>2. Fits(x, fe', net') /\ x.req = NoReq /\ x.sock = NoSock
    BY BlankCommands
  <2>3. Moved(fe, fe', cmd[c].req, x.req)
    BY <1>9, <1>11, <2>2 DEF Moved
  <2>4. dl' \in Download /\ dl'.storage = dl.storage
    BY <1>11 DEF ConnInv, Download
  <2>5. fe'.inflight \subseteq (fe.inflight \ {cmd[c].req}) \cup {x.req}
    <3>1. n.fe.inflight = fe.inflight
      BY <1>1, <1>4, <1>11 DEF Got
    <3> QED BY <1>1, <1>2, <1>9, <1>11, <2>2, <3>1
  <2> QED BY <1>4, <1>6, <1>8, <1>11, <2>1, <2>2, <2>3, <2>4, <2>5, InvStep
<1>12. CASE /\ n.req # NoReq /\ n.fe.reqs[n.req].asleep /\ fe' = poolRequest(n.fe, n.req)
            /\ cmd' = [cmd EXCEPT ![c].seg = seg] /\ UNCHANGED dl
  <2> DEFINE x == [cmd[c] EXCEPT !.seg = seg]
  <2>1. n.req \in n.fe.inflight /\ n.req \notin fe.inflight
    BY <1>10, <1>12
  <2>2. Fine(fe', setup.limit) /\ fe'.inflight = n.fe.inflight \ {n.req} /\ fe'.reqs = n.fe.reqs
    BY <1>1, <1>4, <1>12, <2>1, FinePool
  <2>3. Rested(fe', setup)
    BY <1>6, <2>2 DEF Rested
  <2>4. x \in Command /\ x.st = "create" /\ x.req = NoReq /\ x.sock = NoSock
    BY <1>1, <1>2 DEF Command
  <2>5. cmd' = [cmd EXCEPT ![c] = x]
    BY <1>1, <1>12
  <2> HIDE DEF x
  <2>6. Fits(x, fe', net')
    BY <2>4 DEF Fits
  <2>7. Moved(fe, fe', cmd[c].req, x.req)
    BY <1>9, <2>1, <2>2, <2>4 DEF Moved
  <2>8. dl' \in Download /\ dl'.storage = dl.storage
    BY <1>12 DEF ConnInv
  <2>9. OneAtATime => fe'.inflight \subseteq (fe.inflight \ {cmd[c].req}) \cup {x.req}
    <3>1. SUFFICES ASSUME OneAtATime PROVE fe'.inflight \subseteq (fe.inflight \ {NoReq}) \cup {NoReq}
      BY <1>2, <2>4
    <3>2. n.fe.inflight \subseteq fe.inflight \cup {n.req}
      BY <1>5, <3>1 DEF GotOne
    <3> QED BY <2>2, <3>2
  <2> QED BY <1>8, <2>2, <2>3, <2>4, <2>5, <2>6, <2>7, <2>8, <2>9, InvStep
<1>13. CASE /\ n.req # NoReq /\ fe' = n.fe
            /\ cmd' = [cmd EXCEPT ![c].st = "initiate", ![c].req = n.req, ![c].seg = seg]
            /\ UNCHANGED dl
  <2> DEFINE x == [cmd[c] EXCEPT !.st = "initiate", !.req = n.req, !.seg = seg]
  <2>1. n.req \in n.fe.inflight /\ n.req \notin fe.inflight /\ n.req \in Req /\ "initiate" \in Word
    BY <1>10, <1>13 DEF Word
  <2>2. x \in Command /\ x.st = "initiate" /\ x.req = n.req /\ x.sock = NoSock
    BY <1>1, <1>2, <2>1 DEF Command
  <2>3. cmd' = [cmd EXCEPT ![c] = x]
    BY <1>1, <1>13
  <2> HIDE DEF x
  <2>4. Fits(x, fe', net')
    BY <1>13, <2>1, <2>2 DEF Fits
  <2>5. Moved(fe, fe', cmd[c].req, x.req)
    BY <1>9, <1>13, <2>1, <2>2 DEF Moved
  <2>6. dl' \in Download /\ dl'.storage = dl.storage
    BY <1>13 DEF ConnInv
  <2>7. OneAtATime => fe'.inflight \subseteq (fe.inflight \ {cmd[c].req}) \cup {x.req}
    <3>1. SUFFICES ASSUME OneAtATime PROVE fe'.inflight \subseteq (fe.inflight \ {NoReq}) \cup {n.req}
      BY <1>2, <2>2
    <3>2. n.fe.inflight \subseteq fe.inflight \cup {n.req}
      BY <1>5, <3>1 DEF GotOne
    <3> QED BY <1>1, <1>9, <1>13, <3>2
  <2>8. Fine(fe', setup.limit) /\ Rested(fe', setup)
    BY <1>4, <1>6, <1>13
  <2>9. NetStep(net, net', cmd[c].sock, x.sock)
    BY <1>8, <2>2
  <2> QED BY <2>2, <2>3, <2>4, <2>5, <2>6, <2>7, <2>8, <2>9, InvStep
<1> QED BY <1>3, <1>11, <1>12, <1>13

\* A command gets a segment and a request for it.
LEMMA CreateRequestStep ==
    ASSUME ConnInv, NEW c \in Cmd, CreateRequest(c)
    PROVE  ConnInv'
<1>1. ~Over /\ cmd[c].st = "create" /\ UNCHANGED <<setup, net>>
  BY DEF CreateRequest, Going
<1>2. cmd[c] \in Command /\ cmd[c].seg \in Piece \cup {NoPiece} /\ Fits(cmd[c], fe, net)
  BY InvFacts DEF Command
<1>3. \/ \E seg \in Piece \cup {NoPiece} : GetRequest(c, seg)
      \/ cmd' = [cmd EXCEPT ![c] = NoCmd] /\ UNCHANGED <<fe, dl>>
  BY <1>2 DEF CreateRequest, Free
<1>4. CASE cmd' = [cmd EXCEPT ![c] = NoCmd] /\ UNCHANGED <<fe, dl>>
  <2>1. Fits(NoCmd, fe', net') /\ NoCmd.req = NoReq /\ NoCmd.sock = NoSock
    BY BlankCommands
  <2>2. cmd[c].req = NoReq /\ cmd[c].sock = NoSock
    BY <1>1, <1>2 DEF Fits
  <2>3. Moved(fe, fe', cmd[c].req, NoCmd.req)
    BY <1>4, <2>1 DEF Moved
  <2>4. Fine(fe', setup.limit) /\ Rested(fe', setup) /\ dl' \in Download /\ dl'.storage = dl.storage
        /\ net \in Network /\ PoolGood(net)
    BY <1>4 DEF ConnInv
  <2>5. NetStep(net, net', cmd[c].sock, NoCmd.sock)
    BY <1>1, <2>1, <2>4, InvFacts DEF NetStep
  <2>6. fe'.inflight \subseteq (fe.inflight \ {cmd[c].req}) \cup {NoCmd.req}
    BY <1>4, <2>1, <2>2
  <2> QED BY <1>1, <1>4, <2>1, <2>3, <2>4, <2>5, <2>6, InvStep
<1> QED BY <1>1, <1>3, <1>4, GetRequestStep

\* Nothing happens to the commands.
LEMMA InvAround ==
    ASSUME ConnInv, UNCHANGED <<setup, cmd>>, dl' \in Download, dl'.storage = dl.storage,
           Over => Over', Fine(fe', setup.limit), Rested(fe', setup),
           fe'.inflight = fe.inflight, net' \in Network, PoolGood(net'),
           \A s \in Sock : \/ s \in net.pool
                           \/ /\ net'.socks[s].owed = net.socks[s].owed
                              /\ net'.socks[s].addr = net.socks[s].addr,
           net'.pool \subseteq net.pool
    PROVE  ConnInv'
<1>1. ASSUME NEW c \in Cmd PROVE Fits(cmd'[c], fe', net')
  <2>1. Fits(cmd[c], fe, net)
    BY InvFacts
  <2>2. ASSUME NEW b, InUse(net, cmd[c].sock, b) PROVE InUse(net', cmd[c].sock, b)
    BY <2>2 DEF InUse
  <2> QED BY <2>1, <2>2 DEF Fits
<1>2. Working(fe', net', cmd')
  BY <1>1 DEF ConnInv, Working
<1>3. Alone(dl', cmd')
  BY DEF ConnInv, Alone
<1>4. OneAtATime => Over' \/ Covered(fe', cmd')
  BY DEF ConnInv, Covered
<1>5. OneAtATime' = OneAtATime
  BY DEF OneAtATime
<1>6. setup' \in Setups /\ Fine(fe', setup'.limit) /\ Rested(fe', setup')
  BY DEF ConnInv
<1> QED BY <1>2, <1>3, <1>4, <1>5, <1>6 DEF ConnInv

\* The retry wait of a request is over.
LEMMA WakeStep ==
    ASSUME ConnInv, NEW r \in Req, Wake(r)
    PROVE  ConnInv'
<1> DEFINE x == [fe.reqs[r] EXCEPT !.asleep = FALSE]
<1>1. fe' = [fe EXCEPT !.reqs[r].asleep = FALSE] /\ UNCHANGED <<setup, cmd, dl, net>>
  BY DEF Wake
<1>2. /\ fe \in Entry /\ fe.reqs \in [Req -> Request] /\ fe.reqs[r] \in Request
      /\ Fine(fe, setup.limit) /\ setup.limit \in Nat
  BY InvFacts DEF ConnInv
<1>3. x \in Request /\ x.uri = fe.reqs[r].uri
  BY <1>2 DEF Request
<1>4. ~x.asleep
  BY <1>2 DEF Request
<1>5. fe' = [fe EXCEPT !.reqs = [fe.reqs EXCEPT ![r] = x]]
  BY <1>1, <1>2 DEF Entry
<1> HIDE DEF x
<1>6. /\ Fine(fe', setup.limit) /\ fe'.pool = fe.pool /\ fe'.inflight = fe.inflight
      /\ \A q \in Req : fe'.reqs[q] = IF q = r THEN x ELSE fe.reqs[q]
  BY ONLY <1>2, <1>3, <1>5, FineTouch
<1>7. ASSUME NEW q \in Req, fe'.reqs[q].asleep PROVE setup.wait
  BY <1>4, <1>6, <1>7 DEF ConnInv, Rested
<1>8. Rested(fe', setup)
  BY <1>7 DEF Rested
<1>9. dl' \in Download /\ net' \in Network /\ PoolGood(net') /\ net' = net /\ dl' = dl
  BY <1>1 DEF ConnInv
<1>10. Over => Over'
  BY <1>9 DEF Over
<1> QED BY <1>1, <1>6, <1>8, <1>9, <1>10, InvAround

\* Only the network changes.
LEMMA InvNetwork ==
    ASSUME ConnInv, UNCHANGED <<setup, fe, cmd, dl>>, net' \in Network, PoolGood(net'),
           \A s \in Sock : \/ s \in net.pool
                           \/ /\ net'.socks[s].owed = net.socks[s].owed
                              /\ net'.socks[s].addr = net.socks[s].addr,
           net'.pool \subseteq net.pool
    PROVE  ConnInv'
<1>1. /\ dl' \in Download /\ dl'.storage = dl.storage
      /\ Fine(fe', setup.limit) /\ Rested(fe', setup) /\ fe'.inflight = fe.inflight
  BY DEF ConnInv
<1>2. Over => Over'
  BY DEF Over
<1> QED BY <1>1, <1>2, InvAround

\* A server closes a connection.
LEMMA ServerClosesStep ==
    ASSUME ConnInv, NEW s \in Sock, ServerCloses(s)
    PROVE  ConnInv'
<1> DEFINE x == [net.socks[s] EXCEPT !.open = FALSE]
           n == SetSocket(net, s, x)
<1>1. /\ net' = CountFault([net EXCEPT !.socks[s].open = FALSE])
      /\ UNCHANGED <<setup, fe, cmd, dl>>
  BY DEF ServerCloses
<1>2. net \in Network /\ PoolGood(net) /\ net.pool \subseteq Sock
  BY DEF ConnInv, Network
<1>3. net.socks[s] \in SocketState /\ [net EXCEPT !.socks[s].open = FALSE] = n
  BY <1>2, SocketWords
<1>4. x \in SocketState /\ x.addr = net.socks[s].addr /\ x.owed = net.socks[s].owed
  BY <1>3 DEF SocketState
<1> HIDE DEF x
<1>5. /\ n \in Network /\ n.pool = net.pool /\ n.socks[s] = x
      /\ \A t \in Sock : t # s => n.socks[t] = net.socks[t]
  BY <1>2, <1>4, SocketSet
<1> HIDE DEF n
<1>6. Same(n, net')
  <2>1. Host # {}
    BY FileEntryAssumption, ConnectionsAssumption
  <2> QED BY <1>1, <1>3, <1>5, <2>1, SameNet
<1>7. net' \in Network /\ net'.pool = net.pool /\ net'.socks = n.socks
  BY <1>5, <1>6 DEF Same
<1>8. \A t \in Sock : /\ net'.socks[t].owed = net.socks[t].owed
                      /\ net'.socks[t].addr = net.socks[t].addr
  BY <1>4, <1>5, <1>7
<1>9. PoolGood(net')
  BY <1>2, <1>7, <1>8 DEF PoolGood
<1> QED BY <1>1, <1>7, <1>8, <1>9, InvNetwork

\* An idle connection is evicted.
LEMMA PoolTimeoutStep ==
    ASSUME ConnInv, NEW s \in Sock, PoolTimeout(s)
    PROVE  ConnInv'
<1> DEFINE n == CloseSocket(net, s)
<1>1. /\ s \in net.pool /\ net' = [n EXCEPT !.pool = @ \ {s}]
      /\ UNCHANGED <<setup, fe, cmd, dl>>
  BY DEF PoolTimeout
<1>2. net \in Network /\ PoolGood(net) /\ net.pool \subseteq Sock
  BY DEF ConnInv, Network
<1>3. n = SetSocket(net, s, NoSocket) /\ NoSocket \in SocketState
  BY <1>2, SocketWords
<1>4. n \in Network /\ n.pool = net.pool /\ \A t \in Sock : t # s => n.socks[t] = net.socks[t]
  BY <1>2, <1>3, SocketSet
<1>5. net' = [n EXCEPT !.pool = n.pool \ {s}]
  BY <1>1
<1> HIDE DEF n
<1>6. net' \in Network /\ net'.pool = net.pool \ {s} /\ net'.socks = n.socks
  BY <1>2, <1>4, <1>5, PoolSet
<1>7. PoolGood(net')
  BY <1>2, <1>4, <1>6 DEF PoolGood
<1> QED BY <1>1, <1>4, <1>6, <1>7, InvNetwork

\* The addresses of a host expire.
LEMMA DnsExpiredStep ==
    ASSUME ConnInv, NEW h \in Host, DnsExpired(h)
    PROVE  ConnInv'
<1>1. net' = CountFault(removeEntry(net, h)) /\ UNCHANGED <<setup, fe, cmd, dl>>
  BY DEF DnsExpired
<1>2. net \in Network /\ PoolGood(net)
  BY DEF ConnInv
<1> DEFINE n == removeEntry(net, h)
<1>3. Same(net, n)
  BY <1>2, SameNet
<1> HIDE DEF n
<1>4. Same(n, CountFault(n))
  BY <1>3, SameNet DEF Same
<1>5. net' \in Network /\ net'.pool = net.pool /\ net'.socks = net.socks
  BY <1>1, <1>3, <1>4 DEF Same, n
<1>6. PoolGood(net')
  BY <1>2, <1>5 DEF PoolGood
<1> QED BY <1>1, <1>5, <1>6, InvNetwork

\* The download is halted.
LEMMA HaltStep ==
    ASSUME ConnInv, Halt
    PROVE  ConnInv'
<1>1. ~Over /\ dl' = [dl EXCEPT !.halt = TRUE] /\ UNCHANGED <<setup, fe, cmd, net>>
  BY DEF Halt
<1>2. dl' \in Download /\ dl'.storage = dl.storage
  BY <1>1 DEF ConnInv, Download
<1>3. /\ Fine(fe', setup.limit) /\ Rested(fe', setup) /\ fe'.inflight = fe.inflight
      /\ net' \in Network /\ PoolGood(net') /\ net' = net
  BY <1>1 DEF ConnInv
<1> QED BY <1>1, <1>2, <1>3, InvAround

----------------------------------------------------------------------------
(***************************************************************************)
(* The theorems.                                                           *)
(***************************************************************************)
\* The invariant holds at the beginning.
LEMMA InvInit ==
    ASSUME Init
    PROVE  ConnInv
<1>1. /\ setup \in Setups /\ fe = InitFileEntry /\ net = InitNet
      /\ cmd = [c \in Cmd |-> IF c = 1 THEN NewCmd ELSE NoCmd]
      /\ dl = [done |-> {}, storage |-> FALSE, ignored |-> FALSE, halt |-> FALSE]
  BY DEF Init
<1>2. Unused \in Request /\ ~Unused.asleep
  BY DEF Unused, Request
<1>3. /\ fe \in Entry /\ fe.pool = {} /\ fe.inflight = {}
      /\ \A r \in Req : fe.reqs[r] = Unused
  BY <1>1, <1>2 DEF InitFileEntry, Entry
<1>4. Fine(fe, setup.limit)
  <2>1. IsEntry(fe)
    BY <1>3 DEF IsEntry
  <2>2. ASSUME NEW h \in Host PROVE HostCount(fe, {}, h) = 0
    <3>1. {r \in {} : HostOf[fe.reqs[r].uri] = h} = {}
      OBVIOUS
    <3> QED BY <3>1, FS_EmptySet DEF HostCount
  <2>3. fe.pool \cup fe.inflight = {} /\ setup.limit \in Nat
    BY <1>1, <1>3, ConnectionsAssumption
  <2> QED BY <2>1, <2>2, <2>3 DEF Fine
<1>5. Rested(fe, setup)
  BY <1>2, <1>3 DEF Rested
<1>6. dl \in Download /\ Alone(dl, cmd)
  <2>1. dl \in Download
    BY <1>1 DEF Download
  <2>2. \A c \in Cmd : c # 1 => cmd[c] = NoCmd
    BY <1>1
  <2>3. NoCmd.st = "none"
    BY DEF NoCmd
  <2> QED BY <2>1, <2>2, <2>3 DEF Alone
<1>7. net \in Network /\ PoolGood(net)
  <2>1. NoSocket \in SocketState
    BY DEF NoSocket, SocketState, NoAddr
  <2> QED BY <1>1, <2>1 DEF InitNet, Network, PoolGood
<1>8. Working(fe, net, cmd)
  <2>1. \A c \in Cmd : cmd[c] \in {NoCmd, NewCmd}
    BY <1>1
  <2>2. \A c \in Cmd : /\ Fits(cmd[c], fe, net) /\ cmd[c] \in Command
                       /\ cmd[c].req = NoReq /\ cmd[c].sock = NoSock
    BY <2>1, BlankCommands DEF Fits
  <2>3. cmd = [c \in Cmd |-> cmd[c]]
    BY <1>1
  <2>4. cmd \in [Cmd -> Command]
    BY <2>2, <2>3
  <2> QED BY <2>2, <2>4 DEF Working, Apart
<1>9. Covered(fe, cmd)
  BY <1>3 DEF Covered
<1> QED BY <1>1, <1>4, <1>5, <1>6, <1>7, <1>8, <1>9 DEF ConnInv

\* Every step keeps the invariant.
LEMMA InvNext ==
    ASSUME ConnInv, [Next]_vars
    PROVE  ConnInv'
<1>1. ASSUME NEW c \in Cmd, CommandStep(c) PROVE ConnInv'
  <2>1. CASE EndOfDownload(c) \/ SegmentTaken(c) \/ CreateRequest(c)
    BY <2>1, EndOfDownloadStep, SegmentTakenStep, CreateRequestStep
  <2>2. CASE InitiateConnection(c) \/ Connected(c) \/ Refused(c) \/ BackupConnected(c)
    BY <2>2, InitiateConnectionStep, ConnectedStep, RefusedStep, BackupConnectedStep
  <2>3. CASE Timeout(c) \/ GotEof(c) \/ ErrorResponse(c)
    BY <2>3, TimeoutStep, GotEofStep, ErrorResponseStep
  <2>4. CASE \E keep \in BOOLEAN : GoodResponse(c, keep)
    BY <2>4, GoodResponseStep
  <2>5. CASE SegmentComplete(c)
    BY <2>5, SegmentCompleteStep
  <2>6. CASE FtpLogin(c) \/ FtpCwd(c) \/ FtpData(c)
    <3>1. {"login", "cwd", "size", "data", "retr"} \subseteq FtpStage
      BY DEF FtpStage
    <3> QED BY <2>6, <3>1, GoesOnStep DEF FtpLogin, FtpCwd, FtpData
  <2>7. CASE FtpSize(c) \/ FtpRetr(c)
    BY <2>7, FtpSizeStep, FtpRetrStep
  <2>8. CASE FtpError(c) \/ FtpDataRefused(c) \/ FtpFinish(c)
    BY <2>8, FtpErrorStep, FtpDataRefusedStep, FtpFinishStep
  <2> QED BY <1>1, <2>1, <2>2, <2>3, <2>4, <2>5, <2>6, <2>7, <2>8 DEF CommandStep
<1>2. CASE \E r \in Req : Wake(r)
  BY <1>2, WakeStep
<1>3. CASE \E s \in Sock : ServerCloses(s) \/ PoolTimeout(s)
  BY <1>3, ServerClosesStep, PoolTimeoutStep
<1>4. CASE \E h \in Host : DnsExpired(h)
  BY <1>4, DnsExpiredStep
<1>5. CASE Halt
  BY <1>5, HaltStep
<1>6. CASE UNCHANGED vars
  BY <1>6 DEF vars, ConnInv, OneAtATime, Over
<1> QED BY <1>1, <1>2, <1>3, <1>4, <1>5, <1>6 DEF Next, Done

\* The invariant holds in every behaviour.
LEMMA InvAlways == Spec => []ConnInv
<1>1. Init => ConnInv
  BY InvInit
<1>2. ConnInv /\ [Next]_vars => ConnInv'
  BY InvNext
<1> QED BY <1>1, <1>2, PTL DEF Spec

\* However many commands share a pool of any size: a connection is idle or
\* one command's, and nobody gets the answer to somebody else's request.
THEOREM SocketsCorrect == Spec => []SocketHasOneUser
<1>1. ConnInv => SocketHasOneUser
  <2>1. SUFFICES ASSUME ConnInv PROVE SocketHasOneUser
    OBVIOUS
  <2>2. PoolGood(net) /\ net.pool \subseteq Sock /\ NoSock \notin Sock
    BY <2>1, InvFacts DEF ConnInv, Network
  <2>3. ASSUME NEW c \in Cmd
        PROVE  /\ cmd[c].sock \notin net.pool
               /\ cmd[c].sock # NoSock => net.socks[cmd[c].sock].owed <= 1
    <3>1. Fits(cmd[c], fe, net)
      BY <2>1, InvFacts
    <3>2. cmd[c].sock = NoSock \/ InUse(net, cmd[c].sock, 0) \/ InUse(net, cmd[c].sock, 1)
      BY <3>1 DEF Fits
    <3> QED BY <2>2, <3>2 DEF InUse
  <2>4. \A c, d \in Cmd : c # d /\ cmd[c].sock # NoSock => cmd[c].sock # cmd[d].sock
    BY <2>1 DEF ConnInv, Working, Apart
  <2> QED BY <2>2, <2>3, <2>4 DEF SocketHasOneUser, PoolGood
<1> QED BY <1>1, InvAlways, PTL

\* Whatever is retried, asleep or pooled, for any number of commands, no
\* server has more of them than --max-connection-per-server allows.
THEOREM HostLimitCorrect == Spec => []HostLimit
<1>1. ConnInv => HostLimit
  <2>1. SUFFICES ASSUME ConnInv, NEW h \in Host
                 PROVE  Cardinality({c \in Cmd : cmd[c].req # NoReq /\ HostOfCmd(c) = h})
                          <= setup.limit
    BY DEF HostLimit
  <2> DEFINE C == {c \in Cmd : cmd[c].req # NoReq /\ HostOfCmd(c) = h}
             S == fe.pool \cup fe.inflight
             R == {r \in S : HostOf[fe.reqs[r].uri] = h}
             f == [c \in C |-> cmd[c].req]
             V == {f[c] : c \in C}
  <2>2. S \in SUBSET Req /\ Fine(fe, setup.limit) /\ setup.limit \in Nat
    BY <2>1, InvFacts DEF ConnInv, Entry
  <2>3. Cardinality(R) <= setup.limit
    BY <2>2 DEF Fine, HostCount
  <2>4. R \in SUBSET Req
    BY <2>2
  <2>5. V \subseteq R
    <3>1. ASSUME NEW c \in C PROVE f[c] \in R
      <4>1. Fits(cmd[c], fe, net) /\ cmd[c].req # NoReq /\ HostOfCmd(c) = h
        BY <2>1, InvFacts
      <4>2. cmd[c].req \in fe.inflight
        BY <4>1 DEF Fits
      <4> QED BY <4>1, <4>2 DEF HostOfCmd, UriOf
    <3> QED BY <3>1
  <2>6. IsInjective(f)
    <3>1. \A c, d \in C : cmd[c].req = cmd[d].req => c = d
      BY <2>1 DEF ConnInv, Working, Apart
    <3> QED BY <3>1 DEF IsInjective
  <2>7. IsFiniteSet(C)
    <3>1. IsFiniteSet(Cmd)
      BY ConnectionsAssumption, FS_Interval DEF Cmd
    <3> QED BY <3>1, FS_Subset
  <2>8. f = [c \in C |-> f[c]]
    OBVIOUS
  <2> HIDE DEF C, R, f, V, S
  <2>9. Cardinality(V) = Cardinality(C) /\ IsFiniteSet(V)
    BY <2>6, <2>7, <2>8, FunctionValues DEF V
  <2>10. IsFiniteSet(R) /\ Cardinality(R) \in Nat
    BY <2>4, RequestsFinite
  <2>11. Cardinality(V) <= Cardinality(R) /\ Cardinality(V) \in Nat
    BY <2>5, <2>9, <2>10, FS_Subset, FS_CardinalityType
  <2>12. Cardinality(C) <= setup.limit
    BY <2>2, <2>3, <2>9, <2>10, <2>11
  <2> QED BY <2>12 DEF C
<1> QED BY <1>1, InvAlways, PTL

\* While a download goes on, the requests in flight are the ones commands
\* work with, unless a request may sleep beside others for its host: then
\* FileEntry::getRequest takes two and gives one away (FileEntry.cc:222).
THEOREM InFlightCorrect == Spec => [](OneAtATime => InFlightIsHeld)
<1>1. ConnInv => (OneAtATime => InFlightIsHeld)
  <2>1. SUFFICES ASSUME ConnInv, OneAtATime, ~Over
                 PROVE  fe.inflight = {cmd[c].req : c \in Cmd} \ {NoReq}
    BY DEF InFlightIsHeld
  <2>2. \A c \in Cmd : cmd[c].req # NoReq => cmd[c].req \in fe.inflight
    BY <2>1, InvFacts DEF Fits
  <2>3. \A r \in fe.inflight : r # NoReq /\ \E c \in Cmd : cmd[c].req = r
    BY <2>1, InvFacts DEF ConnInv, Covered
  <2> QED BY <2>2, <2>3
<1> QED BY <1>1, InvAlways, PTL

\* The type invariant.
THEOREM ConnectionsTyped == Spec => []TypeOK
<1>1. ConnInv => TypeOK
  <2>1. SUFFICES ASSUME ConnInv PROVE TypeOK
    OBVIOUS
  <2>2. IsEntry(fe) /\ fe \in Entry
    BY <2>1 DEF ConnInv, Fine, IsEntry
  <2>3. IsFileEntry(fe)
    BY <2>2 DEF IsEntry, Entry, IsFileEntry
  <2>4. dl.done \subseteq Piece /\ net.pool \subseteq Sock /\ net.cached \subseteq Host
    BY <2>1 DEF ConnInv, Download, Network
  <2>5. \A c \in Cmd : /\ cmd[c].req \in Req \cup {NoReq}
                       /\ cmd[c].sock \in Sock \cup {NoSock}
                       /\ cmd[c].seg \in Piece \cup {NoPiece}
    BY <2>1, InvFacts DEF Command
  <2> QED BY <2>3, <2>4, <2>5 DEF TypeOK
<1> QED BY <1>1, InvAlways, PTL

=============================================================================
