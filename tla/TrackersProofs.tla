--------------------------- MODULE TrackersProofs ---------------------------
(***************************************************************************)
(* Theorems about the trackers of a download and the UDP client that       *)
(* downloads share.                                                        *)
(***************************************************************************)
EXTENDS Trackers, SetProofs

(***************************************************************************)
(* The client.                                                             *)
(***************************************************************************)
\* What is known of the connection id of a host.
IdState == {"none", "connecting", "connected", "expired"}

Client ==
    [pending: Seq(Id), connect: Seq(Id), inflight: Seq(Id),
     cache: [UdpHost -> IdState],
     reqs: [Id -> RequestObject]]

\* The CONNECT request to host h.
Con(h) == <<"connect", h>>

\* What queues P (pending), W (waiting for a connection id) and F (in flight)
\* have to do with the request objects and the connection ids.  H has a
\* CONNECT that has been created and not been sent.
Accounts(P, W, F, cache, reqs, H) ==
    /\ P \cap W = {} /\ P \cap F = {} /\ W \cap F = {} /\ W \subseteq Announce
    /\ \A id \in Announce : id \in P \cup W \cup F <=> reqs[id].state = "pending"
    /\ \A id \in P \cup W \cup F : reqs[id].host \in UdpHost /\ reqs[id].fail \in 0 .. 1
    /\ \A h \in UdpHost : Con(h) \in P \cup F => reqs[Con(h)].host = h
    /\ \A h \in UdpHost : Con(h) \in (P \cup F) \ H <=> cache[h] = "connecting"
    /\ \A id \in W : cache[reqs[id].host] = "connecting"

\* Every request of client c is where it belongs.
Queued(c, H) ==
    /\ IsInjective(c.pending) /\ IsInjective(c.connect) /\ IsInjective(c.inflight)
    /\ Accounts(ToSet(c.pending), ToSet(c.connect), ToSet(c.inflight), c.cache, c.reqs, H)

\* What the client does to the announces: it only goes on with those it was
\* given.
Follows(c, x) ==
    \A id \in Announce :
      \/ x.reqs[id] = c.reqs[id]
      \/ /\ x.reqs[id].host = c.reqs[id].host /\ c.reqs[id].state = "pending"
         /\ x.reqs[id].state \in {"pending", "ok", "error"}

\* Announces and CONNECTs.
LEMMA IdIs ==
    /\ \A h \in UdpHost : Con(h) \in ConnectReq /\ Con(h) \in Id /\ Con(h) \notin Announce
    /\ \A h, g : Con(h) = Con(g) => h = g
    /\ \A id \in ConnectReq : id \in Id /\ id \notin Announce /\ \E h \in UdpHost : id = Con(h)
    /\ \A id \in Id : id \in Announce \/ id \in ConnectReq
    /\ Announce \subseteq Id
BY DEF Id, Announce, ConnectReq, Con

\* The fields of a client.
LEMMA ClientFields ==
    ASSUME NEW c \in Client
    PROVE  /\ c.pending \in Seq(Id) /\ c.connect \in Seq(Id) /\ c.inflight \in Seq(Id)
           /\ c.cache \in [UdpHost -> IdState]
           /\ c.reqs \in [Id -> RequestObject]
           /\ \A id \in Id : /\ c.reqs[id] \in RequestObject
                             /\ c.reqs[id].host \in UdpHost \cup {NoHost}
                             /\ c.reqs[id].fail \in 0 .. 2
                             /\ c.reqs[id].state \in {"none", "resolving", "pending", "ok", "error"}
           /\ ToSet(c.pending) \subseteq Id /\ ToSet(c.connect) \subseteq Id
           /\ ToSet(c.inflight) \subseteq Id
<1>1. /\ c.pending \in Seq(Id) /\ c.connect \in Seq(Id) /\ c.inflight \in Seq(Id)
      /\ c.cache \in [UdpHost -> IdState]
      /\ c.reqs \in [Id -> RequestObject]
  BY DEF Client
<1>2. ASSUME NEW id \in Id
      PROVE  /\ c.reqs[id] \in RequestObject
             /\ c.reqs[id].host \in UdpHost \cup {NoHost} /\ c.reqs[id].fail \in 0 .. 2
             /\ c.reqs[id].state \in {"none", "resolving", "pending", "ok", "error"}
  BY <1>1 DEF RequestObject
<1>3. ToSet(c.pending) \subseteq Id /\ ToSet(c.connect) \subseteq Id /\ ToSet(c.inflight) \subseteq Id
  BY <1>1, SeqIs
<1> QED BY <1>1, <1>2, <1>3

\* Complete.
LEMMA CompleteIs ==
    ASSUME NEW c \in Client, NEW S, NEW result \in {"ok", "error"}
    PROVE  LET x == Complete(c, S, result)
           IN  /\ x \in Client
               /\ x.pending = c.pending /\ x.connect = c.connect /\ x.inflight = c.inflight
               /\ x.cache = c.cache
               /\ \A id \in Id : id \notin S => x.reqs[id] = c.reqs[id]
               /\ \A id \in Announce : id \in S =>
                    /\ x.reqs[id].state = result /\ x.reqs[id].host = c.reqs[id].host
                    /\ x.reqs[id].fail = c.reqs[id].fail
<1> DEFINE x == Complete(c, S, result)
           R == [id \in Id |-> IF id \notin S THEN c.reqs[id]
                               ELSE IF id \in ConnectReq THEN NoRequest
                               ELSE [c.reqs[id] EXCEPT !.state = result]]
<1>1. x = [c EXCEPT !.reqs = R]
  BY DEF Complete
<1>2. \A id \in Id : c.reqs[id] \in RequestObject
  BY ClientFields
<1>3. ASSUME NEW id \in Id PROVE R[id] \in RequestObject
  <2>1. NoRequest \in RequestObject
    BY DEF NoRequest, RequestObject
  <2>2. [c.reqs[id] EXCEPT !.state = result] \in RequestObject
    BY <1>2 DEF RequestObject
  <2> QED BY <1>2, <2>1, <2>2
<1>4. R \in [Id -> RequestObject]
  BY <1>3
<1>5. \A id \in Id : id \notin S => R[id] = c.reqs[id]
  OBVIOUS
<1>6. ASSUME NEW id \in Announce, id \in S
      PROVE  /\ R[id].state = result /\ R[id].host = c.reqs[id].host
             /\ R[id].fail = c.reqs[id].fail
  <2>1. id \in Id /\ id \notin ConnectReq
    BY IdIs
  <2>2. R[id] = [c.reqs[id] EXCEPT !.state = result] /\ c.reqs[id] \in RequestObject
    BY <1>2, <1>6, <2>1
  <2> HIDE DEF R
  <2> QED BY <2>2 DEF RequestObject
<1> HIDE DEF R
<1>7. /\ x \in Client /\ x.pending = c.pending /\ x.connect = c.connect /\ x.inflight = c.inflight
      /\ x.cache = c.cache /\ x.reqs = R
  BY <1>1, <1>4 DEF Client
<1> QED BY <1>5, <1>6, <1>7

\* The announces for host h that wait for its connection id or are pending.
WaitFor(c, h) ==
    {id \in Announce : id \in ToSet(c.connect) \cup ToSet(c.pending) /\ c.reqs[id].host = h}

\* failConnect.
LEMMA FailConnectIs ==
    ASSUME NEW c \in Client, NEW h \in UdpHost
    PROVE  LET x == failConnect(c, h)
               S == WaitFor(c, h)
           IN  /\ x \in Client /\ x.inflight = c.inflight
               /\ x.cache = [c.cache EXCEPT ![h] = "none"]
               /\ x.pending = Keep(c.pending, Id \ S) /\ x.connect = Keep(c.connect, Id \ S)
               /\ \A id \in Id : id \notin S => x.reqs[id] = c.reqs[id]
               /\ \A id \in Announce : id \in S =>
                    /\ x.reqs[id].state = "error" /\ x.reqs[id].host = c.reqs[id].host
                    /\ x.reqs[id].fail = c.reqs[id].fail
<1> DEFINE S == WaitFor(c, h)
           d == Complete(c, S, "error")
           x == failConnect(c, h)
           p == Keep(c.pending, Id \ S)
           w == Keep(c.connect, Id \ S)
           k == [c.cache EXCEPT ![h] = "none"]
<1>1. /\ d \in Client
      /\ d.pending = c.pending /\ d.connect = c.connect /\ d.inflight = c.inflight
      /\ d.cache = c.cache
      /\ \A id \in Id : id \notin S => d.reqs[id] = c.reqs[id]
      /\ \A id \in Announce : id \in S =>
           /\ d.reqs[id].state = "error" /\ d.reqs[id].host = c.reqs[id].host
           /\ d.reqs[id].fail = c.reqs[id].fail
  BY CompleteIs
<1>2. x = [d EXCEPT !.cache[h] = "none", !.connect = Keep(@, Id \ S), !.pending = Keep(@, Id \ S)]
  BY DEF failConnect, WaitFor
<1>3. p \in Seq(Id) /\ w \in Seq(Id)
  BY ClientFields, KeepIs
<1>4. k \in [UdpHost -> IdState]
  BY ClientFields DEF IdState
<1> HIDE DEF S, d
<1>5. x = [d EXCEPT !.cache = k, !.connect = w, !.pending = p]
  BY <1>1, <1>2 DEF Client
<1> HIDE DEF k, p, w, x
<1>6. x \in Client /\ x.cache = k /\ x.connect = w /\ x.pending = p /\ x.inflight = d.inflight
      /\ x.reqs = d.reqs
  BY <1>1, <1>3, <1>4, <1>5 DEF Client
<1> QED BY <1>1, <1>6 DEF k, p, w, x, S

\* What failConnect leaves, once the CONNECT itself is out of the way: C is
\* where it still is, if anywhere.
LEMMA FailedAccounts ==
    ASSUME NEW P, NEW W, NEW F, NEW cache \in [UdpHost -> IdState], NEW reqs, NEW h \in UdpHost, NEW S, NEW r, NEW H,
           Accounts(P, W, F, cache, reqs, H),
           P \cup W \cup F \subseteq Id, H \subseteq {Con(h)},
           S = {id \in Announce : id \in W \cup P /\ reqs[id].host = h},
           \A id \in Id : id \notin S /\ id # Con(h) => r[id] = reqs[id],
           \A id \in Announce : id \in S => r[id].state = "error"
    PROVE  Accounts(P \ (S \cup {Con(h)}), W \ S, F \ {Con(h)}, [cache EXCEPT ![h] = "none"], r, {})
<1> DEFINE p == P \ (S \cup {Con(h)})
           w == W \ S
           f == F \ {Con(h)}
           k == [cache EXCEPT ![h] = "none"]
<1>1. k[h] = "none" /\ \A g \in UdpHost : g # h => k[g] = cache[g]
  OBVIOUS
<1>2. /\ \A id : id \in p <=> id \in P /\ id \notin S /\ id # Con(h)
      /\ \A id : id \in w <=> id \in W /\ id \notin S
      /\ \A id : id \in f <=> id \in F /\ id # Con(h)
      /\ S \subseteq Announce
  OBVIOUS
<1>a. /\ \A id \in S : id \in W \cup P /\ reqs[id].host = h
      /\ \A id \in Announce : id \in W \cup P /\ reqs[id].host = h => id \in S
  OBVIOUS
<1> HIDE DEF p, w, f, k
<1>3. p \cap w = {} /\ p \cap f = {} /\ w \cap f = {} /\ w \subseteq Announce
  BY <1>2 DEF Accounts
<1>4. ASSUME NEW id \in Announce PROVE id \in p \cup w \cup f <=> r[id].state = "pending"
  <2>1. id # Con(h) /\ id \in Id
    BY IdIs
  <2>2. CASE id \in S
    <3>1. id \in W \cup P /\ id \notin F
      BY <1>a, <2>2 DEF Accounts
    <3> QED BY <1>2, <2>2, <3>1
  <2>3. CASE id \notin S
    BY <1>2, <2>1, <2>3 DEF Accounts
  <2> QED BY <2>2, <2>3
<1>5. ASSUME NEW id \in p \cup w \cup f PROVE r[id] = reqs[id] /\ id \in P \cup W \cup F
  <2>1. id \in P \cup W \cup F /\ id \in Id
    BY <1>2
  <2>2. id # Con(h)
    BY <1>2, IdIs DEF Accounts
  <2>3. id \notin S
    BY <1>2, <1>a DEF Accounts
  <2> QED BY <2>1, <2>2, <2>3
<1>6. \A id \in p \cup w \cup f : r[id].host \in UdpHost /\ r[id].fail \in 0 .. 1
  BY <1>5 DEF Accounts
<1>7. ASSUME NEW g \in UdpHost
      PROVE  /\ Con(g) \in p \cup f => r[Con(g)].host = g
             /\ Con(g) \in (p \cup f) \ {} <=> k[g] = "connecting"
  <2>1. CASE g = h
    BY <1>1, <1>2, <2>1
  <2>2. CASE g # h
    <3>1. Con(g) # Con(h) /\ Con(g) \notin S /\ Con(g) \in Id
      BY <1>2, <2>2, IdIs
    <3>2. Con(g) \notin H /\ Con(g) \notin W
      BY <3>1, IdIs DEF Accounts
    <3> QED BY <1>1, <1>2, <1>5, <2>2, <3>1, <3>2 DEF Accounts
  <2> QED BY <2>1, <2>2
<1>8. ASSUME NEW id \in w PROVE k[r[id].host] = "connecting"
  <2>1. r[id] = reqs[id] /\ id \in W /\ id \notin S /\ id \in Announce
    BY <1>2, <1>5 DEF Accounts
  <2>2. reqs[id].host # h
    BY <1>a, <2>1
  <2>3. reqs[id].host \in UdpHost /\ cache[reqs[id].host] = "connecting"
    BY <2>1 DEF Accounts
  <2> QED BY <1>1, <2>1, <2>2, <2>3
<1> QED BY <1>3, <1>4, <1>6, <1>7, <1>8 DEF Accounts, p, w, f, k

\* The request in flight an answer is believed for.
LEMMA ReplyAccounts ==
    ASSUME NEW P, NEW W, NEW F, NEW cache \in [UdpHost -> IdState], NEW reqs, NEW id, NEW r,
           Accounts(P, W, F, cache, reqs, {}), P \cup W \cup F \subseteq Id,
           id \in Announce, id \in F, r[id].state # "pending",
           \A a \in Id : a # id => r[a] = reqs[a]
    PROVE  Accounts(P, W, F \ {id}, cache, r, {})
<1>1. id \notin P /\ id \notin W
  BY DEF Accounts
<1>2. \A a \in P \cup W \cup (F \ {id}) : r[a] = reqs[a] /\ a \in P \cup W \cup F
  BY <1>1
<1>3. ASSUME NEW a \in Announce PROVE a \in P \cup W \cup (F \ {id}) <=> r[a].state = "pending"
  BY <1>1, IdIs DEF Accounts
<1>4. ASSUME NEW h \in UdpHost
      PROVE  Con(h) \in P \cup (F \ {id}) <=> Con(h) \in P \cup F
  BY IdIs
<1>5. ASSUME NEW h \in UdpHost
      PROVE  /\ Con(h) \in P \cup (F \ {id}) => r[Con(h)].host = h
             /\ Con(h) \in (P \cup (F \ {id})) \ {} <=> cache[h] = "connecting"
  BY <1>2, <1>4 DEF Accounts
<1>6. \A a \in W : cache[r[a].host] = "connecting"
  BY <1>2 DEF Accounts
<1>7. \A a \in P \cup W \cup (F \ {id}) : r[a].host \in UdpHost /\ r[a].fail \in 0 .. 1
  BY <1>2 DEF Accounts
<1>8. P \cap W = {} /\ P \cap (F \ {id}) = {} /\ W \cap (F \ {id}) = {} /\ W \subseteq Announce
  BY DEF Accounts
<1> QED BY <1>3, <1>5, <1>6, <1>7, <1>8 DEF Accounts

\* A connection id has come: who waited for it is pending.
LEMMA ConnectedAccounts ==
    ASSUME NEW P, NEW W, NEW F, NEW cache \in [UdpHost -> IdState], NEW reqs, NEW h \in UdpHost, NEW S, NEW r,
           Accounts(P, W, F, cache, reqs, {}), P \cup W \cup F \subseteq Id, Con(h) \in F,
           S = {a \in W : reqs[a].host = h},
           \A a \in Id : a # Con(h) => r[a] = reqs[a]
    PROVE  Accounts(S \cup P, W \ S, F \ {Con(h)}, [cache EXCEPT ![h] = "connected"], r, {})
<1> DEFINE k == [cache EXCEPT ![h] = "connected"]
<1>1. k[h] = "connected" /\ \A g \in UdpHost : g # h => k[g] = cache[g]
  OBVIOUS
<1> HIDE DEF k
<1>2. S \subseteq W /\ S \subseteq Announce /\ Con(h) \notin P /\ Con(h) \notin W /\ W \subseteq Announce
  BY IdIs DEF Accounts
<1>3. ASSUME NEW a \in (S \cup P) \cup (W \ S) \cup (F \ {Con(h)})
      PROVE  r[a] = reqs[a] /\ a \in P \cup W \cup F
  BY <1>2
<1>4. ASSUME NEW a \in Announce
      PROVE  a \in (S \cup P) \cup (W \ S) \cup (F \ {Con(h)}) <=> r[a].state = "pending"
  <2>1. a # Con(h) /\ a \in Id
    BY IdIs
  <2> QED BY <1>2, <2>1 DEF Accounts
<1>5. ASSUME NEW g \in UdpHost
      PROVE  /\ Con(g) \in (S \cup P) \cup (F \ {Con(h)}) => r[Con(g)].host = g
             /\ Con(g) \in ((S \cup P) \cup (F \ {Con(h)})) \ {} <=> k[g] = "connecting"
  <2>1. Con(g) \notin S
    BY <1>2, IdIs
  <2>2. CASE g = h
    BY <1>1, <1>2, <2>1, <2>2
  <2>3. CASE g # h
    <3>1. Con(g) # Con(h)
      BY <2>3, IdIs
    <3> QED BY <1>1, <1>3, <2>1, <2>3, <3>1 DEF Accounts
  <2> QED BY <2>2, <2>3
<1>6. ASSUME NEW a \in W \ S PROVE k[r[a].host] = "connecting"
  <2>1. r[a] = reqs[a] /\ reqs[a].host # h
    BY <1>3
  <2>2. reqs[a].host \in UdpHost /\ cache[reqs[a].host] = "connecting"
    BY DEF Accounts
  <2> QED BY <1>1, <2>1, <2>2
<1>7. \A a \in (S \cup P) \cup (W \ S) \cup (F \ {Con(h)}) : r[a].host \in UdpHost /\ r[a].fail \in 0 .. 1
  BY <1>3 DEF Accounts
<1>8. /\ (S \cup P) \cap (W \ S) = {} /\ (S \cup P) \cap (F \ {Con(h)}) = {}
      /\ (W \ S) \cap (F \ {Con(h)}) = {} /\ W \ S \subseteq Announce
  BY <1>2 DEF Accounts
<1> QED BY <1>4, <1>5, <1>6, <1>7, <1>8 DEF Accounts, k

\* A request leaves the queue in flight.
LEMMA DropIs ==
    ASSUME NEW c \in Client, NEW S
    PROVE  LET x == [c EXCEPT !.inflight = Keep(@, Id \ S)]
           IN  /\ x \in Client /\ x.inflight = Keep(c.inflight, Id \ S)
               /\ x.pending = c.pending /\ x.connect = c.connect /\ x.cache = c.cache
               /\ x.reqs = c.reqs
               /\ ToSet(x.inflight) = ToSet(c.inflight) \ S
               /\ IsInjective(c.inflight) => IsInjective(x.inflight)
<1> DEFINE f == Keep(c.inflight, Id \ S)
<1>1. /\ f \in Seq(Id) /\ ToSet(f) = ToSet(c.inflight) \cap (Id \ S)
      /\ IsInjective(c.inflight) => IsInjective(f)
  BY ClientFields, KeepIs
<1>2. ToSet(f) = ToSet(c.inflight) \ S
  BY <1>1, ClientFields
<1> HIDE DEF f
<1>3. [c EXCEPT !.inflight = Keep(@, Id \ S)] = [c EXCEPT !.inflight = f]
  BY DEF f
<1> QED BY <1>1, <1>2, <1>3 DEF Client, f

\* receiveReply: answers that are late, repeated or misled are ignored, the
\* others lead the request on.
LEMMA ReceiveIs ==
    ASSUME NEW c \in Client, Queued(c, {}), NEW w \in Reply
    PROVE  LET x == receiveReply(c, w)
           IN  x \in Client /\ Queued(x, {}) /\ Follows(c, x)
<1> DEFINE id == w.id
           h == w.host
           x == receiveReply(c, w)
           d == [c EXCEPT !.inflight = Keep(@, Id \ {id})]
           waiting == {a \in ToSet(c.connect) : c.reqs[a].host = h}
<1> SUFFICES x \in Client /\ Queued(x, {}) /\ Follows(c, x)
  OBVIOUS
<1>1. id \in Id /\ h \in UdpHost
  BY DEF Reply
<1>2. CASE ~(id \in ToSet(c.inflight) /\ c.reqs[id].host = h /\ w.current)
  <2>1. x = c
    BY <1>2 DEF receiveReply
  <2> QED BY <2>1 DEF Follows
<1>3. CASE id \in ToSet(c.inflight) /\ c.reqs[id].host = h /\ w.current
  <2>1. /\ d \in Client /\ d.inflight = Keep(c.inflight, Id \ {id})
        /\ d.pending = c.pending /\ d.connect = c.connect /\ d.cache = c.cache
        /\ d.reqs = c.reqs
        /\ ToSet(d.inflight) = ToSet(c.inflight) \ {id} /\ IsInjective(d.inflight)
    BY DropIs DEF Queued
  <2> DEFINE P == ToSet(c.pending)
             W == ToSet(c.connect)
             F == ToSet(c.inflight)
  <2>a. c.cache \in [UdpHost -> IdState]
    BY ClientFields
  <2>b. P \subseteq Id /\ W \subseteq Id /\ F \subseteq Id
    BY ClientFields
  <2>2. /\ Accounts(P, W, F, c.cache, c.reqs, {}) /\ P \cup W \cup F \subseteq Id
        /\ IsInjective(c.pending) /\ IsInjective(c.connect) /\ c.cache \in [UdpHost -> IdState]
    BY <2>a, <2>b DEF Queued
  <2>3. ASSUME id \in ConnectReq PROVE id = Con(h)
    <3>1. PICK g \in UdpHost : id = Con(g)
      BY <2>3, IdIs
    <3>2. c.reqs[Con(g)].host = g
      BY <1>3, <2>2, <3>1 DEF Accounts
    <3> QED BY <1>3, <3>1, <3>2
  <2> DEFINE res == IF w.kind = "error" THEN "error" ELSE "ok"
             one == {id}
             e == Complete(d, one, res)
  <2>c. res \in {"ok", "error"} /\ \A a : a \in one <=> a = id
    OBVIOUS
  <2>4. /\ e \in Client
        /\ e.pending = d.pending /\ e.connect = d.connect /\ e.inflight = d.inflight
        /\ e.cache = d.cache
        /\ \A a \in Id : a # id => e.reqs[a] = d.reqs[a]
        /\ \A a \in Announce : a = id =>
             /\ e.reqs[a].state = res /\ e.reqs[a].host = d.reqs[a].host
             /\ e.reqs[a].fail = d.reqs[a].fail
    <3> HIDE DEF d, one, res, id
    <3> QED BY <2>1, <2>c, CompleteIs
  <2>5. CASE id \in Announce
    <3>1. x = e
      BY <1>3, <2>5, IdIs DEF receiveReply
    <3> HIDE DEF x, e, d, P, W, F, res, id, h
    <3>2. Accounts(P, W, F \ {id}, c.cache, e.reqs, {})
      <4>1. e.reqs[id].state # "pending"
        BY <2>4, <2>5 DEF res
      <4>2. \A a \in Id : a # id => e.reqs[a] = c.reqs[a]
        BY <2>1, <2>4
      <4>3. id \in F
        BY <1>3 DEF F
      <4> QED BY <2>2, <2>5, <4>1, <4>2, <4>3, ReplyAccounts
    <3>3. Queued(e, {})
      BY <2>1, <2>2, <2>4, <3>2 DEF Queued, P, W, F
    <3>4. c.reqs[id].state = "pending"
      BY <1>3, <2>2, <2>5 DEF Accounts, F
    <3>5. Follows(c, e)
      BY <2>1, <2>4, <2>5, <3>4, IdIs DEF Follows, res
    <3> QED BY <2>4, <3>1, <3>3, <3>5
  <2>6. CASE id \in ConnectReq /\ w.kind = "error"
    <3>1. x = failConnect(e, h)
      BY <1>3, <2>6 DEF receiveReply
    <3> HIDE DEF x, e, d, P, W, F, id, h
    <3> DEFINE S == WaitFor(e, h)
    <3>2. /\ x \in Client /\ x.inflight = e.inflight
          /\ x.cache = [e.cache EXCEPT ![h] = "none"]
          /\ x.pending = Keep(e.pending, Id \ S) /\ x.connect = Keep(e.connect, Id \ S)
          /\ \A a \in Id : a \notin S => x.reqs[a] = e.reqs[a]
          /\ \A a \in Announce : a \in S =>
               /\ x.reqs[a].state = "error" /\ x.reqs[a].host = e.reqs[a].host
               /\ x.reqs[a].fail = e.reqs[a].fail
      BY <1>1, <2>4, <3>1, FailConnectIs
    <3>3. id = Con(h) /\ id \notin Announce
      BY <2>3, <2>6, IdIs
    <3>4. \A a \in Id : a # Con(h) => e.reqs[a] = c.reqs[a]
      BY <2>1, <2>4, <3>3
    <3>5. S = {a \in Announce : a \in W \cup P /\ c.reqs[a].host = h}
      BY <2>1, <2>4, <3>3, <3>4, IdIs DEF WaitFor, W, P
    <3> HIDE DEF S
    <3>6. Accounts(P \ (S \cup {Con(h)}), W \ S, F \ {Con(h)}, [c.cache EXCEPT ![h] = "none"], x.reqs, {})
      <4>1. \A a \in Id : a \notin S /\ a # Con(h) => x.reqs[a] = c.reqs[a]
        BY <3>2, <3>4
      <4>2. \A a \in Announce : a \in S => x.reqs[a].state = "error"
        BY <3>2
      <4> DEFINE z == {}
      <4>3. Accounts(P, W, F, c.cache, c.reqs, z) /\ z \subseteq {Con(h)}
        BY <2>2
      <4> HIDE DEF z
      <4> QED BY <1>1, <2>2, <3>5, <4>1, <4>2, <4>3, FailedAccounts
    <3>7. /\ ToSet(x.pending) = P \ (S \cup {Con(h)}) /\ IsInjective(x.pending)
          /\ ToSet(x.connect) = W \ S /\ IsInjective(x.connect)
      <4>1. /\ ToSet(x.pending) = P \cap (Id \ S) /\ IsInjective(x.pending)
            /\ ToSet(x.connect) = W \cap (Id \ S) /\ IsInjective(x.connect)
        BY <2>1, <2>2, <2>4, <3>2, ClientFields, KeepIs DEF P, W
      <4>2. Con(h) \notin P
        BY <1>3, <2>2, <3>3 DEF Accounts, F
      <4> QED BY <2>2, <4>1, <4>2
    <3>a. ToSet(x.inflight) = F \ {Con(h)} /\ IsInjective(x.inflight)
          /\ x.cache = [c.cache EXCEPT ![h] = "none"]
      BY <2>1, <2>4, <3>2, <3>3 DEF F
    <3>8. Queued(x, {})
      BY <3>6, <3>7, <3>a DEF Queued
    <3>9. Follows(c, x)
      <4> SUFFICES ASSUME NEW a \in Announce, x.reqs[a] # c.reqs[a]
                   PROVE  /\ x.reqs[a].host = c.reqs[a].host /\ c.reqs[a].state = "pending"
                          /\ x.reqs[a].state \in {"pending", "ok", "error"}
        BY DEF Follows
      <4>1. a \in Id /\ e.reqs[a] = c.reqs[a]
        BY <3>3, <3>4, IdIs
      <4>2. a \in S
        BY <3>2, <4>1
      <4>3. c.reqs[a].state = "pending"
        BY <2>2, <3>5, <4>2 DEF Accounts
      <4> QED BY <3>2, <4>1, <4>2, <4>3
    <3> QED BY <3>2, <3>8, <3>9
  <2>7. CASE id \in ConnectReq /\ w.kind # "error"
    <3>1. x = [e EXCEPT !.cache[h] = "connected", !.connect = Keep(@, Id \ waiting),
                        !.pending = Keep(c.connect, waiting) \o @]
      BY <1>3, <2>7 DEF receiveReply
    <3> HIDE DEF x, e, d, P, W, F, id, h
    <3> DEFINE k == [c.cache EXCEPT ![h] = "connected"]
               u == Keep(c.connect, Id \ waiting)
               v == Keep(c.connect, waiting)
               p == v \o c.pending
    <3>2. /\ u \in Seq(Id) /\ ToSet(u) = W \cap (Id \ waiting) /\ IsInjective(u)
          /\ v \in Seq(Id) /\ ToSet(v) = W \cap waiting /\ IsInjective(v)
      BY <2>2, ClientFields, KeepIs DEF W
    <3> HIDE DEF u, v
    <3>3. ToSet(v) \cap P = {}
      BY <2>2, <3>2 DEF Accounts
    <3>4. p \in Seq(Id) /\ ToSet(p) = ToSet(v) \cup P /\ IsInjective(p)
      BY <2>2, <3>2, <3>3, ClientFields, ConcatIs DEF P
    <3>5. k \in [UdpHost -> IdState]
      BY ClientFields DEF IdState
    <3>6. x = [e EXCEPT !.cache = k, !.connect = u, !.pending = p]
      BY <2>1, <2>4, <3>1 DEF Client, u, v
    <3> HIDE DEF p, k
    <3>7. /\ x \in Client /\ x.cache = k /\ x.connect = u /\ x.pending = p
          /\ x.inflight = e.inflight /\ x.reqs = e.reqs
      BY <2>4, <3>2, <3>4, <3>5, <3>6 DEF Client
    <3>8. id = Con(h) /\ id \notin Announce
      BY <2>3, <2>7, IdIs
    <3>9. \A a \in Id : a # Con(h) => e.reqs[a] = c.reqs[a]
      BY <2>1, <2>4, <3>8
    <3>10. waiting = {a \in W : c.reqs[a].host = h}
      BY DEF W
    <3> HIDE DEF waiting
    <3>11. Accounts(waiting \cup P, W \ waiting, F \ {Con(h)}, k, e.reqs, {})
      <4>1. Con(h) \in F
        BY <1>3, <3>8 DEF F
      <4> QED BY <1>1, <2>2, <3>9, <3>10, <4>1, ConnectedAccounts DEF k
    <3>12. ToSet(p) = waiting \cup P /\ ToSet(u) = W \ waiting
      BY <2>2, <3>2, <3>4, <3>10
    <3>13. Queued(x, {})
      BY <2>1, <2>4, <3>2, <3>4, <3>7, <3>8, <3>11, <3>12 DEF Queued, F
    <3>14. Follows(c, x)
      BY <3>7, <3>8, <3>9, IdIs DEF Follows
    <3> QED BY <3>7, <3>13, <3>14
  <2> QED BY <1>1, <2>5, <2>6, <2>7, IdIs
<1> QED BY <1>2, <1>3

\* Requests T time out: those of A are sent again, the others have failed,
\* and with the CONNECT to a host of C all that wait for it, S.
TimedOut(P, W, F, cache, reqs, T, A, S, C, k, r) ==
    /\ P \cup W \cup F \subseteq Id /\ T \subseteq F /\ A \subseteq T
    /\ \A h \in UdpHost : h \in C <=> Con(h) \in T /\ Con(h) \notin A
    /\ \A id : id \in S <=> id \in Announce /\ id \in W \cup P /\ reqs[id].host \in C
    /\ \A h \in UdpHost : k[h] = IF h \in C THEN "none" ELSE cache[h]
    /\ \A id \in Id : id \notin T \cup S => r[id] = reqs[id]
    /\ \A id \in A : r[id].host = reqs[id].host /\ r[id].state = reqs[id].state /\ r[id].fail \in 0 .. 1
    /\ \A id \in Announce : id \in (T \ A) \cup S => r[id].state = "error"

\* What is left of the queues then.
LEMMA TimeoutAccounts ==
    ASSUME NEW P, NEW W, NEW F, NEW cache, NEW reqs, NEW T, NEW A, NEW S, NEW hosts, NEW k, NEW r,
           TimedOut(P, W, F, cache, reqs, T, A, S, hosts, k, r), Accounts(P, W, F, cache, reqs, {})
    PROVE  Accounts(A \cup (P \ S), W \ S, F \ T, k, r, {})
<1> USE DEF TimedOut
<1> DEFINE p == A \cup (P \ S)
           w == W \ S
           f == F \ T
<1>1. /\ \A id : id \in p <=> id \in A \/ (id \in P /\ id \notin S)
      /\ \A id : id \in w <=> id \in W /\ id \notin S
      /\ \A id : id \in f <=> id \in F /\ id \notin T
      /\ S \subseteq Announce
      /\ \A id \in S : id \in W \cup P /\ reqs[id].host \in hosts
      /\ \A id \in Announce : id \in W \cup P /\ reqs[id].host \in hosts => id \in S
      /\ \A h \in UdpHost : h \in hosts <=> Con(h) \in T /\ Con(h) \notin A
  OBVIOUS
<1> HIDE DEF p, w, f
<1>2. p \cap w = {} /\ p \cap f = {} /\ w \cap f = {} /\ w \subseteq Announce
  BY <1>1 DEF Accounts
<1>3. ASSUME NEW id \in Announce PROVE id \in p \cup w \cup f <=> r[id].state = "pending"
  <2>0. id \in Id
    BY IdIs
  <2>1. CASE id \in A
    BY <1>1, <2>1 DEF Accounts
  <2>2. CASE id \in (T \ A) \cup S
    <3>1. id \notin p /\ id \notin w /\ id \notin f
      BY <1>1, <2>2 DEF Accounts
    <3> QED BY <2>2, <3>1
  <2>3. CASE id \notin T \cup S
    <3>1. id \in p \cup w \cup f <=> id \in P \cup W \cup F
      BY <1>1, <2>3
    <3> QED BY <2>0, <2>3, <3>1 DEF Accounts
  <2> QED BY <2>1, <2>2, <2>3
<1>4. ASSUME NEW id \in p \cup w \cup f
      PROVE  r[id].host = reqs[id].host /\ r[id].fail \in 0 .. 1 /\ id \in P \cup W \cup F
  <2>1. id \in P \cup W \cup F
    BY <1>1
  <2>2. CASE id \in A
    BY <2>1, <2>2
  <2>3. CASE id \notin A
    <3>1. id \notin T /\ id \notin S
      BY <1>1, <2>3 DEF Accounts
    <3>2. r[id] = reqs[id]
      BY <2>1, <3>1
    <3> QED BY <2>1, <3>2 DEF Accounts
  <2> QED BY <2>2, <2>3
<1>5. \A id \in p \cup w \cup f : r[id].host \in UdpHost /\ r[id].fail \in 0 .. 1
  BY <1>4 DEF Accounts
<1>6. ASSUME NEW g \in UdpHost
      PROVE  /\ Con(g) \in p \cup f => r[Con(g)].host = g
             /\ Con(g) \in (p \cup f) \ {} <=> k[g] = "connecting"
  <2>1. Con(g) \notin S /\ Con(g) \notin W
    BY <1>1, IdIs DEF Accounts
  <2>2. CASE g \in hosts
    <3>1. Con(g) \in T /\ Con(g) \notin A /\ k[g] = "none" /\ Con(g) \notin P
      BY <1>1, <2>2 DEF Accounts
    <3> QED BY <1>1, <3>1
  <2>3. CASE g \notin hosts
    <3>1. k[g] = cache[g] /\ (Con(g) \in T => Con(g) \in A)
      BY <1>1, <2>3
    <3>2. Con(g) \in p \cup f <=> Con(g) \in P \cup F
      BY <1>1, <2>1, <3>1
    <3> QED BY <1>4, <3>1, <3>2 DEF Accounts
  <2> QED BY <2>2, <2>3
<1>7. ASSUME NEW id \in w PROVE k[r[id].host] = "connecting"
  <2>1. id \in W /\ id \notin S /\ id \in Announce /\ r[id].host = reqs[id].host
    BY <1>1, <1>4 DEF Accounts
  <2>2. reqs[id].host \notin hosts
    BY <1>1, <2>1
  <2>3. reqs[id].host \in UdpHost /\ cache[reqs[id].host] = "connecting"
    BY <2>1 DEF Accounts
  <2> QED BY <2>1, <2>2, <2>3
<1> QED BY <1>2, <1>3, <1>5, <1>6, <1>7 DEF Accounts, p, w, f

\* handleTimeout.
LEMMA TimeoutIs ==
    ASSUME NEW c \in Client, Queued(c, {}), NEW T \in SUBSET ToSet(c.inflight)
    PROVE  LET x == handleTimeout(c, T)
           IN  x \in Client /\ Queued(x, {}) /\ Follows(c, x)
<1> DEFINE again == {id \in T : c.reqs[id].fail = 0}
           over == T \ again
           hosts == {h \in UdpHost : Con(h) \in over}
           S == {id \in Announce : /\ id \in ToSet(c.connect) \cup ToSet(c.pending)
                                   /\ c.reqs[id].host \in hosts}
           R == [id \in Id |-> IF id \in T THEN [c.reqs[id] EXCEPT !.fail = @ + 1] ELSE c.reqs[id]]
           f == [c EXCEPT !.reqs = R]
           E == over \cup S
           e == Complete(f, E, "error")
           k == [h \in UdpHost |-> IF h \in hosts THEN "none" ELSE c.cache[h]]
           u == Keep(c.connect, Id \ S)
           v == Keep(c.inflight, again)
           y == Keep(c.pending, Id \ S)
           p == v \o y
           g == Keep(c.inflight, Id \ T)
           x == handleTimeout(c, T)
           P == ToSet(c.pending)
           W == ToSet(c.connect)
           F == ToSet(c.inflight)
<1> SUFFICES x \in Client /\ Queued(x, {}) /\ Follows(c, x)
  OBVIOUS
<1>1. x = [e EXCEPT !.cache = [h \in UdpHost |-> IF h \in hosts THEN "none" ELSE @[h]],
                    !.connect = Keep(@, Id \ S), !.pending = v \o Keep(@, Id \ S),
                    !.inflight = Keep(@, Id \ T)]
  BY DEF handleTimeout, Con
<1>2. /\ c.pending \in Seq(Id) /\ c.connect \in Seq(Id) /\ c.inflight \in Seq(Id)
      /\ c.cache \in [UdpHost -> IdState] /\ c.reqs \in [Id -> RequestObject]
      /\ P \subseteq Id /\ W \subseteq Id /\ F \subseteq Id
      /\ \A id \in Id : c.reqs[id] \in RequestObject
  BY ClientFields
<1>3. /\ Accounts(P, W, F, c.cache, c.reqs, {})
      /\ IsInjective(c.pending) /\ IsInjective(c.connect) /\ IsInjective(c.inflight)
  BY DEF Queued
<1>4. again \subseteq T /\ T \subseteq F /\ T \subseteq Id
  BY <1>2
<1>5. \A id \in T : c.reqs[id].fail \in 0 .. 1
  BY <1>3, <1>4 DEF Accounts
<1>6. ASSUME NEW id \in T
      PROVE  LET q == [c.reqs[id] EXCEPT !.fail = @ + 1]
             IN  /\ q \in RequestObject /\ q.host = c.reqs[id].host /\ q.state = c.reqs[id].state
                 /\ q.fail = c.reqs[id].fail + 1
  <2>1. PICK q : q = c.reqs[id]
    OBVIOUS
  <2>2. q \in RequestObject /\ q.fail \in 0 .. 1 /\ q.fail + 1 \in 0 .. 2
    BY <1>2, <1>4, <1>5, <2>1
  <2>3. LET z == [q EXCEPT !.fail = @ + 1]
        IN  /\ z \in RequestObject /\ z.host = q.host /\ z.state = q.state /\ z.fail = q.fail + 1
    BY <2>2 DEF RequestObject
  <2> QED BY <2>1, <2>3
<1>7. R \in [Id -> RequestObject]
  BY <1>2, <1>6
<1>8. /\ \A id \in Id : id \notin T => R[id] = c.reqs[id]
      /\ \A id \in T : /\ R[id].host = c.reqs[id].host /\ R[id].state = c.reqs[id].state
                       /\ R[id].fail = c.reqs[id].fail + 1
  BY <1>4, <1>6
<1> HIDE DEF R
<1>9. f \in Client /\ f.pending = c.pending /\ f.connect = c.connect /\ f.inflight = c.inflight
      /\ f.cache = c.cache /\ f.reqs = R
  BY <1>7 DEF Client
<1> HIDE DEF f, E
<1>10. /\ e \in Client
       /\ e.pending = f.pending /\ e.connect = f.connect /\ e.inflight = f.inflight
       /\ e.cache = f.cache
       /\ \A id \in Id : id \notin E => e.reqs[id] = f.reqs[id]
       /\ \A id \in Announce : id \in E =>
            /\ e.reqs[id].state = "error" /\ e.reqs[id].host = f.reqs[id].host
            /\ e.reqs[id].fail = f.reqs[id].fail
  BY <1>9, CompleteIs
<1> HIDE DEF e, x
<1>11. /\ u \in Seq(Id) /\ ToSet(u) = W \cap (Id \ S) /\ IsInjective(u)
  BY <1>2, <1>3, KeepIs
<1>12. /\ v \in Seq(Id) /\ ToSet(v) = F \cap again /\ IsInjective(v)
  BY <1>2, <1>3, KeepIs
<1>13. /\ y \in Seq(Id) /\ ToSet(y) = P \cap (Id \ S) /\ IsInjective(y)
  BY <1>2, <1>3, KeepIs
<1>14. /\ g \in Seq(Id) /\ ToSet(g) = F \cap (Id \ T) /\ IsInjective(g)
  BY <1>2, <1>3, KeepIs
<1>15. x = [e EXCEPT !.cache = k, !.connect = u, !.pending = p, !.inflight = g]
  BY <1>1, <1>9, <1>10 DEF Client
<1> HIDE DEF u, v, y, g
<1>16. ToSet(v) \cap ToSet(y) = {}
  BY <1>3, <1>12, <1>13 DEF Accounts
<1>17. p \in Seq(Id) /\ ToSet(p) = ToSet(v) \cup ToSet(y) /\ IsInjective(p)
  BY <1>12, <1>13, <1>16, ConcatIs
<1>18. k \in [UdpHost -> IdState] /\ \A h \in UdpHost : k[h] = IF h \in hosts THEN "none" ELSE c.cache[h]
  BY <1>2 DEF IdState
<1> HIDE DEF p, k
<1>19. /\ x \in Client /\ x.cache = k /\ x.connect = u /\ x.pending = p /\ x.inflight = g
       /\ x.reqs = e.reqs
  BY <1>10, <1>11, <1>14, <1>15, <1>17, <1>18 DEF Client
<1>20. /\ \A h \in UdpHost : h \in hosts <=> Con(h) \in T /\ Con(h) \notin again
       /\ \A id : id \in S <=> id \in Announce /\ id \in W \cup P /\ c.reqs[id].host \in hosts
       /\ \A id : id \in E <=> id \in (T \ again) \cup S
       /\ \A id \in again : c.reqs[id].fail = 0
  BY DEF E
<1>s. \A id \in S : id \in Announce /\ id \in W \cup P
  OBVIOUS
<1> HIDE DEF hosts, S, again, over, P, W, F
<1>21. \A id \in Id : id \notin T \cup S => e.reqs[id] = c.reqs[id]
  BY <1>8, <1>9, <1>10, <1>20
<1>22. ASSUME NEW id \in again
       PROVE  /\ e.reqs[id].host = c.reqs[id].host /\ e.reqs[id].state = c.reqs[id].state
              /\ e.reqs[id].fail \in 0 .. 1
  <2>1. id \in T /\ id \in F /\ id \in Id /\ c.reqs[id].fail = 0
    BY <1>4, <1>20
  <2>2. id \notin S
    BY <1>3, <1>s, <2>1 DEF Accounts
  <2>3. e.reqs[id] = R[id]
    BY <1>9, <1>10, <1>20, <2>1, <2>2
  <2> QED BY <1>8, <2>1, <2>3
<1>23. \A id \in Announce : id \in (T \ again) \cup S => e.reqs[id].state = "error"
  BY <1>10, <1>20
<1>24. Accounts(again \cup (P \ S), W \ S, F \ T, k, e.reqs, {})
  <2>1. P \cup W \cup F \subseteq Id
    BY <1>2
  <2>2. \A id \in again : /\ e.reqs[id].host = c.reqs[id].host /\ e.reqs[id].state = c.reqs[id].state
                         /\ e.reqs[id].fail \in 0 .. 1
    BY <1>22
  <2>3. PICK r, q, b : r = e.reqs /\ q = c.reqs /\ b = c.cache
    OBVIOUS
  <2>4. /\ b \in [UdpHost -> IdState] /\ Accounts(P, W, F, b, q, {}) /\ T \subseteq F /\ again \subseteq T
        /\ \A h \in UdpHost : h \in hosts <=> Con(h) \in T /\ Con(h) \notin again
        /\ \A id : id \in S <=> id \in Announce /\ id \in W \cup P /\ q[id].host \in hosts
        /\ \A h \in UdpHost : k[h] = IF h \in hosts THEN "none" ELSE b[h]
    BY <1>2, <1>3, <1>4, <1>18, <1>20, <2>3, Zenon
  <2>5. /\ \A id \in Id : id \notin T \cup S => r[id] = q[id]
        /\ \A id \in again : r[id].host = q[id].host /\ r[id].state = q[id].state /\ r[id].fail \in 0 .. 1
        /\ \A id \in Announce : id \in (T \ again) \cup S => r[id].state = "error"
    BY <1>21, <1>23, <2>2, <2>3, Zenon
  <2>6. TimedOut(P, W, F, b, q, T, again, S, hosts, k, r)
    BY <2>1, <2>4, <2>5 DEF TimedOut
  <2>7. Accounts(again \cup (P \ S), W \ S, F \ T, k, r, {})
    BY <2>4, <2>6, TimeoutAccounts, Zenon
  <2> QED BY <2>3, <2>7
<1>25. ToSet(p) = again \cup (P \ S) /\ ToSet(u) = W \ S /\ ToSet(g) = F \ T
  BY <1>2, <1>4, <1>11, <1>12, <1>13, <1>14, <1>17
<1>26. Queued(x, {})
  BY <1>11, <1>14, <1>17, <1>19, <1>24, <1>25 DEF Queued
<1>27. Follows(c, x)
  <2> SUFFICES ASSUME NEW id \in Announce, x.reqs[id] # c.reqs[id]
               PROVE  /\ x.reqs[id].host = c.reqs[id].host /\ c.reqs[id].state = "pending"
                      /\ x.reqs[id].state \in {"pending", "ok", "error"}
    BY DEF Follows
  <2>1. id \in Id /\ id \in T \cup S
    BY <1>19, <1>21, IdIs
  <2>2. c.reqs[id].state = "pending"
    BY <1>3, <1>4, <1>s, <2>1 DEF Accounts
  <2>3. CASE id \in again
    BY <1>19, <1>22, <2>2, <2>3
  <2>4. CASE id \notin again
    <3>1. id \in E
      BY <1>20, <2>1, <2>4
    <3>2. e.reqs[id].state = "error" /\ e.reqs[id].host = R[id].host
      BY <1>9, <1>10, <3>1
    <3>3. R[id].host = c.reqs[id].host
      BY <1>8, <2>1
    <3> QED BY <1>19, <2>2, <3>2, <3>3
  <2> QED BY <2>3, <2>4
<1> QED BY <1>19, <1>26, <1>27

\* Requests M, whose hosts are being connected to, step aside.
LEMMA AsideAccounts ==
    ASSUME NEW P, NEW W, NEW F, NEW cache, NEW reqs, NEW M, NEW H,
           Accounts(P, W, F, cache, reqs, H), M \subseteq P, M \subseteq Announce,
           \A id \in M : cache[reqs[id].host] = "connecting"
    PROVE  Accounts(P \ M, W \cup M, F, cache, reqs, H)
<1>1. \A h \in UdpHost : Con(h) \notin M
  BY IdIs
<1>2. /\ (P \ M) \cap (W \cup M) = {} /\ (P \ M) \cap F = {} /\ (W \cup M) \cap F = {}
      /\ W \cup M \subseteq Announce /\ (P \ M) \cup (W \cup M) \cup F = P \cup W \cup F
  BY DEF Accounts
<1>3. \A h \in UdpHost : /\ Con(h) \in (P \ M) \cup F <=> Con(h) \in P \cup F
                         /\ Con(h) \in ((P \ M) \cup F) \ H <=> Con(h) \in (P \cup F) \ H
  BY <1>1
<1>4. \A id \in W \cup M : cache[reqs[id].host] = "connecting"
  BY DEF Accounts
<1> QED BY <1>2, <1>3, <1>4 DEF Accounts

\* A CONNECT is created.
LEMMA ConnectAccounts ==
    ASSUME NEW P, NEW W, NEW F, NEW cache \in [UdpHost -> IdState], NEW reqs, NEW h \in UdpHost, NEW k, NEW r, NEW z,
           Accounts(P, W, F, cache, reqs, z), z = {}, P \cup W \cup F \subseteq Id, cache[h] # "connecting",
           k = [cache EXCEPT ![h] = "none"], r[Con(h)].host = h, r[Con(h)].fail = 0,
           \A id \in Id : id # Con(h) => r[id] = reqs[id]
    PROVE  Accounts({Con(h)} \cup P, W, F, k, r, {Con(h)})
<1>1. k[h] = "none" /\ \A g \in UdpHost : g # h => k[g] = cache[g]
  OBVIOUS
<1>2. Con(h) \notin P /\ Con(h) \notin F /\ Con(h) \notin W /\ Con(h) \notin Announce
  BY IdIs DEF Accounts
<1>3. \A id \in P \cup W \cup F : r[id] = reqs[id]
  BY <1>2
<1>4. \A id \in Announce : id \in ({Con(h)} \cup P) \cup W \cup F <=> r[id].state = "pending"
  BY <1>2, IdIs DEF Accounts
<1>5. \A id \in ({Con(h)} \cup P) \cup W \cup F : r[id].host \in UdpHost /\ r[id].fail \in 0 .. 1
  BY <1>3 DEF Accounts
<1>6. ASSUME NEW g \in UdpHost
      PROVE  /\ Con(g) \in ({Con(h)} \cup P) \cup F => r[Con(g)].host = g
             /\ Con(g) \in (({Con(h)} \cup P) \cup F) \ {Con(h)} <=> k[g] = "connecting"
  <2>1. CASE g = h
    BY <1>1, <2>1
  <2>2. CASE g # h
    <3>1. Con(g) # Con(h)
      BY <2>2, IdIs
    <3> QED BY <1>1, <1>3, <2>2, <3>1 DEF Accounts
  <2> QED BY <2>1, <2>2
<1>7. ASSUME NEW id \in W PROVE k[r[id].host] = "connecting"
  <2>1. r[id] = reqs[id] /\ reqs[id].host \in UdpHost /\ cache[reqs[id].host] = "connecting"
    BY <1>3 DEF Accounts
  <2> QED BY <1>1, <2>1
<1>8. ({Con(h)} \cup P) \cap W = {} /\ ({Con(h)} \cup P) \cap F = {}
  BY <1>2 DEF Accounts
<1> QED BY <1>4, <1>5, <1>6, <1>7, <1>8 DEF Accounts

\* The first request, id, is sent.
LEMMA SentAccounts ==
    ASSUME NEW P, NEW W, NEW F, NEW cache, NEW reqs, NEW id \in P, NEW k, NEW H,
           Accounts(P, W, F, cache, reqs, H), P \cup W \cup F \subseteq Id, H \subseteq {id},
           \A h \in UdpHost : k[h] = IF id = Con(h) THEN "connecting" ELSE cache[h]
    PROVE  Accounts(P \ {id}, W, F \cup {id}, k, reqs, {})
<1>1. id \notin W /\ id \notin F
  BY DEF Accounts
<1>2. /\ (P \ {id}) \cap W = {} /\ (P \ {id}) \cap (F \cup {id}) = {} /\ W \cap (F \cup {id}) = {}
      /\ (P \ {id}) \cup W \cup (F \cup {id}) = P \cup W \cup F
      /\ (P \ {id}) \cup (F \cup {id}) = P \cup F
  BY <1>1 DEF Accounts
<1>3. ASSUME NEW h \in UdpHost
      PROVE  Con(h) \in (P \cup F) \ {} <=> k[h] = "connecting"
  <2>1. CASE id = Con(h)
    BY <2>1
  <2>2. CASE id # Con(h)
    <3>1. Con(h) \notin H
      BY <2>2
    <3> QED BY <2>2, <3>1 DEF Accounts
  <2> QED BY <2>1, <2>2
<1>4. \A a \in W : k[reqs[a].host] = "connecting"
  BY DEF Accounts
<1> QED BY <1>2, <1>3, <1>4 DEF Accounts

\* Sending announce id throws.
LEMMA NotSentAccounts ==
    ASSUME NEW P, NEW W, NEW F, NEW cache, NEW reqs, NEW id, NEW r,
           Accounts(P, W, F, cache, reqs, {}), P \cup W \cup F \subseteq Id,
           id \in Announce, id \in P, r[id].state # "pending",
           \A a \in Id : a # id => r[a] = reqs[a]
    PROVE  Accounts(P \ {id}, W, F, cache, r, {})
<1>1. id \notin F /\ id \notin W
  BY DEF Accounts
<1>2. \A a \in (P \ {id}) \cup W \cup F : r[a] = reqs[a] /\ a \in P \cup W \cup F
  BY <1>1
<1>3. ASSUME NEW a \in Announce PROVE a \in (P \ {id}) \cup W \cup F <=> r[a].state = "pending"
  BY <1>1, IdIs DEF Accounts
<1>4. \A h \in UdpHost : Con(h) \in (P \ {id}) \cup F <=> Con(h) \in P \cup F
  BY IdIs
<1>5. ASSUME NEW h \in UdpHost
      PROVE  /\ Con(h) \in (P \ {id}) \cup F => r[Con(h)].host = h
             /\ Con(h) \in ((P \ {id}) \cup F) \ {} <=> cache[h] = "connecting"
  BY <1>2, <1>4 DEF Accounts
<1>6. \A a \in W : cache[r[a].host] = "connecting"
  BY <1>2 DEF Accounts
<1>7. \A a \in (P \ {id}) \cup W \cup F : r[a].host \in UdpHost /\ r[a].fail \in 0 .. 1
  BY <1>2 DEF Accounts
<1>8. (P \ {id}) \cap W = {} /\ (P \ {id}) \cap F = {} /\ W \cap F = {} /\ W \subseteq Announce
  BY DEF Accounts
<1> QED BY <1>3, <1>5, <1>6, <1>7, <1>8 DEF Accounts

\* Request i of the pending ones steps aside.
Aside(c, i) ==
    /\ c.pending[i] \in Announce
    /\ c.cache[c.reqs[c.pending[i]].host] = "connecting"

\* The requests before the first that does not step aside.
LEMMA AsideIs ==
    ASSUME NEW c \in Client
    PROVE  LET k == CHOOSE n \in 0 .. Len(c.pending) :
                      /\ \A i \in 1 .. n : Aside(c, i)
                      /\ n < Len(c.pending) => ~Aside(c, n + 1)
           IN  /\ k \in 0 .. Len(c.pending)
               /\ \A i \in 1 .. k : Aside(c, i)
               /\ k < Len(c.pending) => ~Aside(c, k + 1)
<1> DEFINE N == Len(c.pending)
           B == {n \in 0 .. N : n = N \/ ~Aside(c, n + 1)}
<1>0. N \in Nat
  BY ClientFields, SeqIs
<1> HIDE DEF N
<1>1. B \in SUBSET Nat /\ N \in B
  BY <1>0
<1>2. PICK m \in B : \A y \in B : m <= y
  BY <1>1, LeastNumber
<1>3. ASSUME NEW i \in 1 .. m PROVE Aside(c, i)
  <2>1. m \in 0 .. N /\ m \in Nat
    BY <1>0
  <2>2. i - 1 \in 0 .. N /\ ~(m <= i - 1) /\ i - 1 # N /\ (i - 1) + 1 = i
    BY <1>0, <2>1
  <2>3. i - 1 \notin B
    BY <1>2, <2>2
  <2> QED BY <2>2, <2>3
<1>4. m \in 0 .. N /\ (m < N => ~Aside(c, m + 1))
  BY <1>0
<1>5. \E n \in 0 .. N : (\A i \in 1 .. n : Aside(c, i)) /\ (n < N => ~Aside(c, n + 1))
  BY <1>3, <1>4
<1> QED BY <1>5, Zenon DEF N

\* createRequest: H has the CONNECT that is created, the first request then.
LEMMA CreateIs ==
    ASSUME NEW c \in Client, Queued(c, {})
    PROVE  LET x == createRequest(c)
           IN  /\ x \in Client
               /\ \E H : /\ Queued(x, H)
                         /\ \A id \in H : /\ x.pending # <<>> /\ id = Head(x.pending)
                                          /\ id \in ConnectReq
               /\ \A id \in Announce : x.reqs[id] = c.reqs[id]
<1> DEFINE x == createRequest(c)
           k == CHOOSE n \in 0 .. Len(c.pending) :
                  /\ \A i \in 1 .. n : Aside(c, i)
                  /\ n < Len(c.pending) => ~Aside(c, n + 1)
           d == [c EXCEPT !.connect = @ \o SubSeq(c.pending, 1, k),
                          !.pending = SubSeq(@, k + 1, Len(@))]
           id == Head(d.pending)
           h == d.reqs[id].host
           f == SubSeq(c.pending, 1, k)
           g == SubSeq(c.pending, k + 1, Len(c.pending))
           P == ToSet(c.pending)
           W == ToSet(c.connect)
           F == ToSet(c.inflight)
<1> SUFFICES /\ x \in Client
             /\ \E H : /\ Queued(x, H)
                       /\ \A a \in H : x.pending # <<>> /\ a = Head(x.pending) /\ a \in ConnectReq
             /\ \A a \in Announce : x.reqs[a] = c.reqs[a]
  OBVIOUS
<1>1. x = IF d.pending = <<>> \/ id \in ConnectReq THEN d
          ELSE IF d.cache[h] = "connected" THEN d
          ELSE [d EXCEPT !.cache[h] = "none", !.pending = <<Con(h)>> \o @,
                         !.reqs[Con(h)] = [host |-> h, fail |-> 0, state |-> "pending"]]
  BY DEF createRequest, Aside, Con
<1>2. /\ k \in 0 .. Len(c.pending) /\ \A i \in 1 .. k : Aside(c, i)
      /\ k < Len(c.pending) => ~Aside(c, k + 1)
  BY AsideIs
<1> HIDE DEF k, x
<1>3. /\ c.pending \in Seq(Id) /\ c.connect \in Seq(Id) /\ c.inflight \in Seq(Id)
      /\ c.cache \in [UdpHost -> IdState] /\ c.reqs \in [Id -> RequestObject]
      /\ P \subseteq Id /\ W \subseteq Id /\ F \subseteq Id
  BY ClientFields
<1>4. /\ Accounts(P, W, F, c.cache, c.reqs, {})
      /\ IsInjective(c.pending) /\ IsInjective(c.connect) /\ IsInjective(c.inflight)
  BY DEF Queued
<1>5. /\ f \in Seq(Id) /\ g \in Seq(Id) /\ P = ToSet(f) \cup ToSet(g)
      /\ \A a \in ToSet(f) : \E i \in 1 .. k : c.pending[i] = a
      /\ g # <<>> => k < Len(c.pending) /\ Head(g) = c.pending[k + 1]
      /\ IsInjective(f) /\ IsInjective(g) /\ ToSet(f) \cap ToSet(g) = {}
  BY <1>2, <1>3, <1>4, CutIs
<1> HIDE DEF f, g
<1>6. ToSet(f) \subseteq P /\ ToSet(f) \cap W = {} /\ P \ ToSet(f) = ToSet(g)
  BY <1>4, <1>5 DEF Accounts
<1>7. \A a \in ToSet(f) : a \in Announce /\ c.cache[c.reqs[a].host] = "connecting"
  BY <1>2, <1>5 DEF Aside
<1> DEFINE u == c.connect \o f
<1>8. u \in Seq(Id) /\ ToSet(u) = W \cup ToSet(f) /\ IsInjective(u)
  BY <1>3, <1>4, <1>5, <1>6, ConcatIs
<1> HIDE DEF u
<1>9. d = [c EXCEPT !.connect = u, !.pending = g]
  BY DEF u, f, g, Client
<1> HIDE DEF d
<1>10. d \in Client /\ d.connect = u /\ d.pending = g /\ d.inflight = c.inflight /\ d.cache = c.cache
       /\ d.reqs = c.reqs
  BY <1>5, <1>8, <1>9 DEF Client
<1>11. Accounts(ToSet(g), W \cup ToSet(f), F, c.cache, c.reqs, {})
  <2>1. PICK M : M = ToSet(f)
    OBVIOUS
  <2>2. /\ M \subseteq P /\ M \subseteq Announce /\ P \ M = ToSet(g)
        /\ \A a \in M : c.cache[c.reqs[a].host] = "connecting"
    BY <1>6, <1>7, <2>1
  <2>3. PICK z : z = {}
    OBVIOUS
  <2>4. Accounts(P, W, F, c.cache, c.reqs, z)
    BY <1>4, <2>3
  <2> HIDE DEF P, W, F
  <2>5. Accounts(P \ M, W \cup M, F, c.cache, c.reqs, z)
    BY <2>2, <2>4, AsideAccounts
  <2> QED BY <2>1, <2>2, <2>3, <2>5
<1>12. Queued(d, {})
  BY <1>4, <1>5, <1>8, <1>10, <1>11 DEF Queued
<1>13. CASE x = d
  BY <1>10, <1>12, <1>13
<1>14. CASE x # d
  <2>1. /\ d.pending # <<>> /\ id \notin ConnectReq /\ d.cache[h] # "connected"
        /\ x = [d EXCEPT !.cache[h] = "none", !.pending = <<Con(h)>> \o @,
                         !.reqs[Con(h)] = [host |-> h, fail |-> 0, state |-> "pending"]]
    BY <1>1, <1>14
  <2>2. id \in ToSet(g) /\ id \in Id /\ id = c.pending[k + 1] /\ k < Len(c.pending)
    <3>1. g \in Seq(Id) /\ g # <<>>
      BY <1>5, <1>10, <2>1
    <3>2. Head(g) \in Id /\ ToSet(g) = {Head(g)} \cup ToSet(Tail(g))
      BY <3>1, HeadIs
    <3> QED BY <1>5, <1>10, <3>1, <3>2
  <2> HIDE DEF id
  <2>3. id \in Announce
    BY <2>1, <2>2, IdIs
  <2>4. h = c.reqs[id].host /\ h \in UdpHost
    <3>1. h = c.reqs[id].host
      BY <1>10
    <3> HIDE DEF h
    <3> QED BY <1>11, <2>2, <3>1 DEF Accounts
  <2> HIDE DEF h
  <2>5. c.cache[h] # "connecting"
    BY <1>2, <2>2, <2>3, <2>4 DEF Aside
  <2> DEFINE K == [c.cache EXCEPT ![h] = "none"]
             q == [host |-> h, fail |-> 0, state |-> "pending"]
             r == [c.reqs EXCEPT ![Con(h)] = q]
             s == <<Con(h)>>
             p == s \o g
  <2>6. Con(h) \in Id /\ Con(h) \notin Announce
    BY <2>4, IdIs
  <2>7. s \in Seq(Id) /\ ToSet(s) = {Con(h)} /\ IsInjective(s)
    <3>1. s \in Seq(Id) /\ Len(s) = 1 /\ s[1] = Con(h)
      BY <2>6
    <3> HIDE DEF s
    <3>2. DOMAIN s = 1 .. 1 /\ \A a : a \in ToSet(s) <=> \E i \in 1 .. 1 : s[i] = a
      BY <3>1, SeqIs
    <3>3. ToSet(s) = {Con(h)}
      BY <3>1, <3>2
    <3> QED BY <3>1, <3>2, <3>3 DEF IsInjective
  <2>8. Con(h) \notin ToSet(g)
    BY <1>11, <2>4, <2>5 DEF Accounts
  <2>9. p \in Seq(Id) /\ ToSet(p) = {Con(h)} \cup ToSet(g) /\ IsInjective(p)
    <3> HIDE DEF s
    <3> QED BY <1>5, <2>7, <2>8, ConcatIs
  <2>10. p # <<>> /\ Head(p) = Con(h)
    BY <1>5, <2>6
  <2>11. K \in [UdpHost -> IdState]
    BY <1>3 DEF IdState
  <2>12. q \in RequestObject
    BY <2>4 DEF RequestObject
  <2>a. q.host = h /\ q.fail = 0
    OBVIOUS
  <2> HIDE DEF q
  <2>13. r \in [Id -> RequestObject] /\ r[Con(h)] = q /\ \A a \in Id : a # Con(h) => r[a] = c.reqs[a]
    BY <1>3, <2>6, <2>12
  <2>14. x = [d EXCEPT !.cache = K, !.pending = p, !.reqs = r]
    BY <1>10, <2>1 DEF Client, q
  <2> HIDE DEF K, p, r, s
  <2>15. x \in Client /\ x.cache = K /\ x.pending = p /\ x.reqs = r /\ x.connect = u
         /\ x.inflight = c.inflight
    BY <1>10, <2>9, <2>11, <2>13, <2>14 DEF Client
  <2>16. Accounts({Con(h)} \cup ToSet(g), W \cup ToSet(f), F, K, r, {Con(h)})
    <3>1. PICK z : z = {}
      OBVIOUS
    <3>2. PICK A, B : A = ToSet(g) /\ B = W \cup ToSet(f)
      OBVIOUS
    <3>3. Accounts(A, B, F, c.cache, c.reqs, z) /\ A \cup B \cup F \subseteq Id
      BY <1>3, <1>5, <1>6, <1>11, <3>1, <3>2
    <3>4. r[Con(h)].host = h /\ r[Con(h)].fail = 0
      BY <2>13, <2>a
    <3>5. K = [c.cache EXCEPT ![h] = "none"]
      BY DEF K
    <3>6. Accounts({Con(h)} \cup A, B, F, K, r, {Con(h)})
      <4>1. PICK b, o : b = c.cache /\ o = c.reqs
        OBVIOUS
      <4>2. /\ b \in [UdpHost -> IdState] /\ h \in UdpHost /\ Accounts(A, B, F, b, o, z) /\ z = {}
            /\ A \cup B \cup F \subseteq Id /\ b[h] # "connecting" /\ K = [b EXCEPT ![h] = "none"]
            /\ r[Con(h)].host = h /\ r[Con(h)].fail = 0
            /\ \A a \in Id : a # Con(h) => r[a] = o[a]
        BY <1>3, <2>4, <2>5, <2>13, <3>1, <3>3, <3>4, <3>5, <4>1
      <4> HIDE DEF F
      <4> QED BY <4>2, ConnectAccounts
    <3> QED BY <3>2, <3>6
  <2>17. Queued(x, {Con(h)})
    BY <1>4, <1>8, <2>9, <2>15, <2>16 DEF Queued
  <2>18. \A a \in {Con(h)} : x.pending # <<>> /\ a = Head(x.pending) /\ a \in ConnectReq
    BY <2>4, <2>10, <2>15, IdIs
  <2>19. \A a \in Announce : x.reqs[a] = c.reqs[a]
    BY <2>6, <2>13, <2>15, IdIs
  <2> QED BY <2>15, <2>17, <2>18, <2>19
<1> QED BY <1>13, <1>14

\* requestSent.
LEMMA SentIs ==
    ASSUME NEW c \in Client, NEW H, Queued(c, H), c.pending # <<>>, H \subseteq {Head(c.pending)}
    PROVE  LET x == requestSent(c)
           IN  x \in Client /\ Queued(x, {}) /\ x.reqs = c.reqs
<1> DEFINE x == requestSent(c)
           id == Head(c.pending)
           P == ToSet(c.pending)
           W == ToSet(c.connect)
           F == ToSet(c.inflight)
           t == Tail(c.pending)
           f == Append(c.inflight, id)
           k == [h \in UdpHost |-> IF id = Con(h) THEN "connecting" ELSE c.cache[h]]
<1> SUFFICES x \in Client /\ Queued(x, {}) /\ x.reqs = c.reqs
  OBVIOUS
<1>1. /\ c.pending \in Seq(Id) /\ c.connect \in Seq(Id) /\ c.inflight \in Seq(Id)
      /\ c.cache \in [UdpHost -> IdState] /\ c.reqs \in [Id -> RequestObject]
      /\ P \subseteq Id /\ W \subseteq Id /\ F \subseteq Id
  BY ClientFields
<1>2. /\ Accounts(P, W, F, c.cache, c.reqs, H)
      /\ IsInjective(c.pending) /\ IsInjective(c.connect) /\ IsInjective(c.inflight)
  BY DEF Queued
<1>3. id \in Id /\ t \in Seq(Id) /\ P = {id} \cup ToSet(t) /\ IsInjective(t) /\ id \notin ToSet(t)
  BY <1>1, <1>2, HeadIs
<1>4. id \in P /\ id \notin F /\ ToSet(t) = P \ {id}
  BY <1>2, <1>3 DEF Accounts
<1>5. f \in Seq(Id) /\ ToSet(f) = F \cup {id} /\ IsInjective(f)
  BY <1>1, <1>2, <1>3, <1>4, AppendIs
<1>6. k \in [UdpHost -> IdState] /\ \A h \in UdpHost : k[h] = IF id = Con(h) THEN "connecting" ELSE c.cache[h]
  BY <1>1 DEF IdState
<1>7. x = [c EXCEPT !.pending = t, !.inflight = f, !.cache = k]
  BY DEF requestSent, Con
<1>8. H \subseteq {id}
  OBVIOUS
<1> HIDE DEF x, t, f, k, id, P, W, F
<1>9. x \in Client /\ x.pending = t /\ x.inflight = f /\ x.cache = k /\ x.connect = c.connect
      /\ x.reqs = c.reqs
  BY <1>3, <1>5, <1>6, <1>7 DEF Client
<1>10. Accounts(P \ {id}, W, F \cup {id}, k, c.reqs, {})
  <2>1. P \cup W \cup F \subseteq Id
    BY <1>1
  <2> QED BY <1>2, <1>4, <1>6, <1>8, <2>1, SentAccounts
<1>11. Queued(x, {})
  BY <1>2, <1>3, <1>4, <1>5, <1>9, <1>10 DEF Queued, W
<1> QED BY <1>9, <1>11

\* requestFail.
LEMMA NotSentIs ==
    ASSUME NEW c \in Client, NEW H, Queued(c, H), c.pending # <<>>, H \subseteq {Head(c.pending)},
           H \subseteq ConnectReq
    PROVE  LET x == requestFail(c)
           IN  x \in Client /\ Queued(x, {}) /\ Follows(c, x)
<1> DEFINE x == requestFail(c)
           id == Head(c.pending)
           P == ToSet(c.pending)
           W == ToSet(c.connect)
           F == ToSet(c.inflight)
<1> SUFFICES x \in Client /\ Queued(x, {}) /\ Follows(c, x)
  OBVIOUS
<1>1. /\ c.pending \in Seq(Id) /\ c.connect \in Seq(Id) /\ c.inflight \in Seq(Id)
      /\ c.cache \in [UdpHost -> IdState] /\ c.reqs \in [Id -> RequestObject]
      /\ P \subseteq Id /\ W \subseteq Id /\ F \subseteq Id
  BY ClientFields
<1>2. /\ Accounts(P, W, F, c.cache, c.reqs, H)
      /\ IsInjective(c.pending) /\ IsInjective(c.connect) /\ IsInjective(c.inflight)
  BY DEF Queued
<1>3. /\ id \in Id /\ Tail(c.pending) \in Seq(Id) /\ P = {id} \cup ToSet(Tail(c.pending))
      /\ IsInjective(Tail(c.pending)) /\ id \notin ToSet(Tail(c.pending))
  BY <1>1, <1>2, HeadIs
<1>4. id \in P /\ id \notin F /\ id \notin W /\ ToSet(Tail(c.pending)) = P \ {id}
  BY <1>2, <1>3 DEF Accounts
<1>5. CASE id \in Announce
  <2> DEFINE e == Complete(c, {id}, "error")
             t == Tail(c.pending)
  <2>1. id \notin ConnectReq /\ H = {}
    BY <1>5, IdIs
  <2>2. x = [e EXCEPT !.pending = Tail(@)]
    BY <2>1 DEF requestFail
  <2>3. /\ e \in Client
        /\ e.pending = c.pending /\ e.connect = c.connect /\ e.inflight = c.inflight
        /\ e.cache = c.cache
        /\ \A a \in Id : a \notin {id} => e.reqs[a] = c.reqs[a]
        /\ \A a \in Announce : a \in {id} =>
             /\ e.reqs[a].state = "error" /\ e.reqs[a].host = c.reqs[a].host
             /\ e.reqs[a].fail = c.reqs[a].fail
    BY CompleteIs
  <2> HIDE DEF x, e, id, P, W, F
  <2>4. x = [e EXCEPT !.pending = t]
    BY <2>2, <2>3
  <2> HIDE DEF t
  <2>5. x \in Client /\ x.pending = t /\ x.connect = c.connect /\ x.inflight = c.inflight
        /\ x.cache = c.cache /\ x.reqs = e.reqs
    BY <1>3, <2>3, <2>4 DEF Client, t
  <2>6. /\ e.reqs[id].state = "error" /\ e.reqs[id].host = c.reqs[id].host
        /\ \A a \in Id : a # id => e.reqs[a] = c.reqs[a]
    BY <1>5, <2>3
  <2>7. Accounts(P \ {id}, W, F, c.cache, e.reqs, {})
    <3>1. P \cup W \cup F \subseteq Id /\ Accounts(P, W, F, c.cache, c.reqs, {}) /\ e.reqs[id].state # "pending"
      BY <1>1, <1>2, <2>1, <2>6
    <3> QED BY <1>4, <1>5, <2>6, <3>1, NotSentAccounts
  <2>8. Queued(x, {})
    BY <1>2, <1>3, <1>4, <2>5, <2>7 DEF Queued, t, W, F
  <2>9. Follows(c, x)
    <3>1. c.reqs[id].state = "pending"
      BY <1>2, <1>4, <1>5 DEF Accounts
    <3> QED BY <2>5, <2>6, <3>1, IdIs DEF Follows
  <2> QED BY <2>5, <2>8, <2>9
<1>6. CASE id \in ConnectReq
  <2>1. PICK h \in UdpHost : id = Con(h)
    BY <1>6, IdIs
  <2>2. c.reqs[id].host = h
    BY <1>2, <1>4, <2>1 DEF Accounts
  <2> DEFINE d == failConnect(c, h)
             S == WaitFor(c, h)
             e == Complete(d, {id}, "error")
  <2>3. x = [e EXCEPT !.pending = Tail(@)]
    BY <1>6, <2>2 DEF requestFail
  <2>4. /\ d \in Client /\ d.inflight = c.inflight
        /\ d.cache = [c.cache EXCEPT ![h] = "none"]
        /\ d.pending = Keep(c.pending, Id \ S) /\ d.connect = Keep(c.connect, Id \ S)
        /\ \A a \in Id : a \notin S => d.reqs[a] = c.reqs[a]
        /\ \A a \in Announce : a \in S =>
             /\ d.reqs[a].state = "error" /\ d.reqs[a].host = c.reqs[a].host
             /\ d.reqs[a].fail = c.reqs[a].fail
    BY FailConnectIs
  <2> HIDE DEF d
  <2>5. /\ e \in Client
        /\ e.pending = d.pending /\ e.connect = d.connect /\ e.inflight = d.inflight
        /\ e.cache = d.cache
        /\ \A a \in Id : a \notin {id} => e.reqs[a] = d.reqs[a]
    BY <2>4, CompleteIs
  <2> HIDE DEF e, x
  <2>6. S = {a \in Announce : a \in W \cup P /\ c.reqs[a].host = h}
    BY DEF WaitFor
  <2> HIDE DEF S
  <2>7. id \notin Announce /\ id \in Id \ S
    BY <2>1, <2>6, IdIs
  <2> DEFINE p == d.pending
             t == Tail(p)
  <2>8. /\ p \in Seq(Id) /\ ToSet(p) = P \cap (Id \ S) /\ IsInjective(p)
        /\ p # <<>> /\ Head(p) = id
    <3> DEFINE M == Keep(c.pending, Id \ S)
    <3>1. /\ M \in Seq(Id) /\ ToSet(M) = P \cap (Id \ S) /\ IsInjective(M)
          /\ M # <<>> /\ Head(M) = id
      BY <1>1, <1>2, <2>7, KeepIs
    <3> HIDE DEF M
    <3>2. p = M
      BY <2>4 DEF M
    <3> QED BY <3>1, <3>2
  <2>9. /\ d.connect \in Seq(Id) /\ ToSet(d.connect) = W \cap (Id \ S) /\ IsInjective(d.connect)
    <3> DEFINE M == Keep(c.connect, Id \ S)
    <3>1. M \in Seq(Id) /\ ToSet(M) = W \cap (Id \ S) /\ IsInjective(M)
      BY <1>1, <1>2, KeepIs
    <3> HIDE DEF M
    <3>2. d.connect = M
      BY <2>4 DEF M
    <3> QED BY <3>1, <3>2
  <2> HIDE DEF p, id, P, W, F
  <2>10. t \in Seq(Id) /\ ToSet(p) = {id} \cup ToSet(t) /\ IsInjective(t) /\ id \notin ToSet(t)
    BY <2>8, HeadIs
  <2>11. x = [e EXCEPT !.pending = t]
    BY <2>3, <2>5 DEF p
  <2> HIDE DEF t
  <2>12. x \in Client /\ x.pending = t /\ x.connect = d.connect /\ x.inflight = c.inflight
         /\ x.cache = [c.cache EXCEPT ![h] = "none"] /\ x.reqs = e.reqs
    BY <2>4, <2>5, <2>10, <2>11 DEF Client
  <2>13. Accounts(P \ (S \cup {Con(h)}), W \ S, F \ {Con(h)}, x.cache, x.reqs, {})
    <3>1. PICK r, q, b : r = x.reqs /\ q = c.reqs /\ b = c.cache
      OBVIOUS
    <3>2. /\ \A a \in Id : a \notin S /\ a # Con(h) => r[a] = q[a]
          /\ \A a \in Announce : a \in S => r[a].state = "error"
      BY <2>1, <2>4, <2>5, <2>7, <2>12, <3>1, IdIs
    <3>3. /\ Accounts(P, W, F, b, q, H) /\ P \cup W \cup F \subseteq Id /\ H \subseteq {Con(h)}
          /\ b \in [UdpHost -> IdState]
          /\ S = {a \in Announce : a \in W \cup P /\ q[a].host = h}
      BY <1>1, <1>2, <2>1, <2>6, <3>1 DEF id
    <3>4. Accounts(P \ (S \cup {Con(h)}), W \ S, F \ {Con(h)}, [b EXCEPT ![h] = "none"], r, {})
      BY <3>2, <3>3, FailedAccounts
    <3> QED BY <2>12, <3>1, <3>4
  <2>14. ToSet(t) = P \ (S \cup {Con(h)}) /\ ToSet(d.connect) = W \ S /\ F \ {Con(h)} = F
    BY <1>1, <1>4, <2>1, <2>8, <2>9, <2>10
  <2>15. Queued(x, {})
    BY <1>2, <2>9, <2>10, <2>12, <2>13, <2>14 DEF Queued, F
  <2>16. Follows(c, x)
    <3> SUFFICES ASSUME NEW a \in Announce, x.reqs[a] # c.reqs[a]
                 PROVE  /\ x.reqs[a].host = c.reqs[a].host /\ c.reqs[a].state = "pending"
                        /\ x.reqs[a].state \in {"pending", "ok", "error"}
      BY DEF Follows
    <3>1. a \in Id /\ a # id /\ x.reqs[a] = d.reqs[a]
      BY <2>5, <2>7, <2>12, IdIs
    <3>2. a \in S
      BY <2>4, <3>1
    <3>3. c.reqs[a].state = "pending"
      BY <1>2, <2>6, <3>2 DEF Accounts
    <3> QED BY <2>4, <3>1, <3>2, <3>3
  <2> QED BY <2>12, <2>15, <2>16
<1> QED BY <1>3, <1>5, <1>6, IdIs

\* What the client does in two steps.
LEMMA FollowsOn ==
    ASSUME NEW a, NEW b, NEW c, Follows(a, b), Follows(b, c)
    PROVE  Follows(a, c)
BY DEF Follows

\* One round of the send loop.
LEMMA SendNextIs ==
    ASSUME NEW c \in Client, Queued(c, {}), NEW E
    PROVE  LET x == SendNext(c, E)
           IN  x \in Client /\ Queued(x, {}) /\ Follows(c, x)
<1> DEFINE d == createRequest(c)
           x == SendNext(c, E)
<1> SUFFICES x \in Client /\ Queued(x, {}) /\ Follows(c, x)
  OBVIOUS
<1>1. x = IF d.pending = <<>> THEN d
          ELSE IF d.reqs[Head(d.pending)].host \in E THEN requestFail(d) ELSE requestSent(d)
  BY DEF SendNext
<1>2. /\ d \in Client
      /\ \E H : /\ Queued(d, H)
                /\ \A id \in H : /\ d.pending # <<>> /\ id = Head(d.pending) /\ id \in ConnectReq
      /\ \A id \in Announce : d.reqs[id] = c.reqs[id]
  BY CreateIs
<1> HIDE DEF d, x
<1>3. Follows(c, d)
  BY <1>2 DEF Follows
<1>4. PICK H : /\ Queued(d, H)
               /\ \A id \in H : d.pending # <<>> /\ id = Head(d.pending) /\ id \in ConnectReq
  BY <1>2
<1>5. CASE d.pending = <<>>
  <2>1. H = {}
    BY <1>4, <1>5
  <2> QED BY <1>1, <1>2, <1>3, <1>4, <1>5, <2>1
<1>6. CASE d.pending # <<>> /\ x = requestFail(d)
  <2>1. H \subseteq {Head(d.pending)} /\ H \subseteq ConnectReq
    BY <1>4
  <2>2. requestFail(d) \in Client /\ Queued(requestFail(d), {}) /\ Follows(d, requestFail(d))
    BY <1>2, <1>4, <1>6, <2>1, NotSentIs
  <2> QED BY <1>3, <1>6, <2>2, FollowsOn
<1>7. CASE d.pending # <<>> /\ x = requestSent(d)
  <2>1. H \subseteq {Head(d.pending)}
    BY <1>4
  <2>2. requestSent(d) \in Client /\ Queued(requestSent(d), {}) /\ requestSent(d).reqs = d.reqs
    BY <1>2, <1>4, <1>7, <2>1, SentIs
  <2> QED BY <1>3, <1>7, <2>2 DEF Follows
<1> QED BY <1>1, <1>5, <1>6, <1>7

(***************************************************************************)
(* Loops.  A loop is a function from the number of its rounds to the set   *)
(* of the one state after them; g is its round on the states D.            *)
(***************************************************************************)
\* f is the loop from C with N rounds.
Loop(f, D, C, N, g) ==
    /\ f \in [0 .. N -> SUBSET D]
    /\ f[0] = C /\ \A i \in 1 .. N : f[i] = {g[c] : c \in f[i - 1]}

\* The loop exists.
LEMMA LoopExists ==
    ASSUME NEW D, NEW C \in SUBSET D, NEW N \in Nat, NEW g \in [D -> D]
    PROVE  \E f : Loop(f, D, C, N, g)
<1> DEFINE G(f, n) == /\ f \in [0 .. n -> SUBSET D]
                      /\ f[0] = C /\ \A i \in 1 .. n : f[i] = {g[c] : c \in f[i - 1]}
           S == {n \in Nat : \E f : G(f, n)}
<1>1. 0 \in S
  <2> DEFINE f == [i \in 0 .. 0 |-> C]
  <2>1. G(f, 0)
    OBVIOUS
  <2> QED BY <2>1
<1>2. ASSUME NEW i \in 1 .. N, i - 1 \in S PROVE i \in S
  <2>1. PICK f : G(f, i - 1)
    BY <1>2
  <2>2. i \in Nat /\ i # 0 /\ i - 1 \in 0 .. i - 1 /\ 0 \in 0 .. i - 1
    OBVIOUS
  <2> DEFINE v == {g[c] : c \in f[i - 1]}
             h == [j \in 0 .. i |-> IF j = i THEN v ELSE f[j]]
  <2>3. v \in SUBSET D
    <3>1. f[i - 1] \subseteq D
      BY <2>1, <2>2
    <3> QED BY <3>1
  <2> HIDE DEF v
  <2>4. \A j \in 0 .. i : j # i => j \in 0 .. i - 1
    BY <2>2
  <2>5. h \in [0 .. i -> SUBSET D]
    BY <2>1, <2>3, <2>4
  <2>6. h[0] = C
    BY <2>1, <2>2
  <2>7. ASSUME NEW j \in 1 .. i PROVE h[j] = {g[c] : c \in h[j - 1]}
    <3>1. j - 1 \in 0 .. i /\ j \in 0 .. i /\ j - 1 # i
      BY <2>2
    <3>2. h[j - 1] = f[j - 1]
      BY <3>1
    <3>3. CASE j = i
      BY <3>1, <3>2, <3>3 DEF v
    <3>4. CASE j # i
      <4>1. j \in 1 .. i - 1 /\ h[j] = f[j]
        BY <2>2, <3>1, <3>4
      <4> HIDE DEF h
      <4>2. f[j] = {g[c] : c \in f[j - 1]}
        BY <2>1, <4>1
      <4> QED BY <3>2, <4>1, <4>2
    <3> QED BY <3>3, <3>4
  <2> HIDE DEF h
  <2>8. G(h, i)
    BY <2>5, <2>6, <2>7
  <2> QED BY <2>2, <2>8
<1> HIDE DEF G
<1>3. \A n \in 0 .. N : n \in S
  BY <1>1, <1>2, RoundByRound
<1>4. N \in S
  BY <1>3
<1> QED BY <1>4, Zenon DEF G, Loop

\* There are finitely many requests.
LEMMA IdIsFinite == Cardinality(Id) \in Nat
<1>1. IsFiniteSet(Announce) /\ IsFiniteSet(ConnectReq)
  BY UDPTrackerClientAssumption, FS_Singleton, FS_Product DEF Announce, ConnectReq
<1>2. IsFiniteSet(Id)
  BY <1>1, FS_Union DEF Id
<1> QED BY <1>2, FS_CardinalityType

\* The send loop.
LEMMA SendAllIs ==
    ASSUME NEW c \in Client, Queued(c, {}), NEW C, NEW E, NEW x \in SendAll(C, E),
           \A b \in C : b \in Client /\ Queued(b, {}) /\ Follows(c, b)
    PROVE  x \in Client /\ Queued(x, {}) /\ Follows(c, x)
<1> DEFINE N == 2 * Cardinality(Id)
           D == {b \in Client : Queued(b, {}) /\ Follows(c, b)}
           g == [b \in D |-> SendNext(b, E)]
           G(f) == f = [i \in 0 .. N |-> IF i = 0 THEN C ELSE {SendNext(b, E) : b \in f[i - 1]}]
<1>1. N \in Nat
  BY IdIsFinite
<1>2. ASSUME NEW b \in D PROVE SendNext(b, E) \in D
  <2>1. b \in Client /\ Queued(b, {}) /\ Follows(c, b)
    OBVIOUS
  <2>2. SendNext(b, E) \in Client /\ Queued(SendNext(b, E), {}) /\ Follows(b, SendNext(b, E))
    BY <2>1, SendNextIs
  <2> QED BY <2>1, <2>2, FollowsOn
<1>3. C \in SUBSET D
  OBVIOUS
<1> DEFINE K == CHOOSE f : G(f)
<1>4. x \in K[N]
  BY DEF SendAll
<1> HIDE DEF N, D, K
<1>5. g \in [D -> D] /\ \A b \in D : g[b] = SendNext(b, E)
  BY <1>2
<1> HIDE DEF g
<1>a. PICK f : Loop(f, D, C, N, g)
  BY <1>1, <1>3, <1>5, LoopExists
<1>6. /\ f \in [0 .. N -> SUBSET D]
      /\ f[0] = C /\ \A i \in 1 .. N : f[i] = {g[b] : b \in f[i - 1]}
  BY <1>a DEF Loop
<1>7. G(f)
  <2>1. ASSUME NEW i \in 0 .. N
        PROVE  f[i] = IF i = 0 THEN C ELSE {SendNext(b, E) : b \in f[i - 1]}
    <3>1. CASE i = 0
      BY <1>6, <3>1
    <3>2. CASE i # 0
      <4>1. i \in 1 .. N /\ i - 1 \in 0 .. N
        BY <1>1, <3>2
      <4>2. f[i] = {g[b] : b \in f[i - 1]} /\ f[i - 1] \subseteq D
        BY <1>6, <4>1
      <4>3. {g[b] : b \in f[i - 1]} = {SendNext(b, E) : b \in f[i - 1]}
        BY <1>5, <4>2
      <4> QED BY <3>2, <4>2, <4>3
    <3> QED BY <3>1, <3>2
  <2> QED BY <1>6, <2>1
<1>8. G(K)
  BY <1>7 DEF K
<1> DEFINE S == {i \in 0 .. N : K[i] \subseteq D}
<1>9. \A i \in 0 .. N : K[i] = IF i = 0 THEN C ELSE {SendNext(b, E) : b \in K[i - 1]}
  BY <1>8, Zenon
<1>10. 0 \in S
  <2>1. 0 \in 0 .. N
    BY <1>1
  <2>2. K[0] = C
    BY <1>9, <2>1
  <2> QED BY <1>3, <2>1, <2>2
<1>11. ASSUME NEW i \in 1 .. N, i - 1 \in S PROVE i \in S
  <2>1. i \in 0 .. N /\ i # 0 /\ K[i - 1] \subseteq D
    BY <1>1, <1>11
  <2>2. K[i] = {SendNext(b, E) : b \in K[i - 1]}
    BY <1>9, <2>1
  <2>3. K[i] \subseteq D
    BY <1>2, <2>1, <2>2
  <2> QED BY <2>1, <2>3
<1>12. \A i \in 0 .. N : i \in S
  BY <1>1, <1>10, <1>11, RoundByRound
<1>13. K[N] \subseteq D
  BY <1>1, <1>12
<1>14. x \in D
  BY <1>4, <1>13
<1> QED BY <1>14 DEF D

(***************************************************************************)
(* The announce list.                                                      *)
(***************************************************************************)
TierRecord == [event: Event, urls: Seq(Tracker) \ {<<>>}]

AnnounceList ==
    [tiers: Seq(TierRecord), tier: Nat, url: Nat, trackers: 0 .. 1, due: BOOLEAN]

\* The list has n tiers, and its tier and its URI are there.
InPlace(a, n) ==
    /\ a \in AnnounceList /\ Len(a.tiers) = n /\ a.tier \in 1 .. n + 1
    /\ a.tier <= n => a.url \in 1 .. Len(a.tiers[a.tier].urls)

\* What a list in place is made of.
LEMMA ListIs ==
    ASSUME NEW n \in Nat, NEW a, InPlace(a, n)
    PROVE  /\ a.tiers \in Seq(TierRecord) /\ DOMAIN a.tiers = 1 .. n
           /\ a.tier \in Nat /\ a.tier >= 1 /\ a.trackers \in 0 .. 1 /\ a.due \in BOOLEAN
           /\ \A t \in 1 .. n : /\ a.tiers[t] \in TierRecord /\ a.tiers[t].event \in Event
                                /\ a.tiers[t].urls \in Seq(Tracker) /\ Len(a.tiers[t].urls) \in Nat
                                /\ Len(a.tiers[t].urls) # 0
           /\ allTiersFailed(a) <=> ~(a.tier <= n)
           /\ a.tier <= n <=> a.tier \in 1 .. n
<1>1. /\ a.tiers \in Seq(TierRecord) /\ Len(a.tiers) = n /\ a.tier \in 1 .. n + 1
      /\ a.trackers \in 0 .. 1 /\ a.due \in BOOLEAN
  BY DEF InPlace, AnnounceList
<1>2. DOMAIN a.tiers = 1 .. n /\ \A t \in 1 .. n : a.tiers[t] \in TierRecord
  BY <1>1, SeqIs
<1>3. ASSUME NEW t \in 1 .. n
      PROVE  /\ a.tiers[t].event \in Event /\ a.tiers[t].urls \in Seq(Tracker)
             /\ a.tiers[t].urls # <<>>
  BY <1>2 DEF TierRecord
<1>4. ASSUME NEW t \in 1 .. n
      PROVE  Len(a.tiers[t].urls) \in Nat /\ Len(a.tiers[t].urls) # 0
  BY <1>3, SeqIs
<1> QED BY <1>1, <1>2, <1>3, <1>4 DEF allTiersFailed

\* The list with tier t replaced by v, at tier k and URI u.
Put(a, t, v, k, u) == [a EXCEPT !.tiers = [a.tiers EXCEPT ![t] = v], !.tier = k, !.url = u]

\* Such a list is in place.
Fits(a, n, t, v, k, u) ==
    /\ n \in Nat /\ InPlace(a, n) /\ t \in 1 .. n /\ v \in TierRecord /\ k \in 1 .. n + 1 /\ u \in Nat
    /\ k = t => u \in 1 .. Len(v.urls)
    /\ k # t /\ k <= n => u \in 1 .. Len(a.tiers[k].urls)

\* Such a list.
LEMMA PutIs ==
    ASSUME NEW n, NEW a, NEW t, NEW v, NEW k, NEW u, Fits(a, n, t, v, k, u)
    PROVE  LET x == Put(a, t, v, k, u)
           IN  /\ InPlace(x, n) /\ x.tier = k /\ x.url = u /\ x.trackers = a.trackers /\ x.due = a.due
               /\ x.tiers[t] = v /\ \A j \in 1 .. n : j # t => x.tiers[j] = a.tiers[j]
<1> DEFINE T == [a.tiers EXCEPT ![t] = v]
           x == Put(a, t, v, k, u)
<1> USE DEF Fits
<1>1. a.tiers \in Seq(TierRecord) /\ Len(a.tiers) = n /\ a \in AnnounceList
  BY DEF InPlace, AnnounceList
<1>2. /\ T \in Seq(TierRecord) /\ Len(T) = n
      /\ \A j \in 1 .. n : T[j] = IF j = t THEN v ELSE a.tiers[j]
  BY <1>1, ExceptSeq
<1> HIDE DEF T
<1>3. /\ x \in AnnounceList /\ x.tiers = T /\ x.tier = k /\ x.url = u /\ x.trackers = a.trackers
      /\ x.due = a.due
  <2>1. x = [a EXCEPT !.tiers = T, !.tier = k, !.url = u] /\ k \in Nat
    BY DEF Put, T
  <2> HIDE DEF x
  <2> QED BY <1>1, <1>2, <2>1 DEF AnnounceList
<1> HIDE DEF x
<1>4. k <= n => x.url \in 1 .. Len(x.tiers[k].urls)
  <2>1. k <= n => k \in 1 .. n
    OBVIOUS
  <2> QED BY <1>2, <1>3, <2>1
<1>5. InPlace(x, n)
  BY <1>2, <1>3, <1>4 DEF InPlace
<1> QED BY <1>2, <1>3, <1>5 DEF x

\* The list at another place.
Moved(a, k, u) == [a EXCEPT !.tier = k, !.url = u]

\* It is in place there.
FitsAt(a, n, k, u) ==
    /\ n \in Nat /\ InPlace(a, n) /\ k \in 1 .. n + 1 /\ u \in Nat
    /\ k <= n => u \in 1 .. Len(a.tiers[k].urls)

\* The list there.
LEMMA MoveIs ==
    ASSUME NEW n, NEW a, NEW k, NEW u, FitsAt(a, n, k, u)
    PROVE  LET x == Moved(a, k, u)
           IN  /\ InPlace(x, n) /\ x.tier = k /\ x.url = u /\ x.trackers = a.trackers /\ x.due = a.due
               /\ x.tiers = a.tiers
<1> USE DEF FitsAt
<1>1. a.tiers \in Seq(TierRecord) /\ Len(a.tiers) = n /\ a \in AnnounceList
  BY DEF InPlace, AnnounceList
<1>2. LET x == Moved(a, k, u)
      IN  /\ x \in AnnounceList /\ x.tier = k /\ x.url = u /\ x.trackers = a.trackers /\ x.due = a.due
          /\ x.tiers = a.tiers
  <2>1. k \in Nat
    OBVIOUS
  <2> QED BY <1>1, <2>1 DEF AnnounceList, Moved
<1> QED BY <1>1, <1>2 DEF InPlace

\* An announce starts or ends.
Counted(a, k) == [a EXCEPT !.trackers = k]

\* The list then.
LEMMA TrackersIs ==
    ASSUME NEW n \in Nat, NEW a, InPlace(a, n), NEW k \in 0 .. 1
    PROVE  LET x == Counted(a, k)
           IN  /\ InPlace(x, n) /\ x.tier = a.tier /\ x.url = a.url /\ x.trackers = k /\ x.due = a.due
               /\ x.tiers = a.tiers
<1>1. a \in AnnounceList
  BY DEF InPlace
<1>2. LET x == Counted(a, k)
      IN  /\ x \in AnnounceList /\ x.tier = a.tier /\ x.url = a.url /\ x.trackers = k /\ x.due = a.due
          /\ x.tiers = a.tiers
  BY <1>1 DEF AnnounceList, Counted
<1> QED BY <1>2 DEF InPlace

\* The announce interval starts or ends.
LEMMA DueIs ==
    ASSUME NEW n \in Nat, NEW a, InPlace(a, n), NEW b \in BOOLEAN
    PROVE  LET x == [a EXCEPT !.due = b]
           IN  /\ InPlace(x, n) /\ x.tier = a.tier /\ x.url = a.url /\ x.trackers = a.trackers
               /\ x.tiers = a.tiers
<1>1. a \in AnnounceList
  BY DEF InPlace
<1>2. LET x == [a EXCEPT !.due = b]
      IN  /\ x \in AnnounceList /\ x.tier = a.tier /\ x.url = a.url /\ x.trackers = a.trackers
          /\ x.tiers = a.tiers
  BY <1>1 DEF AnnounceList
<1> QED BY <1>2 DEF InPlace

\* The event of a tier is changed.
LEMMA SetEventIs ==
    ASSUME NEW n \in Nat, NEW a, InPlace(a, n), a.tier <= n, NEW e \in Event
    PROVE  LET x == SetEvent(a, e)
           IN  /\ InPlace(x, n) /\ x.tier = a.tier /\ x.url = a.url /\ x.trackers = a.trackers
               /\ x.due = a.due /\ x.tiers[a.tier].event = e
               /\ \A j \in 1 .. n : j # a.tier => x.tiers[j].event = a.tiers[j].event
<1> DEFINE t == a.tier
           v == [a.tiers[t] EXCEPT !.event = e]
           x == SetEvent(a, e)
<1>1. t \in 1 .. n /\ t \in 1 .. n + 1 /\ a.tiers[t] \in TierRecord /\ a \in AnnounceList
      /\ DOMAIN a.tiers = 1 .. n
  BY ListIs DEF InPlace
<1>2. v \in TierRecord /\ v.event = e /\ v.urls = a.tiers[t].urls
  BY <1>1 DEF TierRecord
<1>3. a.url \in Nat /\ a.url \in 1 .. Len(a.tiers[t].urls)
  BY DEF InPlace, AnnounceList
<1> DEFINE y == Put(a, t, v, t, a.url)
<1>4. x = y
  BY <1>1 DEF SetEvent, Put, AnnounceList
<1>5. a.url \in 1 .. Len(v.urls)
  BY <1>2, <1>3
<1> HIDE DEF v, t
<1>6. /\ InPlace(y, n) /\ y.tier = t /\ y.url = a.url /\ y.trackers = a.trackers /\ y.due = a.due
      /\ y.tiers[t] = v /\ \A j \in 1 .. n : j # t => y.tiers[j] = a.tiers[j]
  <2>1. Fits(a, n, t, v, t, a.url)
    BY <1>1, <1>2, <1>3, <1>5 DEF Fits
  <2> QED BY <2>1, PutIs
<1> HIDE DEF y, x
<1> QED BY <1>2, <1>4, <1>6 DEF t, x

\* Tier k places after the current one, round the end.
Round(a, k) ==
    IF a.tier + k <= Len(a.tiers) THEN a.tier + k ELSE a.tier + k - Len(a.tiers)

\* The first tier from the current one on, round the end, whose event is in S.
LEMMA FirstAllowed ==
    ASSUME NEW n \in Nat, NEW a, InPlace(a, n), a.tier <= n, NEW S,
           \E t \in 1 .. n : a.tiers[t].event \in S
    PROVE  LET k == CHOOSE j \in 0 .. Len(a.tiers) - 1 :
                      /\ a.tiers[Round(a, j)].event \in S
                      /\ \A i \in 0 .. j - 1 : a.tiers[Round(a, i)].event \notin S
           IN  Round(a, k) \in 1 .. n /\ a.tiers[Round(a, k)].event \in S
<1> DEFINE B == {j \in 0 .. n - 1 : a.tiers[Round(a, j)].event \in S}
<1>1. a.tier \in 1 .. n /\ Len(a.tiers) = n
  BY ListIs DEF InPlace
<1>2. PICK t \in 1 .. n : a.tiers[t].event \in S
  OBVIOUS
<1>3. \A j \in 0 .. n - 1 : Round(a, j) \in 1 .. n
  BY <1>1 DEF Round
<1>4. \E j \in 0 .. n - 1 : Round(a, j) = t
  <2>1. CASE t >= a.tier
    <3>1. t - a.tier \in 0 .. n - 1 /\ a.tier + (t - a.tier) = t
      BY <1>1, <2>1
    <3> QED BY <1>1, <3>1 DEF Round
  <2>2. CASE t < a.tier
    <3>1. /\ t - a.tier + n \in 0 .. n - 1 /\ a.tier + (t - a.tier + n) = t + n
          /\ ~(t + n <= n) /\ t + n - n = t
      BY <1>1, <2>2
    <3> QED BY <1>1, <3>1 DEF Round
  <2> QED BY <1>1, <2>1, <2>2
<1>5. B \in SUBSET Nat /\ B # {}
  BY <1>2, <1>4
<1>6. PICK m \in B : \A y \in B : m <= y
  BY <1>5, LeastNumber
<1>7. m \in 0 .. n - 1 /\ a.tiers[Round(a, m)].event \in S
  OBVIOUS
<1>8. ASSUME NEW i \in 0 .. m - 1 PROVE a.tiers[Round(a, i)].event \notin S
  <2>1. i \in 0 .. n - 1 /\ ~(m <= i)
    BY <1>7
  <2> QED BY <1>6, <2>1
<1> HIDE DEF B
<1> DEFINE k == CHOOSE j \in 0 .. n - 1 :
                  /\ a.tiers[Round(a, j)].event \in S
                  /\ \A i \in 0 .. j - 1 : a.tiers[Round(a, i)].event \notin S
<1>9. k \in 0 .. n - 1 /\ a.tiers[Round(a, k)].event \in S
  BY <1>7, <1>8, Zenon
<1> HIDE DEF k
<1>10. Round(a, k) \in 1 .. n
  BY <1>3, <1>9
<1> QED BY <1>1, <1>9, <1>10 DEF k

\* The events at which a tier may be told "stopped", or "completed".
Stoppable == {"DOWNLOADING", "STOPPED", "COMPLETED", "SEEDING"}
Completable == {"DOWNLOADING", "COMPLETED"}

\* moveToAllowedTier.
LEMMA MoveToStoppedIs ==
    ASSUME NEW n \in Nat, NEW a, InPlace(a, n), a.tier <= n,
           \E t \in 1 .. n : a.tiers[t].event \in Stoppable
    PROVE  LET x == moveToAllowedTier(a, StoppedAllowed)
           IN  /\ InPlace(x, n) /\ x.tier <= n /\ x.tiers = a.tiers /\ x.trackers = a.trackers
               /\ x.due = a.due /\ a.tiers[x.tier].event \in Stoppable
<1> DEFINE k == CHOOSE j \in 0 .. Len(a.tiers) - 1 :
                  /\ a.tiers[Round(a, j)].event \in Stoppable
                  /\ \A i \in 0 .. j - 1 : a.tiers[Round(a, i)].event \notin Stoppable
           t == Round(a, k)
           y == Moved(a, t, 1)
           x == moveToAllowedTier(a, StoppedAllowed)
<1>1. x = IF a.tiers[a.tier].event \in Stoppable THEN a ELSE y
  BY DEF moveToAllowedTier, StoppedAllowed, Stoppable, Round, Moved
<1>2. t \in 1 .. n /\ a.tiers[t].event \in Stoppable
  BY FirstAllowed
<1> HIDE DEF t, x
<1>3. t \in 1 .. n + 1 /\ t <= n /\ 1 \in 1 .. Len(a.tiers[t].urls) /\ 1 \in Nat
  BY <1>2, ListIs
<1>4. /\ InPlace(y, n) /\ y.tier = t /\ y.url = 1 /\ y.trackers = a.trackers /\ y.due = a.due
      /\ y.tiers = a.tiers
  <2>1. FitsAt(a, n, t, 1)
    BY <1>3 DEF FitsAt
  <2> QED BY <2>1, MoveIs
<1> HIDE DEF y
<1> QED BY <1>1, <1>2, <1>3, <1>4 DEF x

\* The same for "completed".
LEMMA MoveToCompletedIs ==
    ASSUME NEW n \in Nat, NEW a, InPlace(a, n), a.tier <= n,
           \E t \in 1 .. n : a.tiers[t].event \in Completable
    PROVE  LET x == moveToAllowedTier(a, CompletedAllowed)
           IN  /\ InPlace(x, n) /\ x.tier <= n /\ x.tiers = a.tiers /\ x.trackers = a.trackers
               /\ x.due = a.due /\ a.tiers[x.tier].event \in Completable
<1> DEFINE k == CHOOSE j \in 0 .. Len(a.tiers) - 1 :
                  /\ a.tiers[Round(a, j)].event \in Completable
                  /\ \A i \in 0 .. j - 1 : a.tiers[Round(a, i)].event \notin Completable
           t == Round(a, k)
           y == Moved(a, t, 1)
           x == moveToAllowedTier(a, CompletedAllowed)
<1>1. x = IF a.tiers[a.tier].event \in Completable THEN a ELSE y
  BY DEF moveToAllowedTier, CompletedAllowed, Completable, Round, Moved
<1>2. t \in 1 .. n /\ a.tiers[t].event \in Completable
  BY FirstAllowed
<1> HIDE DEF t, x
<1>3. t \in 1 .. n + 1 /\ t <= n /\ 1 \in 1 .. Len(a.tiers[t].urls) /\ 1 \in Nat
  BY <1>2, ListIs
<1>4. /\ InPlace(y, n) /\ y.tier = t /\ y.url = 1 /\ y.trackers = a.trackers /\ y.due = a.due
      /\ y.tiers = a.tiers
  <2>1. FitsAt(a, n, t, 1)
    BY <1>3 DEF FitsAt
  <2> QED BY <2>1, MoveIs
<1> HIDE DEF y
<1> QED BY <1>1, <1>2, <1>3, <1>4 DEF x

\* The two conditions that look at all tiers.
LEMMA AnyTierIs ==
    ASSUME NEW n \in Nat, NEW a, InPlace(a, n)
    PROVE  /\ AnyTier(a, StoppedAllowed) <=> \E t \in 1 .. n : a.tiers[t].event \in Stoppable
           /\ AnyTier(a, CompletedAllowed) <=> \E t \in 1 .. n : a.tiers[t].event \in Completable
<1>1. DOMAIN a.tiers = 1 .. n
  BY ListIs
<1> QED BY <1>1 DEF AnyTier, StoppedAllowed, CompletedAllowed, Stoppable, Completable

\* List x is list a but for the event of tier t, which is e.
Differs(a, x, n, t, e) ==
    /\ InPlace(x, n) /\ t \in 1 .. n /\ x.tiers[t].event = e
    /\ \A j \in 1 .. n : j # t => x.tiers[j].event = a.tiers[j].event

\* adjustAnnounceList.
LEMMA AdjustIs ==
    ASSUME NEW n \in Nat, NEW a, InPlace(a, n), a.tier <= n, NEW r
    PROVE  LET x == adjustAnnounceList(a, r)
               e == a.tiers[x.tier].event
               y == x.tiers[x.tier].event
           IN  /\ InPlace(x, n) /\ x.tier <= n /\ x.trackers = a.trackers /\ x.due = a.due
               /\ Differs(a, x, n, x.tier, y)
               /\ \/ isStoppedAnnounceReady(a, r) /\ e \in Stoppable /\ y = "STOPPED"
                  \/ ~isStoppedAnnounceReady(a, r) /\ e \in Completable /\ y = "COMPLETED"
                  \/ ~isStoppedAnnounceReady(a, r) /\ y = e
                  \/ /\ ~isStoppedAnnounceReady(a, r)
                     /\ e = "STARTED" /\ y = "STARTED_AFTER_COMPLETION"
<1> DEFINE x == adjustAnnounceList(a, r)
           e == a.tiers[x.tier].event
           y == x.tiers[x.tier].event
           m == moveToAllowedTier(a, StoppedAllowed)
           k == moveToAllowedTier(a, CompletedAllowed)
<1> SUFFICES /\ InPlace(x, n) /\ x.tier <= n /\ x.trackers = a.trackers /\ x.due = a.due
             /\ Differs(a, x, n, x.tier, y)
             /\ \/ isStoppedAnnounceReady(a, r) /\ e \in Stoppable /\ y = "STOPPED"
                \/ ~isStoppedAnnounceReady(a, r) /\ e \in Completable /\ y = "COMPLETED"
                \/ ~isStoppedAnnounceReady(a, r) /\ y = e
                \/ /\ ~isStoppedAnnounceReady(a, r)
                   /\ e = "STARTED" /\ y = "STARTED_AFTER_COMPLETION"
  OBVIOUS
<1>1. x = IF isStoppedAnnounceReady(a, r) THEN SetEvent(m, "STOPPED")
          ELSE IF isCompletedAnnounceReady(a, r) THEN SetEvent(k, "COMPLETED")
          ELSE IF r.finished /\ a.tiers[a.tier].event = "STARTED"
               THEN SetEvent(a, "STARTED_AFTER_COMPLETION") ELSE a
  BY DEF adjustAnnounceList
<1>2. {"STOPPED", "COMPLETED", "STARTED_AFTER_COMPLETION"} \subseteq Event
  BY DEF Event
<1>3. a.tier \in 1 .. n
  BY ListIs
<1>4. CASE isStoppedAnnounceReady(a, r)
  <2>1. \E t \in 1 .. n : a.tiers[t].event \in Stoppable
    BY <1>4, AnyTierIs DEF isStoppedAnnounceReady
  <2>2. /\ InPlace(m, n) /\ m.tier <= n /\ m.tiers = a.tiers /\ m.trackers = a.trackers
        /\ m.due = a.due /\ a.tiers[m.tier].event \in Stoppable
    BY <2>1, MoveToStoppedIs
  <2>3. x = SetEvent(m, "STOPPED") /\ "STOPPED" \in Event
    BY <1>1, <1>2, <1>4
  <2> HIDE DEF m, x
  <2>4. /\ InPlace(x, n) /\ x.tier = m.tier /\ x.url = m.url /\ x.trackers = m.trackers
        /\ x.due = m.due /\ x.tiers[m.tier].event = "STOPPED"
        /\ \A j \in 1 .. n : j # m.tier => x.tiers[j].event = m.tiers[j].event
    BY <2>2, <2>3, SetEventIs
  <2>5. m.tier \in 1 .. n
    BY <2>2, ListIs
  <2> QED BY <1>4, <2>2, <2>4, <2>5 DEF Differs
<1>5. CASE ~isStoppedAnnounceReady(a, r) /\ isCompletedAnnounceReady(a, r)
  <2>1. \E t \in 1 .. n : a.tiers[t].event \in Completable
    BY <1>5, AnyTierIs DEF isCompletedAnnounceReady
  <2>2. /\ InPlace(k, n) /\ k.tier <= n /\ k.tiers = a.tiers /\ k.trackers = a.trackers
        /\ k.due = a.due /\ a.tiers[k.tier].event \in Completable
    BY <2>1, MoveToCompletedIs
  <2>3. x = SetEvent(k, "COMPLETED") /\ "COMPLETED" \in Event
    BY <1>1, <1>2, <1>5
  <2> HIDE DEF k, x
  <2>4. /\ InPlace(x, n) /\ x.tier = k.tier /\ x.url = k.url /\ x.trackers = k.trackers
        /\ x.due = k.due /\ x.tiers[k.tier].event = "COMPLETED"
        /\ \A j \in 1 .. n : j # k.tier => x.tiers[j].event = k.tiers[j].event
    BY <2>2, <2>3, SetEventIs
  <2>5. k.tier \in 1 .. n
    BY <2>2, ListIs
  <2> QED BY <1>5, <2>2, <2>4, <2>5 DEF Differs
<1>6. CASE /\ ~isStoppedAnnounceReady(a, r) /\ ~isCompletedAnnounceReady(a, r)
           /\ r.finished /\ a.tiers[a.tier].event = "STARTED"
  <2>3. x = SetEvent(a, "STARTED_AFTER_COMPLETION") /\ "STARTED_AFTER_COMPLETION" \in Event
    BY <1>1, <1>2, <1>6
  <2> HIDE DEF x
  <2>4. /\ InPlace(x, n) /\ x.tier = a.tier /\ x.url = a.url /\ x.trackers = a.trackers
        /\ x.due = a.due /\ x.tiers[a.tier].event = "STARTED_AFTER_COMPLETION"
        /\ \A j \in 1 .. n : j # a.tier => x.tiers[j].event = a.tiers[j].event
    BY <2>3, SetEventIs
  <2> QED BY <1>3, <1>6, <2>4 DEF Differs
<1>7. CASE /\ ~isStoppedAnnounceReady(a, r) /\ ~isCompletedAnnounceReady(a, r)
           /\ ~(r.finished /\ a.tiers[a.tier].event = "STARTED")
  <2>1. x = a
    BY <1>1, <1>7
  <2> HIDE DEF x
  <2> QED BY <1>3, <1>7, <2>1 DEF Differs
<1> QED BY <1>4, <1>5, <1>6, <1>7

\* resetTier and resetAnnounce.
LEMMA ResetIs ==
    ASSUME NEW n \in Nat, NEW a, InPlace(a, n)
    PROVE  LET x == resetTier(a)
               y == resetAnnounce(a)
           IN  /\ InPlace(x, n) /\ x.tiers = a.tiers /\ x.trackers = a.trackers
               /\ InPlace(y, n) /\ y.tiers = a.tiers /\ y.trackers = a.trackers
<1> DEFINE x == Moved(a, 1, 1)
           z == [x EXCEPT !.due = FALSE]
<1>1. FitsAt(a, n, 1, 1)
  <2>1. 1 \in 1 .. n + 1 /\ 1 \in Nat /\ (1 <= n => 1 \in 1 .. n)
    OBVIOUS
  <2>2. \A t \in 1 .. n : 1 \in 1 .. Len(a.tiers[t].urls)
    BY ListIs
  <2> QED BY <2>1, <2>2 DEF FitsAt
<1>2. InPlace(x, n) /\ x.tiers = a.tiers /\ x.trackers = a.trackers
  BY <1>1, MoveIs
<1>3. resetTier(a) = x /\ resetAnnounce(a) = z
  BY DEF resetTier, resetAnnounce, Moved
<1> HIDE DEF x
<1>4. InPlace(z, n) /\ z.tiers = x.tiers /\ z.trackers = x.trackers
  <2>1. PICK b \in BOOLEAN : b = FALSE
    OBVIOUS
  <2> DEFINE w == [x EXCEPT !.due = b]
  <2>2. InPlace(w, n) /\ w.tiers = x.tiers /\ w.trackers = x.trackers
    BY <1>2, DueIs
  <2> HIDE DEF w
  <2>3. z = w
    BY <2>1 DEF w
  <2> QED BY <2>2, <2>3
<1> HIDE DEF z
<1> QED BY <1>2, <1>3, <1>4

\* nextEvent and nextEventIfAfterStarted.
LEMMA NextEventIs ==
    ASSUME NEW e \in Event
    PROVE  nextEvent(e) \in Event /\ nextEventIfAfterStarted(e) \in Event
BY DEF Event, nextEvent, nextEventIfAfterStarted

\* announceFailure and failedAnnounce: the next tracker, or the next tier.
LEMMA FailureIs ==
    ASSUME NEW n \in Nat, NEW a, InPlace(a, n)
    PROVE  LET x == announceFailure(a)
               y == failedAnnounce(a)
           IN  /\ InPlace(x, n) /\ x.trackers = 0
               /\ InPlace(y, n) /\ y.trackers = 0
               /\ \A t \in 1 .. n : \/ x.tiers[t].event = a.tiers[t].event
                                    \/ x.tiers[t].event = nextEventIfAfterStarted(a.tiers[t].event)
               /\ y.tiers = x.tiers
<1> DEFINE b == [a EXCEPT !.trackers = 0]
           x == announceFailure(a)
           y == failedAnnounce(a)
           t == b.tier
<1> SUFFICES /\ InPlace(x, n) /\ x.trackers = 0
             /\ InPlace(y, n) /\ y.trackers = 0
             /\ \A j \in 1 .. n : \/ x.tiers[j].event = a.tiers[j].event
                                  \/ x.tiers[j].event = nextEventIfAfterStarted(a.tiers[j].event)
             /\ y.tiers = x.tiers
  OBVIOUS
<1>1. InPlace(b, n) /\ b.trackers = 0 /\ b.tiers = a.tiers
  <2>1. 0 \in 0 .. 1 /\ b = Counted(a, 0)
    BY DEF Counted
  <2> QED BY <2>1, TrackersIs
<1>2. x = IF allTiersFailed(b) THEN b
          ELSE IF b.url < Len(b.tiers[t].urls) THEN [b EXCEPT !.url = @ + 1]
          ELSE [b EXCEPT !.tiers[t].event = nextEventIfAfterStarted(@), !.tier = @ + 1, !.url = 1]
  BY Zenon DEF announceFailure, listFailure
<1>3. y = IF allTiersFailed(x) THEN resetAnnounce(x) ELSE x
  BY DEF failedAnnounce
<1> HIDE DEF b, x, y
<1>4. /\ b \in AnnounceList /\ t \in 1 .. n + 1 /\ (t <= n => b.url \in 1 .. Len(b.tiers[t].urls))
      /\ b.tier \in Nat /\ b.url \in Nat /\ b.tiers \in Seq(TierRecord) /\ Len(b.tiers) = n
  BY <1>1 DEF InPlace, AnnounceList
<1>5. /\ DOMAIN b.tiers = 1 .. n /\ (allTiersFailed(b) <=> ~(t <= n))
      /\ \A j \in 1 .. n : /\ b.tiers[j] \in TierRecord /\ b.tiers[j].event \in Event
                           /\ b.tiers[j].urls \in Seq(Tracker) /\ Len(b.tiers[j].urls) \in Nat
                           /\ Len(b.tiers[j].urls) # 0
  BY <1>1, ListIs
<1>6. /\ InPlace(x, n) /\ x.trackers = 0
      /\ \A j \in 1 .. n : \/ x.tiers[j].event = b.tiers[j].event
                           \/ x.tiers[j].event = nextEventIfAfterStarted(b.tiers[j].event)
  <2>1. CASE allTiersFailed(b)
    BY <1>1, <1>2, <2>1
  <2>2. CASE ~allTiersFailed(b) /\ b.url < Len(b.tiers[t].urls)
    <3>1. t \in 1 .. n /\ b.url + 1 \in Nat
      BY <1>4, <1>5, <2>2
    <3>2. b.url + 1 \in 1 .. Len(b.tiers[t].urls)
      BY <1>4, <1>5, <2>2, <3>1
    <3> DEFINE z == Moved(b, t, b.url + 1)
    <3>3. FitsAt(b, n, t, b.url + 1)
      BY <1>1, <1>4, <3>1, <3>2 DEF FitsAt
    <3>4. InPlace(z, n) /\ z.trackers = b.trackers /\ z.tiers = b.tiers
      BY <3>3, MoveIs
    <3>5. x = z
      <4>1. x = [b EXCEPT !.url = @ + 1]
        BY <1>2, <2>2
      <4> QED BY <1>4, <4>1 DEF Moved, AnnounceList
    <3> HIDE DEF z
    <3> QED BY <1>1, <3>4, <3>5
  <2>3. CASE ~allTiersFailed(b) /\ ~(b.url < Len(b.tiers[t].urls))
    <3> DEFINE v == [b.tiers[t] EXCEPT !.event = nextEventIfAfterStarted(@)]
               z == Put(b, t, v, t + 1, 1)
    <3>1. t \in 1 .. n /\ t + 1 \in 1 .. n + 1 /\ t + 1 # t
      BY <1>4, <1>5, <2>3
    <3>2. v \in TierRecord /\ v.event = nextEventIfAfterStarted(b.tiers[t].event)
      BY <1>5, <3>1, NextEventIs DEF TierRecord
    <3> HIDE DEF v
    <3>3. \A j \in 1 .. n : 1 \in 1 .. Len(b.tiers[j].urls)
      BY <1>5
    <3>4. t + 1 <= n => t + 1 \in 1 .. n
      BY <3>1
    <3>5. Fits(b, n, t, v, t + 1, 1)
      BY <1>1, <3>1, <3>2, <3>3, <3>4 DEF Fits
    <3>6. /\ InPlace(z, n) /\ z.trackers = b.trackers
          /\ z.tiers[t] = v /\ \A j \in 1 .. n : j # t => z.tiers[j] = b.tiers[j]
      BY <3>5, PutIs
    <3>7. x = z
      <4>1. x = [b EXCEPT !.tiers[t].event = nextEventIfAfterStarted(@), !.tier = @ + 1, !.url = 1]
        BY <1>2, <2>3
      <4> QED BY <1>4, <1>5, <3>1, <4>1 DEF Put, v, AnnounceList
    <3> HIDE DEF z
    <3> QED BY <1>1, <3>2, <3>6, <3>7
  <2> QED BY <2>1, <2>2, <2>3
<1>7. InPlace(y, n) /\ y.trackers = 0 /\ y.tiers = x.tiers
  BY <1>3, <1>6, ResetIs
<1> QED BY <1>1, <1>6, <1>7

\* announceSuccess: the tracker that answered is the first of its tier.
LEMMA SuccessIs ==
    ASSUME NEW n \in Nat, NEW a, InPlace(a, n), a.tier <= n
    PROVE  LET y == resetAnnounce(announceSuccess(a))
           IN  /\ InPlace(y, n) /\ y.trackers = 0
               /\ Differs(a, y, n, a.tier, nextEvent(a.tiers[a.tier].event))
<1> DEFINE b == [a EXCEPT !.trackers = 0]
           x == announceSuccess(a)
           y == resetAnnounce(x)
           t == b.tier
           u == b.tiers[t].urls
           w == <<u[b.url]>> \o SubSeq(u, 1, b.url - 1) \o SubSeq(u, b.url + 1, Len(u))
           v == [event |-> nextEvent(b.tiers[t].event), urls |-> w]
<1> SUFFICES /\ InPlace(y, n) /\ y.trackers = 0
             /\ Differs(a, y, n, a.tier, nextEvent(a.tiers[a.tier].event))
  OBVIOUS
<1>1. InPlace(b, n) /\ b.trackers = 0 /\ b.tiers = a.tiers /\ b.tier = a.tier
  <2>1. 0 \in 0 .. 1 /\ b = Counted(a, 0)
    BY DEF Counted
  <2> QED BY <2>1, TrackersIs
<1>2. x = resetTier([b EXCEPT !.tiers[t] = [event |-> nextEvent(@.event), urls |-> w]])
  BY Zenon DEF announceSuccess, listSuccess
<1> HIDE DEF b, x
<1>3. t \in 1 .. n /\ b \in AnnounceList /\ b.url \in 1 .. Len(u) /\ b.url \in Nat /\ t \in Nat
  BY <1>1, ListIs DEF InPlace, AnnounceList
<1>4. /\ u \in Seq(Tracker) /\ Len(u) \in Nat /\ b.tiers[t].event \in Event /\ DOMAIN b.tiers = 1 .. n
      /\ b.tiers[t] \in TierRecord
  BY <1>1, <1>3, ListIs
<1>5. w \in Seq(Tracker) /\ w # <<>>
  <2> HIDE DEF u
  <2>1. PICK m \in 1 .. Len(u) : m = b.url
    BY <1>3
  <2>2. /\ <<u[m]>> \in Seq(Tracker) /\ <<u[m]>> # <<>> /\ SubSeq(u, 1, m - 1) \in Seq(Tracker)
        /\ SubSeq(u, m + 1, Len(u)) \in Seq(Tracker)
    BY <1>4
  <2>3. PICK p, q, o : p = <<u[m]>> /\ q = SubSeq(u, 1, m - 1) /\ o = SubSeq(u, m + 1, Len(u))
    OBVIOUS
  <2>4. p \in Seq(Tracker) /\ p # <<>> /\ q \in Seq(Tracker) /\ o \in Seq(Tracker)
    BY <2>2, <2>3
  <2>5. p \o q \o o \in Seq(Tracker) /\ p \o q \o o # <<>>
    BY <2>4
  <2> QED BY <2>1, <2>3, <2>5
<1>6. 1 \in 1 .. Len(w)
  <2> HIDE DEF w
  <2> QED BY <1>5, SeqIs
<1> HIDE DEF w, u
<1>7. v \in TierRecord /\ v.event = nextEvent(b.tiers[t].event) /\ v.urls = w
  BY <1>4, <1>5, NextEventIs DEF TierRecord
<1> DEFINE z == Put(b, t, v, 1, 1)
<1>8. Fits(b, n, t, v, 1, 1)
  <2>1. \A j \in 1 .. n : 1 \in 1 .. Len(b.tiers[j].urls)
    BY <1>1, ListIs
  <2>2. 1 \in 1 .. n + 1 /\ 1 \in Nat /\ (1 <= n => 1 \in 1 .. n)
    OBVIOUS
  <2> HIDE DEF v
  <2> QED BY <1>1, <1>3, <1>6, <1>7, <2>1, <2>2 DEF Fits
<1>9. x = z
  <2>1. [b EXCEPT !.tiers[t] = [event |-> nextEvent(@.event), urls |-> w]] = [b EXCEPT !.tiers[t] = v]
    OBVIOUS
  <2> HIDE DEF v
  <2> QED BY <1>2, <1>3, <2>1 DEF resetTier, Put, AnnounceList
<1> HIDE DEF v
<1>10. /\ InPlace(z, n) /\ z.trackers = b.trackers
       /\ z.tiers[t] = v /\ \A j \in 1 .. n : j # t => z.tiers[j] = b.tiers[j]
  BY <1>8, PutIs
<1> HIDE DEF z, y
<1>11. InPlace(y, n) /\ y.tiers = x.tiers /\ y.trackers = x.trackers
  BY <1>9, <1>10, ResetIs DEF y
<1> QED BY <1>1, <1>3, <1>7, <1>9, <1>10, <1>11 DEF Differs

\* A round of the loop that passes over URIs that do not parse.
PassOver(b, r) ==
    IF allTiersFailed(b) \/ ~isAnnounceReady(b, r) THEN b
    ELSE LET c == adjustAnnounceList(b, r)
         IN  IF CurrentUrl(c) \in Unparsable THEN announceFailure(c) ELSE c

\* The trackers of a list.
Spots(a) == UNION {{t} \X DOMAIN a.tiers[t].urls : t \in DOMAIN a.tiers}

\* They are finitely many.
LEMMA SpotsAreFinite ==
    ASSUME NEW n \in Nat, NEW a, InPlace(a, n)
    PROVE  Cardinality(Spots(a)) \in Nat
<1> DEFINE f == [t \in 1 .. n |-> {t} \X DOMAIN a.tiers[t].urls]
           S == {f[t] : t \in 1 .. n}
<1>1. DOMAIN a.tiers = 1 .. n
  BY ListIs
<1>2. \A t \in 1 .. n : f[t] = {t} \X DOMAIN a.tiers[t].urls
  OBVIOUS
<1>3. IsFiniteSet(1 .. n)
  BY FS_Interval
<1>4. IsFiniteSet(S)
  <2>1. f = [t \in 1 .. n |-> f[t]]
    OBVIOUS
  <2> HIDE DEF f
  <2> QED BY <1>3, <2>1, FunctionValues
<1>5. ASSUME NEW t \in 1 .. n PROVE IsFiniteSet(f[t])
  <2>1. a.tiers[t].urls \in Seq(Tracker)
    BY ListIs
  <2>2. PICK m \in Nat : DOMAIN a.tiers[t].urls = 1 .. m
    BY <2>1, SeqIs
  <2>3. IsFiniteSet({t})
    BY FS_Singleton, Zenon
  <2>4. IsFiniteSet(1 .. m)
    BY FS_Interval
  <2> QED BY <1>2, <2>2, <2>3, <2>4, FS_Product
<1>6. Spots(a) = UNION S
  BY <1>1, <1>2 DEF Spots
<1> HIDE DEF f
<1>7. \A T \in S : IsFiniteSet(T)
  BY <1>5
<1> HIDE DEF S
<1>8. IsFiniteSet(UNION S)
  BY <1>4, <1>7, FS_UNION
<1> QED BY <1>6, <1>8, FS_CardinalityType

\* SkipUnparsable: what every round keeps, the loop keeps, and there is a
\* last round.
LEMMA SkipIs ==
    ASSUME NEW n \in Nat, NEW a, InPlace(a, n), NEW r, NEW D, a \in D,
           \A b \in D : PassOver(b, r) \in D,
           NEW x \in SkipUnparsable(a, r)
    PROVE  \E b \in D : x = PassOver(b, r)
<1> DEFINE N == 1 + Cardinality(Spots(a))
           g == [b \in D |-> PassOver(b, r)]
           C == {a}
           G(f) == f = [i \in 0 .. N |-> IF i = 0 THEN {a} ELSE {PassOver(b, r) : b \in f[i - 1]}]
           K == CHOOSE f : G(f)
<1>1. N \in Nat /\ N # 0
  BY SpotsAreFinite
<1>2. x \in K[N]
  BY DEF SkipUnparsable, PassOver, Spots
<1> HIDE DEF N, K
<1>3. g \in [D -> D] /\ \A b \in D : g[b] = PassOver(b, r)
  OBVIOUS
<1>4. C \in SUBSET D
  OBVIOUS
<1> HIDE DEF g, C
<1>5. PICK f : Loop(f, D, C, N, g)
  BY <1>1, <1>3, <1>4, LoopExists
<1>6. /\ f \in [0 .. N -> SUBSET D]
      /\ f[0] = C /\ \A i \in 1 .. N : f[i] = {g[b] : b \in f[i - 1]}
  BY <1>5 DEF Loop
<1>7. G(f)
  <2>1. ASSUME NEW i \in 0 .. N
        PROVE  f[i] = IF i = 0 THEN {a} ELSE {PassOver(b, r) : b \in f[i - 1]}
    <3>1. CASE i = 0
      BY <1>6, <3>1 DEF C
    <3>2. CASE i # 0
      <4>1. i \in 1 .. N /\ i - 1 \in 0 .. N
        BY <1>1, <3>2
      <4>2. f[i] = {g[b] : b \in f[i - 1]} /\ f[i - 1] \subseteq D
        BY <1>6, <4>1
      <4>3. {g[b] : b \in f[i - 1]} = {PassOver(b, r) : b \in f[i - 1]}
        BY <1>3, <4>2
      <4> QED BY <3>2, <4>2, <4>3
    <3> QED BY <3>1, <3>2
  <2> QED BY <1>6, <2>1
<1>8. G(K)
  BY <1>7 DEF K
<1> DEFINE S == {i \in 0 .. N : K[i] \subseteq D}
<1>9. \A i \in 0 .. N : K[i] = IF i = 0 THEN {a} ELSE {PassOver(b, r) : b \in K[i - 1]}
  BY <1>8, Zenon
<1>10. 0 \in S
  <2>1. 0 \in 0 .. N
    BY <1>1
  <2>2. K[0] = {a}
    BY <1>9, <2>1
  <2> QED BY <2>1, <2>2
<1>11. ASSUME NEW i \in 1 .. N, i - 1 \in S PROVE i \in S
  <2>1. i \in 0 .. N /\ i # 0 /\ K[i - 1] \subseteq D
    BY <1>1, <1>11
  <2>2. K[i] = {PassOver(b, r) : b \in K[i - 1]}
    BY <1>9, <2>1
  <2>3. K[i] \subseteq D
    BY <2>1, <2>2
  <2> QED BY <2>1, <2>3
<1>12. \A i \in 0 .. N : i \in S
  BY <1>1, <1>10, <1>11, RoundByRound
<1>13. N \in 0 .. N /\ N - 1 \in 0 .. N
  BY <1>1
<1>14. K[N] = {PassOver(b, r) : b \in K[N - 1]} /\ K[N - 1] \subseteq D
  BY <1>1, <1>9, <1>12, <1>13
<1> QED BY <1>2, <1>14

(***************************************************************************)
(* What the watchers do to the client.                                     *)
(***************************************************************************)
\* An announce that is not pending is replaced by one that is not.
LEMMA IdleAccounts ==
    ASSUME NEW P, NEW W, NEW F, NEW cache, NEW reqs, NEW id, NEW r, NEW z,
           Accounts(P, W, F, cache, reqs, z), P \cup W \cup F \subseteq Id,
           id \in Announce, reqs[id].state # "pending", r[id].state # "pending",
           \A a \in Id : a # id => r[a] = reqs[a]
    PROVE  Accounts(P, W, F, cache, r, z)
<1>1. id \notin P \cup W \cup F
  BY DEF Accounts
<1>2. \A a \in P \cup W \cup F : r[a] = reqs[a]
  BY <1>1
<1>3. \A a \in Announce : a \in P \cup W \cup F <=> r[a].state = "pending"
  BY <1>1, IdIs DEF Accounts
<1>4. /\ \A a \in P \cup W \cup F : r[a].host \in UdpHost /\ r[a].fail \in 0 .. 1
      /\ \A h \in UdpHost : Con(h) \in P \cup F => r[Con(h)].host = h
      /\ \A a \in W : cache[r[a].host] = "connecting"
  BY <1>2 DEF Accounts
<1> QED BY <1>3, <1>4 DEF Accounts

\* The same for the client.
LEMMA ReplaceIs ==
    ASSUME NEW c \in Client, NEW id \in Announce, NEW v \in RequestObject,
           c.reqs[id].state # "pending", v.state # "pending"
    PROVE  LET x == [c EXCEPT !.reqs[id] = v]
           IN  /\ x \in Client /\ (Queued(c, {}) => Queued(x, {}))
               /\ x.reqs[id] = v /\ \A a \in Id : a # id => x.reqs[a] = c.reqs[a]
               /\ x.pending = c.pending /\ x.connect = c.connect /\ x.inflight = c.inflight
<1> DEFINE x == [c EXCEPT !.reqs[id] = v]
           R == [c.reqs EXCEPT ![id] = v]
           P == ToSet(c.pending)
           W == ToSet(c.connect)
           F == ToSet(c.inflight)
<1>1. id \in Id /\ c.reqs \in [Id -> RequestObject] /\ P \subseteq Id /\ W \subseteq Id /\ F \subseteq Id
  BY ClientFields, IdIs
<1>2. R \in [Id -> RequestObject] /\ R[id] = v /\ \A a \in Id : a # id => R[a] = c.reqs[a]
  BY <1>1
<1>3. x = [c EXCEPT !.reqs = R]
  BY DEF Client
<1> HIDE DEF R, x
<1>4. /\ x \in Client /\ x.reqs = R /\ x.pending = c.pending /\ x.connect = c.connect
      /\ x.inflight = c.inflight /\ x.cache = c.cache
  BY <1>2, <1>3 DEF Client
<1>5. ASSUME Queued(c, {}) PROVE Queued(x, {})
  <2> HIDE DEF P, W, F
  <2>1. PICK z : z = {}
    OBVIOUS
  <2>2. /\ Accounts(P, W, F, c.cache, c.reqs, z) /\ P \cup W \cup F \subseteq Id
        /\ c.reqs[id].state # "pending" /\ R[id].state # "pending"
    BY <1>1, <1>2, <1>5, <2>1 DEF Queued, P, W, F
  <2>3. Accounts(P, W, F, c.cache, R, z)
    BY <1>2, <2>2, IdleAccounts
  <2> QED BY <1>4, <1>5, <2>1, <2>3 DEF Queued, P, W, F
<1> QED BY <1>2, <1>4, <1>5 DEF x

\* A resolved announce joins the pending ones.
LEMMA JoinAccounts ==
    ASSUME NEW P, NEW W, NEW F, NEW cache, NEW reqs, NEW id, NEW r, NEW z,
           Accounts(P, W, F, cache, reqs, z), P \cup W \cup F \subseteq Id,
           id \in Announce, reqs[id].state # "pending", r[id].state = "pending",
           r[id].host \in UdpHost, r[id].fail = 0,
           \A a \in Id : a # id => r[a] = reqs[a]
    PROVE  Accounts(P \cup {id}, W, F, cache, r, z)
<1>1. id \notin P \cup W \cup F
  BY DEF Accounts
<1>2. \A a \in P \cup W \cup F : r[a] = reqs[a]
  BY <1>1
<1>3. \A a \in Announce : a \in (P \cup {id}) \cup W \cup F <=> r[a].state = "pending"
  BY <1>1, IdIs DEF Accounts
<1>4. \A h \in UdpHost : Con(h) # id
  BY IdIs
<1>5. \A h \in UdpHost : /\ Con(h) \in (P \cup {id}) \cup F <=> Con(h) \in P \cup F
                         /\ Con(h) \in ((P \cup {id}) \cup F) \ z <=> Con(h) \in (P \cup F) \ z
  BY <1>4
<1>6. /\ \A a \in (P \cup {id}) \cup W \cup F : r[a].host \in UdpHost /\ r[a].fail \in 0 .. 1
      /\ \A h \in UdpHost : Con(h) \in P \cup F => r[Con(h)].host = h
      /\ \A a \in W : cache[r[a].host] = "connecting"
  BY <1>2 DEF Accounts
<1>7. (P \cup {id}) \cap W = {} /\ (P \cup {id}) \cap F = {}
  BY <1>1 DEF Accounts
<1> QED BY <1>3, <1>5, <1>6, <1>7 DEF Accounts

\* addRequest.
LEMMA JoinIs ==
    ASSUME NEW c \in Client, NEW id \in Announce, c.reqs[id].state # "pending",
           c.reqs[id].host \in UdpHost, c.reqs[id].fail = 0
    PROVE  LET x == addRequest(c, id)
           IN  /\ x \in Client /\ (Queued(c, {}) => Queued(x, {}))
               /\ x.reqs[id].state = "pending" /\ \A a \in Id : a # id => x.reqs[a] = c.reqs[a]
<1> DEFINE x == addRequest(c, id)
           v == [c.reqs[id] EXCEPT !.state = "pending"]
           R == [c.reqs EXCEPT ![id] = v]
           q == Append(c.pending, id)
           P == ToSet(c.pending)
           W == ToSet(c.connect)
           F == ToSet(c.inflight)
<1>1. /\ id \in Id /\ c.reqs \in [Id -> RequestObject] /\ P \subseteq Id /\ W \subseteq Id /\ F \subseteq Id
      /\ c.pending \in Seq(Id) /\ c.reqs[id] \in RequestObject
  BY ClientFields, IdIs
<1>2. v \in RequestObject /\ v.state = "pending" /\ v.host = c.reqs[id].host /\ v.fail = c.reqs[id].fail
  BY <1>1 DEF RequestObject
<1>3. x = [c EXCEPT !.reqs = R, !.pending = q]
  BY DEF addRequest, Client
<1> HIDE DEF v
<1>4. R \in [Id -> RequestObject] /\ R[id] = v /\ \A a \in Id : a # id => R[a] = c.reqs[a]
  BY <1>1, <1>2
<1>5. /\ q \in Seq(Id) /\ ToSet(q) = P \cup {id}
      /\ IsInjective(c.pending) /\ id \notin P => IsInjective(q)
  BY <1>1, AppendIs
<1> HIDE DEF R, x, q
<1>6. /\ x \in Client /\ x.reqs = R /\ x.pending = q /\ x.connect = c.connect
      /\ x.inflight = c.inflight /\ x.cache = c.cache
  BY <1>3, <1>4, <1>5 DEF Client
<1>7. ASSUME Queued(c, {}) PROVE Queued(x, {})
  <2>0. id \notin P
    BY <1>7 DEF Queued, Accounts
  <2> HIDE DEF P, W, F
  <2>1. PICK z : z = {}
    OBVIOUS
  <2>2. /\ Accounts(P, W, F, c.cache, c.reqs, z) /\ P \cup W \cup F \subseteq Id
        /\ c.reqs[id].state # "pending" /\ R[id].state = "pending"
        /\ R[id].host \in UdpHost /\ R[id].fail = 0
    BY <1>1, <1>2, <1>4, <1>7, <2>1 DEF Queued, P, W, F
  <2>3. Accounts(P \cup {id}, W, F, c.cache, R, z)
    BY <1>4, <2>2, JoinAccounts
  <2> QED BY <1>5, <1>6, <1>7, <2>0, <2>1, <2>3 DEF Queued, W, F
<1> QED BY <1>2, <1>4, <1>6, <1>7 DEF x

\* A name that cannot be resolved.
LEMMA UnresolvedIs ==
    ASSUME NEW c \in Client, NEW id \in Announce, c.reqs[id].state # "pending"
    PROVE  LET x == Complete(c, {id}, "error")
           IN  /\ x \in Client /\ (Queued(c, {}) => Queued(x, {}))
               /\ x.reqs[id].state = "error" /\ \A a \in Id : a # id => x.reqs[a] = c.reqs[a]
<1> DEFINE x == Complete(c, {id}, "error")
           S == {id}
<1>1. /\ x \in Client
      /\ x.pending = c.pending /\ x.connect = c.connect /\ x.inflight = c.inflight
      /\ x.cache = c.cache
      /\ \A a \in Id : a \notin S => x.reqs[a] = c.reqs[a]
      /\ \A a \in Announce : a \in S =>
           /\ x.reqs[a].state = "error" /\ x.reqs[a].host = c.reqs[a].host
           /\ x.reqs[a].fail = c.reqs[a].fail
  BY CompleteIs
<1> HIDE DEF x
<1>2. x.reqs[id].state = "error" /\ \A a \in Id : a # id => x.reqs[a] = c.reqs[a]
  BY <1>1
<1>3. ASSUME Queued(c, {}) PROVE Queued(x, {})
  <2>1. PICK z : z = {}
    OBVIOUS
  <2>2. PICK P, W, F : P = ToSet(c.pending) /\ W = ToSet(c.connect) /\ F = ToSet(c.inflight)
    OBVIOUS
  <2>3. /\ Accounts(P, W, F, c.cache, c.reqs, z) /\ P \cup W \cup F \subseteq Id
        /\ c.reqs[id].state # "pending" /\ x.reqs[id].state # "pending"
    BY <1>2, <1>3, <2>1, <2>2, ClientFields DEF Queued
  <2>4. Accounts(P, W, F, c.cache, x.reqs, z)
    BY <1>2, <2>3, IdleAccounts
  <2> QED BY <1>1, <1>3, <2>1, <2>2, <2>4 DEF Queued
<1> QED BY <1>1, <1>2, <1>3 DEF x

\* A connection id gets old.
LEMMA ExpireIs ==
    ASSUME NEW c \in Client, NEW h \in UdpHost, c.cache[h] = "connected"
    PROVE  LET x == [c EXCEPT !.cache[h] = "expired"]
           IN  x \in Client /\ (Queued(c, {}) => Queued(x, {})) /\ x.reqs = c.reqs
<1> DEFINE x == [c EXCEPT !.cache[h] = "expired"]
           k == [c.cache EXCEPT ![h] = "expired"]
<1>1. c.cache \in [UdpHost -> IdState]
  BY ClientFields
<1>2. /\ k \in [UdpHost -> IdState]
      /\ \A g \in UdpHost : k[g] = "connecting" <=> c.cache[g] = "connecting"
  BY <1>1 DEF IdState
<1>3. x = [c EXCEPT !.cache = k]
  BY DEF Client
<1> HIDE DEF k, x
<1>4. /\ x \in Client /\ x.cache = k /\ x.reqs = c.reqs /\ x.pending = c.pending
      /\ x.connect = c.connect /\ x.inflight = c.inflight
  BY <1>2, <1>3 DEF Client
<1>5. ASSUME NEW P, NEW W, NEW F, Accounts(P, W, F, c.cache, c.reqs, {})
      PROVE  Accounts(P, W, F, k, c.reqs, {})
  BY <1>2, <1>5 DEF Accounts
<1> QED BY <1>4, <1>5 DEF Queued, x

\* DHTInteractionCommand fails what is left.
LEMMA FailAllIs ==
    ASSUME NEW c \in Client
    PROVE  LET x == failAll(c)
           IN  /\ x \in Client
               /\ \A id \in Announce : x.reqs[id] = c.reqs[id] \/ x.reqs[id].state = "error"
<1> DEFINE S == ToSet(c.pending) \cup ToSet(c.connect) \cup ToSet(c.inflight)
           x == Complete(c, S, "error")
<1>1. /\ x \in Client
      /\ \A a \in Id : a \notin S => x.reqs[a] = c.reqs[a]
      /\ \A a \in Announce : a \in S =>
           /\ x.reqs[a].state = "error" /\ x.reqs[a].host = c.reqs[a].host
           /\ x.reqs[a].fail = c.reqs[a].fail
  BY CompleteIs
<1> HIDE DEF S
<1>2. failAll(c) = x
  BY DEF failAll, S
<1> HIDE DEF x
<1> QED BY <1>1, <1>2, IdIs

\* The client once a reply is received and the requests of T have timed out.
Awake(c, reply, T) ==
    {handleTimeout(b, T \cap ToSet(b.inflight)) :
       b \in IF reply = {} THEN {c} ELSE {receiveReply(c, w) : w \in reply}}

\* DHTInteractionCommand::execute otherwise.
LEMMA PumpIs ==
    ASSUME NEW c \in Client, Queued(c, {}), NEW reply, reply = {} \/ \E m \in Reply : reply = {m},
           NEW T, NEW E,
           NEW x \in SendAll(Awake(c, reply, T), E)
    PROVE  x \in Client /\ Queued(x, {}) /\ Follows(c, x)
<1> DEFINE R == IF reply = {} THEN {c} ELSE {receiveReply(c, w) : w \in reply}
           C == {handleTimeout(b, T \cap ToSet(b.inflight)) : b \in R}
<1>1. ASSUME NEW b \in R PROVE b \in Client /\ Queued(b, {}) /\ Follows(c, b)
  <2>1. CASE reply = {}
    BY <1>1, <2>1 DEF Follows
  <2>2. CASE reply # {}
    <3>1. PICK m \in Reply : reply = {m}
      BY <2>2
    <3>2. b = receiveReply(c, m)
      BY <1>1, <2>2, <3>1
    <3> QED BY <3>2, ReceiveIs
  <2> QED BY <2>1, <2>2
<1> HIDE DEF R
<1>2. ASSUME NEW y \in C PROVE y \in Client /\ Queued(y, {}) /\ Follows(c, y)
  <2>1. PICK b \in R : y = handleTimeout(b, T \cap ToSet(b.inflight))
    BY <1>2
  <2>2. b \in Client /\ Queued(b, {}) /\ Follows(c, b)
    BY <1>1
  <2>3. PICK U : U = T \cap ToSet(b.inflight)
    OBVIOUS
  <2>4. U \in SUBSET ToSet(b.inflight) /\ y = handleTimeout(b, U)
    BY <2>1, <2>3
  <2>5. y \in Client /\ Queued(y, {}) /\ Follows(b, y)
    BY <2>2, <2>4, TimeoutIs
  <2> QED BY <2>2, <2>5, FollowsOn
<1>3. x \in SendAll(C, E)
  BY DEF R, Awake
<1> HIDE DEF C
<1> QED BY <1>2, <1>3, SendAllIs

(***************************************************************************)
(* The invariant of the lists, the watchers and the client.                *)
(***************************************************************************)
\* What a tracker is told.
Said == {"", "started", "completed", "stopped"}

WatchedReq ==
    [kind: {"none", "http", "udp", "gone"}, tier: Nat, event: Said, url: Tracker \cup {NoHost},
     state: {"none", "open", "stopping", "ok", "error", "dropped"}]

Watcher == [alive: BOOLEAN, req: WatchedReq]

Runtime == [halt: BOOLEAN, force: BOOLEAN, finished: BOOLEAN]

\* The announce of download d in the UDP client.
Ann(d) == <<"announce", d>>

\* List a with n tiers, watcher w, announce q of the client and state R of
\* one download: an announce whose host is resolved has one, none is created
\* before the last is over, and a request is for a tracker of the list.
Pursued(n, a, w, q, R) ==
    /\ InPlace(a, n)
    /\ q.state = "resolving" => q.host \in UdpHost /\ q.fail = 0
    /\ w.alive /\ w.req.kind \in {"none", "http"} => q.state \notin {"pending", "resolving"}
    /\ w.req.kind = "gone" => R.force /\ w.req.state = "dropped"
    /\ w.req.kind = "none" => w.req = NoAnnounce
    /\ w.req.kind # "none" => a.tier <= n

TrackersInv ==
    /\ cli \in Client /\ pump \in BOOLEAN /\ (pump => Queued(cli, {}))
    /\ ann = [d \in Download |-> ann[d]]
    /\ watch \in [Download -> Watcher]
    /\ rt \in [Download -> Runtime]
    /\ \A d \in Download : Pursued(Len(Tiers[d]), ann[d], watch[d], cli.reqs[Ann(d)], rt[d])

\* The announces of the downloads, and their tiers.
LEMMA AnnIs ==
    /\ \A d \in Download : Ann(d) \in Announce /\ Ann(d) \in Id
    /\ \A d, e : Ann(d) = Ann(e) => d = e
    /\ \A id \in Announce : \E d \in Download : id = Ann(d)
    /\ \A d \in Download : Len(Tiers[d]) \in Nat
<1>1. \A d \in Download : Tiers[d] \in Seq(Seq(Tracker) \ {<<>>})
  BY BtAnnounceAssumption
<1>2. \A d \in Download : Len(Tiers[d]) \in Nat
  BY <1>1, SeqIs
<1> QED BY <1>2 DEF Ann, Announce, Id

\* A step of one download.
LEMMA OneDownload ==
    ASSUME TrackersInv, NEW d \in Download, rt' = rt, pump' = pump,
           cli' \in Client, pump => Queued(cli', {}),
           \A a \in Id : a # Ann(d) => cli'.reqs[a] = cli.reqs[a],
           NEW x, ann' = [ann EXCEPT ![d] = x],
           NEW w \in Watcher, watch' = [watch EXCEPT ![d] = w],
           Pursued(Len(Tiers[d]), x, w, cli'.reqs[Ann(d)], rt[d])
    PROVE  TrackersInv'
<1>1. ann' = [e \in Download |-> ann'[e]] /\ ann'[d] = x /\ \A e \in Download : e # d => ann'[e] = ann[e]
  <2>1. ann = [e \in Download |-> ann[e]]
    BY DEF TrackersInv
  <2> QED BY <2>1
<1>2. watch' \in [Download -> Watcher] /\ watch'[d] = w /\ \A e \in Download : e # d => watch'[e] = watch[e]
  BY DEF TrackersInv
<1>3. ASSUME NEW e \in Download
      PROVE  Pursued(Len(Tiers[e]), ann'[e], watch'[e], cli'.reqs[Ann(e)], rt'[e])
  <2>1. CASE e = d
    BY <1>1, <1>2, <2>1
  <2>2. CASE e # d
    <3>1. Ann(e) # Ann(d) /\ Ann(e) \in Id
      BY <2>2, AnnIs
    <3>2. Pursued(Len(Tiers[e]), ann[e], watch[e], cli.reqs[Ann(e)], rt[e])
      BY DEF TrackersInv
    <3> QED BY <1>1, <1>2, <2>2, <3>1, <3>2
  <2> QED BY <2>1, <2>2
<1>4. pump' \in BOOLEAN /\ (pump' => Queued(cli', {})) /\ rt' \in [Download -> Runtime]
  BY DEF TrackersInv
<1> QED BY <1>1, <1>2, <1>3, <1>4 DEF TrackersInv

\* A round of the loop of createAnnounce.
LEMMA PassInPlace ==
    ASSUME NEW n \in Nat, NEW a, InPlace(a, n), NEW r
    PROVE  InPlace(PassOver(a, r), n)
<1> DEFINE c == adjustAnnounceList(a, r)
<1>1. CASE allTiersFailed(a) \/ ~isAnnounceReady(a, r)
  BY <1>1 DEF PassOver
<1>2. CASE ~(allTiersFailed(a) \/ ~isAnnounceReady(a, r))
  <2>1. a.tier <= n
    BY <1>2, ListIs
  <2>2. InPlace(c, n)
    BY <2>1, AdjustIs
  <2>3. PassOver(a, r) = IF CurrentUrl(c) \in Unparsable THEN announceFailure(c) ELSE c
    BY <1>2 DEF PassOver
  <2> HIDE DEF c
  <2> QED BY <2>2, <2>3, FailureIs
<1> QED BY <1>1, <1>2

\* The loop.
LEMMA SkipInPlace ==
    ASSUME NEW n \in Nat, NEW a, InPlace(a, n), NEW r, NEW x \in SkipUnparsable(a, r)
    PROVE  InPlace(x, n)
<1> DEFINE D == {b \in AnnounceList : InPlace(b, n)}
<1>1. a \in D
  BY DEF InPlace
<1>2. ASSUME NEW b \in D PROVE PassOver(b, r) \in D
  <2>1. InPlace(PassOver(b, r), n)
    BY PassInPlace
  <2> QED BY <2>1 DEF InPlace
<1>3. \A b \in D : InPlace(PassOver(b, r), n)
  BY <1>2
<1> HIDE DEF D
<1>4. \E b \in D : x = PassOver(b, r)
  BY <1>1, <1>2, SkipIs
<1> QED BY <1>3, <1>4

\* The watcher, its fields and its request.
LEMMA WatcherIs ==
    ASSUME NEW w \in Watcher
    PROVE  /\ w.alive \in BOOLEAN /\ w.req \in WatchedReq
           /\ w.req.kind \in {"none", "http", "udp", "gone"}
           /\ \A b \in BOOLEAN : LET x == [w EXCEPT !.alive = b]
                                 IN  x \in Watcher /\ x.req = w.req /\ x.alive = b
           /\ \A q \in WatchedReq : LET x == [w EXCEPT !.req = q]
                                    IN  x \in Watcher /\ x.req = q /\ x.alive = w.alive
<1>1. w.alive \in BOOLEAN /\ w.req \in WatchedReq
  BY DEF Watcher
<1>2. w.req.kind \in {"none", "http", "udp", "gone"}
  BY <1>1 DEF WatchedReq
<1>3. ASSUME NEW b \in BOOLEAN
      PROVE  LET x == [w EXCEPT !.alive = b] IN x \in Watcher /\ x.req = w.req /\ x.alive = b
  BY DEF Watcher
<1>4. ASSUME NEW q \in WatchedReq
      PROVE  LET x == [w EXCEPT !.req = q] IN x \in Watcher /\ x.req = q /\ x.alive = w.alive
  BY DEF Watcher
<1> QED BY <1>1, <1>2, <1>3, <1>4

\* The watcher without a request.
LEMMA NoAnnounceIs ==
    /\ NoAnnounce \in WatchedReq /\ NoAnnounce.kind = "none" /\ NoAnnounce.state = "none"
    /\ \A b \in BOOLEAN : LET x == [alive |-> b, req |-> NoAnnounce]
                          IN  x \in Watcher /\ x.req = NoAnnounce /\ x.alive = b
<1>1. NoAnnounce \in WatchedReq /\ NoAnnounce.kind = "none" /\ NoAnnounce.state = "none"
  BY DEF NoAnnounce, WatchedReq, Said
<1>2. ASSUME NEW b \in BOOLEAN
      PROVE  LET x == [alive |-> b, req |-> NoAnnounce]
             IN  x \in Watcher /\ x.req = NoAnnounce /\ x.alive = b
  BY <1>1 DEF Watcher
<1> QED BY <1>1, <1>2

\* The request objects of the watchers.
LEMMA NoRequestIs ==
    /\ NoRequest \in RequestObject /\ NoRequest.state = "none"
    /\ \A h \in UdpHost : LET v == [host |-> h, fail |-> 0, state |-> "resolving"]
                          IN  v \in RequestObject /\ v.host = h /\ v.fail = 0 /\ v.state = "resolving"
<1>1. NoRequest \in RequestObject /\ NoRequest.state = "none"
  BY DEF NoRequest, RequestObject
<1>2. ASSUME NEW h \in UdpHost
      PROVE  LET v == [host |-> h, fail |-> 0, state |-> "resolving"]
             IN  v \in RequestObject /\ v.host = h /\ v.fail = 0 /\ v.state = "resolving"
  BY DEF RequestObject
<1> QED BY <1>1, <1>2

\* The watcher's request is dropped once it is over.
LEMMA DropUdpIs ==
    ASSUME TrackersInv, NEW d \in Download, Stopped(d)
    PROVE  LET x == DropUdp(d)
           IN  /\ x \in Client /\ (pump => Queued(x, {}))
               /\ \A a \in Id : a # Ann(d) => x.reqs[a] = cli.reqs[a]
               /\ x.reqs[Ann(d)] = cli.reqs[Ann(d)] \/ x.reqs[Ann(d)].state = "none"
               /\ watch[d].req.kind = "udp" => x.reqs[Ann(d)].state = "none"
               /\ watch[d].req.kind # "udp" => x = cli
<1> DEFINE x == DropUdp(d)
           y == [cli EXCEPT !.reqs[Ann(d)] = NoRequest]
<1>1. cli \in Client /\ (pump => Queued(cli, {})) /\ pump \in BOOLEAN
  BY DEF TrackersInv
<1>2. x = IF watch[d].req.kind = "udp" THEN y ELSE cli
  BY DEF DropUdp, Ann
<1> HIDE DEF x
<1>3. CASE watch[d].req.kind = "udp"
  <2>1. cli.reqs[Ann(d)].state # "pending" /\ Ann(d) \in Announce
    BY <1>3, AnnIs DEF Stopped, RequestState, Ann
  <2>2. NoRequest \in RequestObject /\ NoRequest.state # "pending" /\ NoRequest.state = "none"
    BY NoRequestIs
  <2>3. /\ y \in Client /\ (Queued(cli, {}) => Queued(y, {}))
        /\ y.reqs[Ann(d)] = NoRequest /\ \A a \in Id : a # Ann(d) => y.reqs[a] = cli.reqs[a]
    BY <1>1, <2>1, <2>2, ReplaceIs
  <2> HIDE DEF y
  <2> QED BY <1>1, <1>2, <1>3, <2>2, <2>3 DEF x
<1>4. CASE watch[d].req.kind # "udp"
  BY <1>1, <1>2, <1>4 DEF x
<1> QED BY <1>3, <1>4

\* What a tracker is told.
LEMMA EventStringIs ==
    ASSUME NEW e
    PROVE  EventString(e) \in Said
BY DEF EventString, Said

\* What the invariant says of a download, for its watcher's steps.
LEMMA DownloadIs ==
    ASSUME TrackersInv, NEW d \in Download
    PROVE  /\ Len(Tiers[d]) \in Nat /\ InPlace(ann[d], Len(Tiers[d]))
           /\ Pursued(Len(Tiers[d]), ann[d], watch[d], cli.reqs[Ann(d)], rt[d])
           /\ watch[d] \in Watcher /\ rt[d] \in Runtime
           /\ cli \in Client /\ (pump => Queued(cli, {}))
           /\ ann = [ann EXCEPT ![d] = ann[d]] /\ watch = [watch EXCEPT ![d] = watch[d]]
           /\ Ann(d) \in Announce /\ Ann(d) \in Id
<1>1. ann = [e \in Download |-> ann[e]] /\ watch = [e \in Download |-> watch[e]]
  BY DEF TrackersInv
<1>2. ann = [ann EXCEPT ![d] = ann[d]] /\ watch = [watch EXCEPT ![d] = watch[d]]
  BY <1>1
<1> QED BY <1>2, AnnIs DEF TrackersInv, Pursued

\* createAnnounce.
LEMMA CreateKeeps ==
    ASSUME TrackersInv, NEW d \in Download, watch[d].alive, watch[d].req = NoAnnounce, Create(d),
           rt' = rt, pump' = pump
    PROVE  TrackersInv'
<1> DEFINE n == Len(Tiers[d])
           a == ann[d]
           w == watch[d]
           R == rt[d]
<1>0. /\ n \in Nat /\ InPlace(a, n) /\ Pursued(n, a, w, cli.reqs[Ann(d)], R)
      /\ w \in Watcher /\ cli \in Client /\ (pump => Queued(cli, {}))
      /\ Ann(d) \in Announce /\ Ann(d) \in Id
  BY DownloadIs
<1>1. PICK b \in SkipUnparsable(a, R) :
        LET url == CurrentUrl(b)
            udp == url \in UdpHost
        IN  IF ~allTiersFailed(b) /\ isAnnounceReady(b, R)
            THEN /\ ann' = [ann EXCEPT ![d] = announceStart(b)]
                 /\ watch' = [watch EXCEPT ![d].req =
                      [kind |-> IF udp THEN "udp" ELSE "http", tier |-> b.tier,
                       event |-> EventString(b.tiers[b.tier].event),
                       url |-> url, state |-> "open"]]
                 /\ cli' = IF ~udp THEN cli
                           ELSE [cli EXCEPT !.reqs[Ann(d)] =
                                  [host |-> url, fail |-> 0, state |-> "resolving"]]
            ELSE /\ ann' = [ann EXCEPT ![d] = IF allTiersFailed(b) THEN resetAnnounce(b) ELSE b]
                 /\ watch' = [watch EXCEPT ![d].alive = ~noMoreAnnounce(ann'[d], R)]
                 /\ UNCHANGED cli
  BY DEF Create, Ann
<1>2. InPlace(b, n)
  BY <1>0, SkipInPlace
<1>3. w.req.kind = "none" /\ cli.reqs[Ann(d)].state \notin {"pending", "resolving"}
  BY <1>0, NoAnnounceIs DEF Pursued
<1> HIDE DEF a, R, n
<1>4. CASE ~allTiersFailed(b) /\ isAnnounceReady(b, R)
  <2> DEFINE url == CurrentUrl(b)
             udp == url \in UdpHost
             q == [kind |-> IF udp THEN "udp" ELSE "http", tier |-> b.tier,
                   event |-> EventString(b.tiers[b.tier].event), url |-> url, state |-> "open"]
             v == [host |-> url, fail |-> 0, state |-> "resolving"]
             x == announceStart(b)
             y == [w EXCEPT !.req = q]
  <2>1. /\ ann' = [ann EXCEPT ![d] = x] /\ watch' = [watch EXCEPT ![d].req = q]
        /\ cli' = IF ~udp THEN cli ELSE [cli EXCEPT !.reqs[Ann(d)] = v]
    BY <1>1, <1>4
  <2>2. b.tier <= n /\ b.tier \in 1 .. n /\ b.tier \in Nat
    BY <1>0, <1>2, <1>4, ListIs
  <2>3. url \in Tracker
    <3>1. b.url \in 1 .. Len(b.tiers[b.tier].urls) /\ b.tiers[b.tier].urls \in Seq(Tracker)
      BY <1>0, <1>2, <2>2, ListIs DEF InPlace
    <3> QED BY <3>1, SeqIs DEF CurrentUrl
  <2> HIDE DEF url
  <2>4. q \in WatchedReq /\ q.kind \in {"udp", "http"} /\ (q.kind = "http" => ~udp)
    BY <2>2, <2>3, EventStringIs DEF WatchedReq
  <2>5. b.trackers = 0
    BY <1>4 DEF isAnnounceReady, isStoppedAnnounceReady, isCompletedAnnounceReady,
                isDefaultAnnounceReady
  <2>6. InPlace(x, n) /\ x.tier = b.tier
    <3>1. x = Counted(b, 1) /\ 1 \in 0 .. 1
      BY <2>5 DEF announceStart, Counted
    <3> QED BY <1>0, <1>2, <3>1, TrackersIs
  <2> HIDE DEF q, x
  <2>7. y \in Watcher /\ y.req = q
    BY <1>0, <2>4, WatcherIs
  <2>8. watch' = [watch EXCEPT ![d] = y]
    BY <2>1 DEF TrackersInv
  <2> HIDE DEF y
  <2>9. CASE udp
    <3> DEFINE z == [cli EXCEPT !.reqs[Ann(d)] = v]
    <3>1. cli' = z /\ url \in UdpHost
      BY <2>1, <2>9
    <3>2. v \in RequestObject /\ v.host = url /\ v.fail = 0 /\ v.state = "resolving"
      BY <3>1, NoRequestIs
    <3> HIDE DEF v
    <3>3. cli.reqs[Ann(d)].state # "pending" /\ v.state # "pending"
      BY <1>3, <3>2
    <3>4. /\ z \in Client /\ (Queued(cli, {}) => Queued(z, {}))
          /\ z.reqs[Ann(d)] = v /\ \A e \in Id : e # Ann(d) => z.reqs[e] = cli.reqs[e]
      BY <1>0, <3>2, <3>3, ReplaceIs
    <3> HIDE DEF z, w
    <3>5. q.kind = "udp"
      BY <2>9 DEF q
    <3>6. Pursued(n, x, y, v, R)
      BY <2>2, <2>6, <2>7, <3>1, <3>2, <3>5 DEF Pursued
    <3>7. /\ cli' \in Client /\ (pump => Queued(cli', {})) /\ cli'.reqs[Ann(d)] = v
          /\ \A e \in Id : e # Ann(d) => cli'.reqs[e] = cli.reqs[e]
      BY <1>0, <3>1, <3>4
    <3> HIDE DEF udp
    <3>8. Pursued(Len(Tiers[d]), x, y, cli'.reqs[Ann(d)], rt[d])
      BY <3>6, <3>7 DEF n, R
    <3>9. ann' = [ann EXCEPT ![d] = x] /\ y \in Watcher
      BY <2>1, <2>7
    <3> QED BY <2>8, <3>7, <3>8, <3>9, OneDownload
  <2>10. CASE ~udp
    <3>1. cli' = cli
      BY <2>1, <2>10
    <3>2. q.kind = "http"
      BY <2>10 DEF q
    <3>3. Pursued(n, x, y, cli.reqs[Ann(d)], R)
      BY <1>0, <1>3, <2>2, <2>6, <2>7, <3>2 DEF Pursued
    <3> QED BY <1>0, <2>1, <2>7, <2>8, <3>1, <3>3, OneDownload DEF n, R
  <2> QED BY <2>9, <2>10
<1>5. CASE ~(~allTiersFailed(b) /\ isAnnounceReady(b, R))
  <2> DEFINE x == IF allTiersFailed(b) THEN resetAnnounce(b) ELSE b
             f == ~noMoreAnnounce(ann'[d], R)
             y == [w EXCEPT !.alive = f]
  <2>1. ann' = [ann EXCEPT ![d] = x] /\ watch' = [watch EXCEPT ![d].alive = f] /\ cli' = cli
    BY <1>1, <1>5
  <2>2. InPlace(x, n)
    BY <1>0, <1>2, ResetIs
  <2>3. f \in BOOLEAN
    OBVIOUS
  <2> HIDE DEF x, f
  <2>4. y \in Watcher /\ y.req = w.req
    BY <1>0, <2>3, WatcherIs
  <2>5. watch' = [watch EXCEPT ![d] = y]
    BY <2>1 DEF TrackersInv
  <2> HIDE DEF y
  <2>6. Pursued(n, x, y, cli.reqs[Ann(d)], R)
    BY <1>0, <1>3, <2>2, <2>4 DEF Pursued
  <2> QED BY <1>0, <2>1, <2>4, <2>5, <2>6, OneDownload DEF n, R
<1> QED BY <1>4, <1>5

\* The announce is over.
LEMMA FinishKeeps ==
    ASSUME TrackersInv, NEW d \in Download, NEW proper, watch[d].alive, watch[d].req # NoAnnounce,
           ~rt[d].force, Stopped(d), Finish(d, proper), rt' = rt, pump' = pump
    PROVE  TrackersInv'
<1> DEFINE n == Len(Tiers[d])
           a == ann[d]
           w == watch[d]
           R == rt[d]
           good == /\ RequestState(d) = "ok"
                   /\ w.req.kind = "udp" \/ w.req.url \in Reliable \/ proper
           x == IF good THEN resetAnnounce(announceSuccess(a)) ELSE failedAnnounce(a)
           f == ~noMoreAnnounce(x, R)
           y == [alive |-> f, req |-> NoAnnounce]
           z == DropUdp(d)
<1>0. /\ n \in Nat /\ InPlace(a, n) /\ Pursued(n, a, w, cli.reqs[Ann(d)], R)
      /\ w \in Watcher /\ cli \in Client /\ (pump => Queued(cli, {}))
      /\ Ann(d) \in Announce /\ Ann(d) \in Id
  BY DownloadIs
<1>1. ann' = [ann EXCEPT ![d] = x] /\ watch' = [watch EXCEPT ![d] = y] /\ cli' = z
  BY DEF Finish
<1>2. w.req.kind \in {"http", "udp"}
  BY <1>0, WatcherIs DEF Pursued
<1>3. a.tier <= n
  BY <1>0, <1>2 DEF Pursued
<1>4. InPlace(x, n)
  BY <1>0, <1>3, SuccessIs, FailureIs
<1>5. f \in BOOLEAN
  OBVIOUS
<1> HIDE DEF x, f
<1>6. y \in Watcher /\ y.req = NoAnnounce /\ y.req.kind = "none"
  BY <1>5, NoAnnounceIs
<1> HIDE DEF y
<1>7. /\ z \in Client /\ (pump => Queued(z, {}))
      /\ \A e \in Id : e # Ann(d) => z.reqs[e] = cli.reqs[e]
      /\ w.req.kind = "udp" => z.reqs[Ann(d)].state = "none"
      /\ w.req.kind # "udp" => z = cli
  BY DropUdpIs
<1> HIDE DEF z
<1>8. z.reqs[Ann(d)].state \notin {"pending", "resolving"}
  BY <1>0, <1>2, <1>7 DEF Pursued
<1>9. Pursued(n, x, y, z.reqs[Ann(d)], R)
  BY <1>4, <1>6, <1>8 DEF Pursued
<1> HIDE DEF n, a, R
<1> QED BY <1>1, <1>6, <1>7, <1>9, OneDownload DEF n, R

\* A watcher's request that is being waited for.
LEMMA UnderWay ==
    ASSUME TrackersInv, NEW d \in Download, ~Stopped(d)
    PROVE  watch[d].req.kind \in {"http", "udp"}
<1>1. /\ Pursued(Len(Tiers[d]), ann[d], watch[d], cli.reqs[Ann(d)], rt[d])
      /\ watch[d].req.kind \in {"none", "http", "udp", "gone"}
  BY DownloadIs, WatcherIs
<1>2. watch[d].req.kind = "none" => watch[d].req.state = "none"
  BY <1>1, NoAnnounceIs DEF Pursued
<1>3. watch[d].req.kind = "gone" => watch[d].req.state = "dropped"
  BY <1>1 DEF Pursued
<1> QED BY <1>1, <1>2, <1>3 DEF Stopped, RequestState

\* TrackerWatcherCommand::execute.
LEMMA WatchKeeps ==
    ASSUME TrackersInv, NEW d \in Download, NEW proper, Watch(d, proper)
    PROVE  TrackersInv'
<1> DEFINE n == Len(Tiers[d])
           a == ann[d]
           w == watch[d]
           R == rt[d]
           q == w.req
<1>0. /\ n \in Nat /\ InPlace(a, n) /\ Pursued(n, a, w, cli.reqs[Ann(d)], R)
      /\ w \in Watcher /\ R \in Runtime /\ cli \in Client /\ (pump => Queued(cli, {}))
      /\ ann = [ann EXCEPT ![d] = a] /\ watch = [watch EXCEPT ![d] = w]
      /\ Ann(d) \in Announce /\ Ann(d) \in Id
  BY DownloadIs
<1>1. w.alive /\ rt' = rt /\ pump' = pump
  BY DEF Watch
<1>2. CASE R.force /\ Stopped(d)
  <2> DEFINE y == [alive |-> FALSE, req |-> NoAnnounce]
             z == DropUdp(d)
  <2>1. /\ ann' = [ann EXCEPT ![d] = a] /\ watch' = [watch EXCEPT ![d] = y]
        /\ cli' = IF RequestState(d) = "dropped" THEN cli ELSE z
    BY <1>0, <1>2 DEF Watch
  <2>2. y \in Watcher /\ y.req = NoAnnounce /\ y.req.kind = "none" /\ ~y.alive
    BY NoAnnounceIs
  <2>3. /\ z \in Client /\ (pump => Queued(z, {}))
        /\ \A e \in Id : e # Ann(d) => z.reqs[e] = cli.reqs[e]
        /\ z.reqs[Ann(d)] = cli.reqs[Ann(d)] \/ z.reqs[Ann(d)].state = "none"
    BY <1>2, DropUdpIs
  <2> HIDE DEF y, z, n, a, w, R
  <2>4. /\ cli' \in Client /\ (pump => Queued(cli', {}))
        /\ \A e \in Id : e # Ann(d) => cli'.reqs[e] = cli.reqs[e]
        /\ cli'.reqs[Ann(d)] = cli.reqs[Ann(d)] \/ cli'.reqs[Ann(d)].state = "none"
    BY <1>0, <2>1, <2>3
  <2>5. Pursued(n, a, y, cli'.reqs[Ann(d)], R)
    BY <1>0, <2>2, <2>4 DEF Pursued
  <2>6. Pursued(Len(Tiers[d]), a, y, cli'.reqs[Ann(d)], rt[d])
    BY <2>5 DEF n, R
  <2> QED BY <1>1, <2>1, <2>2, <2>4, <2>6, OneDownload
<1>3. CASE R.force /\ ~Stopped(d)
  <2> DEFINE v == IF q.kind = "udp" THEN [q EXCEPT !.kind = "gone", !.state = "dropped"]
                  ELSE [q EXCEPT !.state = "stopping"]
             y == [w EXCEPT !.req = v]
  <2>1. ann' = [ann EXCEPT ![d] = a] /\ watch' = [watch EXCEPT ![d].req = v] /\ cli' = cli
    BY <1>0, <1>3 DEF Watch
  <2>2. q.kind \in {"http", "udp"} /\ q \in WatchedReq
    BY <1>0, <1>3, UnderWay, WatcherIs
  <2>3. /\ v \in WatchedReq
        /\ q.kind = "udp" => v.kind = "gone" /\ v.state = "dropped"
        /\ q.kind = "http" => v.kind = "http"
    BY <2>2 DEF WatchedReq
  <2>4. watch' = [watch EXCEPT ![d] = y]
    BY <2>1 DEF TrackersInv
  <2> HIDE DEF v
  <2>5. y \in Watcher /\ y.req = v /\ y.alive = w.alive
    BY <1>0, <2>3, WatcherIs
  <2> HIDE DEF y
  <2>6. Pursued(n, a, y, cli.reqs[Ann(d)], R)
    BY <1>0, <1>3, <2>2, <2>3, <2>5 DEF Pursued
  <2> HIDE DEF n, a, w, R, q
  <2>7. Pursued(Len(Tiers[d]), a, y, cli'.reqs[Ann(d)], rt[d])
    BY <2>1, <2>6 DEF n, R
  <2> QED BY <1>0, <1>1, <2>1, <2>4, <2>5, <2>7, OneDownload
<1>4. CASE ~R.force /\ noMoreAnnounce(a, R)
  <2> DEFINE y == [w EXCEPT !.alive = FALSE]
  <2>1. ann' = [ann EXCEPT ![d] = a] /\ watch' = [watch EXCEPT ![d].alive = FALSE] /\ cli' = cli
    BY <1>0, <1>4 DEF Watch
  <2>2. watch' = [watch EXCEPT ![d] = y]
    BY <2>1 DEF TrackersInv
  <2>3. y \in Watcher /\ y.req = w.req /\ ~y.alive
    BY <1>0, WatcherIs
  <2> HIDE DEF y
  <2>4. Pursued(n, a, y, cli.reqs[Ann(d)], R)
    BY <1>0, <2>3 DEF Pursued
  <2> HIDE DEF n, a, w, R, q
  <2>5. Pursued(Len(Tiers[d]), a, y, cli'.reqs[Ann(d)], rt[d])
    BY <2>1, <2>4 DEF n, R
  <2> QED BY <1>0, <1>1, <2>1, <2>2, <2>3, <2>5, OneDownload
<1>5. CASE ~R.force /\ ~noMoreAnnounce(a, R) /\ q = NoAnnounce
  <2>1. Create(d)
    BY <1>5 DEF Watch
  <2> QED BY <1>1, <1>5, <2>1, CreateKeeps
<1>6. CASE ~R.force /\ ~noMoreAnnounce(a, R) /\ q # NoAnnounce /\ Stopped(d)
  <2>1. Finish(d, proper)
    BY <1>6 DEF Watch
  <2> QED BY <1>1, <1>6, <2>1, FinishKeeps
<1>7. CASE ~R.force /\ ~noMoreAnnounce(a, R) /\ q # NoAnnounce /\ ~Stopped(d)
  <2>1. UNCHANGED <<cli, pump, ann, watch, rt>>
    BY <1>1, <1>7 DEF Watch
  <2> QED BY <2>1 DEF TrackersInv
<1> QED BY <1>2, <1>3, <1>4, <1>5, <1>6, <1>7

\* The download that asks an HTTP tracker is over.
LEMMA HttpKeeps ==
    ASSUME TrackersInv, NEW d \in Download, HttpDone(d)
    PROVE  TrackersInv'
<1> DEFINE n == Len(Tiers[d])
           a == ann[d]
           w == watch[d]
           R == rt[d]
           q == w.req
<1>0. /\ n \in Nat /\ InPlace(a, n) /\ Pursued(n, a, w, cli.reqs[Ann(d)], R)
      /\ w \in Watcher /\ R \in Runtime /\ cli \in Client /\ (pump => Queued(cli, {}))
      /\ ann = [ann EXCEPT ![d] = a] /\ watch = [watch EXCEPT ![d] = w]
      /\ Ann(d) \in Announce /\ Ann(d) \in Id
  BY DownloadIs
<1>1. PICK ok \in BOOLEAN : watch' = [watch EXCEPT ![d].req.state = IF ok THEN "ok" ELSE "error"]
  BY DEF HttpDone
<1> DEFINE v == [q EXCEPT !.state = IF ok THEN "ok" ELSE "error"]
           y == [w EXCEPT !.req = v]
<1>2. q.kind = "http" /\ q \in WatchedReq
  BY <1>0, WatcherIs DEF HttpDone
<1>3. v \in WatchedReq /\ v.kind = "http"
  BY <1>2 DEF WatchedReq
<1>4. watch' = [watch EXCEPT ![d] = y]
  BY <1>1 DEF TrackersInv
<1> HIDE DEF v
<1>5. y \in Watcher /\ y.req = v /\ y.alive = w.alive
  BY <1>0, <1>3, WatcherIs
<1> HIDE DEF y
<1>6. Pursued(n, a, y, cli.reqs[Ann(d)], R)
  BY <1>0, <1>2, <1>3, <1>5 DEF Pursued
<1>7. ann' = [ann EXCEPT ![d] = a] /\ cli' = cli /\ rt' = rt /\ pump' = pump
  BY <1>0 DEF HttpDone
<1> HIDE DEF n, a, w, R, q
<1>8. Pursued(Len(Tiers[d]), a, y, cli'.reqs[Ann(d)], rt[d])
  BY <1>6, <1>7 DEF n, R
<1> QED BY <1>0, <1>4, <1>5, <1>7, <1>8, OneDownload

\* NameResolveCommand.
LEMMA ResolveKeeps ==
    ASSUME TrackersInv, NEW d \in Download, ResolveStep(d)
    PROVE  TrackersInv'
<1> DEFINE n == Len(Tiers[d])
           a == ann[d]
           w == watch[d]
           R == rt[d]
           id == Ann(d)
<1>0. /\ n \in Nat /\ InPlace(a, n) /\ Pursued(n, a, w, cli.reqs[Ann(d)], R)
      /\ w \in Watcher /\ R \in Runtime /\ cli \in Client /\ (pump => Queued(cli, {}))
      /\ ann = [ann EXCEPT ![d] = a] /\ watch = [watch EXCEPT ![d] = w]
      /\ Ann(d) \in Announce /\ Ann(d) \in Id
  BY DownloadIs
<1>1. /\ cli.reqs[id].state = "resolving"
      /\ cli' = Complete(cli, {id}, "error") \/ cli' = addRequest(cli, id)
      /\ UNCHANGED <<pump, ann, watch, rt>>
  BY DEF ResolveStep, Resolve, annVars, Ann
<1>2. cli.reqs[id].state # "pending" /\ cli.reqs[id].host \in UdpHost /\ cli.reqs[id].fail = 0
  BY <1>0, <1>1 DEF Pursued
<1>3. /\ cli' \in Client /\ (pump => Queued(cli', {}))
      /\ cli'.reqs[id].state \in {"pending", "error"}
      /\ \A e \in Id : e # id => cli'.reqs[e] = cli.reqs[e]
  <2>1. CASE cli' = Complete(cli, {id}, "error")
    <3>1. /\ cli' \in Client /\ (Queued(cli, {}) => Queued(cli', {}))
          /\ cli'.reqs[id].state = "error" /\ \A e \in Id : e # id => cli'.reqs[e] = cli.reqs[e]
      BY <1>0, <1>2, <2>1, UnresolvedIs
    <3> QED BY <1>0, <3>1
  <2>2. CASE cli' = addRequest(cli, id)
    <3>1. /\ cli' \in Client /\ (Queued(cli, {}) => Queued(cli', {}))
          /\ cli'.reqs[id].state = "pending" /\ \A e \in Id : e # id => cli'.reqs[e] = cli.reqs[e]
      BY <1>0, <1>2, <2>2, JoinIs
    <3> QED BY <1>0, <3>1
  <2> QED BY <1>1, <2>1, <2>2
<1>4. Pursued(n, a, w, cli'.reqs[id], R)
  BY <1>0, <1>1, <1>3 DEF Pursued
<1>5. ann' = [ann EXCEPT ![d] = a] /\ watch' = [watch EXCEPT ![d] = w] /\ rt' = rt /\ pump' = pump
  BY <1>0, <1>1
<1> HIDE DEF a, w
<1> QED BY <1>0, <1>3, <1>4, <1>5, OneDownload

\* The announce interval is over.
LEMMA DueKeeps ==
    ASSUME TrackersInv, NEW d \in Download, Due(d)
    PROVE  TrackersInv'
<1> DEFINE n == Len(Tiers[d])
           a == ann[d]
           w == watch[d]
           x == [a EXCEPT !.due = TRUE]
<1>0. /\ n \in Nat /\ InPlace(a, n) /\ Pursued(n, a, w, cli.reqs[Ann(d)], rt[d])
      /\ w \in Watcher /\ cli \in Client /\ (pump => Queued(cli, {}))
      /\ watch = [watch EXCEPT ![d] = w]
  BY DownloadIs
<1>1. ann' = [ann EXCEPT ![d].due = TRUE] /\ UNCHANGED <<pump, cli, watch, rt>>
  BY DEF Due
<1>2. ann' = [ann EXCEPT ![d] = x]
  BY <1>1 DEF TrackersInv
<1>3. InPlace(x, n) /\ x.tier = a.tier
  BY <1>0, DueIs
<1> HIDE DEF x
<1>4. Pursued(n, x, w, cli.reqs[Ann(d)], rt[d])
  BY <1>0, <1>3 DEF Pursued
<1>5. Pursued(Len(Tiers[d]), x, w, cli'.reqs[Ann(d)], rt[d]) /\ watch' = [watch EXCEPT ![d] = w]
      /\ cli' = cli /\ rt' = rt /\ pump' = pump
  BY <1>0, <1>1, <1>4
<1> HIDE DEF n, a, w
<1> QED BY <1>0, <1>2, <1>5, OneDownload

\* A download completes or is halted, for good.
LEMMA RuntimeKeeps ==
    ASSUME TrackersInv, rt' \in [Download -> Runtime],
           \A d \in Download : rt[d].force => rt'[d].force,
           UNCHANGED <<cli, pump, ann, watch>>
    PROVE  TrackersInv'
<1>1. ASSUME NEW d \in Download
      PROVE  Pursued(Len(Tiers[d]), ann[d], watch[d], cli.reqs[Ann(d)], rt'[d])
  <2>1. Pursued(Len(Tiers[d]), ann[d], watch[d], cli.reqs[Ann(d)], rt[d])
    BY DEF TrackersInv
  <2> QED BY <2>1 DEF Pursued
<1> QED BY <1>1 DEF TrackersInv

\* The steps that halt or complete downloads.
Halts ==
    \/ \E d \in Download : DownloadFinishes(d)
    \/ \E d \in Download, force \in BOOLEAN : HaltDownload(d, force)
    \/ \E force \in BOOLEAN : HaltEngine(force)

\* What they do.
LEMMA HaltsAre ==
    ASSUME TrackersInv, Halts
    PROVE  /\ rt' \in [Download -> Runtime]
           /\ \A d \in Download : (rt[d].force => rt'[d].force) /\ (rt[d].halt => rt'[d].halt)
           /\ UNCHANGED <<cli, pump, ann, watch, acked>>
<1>0. rt \in [Download -> Runtime]
  BY DEF TrackersInv
<1>1. ASSUME NEW d \in Download, DownloadFinishes(d)
      PROVE  /\ rt' \in [Download -> Runtime]
             /\ \A e \in Download : (rt[e].force => rt'[e].force) /\ (rt[e].halt => rt'[e].halt)
             /\ UNCHANGED <<cli, pump, ann, watch, acked>>
  BY <1>0, <1>1 DEF DownloadFinishes, Runtime
<1>2. ASSUME NEW d \in Download, NEW force \in BOOLEAN, HaltDownload(d, force)
      PROVE  /\ rt' \in [Download -> Runtime]
             /\ \A e \in Download : (rt[e].force => rt'[e].force) /\ (rt[e].halt => rt'[e].halt)
             /\ UNCHANGED <<cli, pump, ann, watch, acked>>
  BY <1>0, <1>2 DEF HaltDownload, Runtime
<1>3. ASSUME NEW force \in BOOLEAN, HaltEngine(force)
      PROVE  /\ rt' \in [Download -> Runtime]
             /\ \A e \in Download : (rt[e].force => rt'[e].force) /\ (rt[e].halt => rt'[e].halt)
             /\ UNCHANGED <<cli, pump, ann, watch, acked>>
  BY <1>0, <1>3 DEF HaltEngine, Runtime
<1> QED BY <1>1, <1>2, <1>3 DEF Halts

\* The client goes on with the announces it was given, and is lost only when
\* the pump is.
LEMMA ClientKeeps ==
    ASSUME TrackersInv, cli' \in Client, pump' \in BOOLEAN, pump' => Queued(cli', {}),
           UNCHANGED <<ann, watch, rt>>,
           \A d \in Download : \/ cli'.reqs[Ann(d)] = cli.reqs[Ann(d)]
                               \/ cli'.reqs[Ann(d)].state \in {"ok", "error"}
                               \/ /\ cli.reqs[Ann(d)].state = "pending"
                                  /\ cli'.reqs[Ann(d)].state = "pending"
    PROVE  TrackersInv'
<1>1. ASSUME NEW d \in Download
      PROVE  Pursued(Len(Tiers[d]), ann[d], watch[d], cli'.reqs[Ann(d)], rt[d])
  <2>1. Pursued(Len(Tiers[d]), ann[d], watch[d], cli.reqs[Ann(d)], rt[d])
    BY DEF TrackersInv
  <2> QED BY <2>1 DEF Pursued
<1> QED BY <1>1 DEF TrackersInv

\* DHTInteractionCommand::execute.
LEMMA PumpKeeps ==
    ASSUME TrackersInv, PumpStep
    PROVE  TrackersInv'
<1>0. cli \in Client /\ pump \in BOOLEAN /\ (pump => Queued(cli, {}))
  BY DEF TrackersInv
<1>1. PICK reply \in {{}} \cup {{m} : m \in Reply}, T \in SUBSET ToSet(cli.inflight),
           E \in SUBSET UdpHost : Pump(reply, T, E, AnyWatcher)
  BY DEF PumpStep, PumpSteps
<1>2. pump /\ UNCHANGED <<ann, watch, rt>>
  BY <1>1 DEF Pump, PumpStep, annVars
<1>3. CASE pump' = FALSE /\ UNCHANGED cli
  BY <1>0, <1>2, <1>3, ClientKeeps
<1>4. CASE pump' = FALSE /\ cli' = failAll(cli)
  <2>1. /\ cli' \in Client
        /\ \A id \in Announce : cli'.reqs[id] = cli.reqs[id] \/ cli'.reqs[id].state = "error"
    BY <1>0, <1>4, FailAllIs
  <2>2. \A d \in Download : cli'.reqs[Ann(d)] = cli.reqs[Ann(d)] \/ cli'.reqs[Ann(d)].state = "error"
    BY <2>1, AnnIs
  <2> QED BY <1>2, <1>4, <2>1, <2>2, ClientKeeps
<1>5. CASE pump' = pump /\ cli' \in SendAll(Awake(cli, reply, T), E)
  <2>1. reply = {} \/ \E m \in Reply : reply = {m}
    OBVIOUS
  <2>2. cli' \in Client /\ Queued(cli', {}) /\ Follows(cli, cli')
    BY <1>0, <1>2, <1>5, <2>1, PumpIs
  <2>3. ASSUME NEW d \in Download
        PROVE  \/ cli'.reqs[Ann(d)] = cli.reqs[Ann(d)]
               \/ cli'.reqs[Ann(d)].state \in {"ok", "error"}
               \/ /\ cli.reqs[Ann(d)].state = "pending"
                  /\ cli'.reqs[Ann(d)].state = "pending"
    <3>1. Ann(d) \in Announce
      BY AnnIs
    <3> QED BY <2>2, <3>1 DEF Follows
  <2> QED BY <1>0, <1>2, <1>5, <2>2, <2>3, ClientKeeps
<1>6. \/ pump' = FALSE /\ UNCHANGED cli
      \/ pump' = FALSE /\ cli' = failAll(cli)
      \/ pump' = pump /\ cli' \in SendAll(Awake(cli, reply, T), E)
  BY <1>1 DEF Pump, Awake
<1> QED BY <1>3, <1>4, <1>5, <1>6

\* A connection id gets old.
LEMMA ExpireKeeps ==
    ASSUME TrackersInv, Expire, UNCHANGED annVars
    PROVE  TrackersInv'
<1>0. cli \in Client /\ pump \in BOOLEAN /\ (pump => Queued(cli, {}))
  BY DEF TrackersInv
<1>1. PICK h \in UdpHost : cli.cache[h] = "connected" /\ cli' = [cli EXCEPT !.cache[h] = "expired"]
  BY DEF Expire
<1>2. cli' \in Client /\ (Queued(cli, {}) => Queued(cli', {})) /\ cli'.reqs = cli.reqs
  BY <1>0, <1>1, ExpireIs
<1>3. UNCHANGED <<pump, ann, watch, rt>>
  BY DEF Expire, annVars
<1> QED BY <1>0, <1>2, <1>3, ClientKeeps

\* The lists at the start.
LEMMA InitListIs ==
    ASSUME NEW d \in Download
    PROVE  /\ InPlace(InitAnnounce(d), Len(Tiers[d]))
           /\ \A t \in 1 .. Len(Tiers[d]) : InitAnnounce(d).tiers[t].event = "STARTED"
<1> DEFINE n == Len(Tiers[d])
           T == [t \in DOMAIN Tiers[d] |-> [event |-> "STARTED", urls |-> Tiers[d][t]]]
           a == InitAnnounce(d)
<1>1. Tiers[d] \in Seq(Seq(Tracker) \ {<<>>})
  BY BtAnnounceAssumption
<1>2. /\ n \in Nat /\ DOMAIN Tiers[d] = 1 .. n
      /\ \A t \in 1 .. n : Tiers[d][t] \in Seq(Tracker) /\ Tiers[d][t] # <<>>
  BY <1>1, SeqIs
<1>3. \A t \in 1 .. n : T[t] \in TierRecord /\ T[t].event = "STARTED" /\ T[t].urls = Tiers[d][t]
  BY <1>2 DEF TierRecord, Event
<1>4. T \in Seq(TierRecord) /\ Len(T) = n
  <2>1. T = [t \in 1 .. n |-> T[t]]
    BY <1>2
  <2> HIDE DEF T
  <2>2. T \in [1 .. n -> TierRecord]
    BY <1>3, <2>1
  <2> QED BY <1>2, <2>2
<1>5. \A t \in 1 .. n : 1 \in 1 .. Len(T[t].urls)
  <2>1. ASSUME NEW t \in 1 .. n PROVE Len(Tiers[d][t]) \in Nat /\ Len(Tiers[d][t]) # 0
    BY <1>2, SeqIs
  <2> QED BY <1>3, <2>1
<1>6. a = [tiers |-> T, tier |-> 1, url |-> 1, trackers |-> 0, due |-> TRUE]
  BY DEF InitAnnounce
<1> HIDE DEF T, a
<1>7. a \in AnnounceList /\ a.tiers = T /\ a.tier = 1 /\ a.url = 1
  BY <1>4, <1>6 DEF AnnounceList
<1>8. a.tier \in 1 .. n + 1 /\ (a.tier <= n => 1 \in 1 .. n)
  BY <1>2, <1>7
<1> QED BY <1>3, <1>4, <1>5, <1>7, <1>8 DEF InPlace, a

\* The initial states.
LEMMA InitTrackers == Init => TrackersInv
<1> SUFFICES ASSUME Init PROVE TrackersInv
  OBVIOUS
<1>1. cli = InitClient /\ pump = TRUE /\ BtAnnounceInit
  BY DEF Init
<1>2. NoRequest \in RequestObject /\ NoRequest.state = "none"
  BY NoRequestIs
<1>3. /\ InitClient \in Client /\ \A id \in Id : InitClient.reqs[id] = NoRequest
      /\ InitClient.pending = <<>> /\ InitClient.connect = <<>> /\ InitClient.inflight = <<>>
      /\ \A h \in UdpHost : InitClient.cache[h] = "none"
  BY <1>2 DEF InitClient, Client, IdState
<1>4. Queued(cli, {})
  <2>1. ToSet(<<>>) = {} /\ IsInjective(<<>>)
    BY DEF ToSet, IsInjective
  <2>2. \A id \in Announce : cli.reqs[id].state # "pending"
    BY <1>1, <1>2, <1>3, IdIs
  <2>3. \A h \in UdpHost : cli.cache[h] # "connecting"
    BY <1>1, <1>3
  <2> QED BY <1>1, <1>3, <2>1, <2>2, <2>3 DEF Queued, Accounts
<1>5. /\ ann = [d \in Download |-> ann[d]] /\ \A d \in Download : ann[d] = InitAnnounce(d)
  BY <1>1 DEF BtAnnounceInit
<1>6. /\ watch \in [Download -> Watcher]
      /\ \A d \in Download : watch[d].req = NoAnnounce /\ watch[d].req.kind = "none"
  BY <1>1, NoAnnounceIs DEF BtAnnounceInit
<1>7. rt \in [Download -> Runtime]
  BY <1>1 DEF BtAnnounceInit, Runtime
<1>8. ASSUME NEW d \in Download
      PROVE  Pursued(Len(Tiers[d]), ann[d], watch[d], cli.reqs[Ann(d)], rt[d])
  <2>1. InPlace(ann[d], Len(Tiers[d]))
    BY <1>5, InitListIs
  <2>2. cli.reqs[Ann(d)].state = "none"
    BY <1>1, <1>2, <1>3, AnnIs
  <2> QED BY <1>6, <2>1, <2>2 DEF Pursued
<1> QED BY <1>1, <1>3, <1>4, <1>5, <1>6, <1>7, <1>8 DEF TrackersInv

\* Every step.
LEMMA NextTrackers == TrackersInv /\ [Next]_vars => TrackersInv'
<1> SUFFICES ASSUME TrackersInv, [Next]_vars PROVE TrackersInv'
  OBVIOUS
<1>1. ASSUME NEW d \in Download, WatchStep(d) PROVE TrackersInv'
  BY <1>1, WatchKeeps DEF WatchStep
<1>2. ASSUME NEW d \in Download, HttpDone(d) PROVE TrackersInv'
  BY <1>2, HttpKeeps
<1>3. ASSUME NEW d \in Download, ResolveStep(d) PROVE TrackersInv'
  BY <1>3, ResolveKeeps
<1>4. ASSUME NEW d \in Download, Due(d) PROVE TrackersInv'
  BY <1>4, DueKeeps
<1>5. CASE Halts
  BY <1>5, HaltsAre, RuntimeKeeps
<1>6. CASE PumpStep
  BY <1>6, PumpKeeps
<1>7. CASE Expire /\ UNCHANGED annVars
  BY <1>7, ExpireKeeps
<1>8. CASE UNCHANGED vars
  BY <1>8 DEF vars, TrackersInv
<1> QED BY <1>1, <1>2, <1>3, <1>4, <1>5, <1>6, <1>7, <1>8 DEF Next, Halts

\* The invariant holds in every behaviour.
LEMMA TrackersInvHolds == Spec => []TrackersInv
BY InitTrackers, NextTrackers, PTL DEF Spec

\* A request is in a queue once or not at all.
LEMMA OccursIs ==
    ASSUME NEW q \in Seq(Id), IsInjective(q), NEW id
    PROVE  Cardinality({i \in DOMAIN q : q[i] = id}) = IF id \in ToSet(q) THEN 1 ELSE 0
<1> DEFINE B == {i \in DOMAIN q : q[i] = id}
<1>1. CASE id \in ToSet(q)
  <2>1. PICK i \in DOMAIN q : q[i] = id
    BY <1>1, SeqIs
  <2>2. B = {i}
    BY <2>1 DEF IsInjective
  <2> HIDE DEF B
  <2>3. Cardinality(B) = 1
    BY <2>2, FS_Singleton
  <2> QED BY <1>1, <2>3 DEF B
<1>2. CASE id \notin ToSet(q)
  <2>1. B = {}
    BY <1>2, SeqIs
  <2> HIDE DEF B
  <2>2. Cardinality(B) = 0
    BY <2>1, FS_EmptySet
  <2> QED BY <1>2, <2>2 DEF B
<1> QED BY <1>1, <1>2

\* How often a request is in the queues.
LEMMA PlacesAre ==
    ASSUME cli \in Client, Queued(cli, {}), NEW id
    PROVE  LET P == ToSet(cli.pending)
               W == ToSet(cli.connect)
               F == ToSet(cli.inflight)
           IN  Places(id) = IF id \in P \cup W \cup F THEN 1 ELSE 0
<1>1. /\ cli.pending \in Seq(Id) /\ cli.connect \in Seq(Id) /\ cli.inflight \in Seq(Id)
  BY ClientFields
<1>2. /\ IsInjective(cli.pending) /\ IsInjective(cli.connect) /\ IsInjective(cli.inflight)
      /\ ToSet(cli.pending) \cap ToSet(cli.connect) = {}
      /\ ToSet(cli.pending) \cap ToSet(cli.inflight) = {}
      /\ ToSet(cli.connect) \cap ToSet(cli.inflight) = {}
  BY DEF Queued, Accounts
<1>3. Cardinality({i \in DOMAIN cli.pending : cli.pending[i] = id})
        = IF id \in ToSet(cli.pending) THEN 1 ELSE 0
  BY <1>1, <1>2, OccursIs
<1>4. Cardinality({i \in DOMAIN cli.connect : cli.connect[i] = id})
        = IF id \in ToSet(cli.connect) THEN 1 ELSE 0
  BY <1>1, <1>2, OccursIs
<1>5. Cardinality({i \in DOMAIN cli.inflight : cli.inflight[i] = id})
        = IF id \in ToSet(cli.inflight) THEN 1 ELSE 0
  BY <1>1, <1>2, OccursIs
<1> QED BY <1>2, <1>3, <1>4, <1>5 DEF Places

\* Whatever replies, times out, fails, is halted or completes, the client's
\* queues, connection ids and request objects stay well formed, and every
\* download's announce list points at one of its tiers and trackers, or past
\* the last tier when all have failed.
THEOREM TrackersTyped == Spec => []TypeOK
<1>1. TrackersInv => TypeOK
  <2> SUFFICES ASSUME TrackersInv PROVE TypeOK
    OBVIOUS
  <2>1. cli \in Client /\ pump \in BOOLEAN
    BY DEF TrackersInv
  <2>2. IsClient(cli)
    BY <2>1, ClientFields DEF IsClient, IdState
  <2>3. ASSUME NEW d \in Download
        PROVE  /\ \A t \in DOMAIN ann[d].tiers : ann[d].tiers[t].event \in Event
               /\ ann[d].tier \in 1 .. Len(ann[d].tiers) + 1
               /\ ann[d].trackers \in 0 .. 1
               /\ ~allTiersFailed(ann[d]) =>
                     ann[d].url \in DOMAIN ann[d].tiers[ann[d].tier].urls
    <3> DEFINE n == Len(Tiers[d])
               a == ann[d]
    <3>1. n \in Nat /\ InPlace(a, n)
      BY DownloadIs
    <3>2. /\ DOMAIN a.tiers = 1 .. n /\ \A t \in 1 .. n : a.tiers[t].event \in Event
          /\ a.trackers \in 0 .. 1 /\ (allTiersFailed(a) <=> ~(a.tier <= n))
          /\ a.tier <= n <=> a.tier \in 1 .. n
      BY <3>1, ListIs
    <3>3. \A t \in 1 .. n : DOMAIN a.tiers[t].urls = 1 .. Len(a.tiers[t].urls)
      BY <3>1, ListIs, SeqIs
    <3> QED BY <3>1, <3>2, <3>3 DEF InPlace
  <2> QED BY <2>1, <2>2, <2>3 DEF TypeOK
<1> QED BY <1>1, TrackersInvHolds, PTL

\* As long as the pump lives, an announce that is not complete is in exactly
\* one queue of the UDP client and a complete one in none, and whoever waits
\* for a connection id waits for a CONNECT that is under way: for any number
\* of downloads and hosts, any replies, timeouts and failed sends.
THEOREM RequestsCorrect == Spec => []RequestsAccountedFor
<1>1. TrackersInv => RequestsAccountedFor
  <2> SUFFICES ASSUME TrackersInv, pump
               PROVE  /\ \A id \in Announce : Places(id) = IF cli.reqs[id].state = "pending" THEN 1 ELSE 0
                      /\ \A id \in ToSet(cli.connect) : LET h == cli.reqs[id].host
                                                        IN  /\ cli.cache[h] = "connecting"
                                                            /\ Places(<<"connect", h>>) = 1
    BY DEF RequestsAccountedFor, RequestInOneQueue, WaitersAreConnecting
  <2>1. cli \in Client /\ Queued(cli, {})
    BY DEF TrackersInv
  <2> DEFINE P == ToSet(cli.pending)
             W == ToSet(cli.connect)
             F == ToSet(cli.inflight)
  <2>2. \A id : Places(id) = IF id \in P \cup W \cup F THEN 1 ELSE 0
    BY <2>1, PlacesAre
  <2>3. Accounts(P, W, F, cli.cache, cli.reqs, {})
    BY <2>1 DEF Queued
  <2> HIDE DEF P, W, F
  <2>4. ASSUME NEW id \in Announce PROVE Places(id) = IF cli.reqs[id].state = "pending" THEN 1 ELSE 0
    BY <2>2, <2>3 DEF Accounts
  <2>5. ASSUME NEW id \in W
        PROVE  cli.cache[cli.reqs[id].host] = "connecting" /\ Places(Con(cli.reqs[id].host)) = 1
    <3>1. PICK h : h = cli.reqs[id].host
      OBVIOUS
    <3>2. h \in UdpHost /\ cli.cache[h] = "connecting"
      BY <2>3, <3>1 DEF Accounts
    <3>3. Con(h) \in P \cup F
      BY <2>3, <3>2 DEF Accounts
    <3> QED BY <2>2, <3>1, <3>2, <3>3
  <2> QED BY <2>4, <2>5 DEF W, Con
<1> QED BY <1>1, TrackersInvHolds, PTL

(***************************************************************************)
(* The events.                                                             *)
(***************************************************************************)
\* Every URI of a tracker parses.
AllParse == Tracker \cap Unparsable = {}

\* A tier with event e has acknowledged the events of K.
Told(e, K) ==
    /\ e \in {"STARTED", "STARTED_AFTER_COMPLETION"} => K \cap {"started", "completed", "stopped"} = {}
    /\ e \notin {"STARTED", "STARTED_AFTER_COMPLETION"} => "started" \in K
    /\ e \in {"DOWNLOADING", "COMPLETED"} => "completed" \notin K
    /\ e # "HALTED" => "stopped" \notin K

\* So has every one of the n tiers of list a of a download in state R, and
\* only one that is halted tells its tiers so.
Informed(a, n, R, K) ==
    \A t \in 1 .. n : /\ Told(a.tiers[t].event, K[t])
                      /\ a.tiers[t].event \in {"STOPPED", "HALTED"} => R.halt

\* Request q is the one for the tier and the event of the list.
Asks(a, q) ==
    q.kind # "none" => /\ q.tier = a.tier /\ a.tiers[a.tier].event # "HALTED"
                       /\ q.event = EventString(a.tiers[a.tier].event)

EventsInv ==
    /\ acked = [d \in Download |-> acked[d]]
    /\ \A d \in Download : /\ acked[d] \in [1 .. Len(Tiers[d]) -> SUBSET Said]
                           /\ Informed(ann[d], Len(Tiers[d]), rt[d], acked[d])
                           /\ Asks(ann[d], watch[d].req)

\* How the event of a tier goes on: it is set by adjustAnnounceList, moved on
\* by a failure, or by the answer that acknowledges it.
LEMMA ToldIs ==
    ASSUME NEW e \in Event, NEW K, Told(e, K)
    PROVE  /\ e \in Stoppable => Told("STOPPED", K)
           /\ e \in Completable => Told("COMPLETED", K)
           /\ e = "STARTED" => Told("STARTED_AFTER_COMPLETION", K)
           /\ Told(nextEventIfAfterStarted(e), K)
           /\ Told(nextEvent(e), K \cup {EventString(e)})
<1>1. e \in Stoppable => Told("STOPPED", K)
  BY DEF Told, Stoppable
<1>2. e \in Completable => Told("COMPLETED", K)
  BY DEF Told, Completable
<1>3. e = "STARTED" => Told("STARTED_AFTER_COMPLETION", K)
  BY DEF Told
<1>4. Told(nextEventIfAfterStarted(e), K)
  BY DEF Told, nextEventIfAfterStarted, nextEvent
<1>5. Told(nextEvent(e), K \cup {EventString(e)})
  BY DEF Told, nextEvent, EventString, Event
<1> QED BY <1>1, <1>2, <1>3, <1>4, <1>5

\* Only events of a halted download follow those of a halted download.
LEMMA HaltedIs ==
    ASSUME NEW e \in Event
    PROVE  /\ nextEvent(e) \in {"STOPPED", "HALTED"} => e \in {"STOPPED", "HALTED"}
           /\ nextEventIfAfterStarted(e) \in {"STOPPED", "HALTED"} => e \in {"STOPPED", "HALTED"}
BY DEF nextEvent, nextEventIfAfterStarted, Event

\* adjustAnnounceList.
LEMMA AdjustTells ==
    ASSUME NEW n \in Nat, NEW a, InPlace(a, n), a.tier <= n, NEW R, NEW K, Informed(a, n, R, K)
    PROVE  Informed(adjustAnnounceList(a, R), n, R, K)
<1>1. PICK x, e, y :
        /\ x = adjustAnnounceList(a, R) /\ e = a.tiers[x.tier].event /\ y = x.tiers[x.tier].event
        /\ InPlace(x, n) /\ x.tier <= n
        /\ Differs(a, x, n, x.tier, y)
        /\ \/ isStoppedAnnounceReady(a, R) /\ e \in Stoppable /\ y = "STOPPED"
           \/ e \in Completable /\ y = "COMPLETED"
           \/ y = e
           \/ e = "STARTED" /\ y = "STARTED_AFTER_COMPLETION"
  BY AdjustIs
<1>2. PICK t \in 1 .. n : t = x.tier
  BY <1>1 DEF Differs
<1>3. e \in Event /\ Told(e, K[t]) /\ (e \in {"STOPPED", "HALTED"} => R.halt)
  BY <1>1, <1>2, ListIs DEF Informed
<1>4. Told(y, K[t])
  BY <1>1, <1>3, ToldIs
<1>5. y \in {"STOPPED", "HALTED"} => R.halt
  BY <1>1, <1>3 DEF isStoppedAnnounceReady
<1>6. \A j \in 1 .. n : j # t => x.tiers[j].event = a.tiers[j].event
  BY <1>1, <1>2 DEF Differs
<1>7. x.tiers[t].event = y
  BY <1>1, <1>2
<1>8. ASSUME NEW j \in 1 .. n
      PROVE  Told(x.tiers[j].event, K[j]) /\ (x.tiers[j].event \in {"STOPPED", "HALTED"} => R.halt)
  <2>1. CASE j = t
    BY <1>4, <1>5, <1>7, <2>1
  <2>2. CASE j # t
    BY <1>6, <2>2 DEF Informed
  <2> QED BY <2>1, <2>2
<1> QED BY <1>1, <1>8 DEF Informed

\* A list from which a halted download may still say that it stops.
MayStop(a, n, R) == R.halt /\ a.trackers = 0 => \E t \in 1 .. n : a.tiers[t].event \in Stoppable

\* A round of the loop of createAnnounce: what it is about to send is not for
\* a tier that has been told the download stops.
LEMMA PassTells ==
    ASSUME AllParse, NEW n \in Nat, NEW a, InPlace(a, n), NEW R, NEW K, Informed(a, n, R, K),
           MayStop(a, n, R)
    PROVE  LET x == PassOver(a, R)
           IN  /\ Informed(x, n, R, K) /\ MayStop(x, n, R)
               /\ ~allTiersFailed(x) /\ isAnnounceReady(x, R) => x.tiers[x.tier].event # "HALTED"
<1>1. CASE allTiersFailed(a) \/ ~isAnnounceReady(a, R)
  BY <1>1 DEF PassOver
<1>2. CASE ~(allTiersFailed(a) \/ ~isAnnounceReady(a, R))
  <2>1. a.tier <= n
    BY <1>2, ListIs
  <2>2. PICK x : x = adjustAnnounceList(a, R)
    OBVIOUS
  <2>3. /\ InPlace(x, n) /\ x.tier <= n /\ x.trackers = a.trackers
        /\ isStoppedAnnounceReady(a, R) => x.tiers[x.tier].event = "STOPPED"
    BY <2>1, <2>2, AdjustIs
  <2>4. Informed(x, n, R, K)
    BY <2>1, <2>2, AdjustTells
  <2>5. x.tier \in 1 .. n
    BY <2>3, ListIs
  <2>6. CurrentUrl(x) \notin Unparsable
    <3>1. x.url \in 1 .. Len(x.tiers[x.tier].urls) /\ x.tiers[x.tier].urls \in Seq(Tracker)
      BY <2>3, <2>5, ListIs DEF InPlace
    <3>2. CurrentUrl(x) \in Tracker
      BY <3>1, SeqIs DEF CurrentUrl
    <3> QED BY <3>2 DEF AllParse
  <2>7. PassOver(a, R) = x
    BY <1>2, <2>2, <2>6 DEF PassOver
  <2>8. R.halt => isStoppedAnnounceReady(a, R)
    <3>1. AnyTier(a, StoppedAllowed) <=> \E t \in 1 .. n : a.tiers[t].event \in Stoppable
      BY AnyTierIs
    <3>2. a.trackers = 0
      BY <1>2 DEF isAnnounceReady, isStoppedAnnounceReady, isCompletedAnnounceReady,
                  isDefaultAnnounceReady
    <3> QED BY <3>1, <3>2 DEF MayStop, isStoppedAnnounceReady
  <2>9. R.halt => x.tiers[x.tier].event = "STOPPED"
    BY <2>3, <2>8
  <2>10. MayStop(x, n, R)
    BY <2>5, <2>9 DEF MayStop, Stoppable
  <2>11. x.tiers[x.tier].event # "HALTED"
    BY <2>4, <2>5, <2>9 DEF Informed
  <2> QED BY <2>4, <2>7, <2>10, <2>11
<1> QED BY <1>1, <1>2

\* The loop.
LEMMA SkipTells ==
    ASSUME AllParse, NEW n \in Nat, NEW a, InPlace(a, n), NEW R, NEW K, Informed(a, n, R, K),
           MayStop(a, n, R), NEW x \in SkipUnparsable(a, R)
    PROVE  /\ Informed(x, n, R, K)
           /\ ~allTiersFailed(x) /\ isAnnounceReady(x, R) => x.tiers[x.tier].event # "HALTED"
<1> DEFINE D == {b \in AnnounceList : InPlace(b, n) /\ Informed(b, n, R, K) /\ MayStop(b, n, R)}
<1>1. a \in D
  BY DEF InPlace
<1>2. ASSUME NEW b \in D
      PROVE  /\ PassOver(b, R) \in D
             /\ Informed(PassOver(b, R), n, R, K)
             /\ ~allTiersFailed(PassOver(b, R)) /\ isAnnounceReady(PassOver(b, R), R) =>
                  PassOver(b, R).tiers[PassOver(b, R).tier].event # "HALTED"
  <2>1. InPlace(PassOver(b, R), n)
    BY PassInPlace
  <2>2. PassOver(b, R) \in AnnounceList
    BY <2>1 DEF InPlace
  <2>3. /\ Informed(PassOver(b, R), n, R, K) /\ MayStop(PassOver(b, R), n, R)
        /\ ~allTiersFailed(PassOver(b, R)) /\ isAnnounceReady(PassOver(b, R), R) =>
             PassOver(b, R).tiers[PassOver(b, R).tier].event # "HALTED"
    BY PassTells
  <2> QED BY <2>1, <2>2, <2>3
<1> HIDE DEF D
<1>3. \E b \in D : x = PassOver(b, R)
  BY <1>1, <1>2, SkipIs
<1> QED BY <1>2, <1>3

\* A step of one download.
LEMMA OneInformed ==
    ASSUME EventsInv, NEW d \in Download, acked' = [e \in Download |-> acked'[e]],
           \A e \in Download : e # d => /\ ann'[e] = ann[e] /\ watch'[e] = watch[e]
                                        /\ acked'[e] = acked[e] /\ rt'[e] = rt[e],
           acked'[d] \in [1 .. Len(Tiers[d]) -> SUBSET Said],
           Informed(ann'[d], Len(Tiers[d]), rt'[d], acked'[d]),
           Asks(ann'[d], watch'[d].req)
    PROVE  EventsInv'
<1>1. ASSUME NEW e \in Download
      PROVE  /\ acked'[e] \in [1 .. Len(Tiers[e]) -> SUBSET Said]
             /\ Informed(ann'[e], Len(Tiers[e]), rt'[e], acked'[e])
             /\ Asks(ann'[e], watch'[e].req)
  <2>1. CASE e = d
    BY <2>1
  <2>2. CASE e # d
    BY <2>2 DEF EventsInv
  <2> QED BY <2>1, <2>2
<1> QED BY <1>1 DEF EventsInv

\* What the invariant says of a download, for its watcher's steps.
LEMMA InformedIs ==
    ASSUME TrackersInv, EventsInv, NEW d \in Download
    PROVE  /\ acked = [e \in Download |-> acked[e]] /\ acked = [acked EXCEPT ![d] = acked[d]]
           /\ acked[d] \in [1 .. Len(Tiers[d]) -> SUBSET Said]
           /\ Informed(ann[d], Len(Tiers[d]), rt[d], acked[d]) /\ Asks(ann[d], watch[d].req)
           /\ \A x : /\ [ann EXCEPT ![d] = x][d] = x
                     /\ \A e \in Download : e # d => [ann EXCEPT ![d] = x][e] = ann[e]
           /\ \A x : /\ [watch EXCEPT ![d] = x][d] = x
                     /\ \A e \in Download : e # d => [watch EXCEPT ![d] = x][e] = watch[e]
<1>1. acked = [e \in Download |-> acked[e]] /\ ann = [e \in Download |-> ann[e]]
      /\ watch = [e \in Download |-> watch[e]]
  BY DEF TrackersInv, EventsInv
<1>2. acked = [acked EXCEPT ![d] = acked[d]]
  BY <1>1
<1>3. \A x : /\ [ann EXCEPT ![d] = x][d] = x
             /\ \A e \in Download : e # d => [ann EXCEPT ![d] = x][e] = ann[e]
  BY <1>1
<1>4. \A x : /\ [watch EXCEPT ![d] = x][d] = x
             /\ \A e \in Download : e # d => [watch EXCEPT ![d] = x][e] = watch[e]
  BY <1>1
<1> QED BY <1>1, <1>2, <1>3, <1>4 DEF EventsInv

\* createAnnounce.
LEMMA CreateTells ==
    ASSUME AllParse, TrackersInv, EventsInv, NEW d \in Download, watch[d].req = NoAnnounce,
           ~noMoreAnnounce(ann[d], rt[d]), Create(d), rt' = rt, acked' = acked
    PROVE  EventsInv'
<1> DEFINE n == Len(Tiers[d])
           a == ann[d]
           w == watch[d]
           R == rt[d]
           K == acked[d]
<1>0. n \in Nat /\ InPlace(a, n) /\ w \in Watcher
  BY DownloadIs
<1>1. /\ K \in [1 .. n -> SUBSET Said] /\ Informed(a, n, R, K) /\ acked = [e \in Download |-> acked[e]]
      /\ \A x : /\ [ann EXCEPT ![d] = x][d] = x
                /\ \A e \in Download : e # d => [ann EXCEPT ![d] = x][e] = ann[e]
      /\ \A x : /\ [watch EXCEPT ![d] = x][d] = x
                /\ \A e \in Download : e # d => [watch EXCEPT ![d] = x][e] = watch[e]
  BY InformedIs
<1>2. PICK b \in SkipUnparsable(a, R) :
        LET url == CurrentUrl(b)
            udp == url \in UdpHost
        IN  IF ~allTiersFailed(b) /\ isAnnounceReady(b, R)
            THEN /\ ann' = [ann EXCEPT ![d] = announceStart(b)]
                 /\ watch' = [watch EXCEPT ![d].req =
                      [kind |-> IF udp THEN "udp" ELSE "http", tier |-> b.tier,
                       event |-> EventString(b.tiers[b.tier].event),
                       url |-> url, state |-> "open"]]
            ELSE /\ ann' = [ann EXCEPT ![d] = IF allTiersFailed(b) THEN resetAnnounce(b) ELSE b]
                 /\ watch' = [watch EXCEPT ![d].alive = ~noMoreAnnounce(ann'[d], R)]
  BY DEF Create
<1>3. MayStop(a, n, R)
  <2>1. AnyTier(a, StoppedAllowed) <=> \E t \in 1 .. n : a.tiers[t].event \in Stoppable
    BY <1>0, AnyTierIs
  <2> QED BY <2>1 DEF MayStop, noMoreAnnounce
<1>4. /\ InPlace(b, n) /\ Informed(b, n, R, K)
      /\ ~allTiersFailed(b) /\ isAnnounceReady(b, R) => b.tiers[b.tier].event # "HALTED"
  BY <1>0, <1>1, <1>3, SkipInPlace, SkipTells
<1> HIDE DEF a, R, n
<1>5. CASE ~allTiersFailed(b) /\ isAnnounceReady(b, R)
  <2> DEFINE url == CurrentUrl(b)
             q == [kind |-> IF url \in UdpHost THEN "udp" ELSE "http", tier |-> b.tier,
                   event |-> EventString(b.tiers[b.tier].event), url |-> url, state |-> "open"]
             x == announceStart(b)
             y == [w EXCEPT !.req = q]
  <2>1. ann' = [ann EXCEPT ![d] = x] /\ watch' = [watch EXCEPT ![d].req = q]
    BY <1>2, <1>5
  <2>2. watch' = [watch EXCEPT ![d] = y]
    BY <2>1 DEF TrackersInv
  <2>3. q.tier = b.tier /\ q.event = EventString(b.tiers[b.tier].event)
    OBVIOUS
  <2>4. y.req = q
    BY <1>0 DEF Watcher
  <2>5. x.tiers = b.tiers /\ x.tier = b.tier
    BY <1>4 DEF announceStart, InPlace, AnnounceList
  <2> HIDE DEF q, x, y
  <2>6. Informed(x, n, R, K)
    BY <1>4, <2>5 DEF Informed
  <2>7. Asks(x, q)
    BY <1>4, <1>5, <2>3, <2>5 DEF Asks
  <2>8. /\ ann'[d] = x /\ \A e \in Download : e # d => ann'[e] = ann[e]
        /\ watch'[d] = y /\ \A e \in Download : e # d => watch'[e] = watch[e]
    BY <1>1, <2>1, <2>2
  <2> QED BY <1>1, <2>4, <2>6, <2>7, <2>8, OneInformed DEF n, R
<1>6. CASE ~(~allTiersFailed(b) /\ isAnnounceReady(b, R))
  <2> DEFINE x == IF allTiersFailed(b) THEN resetAnnounce(b) ELSE b
             f == ~noMoreAnnounce(ann'[d], R)
             y == [w EXCEPT !.alive = f]
  <2>1. ann' = [ann EXCEPT ![d] = x] /\ watch' = [watch EXCEPT ![d].alive = f]
    BY <1>2, <1>6
  <2>2. watch' = [watch EXCEPT ![d] = y]
    BY <2>1 DEF TrackersInv
  <2>3. x.tiers = b.tiers
    BY <1>0, <1>4, ResetIs
  <2> HIDE DEF f, x
  <2>4. y.req = NoAnnounce
    BY <1>0 DEF Watcher
  <2> HIDE DEF y
  <2>5. Informed(x, n, R, K)
    BY <1>4, <2>3 DEF Informed
  <2>6. Asks(x, y.req)
    BY <2>4, NoAnnounceIs DEF Asks
  <2>7. /\ ann'[d] = x /\ \A e \in Download : e # d => ann'[e] = ann[e]
        /\ watch'[d] = y /\ \A e \in Download : e # d => watch'[e] = watch[e]
    <3>1. ann'[d] = x /\ \A e \in Download : e # d => ann'[e] = ann[e]
      BY <1>1, <2>1
    <3>2. watch'[d] = y /\ \A e \in Download : e # d => watch'[e] = watch[e]
      BY <1>1, <2>2
    <3> QED BY <3>1, <3>2
  <2> QED BY <1>1, <2>5, <2>6, <2>7, OneInformed DEF n, R
<1> QED BY <1>5, <1>6

\* The announce is over.
LEMMA FinishTells ==
    ASSUME TrackersInv, EventsInv, NEW d \in Download, NEW proper, watch[d].req # NoAnnounce,
           Finish(d, proper), rt' = rt
    PROVE  EventsInv'
<1> DEFINE n == Len(Tiers[d])
           a == ann[d]
           w == watch[d]
           R == rt[d]
           K == acked[d]
           q == w.req
           t == a.tier
           good == /\ RequestState(d) = "ok"
                   /\ w.req.kind = "udp" \/ w.req.url \in Reliable \/ proper
           x == IF good THEN resetAnnounce(announceSuccess(a)) ELSE failedAnnounce(a)
           y == [alive |-> ~noMoreAnnounce(x, R), req |-> NoAnnounce]
<1>0. n \in Nat /\ InPlace(a, n) /\ w \in Watcher /\ Pursued(n, a, w, cli.reqs[Ann(d)], R)
  BY DownloadIs
<1>1. /\ K \in [1 .. n -> SUBSET Said] /\ Informed(a, n, R, K) /\ acked = [e \in Download |-> acked[e]]
      /\ \A z : /\ [ann EXCEPT ![d] = z][d] = z
                /\ \A e \in Download : e # d => [ann EXCEPT ![d] = z][e] = ann[e]
      /\ \A z : /\ [watch EXCEPT ![d] = z][d] = z
                /\ \A e \in Download : e # d => [watch EXCEPT ![d] = z][e] = watch[e]
      /\ Asks(a, q)
  BY InformedIs
<1>2. /\ ann' = [ann EXCEPT ![d] = x] /\ watch' = [watch EXCEPT ![d] = y]
      /\ acked' = IF good THEN [acked EXCEPT ![d][q.tier] = @ \cup {q.event}] ELSE acked
  BY DEF Finish
<1>3. q.kind # "none"
  BY <1>0 DEF Pursued
<1>4. t <= n /\ t \in 1 .. n /\ q.tier = t /\ q.event = EventString(a.tiers[t].event)
  BY <1>0, <1>1, <1>3, ListIs DEF Pursued, Asks
<1>5. \A j \in 1 .. n : a.tiers[j].event \in Event
  BY <1>0, ListIs
<1>6. y.req = NoAnnounce
  OBVIOUS
<1>7. Asks(x, y.req)
  BY <1>6, NoAnnounceIs DEF Asks
<1>8. CASE good
  <2> DEFINE L == [K EXCEPT ![t] = @ \cup {q.event}]
  <2>1. acked' = [acked EXCEPT ![d] = L]
    BY <1>1, <1>2, <1>4, <1>8
  <2>2. q.event \in Said
    BY <1>4, EventStringIs
  <2>3. /\ L \in [1 .. n -> SUBSET Said] /\ L[t] = K[t] \cup {q.event}
        /\ \A j \in 1 .. n : j # t => L[j] = K[j]
    BY <1>1, <1>4, <2>2
  <2>4. Differs(a, x, n, t, nextEvent(a.tiers[t].event))
    BY <1>0, <1>4, <1>8, SuccessIs
  <2> HIDE DEF L, x, y
  <2>5. ASSUME NEW j \in 1 .. n
        PROVE  Told(x.tiers[j].event, L[j]) /\ (x.tiers[j].event \in {"STOPPED", "HALTED"} => R.halt)
    <3>1. Told(a.tiers[j].event, K[j]) /\ (a.tiers[j].event \in {"STOPPED", "HALTED"} => R.halt)
      BY <1>1 DEF Informed
    <3>2. CASE j = t
      <4>1. x.tiers[j].event = nextEvent(a.tiers[j].event)
            /\ L[j] = K[j] \cup {EventString(a.tiers[j].event)}
        BY <1>4, <2>3, <2>4, <3>2 DEF Differs
      <4> QED BY <1>5, <3>1, <4>1, ToldIs, HaltedIs
    <3>3. CASE j # t
      BY <2>3, <2>4, <3>1, <3>3 DEF Differs
    <3> QED BY <3>2, <3>3
  <2>6. Informed(x, n, R, L)
    BY <2>5 DEF Informed
  <2>7. /\ ann'[d] = x /\ \A e \in Download : e # d => ann'[e] = ann[e]
        /\ watch'[d] = y /\ \A e \in Download : e # d => watch'[e] = watch[e]
        /\ acked' = [e \in Download |-> acked'[e]] /\ acked'[d] = L
        /\ \A e \in Download : e # d => acked'[e] = acked[e]
    BY <1>1, <1>2, <2>1
  <2> HIDE DEF a, w, K, R, n, t, q, good
  <2> QED BY <1>7, <2>3, <2>6, <2>7, OneInformed DEF n, R
<1>9. CASE ~good
  <2>1. acked' = acked
    BY <1>2, <1>9
  <2>2. PICK z : /\ z = announceFailure(a) /\ x.tiers = z.tiers
                 /\ \A j \in 1 .. n : \/ z.tiers[j].event = a.tiers[j].event
                                      \/ z.tiers[j].event = nextEventIfAfterStarted(a.tiers[j].event)
    BY <1>0, <1>9, FailureIs
  <2> HIDE DEF x, y
  <2>3. ASSUME NEW j \in 1 .. n
        PROVE  Told(x.tiers[j].event, K[j]) /\ (x.tiers[j].event \in {"STOPPED", "HALTED"} => R.halt)
    <3>1. Told(a.tiers[j].event, K[j]) /\ (a.tiers[j].event \in {"STOPPED", "HALTED"} => R.halt)
      BY <1>1 DEF Informed
    <3>2. /\ Told(nextEventIfAfterStarted(a.tiers[j].event), K[j])
          /\ nextEventIfAfterStarted(a.tiers[j].event) \in {"STOPPED", "HALTED"} => R.halt
      BY <1>5, <3>1, ToldIs, HaltedIs
    <3> QED BY <2>2, <3>1, <3>2
  <2>4. Informed(x, n, R, K)
    BY <2>3 DEF Informed
  <2>5. /\ ann'[d] = x /\ \A e \in Download : e # d => ann'[e] = ann[e]
        /\ watch'[d] = y /\ \A e \in Download : e # d => watch'[e] = watch[e]
    BY <1>1, <1>2
  <2> HIDE DEF a, w, R, n, t, q, good
  <2> QED BY <1>1, <1>7, <2>1, <2>4, <2>5, OneInformed DEF n, R
<1> QED BY <1>8, <1>9

\* The list is as it was but for the announce interval, and the request is
\* gone or has another state.
LEMMA SameRequest ==
    ASSUME TrackersInv, EventsInv, NEW d \in Download, acked' = acked, rt' = rt,
           NEW x, x.tiers = ann[d].tiers, x.tier = ann[d].tier, ann' = [ann EXCEPT ![d] = x],
           NEW y, watch' = [watch EXCEPT ![d] = y],
           \/ y.req = NoAnnounce
           \/ /\ y.req.tier = watch[d].req.tier /\ y.req.event = watch[d].req.event
              /\ watch[d].req.kind # "none"
           \/ y.req = watch[d].req
    PROVE  EventsInv'
<1>1. /\ acked[d] \in [1 .. Len(Tiers[d]) -> SUBSET Said] /\ acked = [e \in Download |-> acked[e]]
      /\ Informed(ann[d], Len(Tiers[d]), rt[d], acked[d]) /\ Asks(ann[d], watch[d].req)
  BY InformedIs
<1>2. ann = [e \in Download |-> ann[e]] /\ watch = [e \in Download |-> watch[e]]
  BY DEF TrackersInv
<1>3. ann'[d] = x /\ \A e \in Download : e # d => ann'[e] = ann[e]
  BY <1>2
<1>4. watch'[d] = y /\ \A e \in Download : e # d => watch'[e] = watch[e]
  BY <1>2
<1>5. Informed(x, Len(Tiers[d]), rt[d], acked[d])
  BY <1>1 DEF Informed
<1>6. Asks(x, y.req)
  BY <1>1, NoAnnounceIs DEF Asks
<1> QED BY <1>1, <1>3, <1>4, <1>5, <1>6, OneInformed

\* TrackerWatcherCommand::execute.
LEMMA WatchTells ==
    ASSUME AllParse, TrackersInv, EventsInv, NEW d \in Download, NEW proper, Watch(d, proper)
    PROVE  EventsInv'
<1> DEFINE a == ann[d]
           w == watch[d]
           R == rt[d]
           q == w.req
<1>0. /\ w \in Watcher /\ w.req \in WatchedReq
      /\ ann = [ann EXCEPT ![d] = a] /\ watch = [watch EXCEPT ![d] = w]
  BY DownloadIs, WatcherIs
<1>1. rt' = rt
  BY DEF Watch
<1>2. CASE R.force /\ Stopped(d)
  <2> DEFINE y == [alive |-> FALSE, req |-> NoAnnounce]
  <2>1. ann' = [ann EXCEPT ![d] = a] /\ watch' = [watch EXCEPT ![d] = y] /\ acked' = acked
    BY <1>0, <1>2 DEF Watch
  <2>2. y.req = NoAnnounce
    OBVIOUS
  <2> HIDE DEF y
  <2> QED BY <1>1, <2>1, <2>2, SameRequest
<1>3. CASE R.force /\ ~Stopped(d)
  <2> DEFINE v == IF q.kind = "udp" THEN [q EXCEPT !.kind = "gone", !.state = "dropped"]
                  ELSE [q EXCEPT !.state = "stopping"]
             y == [w EXCEPT !.req = v]
  <2>1. ann' = [ann EXCEPT ![d] = a] /\ watch' = [watch EXCEPT ![d].req = v] /\ acked' = acked
    BY <1>0, <1>3 DEF Watch
  <2>2. q.kind \in {"http", "udp"}
    BY <1>3, UnderWay
  <2>3. v.tier = q.tier /\ v.event = q.event
    BY <1>0 DEF WatchedReq
  <2>4. watch' = [watch EXCEPT ![d] = y]
    BY <2>1 DEF TrackersInv
  <2> HIDE DEF v
  <2>5. y.req = v
    BY <1>0 DEF Watcher
  <2> HIDE DEF y
  <2>6. y.req.tier = watch[d].req.tier /\ y.req.event = watch[d].req.event
        /\ watch[d].req.kind # "none"
    BY <2>2, <2>3, <2>5
  <2> QED BY <1>1, <2>1, <2>4, <2>6, SameRequest
<1>4. CASE ~R.force /\ noMoreAnnounce(a, R)
  <2> DEFINE y == [w EXCEPT !.alive = FALSE]
  <2>1. ann' = [ann EXCEPT ![d] = a] /\ watch' = [watch EXCEPT ![d].alive = FALSE] /\ acked' = acked
    BY <1>0, <1>4 DEF Watch
  <2>2. watch' = [watch EXCEPT ![d] = y]
    BY <2>1 DEF TrackersInv
  <2>3. y.req = w.req
    BY <1>0 DEF Watcher
  <2> HIDE DEF y
  <2> QED BY <1>1, <2>1, <2>2, <2>3, SameRequest
<1>5. CASE ~R.force /\ ~noMoreAnnounce(a, R) /\ q = NoAnnounce
  <2>1. Create(d) /\ acked' = acked
    BY <1>5 DEF Watch
  <2> QED BY <1>1, <1>5, <2>1, CreateTells
<1>6. CASE ~R.force /\ ~noMoreAnnounce(a, R) /\ q # NoAnnounce /\ Stopped(d)
  <2>1. Finish(d, proper)
    BY <1>6 DEF Watch
  <2> QED BY <1>1, <1>6, <2>1, FinishTells
<1>7. CASE ~R.force /\ ~noMoreAnnounce(a, R) /\ q # NoAnnounce /\ ~Stopped(d)
  <2>1. UNCHANGED <<acked, ann, watch, rt>>
    BY <1>1, <1>7 DEF Watch
  <2> QED BY <2>1 DEF EventsInv
<1> QED BY <1>2, <1>3, <1>4, <1>5, <1>6, <1>7

\* The initial states.
LEMMA InitEvents == Init => EventsInv
<1> SUFFICES ASSUME Init PROVE EventsInv
  OBVIOUS
<1>1. BtAnnounceInit
  BY DEF Init
<1>2. ASSUME NEW d \in Download
      PROVE  /\ acked[d] \in [1 .. Len(Tiers[d]) -> SUBSET Said]
             /\ Informed(ann[d], Len(Tiers[d]), rt[d], acked[d])
             /\ Asks(ann[d], watch[d].req)
  <2>1. DOMAIN Tiers[d] = 1 .. Len(Tiers[d])
    <3>1. Tiers[d] \in Seq(Seq(Tracker) \ {<<>>})
      BY BtAnnounceAssumption
    <3> QED BY <3>1
  <2>2. /\ acked[d] \in [1 .. Len(Tiers[d]) -> SUBSET Said]
        /\ \A t \in 1 .. Len(Tiers[d]) : acked[d][t] = {}
    BY <1>1, <2>1 DEF BtAnnounceInit
  <2>3. ann[d] = InitAnnounce(d) /\ watch[d].req = NoAnnounce
    BY <1>1 DEF BtAnnounceInit
  <2>4. \A t \in 1 .. Len(Tiers[d]) : ann[d].tiers[t].event = "STARTED"
    BY <2>3, InitListIs
  <2>5. Informed(ann[d], Len(Tiers[d]), rt[d], acked[d])
    BY <2>2, <2>4 DEF Informed, Told
  <2>6. Asks(ann[d], watch[d].req)
    BY <2>3, NoAnnounceIs DEF Asks
  <2> QED BY <2>2, <2>5, <2>6
<1>3. acked = [d \in Download |-> acked[d]]
  BY <1>1 DEF BtAnnounceInit
<1> QED BY <1>2, <1>3 DEF EventsInv

\* Every step.
LEMMA NextEvents == AllParse /\ TrackersInv /\ EventsInv /\ [Next]_vars => EventsInv'
<1> SUFFICES ASSUME AllParse, TrackersInv, EventsInv, [Next]_vars PROVE EventsInv'
  OBVIOUS
<1>1. ASSUME NEW d \in Download, WatchStep(d) PROVE EventsInv'
  BY <1>1, WatchTells DEF WatchStep
<1>2. ASSUME NEW d \in Download, HttpDone(d) PROVE EventsInv'
  <2> DEFINE w == watch[d]
             q == w.req
  <2>1. w \in Watcher /\ q \in WatchedReq /\ ann = [ann EXCEPT ![d] = ann[d]]
    BY DownloadIs, WatcherIs
  <2>2. PICK ok \in BOOLEAN : watch' = [watch EXCEPT ![d].req.state = IF ok THEN "ok" ELSE "error"]
    BY <1>2 DEF HttpDone
  <2> DEFINE v == [q EXCEPT !.state = IF ok THEN "ok" ELSE "error"]
             y == [w EXCEPT !.req = v]
  <2>3. watch' = [watch EXCEPT ![d] = y]
    BY <2>2 DEF TrackersInv
  <2>4. v.tier = q.tier /\ v.event = q.event
    BY <2>1 DEF WatchedReq
  <2> HIDE DEF v
  <2>5. y.req = v
    BY <2>1 DEF Watcher
  <2> HIDE DEF y
  <2>6. y.req.tier = watch[d].req.tier /\ y.req.event = watch[d].req.event
        /\ watch[d].req.kind # "none"
    BY <1>2, <2>4, <2>5 DEF HttpDone
  <2>7. ann' = [ann EXCEPT ![d] = ann[d]] /\ acked' = acked /\ rt' = rt
    BY <1>2, <2>1 DEF HttpDone
  <2> QED BY <2>3, <2>6, <2>7, SameRequest
<1>3. ASSUME NEW d \in Download, Due(d) PROVE EventsInv'
  <2> DEFINE x == [ann[d] EXCEPT !.due = TRUE]
  <2>1. ann' = [ann EXCEPT ![d].due = TRUE] /\ UNCHANGED <<watch, acked, rt>>
    BY <1>3 DEF Due
  <2>2. ann' = [ann EXCEPT ![d] = x]
    BY <2>1 DEF TrackersInv
  <2>3. Len(Tiers[d]) \in Nat /\ InPlace(ann[d], Len(Tiers[d])) /\ watch = [watch EXCEPT ![d] = watch[d]]
    BY DownloadIs
  <2>4. x.tiers = ann[d].tiers /\ x.tier = ann[d].tier
    BY <2>3, DueIs
  <2>5. watch' = [watch EXCEPT ![d] = watch[d]] /\ acked' = acked /\ rt' = rt
    BY <2>1, <2>3
  <2> HIDE DEF x
  <2> QED BY <2>2, <2>4, <2>5, SameRequest
<1>4. CASE Halts
  <2>1. (\A d \in Download : rt[d].halt => rt'[d].halt) /\ UNCHANGED <<ann, watch, acked>>
    BY <1>4, HaltsAre
  <2>2. ASSUME NEW d \in Download PROVE Informed(ann[d], Len(Tiers[d]), rt'[d], acked[d])
    <3>1. Informed(ann[d], Len(Tiers[d]), rt[d], acked[d])
      BY DEF EventsInv
    <3> QED BY <2>1, <3>1 DEF Informed
  <2> QED BY <2>1, <2>2 DEF EventsInv
<1>5. CASE UNCHANGED <<ann, watch, rt, acked>>
  BY <1>5 DEF EventsInv
<1>6. ASSUME NEW d \in Download, ResolveStep(d) PROVE UNCHANGED <<ann, watch, rt, acked>>
  BY <1>6 DEF ResolveStep, annVars
<1>7. PumpStep \/ (Expire /\ UNCHANGED annVars) \/ UNCHANGED vars => UNCHANGED <<ann, watch, rt, acked>>
  BY DEF PumpStep, annVars, vars
<1> QED BY <1>1, <1>2, <1>3, <1>4, <1>5, <1>6, <1>7 DEF Next, Halts

\* To the trackers of a tier "started", "completed" and "stopped" are sent
\* until they are acknowledged and never again, the last two only after
\* "started" and nothing after "stopped", for any announce lists whose URIs
\* parse, whatever fails, times out, answers late, completes or is halted
\* meanwhile (nextEvent, nextEventIfAfterStarted and adjustAnnounceList).
THEOREM EventsCorrect == AllParse /\ Spec => []EventsInOrder
<1>1. TrackersInv /\ EventsInv => EventsInOrder
  <2> SUFFICES ASSUME TrackersInv, EventsInv, NEW d \in Download, watch[d].req.kind # "none"
               PROVE  LET q == watch[d].req
                          done == acked[d][q.tier]
                      IN  /\ q.event # "" => q.event \notin done
                          /\ "stopped" \notin done
                          /\ q.event \in {"completed", "stopped"} => "started" \in done
    BY DEF EventsInOrder
  <2> DEFINE a == ann[d]
             q == watch[d].req
             e == a.tiers[a.tier].event
             K == acked[d][q.tier]
  <2>1. /\ Pursued(Len(Tiers[d]), a, watch[d], cli.reqs[Ann(d)], rt[d])
        /\ Len(Tiers[d]) \in Nat /\ InPlace(a, Len(Tiers[d]))
    BY DownloadIs
  <2>2. a.tier \in 1 .. Len(Tiers[d])
    BY <2>1, ListIs DEF Pursued
  <2>3. Informed(a, Len(Tiers[d]), rt[d], acked[d]) /\ Asks(a, q)
    BY DEF EventsInv
  <2>4. Told(e, K) /\ e # "HALTED" /\ q.event = EventString(e)
    BY <2>2, <2>3 DEF Informed, Asks
  <2>5. e \in Event
    BY <2>1, <2>2, ListIs
  <2> HIDE DEF e, K, q
  <2>6. /\ q.event # "" => q.event \notin K
        /\ "stopped" \notin K
        /\ q.event \in {"completed", "stopped"} => "started" \in K
    BY <2>4, <2>5 DEF Told, EventString, Event
  <2> QED BY <2>6 DEF K, q
<1>2. AllParse /\ Spec => []EventsInv
  <2>1. AllParse => AllParse'
    BY DEF AllParse, Tracker
  <2> QED BY <2>1, InitEvents, NextEvents, TrackersInvHolds, PTL DEF Spec
<1> QED BY <1>1, <1>2, TrackersInvHolds, PTL

=============================================================================
