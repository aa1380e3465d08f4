-------------------------- MODULE UDPTrackerClient --------------------------
(***************************************************************************)
(* The client of UDP trackers that all downloads share, with the command   *)
(* that resolves the name of a tracker (NameResolveCommand) and the part   *)
(* of DHTInteractionCommand that receives, times out and sends.            *)
(*                                                                         *)
(* The network is what can arrive: at any time a reply of the right kind,  *)
(* or an error, for a request, be it the answer to what is in flight or    *)
(* late, repeated or misled.  The transaction id, new for every send but   *)
(* that of a repeated CONNECT, tells them apart: current says it is that   *)
(* of the request object.                                                  *)
(*                                                                         *)
(* At most one announce of a download exists, and one CONNECT per host, so *)
(* that requests are named by these; a request in two queues, or twice in  *)
(* one, would still be seen.                                               *)
(***************************************************************************)
EXTENDS Integers, Sequences, FiniteSets, SequencesExt, TLC, Queues

CONSTANTS
    Download,   \* downloads with trackers
    UdpHost     \* addresses of UDP trackers

VARIABLES
    cli,   \* the queues, the connection ids and the request objects
    pump,  \* DHTInteractionCommand is alive
    eng    \* halt and force halt of the engine

ASSUME UDPTrackerClientAssumption ==
    Download # {} /\ IsFiniteSet(Download) /\ IsFiniteSet(UdpHost)

NoHost == "nohost"

Announce == {"announce"} \X Download
ConnectReq == {"connect"} \X UdpHost
Id == Announce \cup ConnectReq

RequestObject ==
    [host: UdpHost \cup {NoHost}, fail: 0 .. 2,
     state: {"none", "resolving", "pending", "ok", "error"}]

NoRequest == [host |-> NoHost, fail |-> 0, state |-> "none"]

IsClient(c) ==
    /\ c.pending \in Seq(Id)
    /\ c.connect \in Seq(Id)
    /\ c.inflight \in Seq(Id)
    /\ c.cache \in [UdpHost -> {"none", "connecting", "connected", "expired"}]
    /\ c.reqs \in [Id -> RequestObject]

InitClient ==
    [pending |-> <<>>, connect |-> <<>>, inflight |-> <<>>,
     cache |-> [h \in UdpHost |-> "none"],
     reqs |-> [id \in Id |-> NoRequest]]

\* Nobody keeps a CONNECT request that is complete.
Complete(c, S, result) ==
    [c EXCEPT !.reqs = [id \in Id |->
        IF id \notin S THEN @[id]
        ELSE IF id \in ConnectReq THEN NoRequest
        ELSE [@[id] EXCEPT !.state = result]]]

----------------------------------------------------------------------------
(***************************************************************************)
(* The operations of UDPTrackerClient on c.                                *)
(***************************************************************************)
addRequest(c, id) ==
    [c EXCEPT !.reqs[id].state = "pending", !.pending = Append(@, id)]

\* Fault: requests that fail with their CONNECT are still pending.
FailConnectKeepsPending(c, h) ==
    LET S == {id \in Announce :
                /\ id \in ToSet(c.connect) \cup ToSet(c.pending)
                /\ c.reqs[id].host = h}
    IN  [Complete(c, S, "error") EXCEPT !.cache[h] = "none",
                                        !.connect = Keep(@, Id \ S)]

failConnect(c, h) ==
    LET S == {id \in Announce :
                /\ id \in ToSet(c.connect) \cup ToSet(c.pending)
                /\ c.reqs[id].host = h}
    IN  [Complete(c, S, "error") EXCEPT
           !.cache[h] = "none",
           !.connect = Keep(@, Id \ S),
           !.pending = Keep(@, Id \ S)]

\* Fault: a request is sent again however often it has timed out.
RetryForEver(c, T) ==
    [c EXCEPT !.reqs = [id \in Id |->
                 IF id \in T THEN [@[id] EXCEPT !.fail = @ + 1] ELSE @[id]],
              !.pending = Keep(c.inflight, T) \o @,
              !.inflight = Keep(@, Id \ T)]

\* The requests of T have waited long enough (5 seconds the first time, 10
\* the second).
handleTimeout(c, T) ==
    LET again == {id \in T : c.reqs[id].fail = 0}
        over == T \ again
        hosts == {h \in UdpHost : <<"connect", h>> \in over}
        S == {id \in Announce :
                /\ id \in ToSet(c.connect) \cup ToSet(c.pending)
                /\ c.reqs[id].host \in hosts}
        f == [c EXCEPT !.reqs = [id \in Id |->
                 IF id \in T THEN [c.reqs[id] EXCEPT !.fail = @ + 1] ELSE @[id]]]
    IN  [Complete(f, over \cup S, "error") EXCEPT
           !.cache = [h \in UdpHost |-> IF h \in hosts THEN "none" ELSE @[h]],
           !.connect = Keep(@, Id \ S),
           !.pending = Keep(c.inflight, again) \o Keep(@, Id \ S),
           !.inflight = Keep(@, Id \ T)]

\* A reply is only believed when a request with its host and transaction id
\* is in flight.
receiveReply(c, w) ==
    LET id == w.id
        h == w.host
        d == [c EXCEPT !.inflight = Keep(@, Id \ {id})]
        waiting == {a \in ToSet(c.connect) : c.reqs[a].host = h}
    IN  IF ~(id \in ToSet(c.inflight) /\ c.reqs[id].host = h /\ w.current)
        THEN c
        ELSE IF w.kind = "error"
        THEN LET e == Complete(d, {id}, "error")
             IN  IF id \in ConnectReq THEN failConnect(e, h) ELSE e
        ELSE IF id \in ConnectReq
        THEN [Complete(d, {id}, "ok") EXCEPT
                       !.cache[h] = "connected",
                       !.connect = Keep(@, Id \ waiting),
                       !.pending = Keep(c.connect, waiting) \o @]
        ELSE Complete(d, {id}, "ok")

\* Requests to a host that is being connected to step aside; then the first
\* request is ready to be sent, a CONNECT put before it if it needs one.
createRequest(c) ==
    LET Aside(i) == /\ c.pending[i] \in Announce
                    /\ c.cache[c.reqs[c.pending[i]].host] = "connecting"
        k == CHOOSE n \in 0 .. Len(c.pending) :
                /\ \A i \in 1 .. n : Aside(i)
                /\ n < Len(c.pending) => ~Aside(n + 1)
        d == [c EXCEPT !.connect = @ \o SubSeq(c.pending, 1, k),
                       !.pending = SubSeq(@, k + 1, Len(@))]
        id == Head(d.pending)
        h == d.reqs[id].host
        con == <<"connect", h>>
    IN  IF d.pending = <<>> \/ id \in ConnectReq THEN d
        ELSE IF d.cache[h] = "connected" THEN d
        ELSE [d EXCEPT
                !.cache[h] = "none",
                !.pending = <<con>> \o @,
                !.reqs[con] = [host |-> h, fail |-> 0, state |-> "pending"]]

requestSent(c) ==
    LET id == Head(c.pending) IN
    [c EXCEPT !.pending = Tail(@),
              !.inflight = Append(@, id),
              !.cache = [h \in UdpHost |->
                 IF id = <<"connect", h>> THEN "connecting" ELSE @[h]]]

requestFail(c) ==
    LET id == Head(c.pending)
        d == IF id \in ConnectReq THEN failConnect(c, c.reqs[id].host) ELSE c
    IN  [Complete(d, {id}, "error") EXCEPT !.pending = Tail(@)]

failAll(c) ==
    Complete(c, ToSet(c.pending) \cup ToSet(c.connect) \cup ToSet(c.inflight),
             "error")

----------------------------------------------------------------------------
(***************************************************************************)
(* The commands.                                                           *)
(***************************************************************************)
\* One round of the send loop; sending throws for the hosts of E.
SendNext(n, E) ==
    LET c == createRequest(n) IN
    IF c.pending = <<>> THEN c
    ELSE IF c.reqs[Head(c.pending)].host \in E THEN requestFail(c)
    ELSE requestSent(c)

\* Every round sends a request or completes one, or finds none to send.
\* C is the one state of the client before, the result the one after.
SendAll(C, E) ==
    LET After[i \in 0 .. 2 * Cardinality(Id)] ==
          IF i = 0 THEN C ELSE {SendNext(c, E) : c \in After[i - 1]}
    IN  After[2 * Cardinality(Id)]

Reply == [id: Id, host: UdpHost, current: BOOLEAN, kind: {"answer", "error"}]

\* DHTInteractionCommand::execute, with at most one datagram received (a
\* batch is several executions), the requests of T timed out and sends to
\* the hosts of E throwing.  watchers: somebody still needs the client.
Pump(reply, T, E, watchers) ==
    /\ pump
    /\ IF eng.halt /\ ~watchers
       THEN pump' = FALSE /\ UNCHANGED cli
       ELSE IF eng.force
       THEN pump' = FALSE /\ cli' = failAll(cli)
       ELSE LET R == IF reply = {} THEN {cli}
                     ELSE {receiveReply(cli, w) : w \in reply}
                S == {handleTimeout(c, T \cap ToSet(c.inflight)) : c \in R}
            IN  cli' \in SendAll(S, E) /\ UNCHANGED pump
    /\ UNCHANGED eng

PumpSteps(watchers) ==
    \E reply \in {{}} \cup {{m} : m \in Reply},
       T \in SUBSET ToSet(cli.inflight), E \in SUBSET UdpHost :
       Pump(reply, T, E, watchers)

\* A connection id is more than a minute old.
Expire ==
    /\ \E h \in UdpHost : /\ cli.cache[h] = "connected"
                          /\ cli' = [cli EXCEPT !.cache[h] = "expired"]
    /\ UNCHANGED <<pump, eng>>

\* NameResolveCommand::execute once the name is resolved, or cannot be.
Resolve(d) ==
    LET id == <<"announce", d>> IN
    /\ cli.reqs[id].state = "resolving"
    /\ \/ cli' = Complete(cli, {id}, "error")
       \/ ~eng.force /\ cli' = addRequest(cli, id)
    /\ UNCHANGED <<pump, eng>>

----------------------------------------------------------------------------
Places(id) ==
    Cardinality({i \in DOMAIN cli.pending : cli.pending[i] = id})
      + Cardinality({i \in DOMAIN cli.connect : cli.connect[i] = id})
      + Cardinality({i \in DOMAIN cli.inflight : cli.inflight[i] = id})

\* A request that is not complete is in exactly one of the three queues, and
\* a complete one in none: replies, timeouts and failed sends neither lose a
\* request nor finish it twice.
RequestInOneQueue ==
    pump => \A id \in Announce :
              Places(id) = IF cli.reqs[id].state = "pending" THEN 1 ELSE 0

\* Whoever waits for a connection id waits for a CONNECT that is under way,
\* so that its reply, its timeout or its failure lets the request go on.
WaitersAreConnecting ==
    pump => \A id \in ToSet(cli.connect) :
              LET h == cli.reqs[id].host IN
              /\ cli.cache[h] = "connecting"
              /\ Places(<<"connect", h>>) = 1

\* Every request of a download is somewhere, once, and on its way: whatever
\* is lost, late or duplicated, the announce ends.
RequestsAccountedFor == RequestInOneQueue /\ WaitersAreConnecting

=============================================================================
