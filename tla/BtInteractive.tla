--------------------------- MODULE BtInteractive ----------------------------
(***************************************************************************)
(* Downloading from BitTorrent peers: one iteration of DefaultBtInteractive*)
(* for a peer, with the request slots of DefaultBtMessageDispatcher, the   *)
(* target pieces of DefaultBtRequestFactory and the piece, choke, unchoke  *)
(* and reject messages received.  The peer's answers may be late: a block  *)
(* asked for can arrive after its slot timed out, was choked away or was   *)
(* asked of somebody else.                                                 *)
(*                                                                         *)
(* An iteration receives at most one message (a batch is several           *)
(* iterations), and maxOutstandingRequest_ does not grow.  Which piece the *)
(* selector and the shuffles pick is left open.                            *)
(***************************************************************************)
EXTENDS PieceStorage, FiniteSetsExt

CONSTANTS
    Peer,            \* cuids of the peer connections
    BadPeer,         \* peers that send wrong data
    PeerHas,         \* [Peer -> SUBSET Piece]: their bitfields
    AllowedFast,     \* [Peer -> SUBSET Piece]: peerAllowedIndexSet; the fast
                     \* extension is enabled where it is not empty
    MaxOutstanding   \* maxOutstandingRequest_

ASSUME BtInteractiveAssumption ==
    /\ PeerHas \in [Peer -> SUBSET Piece]
    /\ AllowedFast \in [Peer -> SUBSET Piece]
    /\ MaxOutstanding \in Nat

VARIABLE peer        \* the state of each connection

Request == Piece \X Block

\* net: requests the remote has got and may still answer.
PeerRecord ==
    [connected: BOOLEAN, banned: BOOLEAN, peerChoking: BOOLEAN,
     targets: SUBSET Piece, slots: SUBSET Request, net: SUBSET Request]

NewPeer ==
    [connected |-> FALSE, banned |-> FALSE, peerChoking |-> TRUE,
     targets |-> {}, slots |-> {}, net |-> {}]

PeerTypeOK == peer \in [Peer -> PeerRecord]
PeerInit == peer = [p \in Peer |-> NewPeer]

----------------------------------------------------------------------------
(***************************************************************************)
(* The operations below work on r = [s, w]: the storage and the peer.      *)
(***************************************************************************)
\* doAbortOutstandingRequestAction for the pieces in I.
abortOutstanding(r, I) ==
    LET X == {x \in r.w.slots : x[1] \in I} IN
    [r EXCEPT !.s = cancelBlocks(@, X), !.w.slots = @ \ X]

\* removeTargetPiece, and removeAllTargetPiece.
removeTargetPieces(r, I, p) ==
    LET a == abortOutstanding(r, I) IN
    [a EXCEPT !.w.targets = @ \ I, !.s = cancelPieces(@, I, {p})]

\* Fault: a slot that times out keeps its block in use.
TimeoutKeepsBlock(r, T) ==
    [r EXCEPT !.w.slots = {x \in @ \ T : ~hasBlock(r.s, x[1], x[2])}]

\* checkRequestSlotAndDoNecessaryThing: T are the slots that timed out; the
\* others go when their block has come from elsewhere.
checkRequestSlots(r, T) ==
    [r EXCEPT !.s = cancelBlocks(@, T),
              !.w.slots = {x \in @ \ T : ~hasBlock(r.s, x[1], x[2])}]

\* The slots are checked once a second, not in every iteration.
SlotChecks(r) ==
    {r} \cup {checkRequestSlots(r, T) : T \in SUBSET r.w.slots}

removeCompletedPiece(r) ==
    LET C == {i \in r.w.targets : pieceComplete(r.s, i)} IN
    [abortOutstanding(r, C) EXCEPT !.w.targets = @ \ C]

\* A choke takes away the slots and pieces that are not allowed fast.
doChokedAction(r, p) ==
    LET X == {x \in r.w.slots : x[1] \notin AllowedFast[p]}
        I == r.w.targets \ AllowedFast[p]
    IN  [r EXCEPT !.w.peerChoking = TRUE,
                  !.w.slots = @ \ X, !.w.targets = @ \ I,
                  !.s = cancelPieces(cancelBlocks(@, X), I, {p})]

doUnchokedAction(r) == [r EXCEPT !.w.peerChoking = FALSE]

removeOutstandingRequest(r, x) ==
    [r EXCEPT !.s = cancelBlocks(@, {x}), !.w.slots = @ \ {x}]

----------------------------------------------------------------------------
\* Fault: in end game a piece a stream works on is taken too.
FillableWithSegments(r, p) ==
    LET missing == PeerHas[p] \ r.s.have
    IN  IF r.w.peerChoking THEN {}
        ELSE IF r.s.endGame THEN missing \ r.w.targets ELSE missing \ r.s.use

\* fillPiece: the pieces to choose from, and the sets the loop may end with:
\* it stops as soon as the missing blocks are enough.
Fillable(r, p) ==
    LET avail == IF r.w.peerChoking THEN PeerHas[p] \cap AllowedFast[p]
                 ELSE PeerHas[p]
        missing == avail \ r.s.have
    IN  IF r.s.endGame
        THEN {i \in missing \ r.w.targets :
                 ~(i \in DOMAIN r.s.pieces /\ r.s.pieces[i].usedBySegment)}
        ELSE missing \ r.s.use

MissingIn(s, I) == MapThenSumSet(LAMBDA i : countMissingBlock(s, i), I)

Fills(r, p) ==
    LET diff == MaxOutstanding - MissingIn(r.s, r.w.targets)
        cand == Fillable(r, p)
    IN  IF diff <= 0 THEN {{}}
        ELSE {I \in SUBSET cand :
                \/ I = cand /\ MissingIn(r.s, I) < diff
                \/ /\ MissingIn(r.s, I) >= diff
                   /\ \E i \in I : MissingIn(r.s, I \ {i}) < diff}

fillPiece(r, I, p) ==
    [r EXCEPT !.w.targets = @ \cup I,
              !.s = checkOutPieces(@, I, p)]

\* createRequestMessages: in end game every missing block not already asked
\* of this peer, else the blocks nobody has been asked for.
Askable(r) ==
    {x \in r.w.targets \X Block :
        /\ ~hasBlock(r.s, x[1], x[2])
        /\ IF r.s.endGame THEN x \notin r.w.slots
           ELSE x[2] \notin r.s.pieces[x[1]].useBlocks}

Asks(r) ==
    LET num == MaxOutstanding - Cardinality(r.w.slots)
        cand == Askable(r)
    IN  IF num <= 0 THEN {{}}
        ELSE {X \in SUBSET cand : Cardinality(X) =
                IF Cardinality(cand) < num THEN Cardinality(cand) ELSE num}

ask(r, X) ==
    [r EXCEPT
       !.s = IF r.s.endGame THEN @ ELSE useBlocks(@, X),
       !.w.slots = @ \cup X,
       !.w.net = @ \cup X]

\* addRequests, as the set of its outcomes.
addRequests(r, p) ==
    IF downloadFinished(r.s) THEN {r}
    ELSE LET e == [r EXCEPT !.s.endGame = @ \/ ~hasMissingUnusedPiece(r.s)]
         IN  UNION {LET f == fillPiece(e, I, p)
                    IN  {ask(f, X) : X \in Asks(f)} : I \in Fills(e, p)}

----------------------------------------------------------------------------
(***************************************************************************)
(* BtPieceMessage::doReceivedAction for block x; the outcome has ex, the   *)
(* exception thrown: none, an abort of the connection or a failure of the  *)
(* download.                                                               *)
(***************************************************************************)
PieceHashOk(s, i) ==
    IF ~s.endGame /\ isHashCalculated(s, i)
    THEN s.pieces[i].hashOk ELSE DigestWithCacheOk(s, i)

onNewPiece(r, i, ok) ==
    LET s == flushWrCache(r.s, i, ok) IN
    IF s.pieces[i].entry /\ s.pieces[i].error
    THEN [s |-> clearAllBlock(s, i), w |-> r.w, ex |-> "failure"]
    ELSE [s |-> completePiece(s, i), w |-> r.w, ex |-> "none"]

\* Fault: the blocks of the wrong piece stay.
WrongPieceKept(r, i, p) ==
    LET t == removeTargetPieces(r, {i}, p)
    IN  [s |-> t.s, w |-> [t.w EXCEPT !.banned = TRUE], ex |-> "abort"]

onWrongPiece(r, i, p) ==
    LET c == [r EXCEPT !.s = destroyHashContext(clearAllBlock(@, i), i)]
        t == removeTargetPieces(c, {i}, p)
    IN  [s |-> t.s, w |-> [t.w EXCEPT !.banned = TRUE], ex |-> "abort"]

receivePiece(r, x, p, ok) ==
    LET i == x[1]
        d == [r EXCEPT !.w.net = @ \ {x}]
        q == IF p \in BadPeer THEN "bad" ELSE "good"
    IN
    IF x \notin r.w.slots \/ hasBlock(r.s, i, x[2])
    THEN {[s |-> d.s, w |-> d.w, ex |-> "none"]}
    ELSE {LET h == updateHash(completeBlocks(s, i, {x[2]}), i,
                              x[2] * BlockLength, BlockLength, q)
              g == removeOutstandingRequest([d EXCEPT !.s = h], x)
          IN  IF ~pieceComplete(h, i)
              THEN [s |-> g.s, w |-> g.w, ex |-> "none"]
              ELSE IF PieceHashOk(g.s, i) THEN onNewPiece(g, i, ok)
              ELSE onWrongPiece(g, i, p)
          : s \in writeData(r.s, i, OffsetsOf(x[2]), q, ok)}

Message(w) ==
    [type: {"none", "choke", "unchoke"}]
      \cup [type: {"piece"}, x: w.net]

\* A reject is only sent for a request the remote drops.
Reject(w, p) ==
    IF AllowedFast[p] = {} THEN {} ELSE [type: {"reject"}, x: w.net]

receiveMessage(r, msg, p, ok) ==
    LET Plain(y) == {[s |-> y.s, w |-> y.w, ex |-> "none"]} IN
    CASE msg.type = "none" -> Plain(r)
      [] msg.type = "choke" -> Plain(doChokedAction(r, p))
      [] msg.type = "unchoke" -> Plain(doUnchokedAction(r))
      [] msg.type = "reject" ->
           LET d == [r EXCEPT !.w.net = @ \ {msg.x}] IN
           Plain(IF msg.x \in r.w.slots
                 THEN removeOutstandingRequest(d, msg.x) ELSE d)
      [] msg.type = "piece" -> receivePiece(r, msg.x, p, ok)

----------------------------------------------------------------------------
(***************************************************************************)
(* The actions.                                                            *)
(***************************************************************************)
Closed(w) == [NewPeer EXCEPT !.banned = w.banned]

\* The end of a connection gives back everything: cancelAllPiece.
disconnect(r, p) ==
    LET t == removeTargetPieces(r, r.w.targets, p) IN
    [t EXCEPT !.w = Closed(t.w)]

Sets(p, r) == ps' = r.s /\ peer' = [peer EXCEPT ![p] = r.w]

Connect(p) ==
    /\ ~halted /\ ~downloadFinished(ps)
    /\ ~peer[p].connected /\ ~peer[p].banned
    /\ peer' = [peer EXCEPT ![p].connected = TRUE]
    /\ UNCHANGED <<ps, halted>>

\* Any error on the connection, or the checks that drop an inactive peer.
Disconnect(p) ==
    /\ ~halted /\ peer[p].connected
    /\ Sets(p, disconnect([s |-> ps, w |-> peer[p]], p))
    /\ UNCHANGED halted

\* doInteractionProcessing: slots are checked, a message is received,
\* completed pieces are dropped and new requests are made.
Interact(p, msg, ok) ==
    /\ ~halted /\ ~downloadFinished(ps)
    /\ peer[p].connected
    /\ \E k \in SlotChecks([s |-> ps, w |-> peer[p]]) :
       \E c \in receiveMessage(k, msg, p, ok) :
       LET r == [s |-> c.s, w |-> c.w] IN
       CASE c.ex = "abort" -> Sets(p, disconnect(r, p)) /\ UNCHANGED halted
         [] c.ex = "failure" -> Sets(p, disconnect(r, p)) /\ halted' = TRUE
         [] c.ex = "none" ->
              /\ \E n \in addRequests(removeCompletedPiece(r), p) : Sets(p, n)
              /\ UNCHANGED halted

PeerNext(p) ==
    \/ Connect(p)
    \/ Disconnect(p)
    \/ \E msg \in Message(peer[p]) \cup Reject(peer[p], p),
          ok \in DiskOutcome(ps) : Interact(p, msg, ok)

=============================================================================
