------------------------------- MODULE Swarm -------------------------------
(***************************************************************************)
(* The peers of one BitTorrent download: how they are found, connected to  *)
(* or accepted, how the commands that work with them end, and which of     *)
(* them are unchoked.  What is asked of a peer is in BtInteractive.        *)
(*                                                                         *)
(* A slot stands for a command; a command that ends may be followed by     *)
(* another one in its slot.  Commands of incoming connections belong to no *)
(* download until the handshake names one ("receive").                     *)
(***************************************************************************)
EXTENDS PeerStorage, BtChoke

CONSTANTS
    NumNewConnection,  \* connections made at a time: 5
    MaxPeers,          \* --bt-max-peers
    RequireCrypto,     \* --bt-require-crypto or --bt-force-encryption
    Setups             \* the states a run begins with

\* A setup has wired: the addresses connected in the beginning, which want to
\* download; found: those that trackers and peers tell of, and that connect to
\* us; talk: the addresses of peers that send messages about choking; choke
\* rounds come when there are any; slots: the number of commands at a time.

VARIABLES
    setup,
    ps,     \* the DefaultPeerStorage
    cmd,    \* [Cuid -> command]
    sess,   \* the sessions of the peers that have one, by command
    round,  \* round_ of the two choking algorithms
    rt      \* BtRuntime: halt; of the pieces: all there

vars == <<setup, ps, cmd, sess, round, rt>>

ASSUME SwarmAssumption ==
    /\ NumNewConnection \in Nat \ {0}
    /\ MaxPeers \in Nat
    /\ RequireCrypto \in BOOLEAN
    /\ \A u \in Setups : /\ u.wired \in Seq(Addr) /\ IsInjective(u.wired)
                         /\ Len(u.wired) <= u.slots /\ u.slots \in 0 .. MaxCuid
                         /\ u.found \subseteq Addr /\ IsFiniteSet(u.found)

NoAddr == "noaddr"
NoCmd == [st |-> "none", addr |-> NoAddr]
PeerOf(c) == [addr |-> cmd[c].addr, by |-> c]
Interacting == {"handshake", "wired"}
\* The commands that BtRuntime counts.
Counted == {"initiate", "initiateLegacy", "mseConnect", "mse"} \cup Interacting

Init ==
    /\ setup \in Setups
    /\ LET On == DOMAIN setup.wired
       IN  /\ cmd = [c \in Cuid |->
                       IF c \in On THEN [st |-> "wired", addr |-> setup.wired[c]]
                       ELSE NoCmd]
           /\ ps = [InitStorage EXCEPT
                      !.used = {[addr |-> setup.wired[c], by |-> c] : c \in On},
                      !.uniq = ToSet(setup.wired)]
           /\ sess = [c \in On |-> [NewSession EXCEPT !.interested = TRUE]]
    /\ round = [leecher |-> 0, seeder |-> 0]
    /\ rt = [halt |-> FALSE, finished |-> FALSE]

----------------------------------------------------------------------------
getConnections == Cardinality({c \in Cuid : cmd[c].st \in Counted})
MinPeers ==
    LET m == (MaxPeers * 8) \div 10 IN IF m = 0 THEN MaxPeers ELSE m
lessThanMaxPeers == MaxPeers = 0 \/ getConnections < MaxPeers
lessThanEqMinPeers == MinPeers = 0 \/ getConnections <= MinPeers
FreeSlots == {c \in 1 .. setup.slots : cmd[c].st = "none"}

\* The round that is counted by the choking algorithm in use.
CountRound(r) ==
    IF rt.finished THEN [r EXCEPT !.seeder = NextRound(@)]
    ELSE [r EXCEPT !.leecher = NextRound(@)]

\* DefaultPeerStorage::executeChoke, with the sessions and rounds x before
\* it: the sessions and rounds after it.
executeChoke(x) ==
    {[q |-> q, round |-> CountRound(x.round)] :
       q \in IF rt.finished THEN SeederRound(x.q, x.round.seeder)
             ELSE LeecherRound(x.q, x.round.leecher)}

Chokings == [q |-> sess, round |-> round]

\* DefaultPeerStorage::onReturningPeer, and the end of the session: a slot
\* that becomes free is given away at once.
onReturningPeer(c, x) ==
    LET rest == [x EXCEPT !.q = [d \in DOMAIN x.q \ {c} |-> x.q[d]]]
    IN  IF c \in DOMAIN x.q /\ ~x.q[c].amChoking /\ x.q[c].interested
        THEN executeChoke(rest) ELSE {rest}

\* DefaultPeerStorage::returnPeer by command c.
Return(c, s, x) ==
    /\ ps' = returnPeer(s, PeerOf(c))
    /\ \E y \in onReturningPeer(c, x) : sess' = y.q /\ round' = y.round

\* prepareForNextPeer and tryNewPeer, after the peer of c was returned: the
\* command is counted until it is deleted.
NextPeer(c, s) ==
    IF s.unused # <<>> /\ lessThanEqMinPeers
    THEN [s |-> checkoutPeer(s, c),
          cmd |-> [st |-> "initiate", addr |-> Head(s.unused)]]
    ELSE [s |-> s, cmd |-> NoCmd]

----------------------------------------------------------------------------
(***************************************************************************)
(* Finding peers.                                                          *)
(***************************************************************************)

\* Peers come from the DHT, at any moment; from an HTTP tracker or another
\* peer while the download goes on.
PeersFound(S) ==
    /\ ps' \in addPeers(ps, S)
    /\ UNCHANGED <<setup, cmd, sess, round, rt>>

\* A peer comes from local peer discovery, at any moment; from a UDP tracker
\* while the download goes on.
PeerFound(a) ==
    /\ ps' = addPeer(ps, a)
    /\ UNCHANGED <<setup, cmd, sess, round, rt>>

\* The time of a bad peer is over.
BadPeerExpires(ip) ==
    /\ ip \in ps.bad
    /\ ps' = [ps EXCEPT !.bad = @ \ {ip}]
    /\ UNCHANGED <<setup, cmd, sess, round, rt>>

\* How many connections ActivePeerConnectionCommand makes.  A leecher makes
\* them when it is slow or has few peers, a seeder when it may upload more.
NumConnection ==
    IF ~rt.finished THEN NumNewConnection
    ELSE IF MaxPeers > getConnections
         THEN Min({NumNewConnection, MaxPeers - getConnections}) ELSE 0

MakeNewConnections ==
    LET n == Min({NumConnection, Len(ps.unused), Cardinality(FreeSlots)})
        Rank(c) == Cardinality({d \in FreeSlots : d <= c})
        new == {c \in FreeSlots : Rank(c) <= n}
    IN  /\ ~rt.halt /\ n > 0
        /\ ps' = [ps EXCEPT
                    !.unused = SubSeq(@, n + 1, Len(@)),
                    !.used = @ \cup {[addr |-> ps.unused[Rank(c)], by |-> c] : c \in new}]
        /\ cmd' = [c \in Cuid |->
                     IF c \in new THEN [st |-> "initiate", addr |-> ps.unused[Rank(c)]]
                     ELSE cmd[c]]
        /\ UNCHANGED <<setup, sess, round, rt>>

----------------------------------------------------------------------------
(***************************************************************************)
(* Connecting to a peer.                                                   *)
(***************************************************************************)
Goto(c, st) == cmd' = [cmd EXCEPT ![c].st = st]

\* PeerInteractionCommand's constructor gives the peer a session.
StartInteraction(c) ==
    /\ Goto(c, "handshake")
    /\ sess' = [d \in DOMAIN sess \cup {c} |-> IF d = c THEN NewSession ELSE sess[d]]

\* PeerInitiateConnectionCommand: encryption is tried first.
Initiate(c) ==
    /\ ~rt.halt
    /\ \/ cmd[c].st = "initiate" /\ Goto(c, "mseConnect") /\ UNCHANGED sess
       \/ cmd[c].st = "initiateLegacy" /\ StartInteraction(c)
    /\ UNCHANGED <<setup, ps, round, rt>>

\* InitiatorMSEHandshakeCommand: connected, and encryption is agreed on.
Encrypt(c) ==
    /\ ~rt.halt
    /\ \/ cmd[c].st = "mseConnect" /\ Goto(c, "mse") /\ UNCHANGED sess
       \/ cmd[c].st = "mse" /\ StartInteraction(c)
    /\ UNCHANGED <<setup, ps, round, rt>>

\* The encrypted handshake fails though the peer answers: the peer is kept
\* for a plain one.
TryLegacy(c) ==
    /\ ~rt.halt /\ cmd[c].st = "mse" /\ ~RequireCrypto
    /\ Goto(c, "initiateLegacy")
    /\ UNCHANGED <<setup, ps, sess, round, rt>>

\* The connection fails before there is a session.
ConnectFails(c) ==
    /\ ~rt.halt
    /\ \/ cmd[c].st \in {"initiate", "initiateLegacy", "mseConnect"}
       \/ cmd[c].st = "mse" /\ RequireCrypto
    /\ LET n == NextPeer(c, returnPeer(ps, PeerOf(c)))
       IN  ps' = n.s /\ cmd' = [cmd EXCEPT ![c] = n.cmd]
    /\ UNCHANGED <<setup, sess, round, rt>>

HandshakeDone(c) ==
    /\ ~rt.halt /\ cmd[c].st = "handshake"
    /\ Goto(c, "wired")
    /\ UNCHANGED <<setup, ps, sess, round, rt>>

----------------------------------------------------------------------------
(***************************************************************************)
(* A peer connects to us.                                                  *)
(***************************************************************************)

\* PeerListenCommand accepts a connection.
Accept(a) ==
    /\ FreeSlots # {}
    /\ cmd' = [cmd EXCEPT ![Min(FreeSlots)] = [st |-> "receive", addr |-> a]]
    /\ UNCHANGED <<setup, ps, sess, round, rt>>

\* PeerReceiveHandshakeCommand, when the info hash is there.
Received(c) ==
    /\ cmd[c].st = "receive"
    /\ \/ /\ ~rt.halt
          /\ ~rt.finished \/ lessThanMaxPeers
          /\ MayAddAndCheckout(ps, cmd[c].addr)
          /\ ps' = addAndCheckoutPeer(ps, cmd[c].addr, c)
          /\ StartInteraction(c)
       \/ /\ rt.halt \/ ~lessThanMaxPeers \/ ~MayAddAndCheckout(ps, cmd[c].addr)
          /\ cmd' = [cmd EXCEPT ![c] = NoCmd]
          /\ UNCHANGED <<ps, sess>>
    /\ UNCHANGED <<setup, round, rt>>

\* The connection fails or the handshake does not come in time.
ReceiveFails(c) ==
    /\ cmd[c].st = "receive"
    /\ cmd' = [cmd EXCEPT ![c] = NoCmd]
    /\ UNCHANGED <<setup, ps, sess, round, rt>>

----------------------------------------------------------------------------
(***************************************************************************)
(* Talking to a peer.                                                      *)
(***************************************************************************)
Message == {"interested", "notInterested", "block"}

\* The session of a peer that has sent message m.
Told(p, m) ==
    [p EXCEPT !.interested = m = "interested" \/ (@ /\ m # "notInterested"),
              !.snub = @ /\ m # "block"]

\* What a message from the peer of c does to the sessions and rounds x.
Handle(c, m, x) ==
    LET y == [x EXCEPT !.q[c] = Told(@, m)]
    IN  IF \/ m = "interested" /\ x.q[c].amChoking
           \/ m = "notInterested" /\ ~x.q[c].amChoking
        THEN executeChoke(y) ELSE {y}

\* What one execution has done before it ends or fails: a request of ours was
\* found to be late, then a message was handled.  Two messages in one
\* execution reach no other states.
Handled(c, late, m) ==
    LET x == IF late THEN [Chokings EXCEPT !.q[c] = Snubbed(@)] ELSE Chokings
    IN  IF m = "none" THEN {x} ELSE Handle(c, m, x)

\* DefaultBtInteractive::decideChoking
decideChoking(x) == [x EXCEPT !.amChoking = shouldBeChoking(x)]

\* DefaultBtInteractive::doInteractionProcessing
Interact(c, late, m) ==
    /\ ~rt.halt /\ cmd[c].st = "wired"
    /\ \E x \in Handled(c, late, m) :
         /\ sess' = [x.q EXCEPT ![c] = decideChoking(@)]
         /\ round' = x.round
    /\ UNCHANGED <<setup, ps, cmd, rt>>

\* The connection ends, is found useless or the peer has sent a wrong piece:
\* the peer is returned and another one may take its slot.
InteractionFails(c, m, wrong) ==
    /\ ~rt.halt /\ cmd[c].st \in Interacting
    /\ cmd[c].st = "handshake" => m = "none"
    /\ wrong => m = "block"
    /\ \E x \in Handled(c, FALSE, m) :
         LET s == IF wrong THEN addBadPeer(ps, cmd[c].addr) ELSE ps
             n == NextPeer(c, returnPeer(s, PeerOf(c)))
         IN  /\ ps' = n.s
             /\ cmd' = [cmd EXCEPT ![c] = n.cmd]
             /\ \E y \in onReturningPeer(c, x) : sess' = y.q /\ round' = y.round
    /\ UNCHANGED <<setup, rt>>

\* A DownloadFailureException: the whole download is halted.
DownloadFails(c, m) ==
    /\ ~rt.halt /\ cmd[c].st = "wired"
    /\ \E x \in Handled(c, FALSE, m) : Return(c, ps, x)
    /\ cmd' = [cmd EXCEPT ![c] = NoCmd]
    /\ rt' = [rt EXCEPT !.halt = TRUE]
    /\ UNCHANGED setup

----------------------------------------------------------------------------
\* PeerChokeCommand
ChokeRound ==
    /\ ~rt.halt /\ setup.talk # {}
    /\ UNCHANGED <<setup, ps, cmd, rt>>
    /\ round' = CountRound(round)
    /\ \E x \in executeChoke(Chokings) : sess' = x.q

DownloadFinished ==
    /\ ~rt.finished
    /\ rt' = [rt EXCEPT !.finished = TRUE]
    /\ UNCHANGED <<setup, ps, cmd, sess, round>>

Halt ==
    /\ ~rt.halt
    /\ rt' = [rt EXCEPT !.halt = TRUE]
    /\ UNCHANGED <<setup, ps, cmd, sess, round>>

\* exitBeforeExecute.  A command in an encrypted handshake keeps its peer
\* for a plain one that it does not try.
Exit(c) ==
    /\ rt.halt /\ cmd[c].st \in Counted
    /\ cmd' = [cmd EXCEPT ![c] = NoCmd]
    /\ IF cmd[c].st = "mse" /\ ~RequireCrypto
       THEN UNCHANGED <<ps, sess, round>>
       ELSE Return(c, ps, Chokings)
    /\ UNCHANGED <<setup, rt>>

----------------------------------------------------------------------------
\* What the peer of c does in one execution.
Talks(c) == cmd[c].addr \in setup.talk
Late(c) == IF Talks(c) THEN BOOLEAN ELSE {FALSE}
Talk(c) == {"none"} \cup IF Talks(c) THEN Message ELSE {"block"}

Next ==
    \/ \E S \in SUBSET setup.found : PeersFound(S)
    \/ \E a \in setup.found : PeerFound(a) \/ Accept(a)
    \/ \E a \in Addr : BadPeerExpires(IpOf[a])
    \/ MakeNewConnections
    \/ \E c \in Cuid :
         \/ Initiate(c) \/ Encrypt(c) \/ TryLegacy(c) \/ ConnectFails(c)
         \/ Received(c) \/ ReceiveFails(c)
         \/ HandshakeDone(c)
         \/ \E late \in Late(c), m \in Talk(c) : Interact(c, late, m)
         \/ \E m \in Talk(c), wrong \in BOOLEAN :
              InteractionFails(c, m, wrong)
         \/ \E m \in Talk(c) : DownloadFails(c, m)
         \/ Exit(c)
    \/ ChokeRound \/ DownloadFinished \/ Halt

Spec == Init /\ [][Next]_vars

----------------------------------------------------------------------------
\* A choke round with a random choice in it gives a slot to c, which waits
\* for one.
Favours(c) ==
    /\ c \in DOMAIN sess /\ sess[c].amChoking
    /\ IF rt.finished THEN round.seeder < 2 ELSE round.leecher = 0
    /\ ChokeRound
    /\ ~shouldBeChoking(sess'[c])

\* The commands are executed again and again, choke rounds come, and the
\* random choices favour everybody again and again.
Fairness ==
    /\ WF_vars(ChokeRound)
    /\ \A c \in Cuid : WF_vars(Interact(c, FALSE, "none")) /\ SF_vars(Favours(c))

FairSpec == Spec /\ Fairness

----------------------------------------------------------------------------
(***************************************************************************)
(* Properties.                                                             *)
(***************************************************************************)

\* The type invariant of the swarm.
TypeOK ==
    /\ ToSet(ps.unused) \cup ps.uniq \subseteq Addr
    /\ ps.used \subseteq [addr : Addr, by : Cuid]
    /\ ps.bad \subseteq {IpOf[a] : a \in Addr}
    /\ \A c \in Cuid : cmd[c] = NoCmd
                      \/ cmd[c] \in [st : Counted \cup {"receive"}, addr : Addr]
    /\ DOMAIN sess \subseteq Cuid
    /\ \A c \in DOMAIN sess : sess[c] \in Session
    /\ round \in [leecher : 0 .. 2, seeder : 0 .. 2]
    /\ rt \in [halt : BOOLEAN, finished : BOOLEAN]

\* A peer is known once, by its address, whether it is untried or in use;
\* every command has its peer in use, and as long as the download goes on
\* nothing else is in use: however connections fail, fall back to plain
\* handshakes, come in from an address that waits in the list, or are
\* replaced by the next peer.  The destructor of the storage asserts the
\* part about the numbers.
EachPeerOnce ==
    /\ ps.uniq = ToSet(ps.unused) \cup {p.addr : p \in ps.used}
    /\ Cardinality(ps.uniq) = Len(ps.unused) + Cardinality(ps.used)
    /\ Len(ps.unused) <= MaxPeerListSize
    /\ LET held == {PeerOf(c) : c \in {d \in Cuid : cmd[d].st \in Counted}}
       IN  held \subseteq ps.used /\ (~rt.halt => ps.used = held)
    /\ DOMAIN sess = {c \in Cuid : cmd[c].st \in Interacting}

\* No more peers are to be unchoked than there are regular and optimistic
\* slots (a seeder keeps its optimistic choice in a round with one more
\* regular slot), whatever peers say, and however rounds, leaving peers and
\* the end of the download follow on each other.
UploadSlots ==
    Cardinality({c \in DOMAIN sess : ~shouldBeChoking(sess[c])})
        <= UnchokeSlots + IF rt.finished THEN 2 ELSE 1

\* A peer that wants to download from us and stays, and does not leave our
\* requests unanswered while we download ourselves, gets a slot again and
\* again.
UnchokedInTurn ==
    \A c \in Cuid :
      []<>(\/ rt.halt \/ c \notin DOMAIN sess
           \/ ~sess[c].interested \/ (sess[c].snub /\ ~rt.finished)
           \/ ~shouldBeChoking(sess[c]))

=============================================================================
