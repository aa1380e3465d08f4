---------------------------- MODULE PeerStorage ----------------------------
(***************************************************************************)
(* The peers a download knows of (DefaultPeerStorage): a queue of those it *)
(* has not tried, a set of those a command works with, and the addresses   *)
(* of both, by which a peer is recognized.                                 *)
(*                                                                         *)
(* A peer in use is the pair of its address and the slot of its command.   *)
(* The dropped peers, which are only told to other peers, are left out.    *)
(***************************************************************************)
EXTENDS Integers, Sequences, FiniteSets, FiniteSetsExt, SequencesExt

CONSTANTS
    Addr,            \* addresses of peers: IP address and port
    IpOf,            \* [Addr -> IP address]
    MaxPeerListSize  \* MAX_PEER_LIST_SIZE

ASSUME PeerStorageAssumption ==
    MaxPeerListSize \in Nat \ {0}

InitStorage == [unused |-> <<>>, used |-> {}, uniq |-> {}, bad |-> {}]

isPeerAlreadyAdded(s, a) == a \in s.uniq
isBadPeer(s, a) == IpOf[a] \in s.bad
addBadPeer(s, a) == [s EXCEPT !.bad = @ \cup {IpOf[a]}]

PushBack(s, a) ==
    [s EXCEPT !.unused = Append(@, a), !.uniq = @ \cup {a}]

\* One peer, from a UDP tracker or local peer discovery.
addPeer(s, a) ==
    IF \/ Len(s.unused) >= MaxPeerListSize
       \/ isPeerAlreadyAdded(s, a)
       \/ isBadPeer(s, a)
    THEN s
    ELSE PushBack(s, a)

\* The last n untried peers are forgotten.
deleteUnusedPeer(s, n) ==
    LET keep == Max({0, Len(s.unused) - n})
        gone == ToSet(SubSeq(s.unused, keep + 1, Len(s.unused)))
    IN  [s EXCEPT !.unused = SubSeq(@, 1, keep), !.uniq = @ \ gone]

\* Several peers, the addresses S in any order, from an HTTP tracker, the DHT
\* or another peer: the list is cut when all the new ones are added.
addPeers(s, S) ==
    LET new == IF Len(s.unused) >= MaxPeerListSize THEN {}
               ELSE {a \in S : ~isPeerAlreadyAdded(s, a) /\ ~isBadPeer(s, a)}
        Added(o) == [s EXCEPT !.unused = @ \o o, !.uniq = @ \cup new]
        excess == Max({0, Len(s.unused) + Cardinality(new) - MaxPeerListSize})
    IN  {deleteUnusedPeer(Added(o), excess) : o \in SetToSeqs(new)}

\* The first untried peer goes to command c.
checkoutPeer(s, c) ==
    [s EXCEPT !.unused = Tail(@), !.used = @ \cup {[addr |-> Head(s.unused), by |-> c]}]

\* A peer that connected to us is refused when its address is in use.
MayAddAndCheckout(s, a) ==
    isPeerAlreadyAdded(s, a) => a \in ToSet(s.unused)

\* Fault: the untried peer with the same address is kept.
AddAndCheckoutTwice(s, a, c) ==
    checkoutPeer([s EXCEPT !.unused = <<a>> \o @, !.uniq = @ \cup {a}], c)

\* Otherwise it takes the place of the untried peer with its address.
addAndCheckoutPeer(s, a, c) ==
    checkoutPeer([s EXCEPT !.unused = <<a>> \o RemoveFirst(@, a),
                           !.uniq = @ \cup {a}], c)

\* The storage's part of returnPeer; the choking that may follow is in Swarm.
returnPeer(s, p) ==
    IF p \in s.used
    THEN [s EXCEPT !.used = @ \ {p}, !.uniq = @ \ {p.addr}]
    ELSE s

=============================================================================
