------------------------------ MODULE BtChoke ------------------------------
(***************************************************************************)
(* Whom to upload to: a choke round of BtLeecherStateChoke or of           *)
(* BtSeederStateChoke over the peers with a session.  q is a function from *)
(* the commands of those peers to their sessions (PeerSessionResource);    *)
(* the result of a round is a set, for the speeds, the times of the last   *)
(* block and the shuffling decide about the order of the peers.            *)
(***************************************************************************)
EXTENDS Integers, Sequences, FiniteSets, FiniteSetsExt, SequencesExt

CONSTANTS
    MaxCuid,        \* bound on the commands at a time
    UnchokeSlots    \* regular unchokers of a round: 3

ASSUME BtChokeAssumption ==
    MaxCuid \in Nat \ {0} /\ UnchokeSlots \in Nat \ {0}

Cuid == 1 .. MaxCuid

Session ==
    [amChoking : BOOLEAN, interested : BOOLEAN, required : BOOLEAN,
     opt : BOOLEAN, snub : BOOLEAN]

\* PeerSessionResource::PeerSessionResource
NewSession ==
    [amChoking |-> TRUE, interested |-> FALSE, required |-> TRUE,
     opt |-> FALSE, snub |-> FALSE]

shouldBeChoking(x) == ~x.opt /\ x.required

\* PeerSessionResource::snubbing(true)
Snubbed(x) == [x EXCEPT !.snub = TRUE, !.required = TRUE, !.opt = FALSE]

\* The first n elements of a sequence.
First(o, n) == ToSet(SubSeq(o, 1, Min({n, Len(o)})))

\* A round begins with no regular slots; the optimistic unchoke is kept by
\* one of the peers E that the round is about.
Cleared(q, E) ==
    [c \in DOMAIN q |-> [q[c] EXCEPT !.required = TRUE, !.opt = @ /\ c \in E]]

----------------------------------------------------------------------------
(***************************************************************************)
(* Leecher.                                                                *)
(***************************************************************************)

\* Fault: the peer chosen before stays chosen.
PlannedKeepsOld(q, E) ==
    LET waiting == {c \in E : q[c].amChoking /\ q[c].interested}
    IN  IF waiting = {} THEN {q} ELSE {[q EXCEPT ![c].opt = TRUE] : c \in waiting}

\* One of the peers that want to download and are choked gets the
\* optimistic unchoke, among the entries E.
plannedOptimisticUnchoke(q, E) ==
    LET r == [c \in DOMAIN q |-> IF c \in E THEN [q[c] EXCEPT !.opt = FALSE]
                                 ELSE q[c]]
        waiting == {c \in E : q[c].amChoking /\ q[c].interested}
    IN  IF waiting = {} THEN {r} ELSE {[r EXCEPT ![c].opt = TRUE] : c \in waiting}

\* The first peers in the order o, if they want to download; when one of
\* them had the optimistic unchoke, it goes to the first in the whole order
\* that wants to download.
regularUnchoke(q, o) ==
    LET regular == {c \in First(o, UnchokeSlots) : q[c].interested}
        r == [c \in DOMAIN q |->
                IF c \in regular THEN [q[c] EXCEPT !.required = FALSE, !.opt = FALSE]
                ELSE q[c]]
        lucky == o[Min({i \in DOMAIN o : q[o[i]].interested})]
    IN  IF \E c \in regular : q[c].opt THEN [r EXCEPT ![lucky].opt = TRUE] ELSE r

\* BtLeecherStateChoke::executeChoke, among the peers that are not snubbed.
LeecherRound(q, round) ==
    LET E == {c \in DOMAIN q : ~q[c].snub}
        planned == IF round = 0 THEN plannedOptimisticUnchoke(Cleared(q, E), E)
                   ELSE {Cleared(q, E)}
    IN  {regularUnchoke(r, o) : r \in planned, o \in SetToSeqs(E)}

----------------------------------------------------------------------------
(***************************************************************************)
(* Seeder.                                                                 *)
(***************************************************************************)

\* BtSeederStateChoke::unchoke of the peers in the order o; in the third
\* round one more, and the optimistic unchoke stays where it is.
unchoke(q, o, round) ==
    LET n == IF round = 2 THEN UnchokeSlots + 1 ELSE UnchokeSlots
        r == [c \in DOMAIN q |->
                [q[c] EXCEPT !.required = @ /\ c \notin First(o, n),
                             !.opt = @ /\ ~(round < 2 /\ c \in ToSet(o))]]
    IN  IF round < 2 /\ Len(o) > n THEN [r EXCEPT ![o[n + 1]].opt = TRUE] ELSE r

\* BtSeederStateChoke::executeChoke, among the peers that want to download.
SeederRound(q, round) ==
    LET E == {c \in DOMAIN q : q[c].interested}
    IN  {unchoke(Cleared(q, E), o, round) : o \in SetToSeqs(E)}

\* Fault: the rounds are not counted from the beginning again.
RoundsRunOut(round) == Min({round + 1, 2})

NextRound(round) == (round + 1) % 3

=============================================================================
