---------------------------- MODULE SwarmProofs ----------------------------
(***************************************************************************)
(* The peers of a download and the choice of those it uploads to, for any  *)
(* number of addresses, commands and upload slots and for lists of any     *)
(* length.                                                                 *)
(***************************************************************************)
EXTENDS Swarm, SetProofs

(***************************************************************************)
(* Sequences.                                                              *)
(***************************************************************************)

\* An order of a finite set has every element once.
LEMMA Orders ==
    ASSUME NEW S, IsFiniteSet(S), NEW o \in SetToSeqs(S)
    PROVE  /\ o \in Seq(S) /\ Len(o) = Cardinality(S)
           /\ IsInjective(o) /\ ToSet(o) = S
<1> DEFINE n == Cardinality(S)
<1>1. n \in Nat
  BY FS_CardinalityType
<1>2. o \in [1..n -> S] /\ \A i, j \in 1..n : i # j => o[i] # o[j]
  BY DEF SetToSeqs
<1>3. o \in Injection(1..n, S)
  BY <1>2 DEF Injection, IsInjective
<1>4. IsFiniteSet(1..n) /\ Cardinality(1..n) = n
  BY <1>1, FS_Interval
<1> HIDE DEF n
<1>5. o \in Surjection(1..n, S)
  BY <1>3, <1>4, FS_Injection DEF n
<1>6. ToSet(o) = S
  BY <1>2, <1>5 DEF Surjection, ToSet
<1>7. o \in Seq(S) /\ Len(o) = n
  BY <1>1, <1>2
<1> QED BY <1>3, <1>6, <1>7 DEF n, Injection

\* The first n of a sequence are n at most, and they are of the sequence.
LEMMA FirstOnes ==
    ASSUME NEW S, NEW o \in Seq(S), NEW n \in Nat
    PROVE  /\ IsFiniteSet(First(o, n)) /\ Cardinality(First(o, n)) <= n
           /\ First(o, n) \subseteq ToSet(o)
<1> DEFINE m == IF n <= Len(o) THEN n ELSE Len(o)
           q == SubSeq(o, 1, m)
<1>1. Min({n, Len(o)}) = m
  BY DEF Min
<1>2. q \in Seq(S) /\ Len(q) = m /\ m \in Nat /\ m <= n /\ m <= Len(o)
      /\ \A i \in 1..m : q[i] = o[i]
  OBVIOUS
<1>3. First(o, n) = ToSet(q)
  BY <1>1 DEF First
<1> HIDE DEF m, q
<1>4. q \in Surjection(1..m, ToSet(q))
  BY <1>2 DEF Surjection, ToSet
<1>5. IsFiniteSet(1..m) /\ Cardinality(1..m) = m
  BY <1>2, FS_Interval
<1>6. IsFiniteSet(ToSet(q)) /\ Cardinality(ToSet(q)) <= m
  BY <1>4, <1>5, FS_Surjection
<1>7. IsFiniteSet(ToSet(q)) /\ Cardinality(ToSet(q)) \in Nat
  BY <1>6, FS_CardinalityType
<1>8. ToSet(q) \subseteq ToSet(o)
  BY <1>2 DEF ToSet
<1> QED BY <1>2, <1>3, <1>6, <1>7, <1>8

----------------------------------------------------------------------------
(***************************************************************************)
(* Choke rounds.                                                           *)
(***************************************************************************)

\* q gives sessions to some commands.
Sessions(q) == q \in [DOMAIN q -> Session] /\ DOMAIN q \subseteq Cuid

\* At most one peer has the optimistic unchoke.
OneOpt(q) == \A c, d \in DOMAIN q : q[c].opt /\ q[d].opt => c = d

\* The peers that are unchoked for their speed.
Regular(q) == {c \in DOMAIN q : ~q[c].required}

Slotted(q, n) == Sessions(q) /\ OneOpt(q) /\ Cardinality(Regular(q)) <= n

\* Sets of commands are finite.
LEMMA CommandsFinite ==
    ASSUME NEW S \in SUBSET Cuid
    PROVE  IsFiniteSet(S) /\ Cardinality(S) \in Nat
<1>1. IsFiniteSet(Cuid)
  BY BtChokeAssumption, FS_Interval DEF Cuid
<1> QED BY <1>1, FS_Subset, FS_CardinalityType

\* With n regular slots, n + 1 peers at most are to be unchoked.
LEMMA SlottedUnchokes ==
    ASSUME NEW q, NEW n \in Nat, Slotted(q, n)
    PROVE  Cardinality({c \in DOMAIN q : ~shouldBeChoking(q[c])}) <= n + 1
<1> DEFINE A == {c \in DOMAIN q : q[c].opt}
           B == Regular(q)
           C == {c \in DOMAIN q : ~shouldBeChoking(q[c])}
<1>1. C = A \cup B
  BY DEF Slotted, Sessions, Session, shouldBeChoking, Regular
<1>2. /\ IsFiniteSet(A) /\ Cardinality(A) \in Nat
      /\ IsFiniteSet(B) /\ Cardinality(B) \in Nat
      /\ Cardinality(A \cap B) \in Nat
  <2>1. A \in SUBSET Cuid /\ B \in SUBSET Cuid /\ (A \cap B) \in SUBSET Cuid
    BY DEF Slotted, Sessions, Regular
  <2> QED BY <2>1, CommandsFinite
<1>3. Cardinality(A) <= 1
  <2>1. CASE A = {}
    BY <2>1, FS_EmptySet
  <2>2. CASE A # {}
    <3>1. PICK c \in A : TRUE
      BY <2>2
    <3>2. A = {c}
      BY <3>1 DEF Slotted, OneOpt
    <3> QED BY <3>2, FS_Singleton
  <2> QED BY <2>1, <2>2
<1>4. Cardinality(B) <= n
  BY DEF Slotted
<1> HIDE DEF A, B, C
<1>5. Cardinality(A \cup B) = Cardinality(A) + Cardinality(B) - Cardinality(A \cap B)
  BY <1>2, FS_Union
<1>6. Cardinality(C) <= n + 1
  BY <1>1, <1>2, <1>3, <1>4, <1>5
<1> QED BY <1>6 DEF C

\* A change of sessions that unchokes nobody.
LEMMA SlottedKept ==
    ASSUME NEW q, NEW r, NEW n \in Nat, Slotted(q, n), Sessions(r),
           \A c \in DOMAIN r :
             /\ r[c].opt => c \in DOMAIN q /\ q[c].opt
             /\ ~r[c].required => c \in DOMAIN q /\ ~q[c].required
    PROVE  Slotted(r, n)
<1>1. OneOpt(r)
  BY DEF Slotted, OneOpt
<1>2. Regular(r) \subseteq Regular(q) /\ Regular(q) \subseteq Cuid
  BY DEF Slotted, Regular, Sessions
<1>3. IsFiniteSet(Regular(q)) /\ Cardinality(Regular(q)) \in Nat
      /\ Cardinality(Regular(r)) \in Nat
  BY <1>2, CommandsFinite
<1>4. Cardinality(Regular(r)) <= Cardinality(Regular(q))
  BY <1>2, <1>3, FS_Subset
<1>5. Cardinality(Regular(q)) <= n
  BY DEF Slotted
<1> QED BY <1>1, <1>3, <1>4, <1>5 DEF Slotted

\* Sessions with changed marks.
LEMMA SessionMarks ==
    ASSUME NEW x \in Session, NEW a \in BOOLEAN, NEW b \in BOOLEAN
    PROVE  /\ [x EXCEPT !.required = a, !.opt = b] \in Session
           /\ [x EXCEPT !.required = a, !.opt = b].required = a
           /\ [x EXCEPT !.required = a, !.opt = b].opt = b
           /\ [x EXCEPT !.opt = b] \in Session
           /\ [x EXCEPT !.opt = b].required = x.required
           /\ [x EXCEPT !.opt = b].opt = b
           /\ x.required \in BOOLEAN /\ x.opt \in BOOLEAN
           /\ x.interested \in BOOLEAN /\ x.snub \in BOOLEAN
BY DEF Session

\* The optimistic unchoke given and taken.
LEMMA SessionOpt ==
    ASSUME NEW x \in Session
    PROVE  /\ [x EXCEPT !.opt = TRUE] \in Session
           /\ [x EXCEPT !.opt = TRUE].required = x.required
           /\ [x EXCEPT !.opt = FALSE] \in Session
           /\ [x EXCEPT !.opt = FALSE].required = x.required
           /\ ~[x EXCEPT !.opt = FALSE].opt
BY SessionMarks

\* What a round begins with.
LEMMA ClearedSessions ==
    ASSUME NEW q, NEW E, Sessions(q), OneOpt(q)
    PROVE  /\ Sessions(Cleared(q, E)) /\ OneOpt(Cleared(q, E))
           /\ DOMAIN Cleared(q, E) = DOMAIN q
           /\ \A c \in DOMAIN q : /\ Cleared(q, E)[c].required
                                  /\ Cleared(q, E)[c].opt => c \in E
<1>1. ASSUME NEW c \in DOMAIN q
      PROVE  /\ Cleared(q, E)[c] \in Session /\ Cleared(q, E)[c].required
             /\ Cleared(q, E)[c].opt <=> q[c].opt /\ c \in E
  <2>1. q[c] \in Session
    BY DEF Sessions
  <2> DEFINE b == q[c].opt /\ c \in E
  <2>2. Cleared(q, E)[c] = [q[c] EXCEPT !.required = TRUE, !.opt = b]
    BY DEF Cleared
  <2>3. b \in BOOLEAN /\ TRUE \in BOOLEAN
    OBVIOUS
  <2> HIDE DEF b
  <2>4. [q[c] EXCEPT !.required = TRUE, !.opt = b] \in Session
        /\ [q[c] EXCEPT !.required = TRUE, !.opt = b].required = TRUE
        /\ [q[c] EXCEPT !.required = TRUE, !.opt = b].opt = b
    BY <2>1, <2>3, SessionMarks
  <2> QED BY <2>2, <2>4 DEF b
<1>2. Cleared(q, E) = [c \in DOMAIN q |-> Cleared(q, E)[c]]
  BY DEF Cleared
<1> QED BY <1>1, <1>2 DEF Sessions, OneOpt

\* The round of a leecher: UnchokeSlots regular slots and an optimistic one.
\* In regularUnchoke the optimistic unchoke moves on only from a peer that
\* had it, and the planned one takes it from everybody else.
LEMMA LeecherSlots ==
    ASSUME NEW q, NEW round0, Sessions(q), OneOpt(q),
           NEW r \in LeecherRound(q, round0)
    PROVE  Slotted(r, UnchokeSlots) /\ DOMAIN r = DOMAIN q
<1> DEFINE E == {c \in DOMAIN q : ~q[c].snub}
           all == Cleared(q, E)
           planned == IF round0 = 0 THEN plannedOptimisticUnchoke(all, E) ELSE {all}
<1>1. PICK p \in planned, o \in SetToSeqs(E) : r = regularUnchoke(p, o)
  BY SMTT(60) DEF LeecherRound
<1>2. /\ Sessions(all) /\ OneOpt(all) /\ DOMAIN all = DOMAIN q
      /\ \A c \in DOMAIN q : all[c].required /\ (all[c].opt => c \in E)
  BY ClearedSessions
<1>3. E \in SUBSET Cuid
  BY DEF Sessions
<1>4. UnchokeSlots \in Nat
  BY BtChokeAssumption
<1> HIDE DEF E, all
<1>5. /\ Sessions(p) /\ OneOpt(p) /\ DOMAIN p = DOMAIN q
      /\ \A c \in DOMAIN q : p[c].required
  <2>1. CASE round0 # 0
    BY <1>1, <1>2, <2>1
  <2>2. CASE round0 = 0
    <3> DEFINE rest == [c \in DOMAIN all |->
                          IF c \in E THEN [all[c] EXCEPT !.opt = FALSE] ELSE all[c]]
    <3>1. /\ Sessions(rest) /\ DOMAIN rest = DOMAIN q
          /\ \A c \in DOMAIN q : rest[c].required /\ ~rest[c].opt
      BY <1>2, SessionOpt DEF Sessions
    <3>2. \/ p = rest
          \/ \E c \in E : p = [rest EXCEPT ![c].opt = TRUE]
      BY <1>1, <2>2 DEF plannedOptimisticUnchoke
    <3> HIDE DEF rest
    <3>3. CASE p = rest
      BY <3>1, <3>3 DEF OneOpt
    <3>4. CASE \E c \in E : p = [rest EXCEPT ![c].opt = TRUE]
      <4>1. PICK c \in E : p = [rest EXCEPT ![c].opt = TRUE]
        BY <3>4
      <4>2. DOMAIN p = DOMAIN rest
            /\ \A d \in DOMAIN rest :
                 p[d] = IF d = c THEN [rest[d] EXCEPT !.opt = TRUE] ELSE rest[d]
        BY <4>1
      <4>3. ASSUME NEW d \in DOMAIN rest
            PROVE  /\ p[d] \in Session /\ p[d].required = rest[d].required
                   /\ p[d].opt => d = c
        <5>1. rest[d] \in Session /\ ~rest[d].opt
          BY <3>1 DEF Sessions
        <5>2. CASE d = c
          BY <4>2, <5>1, <5>2, SessionOpt
        <5>3. CASE d # c
          BY <4>2, <5>1, <5>3
        <5> QED BY <5>2, <5>3
      <4>4. p = [d \in DOMAIN p |-> p[d]]
        BY <4>1
      <4> QED BY <3>1, <4>2, <4>3, <4>4 DEF Sessions, OneOpt
    <3> QED BY <3>2, <3>3, <3>4
  <2> QED BY <2>1, <2>2
<1>6. o \in Seq(E)
  BY <1>1, <1>3, CommandsFinite, Orders
<1> DEFINE F == First(o, UnchokeSlots)
           regular == {c \in F : p[c].interested}
           plain == [c \in DOMAIN p |->
                       IF c \in regular
                       THEN [p[c] EXCEPT !.required = FALSE, !.opt = FALSE] ELSE p[c]]
<1>7. IsFiniteSet(F) /\ Cardinality(F) <= UnchokeSlots
  BY <1>4, <1>6, FirstOnes
<1>8. IsFiniteSet(regular) /\ Cardinality(regular) <= UnchokeSlots
  <2> HIDE DEF F
  <2>1. regular \in SUBSET F
    OBVIOUS
  <2> HIDE DEF regular
  <2>2. IsFiniteSet(regular) /\ Cardinality(regular) <= Cardinality(F)
        /\ Cardinality(F) \in Nat /\ Cardinality(regular) \in Nat
    BY SMTT(60), <1>7, <2>1, FS_Subset, FS_CardinalityType
  <2> QED BY <1>4, <1>7, <2>2
<1>9. \/ r = plain /\ ~\E c \in regular : p[c].opt
      \/ /\ \E c \in regular : p[c].opt
         /\ \E l : r = [plain EXCEPT ![l].opt = TRUE]
  BY <1>1 DEF regularUnchoke
<1> HIDE DEF F, regular
<1>10. /\ Sessions(plain) /\ DOMAIN plain = DOMAIN q
       /\ \A c \in DOMAIN q : plain[c].opt => p[c].opt /\ c \notin regular
       /\ \A c \in DOMAIN q : ~plain[c].required => c \in regular
  <2>1. DOMAIN plain = DOMAIN p /\ DOMAIN p = DOMAIN q
    BY <1>5
  <2>2. ASSUME NEW c \in DOMAIN q
        PROVE  /\ plain[c] \in Session /\ (plain[c].opt => p[c].opt /\ c \notin regular)
               /\ (~plain[c].required => c \in regular)
    <3>1. p[c] \in Session /\ p[c].required
      BY <1>5 DEF Sessions
    <3>2. CASE c \in regular
      <4>1. plain[c] = [p[c] EXCEPT !.required = FALSE, !.opt = FALSE]
        BY <2>1, <3>2
      <4> HIDE DEF plain
      <4>2. plain[c] \in Session /\ plain[c].opt = FALSE
        BY <3>1, <4>1 DEF Session
      <4> QED BY <3>2, <4>2
    <3>3. CASE c \notin regular
      <4>1. plain[c] = p[c]
        BY <2>1, <3>3
      <4> HIDE DEF plain
      <4> QED BY <3>1, <3>3, <4>1
    <3> QED BY <3>2, <3>3
  <2>3. plain = [c \in DOMAIN plain |-> plain[c]]
    OBVIOUS
  <2> HIDE DEF plain
  <2>4. plain \in [DOMAIN q -> Session]
    BY <2>1, <2>2, <2>3
  <2> QED BY <2>1, <2>2, <2>3, <2>4 DEF Sessions
<1> HIDE DEF plain
<1>11. /\ Sessions(r) /\ OneOpt(r) /\ DOMAIN r = DOMAIN q
       /\ \A c \in DOMAIN q : ~r[c].required => c \in regular
  <2>1. CASE r = plain
    BY <1>5, <1>10, <2>1 DEF OneOpt
  <2>2. CASE /\ \E c \in regular : p[c].opt
             /\ \E l : r = [plain EXCEPT ![l].opt = TRUE]
    <3>1. PICK l : r = [plain EXCEPT ![l].opt = TRUE]
      BY <2>2
    <3>2. /\ DOMAIN r = DOMAIN plain
          /\ \A d \in DOMAIN plain :
               r[d] = IF d = l THEN [plain[d] EXCEPT !.opt = TRUE] ELSE plain[d]
      BY <3>1
    <3>3. ASSUME NEW d \in DOMAIN q
          PROVE  /\ r[d] \in Session /\ r[d].required = plain[d].required
                 /\ r[d].opt => d = l \/ plain[d].opt
      <4>1. plain[d] \in Session
        BY <1>10 DEF Sessions
      <4>2. CASE d = l
        BY <1>10, <3>2, <4>1, <4>2, SessionOpt
      <4>3. CASE d # l
        BY <1>10, <3>2, <4>1, <4>3
      <4> QED BY <4>2, <4>3
    <3>5. r = [d \in DOMAIN r |-> r[d]]
      BY <3>1
    <3>4. \A c \in DOMAIN q : ~plain[c].opt
      <4>1. regular \subseteq DOMAIN q
        <5>1. F \subseteq ToSet(o)
          BY <1>4, <1>6, FirstOnes DEF F
        <5>2. ToSet(o) \subseteq E
          BY <1>6 DEF ToSet
        <5> QED BY <5>1, <5>2 DEF E, regular
      <4> QED BY <1>5, <1>10, <2>2, <4>1 DEF OneOpt
    <3> QED BY <1>10, <3>2, <3>3, <3>4, <3>5 DEF OneOpt, Sessions
  <2> QED BY <1>9, <2>1, <2>2
<1>12. Regular(r) \subseteq regular
  BY <1>11 DEF Regular
<1>13. Cardinality(Regular(r)) <= Cardinality(regular)
       /\ Cardinality(Regular(r)) \in Nat /\ Cardinality(regular) \in Nat
  BY <1>8, <1>12, FS_Subset, FS_CardinalityType
<1> QED BY <1>4, <1>8, <1>11, <1>13 DEF Slotted

\* The round of a seeder: one more regular slot in the third round, in which
\* the optimistic unchoke of the round before is kept.
LEMMA SeederSlots ==
    ASSUME NEW q, NEW round0, Sessions(q), OneOpt(q),
           NEW r \in SeederRound(q, round0)
    PROVE  Slotted(r, UnchokeSlots + 1) /\ DOMAIN r = DOMAIN q
<1> DEFINE E == {c \in DOMAIN q : q[c].interested}
           all == Cleared(q, E)
           n == IF round0 = 2 THEN UnchokeSlots + 1 ELSE UnchokeSlots
<1>1. PICK o \in SetToSeqs(E) : r = unchoke(all, o, round0)
  BY DEF SeederRound
<1>2. /\ Sessions(all) /\ OneOpt(all) /\ DOMAIN all = DOMAIN q
      /\ \A c \in DOMAIN q : all[c].required /\ (all[c].opt => c \in E)
  BY ClearedSessions
<1>3. E \in SUBSET Cuid
  BY DEF Sessions
<1>4. UnchokeSlots \in Nat /\ n \in Nat /\ n <= UnchokeSlots + 1
  BY BtChokeAssumption
<1> HIDE DEF E, all
<1>5. o \in Seq(E) /\ ToSet(o) = E
  BY <1>1, <1>3, CommandsFinite, Orders
<1> DEFINE F == First(o, n)
           early == round0 < 2
           plain == [c \in DOMAIN all |->
                       [all[c] EXCEPT !.required = @ /\ c \notin F,
                                      !.opt = @ /\ ~(early /\ c \in ToSet(o))]]
<1>6. \/ r = plain
      \/ early /\ \E l : r = [plain EXCEPT ![l].opt = TRUE]
  BY <1>1 DEF unchoke
<1>7. IsFiniteSet(F) /\ Cardinality(F) <= UnchokeSlots + 1
  <2>1. IsFiniteSet(F) /\ Cardinality(F) <= n
    BY <1>4, <1>5, FirstOnes
  <2>2. Cardinality(F) \in Nat
    BY <2>1, FS_CardinalityType
  <2> QED BY <1>4, <2>1, <2>2
<1> HIDE DEF F, early, n
<1>8. ASSUME NEW c \in DOMAIN q
      PROVE  /\ plain[c] \in Session
             /\ plain[c].opt => all[c].opt /\ ~early
             /\ ~plain[c].required => c \in F
  <2> DEFINE a == all[c].required /\ c \notin F
             b == all[c].opt /\ ~(early /\ c \in ToSet(o))
  <2>1. plain[c] = [all[c] EXCEPT !.required = a, !.opt = b]
    BY <1>2
  <2>2. a \in BOOLEAN /\ b \in BOOLEAN
    OBVIOUS
  <2>3. all[c] \in Session
    BY <1>2 DEF Sessions
  <2>4. (~a => c \in F) /\ (b => all[c].opt /\ ~early)
    BY <1>2, <1>5
  <2> HIDE DEF a, b, plain
  <2>6. /\ [all[c] EXCEPT !.required = a, !.opt = b] \in Session
        /\ [all[c] EXCEPT !.required = a, !.opt = b].required = a
        /\ [all[c] EXCEPT !.required = a, !.opt = b].opt = b
    BY ZenonT(60), <2>2, <2>3, SessionMarks
  <2>5. plain[c] \in Session /\ plain[c].required = a /\ plain[c].opt = b
    BY <2>1, <2>6
  <2> QED BY <2>2, <2>4, <2>5
<1>9. DOMAIN plain = DOMAIN q /\ plain = [c \in DOMAIN q |-> plain[c]]
  BY <1>2
<1> HIDE DEF plain
<1>10. /\ Sessions(r) /\ OneOpt(r) /\ DOMAIN r = DOMAIN q
       /\ \A c \in DOMAIN q : ~r[c].required => c \in F
  <2>1. CASE r = plain
    <3>1. Sessions(r)
      BY <1>2, <1>8, <1>9, <2>1 DEF Sessions
    <3>2. OneOpt(r)
      BY <1>2, <1>8, <1>9, <2>1 DEF OneOpt
    <3> QED BY <1>8, <1>9, <2>1, <3>1, <3>2
  <2>2. CASE early /\ \E l : r = [plain EXCEPT ![l].opt = TRUE]
    <3>1. PICK l : r = [plain EXCEPT ![l].opt = TRUE]
      BY <2>2
    <3>2. /\ DOMAIN r = DOMAIN plain
          /\ \A d \in DOMAIN plain :
               r[d] = IF d = l THEN [plain[d] EXCEPT !.opt = TRUE] ELSE plain[d]
      BY <3>1
    <3>3. ASSUME NEW d \in DOMAIN q
          PROVE  /\ r[d] \in Session /\ r[d].required = plain[d].required
                 /\ r[d].opt => d = l
      <4>1. plain[d] \in Session /\ ~plain[d].opt
        BY <1>8, <2>2
      <4>2. CASE d = l
        BY <1>9, <3>2, <4>1, <4>2, SessionOpt
      <4>3. CASE d # l
        BY <1>9, <3>2, <4>1, <4>3
      <4> QED BY <4>2, <4>3
    <3>4. r = [d \in DOMAIN r |-> r[d]]
      BY <3>1
    <3> QED BY <1>2, <1>8, <1>9, <3>2, <3>3, <3>4 DEF Sessions, OneOpt
  <2> QED BY <1>6, <2>1, <2>2
<1>11. Regular(r) \subseteq F
  BY <1>10 DEF Regular
<1>12. Cardinality(Regular(r)) <= Cardinality(F)
       /\ Cardinality(Regular(r)) \in Nat /\ Cardinality(F) \in Nat
  BY <1>7, <1>11, FS_Subset, FS_CardinalityType
<1> QED BY <1>4, <1>7, <1>10, <1>12 DEF Slotted

----------------------------------------------------------------------------
(***************************************************************************)
(* The steps of the commands.                                              *)
(***************************************************************************)

\* The regular slots of the algorithm in use.
RegularSlots == UnchokeSlots + IF rt.finished THEN 1 ELSE 0

\* The number of regular slots is a number.
LEMMA RegularSlotsType ==
    /\ RegularSlots \in Nat /\ UnchokeSlots \in Nat
    /\ ~rt.finished => RegularSlots = UnchokeSlots
    /\ rt.finished => RegularSlots = UnchokeSlots + 1
BY BtChokeAssumption DEF RegularSlots

\* Whatever a round begins with, it ends within the slots.
LEMMA ChokeSlots ==
    ASSUME NEW x, Sessions(x.q), OneOpt(x.q), NEW y \in executeChoke(x)
    PROVE  Slotted(y.q, RegularSlots) /\ DOMAIN y.q = DOMAIN x.q
<1>1. PICK q \in IF rt.finished THEN SeederRound(x.q, x.round.seeder)
                 ELSE LeecherRound(x.q, x.round.leecher) :
        y = [q |-> q, round |-> CountRound(x.round)]
  BY DEF executeChoke
<1>2. y.q = q
  BY <1>1
<1>3. CASE rt.finished
  BY <1>1, <1>2, <1>3, SeederSlots, RegularSlotsType
<1>4. CASE ~rt.finished
  BY <1>1, <1>2, <1>4, LeecherSlots, RegularSlotsType
<1> QED BY <1>3, <1>4

----------------------------------------------------------------------------
(***************************************************************************)
(* The storage of peers.                                                   *)
(***************************************************************************)

\* The elements of a sequence that is cut in two.
LEMMA CutElements ==
    ASSUME NEW S, NEW s \in Seq(S), NEW k \in 0..Len(s),
           NEW a \in Seq(S), Len(a) = k, NEW b \in Seq(S), Len(b) = Len(s) - k,
           \A i \in 1..k : a[i] = s[i],
           \A i \in 1..(Len(s) - k) : b[i] = s[k + i]
    PROVE  /\ ToSet(s) = ToSet(a) \cup ToSet(b)
           /\ IsInjective(s) => /\ IsInjective(a) /\ IsInjective(b)
                                /\ ToSet(a) \cap ToSet(b) = {}
<1>1. DOMAIN a = 1..k /\ \A i \in 1..k : a[i] = s[i]
  OBVIOUS
<1>2. DOMAIN b = 1..(Len(s) - k) /\ \A i \in 1..(Len(s) - k) : b[i] = s[k + i]
  OBVIOUS
<1>3. Len(s) \in Nat /\ DOMAIN s = 1..Len(s) /\ k \in Nat /\ k <= Len(s)
  OBVIOUS
<1>4. ToSet(a) \subseteq ToSet(s) /\ ToSet(b) \subseteq ToSet(s)
  <2>1. ASSUME NEW i \in 1..(Len(s) - k) PROVE b[i] \in ToSet(s)
    <3>1. k + i \in DOMAIN s
      BY <1>3
    <3>2. s[k + i] \in ToSet(s)
      BY <3>1 DEF ToSet
    <3> QED BY <1>2, <3>2
  <2>2. ASSUME NEW i \in 1..k PROVE a[i] \in ToSet(s)
    <3>1. i \in DOMAIN s
      BY <1>3
    <3>2. s[i] \in ToSet(s)
      BY <3>1 DEF ToSet
    <3> QED BY <1>1, <3>2
  <2>3. ToSet(a) = {a[i] : i \in 1..k} /\ ToSet(b) = {b[i] : i \in 1..(Len(s) - k)}
    BY <1>1, <1>2 DEF ToSet
  <2> QED BY <2>1, <2>2, <2>3
<1>5. ToSet(s) \subseteq ToSet(a) \cup ToSet(b)
  <2>1. ASSUME NEW i \in 1..Len(s) PROVE s[i] \in ToSet(a) \cup ToSet(b)
    <3>1. CASE i <= k
      <4>1. i \in 1..k
        BY <1>3, <3>1
      <4>2. a[i] = s[i] /\ i \in DOMAIN a
        BY <1>1, <4>1
      <4>3. a[i] \in ToSet(a)
        BY <4>2 DEF ToSet
      <4> QED BY <4>2, <4>3
    <3>2. CASE ~(i <= k)
      <4>1. i - k \in 1..(Len(s) - k) /\ k + (i - k) = i
        BY <1>3, <3>2
      <4>2. b[i - k] = s[i] /\ i - k \in DOMAIN b
        BY <1>2, <4>1
      <4>3. b[i - k] \in ToSet(b)
        BY <4>2 DEF ToSet
      <4> QED BY <4>2, <4>3
    <3> QED BY <3>1, <3>2
  <2> QED BY <1>3, <2>1 DEF ToSet
<1>6. ASSUME IsInjective(s)
      PROVE  IsInjective(a) /\ IsInjective(b) /\ ToSet(a) \cap ToSet(b) = {}
  <2>1. \A i, j \in 1..Len(s) : s[i] = s[j] => i = j
    BY <1>3, <1>6 DEF IsInjective
  <2>2. IsInjective(a)
    BY SMTT(60), <1>1, <1>3, <2>1 DEF IsInjective
  <2>3. IsInjective(b)
    <3> SUFFICES ASSUME NEW i \in 1..(Len(s) - k), NEW j \in 1..(Len(s) - k), b[i] = b[j]
                 PROVE  i = j
      BY <1>2 DEF IsInjective
    <3>1. k + i \in 1..Len(s) /\ k + j \in 1..Len(s) /\ s[k + i] = s[k + j]
      BY <1>2, <1>3
    <3>2. k + i = k + j
      BY <2>1, <3>1
    <3> QED BY <1>3, <3>2
  <2>4. ASSUME NEW i \in 1..k, NEW j \in 1..(Len(s) - k), a[i] = b[j] PROVE FALSE
    <3>1. i \in 1..Len(s) /\ k + j \in 1..Len(s) /\ s[i] = s[k + j] /\ i # k + j
      BY <1>1, <1>2, <1>3, <2>4
    <3> QED BY <2>1, <3>1
  <2> QED BY <1>1, <1>2, <2>2, <2>3, <2>4 DEF ToSet
<1> QED BY <1>4, <1>5, <1>6

\* a and b are the first k elements of s and the others.
IsCut(s, k, a, b) ==
    /\ a = SubSeq(s, 1, k) /\ b = SubSeq(s, k + 1, Len(s))
    /\ Len(a) = k /\ Len(b) = Len(s) - k
    /\ \A i \in 1..k : a[i] = s[i]
    /\ \A i \in 1..(Len(s) - k) : b[i] = s[k + i]
    /\ ToSet(s) = ToSet(a) \cup ToSet(b)
    /\ IsInjective(s) => /\ IsInjective(a) /\ IsInjective(b)
                         /\ ToSet(a) \cap ToSet(b) = {}

\* The parts that SubSeq cuts off.
LEMMA CutSeq ==
    ASSUME NEW S, NEW s \in Seq(S), NEW k \in 0..Len(s)
    PROVE  \E a, b \in Seq(S) : IsCut(s, k, a, b)
<1> DEFINE a == SubSeq(s, 1, k)
           b == SubSeq(s, k + 1, Len(s))
<1>1. /\ a \in Seq(S) /\ Len(a) = k /\ \A i \in 1..k : a[i] = s[i]
      /\ b \in Seq(S) /\ Len(b) = Len(s) - k
      /\ \A i \in 1..(Len(s) - k) : b[i] = s[k + i]
  OBVIOUS
<1>2. a = SubSeq(s, 1, k) /\ b = SubSeq(s, k + 1, Len(s))
  OBVIOUS
<1> HIDE DEF a, b
<1>3. /\ ToSet(s) = ToSet(a) \cup ToSet(b)
      /\ IsInjective(s) => /\ IsInjective(a) /\ IsInjective(b)
                           /\ ToSet(a) \cap ToSet(b) = {}
  BY <1>1, CutElements
<1> QED BY <1>1, <1>2, <1>3 DEF IsCut

\* The first element and the others.
LEMMA HeadTail ==
    ASSUME NEW S, NEW s \in Seq(S), s # <<>>
    PROVE  /\ Tail(s) \in Seq(S) /\ Len(Tail(s)) = Len(s) - 1 /\ Head(s) \in S
           /\ ToSet(s) = {Head(s)} \cup ToSet(Tail(s))
           /\ IsInjective(s) => IsInjective(Tail(s)) /\ Head(s) \notin ToSet(Tail(s))
<1>1. Len(s) \in Nat /\ 1 \in 0..Len(s) /\ Head(s) = s[1] /\ Head(s) \in S
  OBVIOUS
<1>2. PICK a, b \in Seq(S) : IsCut(s, 1, a, b)
  BY <1>1, CutSeq
<1>4. Tail(s) = b
  BY <1>2 DEF IsCut
<1>5. a[1] = s[1] /\ DOMAIN a = {1}
  BY <1>2 DEF IsCut
<1>6. ToSet(a) = {s[1]}
  BY <1>5 DEF ToSet
<1> QED BY <1>1, <1>2, <1>4, <1>6 DEF IsCut

InUse == [addr : Addr, by : Cuid]

Storage ==
    [unused : Seq(Addr), used : SUBSET InUse, uniq : SUBSET Addr,
     bad : SUBSET {IpOf[a] : a \in Addr}]

UsedAddrs(s) == {p.addr : p \in s.used}

\* Every address is known once.
Tidy(s) ==
    /\ s \in Storage
    /\ IsInjective(s.unused)
    /\ \A p, q \in s.used : p.addr = q.addr => p = q
    /\ ToSet(s.unused) \cap UsedAddrs(s) = {}
    /\ s.uniq = ToSet(s.unused) \cup UsedAddrs(s)

\* A new address at the end of the list.
LEMMA TidyPush ==
    ASSUME NEW s, Tidy(s), NEW a \in Addr, a \notin s.uniq
    PROVE  /\ Tidy(PushBack(s, a)) /\ PushBack(s, a).used = s.used
           /\ Len(PushBack(s, a).unused) = Len(s.unused) + 1
<1>1. s \in Storage /\ s.unused \in Seq(Addr)
  BY DEF Tidy, Storage
<1> DEFINE u == Append(s.unused, a)
           t == PushBack(s, a)
<1>2. u \in Seq(Addr) /\ Len(u) = Len(s.unused) + 1
  BY <1>1
<1>3. a \notin ToSet(s.unused) /\ IsInjective(s.unused)
  BY DEF Tidy
<1>4. ToSet(u) = ToSet(s.unused) \cup {a} /\ IsInjective(u)
  BY <1>1, <1>3, AppendIs
<1>5. t = [s EXCEPT !.unused = u, !.uniq = @ \cup {a}]
  BY DEF PushBack
<1> HIDE DEF u, t
<1>6. /\ t \in Storage /\ t.unused = u /\ t.used = s.used /\ t.uniq = s.uniq \cup {a}
  BY <1>1, <1>2, <1>5 DEF Storage
<1>7. UsedAddrs(t) = UsedAddrs(s)
  BY <1>6 DEF UsedAddrs
<1>8. Tidy(t)
  BY <1>4, <1>6, <1>7 DEF Tidy
<1> QED BY <1>2, <1>6, <1>8 DEF t

\* The end of the list is cut off.
LEMMA TidyDelete ==
    ASSUME NEW s, Tidy(s), NEW n \in Nat
    PROVE  /\ Tidy(deleteUnusedPeer(s, n)) /\ deleteUnusedPeer(s, n).used = s.used
           /\ Len(deleteUnusedPeer(s, n).unused)
                = IF n <= Len(s.unused) THEN Len(s.unused) - n ELSE 0
<1>1. s \in Storage /\ s.unused \in Seq(Addr) /\ Len(s.unused) \in Nat
  BY DEF Tidy, Storage
<1> DEFINE k == IF n <= Len(s.unused) THEN Len(s.unused) - n ELSE 0
           t == deleteUnusedPeer(s, n)
<1>2. k \in 0..Len(s.unused) /\ Max({0, Len(s.unused) - n}) = k
  BY <1>1 DEF Max
<1> HIDE DEF k
<1>3. PICK u, v \in Seq(Addr) : IsCut(s.unused, k, u, v)
  BY <1>1, <1>2, CutSeq
<1>4. u = SubSeq(s.unused, 1, k) /\ v = SubSeq(s.unused, k + 1, Len(s.unused))
  BY <1>3 DEF IsCut
<1>5. Len(u) = k /\ ToSet(s.unused) = ToSet(u) \cup ToSet(v)
  BY <1>3 DEF IsCut
<1>6. IsInjective(u) /\ ToSet(u) \cap ToSet(v) = {}
  BY <1>3 DEF IsCut, Tidy
<1>7. t = [s EXCEPT !.unused = u, !.uniq = @ \ ToSet(v)]
  BY <1>2, <1>4 DEF deleteUnusedPeer
<1> HIDE DEF t
<1>8. t \in Storage /\ t.unused = u /\ t.used = s.used /\ t.uniq = s.uniq \ ToSet(v)
  BY <1>1, <1>7 DEF Storage
<1>9. UsedAddrs(t) = UsedAddrs(s)
  BY <1>8 DEF UsedAddrs
<1>10. Tidy(t)
  BY <1>5, <1>6, <1>8, <1>9 DEF Tidy
<1> QED BY <1>5, <1>8, <1>10 DEF t, k

\* The first of the list goes to a command.
LEMMA TidyCheckout ==
    ASSUME NEW s, Tidy(s), s.unused # <<>>, NEW c \in Cuid
    PROVE  /\ Tidy(checkoutPeer(s, c)) /\ Head(s.unused) \in Addr
           /\ checkoutPeer(s, c).used = s.used \cup {[addr |-> Head(s.unused), by |-> c]}
           /\ Len(checkoutPeer(s, c).unused) = Len(s.unused) - 1
<1>1. s \in Storage /\ s.unused \in Seq(Addr)
  BY DEF Tidy, Storage
<1> DEFINE u == Tail(s.unused)
           a == Head(s.unused)
           p == [addr |-> a, by |-> c]
           t == checkoutPeer(s, c)
<1>2. /\ u \in Seq(Addr) /\ Len(u) = Len(s.unused) - 1 /\ a \in Addr
      /\ ToSet(s.unused) = {a} \cup ToSet(u)
      /\ IsInjective(u) /\ a \notin ToSet(u)
  <2>1. IsInjective(s.unused)
    BY DEF Tidy
  <2> QED BY <1>1, <2>1, HeadTail
<1>3. t = [s EXCEPT !.unused = u, !.used = @ \cup {p}]
  BY DEF checkoutPeer
<1>4. p \in InUse /\ p.addr = a
  BY <1>2 DEF InUse
<1> HIDE DEF u, a, p, t
<1>5. t \in Storage /\ t.unused = u /\ t.used = s.used \cup {p} /\ t.uniq = s.uniq
  BY <1>1, <1>2, <1>3, <1>4 DEF Storage
<1>6. UsedAddrs(t) = UsedAddrs(s) \cup {a}
  BY <1>4, <1>5 DEF UsedAddrs
<1>7. a \notin UsedAddrs(s)
  BY <1>2 DEF Tidy
<1>8. \A q \in s.used : q.addr # a
  BY <1>7 DEF UsedAddrs
<1>9. Tidy(t)
  BY <1>2, <1>4, <1>5, <1>6, <1>7, <1>8 DEF Tidy
<1> QED BY <1>2, <1>5, <1>9 DEF t, p, a

\* A peer that is returned.
LEMMA TidyReturn ==
    ASSUME NEW s, Tidy(s), NEW p
    PROVE  /\ Tidy(returnPeer(s, p)) /\ returnPeer(s, p).used = s.used \ {p}
           /\ returnPeer(s, p).unused = s.unused
<1> DEFINE t == returnPeer(s, p)
<1>1. CASE p \notin s.used
  BY <1>1 DEF returnPeer
<1>2. CASE p \in s.used
  <2>1. s \in Storage
    BY DEF Tidy
  <2>2. t = [s EXCEPT !.used = @ \ {p}, !.uniq = @ \ {p.addr}]
    BY <1>2 DEF returnPeer
  <2> HIDE DEF t
  <2>3. /\ t \in Storage /\ t.unused = s.unused /\ t.used = s.used \ {p}
        /\ t.uniq = s.uniq \ {p.addr}
    BY <2>1, <2>2 DEF Storage
  <2>4. UsedAddrs(t) = UsedAddrs(s) \ {p.addr}
    BY <1>2, <2>3 DEF UsedAddrs, Tidy
  <2>5. p.addr \notin ToSet(s.unused)
    BY <1>2 DEF Tidy, UsedAddrs
  <2>6. Tidy(t)
    BY <2>3, <2>4, <2>5 DEF Tidy
  <2> QED BY <2>3, <2>6 DEF t
<1> QED BY <1>1, <1>2

\* A list without an element that it may have.
LEMMA RemoveOne ==
    ASSUME NEW S, NEW s \in Seq(S), NEW e, IsInjective(s)
    PROVE  /\ RemoveFirst(s, e) \in Seq(S) /\ IsInjective(RemoveFirst(s, e))
           /\ ToSet(RemoveFirst(s, e)) = ToSet(s) \ {e}
           /\ Len(RemoveFirst(s, e)) <= Len(s)
<1>0. Len(s) \in Nat /\ \A x : x \in ToSet(s) <=> \E i \in 1 .. Len(s) : s[i] = x
  BY SeqIs
<1>1. CASE e \notin ToSet(s)
  <2>1. RemoveFirst(s, e) = s
    BY <1>0, <1>1 DEF RemoveFirst
  <2> QED BY <1>0, <1>1, <2>1
<1>2. CASE e \in ToSet(s)
  <2>1. PICK t : t = RemoveFirst(s, e)
    OBVIOUS
  <2>2. /\ t \in Seq(S) /\ Len(t) = Len(s) - 1
        /\ ToSet(t) \subseteq ToSet(s) /\ ToSet(s) \subseteq ToSet(t) \cup {e}
        /\ IsInjective(t) /\ e \notin ToSet(t)
    BY <1>2, <2>1, RemoveIs
  <2>3. ToSet(t) = ToSet(s) \ {e}
    BY <2>2
  <2> QED BY <1>0, <2>1, <2>2, <2>3
<1> QED BY <1>1, <1>2

\* The peers of a list are added and the list is cut.
LEMMA TidyAddMany ==
    ASSUME NEW s, Tidy(s), Len(s.unused) <= MaxPeerListSize,
           NEW S \in SUBSET Addr, IsFiniteSet(S), NEW t \in addPeers(s, S)
    PROVE  Tidy(t) /\ t.used = s.used /\ Len(t.unused) <= MaxPeerListSize
<1> DEFINE new == IF Len(s.unused) >= MaxPeerListSize THEN {}
                  ELSE {a \in S : ~isPeerAlreadyAdded(s, a) /\ ~isBadPeer(s, a)}
           Added(o) == [s EXCEPT !.unused = @ \o o, !.uniq = @ \cup new]
           excess == Max({0, Len(s.unused) + Cardinality(new) - MaxPeerListSize})
<1>1. PICK o \in SetToSeqs(new) : t = deleteUnusedPeer(Added(o), excess)
  BY DEF addPeers
<1>2. /\ s \in Storage /\ s.unused \in Seq(Addr) /\ Len(s.unused) \in Nat
      /\ IsInjective(s.unused) /\ MaxPeerListSize \in Nat
  BY PeerStorageAssumption DEF Tidy, Storage
<1>3. new \in SUBSET S /\ new \cap s.uniq = {}
  BY DEF isPeerAlreadyAdded
<1> DEFINE n == Cardinality(new)
           u == s.unused \o o
           r == Added(o)
<1>4. r = [s EXCEPT !.unused = u, !.uniq = @ \cup new]
  OBVIOUS
<1> HIDE DEF new
<1>5. IsFiniteSet(new) /\ n \in Nat
  BY <1>3, FS_Subset, FS_CardinalityType
<1>6. o \in Seq(new) /\ Len(o) = n /\ IsInjective(o) /\ ToSet(o) = new
  BY <1>1, <1>5, Orders
<1>7. o \in Seq(Addr)
  BY <1>3, <1>6
<1>8. u \in Seq(Addr) /\ Len(u) = Len(s.unused) + n
  BY <1>2, <1>6, <1>7
<1>9. ToSet(u) = ToSet(s.unused) \cup new /\ IsInjective(u)
  <2>1. ToSet(s.unused) \cap ToSet(o) = {}
    BY <1>3, <1>6 DEF Tidy
  <2> QED BY <1>2, <1>6, <1>7, <2>1, ConcatIs
<1>10. /\ excess \in Nat
       /\ excess = IF Len(u) <= MaxPeerListSize THEN 0 ELSE Len(u) - MaxPeerListSize
  <2>1. Len(s.unused) + n - MaxPeerListSize \in Int
    BY <1>2, <1>5
  <2>2. excess = IF 0 >= Len(s.unused) + n - MaxPeerListSize THEN 0
                 ELSE Len(s.unused) + n - MaxPeerListSize
    BY <2>1, MaxOfTwo
  <2> HIDE DEF excess, n
  <2> QED BY <1>2, <1>5, <1>8, <2>2
<1> HIDE DEF u, r, n, excess
<1>11. r \in Storage /\ r.unused = u /\ r.used = s.used /\ r.uniq = s.uniq \cup new
  BY <1>2, <1>3, <1>4, <1>8 DEF Storage
<1>12. UsedAddrs(r) = UsedAddrs(s)
  BY <1>11 DEF UsedAddrs
<1>13. Tidy(r)
  BY <1>3, <1>9, <1>11, <1>12 DEF Tidy
<1>14. t = deleteUnusedPeer(r, excess)
  BY <1>1 DEF r
<1>15. /\ Tidy(t) /\ t.used = r.used
       /\ Len(t.unused) = IF excess <= Len(u) THEN Len(u) - excess ELSE 0
  BY <1>10, <1>11, <1>13, <1>14, TidyDelete
<1>16. Len(u) \in Nat
  BY <1>8
<1> QED BY <1>2, <1>10, <1>11, <1>15, <1>16

\* A peer that connected to us, with an address that is not in use.
LEMMA TidyAddAndCheckout ==
    ASSUME NEW s, Tidy(s), Len(s.unused) <= MaxPeerListSize, NEW a \in Addr,
           NEW c \in Cuid, MayAddAndCheckout(s, a)
    PROVE  /\ Tidy(addAndCheckoutPeer(s, a, c))
           /\ addAndCheckoutPeer(s, a, c).used = s.used \cup {[addr |-> a, by |-> c]}
           /\ Len(addAndCheckoutPeer(s, a, c).unused) <= MaxPeerListSize
<1>1. s \in Storage /\ s.unused \in Seq(Addr) /\ Len(s.unused) \in Nat
      /\ IsInjective(s.unused) /\ MaxPeerListSize \in Nat
  BY PeerStorageAssumption DEF Tidy, Storage
<1> DEFINE w == RemoveFirst(s.unused, a)
           v == <<a>>
           u == v \o w
           t == [s EXCEPT !.unused = u, !.uniq = @ \cup {a}]
<1>2. addAndCheckoutPeer(s, a, c) = checkoutPeer(t, c)
  BY DEF addAndCheckoutPeer
<1>3. w \in Seq(Addr) /\ IsInjective(w) /\ ToSet(w) = ToSet(s.unused) \ {a}
      /\ Len(w) <= Len(s.unused)
  BY <1>1, RemoveOne
<1> HIDE DEF w
<1>4. v \in Seq(Addr) /\ ToSet(v) = {a} /\ IsInjective(v) /\ Len(v) = 1
  BY DEF ToSet, IsInjective
<1>6. Len(u) = Len(w) + 1 /\ Head(u) = a /\ u # <<>> /\ Len(w) \in Nat
  BY <1>3
<1> HIDE DEF v
<1>5. /\ u \in Seq(Addr) /\ ToSet(u) = ToSet(s.unused) \cup {a} /\ IsInjective(u)
  <2>1. ToSet(v) \cap ToSet(w) = {}
    BY <1>3, <1>4
  <2>2. v \o w \in Seq(Addr) /\ ToSet(v \o w) = ToSet(v) \cup ToSet(w) /\ IsInjective(v \o w)
    BY <1>3, <1>4, <2>1, ConcatIs
  <2> QED BY <1>3, <1>4, <2>2
<1>7. a \notin UsedAddrs(s)
  BY DEF MayAddAndCheckout, isPeerAlreadyAdded, Tidy
<1> HIDE DEF u
<1>8. t \in Storage /\ t.unused = u /\ t.used = s.used /\ t.uniq = s.uniq \cup {a}
  BY <1>1, <1>5 DEF Storage
<1> HIDE DEF t
<1>9. UsedAddrs(t) = UsedAddrs(s)
  BY <1>8 DEF UsedAddrs
<1>10. Tidy(t)
  BY <1>5, <1>7, <1>8, <1>9 DEF Tidy
<1>11. /\ Tidy(checkoutPeer(t, c))
       /\ checkoutPeer(t, c).used = t.used \cup {[addr |-> Head(t.unused), by |-> c]}
       /\ Len(checkoutPeer(t, c).unused) = Len(t.unused) - 1
  BY <1>6, <1>8, <1>10, TidyCheckout
<1> QED BY <1>1, <1>2, <1>3, <1>6, <1>8, <1>11

\* The place of a command among free slots: the slots are numbered through.
RankIn(F, c) == Cardinality({d \in F : d <= c})

\* Ranks are different and leave none out.
LEMMA Ranks ==
    ASSUME NEW F \in SUBSET Cuid
    PROVE  /\ \A c \in F : RankIn(F, c) \in 1..Cardinality(F)
           /\ \A c, d \in F : RankIn(F, c) = RankIn(F, d) => c = d
           /\ \A k \in 1..Cardinality(F) : \E c \in F : RankIn(F, c) = k
<1> DEFINE n == Cardinality(F)
           Up(c) == {d \in F : d <= c}
<1>1. IsFiniteSet(F) /\ n \in Nat
  BY CommandsFinite
<1>2. \A c \in F : c \in Int
  BY DEF Cuid
<1>3. ASSUME NEW c \in F PROVE /\ RankIn(F, c) \in 1..n
  <2>1. Up(c) \in SUBSET F /\ c \in Up(c)
    BY <1>2
  <2> HIDE DEF Up
  <2>2. IsFiniteSet(Up(c)) /\ Cardinality(Up(c)) \in Nat /\ Cardinality(Up(c)) <= n
    BY <1>1, <2>1, FS_Subset, FS_CardinalityType
  <2>3. Cardinality(Up(c)) # 0
    BY <2>1, <2>2, FS_EmptySet
  <2> QED BY <1>1, <2>2, <2>3 DEF RankIn, Up
<1>4. ASSUME NEW c \in F, NEW d \in F, c < d PROVE RankIn(F, c) # RankIn(F, d)
  <2>1. Up(c) \in SUBSET Up(d) /\ d \in Up(d) /\ d \notin Up(c) /\ Up(d) \in SUBSET F
    BY <1>2, <1>4
  <2>2. IsFiniteSet(Up(d))
    BY <1>1, <2>1, FS_Subset
  <2>3. Cardinality(Up(c)) # Cardinality(Up(d))
    <3> HIDE DEF Up
    <3> QED BY <2>1, <2>2, FS_Subset
  <2> QED BY <2>3 DEF RankIn
<1>5. ASSUME NEW c \in F, NEW d \in F, RankIn(F, c) = RankIn(F, d) PROVE c = d
  <2>1. c < d \/ d < c \/ c = d
    BY <1>2
  <2> QED BY <1>4, <1>5, <2>1
<1> DEFINE f == [c \in F |-> RankIn(F, c)]
<1>6. f \in Injection(F, 1..n)
  BY <1>3, <1>5 DEF Injection, IsInjective
<1>7. IsFiniteSet(1..n) /\ Cardinality(1..n) = n
  BY <1>1, FS_Interval
<1>8. f \in Surjection(F, 1..n)
  <2> HIDE DEF f
  <2> QED BY <1>1, <1>6, <1>7, FS_Injection
<1>9. \A k \in 1..n : \E c \in F : RankIn(F, c) = k
  BY <1>8 DEF Surjection
<1> QED BY <1>3, <1>5, <1>9

\* The first n of the slots F, and what they take from the list.
FirstSlots(F, n) == {c \in F : RankIn(F, c) <= n}
Taken(s, F, n) ==
    {[addr |-> s.unused[RankIn(F, c)], by |-> c] : c \in FirstSlots(F, n)}

\* The first n of the list go to the first n free slots.
LEMMA TidyConnect ==
    ASSUME NEW s, Tidy(s), NEW F \in SUBSET Cuid,
           NEW n \in 0..Len(s.unused), n <= Cardinality(F),
           NEW t, t = [s EXCEPT !.unused = SubSeq(@, n + 1, Len(@)),
                                !.used = @ \cup Taken(s, F, n)]
    PROVE  /\ Tidy(t) /\ Len(t.unused) <= Len(s.unused)
           /\ t.used = s.used \cup Taken(s, F, n)
           /\ \A c \in FirstSlots(F, n) : s.unused[RankIn(F, c)] \in Addr
<1> DEFINE new == FirstSlots(F, n)
<1>1. /\ s \in Storage /\ s.unused \in Seq(Addr) /\ Len(s.unused) \in Nat
      /\ IsInjective(s.unused) /\ DOMAIN s.unused = 1..Len(s.unused)
  BY DEF Tidy, Storage
<1>2. PICK u, v \in Seq(Addr) : IsCut(s.unused, n, u, v)
  BY <1>1, CutSeq
<1> DEFINE At(c) == s.unused[RankIn(F, c)]
           Peers == {[addr |-> At(c), by |-> c] : c \in new}
<1> HIDE DEF new
<1>3. Cardinality(F) \in Nat
  BY CommandsFinite
<1>4. ASSUME NEW c \in new
      PROVE  /\ RankIn(F, c) \in 1..n /\ RankIn(F, c) \in 1..Len(s.unused)
             /\ At(c) \in Addr /\ c \in F /\ c \in Cuid
  <2>1. c \in F /\ RankIn(F, c) \in 1..Cardinality(F) /\ RankIn(F, c) <= n
    BY Ranks DEF new, FirstSlots
  <2>2. RankIn(F, c) \in 1..n /\ RankIn(F, c) \in 1..Len(s.unused)
    BY <1>1, <1>3, <2>1
  <2> QED BY <1>1, <2>1, <2>2
<1>5. \A k \in 1..n : \E c \in new : RankIn(F, c) = k
  <2>1. ASSUME NEW k \in 1..n PROVE \E c \in new : RankIn(F, c) = k
    <3>1. k \in 1..Cardinality(F) /\ k <= n
      BY <1>3
    <3>2. PICK c \in F : RankIn(F, c) = k
      BY <3>1, Ranks
    <3> QED BY <3>1, <3>2 DEF new, FirstSlots
  <2> QED BY <2>1
<1>6. /\ v = SubSeq(s.unused, n + 1, Len(s.unused)) /\ Len(v) = Len(s.unused) - n
      /\ Len(u) = n /\ \A i \in 1..n : u[i] = s.unused[i]
      /\ ToSet(s.unused) = ToSet(u) \cup ToSet(v)
  BY <1>2 DEF IsCut
<1>7. IsInjective(v) /\ ToSet(u) \cap ToSet(v) = {}
  BY <1>1, <1>2 DEF IsCut
<1>8. t = [s EXCEPT !.unused = v, !.used = @ \cup Peers]
  BY <1>6 DEF new, Taken
<1>9. ToSet(u) = {At(c) : c \in new}
  <2>1. DOMAIN u = 1..n
    BY <1>6
  <2>2. ASSUME NEW c \in new PROVE At(c) \in ToSet(u)
    BY <1>4, <1>6, <2>1 DEF ToSet
  <2>3. ASSUME NEW i \in 1..n PROVE u[i] \in {At(c) : c \in new}
    <3>1. PICK c \in new : RankIn(F, c) = i
      BY <1>5
    <3> QED BY <1>6, <3>1
  <2> QED BY <2>1, <2>2, <2>3 DEF ToSet
<1>10. \A c, d \in new : At(c) = At(d) => c = d
  <2>1. \A i, j \in 1..Len(s.unused) : s.unused[i] = s.unused[j] => i = j
    BY <1>1 DEF IsInjective
  <2>2. \A c, d \in new : At(c) = At(d) => RankIn(F, c) = RankIn(F, d)
    BY <1>4, <2>1
  <2> QED BY <1>4, <2>2, Ranks
<1> HIDE DEF At
<1>11. Peers \in SUBSET InUse /\ \A p \in Peers : p.addr \in ToSet(u)
  BY <1>4, <1>9 DEF InUse
<1>12. \A p, q \in Peers : p.addr = q.addr => p = q
  BY <1>10
<1>13. ASSUME NEW a \in ToSet(u) PROVE \E p \in Peers : p.addr = a
  <2>1. PICK c \in new : a = At(c)
    BY <1>9
  <2>2. [addr |-> At(c), by |-> c] \in Peers /\ [addr |-> At(c), by |-> c].addr = a
    BY <2>1
  <2> HIDE DEF Peers
  <2> QED BY <2>2
<1> HIDE DEF Peers
<1>14. t \in Storage /\ t.unused = v /\ t.used = s.used \cup Peers /\ t.uniq = s.uniq
  BY <1>1, <1>8, <1>11 DEF Storage
<1>15. UsedAddrs(t) = UsedAddrs(s) \cup ToSet(u)
  BY <1>11, <1>13, <1>14 DEF UsedAddrs
<1>16. ToSet(u) \cap UsedAddrs(s) = {} /\ ToSet(v) \cap UsedAddrs(s) = {}
  BY <1>6 DEF Tidy
<1>17. \A p, q \in t.used : p.addr = q.addr => p = q
  <2>1. \A p \in s.used, q \in Peers : p.addr # q.addr
    BY <1>11, <1>16 DEF UsedAddrs
  <2>2. \A p, q \in s.used : p.addr = q.addr => p = q
    BY DEF Tidy
  <2> QED BY <1>12, <1>14, <2>1, <2>2
<1>18. t.uniq = ToSet(v) \cup UsedAddrs(t)
  BY <1>6, <1>14, <1>15 DEF Tidy
<1>19. Tidy(t)
  BY <1>7, <1>14, <1>15, <1>16, <1>17, <1>18 DEF Tidy
<1>20. Len(t.unused) <= Len(s.unused)
  BY <1>1, <1>6, <1>14
<1> QED BY <1>4, <1>14, <1>19, <1>20 DEF At, Peers, Taken, new

----------------------------------------------------------------------------
(***************************************************************************)
(* Sessions and rounds in the steps of a command.                          *)
(***************************************************************************)
IsChokings(x) == x = [q |-> x.q, round |-> x.round]

\* A round.
LEMMA ChokeKeeps ==
    ASSUME NEW x, IsChokings(x), Slotted(x.q, RegularSlots), NEW y \in executeChoke(x)
    PROVE  IsChokings(y) /\ Slotted(y.q, RegularSlots) /\ DOMAIN y.q = DOMAIN x.q
<1>1. Slotted(y.q, RegularSlots) /\ DOMAIN y.q = DOMAIN x.q
  BY ChokeSlots DEF Slotted
<1>2. IsChokings(y)
  BY DEF executeChoke, IsChokings
<1> QED BY <1>1, <1>2

\* The session of a command ends.
LEMMA ReturningKeeps ==
    ASSUME NEW x, IsChokings(x), Slotted(x.q, RegularSlots), NEW c,
           NEW y \in onReturningPeer(c, x)
    PROVE  IsChokings(y) /\ Slotted(y.q, RegularSlots) /\ DOMAIN y.q = DOMAIN x.q \ {c}
<1> DEFINE r == [d \in DOMAIN x.q \ {c} |-> x.q[d]]
           rest == [x EXCEPT !.q = r]
<1>1. DOMAIN r = DOMAIN x.q \ {c} /\ \A d \in DOMAIN r : r[d] = x.q[d]
  OBVIOUS
<1>2. Sessions(r)
  BY DEF Slotted, Sessions
<1>3. y = rest \/ y \in executeChoke(rest)
  BY DEF onReturningPeer
<1> HIDE DEF r
<1>4. rest = [q |-> r, round |-> x.round]
  BY DEF IsChokings
<1> HIDE DEF rest
<1>5. IsChokings(rest) /\ rest.q = r
  BY <1>4 DEF IsChokings
<1>6. Slotted(r, RegularSlots)
  BY <1>1, <1>2, SlottedKept, RegularSlotsType
<1> QED BY <1>1, <1>3, <1>5, <1>6, ChokeKeeps

\* One session is changed to one that is not unchoked more.
LEMMA ChangeKeeps ==
    ASSUME NEW x, IsChokings(x), Slotted(x.q, RegularSlots), NEW c \in DOMAIN x.q,
           NEW z \in Session, z.opt => x.q[c].opt, ~z.required => ~x.q[c].required,
           NEW y, y = [q |-> [x.q EXCEPT ![c] = z], round |-> x.round]
    PROVE  IsChokings(y) /\ Slotted(y.q, RegularSlots) /\ DOMAIN y.q = DOMAIN x.q
<1> DEFINE r == [x.q EXCEPT ![c] = z]
<1>1. /\ DOMAIN r = DOMAIN x.q
      /\ \A d \in DOMAIN r : r[d] = IF d = c THEN z ELSE x.q[d]
      /\ Sessions(r)
  BY DEF Slotted, Sessions
<1>2. y.q = r /\ IsChokings(y)
  BY DEF IsChokings
<1> HIDE DEF r
<1>3. Slotted(r, RegularSlots)
  BY <1>1, SlottedKept, RegularSlotsType
<1> QED BY <1>1, <1>2, <1>3

\* A late request, a message.
LEMMA HandledKeeps ==
    ASSUME Slotted(sess, RegularSlots), NEW c, NEW late \in BOOLEAN, NEW m,
           late \/ m # "none" => c \in DOMAIN sess,
           NEW y \in Handled(c, late, m)
    PROVE  IsChokings(y) /\ Slotted(y.q, RegularSlots) /\ DOMAIN y.q = DOMAIN sess
<1> DEFINE x == IF late THEN [Chokings EXCEPT !.q[c] = Snubbed(@)] ELSE Chokings
<1>1. IsChokings(x) /\ Slotted(x.q, RegularSlots) /\ DOMAIN x.q = DOMAIN sess
  <2>1. IsChokings(Chokings) /\ Chokings.q = sess /\ Chokings.round = round
    BY DEF Chokings, IsChokings
  <2>2. CASE ~late
    BY <2>1, <2>2
  <2>3. CASE late
    <3>1. x = [q |-> [sess EXCEPT ![c] = Snubbed(sess[c])], round |-> round]
      BY <2>3 DEF Chokings
    <3>2. c \in DOMAIN sess /\ sess[c] \in Session
      BY <2>3 DEF Slotted, Sessions
    <3>3. Snubbed(sess[c]) \in Session /\ ~Snubbed(sess[c]).opt /\ Snubbed(sess[c]).required
      BY <3>2 DEF Snubbed, Session
    <3> HIDE DEF x
    <3> QED BY <2>1, <3>1, <3>2, <3>3, ChangeKeeps
  <2> QED BY <2>2, <2>3
<1> HIDE DEF x
<1>2. CASE m = "none"
  <2>1. y = x
    BY <1>2 DEF Handled, x
  <2> QED BY <1>1, <2>1
<1>3. CASE m # "none"
  <2>1. y \in Handle(c, m, x)
    BY <1>3 DEF Handled, x
  <2> DEFINE z == Told(x.q[c], m)
             w == [q |-> [x.q EXCEPT ![c] = z], round |-> x.round]
  <2>2. c \in DOMAIN x.q /\ x.q[c] \in Session
    BY <1>1, <1>3 DEF Slotted, Sessions
  <2>4. z \in Session /\ z.opt = x.q[c].opt /\ z.required = x.q[c].required
    <3> DEFINE i == m = "interested" \/ (x.q[c].interested /\ m # "notInterested")
               b == x.q[c].snub /\ m # "block"
    <3>1. z = [x.q[c] EXCEPT !.interested = i, !.snub = b]
      BY DEF Told
    <3>2. i \in BOOLEAN /\ b \in BOOLEAN
      BY <2>2 DEF Session
    <3> HIDE DEF i, b, z
    <3> QED BY <2>2, <3>1, <3>2 DEF Session
  <2> HIDE DEF z
  <2>5. y = w \/ y \in executeChoke(w)
    <3>1. [x EXCEPT !.q[c] = z] = w
      BY <1>1, <2>2 DEF IsChokings
    <3> QED BY <2>1, <3>1 DEF Handle, z
  <2>6. IsChokings(w) /\ Slotted(w.q, RegularSlots) /\ DOMAIN w.q = DOMAIN x.q
    BY <1>1, <2>2, <2>4, ChangeKeeps
  <2> HIDE DEF w
  <2> QED BY <1>1, <2>5, <2>6, ChokeKeeps
<1> QED BY <1>2, <1>3

----------------------------------------------------------------------------
(***************************************************************************)
(* The commands and what they hold.                                        *)
(***************************************************************************)
Command == [st : Counted \cup {"receive"}, addr : Addr] \cup {NoCmd}

\* The peers that the commands m work with.
HeldBy(m) == {[addr |-> m[c].addr, by |-> c] : c \in {d \in Cuid : m[d].st \in Counted}}

\* The commands among m whose peers have a session.
InSession(m) == {c \in Cuid : m[c].st \in Interacting}

\* A command is changed or replaced.
LEMMA CommandChange ==
    ASSUME NEW m \in [Cuid -> Command], NEW c \in Cuid, NEW k \in Command
    PROVE  /\ [m EXCEPT ![c] = k] \in [Cuid -> Command]
           /\ InSession([m EXCEPT ![c] = k])
                = (InSession(m) \ {c}) \cup IF k.st \in Interacting THEN {c} ELSE {}
           /\ HeldBy([m EXCEPT ![c] = k])
                = (HeldBy(m) \ {[addr |-> m[c].addr, by |-> c]})
                  \cup IF k.st \in Counted THEN {[addr |-> k.addr, by |-> c]} ELSE {}
<1> DEFINE n == [m EXCEPT ![c] = k]
           p == [addr |-> m[c].addr, by |-> c]
           new == IF k.st \in Counted THEN {[addr |-> k.addr, by |-> c]} ELSE {}
<1>1. n \in [Cuid -> Command] /\ n[c] = k /\ \A d \in Cuid : d # c => n[d] = m[d]
  OBVIOUS
<1> HIDE DEF n
<1>2. InSession(n) = (InSession(m) \ {c}) \cup IF k.st \in Interacting THEN {c} ELSE {}
  BY <1>1 DEF InSession
<1>3. ASSUME NEW x \in HeldBy(n) PROVE x \in (HeldBy(m) \ {p}) \cup new
  <2>1. PICK d \in Cuid : n[d].st \in Counted /\ x = [addr |-> n[d].addr, by |-> d]
    BY DEF HeldBy
  <2>2. CASE d = c
    BY <1>1, <2>1, <2>2
  <2>3. CASE d # c
    <3>1. x \in HeldBy(m)
      BY <1>1, <2>1, <2>3 DEF HeldBy
    <3>2. x # p
      BY <2>1, <2>3
    <3> QED BY <3>1, <3>2
  <2> QED BY <2>2, <2>3
<1>4. ASSUME NEW x \in (HeldBy(m) \ {p}) \cup new PROVE x \in HeldBy(n)
  <2>1. CASE x \in new
    <3>1. k.st \in Counted /\ x = [addr |-> n[c].addr, by |-> c]
      BY <1>1, <2>1
    <3> QED BY <1>1, <3>1 DEF HeldBy
  <2>2. CASE x \in HeldBy(m) /\ x # p
    <3>1. PICK d \in Cuid : m[d].st \in Counted /\ x = [addr |-> m[d].addr, by |-> d]
      BY <2>2 DEF HeldBy
    <3>2. d # c
      BY <2>2, <3>1
    <3> QED BY <1>1, <3>1, <3>2 DEF HeldBy
  <2> QED BY <2>1, <2>2
<1>5. HeldBy(n) = (HeldBy(m) \ {p}) \cup new
  BY <1>3, <1>4
<1> QED BY <1>1, <1>2, <1>5 DEF n

\* Every command has its peer in use, and while the download goes on no
\* other is in use.
Held(u, m, halt) == HeldBy(m) \subseteq u /\ (~halt => u = HeldBy(m))

\* The storage has peers in order and few enough of them.
Stored(s) == Tidy(s) /\ IsFiniteSet(s.used) /\ Len(s.unused) <= MaxPeerListSize

\* The inductive invariant.
PeersInv ==
    /\ setup \in Setups
    /\ rt \in [halt : BOOLEAN, finished : BOOLEAN]
    /\ cmd \in [Cuid -> Command]
    /\ Stored(ps)
    /\ Held(ps.used, cmd, rt.halt)
    /\ DOMAIN sess = InSession(cmd)
    /\ Slotted(sess, RegularSlots)

\* Which commands hold a peer.
LEMMA CommandWords ==
    ASSUME NEW m \in [Cuid -> Command], NEW c \in Cuid
    PROVE  /\ m[c].st \in Counted => m[c].addr \in Addr
           /\ m[c].st = "receive" => m[c].addr \in Addr
           /\ m[c].st \in Counted <=> [addr |-> m[c].addr, by |-> c] \in HeldBy(m)
           /\ m[c].st \in Interacting => m[c].st \in Counted
           /\ NoCmd \in Command /\ NoCmd.st \notin Counted /\ NoCmd.st \notin Interacting
<1>1. m[c] \in Command
  OBVIOUS
<1>2. /\ m[c].st \in Counted => m[c].addr \in Addr
      /\ m[c].st = "receive" => m[c].addr \in Addr
  BY <1>1 DEF Command, NoCmd, Counted, Interacting
<1>3. NoCmd \in Command /\ NoCmd.st \notin Counted /\ NoCmd.st \notin Interacting
  BY DEF Command, NoCmd, Counted, Interacting
<1>4. m[c].st \in Interacting => m[c].st \in Counted
  BY DEF Counted
<1>5. m[c].st \in Counted <=> [addr |-> m[c].addr, by |-> c] \in HeldBy(m)
  BY DEF HeldBy
<1> QED BY <1>2, <1>3, <1>4, <1>5

\* A step of the storage alone.
LEMMA StoredStep ==
    ASSUME PeersInv, Stored(ps'), ps'.used = ps.used,
           UNCHANGED <<setup, cmd, sess, round, rt>>
    PROVE  PeersInv'
<1>1. RegularSlots' = RegularSlots
  BY DEF RegularSlots
<1> QED BY <1>1 DEF PeersInv

\* A step of one command c, which becomes k: the peer it had is returned, or
\* kept, and the one that k works with is taken.
LEMMA CommandStep ==
    ASSUME PeersInv, NEW c \in Cuid, NEW k \in Command, cmd' = [cmd EXCEPT ![c] = k],
           setup' = setup, rt' \in [halt : BOOLEAN, finished : BOOLEAN],
           rt'.finished = rt.finished, rt.halt => rt'.halt, Stored(ps'),
           ps'.used = (ps.used \ {PeerOf(c)})
                      \cup IF k.st \in Counted THEN {[addr |-> k.addr, by |-> c]} ELSE {},
           DOMAIN sess' = (DOMAIN sess \ {c}) \cup IF k.st \in Interacting THEN {c} ELSE {},
           Slotted(sess', RegularSlots)
    PROVE  PeersInv'
<1> DEFINE new == IF k.st \in Counted THEN {[addr |-> k.addr, by |-> c]} ELSE {}
<1>1. cmd \in [Cuid -> Command] /\ setup \in Setups
      /\ Held(ps.used, cmd, rt.halt) /\ DOMAIN sess = InSession(cmd)
  BY DEF PeersInv
<1>2. /\ cmd' \in [Cuid -> Command]
      /\ InSession(cmd') = (InSession(cmd) \ {c}) \cup IF k.st \in Interacting THEN {c} ELSE {}
      /\ HeldBy(cmd') = (HeldBy(cmd) \ {PeerOf(c)}) \cup new
  <2>1. /\ [cmd EXCEPT ![c] = k] \in [Cuid -> Command]
        /\ InSession([cmd EXCEPT ![c] = k])
             = (InSession(cmd) \ {c}) \cup IF k.st \in Interacting THEN {c} ELSE {}
        /\ HeldBy([cmd EXCEPT ![c] = k])
             = (HeldBy(cmd) \ {[addr |-> cmd[c].addr, by |-> c]}) \cup new
    <3>1. cmd \in [Cuid -> Command]
      BY <1>1
    <3> QED BY ONLY ZenonT(60), <3>1, c \in Cuid, k \in Command, CommandChange DEF new
  <2> HIDE DEF new
  <2> QED BY <2>1 DEF PeerOf
<1>3. DOMAIN sess' = InSession(cmd')
  BY <1>1, <1>2
<1>4. ps'.used = (ps.used \ {PeerOf(c)}) \cup new
  OBVIOUS
<1> HIDE DEF new
<1>5. Held(ps'.used, cmd', rt'.halt)
  <2>1. HeldBy(cmd') \subseteq ps'.used
    BY <1>1, <1>2, <1>4 DEF Held
  <2>2. ASSUME ~rt'.halt PROVE ps'.used = HeldBy(cmd')
    <3>1. ~rt.halt
      BY <2>2
    <3>2. ps.used = HeldBy(cmd)
      BY <1>1, <3>1 DEF Held
    <3> QED BY <1>2, <1>4, <3>2
  <2> QED BY <2>1, <2>2 DEF Held
<1>6. RegularSlots' = RegularSlots
  BY DEF RegularSlots
<1> QED BY <1>1, <1>2, <1>3, <1>5, <1>6 DEF PeersInv

\* A command goes on to the state t with the peer it has.
LEMMA GotoWords ==
    ASSUME PeersInv, NEW c \in Cuid, cmd[c].st \in Counted \cup {"receive"},
           NEW t \in Counted, Goto(c, t)
    PROVE  /\ cmd' = [cmd EXCEPT ![c] = [st |-> t, addr |-> cmd[c].addr]]
           /\ [st |-> t, addr |-> cmd[c].addr] \in Command
<1>1. cmd \in [Cuid -> Command]
  BY DEF PeersInv
<1>2. cmd[c] \in [st : Counted \cup {"receive"}, addr : Addr]
  <2>1. cmd[c] \in Command
    BY <1>1
  <2>2. cmd[c] # NoCmd
    BY DEF NoCmd, Counted, Interacting
  <2> QED BY <2>1, <2>2 DEF Command
<1>3. [st |-> t, addr |-> cmd[c].addr] \in Command
  BY <1>2 DEF Command
<1>4. [cmd EXCEPT ![c].st = t] = [cmd EXCEPT ![c] = [st |-> t, addr |-> cmd[c].addr]]
  <2>1. [cmd[c] EXCEPT !.st = t] = [st |-> t, addr |-> cmd[c].addr]
    BY <1>2
  <2>2. [cmd EXCEPT ![c].st = t] = [cmd EXCEPT ![c] = [cmd[c] EXCEPT !.st = t]]
    BY ONLY <1>1
  <2> QED BY <2>1, <2>2
<1> QED BY <1>3, <1>4 DEF Goto

\* The session of a new connection: the peer is choked.
LEMMA NewSessionKeeps ==
    ASSUME NEW q, NEW n \in Nat, Slotted(q, n), NEW c \in Cuid,
           NEW r, r = [d \in DOMAIN q \cup {c} |-> IF d = c THEN NewSession ELSE q[d]]
    PROVE  Slotted(r, n) /\ DOMAIN r = DOMAIN q \cup {c}
<1>1. DOMAIN r = DOMAIN q \cup {c} /\ r[c] = NewSession
      /\ \A d \in DOMAIN r : d # c => d \in DOMAIN q /\ r[d] = q[d]
  OBVIOUS
<1>2. NewSession \in Session /\ ~NewSession.opt /\ NewSession.required
  BY DEF NewSession, Session
<1>3. Sessions(r)
  BY <1>1, <1>2 DEF Sessions, Slotted
<1> QED BY <1>1, <1>2, <1>3, SlottedKept

\* A step from one state of a command to another, with the same peer.
LEMMA GotoStep ==
    ASSUME PeersInv, NEW c \in Cuid, cmd[c].st \in Counted, NEW t \in Counted,
           Goto(c, t), UNCHANGED <<setup, ps, rt>>,
           \/ UNCHANGED sess /\ (t \in Interacting <=> cmd[c].st \in Interacting)
           \/ StartInteraction(c) /\ t = "handshake"
    PROVE  PeersInv'
<1> DEFINE k == [st |-> t, addr |-> cmd[c].addr]
<1>1. cmd' = [cmd EXCEPT ![c] = k] /\ k \in Command
  BY GotoWords
<1>2. k.st = t /\ k.addr = cmd[c].addr
  OBVIOUS
<1> HIDE DEF k
<1>3. /\ cmd \in [Cuid -> Command] /\ Stored(ps) /\ Slotted(sess, RegularSlots)
      /\ HeldBy(cmd) \subseteq ps.used /\ DOMAIN sess = InSession(cmd)
      /\ rt \in [halt : BOOLEAN, finished : BOOLEAN]
  BY DEF PeersInv, Held
<1>4. PeerOf(c) \in ps.used
  BY <1>3, CommandWords DEF PeerOf
<1>5. ps'.used = (ps.used \ {PeerOf(c)})
                 \cup IF k.st \in Counted THEN {[addr |-> k.addr, by |-> c]} ELSE {}
  BY <1>2, <1>4 DEF PeerOf
<1>6. /\ DOMAIN sess' = (DOMAIN sess \ {c}) \cup IF k.st \in Interacting THEN {c} ELSE {}
      /\ Slotted(sess', RegularSlots)
  <2>1. CASE UNCHANGED sess /\ (t \in Interacting <=> cmd[c].st \in Interacting)
    BY <1>2, <1>3, <2>1 DEF InSession
  <2>2. CASE StartInteraction(c) /\ t = "handshake"
    <3>1. Slotted(sess', RegularSlots) /\ DOMAIN sess' = DOMAIN sess \cup {c}
      BY ZenonT(60), <1>3, <2>2, NewSessionKeeps, RegularSlotsType DEF StartInteraction
    <3>2. k.st \in Interacting
      BY <1>2, <2>2 DEF Interacting
    <3> QED BY <3>1, <3>2
  <2> QED BY <2>1, <2>2
<1> QED BY <1>1, <1>3, <1>5, <1>6, CommandStep

\* The next peer for a command whose peer was returned.
LEMMA NextPeerWords ==
    ASSUME NEW c \in Cuid, NEW s, Stored(s), NEW n, n = NextPeer(c, s)
    PROVE  /\ n.cmd \in Command /\ n.cmd.st \notin Interacting /\ Stored(n.s)
           /\ n.s.used = s.used \cup IF n.cmd.st \in Counted
                                     THEN {[addr |-> n.cmd.addr, by |-> c]} ELSE {}
<1>1. CASE s.unused # <<>> /\ lessThanEqMinPeers
  <2> DEFINE a == Head(s.unused)
             t == checkoutPeer(s, c)
  <2>1. n.s = t /\ n.cmd = [st |-> "initiate", addr |-> a]
    BY <1>1 DEF NextPeer
  <2>2. /\ Tidy(t) /\ a \in Addr /\ t.used = s.used \cup {[addr |-> a, by |-> c]}
        /\ Len(t.unused) = Len(s.unused) - 1
    BY <1>1, TidyCheckout DEF Stored
  <2> HIDE DEF a, t
  <2>3. IsFiniteSet(t.used)
    BY <2>2, FS_AddElement DEF Stored
  <2>4. Len(s.unused) \in Nat
    BY DEF Stored, Tidy, Storage
  <2>5. Stored(t)
    BY <2>2, <2>3, <2>4, PeerStorageAssumption DEF Stored
  <2>6. /\ n.cmd \in Command /\ n.cmd.st \in Counted /\ n.cmd.st \notin Interacting
        /\ n.cmd.addr = a
    BY <2>1, <2>2 DEF Command, Counted, Interacting
  <2> QED BY <2>1, <2>2, <2>5, <2>6
<1>2. CASE ~(s.unused # <<>> /\ lessThanEqMinPeers)
  <2>1. n.s = s /\ n.cmd = NoCmd
    BY <1>2 DEF NextPeer
  <2>2. NoCmd \in Command /\ NoCmd.st \notin Counted /\ NoCmd.st \notin Interacting
    BY DEF Command, NoCmd, Counted, Interacting
  <2> QED BY <2>1, <2>2
<1> QED BY <1>1, <1>2

\* A peer is returned to the storage.
LEMMA StoredReturn ==
    ASSUME NEW s, Stored(s), NEW p
    PROVE  Stored(returnPeer(s, p)) /\ returnPeer(s, p).used = s.used \ {p}
<1> DEFINE t == returnPeer(s, p)
<1>1. Tidy(t) /\ t.used = s.used \ {p} /\ t.unused = s.unused
  BY TidyReturn DEF Stored
<1> HIDE DEF t
<1>2. IsFiniteSet(t.used)
  BY <1>1, FS_Subset DEF Stored
<1>3. Stored(t)
  BY <1>1, <1>2 DEF Stored
<1> QED BY <1>1, <1>3 DEF t

----------------------------------------------------------------------------
(***************************************************************************)
(* The actions.                                                            *)
(***************************************************************************)

\* What the setups are.
LEMMA SetupWords ==
    ASSUME PeersInv
    PROVE  /\ setup.found \subseteq Addr /\ IsFiniteSet(setup.found)
           /\ setup.slots \in 0..MaxCuid /\ FreeSlots \in SUBSET Cuid
<1>1. setup.found \subseteq Addr /\ IsFiniteSet(setup.found) /\ setup.slots \in 0..MaxCuid
  BY SwarmAssumption DEF PeersInv
<1>2. FreeSlots \in SUBSET Cuid
  BY <1>1, BtChokeAssumption DEF FreeSlots, Cuid
<1> QED BY <1>1, <1>2

\* Peers are found by a tracker or the DHT.
LEMMA PeersFoundKeeps ==
    ASSUME PeersInv, NEW S \in SUBSET setup.found, PeersFound(S)
    PROVE  PeersInv'
<1>1. S \in SUBSET Addr /\ IsFiniteSet(S)
  BY SetupWords, FS_Subset
<1>2. Tidy(ps) /\ Len(ps.unused) <= MaxPeerListSize /\ IsFiniteSet(ps.used)
  BY DEF PeersInv, Stored
<1>3. ps' \in addPeers(ps, S) /\ UNCHANGED <<setup, cmd, sess, round, rt>>
  BY DEF PeersFound
<1>4. Tidy(ps') /\ ps'.used = ps.used /\ Len(ps'.unused) <= MaxPeerListSize
  BY <1>1, <1>2, <1>3, TidyAddMany
<1>5. Stored(ps')
  BY <1>2, <1>4 DEF Stored
<1> QED BY <1>3, <1>4, <1>5, StoredStep

\* A peer is found in the local network.
LEMMA PeerFoundKeeps ==
    ASSUME PeersInv, NEW a \in setup.found, PeerFound(a)
    PROVE  PeersInv'
<1>1. a \in Addr
  BY SetupWords
<1>2. Stored(ps) /\ UNCHANGED <<setup, cmd, sess, round, rt>>
  BY DEF PeersInv, PeerFound
<1>3. CASE ps' = ps
  BY <1>2, <1>3, StoredStep
<1>4. CASE ps' # ps
  <2>1. /\ ps' = PushBack(ps, a) /\ a \notin ps.uniq
        /\ ~(Len(ps.unused) >= MaxPeerListSize)
    BY <1>4 DEF PeerFound, addPeer, isPeerAlreadyAdded
  <2>2. Tidy(ps') /\ ps'.used = ps.used /\ Len(ps'.unused) = Len(ps.unused) + 1
    BY <1>1, <1>2, <2>1, TidyPush DEF Stored
  <2>3. Len(ps.unused) \in Nat
    BY <1>2 DEF Stored, Tidy, Storage
  <2>4. Len(ps'.unused) <= MaxPeerListSize
    BY <2>1, <2>2, <2>3, PeerStorageAssumption
  <2>5. Stored(ps')
    BY <1>2, <2>2, <2>4 DEF Stored
  <2> QED BY <1>2, <2>2, <2>5, StoredStep
<1> QED BY <1>3, <1>4

\* The ban of a peer expires.
LEMMA BadPeerExpiresKeeps ==
    ASSUME PeersInv, NEW ip, BadPeerExpires(ip)
    PROVE  PeersInv'
<1>1. Stored(ps) /\ ps \in Storage /\ UNCHANGED <<setup, cmd, sess, round, rt>>
  BY DEF PeersInv, BadPeerExpires, Stored, Tidy
<1>2. ps' = [ps EXCEPT !.bad = ps.bad \ {ip}]
  BY DEF BadPeerExpires
<1>3. ps' \in Storage /\ ps'.unused = ps.unused /\ ps'.used = ps.used /\ ps'.uniq = ps.uniq
  BY <1>1, <1>2 DEF Storage
<1>4. Stored(ps')
  BY <1>1, <1>3 DEF Stored, Tidy, UsedAddrs
<1> QED BY <1>1, <1>3, <1>4, StoredStep

\* A connection to a peer is made.
LEMMA InitiateKeeps ==
    ASSUME PeersInv, NEW c \in Cuid,
           Initiate(c) \/ Encrypt(c) \/ TryLegacy(c) \/ HandshakeDone(c)
    PROVE  PeersInv'
<1>1. UNCHANGED <<setup, ps, rt>>
  BY DEF Initiate, Encrypt, TryLegacy, HandshakeDone
<1>2. CASE cmd[c].st = "initiate" /\ Goto(c, "mseConnect") /\ UNCHANGED sess
  BY <1>1, <1>2, GotoStep DEF Counted, Interacting
<1>3. CASE cmd[c].st = "mseConnect" /\ Goto(c, "mse") /\ UNCHANGED sess
  BY <1>1, <1>3, GotoStep DEF Counted, Interacting
<1>4. CASE cmd[c].st = "mse" /\ Goto(c, "initiateLegacy") /\ UNCHANGED sess
  BY <1>1, <1>4, GotoStep DEF Counted, Interacting
<1>5. CASE cmd[c].st = "handshake" /\ Goto(c, "wired") /\ UNCHANGED sess
  BY <1>1, <1>5, GotoStep DEF Counted, Interacting
<1>6. CASE cmd[c].st \in {"initiateLegacy", "mse"} /\ StartInteraction(c)
  <2>1. Goto(c, "handshake") /\ "handshake" \in Counted /\ cmd[c].st \in Counted
    BY <1>6 DEF StartInteraction, Counted, Interacting
  <2> QED BY <1>1, <1>6, <2>1, GotoStep
<1> QED BY <1>2, <1>3, <1>4, <1>5, <1>6 DEF Initiate, Encrypt, TryLegacy, HandshakeDone

\* A connection fails, and the command goes on with the next peer.
LEMMA ConnectFailsKeeps ==
    ASSUME PeersInv, NEW c \in Cuid, ConnectFails(c)
    PROVE  PeersInv'
<1> DEFINE s == returnPeer(ps, PeerOf(c))
           n == NextPeer(c, s)
<1>1. /\ UNCHANGED <<setup, sess, round, rt>> /\ ps' = n.s
      /\ cmd' = [cmd EXCEPT ![c] = n.cmd]
      /\ cmd[c].st \notin Interacting
  BY DEF ConnectFails, Interacting
<1>2. Stored(s) /\ s.used = ps.used \ {PeerOf(c)}
  BY StoredReturn DEF PeersInv
<1> HIDE DEF s
<1>3. /\ n.cmd \in Command /\ n.cmd.st \notin Interacting /\ Stored(n.s)
      /\ n.s.used = s.used \cup IF n.cmd.st \in Counted
                                THEN {[addr |-> n.cmd.addr, by |-> c]} ELSE {}
  BY <1>2, NextPeerWords
<1> HIDE DEF n
<1>4. DOMAIN sess' = (DOMAIN sess \ {c})
                     \cup IF n.cmd.st \in Interacting THEN {c} ELSE {}
  BY <1>1, <1>3 DEF PeersInv, InSession
<1>5. Slotted(sess', RegularSlots) /\ rt' \in [halt : BOOLEAN, finished : BOOLEAN]
  BY <1>1 DEF PeersInv
<1> QED BY <1>1, <1>2, <1>3, <1>4, <1>5, CommandStep

\* A command that held no peer begins or ends, or one gives up without
\* returning its peer.
LEMMA AsideStep ==
    ASSUME PeersInv, NEW c \in Cuid, NEW k \in Command, cmd' = [cmd EXCEPT ![c] = k],
           UNCHANGED <<setup, ps, sess, rt>>, k.st \notin Counted,
           cmd[c].st \notin Interacting, rt.halt \/ cmd[c].st \notin Counted
    PROVE  PeersInv'
<1>1. cmd \in [Cuid -> Command] /\ Held(ps.used, cmd, rt.halt) /\ DOMAIN sess = InSession(cmd)
  BY DEF PeersInv
<1>2. k.st \notin Interacting
  BY DEF Counted
<1>3. /\ cmd' \in [Cuid -> Command] /\ InSession(cmd') = InSession(cmd) \ {c}
      /\ HeldBy(cmd') = HeldBy(cmd) \ {PeerOf(c)}
  <2>1. /\ [cmd EXCEPT ![c] = k] \in [Cuid -> Command]
        /\ InSession([cmd EXCEPT ![c] = k])
             = (InSession(cmd) \ {c}) \cup IF k.st \in Interacting THEN {c} ELSE {}
    BY ZenonT(60), <1>1, CommandChange
  <2>2. HeldBy([cmd EXCEPT ![c] = k])
          = (HeldBy(cmd) \ {[addr |-> cmd[c].addr, by |-> c]})
            \cup IF k.st \in Counted THEN {[addr |-> k.addr, by |-> c]} ELSE {}
    BY ZenonT(60), <1>1, CommandChange
  <2>3. HeldBy(cmd') = HeldBy(cmd) \ {PeerOf(c)}
    BY <2>2 DEF PeerOf
  <2> QED BY <1>2, <2>1, <2>3
<1>4. InSession(cmd') = InSession(cmd)
  BY <1>3 DEF InSession
<1>5. Held(ps.used, cmd', rt.halt)
  <2>1. CASE rt.halt
    BY <1>1, <1>3, <2>1 DEF Held
  <2>2. CASE cmd[c].st \notin Counted
    <3>1. PeerOf(c) \notin HeldBy(cmd)
      BY <1>1, <2>2, CommandWords DEF PeerOf
    <3>2. HeldBy(cmd') = HeldBy(cmd)
      BY <1>3, <3>1
    <3> QED BY <1>1, <3>2 DEF Held
  <2> QED BY <2>1, <2>2
<1>6. RegularSlots' = RegularSlots
  BY DEF RegularSlots
<1> QED BY <1>1, <1>3, <1>4, <1>5, <1>6 DEF PeersInv

\* A connection from a peer is accepted.
LEMMA AcceptKeeps ==
    ASSUME PeersInv, NEW a \in setup.found, Accept(a)
    PROVE  PeersInv'
<1> DEFINE c == Min(FreeSlots)
           k == [st |-> "receive", addr |-> a]
<1>1. FreeSlots \in SUBSET Nat /\ FreeSlots # {}
  BY SetupWords, BtChokeAssumption DEF Accept, Cuid
<1>2. c \in FreeSlots
  BY <1>1, LeastNumber
<1>3. cmd' = [cmd EXCEPT ![c] = k] /\ UNCHANGED <<setup, ps, sess, rt>>
  BY DEF Accept
<1> HIDE DEF c
<1>4. c \in Cuid /\ cmd[c].st = "none"
  BY <1>2, SetupWords DEF FreeSlots
<1>5. k \in Command /\ k.st \notin Counted
  BY SetupWords DEF Command, Counted, Interacting
<1>6. cmd[c].st \notin Counted /\ cmd[c].st \notin Interacting
  BY <1>4 DEF Counted, Interacting
<1> HIDE DEF k
<1> QED BY <1>3, <1>4, <1>5, <1>6, AsideStep

\* The handshake of an incoming connection fails or is refused.
LEMMA RefusedKeeps ==
    ASSUME PeersInv, NEW c \in Cuid, cmd[c].st = "receive",
           cmd' = [cmd EXCEPT ![c] = NoCmd], UNCHANGED <<setup, ps, sess, rt>>
    PROVE  PeersInv'
<1>1. cmd[c].st \notin Counted /\ cmd[c].st \notin Interacting
  BY DEF Counted, Interacting
<1>2. NoCmd \in Command /\ NoCmd.st \notin Counted
  BY DEF Command, NoCmd, Counted, Interacting
<1> QED BY <1>1, <1>2, AsideStep

\* A peer that has connected to us is added and checked out.
LEMMA ReceivedKeeps ==
    ASSUME PeersInv, NEW c \in Cuid, Received(c)
    PROVE  PeersInv'
<1>1. cmd[c].st = "receive" /\ UNCHANGED <<setup, rt>>
  BY DEF Received
<1>2. CASE cmd' = [cmd EXCEPT ![c] = NoCmd] /\ UNCHANGED <<ps, sess>>
  BY <1>1, <1>2, RefusedKeeps
<1>3. CASE /\ ~rt.halt /\ MayAddAndCheckout(ps, cmd[c].addr)
           /\ ps' = addAndCheckoutPeer(ps, cmd[c].addr, c)
           /\ StartInteraction(c)
  <2> DEFINE a == cmd[c].addr
             k == [st |-> "handshake", addr |-> a]
  <2>1. /\ cmd \in [Cuid -> Command] /\ Stored(ps) /\ Slotted(sess, RegularSlots)
        /\ ~rt.halt => ps.used = HeldBy(cmd)
        /\ rt \in [halt : BOOLEAN, finished : BOOLEAN]
    BY DEF PeersInv, Held
  <2>2. a \in Addr /\ cmd[c].st \notin Counted
    <3>1. cmd[c].st \notin Counted
      BY <1>1 DEF Counted, Interacting
    <3> QED BY <1>1, <2>1, <3>1, CommandWords
  <2>3. PeerOf(c) \notin ps.used
    BY <1>3, <2>1, <2>2, CommandWords DEF PeerOf
  <2>4. cmd' = [cmd EXCEPT ![c] = k] /\ k \in Command
    BY <1>1, <1>3, GotoWords DEF StartInteraction, Counted, Interacting
  <2>5. /\ Tidy(ps') /\ ps'.used = ps.used \cup {[addr |-> a, by |-> c]}
        /\ Len(ps'.unused) <= MaxPeerListSize
    BY <1>3, <2>1, <2>2, TidyAddAndCheckout DEF Stored
  <2>6. Stored(ps')
    <3>1. IsFiniteSet(ps.used)
      BY <2>1 DEF Stored
    <3>2. IsFiniteSet(ps.used \cup {[addr |-> a, by |-> c]})
      BY <3>1, FS_AddElement, Zenon
    <3> QED BY <2>5, <3>2 DEF Stored
  <2>7. k.st \in Counted /\ k.st \in Interacting /\ k.addr = a
    BY DEF Counted, Interacting
  <2> HIDE DEF k, a
  <2>8. ps'.used = (ps.used \ {PeerOf(c)})
                   \cup IF k.st \in Counted THEN {[addr |-> k.addr, by |-> c]} ELSE {}
    BY <2>3, <2>5, <2>7
  <2>9. Slotted(sess', RegularSlots) /\ DOMAIN sess' = DOMAIN sess \cup {c}
    BY ZenonT(60), <1>3, <2>1, NewSessionKeeps, RegularSlotsType DEF StartInteraction
  <2>10. DOMAIN sess' = (DOMAIN sess \ {c}) \cup IF k.st \in Interacting THEN {c} ELSE {}
    BY <2>7, <2>9
  <2>11. /\ setup' = setup /\ rt' \in [halt : BOOLEAN, finished : BOOLEAN]
         /\ rt'.finished = rt.finished /\ (rt.halt => rt'.halt)
    BY <1>1, <2>1
  <2> QED BY <2>4, <2>6, <2>8, <2>9, <2>10, <2>11, CommandStep
<1> QED BY <1>2, <1>3 DEF Received

\* A connection from a peer fails.
LEMMA ReceiveFailsKeeps ==
    ASSUME PeersInv, NEW c \in Cuid, ReceiveFails(c)
    PROVE  PeersInv'
BY RefusedKeeps DEF ReceiveFails

\* A step of the sessions alone.
LEMMA SessionStep ==
    ASSUME PeersInv, UNCHANGED <<setup, ps, cmd, rt>>, DOMAIN sess' = DOMAIN sess,
           Slotted(sess', RegularSlots)
    PROVE  PeersInv'
<1>1. RegularSlots' = RegularSlots
  BY DEF RegularSlots
<1> QED BY <1>1 DEF PeersInv

\* A message is handled, and choke rounds with it.
LEMMA InteractKeeps ==
    ASSUME PeersInv, NEW c \in Cuid, NEW late \in BOOLEAN, NEW m, Interact(c, late, m)
    PROVE  PeersInv'
<1>1. c \in DOMAIN sess /\ Slotted(sess, RegularSlots)
  BY DEF PeersInv, Interact, InSession, Interacting
<1>2. PICK x \in Handled(c, late, m) : sess' = [x.q EXCEPT ![c] = decideChoking(x.q[c])]
  BY DEF Interact
<1>3. IsChokings(x) /\ Slotted(x.q, RegularSlots) /\ DOMAIN x.q = DOMAIN sess
  BY <1>1, HandledKeeps
<1> DEFINE z == decideChoking(x.q[c])
           y == [q |-> [x.q EXCEPT ![c] = z], round |-> x.round]
<1>4. z \in Session /\ z.opt = x.q[c].opt /\ z.required = x.q[c].required
  <2>1. x.q[c] \in Session
    BY <1>1, <1>3 DEF Slotted, Sessions
  <2>2. shouldBeChoking(x.q[c]) \in BOOLEAN
    BY <2>1 DEF shouldBeChoking, Session
  <2> QED BY <2>1, <2>2 DEF decideChoking, Session
<1> HIDE DEF z
<1>5. Slotted(y.q, RegularSlots) /\ DOMAIN y.q = DOMAIN x.q
  BY <1>1, <1>3, <1>4, ChangeKeeps
<1>6. sess' = y.q
  BY <1>2 DEF z
<1> HIDE DEF y
<1> QED BY <1>3, <1>5, <1>6, SessionStep DEF Interact

\* A peer is said to be bad.
LEMMA StoredBad ==
    ASSUME NEW s, Stored(s), NEW a \in Addr
    PROVE  Stored(addBadPeer(s, a)) /\ addBadPeer(s, a).used = s.used
<1> DEFINE t == addBadPeer(s, a)
<1>1. s \in Storage
  BY DEF Stored, Tidy
<1>2. t \in Storage /\ t.unused = s.unused /\ t.used = s.used /\ t.uniq = s.uniq
  BY <1>1 DEF addBadPeer, Storage
<1> HIDE DEF t
<1>3. Stored(t)
  BY <1>2 DEF Stored, Tidy, UsedAddrs
<1> QED BY <1>2, <1>3 DEF t

\* The peer is given back after a failure.
LEMMA InteractionFailsKeeps ==
    ASSUME PeersInv, NEW c \in Cuid, NEW m, NEW wrong \in BOOLEAN,
           InteractionFails(c, m, wrong)
    PROVE  PeersInv'
<1>1. /\ cmd \in [Cuid -> Command] /\ Stored(ps) /\ Slotted(sess, RegularSlots)
      /\ DOMAIN sess = InSession(cmd) /\ cmd[c].st \in Interacting
      /\ rt \in [halt : BOOLEAN, finished : BOOLEAN]
  BY DEF PeersInv, InteractionFails
<1>2. c \in DOMAIN sess /\ cmd[c].addr \in Addr
  BY <1>1, CommandWords DEF InSession
<1> DEFINE s == IF wrong THEN addBadPeer(ps, cmd[c].addr) ELSE ps
           t == returnPeer(s, PeerOf(c))
           n == NextPeer(c, t)
<1>3. /\ ps' = n.s /\ cmd' = [cmd EXCEPT ![c] = n.cmd] /\ UNCHANGED <<setup, rt>>
      /\ \E x \in Handled(c, FALSE, m) :
           \E y \in onReturningPeer(c, x) : sess' = y.q
  BY DEF InteractionFails
<1>4. Stored(s) /\ s.used = ps.used
  BY <1>1, <1>2, StoredBad
<1> HIDE DEF s
<1>5. Stored(t) /\ t.used = ps.used \ {PeerOf(c)}
  BY <1>4, StoredReturn
<1> HIDE DEF t
<1>6. /\ n.cmd \in Command /\ n.cmd.st \notin Interacting /\ Stored(n.s)
      /\ n.s.used = t.used \cup IF n.cmd.st \in Counted
                                THEN {[addr |-> n.cmd.addr, by |-> c]} ELSE {}
  BY <1>5, NextPeerWords
<1> HIDE DEF n
<1>7. PICK x \in Handled(c, FALSE, m) : \E y \in onReturningPeer(c, x) : sess' = y.q
  BY <1>3
<1>8. IsChokings(x) /\ Slotted(x.q, RegularSlots) /\ DOMAIN x.q = DOMAIN sess
  BY <1>1, <1>2, HandledKeeps
<1>9. Slotted(sess', RegularSlots) /\ DOMAIN sess' = DOMAIN sess \ {c}
  BY <1>7, <1>8, ReturningKeeps
<1>10. DOMAIN sess' = (DOMAIN sess \ {c}) \cup IF n.cmd.st \in Interacting THEN {c} ELSE {}
  BY <1>6, <1>9
<1>11. ps'.used = (ps.used \ {PeerOf(c)})
                  \cup IF n.cmd.st \in Counted THEN {[addr |-> n.cmd.addr, by |-> c]} ELSE {}
  BY <1>3, <1>5, <1>6
<1> QED BY <1>1, <1>3, <1>6, <1>9, <1>10, <1>11, CommandStep

\* A command ends, its peer is returned and its session too.
LEMMA EndStep ==
    ASSUME PeersInv, NEW c \in Cuid, NEW x, IsChokings(x), Slotted(x.q, RegularSlots),
           DOMAIN x.q = DOMAIN sess, Return(c, ps, x), cmd' = [cmd EXCEPT ![c] = NoCmd],
           setup' = setup, rt' = rt \/ rt' = [rt EXCEPT !.halt = TRUE]
    PROVE  PeersInv'
<1>1. NoCmd \in Command /\ NoCmd.st \notin Counted /\ NoCmd.st \notin Interacting
  BY DEF Command, NoCmd, Counted, Interacting
<1>2. PICK y \in onReturningPeer(c, x) : sess' = y.q
  BY DEF Return
<1>3. Slotted(sess', RegularSlots) /\ DOMAIN sess' = DOMAIN sess \ {c}
  BY <1>2, ReturningKeeps
<1>4. Stored(ps') /\ ps'.used = ps.used \ {PeerOf(c)}
  BY StoredReturn DEF PeersInv, Return
<1>5. /\ rt' \in [halt : BOOLEAN, finished : BOOLEAN]
      /\ rt'.finished = rt.finished /\ (rt.halt => rt'.halt)
  BY DEF PeersInv
<1>6. /\ DOMAIN sess' = (DOMAIN sess \ {c}) \cup IF NoCmd.st \in Interacting THEN {c} ELSE {}
      /\ ps'.used = (ps.used \ {PeerOf(c)})
           \cup IF NoCmd.st \in Counted THEN {[addr |-> NoCmd.addr, by |-> c]} ELSE {}
  BY <1>1, <1>3, <1>4
<1> QED BY <1>1, <1>3, <1>4, <1>5, <1>6, CommandStep

\* The whole download fails.
LEMMA DownloadFailsKeeps ==
    ASSUME PeersInv, NEW c \in Cuid, NEW m, DownloadFails(c, m)
    PROVE  PeersInv'
<1>1. c \in DOMAIN sess /\ Slotted(sess, RegularSlots)
  BY DEF PeersInv, DownloadFails, InSession, Interacting
<1>2. PICK x \in Handled(c, FALSE, m) : Return(c, ps, x)
  BY DEF DownloadFails
<1>3. IsChokings(x) /\ Slotted(x.q, RegularSlots) /\ DOMAIN x.q = DOMAIN sess
  BY <1>1, HandledKeeps
<1> QED BY <1>2, <1>3, EndStep DEF DownloadFails

\* A command of a halted download ends.
LEMMA ExitKeeps ==
    ASSUME PeersInv, NEW c \in Cuid, Exit(c)
    PROVE  PeersInv'
<1>1. cmd' = [cmd EXCEPT ![c] = NoCmd] /\ UNCHANGED <<setup, rt>> /\ rt.halt
  BY DEF Exit
<1>2. CASE cmd[c].st = "mse" /\ UNCHANGED <<ps, sess, round>>
  <2>1. NoCmd \in Command /\ NoCmd.st \notin Counted /\ cmd[c].st \notin Interacting
    BY <1>2 DEF Command, NoCmd, Counted, Interacting
  <2> QED BY <1>1, <1>2, <2>1, AsideStep
<1>3. CASE Return(c, ps, Chokings)
  <2>1. IsChokings(Chokings) /\ Chokings.q = sess
    BY DEF Chokings, IsChokings
  <2>2. Slotted(sess, RegularSlots)
    BY DEF PeersInv
  <2> QED BY <1>1, <1>3, <2>1, <2>2, EndStep
<1> QED BY <1>2, <1>3 DEF Exit

\* A choke round.
LEMMA ChokeRoundKeeps ==
    ASSUME PeersInv, ChokeRound
    PROVE  PeersInv'
<1>1. IsChokings(Chokings) /\ Chokings.q = sess /\ Slotted(sess, RegularSlots)
  BY DEF Chokings, IsChokings, PeersInv
<1>2. PICK x \in executeChoke(Chokings) : sess' = x.q
  BY DEF ChokeRound
<1>3. Slotted(sess', RegularSlots) /\ DOMAIN sess' = DOMAIN sess
  BY <1>1, <1>2, ChokeKeeps
<1> QED BY <1>3, SessionStep DEF ChokeRound

\* A seeder may have one more regular slot.
LEMMA FinishKeeps ==
    ASSUME PeersInv, DownloadFinished
    PROVE  PeersInv'
<1>1. /\ ~rt.finished /\ rt' = [rt EXCEPT !.finished = TRUE]
      /\ UNCHANGED <<setup, ps, cmd, sess>> /\ Slotted(sess, RegularSlots)
  BY DEF PeersInv, DownloadFinished
<1>2. /\ rt' \in [halt : BOOLEAN, finished : BOOLEAN] /\ rt'.halt = rt.halt
      /\ rt'.finished
  BY <1>1 DEF PeersInv
<1>3. RegularSlots' = UnchokeSlots + 1 /\ RegularSlots = UnchokeSlots
  BY <1>1, <1>2, BtChokeAssumption DEF RegularSlots
<1>4. Regular(sess) \in SUBSET Cuid
  BY <1>1 DEF Regular, Slotted, Sessions
<1>5. Cardinality(Regular(sess)) \in Nat
  BY <1>4, CommandsFinite
<1>6. Slotted(sess, RegularSlots')
  BY <1>1, <1>3, <1>5, RegularSlotsType DEF Slotted
<1> QED BY <1>1, <1>2, <1>6 DEF PeersInv

\* The download is halted.
LEMMA HaltKeeps ==
    ASSUME PeersInv, Halt
    PROVE  PeersInv'
<1>1. /\ rt' \in [halt : BOOLEAN, finished : BOOLEAN] /\ rt'.finished = rt.finished
      /\ rt'.halt /\ UNCHANGED <<setup, ps, cmd, sess>>
  BY DEF PeersInv, Halt
<1>2. RegularSlots' = RegularSlots
  BY <1>1 DEF RegularSlots
<1>3. Held(ps.used, cmd, rt'.halt)
  BY <1>1 DEF PeersInv, Held
<1> QED BY <1>1, <1>2, <1>3 DEF PeersInv

\* The number of new connections is a number.
LEMMA ConnectionsType ==
    ASSUME PeersInv
    PROVE  NumConnection \in Nat
<1>1. {c \in Cuid : cmd[c].st \in Counted} \in SUBSET Cuid
  OBVIOUS
<1>2. getConnections \in Nat
  BY <1>1, CommandsFinite DEF getConnections
<1>3. NumNewConnection \in Nat /\ MaxPeers \in Nat
  BY SwarmAssumption
<1> HIDE DEF getConnections
<1>4. CASE rt.finished /\ MaxPeers > getConnections
  <2>1. NumConnection = Min({NumNewConnection, MaxPeers - getConnections})
    BY <1>4 DEF NumConnection
  <2> QED BY <1>2, <1>3, <1>4, <2>1, MinOfTwo
<1>5. CASE ~(rt.finished /\ MaxPeers > getConnections)
  BY <1>3, <1>5 DEF NumConnection
<1> QED BY <1>4, <1>5

\* As many new connections as there is room for are begun.
LEMMA MakeNewConnectionsKeeps ==
    ASSUME PeersInv, MakeNewConnections
    PROVE  PeersInv'
<1> DEFINE F == FreeSlots
           n == Min({NumConnection, Len(ps.unused), Cardinality(F)})
           new == FirstSlots(F, n)
           A == [c \in new |-> ps.unused[RankIn(F, c)]]
           P == {[addr |-> A[c], by |-> c] : c \in new}
<1>1. F \in SUBSET Cuid /\ \A c \in F : cmd[c].st = "none"
  BY SetupWords DEF FreeSlots
<1>2. /\ cmd \in [Cuid -> Command] /\ Stored(ps) /\ Tidy(ps) /\ IsFiniteSet(ps.used)
      /\ HeldBy(cmd) \subseteq ps.used /\ (~rt.halt => ps.used = HeldBy(cmd))
      /\ DOMAIN sess = InSession(cmd) /\ Len(ps.unused) <= MaxPeerListSize
      /\ Slotted(sess, RegularSlots) /\ Len(ps.unused) \in Nat
  BY DEF PeersInv, Held, Stored, Tidy, Storage
<1>3. n \in 0..Len(ps.unused) /\ n <= Cardinality(F)
  <2>1. Cardinality(F) \in Nat /\ NumConnection \in Nat
    BY <1>1, CommandsFinite, ConnectionsType
  <2> HIDE DEF F
  <2>2. n \in Nat /\ n <= Len(ps.unused) /\ n <= Cardinality(F)
    BY <1>2, <2>1, LeastOfThree
  <2> QED BY <1>2, <2>2
<1>4. /\ ~rt.halt /\ UNCHANGED <<setup, sess, rt>>
      /\ ps' = [ps EXCEPT !.unused = SubSeq(ps.unused, n + 1, Len(ps.unused)),
                          !.used = ps.used \cup P]
      /\ cmd' = [c \in Cuid |-> IF c \in new THEN [st |-> "initiate", addr |-> A[c]]
                                ELSE cmd[c]]
  <2>1. P = {[addr |-> ps.unused[RankIn(F, c)], by |-> c] : c \in new}
    OBVIOUS
  <2>2. \A c \in new : A[c] = ps.unused[RankIn(F, c)]
    OBVIOUS
  <2> HIDE DEF P, A
  <2> QED BY <2>1, <2>2 DEF MakeNewConnections, RankIn, FirstSlots
<1> HIDE DEF F, n
<1>5. /\ Tidy(ps') /\ Len(ps'.unused) <= Len(ps.unused) /\ ps'.used = ps.used \cup P
      /\ \A c \in new : A[c] \in Addr
  <2>1. P = Taken(ps, F, n)
    BY DEF Taken
  <2>2. \A c \in new : A[c] = ps.unused[RankIn(F, c)]
    OBVIOUS
  <2> HIDE DEF P, A, new
  <2>3. ps' = [ps EXCEPT !.unused = SubSeq(@, n + 1, Len(@)),
                         !.used = @ \cup Taken(ps, F, n)]
    BY <1>4, <2>1
  <2>4. /\ Tidy(ps') /\ Len(ps'.unused) <= Len(ps.unused)
        /\ ps'.used = ps.used \cup Taken(ps, F, n)
        /\ \A c \in FirstSlots(F, n) : ps.unused[RankIn(F, c)] \in Addr
    BY <1>1, <1>2, <1>3, <2>3, TidyConnect
  <2> QED BY <2>1, <2>2, <2>4 DEF new
<1> HIDE DEF A
<1>6. IsFiniteSet(P)
  <2> DEFINE f == [c \in new |-> [addr |-> A[c], by |-> c]]
  <2>1. IsFiniteSet(new)
    BY <1>1, CommandsFinite DEF FirstSlots
  <2>2. P = {f[c] : c \in new} /\ f = [c \in new |-> f[c]]
    OBVIOUS
  <2> HIDE DEF f, P, new
  <2> QED BY <2>1, <2>2, FunctionValues
<1>7. Stored(ps')
  <2>1. IsFiniteSet(ps.used \cup P)
    <3> HIDE DEF P
    <3> QED BY <1>2, <1>6, FS_Union
  <2>2. Len(ps'.unused) \in Nat
    BY <1>5 DEF Tidy, Storage
  <2> QED BY <1>2, <1>5, <2>1, <2>2, PeerStorageAssumption DEF Stored
<1>8. new \subseteq Cuid /\ \A c \in new : cmd[c].st = "none"
  BY <1>1 DEF FirstSlots
<1> HIDE DEF new
<1>9. /\ \A c \in new : cmd'[c].st = "initiate" /\ cmd'[c].addr = A[c]
      /\ \A c \in Cuid \ new : cmd'[c] = cmd[c]
  BY <1>4, <1>8
<1>10. cmd' \in [Cuid -> Command]
  <2>1. ASSUME NEW c \in new PROVE [st |-> "initiate", addr |-> A[c]] \in Command
    BY <1>5 DEF Command, Counted
  <2> QED BY <1>2, <1>4, <2>1
<1>11. InSession(cmd') = InSession(cmd)
  BY <1>8, <1>9 DEF InSession, Interacting
<1>12. HeldBy(cmd') = HeldBy(cmd) \cup P
  <2>1. ASSUME NEW x \in HeldBy(cmd') PROVE x \in HeldBy(cmd) \cup P
    <3>1. PICK d \in Cuid : cmd'[d].st \in Counted /\ x = [addr |-> cmd'[d].addr, by |-> d]
      BY DEF HeldBy
    <3>2. CASE d \in new
      BY <1>9, <3>1, <3>2
    <3>3. CASE d \notin new
      BY <1>9, <3>1, <3>3 DEF HeldBy
    <3> QED BY <3>2, <3>3
  <2>2. ASSUME NEW x \in HeldBy(cmd) PROVE x \in HeldBy(cmd')
    <3>1. PICK d \in Cuid : cmd[d].st \in Counted /\ x = [addr |-> cmd[d].addr, by |-> d]
      BY DEF HeldBy
    <3>2. d \notin new
      BY <1>8, <3>1 DEF Counted, Interacting
    <3> QED BY <1>9, <3>1, <3>2 DEF HeldBy
  <2>3. ASSUME NEW x \in P PROVE x \in HeldBy(cmd')
    <3>1. PICK d \in new : x = [addr |-> A[d], by |-> d]
      OBVIOUS
    <3>2. cmd'[d].st = "initiate" /\ cmd'[d].addr = A[d]
      BY <1>9
    <3> QED BY <1>8, <3>1, <3>2 DEF HeldBy, Counted
  <2> QED BY <2>1, <2>2, <2>3
<1>13. Held(ps'.used, cmd', rt.halt)
  BY <1>2, <1>4, <1>5, <1>12 DEF Held
<1>14. RegularSlots' = RegularSlots
  BY <1>4 DEF RegularSlots
<1> QED BY <1>2, <1>4, <1>7, <1>10, <1>11, <1>13, <1>14 DEF PeersInv

----------------------------------------------------------------------------
(***************************************************************************)
(* The theorems.                                                           *)
(***************************************************************************)

\* The invariant holds before the first peer is known.
LEMMA PeersInit ==
    ASSUME Init
    PROVE  PeersInv
<1> DEFINE w == setup.wired
           On == DOMAIN w
           P == {[addr |-> w[c], by |-> c] : c \in On}
<1>1. /\ setup \in Setups /\ w \in Seq(Addr) /\ IsInjective(w)
      /\ Len(w) <= setup.slots /\ setup.slots \in 0..MaxCuid
  BY SwarmAssumption DEF Init
<1>2. On = 1..Len(w) /\ On \subseteq Cuid /\ \A c \in On : w[c] \in Addr
  BY <1>1, BtChokeAssumption DEF Cuid
<1>3. /\ cmd = [c \in Cuid |-> IF c \in On THEN [st |-> "wired", addr |-> w[c]] ELSE NoCmd]
      /\ ps = [InitStorage EXCEPT !.used = P, !.uniq = ToSet(w)]
      /\ sess = [c \in On |-> [NewSession EXCEPT !.interested = TRUE]]
      /\ rt = [halt |-> FALSE, finished |-> FALSE]
  BY DEF Init
<1>4. \A c, d \in On : w[c] = w[d] => c = d
  BY <1>1 DEF IsInjective
<1>5. ToSet(w) = {w[c] : c \in On}
  BY DEF ToSet
<1> HIDE DEF w, On
<1>6. cmd \in [Cuid -> Command]
  <2>1. NoCmd \in Command /\ \A c \in On : [st |-> "wired", addr |-> w[c]] \in Command
    BY <1>2 DEF Command, Counted, Interacting
  <2> QED BY <1>3, <2>1
<1>7. /\ \A c \in On : cmd[c].st = "wired" /\ cmd[c].addr = w[c]
      /\ \A c \in Cuid \ On : cmd[c].st = "none"
  BY <1>2, <1>3 DEF NoCmd
<1>8. InSession(cmd) = On
  BY <1>2, <1>7 DEF InSession, Interacting
<1>9. HeldBy(cmd) = P
  <2>1. {d \in Cuid : cmd[d].st \in Counted} = On
    BY <1>2, <1>7 DEF Counted, Interacting
  <2>2. HeldBy(cmd) = {[addr |-> cmd[c].addr, by |-> c] : c \in On}
    BY <2>1 DEF HeldBy
  <2> QED BY <1>7, <2>2
<1>10. IsFiniteSet(P)
  <2> DEFINE f == [c \in On |-> [addr |-> w[c], by |-> c]]
  <2>1. IsFiniteSet(On)
    BY <1>2, CommandsFinite
  <2>2. P = {f[c] : c \in On} /\ f = [c \in On |-> f[c]]
    OBVIOUS
  <2> HIDE DEF f, P
  <2> QED BY <2>1, <2>2, FunctionValues
<1>11. /\ P \subseteq InUse /\ {p.addr : p \in P} = ToSet(w)
       /\ \A p, q \in P : p.addr = q.addr => p = q
  <2>1. P \subseteq InUse
    BY <1>2 DEF InUse
  <2>2. \A p, q \in P : p.addr = q.addr => p = q
    BY <1>4
  <2>3. \A p \in P : \E c \in On : p.addr = w[c]
    OBVIOUS
  <2>4. ASSUME NEW c \in On PROVE \E p \in P : p.addr = w[c]
    <3>1. [addr |-> w[c], by |-> c] \in P /\ [addr |-> w[c], by |-> c].addr = w[c]
      OBVIOUS
    <3> HIDE DEF P
    <3> QED BY <3>1
  <2> HIDE DEF P
  <2>5. {p.addr : p \in P} = ToSet(w)
    BY <1>5, <2>3, <2>4
  <2> QED BY <2>1, <2>2, <2>5
<1> HIDE DEF P
<1>12. ToSet(w) \subseteq Addr
  BY <1>2, <1>5
<1>13. ps.unused = <<>> /\ ps.used = P /\ ps.uniq = ToSet(w) /\ ps \in Storage
  <2>1. ps = [unused |-> <<>>, used |-> P, uniq |-> ToSet(w), bad |-> {}]
    BY <1>3 DEF InitStorage
  <2>2. <<>> \in Seq(Addr)
    OBVIOUS
  <2> QED BY <1>11, <1>12, <2>1, <2>2 DEF Storage
<1>14. Stored(ps)
  <2>1. /\ IsInjective(<<>>) /\ ToSet(<<>>) = {} /\ Len(<<>>) = 0
        /\ 0 <= MaxPeerListSize
    BY PeerStorageAssumption DEF IsInjective, ToSet
  <2> QED BY <1>10, <1>11, <1>13, <2>1 DEF Stored, Tidy, UsedAddrs
<1>15. Slotted(sess, RegularSlots)
  <2> DEFINE z == [NewSession EXCEPT !.interested = TRUE]
  <2>1. z \in Session /\ ~z.opt /\ z.required
    BY DEF NewSession, Session
  <2>2. DOMAIN sess = On /\ \A c \in On : sess[c] = z
    BY <1>3
  <2> HIDE DEF z
  <2>3. Sessions(sess) /\ OneOpt(sess) /\ Regular(sess) = {}
    <3>1. sess = [c \in DOMAIN sess |-> sess[c]]
      BY <1>3
    <3> QED BY <1>2, <2>1, <2>2, <3>1 DEF Sessions, OneOpt, Regular
  <2>4. Cardinality(Regular(sess)) <= RegularSlots
    BY <2>3, FS_EmptySet, RegularSlotsType
  <2> QED BY <2>3, <2>4 DEF Slotted
<1>16. DOMAIN sess = On /\ rt \in [halt : BOOLEAN, finished : BOOLEAN]
  BY <1>3
<1> QED BY <1>1, <1>6, <1>8, <1>9, <1>13, <1>14, <1>15, <1>16 DEF PeersInv, Held

\* Every step keeps the invariant.
LEMMA PeersStep ==
    ASSUME PeersInv, [Next]_vars
    PROVE  PeersInv'
<1>1. CASE UNCHANGED vars
  <2>1. RegularSlots' = RegularSlots
    BY <1>1 DEF RegularSlots, vars
  <2> QED BY <1>1, <2>1 DEF PeersInv, vars
<1>2. CASE \E S \in SUBSET setup.found : PeersFound(S)
  BY <1>2, PeersFoundKeeps
<1>3. CASE \E a \in setup.found : PeerFound(a) \/ Accept(a)
  BY <1>3, PeerFoundKeeps, AcceptKeeps
<1>4. CASE \E a \in Addr : BadPeerExpires(IpOf[a])
  BY <1>4, BadPeerExpiresKeeps
<1>5. CASE MakeNewConnections
  BY <1>5, MakeNewConnectionsKeeps
<1>6. ASSUME NEW c \in Cuid,
             \/ Initiate(c) \/ Encrypt(c) \/ TryLegacy(c) \/ ConnectFails(c)
             \/ Received(c) \/ ReceiveFails(c)
             \/ HandshakeDone(c)
             \/ \E late \in Late(c), m \in Talk(c) : Interact(c, late, m)
             \/ \E m \in Talk(c), wrong \in BOOLEAN : InteractionFails(c, m, wrong)
             \/ \E m \in Talk(c) : DownloadFails(c, m)
             \/ Exit(c)
      PROVE  PeersInv'
  <2>1. CASE Initiate(c) \/ Encrypt(c) \/ TryLegacy(c) \/ HandshakeDone(c)
    BY <2>1, InitiateKeeps
  <2>2. CASE ConnectFails(c)
    BY <2>2, ConnectFailsKeeps
  <2>3. CASE Received(c) \/ ReceiveFails(c)
    BY <2>3, ReceivedKeeps, ReceiveFailsKeeps
  <2>4. CASE \E late \in Late(c), m \in Talk(c) : Interact(c, late, m)
    <3>1. PICK late \in Late(c), m \in Talk(c) : Interact(c, late, m)
      BY <2>4
    <3>2. late \in BOOLEAN
      BY DEF Late
    <3> QED BY <3>1, <3>2, InteractKeeps
  <2>5. CASE \E m \in Talk(c), wrong \in BOOLEAN : InteractionFails(c, m, wrong)
    BY <2>5, InteractionFailsKeeps
  <2>6. CASE \E m \in Talk(c) : DownloadFails(c, m)
    BY <2>6, DownloadFailsKeeps
  <2>7. CASE Exit(c)
    BY <2>7, ExitKeeps
  <2> QED BY <1>6, <2>1, <2>2, <2>3, <2>4, <2>5, <2>6, <2>7
<1>7. CASE ChokeRound \/ DownloadFinished \/ Halt
  BY <1>7, ChokeRoundKeeps, FinishKeeps, HaltKeeps
<1> QED BY <1>1, <1>2, <1>3, <1>4, <1>5, <1>6, <1>7 DEF Next

\* The numbers: the known addresses are the untried ones and those in use.
LEMMA AddressCount ==
    ASSUME NEW s, Stored(s)
    PROVE  Cardinality(s.uniq) = Len(s.unused) + Cardinality(s.used)
<1> DEFINE l == s.unused
           f == [p \in s.used |-> p.addr]
<1>1. /\ l \in Seq(Addr) /\ Len(l) \in Nat /\ IsInjective(l)
      /\ IsFiniteSet(s.used) /\ \A p, q \in s.used : p.addr = q.addr => p = q
      /\ ToSet(l) \cap UsedAddrs(s) = {} /\ s.uniq = ToSet(l) \cup UsedAddrs(s)
  BY DEF Stored, Tidy, Storage
<1>2. IsFiniteSet(ToSet(l)) /\ Cardinality(ToSet(l)) = Len(l)
  <2>1. IsFiniteSet(1..Len(l)) /\ Cardinality(1..Len(l)) = Len(l)
    <3>1. ASSUME NEW k \in Nat PROVE IsFiniteSet(1..k) /\ Cardinality(1..k) = k
      BY FS_Interval
    <3> QED BY <1>1, <3>1
  <2>2. ToSet(l) = {l[i] : i \in 1..Len(l)} /\ l = [i \in 1..Len(l) |-> l[i]]
    BY <1>1 DEF ToSet
  <2> HIDE DEF l
  <2> QED BY <1>1, <2>1, <2>2, FunctionValues
<1>3. IsFiniteSet(UsedAddrs(s)) /\ Cardinality(UsedAddrs(s)) = Cardinality(s.used)
  <2>1. /\ UsedAddrs(s) = {f[p] : p \in s.used} /\ f = [p \in s.used |-> f[p]]
        /\ IsInjective(f)
    BY <1>1 DEF UsedAddrs, IsInjective
  <2> HIDE DEF f
  <2> QED BY <1>1, <2>1, FunctionValues
<1> HIDE DEF l
<1>4. Cardinality(s.used) \in Nat /\ Cardinality({}) = 0
  BY <1>1, FS_CardinalityType, FS_EmptySet
<1>5. Cardinality(s.uniq) = Len(l) + Cardinality(s.used)
  BY SMTT(60), <1>1, <1>2, <1>3, <1>4, FS_Union
<1> QED BY <1>5 DEF l

\* Whatever trackers, other peers and incoming connections tell, and however
\* connections fail: an address is known once, every command has its peer in
\* use, and while the download goes on no other peer is in use.  The sum is
\* what the destructor of DefaultPeerStorage asserts.
THEOREM PeersCorrect ==
    Spec => []EachPeerOnce
<1>1. Init => PeersInv
  BY PeersInit
<1>2. PeersInv /\ [Next]_vars => PeersInv'
  BY PeersStep
<1>3. PeersInv => EachPeerOnce
  <2> SUFFICES ASSUME PeersInv PROVE EachPeerOnce
    OBVIOUS
  <2>1. Stored(ps) /\ Held(ps.used, cmd, rt.halt) /\ DOMAIN sess = InSession(cmd)
    BY DEF PeersInv
  <2>2. Cardinality(ps.uniq) = Len(ps.unused) + Cardinality(ps.used)
    BY <2>1, AddressCount
  <2>3. /\ ps.uniq = ToSet(ps.unused) \cup {p.addr : p \in ps.used}
        /\ Len(ps.unused) <= MaxPeerListSize
    BY <2>1 DEF Stored, Tidy, UsedAddrs
  <2>4. {PeerOf(c) : c \in {d \in Cuid : cmd[d].st \in Counted}} = HeldBy(cmd)
    BY DEF PeerOf, HeldBy
  <2> QED BY <2>1, <2>2, <2>3, <2>4 DEF EachPeerOnce, Held, InSession
<1> QED BY <1>1, <1>2, <1>3, PTL DEF Spec

\* However choke rounds, messages, leaving peers and the end of the download
\* follow on each other, no more peers are to be unchoked than BtLeecherState-
\* Choke and BtSeederStateChoke have slots.
THEOREM UploadsCorrect ==
    Spec => []UploadSlots
<1>1. Init => PeersInv
  BY PeersInit
<1>2. PeersInv /\ [Next]_vars => PeersInv'
  BY PeersStep
<1>3. PeersInv => UploadSlots
  <2> SUFFICES ASSUME PeersInv PROVE UploadSlots
    OBVIOUS
  <2>1. Cardinality({c \in DOMAIN sess : ~shouldBeChoking(sess[c])}) <= RegularSlots + 1
    BY RegularSlotsType, SlottedUnchokes DEF PeersInv
  <2>2. RegularSlots + 1 = UnchokeSlots + IF rt.finished THEN 2 ELSE 1
    BY RegularSlotsType
  <2> QED BY <2>1, <2>2 DEF UploadSlots
<1> QED BY <1>1, <1>2, <1>3, PTL DEF Spec

=============================================================================
