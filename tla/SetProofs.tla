----------------------------- MODULE SetProofs -----------------------------
(***************************************************************************)
(* Facts about numbers, finite sets, loops and queues that the proofs of   *)
(* several modules use.                                                    *)
(***************************************************************************)
EXTENDS Integers, FiniteSets, FiniteSetsExt, Functions, SequencesExt, Queues,
        FiniteSetTheorems, SequenceTheorems, TLAPS

\* A nonempty set of natural numbers has a least element.
LEMMA LeastNumber ==
    ASSUME NEW S \in SUBSET Nat, S # {}
    PROVE  Min(S) \in S /\ \A y \in S : Min(S) <= y
<1> DEFINE R == {ss \in Nat \X Nat : ss[1] < ss[2]}
<1>1. IsWellFoundedOn(R, Nat)
  BY NatLessThanWellFounded DEF OpToRel
<1>0. \A a, b \in Nat : a < b => <<a, b>> \in R
  OBVIOUS
<1> HIDE DEF R
<1>2. PICK x \in S : \A y \in S : ~(<<y, x>> \in R)
  BY <1>1, WFMin, Zenon
<1>3. ASSUME NEW y \in S PROVE x <= y
  <2>1. x \in Nat /\ y \in Nat
    OBVIOUS
  <2>2. <<y, x>> \notin R
    BY <1>2
  <2>3. ~(y < x)
    BY <1>0, <2>1, <2>2
  <2> QED BY <2>1, <2>3
<1> QED BY <1>3 DEF Min

\* The greater of two numbers.
LEMMA MaxOfTwo ==
    ASSUME NEW x \in Int, NEW y \in Int
    PROVE  Max({x, y}) = IF x >= y THEN x ELSE y
BY DEF Max

\* The smaller of two numbers.
LEMMA MinOfTwo ==
    ASSUME NEW x \in Int, NEW y \in Int
    PROVE  Min({x, y}) = IF x <= y THEN x ELSE y
BY DEF Min

\* The values of a function with a finite domain.
LEMMA FunctionValues ==
    ASSUME NEW D, IsFiniteSet(D), NEW f, f = [x \in D |-> f[x]]
    PROVE  /\ IsFiniteSet({f[x] : x \in D})
           /\ IsInjective(f) => Cardinality({f[x] : x \in D}) = Cardinality(D)
<1> DEFINE T == {f[x] : x \in D}
<1>1. f \in Surjection(D, T)
  BY DEF Surjection
<1>2. IsInjective(f) => f \in Injection(D, T)
  BY <1>1 DEF Injection, Surjection
<1> HIDE DEF T
<1> QED BY <1>1, <1>2, FS_Surjection DEF T

\* The least of three numbers.
LEMMA LeastOfThree ==
    ASSUME NEW a \in Nat, NEW b \in Nat, NEW c \in Nat
    PROVE  Min({a, b, c}) \in Nat /\ Min({a, b, c}) <= a
           /\ Min({a, b, c}) <= b /\ Min({a, b, c}) <= c
<1> DEFINE S == {a, b, c}
<1>1. S \in SUBSET Nat /\ S # {} /\ a \in S /\ b \in S /\ c \in S
  OBVIOUS
<1> HIDE DEF S
<1>2. Min(S) \in Nat /\ Min(S) <= a /\ Min(S) <= b /\ Min(S) <= c
  BY <1>1, LeastNumber
<1> QED BY <1>2 DEF S

\* Induction over the rounds.
LEMMA RoundByRound ==
    ASSUME NEW N \in Nat, NEW S, 0 \in S, \A i \in 1 .. N : i - 1 \in S => i \in S
    PROVE  \A i \in 0 .. N : i \in S
<1> DEFINE B == {i \in 0 .. N : i \notin S}
<1> SUFFICES ASSUME B # {} PROVE FALSE
  OBVIOUS
<1>1. B \in SUBSET Nat
  OBVIOUS
<1>2. PICK m \in B : \A y \in B : m <= y
  BY <1>1, LeastNumber
<1>3. m \in Nat /\ m \in 0 .. N /\ m \notin S /\ m # 0
  BY <1>1
<1>4. m \in 1 .. N /\ m - 1 \in 0 .. N /\ ~(m <= m - 1)
  BY <1>3
<1>5. m - 1 \in S
  BY <1>2, <1>4
<1> QED BY <1>3, <1>4, <1>5

\* A loop that computes a value of D in each round, from a and with g.
LoopStep(g, N, D) == g \in [1 .. N -> [D -> D]]
LoopRun(f, N, D, a, g) ==
    f \in [0 .. N -> D] /\ f[0] = a /\ \A i \in 1 .. N : f[i] = g[i][f[i - 1]]

LEMMA LoopRuns ==
    ASSUME NEW N \in Nat, NEW D, NEW a \in D, NEW g, LoopStep(g, N, D)
    PROVE  \E f : LoopRun(f, N, D, a, g)
<1>0. g \in [1 .. N -> [D -> D]]
  BY DEF LoopStep
<1> DEFINE G(f, n) == /\ f \in [0 .. n -> D]
                      /\ f[0] = a /\ \A i \in 1 .. n : f[i] = g[i][f[i - 1]]
           S == {n \in Nat : \E f : G(f, n)}
<1>1. 0 \in S
  <2> DEFINE f == [i \in 0 .. 0 |-> a]
  <2>1. G(f, 0)
    OBVIOUS
  <2> QED BY <2>1
<1>2. ASSUME NEW i \in 1 .. N, i - 1 \in S PROVE i \in S
  <2>1. PICK f : G(f, i - 1)
    BY <1>2
  <2>2. i \in Nat /\ i # 0 /\ i - 1 \in 0 .. i - 1 /\ 0 \in 0 .. i - 1
    OBVIOUS
  <2> DEFINE v == g[i][f[i - 1]]
             h == [j \in 0 .. i |-> IF j = i THEN v ELSE f[j]]
  <2>3. v \in D
    <3>1. f[i - 1] \in D
      BY <2>1, <2>2
    <3> QED BY <1>0, <3>1
  <2> HIDE DEF v
  <2>4. \A j \in 0 .. i : j # i => j \in 0 .. i - 1
    BY <2>2
  <2>5. h \in [0 .. i -> D]
    BY <2>1, <2>3, <2>4
  <2>6. h[0] = a
    BY <2>1, <2>2
  <2>7. ASSUME NEW j \in 1 .. i PROVE h[j] = g[j][h[j - 1]]
    <3>1. j - 1 \in 0 .. i /\ j \in 0 .. i /\ j - 1 # i
      BY <2>2
    <3>2. h[j - 1] = f[j - 1]
      BY <3>1
    <3>3. CASE j = i
      BY <3>1, <3>2, <3>3 DEF v
    <3>4. CASE j # i
      <4>1. j \in 1 .. i - 1 /\ h[j] = f[j]
        BY <2>2, <3>1, <3>4
      <4> HIDE DEF h
      <4>2. f[j] = g[j][f[j - 1]]
        BY <2>1, <4>1
      <4> QED BY <3>2, <4>1, <4>2
    <3> QED BY <3>3, <3>4
  <2> HIDE DEF h
  <2>8. G(h, i)
    BY <2>5, <2>6, <2>7
  <2> QED BY <2>2, <2>8
<1> HIDE DEF G, S
<1>3. N \in S
  <2>1. \A i \in 0 .. N : i \in S
    BY <1>1, <1>2, RoundByRound
  <2> QED BY <2>1
<1>4. PICK f : G(f, N)
  BY <1>3 DEF S
<1> QED BY <1>4 DEF G, LoopRun

(***************************************************************************)
(* Queues.                                                                 *)
(***************************************************************************)
\* What a sequence is.
LEMMA SeqIs ==
    ASSUME NEW A, NEW q \in Seq(A)
    PROVE  /\ Len(q) \in Nat /\ DOMAIN q = 1 .. Len(q)
           /\ \A i \in 1 .. Len(q) : q[i] \in A
           /\ \A x : x \in ToSet(q) <=> \E i \in 1 .. Len(q) : q[i] = x
           /\ ToSet(q) \subseteq A
           /\ q = <<>> <=> Len(q) = 0
BY DEF ToSet

\* A request joins the end of a queue.
LEMMA AppendIs ==
    ASSUME NEW A, NEW q \in Seq(A), NEW a \in A
    PROVE  /\ Append(q, a) \in Seq(A) /\ ToSet(Append(q, a)) = ToSet(q) \cup {a}
           /\ IsInjective(q) /\ a \notin ToSet(q) => IsInjective(Append(q, a))
<1> DEFINE r == Append(q, a)
<1>1. /\ r \in Seq(A) /\ Len(r) = Len(q) + 1 /\ Len(q) \in Nat
      /\ \A i \in 1 .. Len(q) : r[i] = q[i]
      /\ r[Len(q) + 1] = a
  OBVIOUS
<1> HIDE DEF r
<1>2. /\ \A x : x \in ToSet(q) <=> \E i \in 1 .. Len(q) : q[i] = x
      /\ \A x : x \in ToSet(r) <=> \E i \in 1 .. Len(r) : r[i] = x
      /\ DOMAIN q = 1 .. Len(q) /\ DOMAIN r = 1 .. Len(r)
  BY <1>1, SeqIs
<1>3. ASSUME NEW x PROVE x \in ToSet(r) <=> x \in ToSet(q) \cup {a}
  <2>1. ASSUME NEW i \in 1 .. Len(r) PROVE i \in 1 .. Len(q) \/ i = Len(q) + 1
    BY <1>1
  <2>2. Len(q) + 1 \in 1 .. Len(r) /\ \A i \in 1 .. Len(q) : i \in 1 .. Len(r)
    BY <1>1
  <2> QED BY <1>1, <1>2, <2>1, <2>2
<1>4. ToSet(r) = ToSet(q) \cup {a}
  BY <1>3
<1>5. ASSUME IsInjective(q), a \notin ToSet(q) PROVE IsInjective(r)
  <2>1. ASSUME NEW i \in DOMAIN r, NEW j \in DOMAIN r, r[i] = r[j] PROVE i = j
    <3>1. \A k \in DOMAIN r : k \in DOMAIN q \/ k = Len(q) + 1
      BY <1>1, <1>2
    <3>2. \A k \in DOMAIN q : r[k] = q[k] /\ r[k] # a
      BY <1>1, <1>2, <1>5
    <3> QED BY <1>1, <1>5, <2>1, <3>1, <3>2 DEF IsInjective
  <2> QED BY <2>1 DEF IsInjective
<1> QED BY <1>1, <1>4, <1>5 DEF r

\* The elements of two queues put together.
JoinOf(r, p, q, A) ==
    /\ r \in Seq(A) /\ Len(r) = Len(p) + Len(q)
    /\ \A i \in 1 .. Len(r) : r[i] = IF i <= Len(p) THEN p[i] ELSE q[i - Len(p)]

LEMMA ConcatAt ==
    ASSUME NEW A, NEW p \in Seq(A), NEW q \in Seq(A)
    PROVE  JoinOf(p \o q, p, q, A)
<1> DEFINE r == p \o q
<1>1. /\ r \in Seq(A) /\ Len(r) = Len(p) + Len(q) /\ Len(p) \in Nat /\ Len(q) \in Nat
      /\ \A i \in 1 .. Len(p) : r[i] = p[i]
      /\ \A i \in 1 .. Len(r) : i > Len(p) => r[i] = q[i - Len(p)]
  OBVIOUS
<1> HIDE DEF r
<1>2. ASSUME NEW i \in 1 .. Len(r), i <= Len(p) PROVE i \in 1 .. Len(p)
  BY <1>1, <1>2
<1>3. ASSUME NEW i \in 1 .. Len(r), ~(i <= Len(p)) PROVE i > Len(p)
  BY <1>1, <1>3
<1>4. JoinOf(r, p, q, A)
  BY <1>1, <1>2, <1>3 DEF JoinOf
<1> QED BY <1>4 DEF r

\* One queue is put before another.
LEMMA ConcatIs ==
    ASSUME NEW A, NEW p \in Seq(A), NEW q \in Seq(A)
    PROVE  /\ p \o q \in Seq(A) /\ ToSet(p \o q) = ToSet(p) \cup ToSet(q)
           /\ IsInjective(p) /\ IsInjective(q) /\ ToSet(p) \cap ToSet(q) = {} => IsInjective(p \o q)
<1> DEFINE r == p \o q
<1>1. /\ r \in Seq(A) /\ Len(r) = Len(p) + Len(q) /\ Len(p) \in Nat /\ Len(q) \in Nat
      /\ \A i \in 1 .. Len(p) : r[i] = p[i]
      /\ \A i \in 1 .. Len(r) : i > Len(p) => r[i] = q[i - Len(p)]
  OBVIOUS
<1> HIDE DEF r
<1>2. /\ \A x : x \in ToSet(p) <=> \E i \in 1 .. Len(p) : p[i] = x
      /\ \A x : x \in ToSet(q) <=> \E i \in 1 .. Len(q) : q[i] = x
      /\ \A x : x \in ToSet(r) <=> \E i \in 1 .. Len(r) : r[i] = x
      /\ DOMAIN p = 1 .. Len(p) /\ DOMAIN q = 1 .. Len(q) /\ DOMAIN r = 1 .. Len(r)
  BY <1>1, SeqIs
<1>3. ASSUME NEW i \in DOMAIN r
      PROVE  \/ i \in DOMAIN p /\ r[i] = p[i]
             \/ i - Len(p) \in DOMAIN q /\ i \notin DOMAIN p /\ r[i] = q[i - Len(p)]
  BY <1>1, <1>2
<1>4. ASSUME NEW i \in DOMAIN q PROVE Len(p) + i \in DOMAIN r /\ r[Len(p) + i] = q[i]
  <2>1. Len(p) + i \in DOMAIN r /\ Len(p) + i > Len(p) /\ (Len(p) + i) - Len(p) = i
    BY <1>1, <1>2
  <2> QED BY <1>1, <1>2, <2>1
<1>5. \A i \in DOMAIN p : i \in DOMAIN r /\ r[i] = p[i]
  BY <1>1, <1>2
<1>6. ASSUME NEW x PROVE x \in ToSet(r) <=> x \in ToSet(p) \cup ToSet(q)
  <2>1. ASSUME x \in ToSet(r) PROVE x \in ToSet(p) \cup ToSet(q)
    <3>1. PICK i \in DOMAIN r : r[i] = x
      BY <1>2, <2>1
    <3>2. \/ i \in DOMAIN p /\ p[i] = x
          \/ i - Len(p) \in DOMAIN q /\ q[i - Len(p)] = x
      BY <1>3, <3>1
    <3> QED BY <1>2, <3>2
  <2>2. ASSUME x \in ToSet(p) PROVE x \in ToSet(r)
    <3>1. PICK i \in DOMAIN p : p[i] = x
      BY <1>2, <2>2
    <3> QED BY <1>2, <1>5, <3>1
  <2>3. ASSUME x \in ToSet(q) PROVE x \in ToSet(r)
    <3>1. PICK i \in DOMAIN q : q[i] = x
      BY <1>2, <2>3
    <3> QED BY <1>2, <1>4, <3>1
  <2> QED BY <2>1, <2>2, <2>3
<1>7. ASSUME IsInjective(p), IsInjective(q), ToSet(p) \cap ToSet(q) = {} PROVE IsInjective(r)
  <2> SUFFICES ASSUME NEW i \in DOMAIN r, NEW j \in DOMAIN r, r[i] = r[j] PROVE i = j
    BY DEF IsInjective
  <2>1. CASE i \in DOMAIN p /\ j \in DOMAIN p
    BY <1>5, <1>7, <2>1 DEF IsInjective
  <2>2. CASE i \notin DOMAIN p /\ j \notin DOMAIN p
    <3>1. i - Len(p) = j - Len(p)
      BY <1>3, <1>7, <2>2 DEF IsInjective
    <3> QED BY <1>1, <1>2, <3>1
  <2>3. CASE i \in DOMAIN p /\ j \notin DOMAIN p
    <3>1. r[i] \in ToSet(p) /\ r[j] \in ToSet(q)
      BY <1>2, <1>3, <1>5, <2>3
    <3> QED BY <1>7, <3>1
  <2>4. CASE i \notin DOMAIN p /\ j \in DOMAIN p
    <3>1. r[i] \in ToSet(q) /\ r[j] \in ToSet(p)
      BY <1>2, <1>3, <1>5, <2>4
    <3> QED BY <1>7, <3>1
  <2> QED BY <2>1, <2>2, <2>3, <2>4
<1>8. ToSet(r) = ToSet(p) \cup ToSet(q)
  BY <1>6
<1> QED BY <1>1, <1>7, <1>8 DEF r

\* A queue is cut in two.
LEMMA CutIs ==
    ASSUME NEW A, NEW q \in Seq(A), NEW k \in 0 .. Len(q)
    PROVE  LET f == SubSeq(q, 1, k)
               g == SubSeq(q, k + 1, Len(q))
           IN  /\ f \in Seq(A) /\ g \in Seq(A) /\ ToSet(q) = ToSet(f) \cup ToSet(g)
               /\ \A x \in ToSet(f) : \E i \in 1 .. k : q[i] = x
               /\ g # <<>> => k < Len(q) /\ Head(g) = q[k + 1]
               /\ IsInjective(q) => IsInjective(f) /\ IsInjective(g) /\ ToSet(f) \cap ToSet(g) = {}
<1> DEFINE f == SubSeq(q, 1, k)
           g == SubSeq(q, k + 1, Len(q))
<1>1. /\ f \in Seq(A) /\ g \in Seq(A) /\ Len(q) \in Nat /\ k \in Nat
      /\ Len(f) = k /\ Len(g) = Len(q) - k
      /\ \A i \in 1 .. k : f[i] = q[i]
      /\ \A i \in 1 .. Len(q) - k : g[i] = q[k + i]
  OBVIOUS
<1>h. g # <<>> => k < Len(q) /\ Head(g) = q[k + 1]
  <2>1. g # <<>> => Len(g) > 0 /\ Head(g) = g[1]
    BY <1>1
  <2> HIDE DEF g
  <2> QED BY <1>1, <2>1
<1> HIDE DEF f, g
<1>2. /\ \A x : x \in ToSet(f) <=> \E i \in 1 .. Len(f) : f[i] = x
      /\ \A x : x \in ToSet(g) <=> \E i \in 1 .. Len(g) : g[i] = x
      /\ \A x : x \in ToSet(q) <=> \E i \in 1 .. Len(q) : q[i] = x
      /\ DOMAIN f = 1 .. k /\ DOMAIN g = 1 .. Len(q) - k /\ DOMAIN q = 1 .. Len(q)
  <2>1. /\ \A x : x \in ToSet(f) <=> \E i \in 1 .. Len(f) : f[i] = x
        /\ DOMAIN f = 1 .. Len(f)
    BY <1>1, SeqIs, Zenon
  <2>2. /\ \A x : x \in ToSet(g) <=> \E i \in 1 .. Len(g) : g[i] = x
        /\ DOMAIN g = 1 .. Len(g)
    BY <1>1, SeqIs, Zenon
  <2>3. /\ \A x : x \in ToSet(q) <=> \E i \in 1 .. Len(q) : q[i] = x
        /\ DOMAIN q = 1 .. Len(q)
    BY SeqIs, Zenon
  <2> QED BY <1>1, <2>1, <2>2, <2>3, Zenon
<1>3. \A x \in ToSet(f) : \E i \in 1 .. k : q[i] = x
  BY <1>1, <1>2
<1>4. \A i \in 1 .. k : i \in DOMAIN q /\ q[i] = f[i]
  BY <1>1, <1>2
<1>5. \A i \in 1 .. Len(q) - k : k + i \in DOMAIN q /\ q[k + i] = g[i]
  BY <1>1, <1>2
<1>6. ASSUME NEW x \in ToSet(q) PROVE x \in ToSet(f) \cup ToSet(g)
  <2>1. PICK i \in 1 .. Len(q) : q[i] = x
    BY <1>2
  <2>2. CASE i <= k
    BY <1>1, <1>2, <2>1, <2>2
  <2>3. CASE i > k
    <3>1. i - k \in 1 .. Len(q) - k /\ k + (i - k) = i
      BY <1>1, <2>3
    <3> QED BY <1>1, <1>2, <2>1, <3>1
  <2> QED BY <1>1, <2>2, <2>3
<1>7. ToSet(q) = ToSet(f) \cup ToSet(g)
  BY <1>1, <1>2, <1>4, <1>5, <1>6
<1>8. ASSUME IsInjective(q) PROVE IsInjective(f) /\ IsInjective(g) /\ ToSet(f) \cap ToSet(g) = {}
  <2>1. IsInjective(f)
    BY <1>2, <1>4, <1>8 DEF IsInjective
  <2>2. ASSUME NEW i \in DOMAIN g, NEW j \in DOMAIN g, g[i] = g[j] PROVE i = j
    <3>1. k + i = k + j
      BY <1>2, <1>5, <1>8, <2>2 DEF IsInjective
    <3> QED BY <1>1, <1>2, <3>1
  <2>3. ASSUME NEW x \in ToSet(f), x \in ToSet(g) PROVE FALSE
    <3>1. PICK i \in 1 .. k : f[i] = x
      BY <1>1, <1>2, <2>3
    <3>2. PICK j \in 1 .. Len(q) - k : g[j] = x
      BY <1>1, <1>2, <2>3
    <3>3. i = k + j
      BY <1>4, <1>5, <1>8, <3>1, <3>2 DEF IsInjective
    <3> QED BY <1>1, <3>3
  <2> QED BY <2>1, <2>2, <2>3 DEF IsInjective
<1> QED BY <1>h, <1>1, <1>3, <1>7, <1>8 DEF f, g

\* The head of a queue and the rest.
LEMMA HeadIs ==
    ASSUME NEW A, NEW q \in Seq(A), q # <<>>
    PROVE  /\ Head(q) \in A /\ Tail(q) \in Seq(A)
           /\ ToSet(q) = {Head(q)} \cup ToSet(Tail(q))
           /\ IsInjective(q) => IsInjective(Tail(q)) /\ Head(q) \notin ToSet(Tail(q))
<1>1. Len(q) \in Nat /\ Len(q) # 0 /\ Head(q) = q[1] /\ Head(q) \in A
  BY SeqIs
<1> DEFINE f == SubSeq(q, 1, 1)
           g == SubSeq(q, 1 + 1, Len(q))
<1>2. 1 \in 0 .. Len(q)
  BY <1>1
<1>3. /\ f \in Seq(A) /\ g \in Seq(A) /\ ToSet(q) = ToSet(f) \cup ToSet(g)
      /\ IsInjective(q) => IsInjective(f) /\ IsInjective(g) /\ ToSet(f) \cap ToSet(g) = {}
  BY <1>2, CutIs
<1>4. Tail(q) = g
  BY <1>1, TailIsSubSeq
<1>5. f \in Seq(A) /\ Len(f) = 1 /\ f[1] = q[1]
  BY <1>1
<1> HIDE DEF f, g
<1>6a. \A x : x \in ToSet(f) <=> \E i \in 1 .. Len(f) : f[i] = x
  BY <1>5, SeqIs
<1>6. ASSUME NEW x PROVE x \in ToSet(f) <=> x = q[1]
  BY <1>5, <1>6a
<1>7. ToSet(f) = {Head(q)}
  BY <1>1, <1>6
<1> QED BY <1>1, <1>3, <1>4, <1>7

\* An element is taken out of a queue.
LEMMA RemoveIs ==
    ASSUME NEW A, NEW q \in Seq(A), NEW n \in ToSet(q)
    PROVE  LET r == RemoveFirst(q, n)
           IN  /\ r \in Seq(A) /\ Len(r) = Len(q) - 1 /\ Len(q) \in Nat \ {0}
               /\ ToSet(r) \subseteq ToSet(q) /\ ToSet(q) \subseteq ToSet(r) \cup {n}
               /\ IsInjective(q) => IsInjective(r) /\ n \notin ToSet(r)
<1>0. /\ Len(q) \in Nat /\ \A i \in 1 .. Len(q) : q[i] \in A
      /\ \A x : x \in ToSet(q) <=> \E i \in 1 .. Len(q) : q[i] = x
  BY SeqIs
<1> DEFINE I == {i \in 1 .. Len(q) : q[i] = n}
<1>1. I \in SUBSET Nat /\ I # {} /\ \E i \in 1 .. Len(q) : q[i] = n
  BY <1>0
<1>2. PICK m : m = Min(I)
  OBVIOUS
<1>3. m \in I
  BY <1>1, <1>2, LeastNumber
<1>4. m \in 1 .. Len(q) /\ m \in Nat /\ q[m] = n
  BY <1>0, <1>3
<1>5. RemoveFirst(q, n) = SubSeq(q, 1, m - 1) \o SubSeq(q, m + 1, Len(q))
  <2>1. SelectInSeq(q, LAMBDA v : v = n) = m
    BY <1>1, <1>2 DEF SelectInSeq
  <2> QED BY <1>1, <2>1 DEF RemoveFirst, RemoveAt
<1> HIDE DEF I
<1> DEFINE f == SubSeq(q, 1, m - 1)
           g == SubSeq(q, m + 1, Len(q))
<1>6. f \in Seq(A) /\ Len(f) = m - 1 /\ \A j \in 1 .. m - 1 : f[j] = q[j]
  BY <1>0, <1>4
<1>7. g \in Seq(A) /\ Len(g) = Len(q) - m /\ \A j \in 1 .. Len(q) - m : g[j] = q[m + j]
  BY <1>0, <1>4
<1> HIDE DEF f, g
<1>8. f \o g \in Seq(A) /\ ToSet(f \o g) = ToSet(f) \cup ToSet(g)
  BY <1>6, <1>7, ConcatIs
<1>9. Len(f \o g) = Len(q) - 1
  <2>1. JoinOf(f \o g, f, g, A)
    BY <1>6, <1>7, ConcatAt
  <2> QED BY <1>0, <1>4, <1>6, <1>7, <2>1 DEF JoinOf
<1>10. /\ \A x : x \in ToSet(f) <=> \E i \in 1 .. Len(f) : f[i] = x
       /\ \A x : x \in ToSet(g) <=> \E i \in 1 .. Len(g) : g[i] = x
  <2>1. \A x : x \in ToSet(f) <=> \E i \in 1 .. Len(f) : f[i] = x
    BY <1>6, SeqIs
  <2>2. \A x : x \in ToSet(g) <=> \E i \in 1 .. Len(g) : g[i] = x
    BY <1>7, SeqIs
  <2> QED BY <2>1, <2>2
<1>11. ASSUME NEW x \in ToSet(f) PROVE x \in ToSet(q)
  <2>1. PICK i \in 1 .. m - 1 : f[i] = x
    BY <1>6, <1>10
  <2>2. i \in 1 .. Len(q) /\ q[i] = x
    BY <1>0, <1>4, <1>6, <2>1
  <2> QED BY <1>0, <2>2
<1>12. ASSUME NEW x \in ToSet(g) PROVE x \in ToSet(q)
  <2>1. PICK i \in 1 .. Len(q) - m : g[i] = x
    BY <1>7, <1>10
  <2>2. m + i \in 1 .. Len(q) /\ q[m + i] = x
    BY <1>0, <1>4, <1>7, <2>1
  <2> QED BY <1>0, <2>2
<1>13. ASSUME NEW x \in ToSet(q), x # n PROVE x \in ToSet(f) \cup ToSet(g)
  <2>1. PICK i \in 1 .. Len(q) : q[i] = x
    BY <1>0
  <2>2. CASE i < m
    <3>1. i \in 1 .. m - 1 /\ f[i] = x
      BY <1>4, <1>6, <2>1, <2>2
    <3> QED BY <1>6, <1>10, <3>1
  <2>3. CASE i > m
    <3>1. i - m \in 1 .. Len(q) - m /\ m + (i - m) = i
      BY <1>0, <1>4, <2>3
    <3>2. g[i - m] = x
      BY <1>7, <2>1, <3>1
    <3> QED BY <1>7, <1>10, <3>1, <3>2
  <2>4. i # m
    BY <1>4, <1>13, <2>1
  <2> QED BY <1>4, <2>2, <2>3, <2>4
<1>14. RemoveFirst(q, n) = f \o g
  BY <1>5 DEF f, g
<1>15. Len(q) # 0
  BY <1>0, <1>4
<1>16. ASSUME NEW i \in 1 .. Len(q) - 1
       PROVE  \/ i < m /\ (f \o g)[i] = q[i]
              \/ ~(i < m) /\ (f \o g)[i] = q[i + 1]
  <2>1. JoinOf(f \o g, f, g, A)
    BY <1>6, <1>7, ConcatAt
  <2>2. (f \o g)[i] = IF i <= Len(f) THEN f[i] ELSE g[i - Len(f)]
    BY <1>9, <2>1 DEF JoinOf
  <2>3. CASE i < m
    BY <1>0, <1>4, <1>6, <2>2, <2>3
  <2>4. CASE ~(i < m)
    <3>1. ~(i <= Len(f)) /\ i - Len(f) \in 1 .. Len(q) - m /\ m + (i - Len(f)) = i + 1
      BY <1>0, <1>4, <1>6, <2>4
    <3> QED BY <1>7, <2>2, <2>4, <3>1
  <2> QED BY <2>3, <2>4
<1>17. ASSUME IsInjective(q) PROVE IsInjective(f \o g) /\ n \notin ToSet(f \o g)
  <2>1. PICK r : r = f \o g
    OBVIOUS
  <2>2. /\ r \in Seq(A) /\ Len(r) = Len(q) - 1
        /\ \A i \in 1 .. Len(q) - 1 : \/ i < m /\ r[i] = q[i]
                                      \/ ~(i < m) /\ r[i] = q[i + 1]
    BY <1>8, <1>9, <1>16, <2>1
  <2>3. DOMAIN r = 1 .. Len(q) - 1 /\ DOMAIN q = 1 .. Len(q)
    BY <2>2
  <2>4. \A i, j \in 1 .. Len(q) : q[i] = q[j] => i = j
    BY <1>17, <2>3 DEF IsInjective
  <2>5. \A i \in 1 .. Len(q) - 1 : i \in 1 .. Len(q) /\ i + 1 \in 1 .. Len(q)
    BY <1>0
  <2>6. ASSUME NEW i \in 1 .. Len(q) - 1, NEW j \in 1 .. Len(q) - 1, r[i] = r[j] PROVE i = j
    <3>1. CASE i < m /\ j < m
      BY <2>2, <2>4, <2>5, <2>6, <3>1
    <3>2. CASE ~(i < m) /\ ~(j < m)
      <4>1. r[i] = q[i + 1] /\ r[j] = q[j + 1]
        BY <2>2, <3>2
      <4>2. i + 1 = j + 1
        BY <2>4, <2>5, <2>6, <4>1
      <4> QED BY <4>2
    <3>3. CASE i < m /\ ~(j < m)
      <4>1. r[i] = q[i] /\ r[j] = q[j + 1]
        BY <2>2, <3>3
      <4>2. i = j + 1
        BY <2>4, <2>5, <2>6, <4>1
      <4> QED BY <1>4, <3>3, <4>2
    <3>4. CASE ~(i < m) /\ j < m
      <4>1. r[i] = q[i + 1] /\ r[j] = q[j]
        BY <2>2, <3>4
      <4>2. i + 1 = j
        BY <2>4, <2>5, <2>6, <4>1
      <4> QED BY <1>4, <3>4, <4>2
    <3> QED BY <3>1, <3>2, <3>3, <3>4
  <2>7. ASSUME NEW i \in 1 .. Len(q) - 1 PROVE r[i] # n
    <3>1. CASE i < m
      <4>1. r[i] = q[i] /\ i # m
        BY <1>4, <2>2, <3>1
      <4> QED BY <1>4, <2>4, <2>5, <4>1
    <3>2. CASE ~(i < m)
      <4>1. r[i] = q[i + 1] /\ i + 1 # m
        BY <1>4, <2>2, <3>2
      <4> QED BY <1>4, <2>4, <2>5, <4>1
    <3> QED BY <3>1, <3>2
  <2>8. IsInjective(r)
    BY <2>3, <2>6 DEF IsInjective
  <2>9. n \notin ToSet(r)
    BY <2>3, <2>7 DEF ToSet
  <2> QED BY <2>1, <2>8, <2>9
<1> QED BY <1>0, <1>8, <1>9, <1>11, <1>12, <1>13, <1>14, <1>15, <1>17

\* The loop of Keep: what is kept of the first n requests.
LEMMA KeptIs ==
    ASSUME NEW A, NEW q \in Seq(A), NEW S
    PROVE  \E f : /\ Keep(q, S) = f[Len(q)] /\ DOMAIN f = 0 .. Len(q)
                  /\ f[0] = <<>>
                  /\ \A n \in 1 .. Len(q) :
                       f[n] = IF q[n] \in S THEN Append(f[n - 1], q[n]) ELSE f[n - 1]
<1>0. Len(q) \in Nat
  BY SeqIs
<1> DEFINE G(f, N) == f = [n \in 0 .. N |->
                              IF n = 0 THEN <<>>
                              ELSE IF q[n] \in S THEN Append(f[n - 1], q[n]) ELSE f[n - 1]]
           B == {N \in Nat : ~ \E f : G(f, N)}
<1>1. ASSUME NEW N \in Nat, NEW f, G(f, N)
      PROVE  \E g : G(g, N + 1)
  <2> DEFINE v == IF q[N + 1] \in S THEN Append(f[N], q[N + 1]) ELSE f[N]
             g == [n \in 0 .. N + 1 |-> IF n = N + 1 THEN v ELSE f[n]]
  <2>1. ASSUME NEW n \in 0 .. N + 1
        PROVE  g[n] = IF n = 0 THEN <<>>
                      ELSE IF q[n] \in S THEN Append(g[n - 1], q[n]) ELSE g[n - 1]
    <3>1. CASE n = N + 1
      <4>1. n # 0 /\ n - 1 = N /\ N \in 0 .. N + 1 /\ N # N + 1
        BY <3>1
      <4>2. g[n - 1] = f[N] /\ g[n] = v
        BY <3>1, <4>1
      <4> QED BY <3>1, <4>1, <4>2
    <3>2. CASE n # N + 1
      <4>1. n \in 0 .. N /\ g[n] = f[n] /\ (n # 0 => n - 1 \in 0 .. N + 1 /\ n - 1 # N + 1)
        BY <3>2
      <4>2. n # 0 => g[n - 1] = f[n - 1]
        BY <4>1
      <4> HIDE DEF g
      <4>3. f[n] = IF n = 0 THEN <<>> ELSE IF q[n] \in S THEN Append(f[n - 1], q[n]) ELSE f[n - 1]
        BY <1>1, <4>1
      <4> QED BY <4>1, <4>2, <4>3
    <3> QED BY <3>1, <3>2
  <2>2. g = [n \in 0 .. N + 1 |-> g[n]]
    OBVIOUS
  <2> HIDE DEF g
  <2>3. G(g, N + 1)
    BY <2>1, <2>2
  <2> QED BY <2>3
<1>2. \E f : G(f, 0)
  <2> DEFINE g == [n \in 0 .. 0 |-> <<>>]
  <2>1. G(g, 0)
    OBVIOUS
  <2> QED BY <2>1
<1> HIDE DEF G
<1>3. B = {}
  <2> SUFFICES ASSUME B # {} PROVE FALSE
    OBVIOUS
  <2>1. B \in SUBSET Nat
    OBVIOUS
  <2>2. PICK m \in B : \A y \in B : m <= y
    BY <2>1, LeastNumber
  <2>3. m \in Nat /\ ~ \E f : G(f, m)
    OBVIOUS
  <2>4. m # 0
    BY <1>2, <2>3
  <2>5. m - 1 \in Nat /\ ~(m <= m - 1) /\ (m - 1) + 1 = m
    BY <2>3, <2>4
  <2>6. m - 1 \notin B
    BY <2>2, <2>5
  <2>7. \E f : G(f, m - 1)
    BY <2>5, <2>6
  <2>8. \E f : G(f, (m - 1) + 1)
    BY <1>1, <2>5, <2>7
  <2> QED BY <2>3, <2>5, <2>8
<1>4. \E f : G(f, Len(q))
  BY <1>0, <1>3
<1> DEFINE K == CHOOSE f : G(f, Len(q))
<1>5. G(K, Len(q))
  BY <1>4
<1>6. Keep(q, S) = K[Len(q)]
  BY DEF Keep, G
<1> HIDE DEF K
<1>7. K = [n \in 0 .. Len(q) |->
             IF n = 0 THEN <<>>
             ELSE IF q[n] \in S THEN Append(K[n - 1], q[n]) ELSE K[n - 1]]
  BY <1>5 DEF G
<1>8. /\ DOMAIN K = 0 .. Len(q)
      /\ \A n \in 0 .. Len(q) : K[n] = IF n = 0 THEN <<>>
                                      ELSE IF q[n] \in S THEN Append(K[n - 1], q[n]) ELSE K[n - 1]
  BY <1>7, Zenon
<1>9. 0 \in 0 .. Len(q) /\ \A n \in 1 .. Len(q) : n \in 0 .. Len(q) /\ n # 0
  BY <1>0
<1>10. K[0] = <<>>
  BY <1>8, <1>9, Zenon
<1>11. \A n \in 1 .. Len(q) : K[n] = IF q[n] \in S THEN Append(K[n - 1], q[n]) ELSE K[n - 1]
  BY <1>8, <1>9, Zenon
<1> QED BY <1>6, <1>8, <1>10, <1>11, Zenon

\* Keep: the elements, their order as far as it matters, and no repetition.
LEMMA KeepIs ==
    ASSUME NEW A, NEW q \in Seq(A), NEW S
    PROVE  /\ Keep(q, S) \in Seq(A) /\ ToSet(Keep(q, S)) = ToSet(q) \cap S
           /\ IsInjective(q) => IsInjective(Keep(q, S))
           /\ q # <<>> /\ Head(q) \in S => Keep(q, S) # <<>> /\ Head(Keep(q, S)) = Head(q)
<1>0. /\ Len(q) \in Nat /\ DOMAIN q = 1 .. Len(q) /\ \A i \in 1 .. Len(q) : q[i] \in A
      /\ \A x : x \in ToSet(q) <=> \E i \in 1 .. Len(q) : q[i] = x
  BY SeqIs
<1>1. PICK f : /\ Keep(q, S) = f[Len(q)] /\ DOMAIN f = 0 .. Len(q)
               /\ f[0] = <<>>
               /\ \A n \in 1 .. Len(q) :
                    f[n] = IF q[n] \in S THEN Append(f[n - 1], q[n]) ELSE f[n - 1]
  BY KeptIs
<1> DEFINE P(n) == /\ f[n] \in Seq(A)
                   /\ \A x : x \in ToSet(f[n]) <=> x \in S /\ \E i \in 1 .. n : q[i] = x
                   /\ IsInjective(q) => IsInjective(f[n])
                   /\ n # 0 /\ q[1] \in S => f[n] # <<>> /\ f[n][1] = q[1]
           B == {n \in 0 .. Len(q) : ~P(n)}
<1>2. P(0)
  BY <1>1 DEF ToSet, IsInjective
<1>3. ASSUME NEW n \in 1 .. Len(q), P(n - 1) PROVE P(n)
  <2>1. n \in Nat /\ \A i : i \in 1 .. n <=> i \in 1 .. (n - 1) \/ i = n
    BY <1>0
  <2>2. CASE q[n] \notin S
    <3>1. f[n] = f[n - 1]
      BY <1>1, <2>2
    <3>2. n # 1 \/ q[1] \notin S
      BY <2>2
    <3>3. ASSUME NEW x PROVE x \in ToSet(f[n]) <=> x \in S /\ \E i \in 1 .. n : q[i] = x
      BY <1>3, <2>1, <2>2, <3>1
    <3> QED BY <1>3, <2>1, <3>1, <3>2, <3>3
  <2>3. CASE q[n] \in S
    <3> DEFINE p == f[n - 1]
               a == q[n]
    <3>1. f[n] = Append(p, a) /\ p \in Seq(A) /\ a \in A
      BY <1>0, <1>1, <1>3, <2>3
    <3>2. /\ Append(p, a) \in Seq(A) /\ ToSet(Append(p, a)) = ToSet(p) \cup {a}
          /\ IsInjective(p) /\ a \notin ToSet(p) => IsInjective(Append(p, a))
      BY <3>1, AppendIs
    <3>3. ASSUME NEW x PROVE x \in ToSet(f[n]) <=> x \in S /\ \E i \in 1 .. n : q[i] = x
      BY <1>3, <2>1, <2>3, <3>1, <3>2
    <3>4. ASSUME IsInjective(q) PROVE IsInjective(f[n])
      <4>1. \A i \in 1 .. (n - 1) : i \in DOMAIN q /\ n \in DOMAIN q /\ i # n
        BY <1>0, <2>1
      <4>2. a \notin ToSet(p)
        BY <1>3, <3>4, <4>1 DEF IsInjective
      <4> QED BY <1>3, <3>1, <3>2, <3>4, <4>2
    <3>5. ASSUME q[1] \in S PROVE f[n] # <<>> /\ f[n][1] = q[1]
      <4> HIDE DEF p, a
      <4>1. /\ Append(p, a) # <<>> /\ (p # <<>> => Append(p, a)[1] = p[1])
            /\ (p = <<>> => Append(p, a)[1] = a)
        BY <3>1
      <4>2. CASE n = 1
        <5>1. p = <<>> /\ a = q[1]
          BY <1>1, <4>2 DEF p, a
        <5> QED BY <3>1, <4>1, <5>1
      <4>3. CASE n # 1
        <5>1. p # <<>> /\ p[1] = q[1]
          BY <1>3, <2>1, <3>5, <4>3 DEF p
        <5> QED BY <3>1, <4>1, <5>1
      <4> QED BY <4>2, <4>3
    <3> QED BY <3>1, <3>2, <3>3, <3>4, <3>5
  <2> QED BY <2>2, <2>3
<1> HIDE DEF P
<1>4. B = {}
  <2> SUFFICES ASSUME B # {} PROVE FALSE
    OBVIOUS
  <2>1. B \in SUBSET Nat
    BY <1>0
  <2>2. PICK m \in B : \A y \in B : m <= y
    BY <2>1, LeastNumber
  <2>3. m \in 0 .. Len(q) /\ m \in Nat /\ ~P(m)
    BY <2>1
  <2>4. m # 0
    BY <1>2, <2>3
  <2>5. m \in 1 .. Len(q) /\ m - 1 \in 0 .. Len(q) /\ ~(m <= m - 1)
    BY <1>0, <2>3, <2>4
  <2>6. P(m - 1)
    BY <2>2, <2>5
  <2> QED BY <1>3, <2>3, <2>5, <2>6
<1>5. P(Len(q)) /\ Len(q) \in 0 .. Len(q)
  BY <1>0, <1>4
<1>6. /\ Keep(q, S) \in Seq(A)
      /\ \A x : x \in ToSet(Keep(q, S)) <=> x \in S /\ \E i \in 1 .. Len(q) : q[i] = x
      /\ IsInjective(q) => IsInjective(Keep(q, S))
      /\ Len(q) # 0 /\ q[1] \in S => Keep(q, S) # <<>> /\ Keep(q, S)[1] = q[1]
  BY <1>1, <1>5 DEF P
<1>7. ToSet(Keep(q, S)) = ToSet(q) \cap S
  BY <1>0, <1>6
<1>8. q # <<>> => Len(q) # 0 /\ Head(q) = q[1]
  BY SeqIs
<1>9. Keep(q, S) # <<>> => Head(Keep(q, S)) = Keep(q, S)[1]
  BY <1>6
<1> QED BY <1>6, <1>7, <1>8, <1>9

\* Keep does not make a queue longer.
LEMMA KeepShorter ==
    ASSUME NEW A, NEW q \in Seq(A), NEW S
    PROVE  Len(Keep(q, S)) \in Nat /\ Len(Keep(q, S)) <= Len(q)
<1>0. Len(q) \in Nat /\ \A i \in 1 .. Len(q) : q[i] \in A
  BY SeqIs
<1>1. PICK f : /\ Keep(q, S) = f[Len(q)] /\ DOMAIN f = 0 .. Len(q)
               /\ f[0] = <<>>
               /\ \A n \in 1 .. Len(q) :
                    f[n] = IF q[n] \in S THEN Append(f[n - 1], q[n]) ELSE f[n - 1]
  BY KeptIs
<1> DEFINE T == {n \in 0 .. Len(q) : f[n] \in Seq(A) /\ Len(f[n]) <= n}
<1>2. 0 \in T
  <2>1. <<>> \in Seq(A) /\ Len(<<>>) = 0 /\ 0 \in 0 .. Len(q)
    BY <1>0
  <2>2. f[0] \in Seq(A) /\ Len(f[0]) = 0
    BY <1>1, <2>1
  <2> QED BY <2>1, <2>2
<1>3. ASSUME NEW n \in 1 .. Len(q), n - 1 \in T PROVE n \in T
  <2>1. n \in 0 .. Len(q) /\ f[n - 1] \in Seq(A) /\ Len(f[n - 1]) <= n - 1
    BY <1>0, <1>3
  <2>2. CASE q[n] \in S
    <3>1. f[n] = Append(f[n - 1], q[n])
      BY <1>1, <2>2
    <3>2. Append(f[n - 1], q[n]) \in Seq(A) /\ Len(Append(f[n - 1], q[n])) = Len(f[n - 1]) + 1
      BY <1>0, <2>1
    <3>3. Len(f[n - 1]) \in Nat
      BY <2>1
    <3>4. f[n] \in Seq(A) /\ Len(f[n]) <= n
      BY <2>1, <3>1, <3>2, <3>3
    <3> QED BY <2>1, <3>4
  <2>3. CASE q[n] \notin S
    <3>1. f[n] = f[n - 1] /\ Len(f[n - 1]) \in Nat
      BY <1>1, <2>1, <2>3
    <3>2. f[n] \in Seq(A) /\ Len(f[n]) <= n
      BY <2>1, <3>1
    <3> QED BY <2>1, <3>2
  <2> QED BY <2>2, <2>3
<1> HIDE DEF T
<1>4. Len(q) \in T
  <2>1. \A n \in 0 .. Len(q) : n \in T
    BY <1>0, <1>2, <1>3, RoundByRound
  <2> QED BY <1>0, <2>1
<1> QED BY <1>1, <1>4 DEF T

=============================================================================
