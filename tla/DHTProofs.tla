----------------------------- MODULE DHTProofs -----------------------------
(***************************************************************************)
(* Proofs about the DHT: the routing table is well formed after every      *)
(* message, no node that answers is lost, and no callback outlives its     *)
(* task, for every length of IDs, size of a bucket and number of nodes and *)
(* tasks.                                                                  *)
(***************************************************************************)
EXTENDS DHT, SetProofs

USE DEF vars

(***************************************************************************)
(* Ranges of IDs.                                                          *)
(***************************************************************************)
\* The powers of two.
LEMMA PowersOfTwo ==
    /\ Pow2 \in [0 .. IdBits -> Nat \ {0}]
    /\ Pow2[0] = 1 /\ \A n \in 1 .. IdBits : Pow2[n] = 2 * Pow2[n - 1]
<1>0. IdBits \in Nat
  BY RoutingTableAssumption
<1> DEFINE D == Nat \ {0}
           G(f) == f = [n \in 0 .. IdBits |-> IF n = 0 THEN 1 ELSE 2 * f[n - 1]]
           g == [i \in 1 .. IdBits |-> [x \in D |-> 2 * x]]
<1>1. 1 \in D /\ g \in [1 .. IdBits -> [D -> D]]
  <2>1. \A x \in D : 2 * x \in D
    OBVIOUS
  <2> HIDE DEF D
  <2>2. [x \in D |-> 2 * x] \in [D -> D]
    BY <2>1
  <2> QED BY <2>2 DEF D
<1>2. \A i \in 1 .. IdBits : \A x \in D : g[i][x] = 2 * x
  <2> HIDE DEF D
  <2> QED OBVIOUS
<1> HIDE DEF g, D
<1>a. PICK a \in D : a = 1
  BY <1>1
<1>b. LoopStep(g, IdBits, D)
  BY <1>1 DEF LoopStep
<1>c. \E f : LoopRun(f, IdBits, D, a, g)
  BY <1>0, <1>b, LoopRuns
<1>3. PICK f \in [0 .. IdBits -> D] : f[0] = 1 /\ \A i \in 1 .. IdBits : f[i] = g[i][f[i - 1]]
  BY <1>a, <1>c DEF LoopRun
<1>4. ASSUME NEW n \in 0 .. IdBits PROVE f[n] = IF n = 0 THEN 1 ELSE 2 * f[n - 1]
  <2>1. n # 0 => n \in 1 .. IdBits /\ n - 1 \in 0 .. IdBits
    BY <1>0
  <2> QED BY <1>2, <1>3, <2>1
<1>5. G(f)
  BY <1>3, <1>4
<1>6. G(Pow2)
  BY <1>5 DEF Pow2
<1>7. \A n \in 0 .. IdBits : Pow2[n] = IF n = 0 THEN 1 ELSE 2 * Pow2[n - 1]
  BY <1>6, Zenon
<1>8. Pow2[0] = 1 /\ \A n \in 1 .. IdBits : Pow2[n] = 2 * Pow2[n - 1]
  <2>1. 0 \in 0 .. IdBits /\ \A n \in 1 .. IdBits : n \in 0 .. IdBits /\ n # 0
    BY <1>0
  <2> QED BY <1>7, <2>1
<1> DEFINE T == {n \in 0 .. IdBits : Pow2[n] \in D}
<1>9. 0 \in T
  BY <1>0, <1>1, <1>8
<1>10. ASSUME NEW n \in 1 .. IdBits, n - 1 \in T PROVE n \in T
  <2>1. n \in 0 .. IdBits /\ Pow2[n] = 2 * Pow2[n - 1] /\ Pow2[n - 1] \in D
    BY <1>0, <1>8, <1>10
  <2>2. 2 * Pow2[n - 1] \in D
    BY <2>1 DEF D
  <2> QED BY <2>1, <2>2
<1> HIDE DEF T
<1>11. \A n \in 0 .. IdBits : n \in T
  BY <1>0, <1>9, <1>10, RoundByRound
<1>12. Pow2 = [n \in 0 .. IdBits |-> Pow2[n]]
  BY <1>6, Zenon
<1>13. Pow2 \in [0 .. IdBits -> D]
  BY <1>11, <1>12 DEF T
<1> QED BY <1>8, <1>13 DEF D

\* The sizes of ranges: a range is twice the size of its halves.
LEMMA Sizes ==
    /\ \A l \in 0 .. IdBits : Size(l) \in Nat \ {0}
    /\ Size(0) = Pow2[IdBits]
    /\ \A l \in 0 .. IdBits - 1 : Size(l) = 2 * Size(l + 1)
<1>0. IdBits \in Nat
  BY RoutingTableAssumption
<1>1. ASSUME NEW l \in 0 .. IdBits PROVE Size(l) \in Nat \ {0}
  <2>1. IdBits - l \in 0 .. IdBits
    BY <1>0
  <2> QED BY <2>1, PowersOfTwo DEF Size
<1>2. Size(0) = Pow2[IdBits]
  BY <1>0 DEF Size
<1>3. ASSUME NEW l \in 0 .. IdBits - 1 PROVE Size(l) = 2 * Size(l + 1)
  <2>1. IdBits - l \in 1 .. IdBits /\ (IdBits - l) - 1 = IdBits - (l + 1)
    BY <1>0
  <2>2. Pow2[IdBits - l] = 2 * Pow2[(IdBits - l) - 1]
    BY <2>1, PowersOfTwo
  <2> QED BY <2>1, <2>2 DEF Size
<1> QED BY <1>1, <1>2, <1>3

\* Division: a number is between two multiples.
LEMMA Divides ==
    ASSUME NEW i \in Nat, NEW s \in Nat \ {0}
    PROVE  i \div s \in Nat /\ (i \div s) * s <= i /\ i < (i \div s) * s + s
OBVIOUS

\* ... and multiples are far apart.
LEMMA Multiples ==
    ASSUME NEW a \in Nat, NEW b \in Nat, NEW s \in Nat \ {0}
    PROVE  a * s \in Nat /\ (a < b => a * s + s <= b * s)
OBVIOUS

\* A number between a multiple of s and the next one.
LEMMA Between ==
    ASSUME NEW i \in Nat, NEW a \in Nat, NEW s \in Nat \ {0}
    PROVE  (i \div s) * s = a * s <=> a * s <= i /\ i < a * s + s
<1>1. PICK d : d = i \div s
  OBVIOUS
<1>2. d \in Nat /\ d * s <= i /\ i < d * s + s
  BY <1>1, Divides
<1>3. /\ a * s \in Nat /\ d * s \in Nat
      /\ a < d => a * s + s <= d * s
      /\ d < a => d * s + s <= a * s
  BY <1>2, Multiples
<1>4. ASSUME a * s <= i, i < a * s + s PROVE d = a
  <2>1. ~(a < d)
    BY <1>2, <1>3, <1>4
  <2>2. ~(d < a)
    BY <1>2, <1>3, <1>4
  <2> QED BY <1>2, <2>1, <2>2
<1>5. ASSUME d * s = a * s PROVE a * s <= i /\ i < a * s + s
  BY <1>2, <1>5
<1> QED BY <1>1, <1>4, <1>5

(***************************************************************************)
(* Buckets.                                                                *)
(***************************************************************************)
Bucket == [min : Id, len : 0 .. IdBits, nodes : Seq(Id), cached : Seq(Id)]

\* A bucket has the range of a prefix.
Aligned(b) ==
    /\ \E a \in Nat : b.min = a * Size(b.len)
    /\ b.min + Size(b.len) <= Pow2[IdBits]

Members(b) == ToSet(b.nodes) \cup ToSet(b.cached)

\* What TableWellFormed says of each bucket.
Filled(b) ==
    /\ Len(b.nodes) <= K /\ Len(b.cached) <= CacheSize
    /\ \A n \in Members(b) : isInRange(b, n)
    /\ b.cached # <<>> => Len(b.nodes) = K /\ ~splitAllowed(b)

BucketOK(b) == b \in Bucket /\ Aligned(b) /\ Filled(b)

\* The buckets divide the IDs among them.
Chain(t) ==
    /\ t # <<>> /\ t[1].min = 0
    /\ t[Len(t)].min + Size(t[Len(t)].len) = Pow2[IdBits]
    /\ \A k \in 2 .. Len(t) : t[k].min = t[k - 1].min + Size(t[k - 1].len)

\* Only the bucket of the local node has been split, to length p: every other
\* bucket is beside one of the ranges around it, and there is one beside each.
SplitTo(t, p) ==
    /\ \A k \in 1 .. Len(t) :
        \/ t[k].len = p /\ t[k].min = MinId(LocalId, p)
        \/ t[k].len \in 1 .. p /\ t[k].min = Sibling(LocalId, t[k].len)
    /\ \A l \in 1 .. p : \E k \in 1 .. Len(t) : IsBeside(t[k], LocalId, l)

Spine(t) == \E p \in 0 .. IdBits : SplitTo(t, p)

\* The invariant of the table.
Table == {t \in Seq(Bucket) : /\ Chain(t) /\ \A k \in 1 .. Len(t) : BucketOK(t[k])
                              /\ Spine(t)}

\* The range of a bucket.
LEMMA RangeIs ==
    ASSUME NEW b, b.min \in Id, b.len \in 0 .. IdBits, Aligned(b), NEW i \in Nat
    PROVE  isInRange(b, i) <=> b.min <= i /\ i < b.min + Size(b.len)
<1>1. PICK s \in Nat \ {0} : s = Size(b.len)
  BY Sizes
<1>2. PICK a \in Nat : b.min = a * s
  BY <1>1 DEF Aligned
<1>3. a * s \in Nat
  BY Multiples
<1>4. (i \div s) * s = a * s <=> a * s <= i /\ i < a * s + s
  BY Between
<1>5. ((a * s) \div s) * s = a * s
  <2>1. PICK m \in Nat : m = a * s
    BY <1>3
  <2>2. (m \div s) * s = a * s <=> a * s <= m /\ m < a * s + s
    BY Between
  <2>3. a * s <= m /\ m < a * s + s
    BY <2>1
  <2> QED BY <2>1, <2>2, <2>3
<1>6. isInRange(b, i) <=> (i \div s) * s = ((a * s) \div s) * s
  BY <1>1, <1>2 DEF isInRange, SamePrefix, MinId
<1> QED BY <1>1, <1>2, <1>4, <1>5, <1>6

\* The halves of a range that can be split.
LEMMA HalvesAre ==
    ASSUME NEW b, b.min \in Id, b.len \in 0 .. IdBits - 1, Aligned(b)
    PROVE  LET s == Size(b.len + 1)
           IN  /\ Size(b.len) = s + s /\ s \in Nat \ {0}
               /\ Sibling(b.min, b.len + 1) = b.min + s
               /\ \E a \in Nat : b.min = a * s
               /\ \E a \in Nat : b.min + s = a * s
<1>0. IdBits \in Nat /\ b.len \in 0 .. IdBits /\ b.len + 1 \in 0 .. IdBits /\ (b.len + 1) - 1 = b.len
  BY RoutingTableAssumption
<1>1. PICK s \in Nat \ {0} : s = Size(b.len + 1)
  BY <1>0, Sizes
<1>2. Size(b.len) = 2 * s /\ Size(b.len) \in Nat \ {0}
  BY <1>0, <1>1, Sizes
<1>3. PICK a \in Nat : b.min = a * Size(b.len)
  BY DEF Aligned
<1>4. 2 * a \in Nat /\ 2 * a + 1 \in Nat /\ a * (2 * s) = (2 * a) * s /\ (2 * a + 1) * s = (2 * a) * s + s
  OBVIOUS
<1>5. PICK m \in Nat : m = b.min
  <2>1. a * Size(b.len) \in Nat
    BY <1>2, Multiples
  <2> QED BY <1>3, <2>1
<1>6. m = (2 * a) * s /\ m = a * Size(b.len)
  BY <1>2, <1>3, <1>4, <1>5
<1>7. (m \div s) * s = m
  <2>1. (m \div s) * s = (2 * a) * s <=> (2 * a) * s <= m /\ m < (2 * a) * s + s
    BY <1>4, Between
  <2> QED BY <1>6, <2>1
<1>8. (m \div Size(b.len)) * Size(b.len) = m
  <2>1. PICK z \in Nat \ {0} : z = Size(b.len)
    BY <1>2
  <2>2. (m \div z) * z = a * z <=> a * z <= m /\ m < a * z + z
    BY Between
  <2> QED BY <1>6, <2>1, <2>2
<1>9. MinId(b.min, b.len + 1) = m /\ MinId(b.min, (b.len + 1) - 1) = m
  BY <1>0, <1>1, <1>5, <1>7, <1>8 DEF MinId
<1>10. Sibling(b.min, b.len + 1) = m + s
  BY <1>1, <1>9 DEF Sibling
<1> QED BY <1>1, <1>2, <1>4, <1>5, <1>6, <1>10

\* The halves of the range of i, one of which has i in it and the other is
\* beside it.
LEMMA HalvesOf ==
    ASSUME NEW i \in Nat, NEW l \in 1 .. IdBits
    PROVE  LET m == MinId(i, l - 1)
               s == Size(l)
           IN  /\ s \in Nat \ {0} /\ m \in Nat /\ MinId(i, l) \in Nat /\ Sibling(i, l) \in Nat
               /\ m <= i /\ i < m + (s + s)
               /\ \/ MinId(i, l) = m /\ Sibling(i, l) = m + s
                  \/ MinId(i, l) = m + s /\ Sibling(i, l) = m
               /\ \A j \in Nat : MinId(j, l - 1) = m <=> m <= j /\ j < m + (s + s)
<1>0. IdBits \in Nat /\ l \in 0 .. IdBits /\ l - 1 \in 0 .. IdBits - 1 /\ l - 1 \in 0 .. IdBits /\ (l - 1) + 1 = l
  BY RoutingTableAssumption
<1>1. PICK s \in Nat \ {0} : s = Size(l)
  BY <1>0, Sizes
<1>2. PICK z \in Nat \ {0} : z = Size(l - 1) /\ z = s + s
  <2>1. Size(l - 1) = 2 * s
    BY <1>0, <1>1, Sizes
  <2> QED BY <2>1
<1>3. PICK q \in Nat : q = i \div z
  BY Divides
<1>4. PICK m \in Nat : m = q * z
  BY Multiples
<1>5. m = MinId(i, l - 1)
  BY <1>2, <1>3, <1>4 DEF MinId
<1>6. m <= i /\ i < m + z
  BY <1>3, <1>4, Divides
<1>7. 2 * q \in Nat /\ 2 * q + 1 \in Nat /\ (2 * q) * s = m /\ (2 * q + 1) * s = m + s
  <2>1. q * (s + s) = (2 * q) * s /\ (2 * q + 1) * s = (2 * q) * s + s
    OBVIOUS
  <2> QED BY <1>2, <1>4, <2>1
<1>8. MinId(i, l) = (i \div s) * s
  BY <1>1 DEF MinId
<1>9. /\ (i \div s) * s = m <=> m <= i /\ i < m + s
      /\ (i \div s) * s = m + s <=> m + s <= i /\ i < (m + s) + s
  <2>1. (i \div s) * s = (2 * q) * s <=> (2 * q) * s <= i /\ i < (2 * q) * s + s
    BY <1>7, Between
  <2>2. (i \div s) * s = (2 * q + 1) * s <=> (2 * q + 1) * s <= i /\ i < (2 * q + 1) * s + s
    BY <1>7, Between
  <2> QED BY <1>7, <2>1, <2>2
<1>10. MinId(i, l) = m \/ MinId(i, l) = m + s
  BY <1>2, <1>6, <1>8, <1>9
<1>11. /\ MinId(i, l) = m => Sibling(i, l) = m + s
       /\ MinId(i, l) = m + s => Sibling(i, l) = m
  BY <1>1, <1>5 DEF Sibling
<1>12. ASSUME NEW j \in Nat PROVE MinId(j, l - 1) = m <=> m <= j /\ j < m + (s + s)
  <2>1. MinId(j, l - 1) = (j \div z) * z
    BY <1>2 DEF MinId
  <2>2. (j \div z) * z = q * z <=> q * z <= j /\ j < q * z + z
    BY Between
  <2> QED BY <1>2, <1>4, <2>1, <2>2
<1> QED BY <1>1, <1>2, <1>5, <1>6, <1>10, <1>11, <1>12

\* IDs that share a prefix share the shorter ones, and what is beside them.
LEMMA SharedPrefix ==
    ASSUME NEW i \in Nat, NEW j \in Nat, NEW len \in 0 .. IdBits, SamePrefix(i, j, len)
    PROVE  /\ \A l \in 0 .. len : SamePrefix(i, j, l)
           /\ \A l \in 1 .. len : Sibling(i, l) = Sibling(j, l)
<1>0. IdBits \in Nat /\ len \in Nat
  BY RoutingTableAssumption
<1>1. ASSUME NEW l \in 1 .. IdBits, SamePrefix(i, j, l) PROVE SamePrefix(i, j, l - 1)
  <2>1. PICK m, s : m = MinId(i, l - 1) /\ s = Size(l)
    OBVIOUS
  <2>2. /\ s \in Nat \ {0} /\ m \in Nat /\ MinId(i, l) \in Nat
        /\ MinId(i, l) = m \/ MinId(i, l) = m + s
    BY <2>1, HalvesOf
  <2>3. \A k \in Nat : MinId(k, l - 1) = m <=> m <= k /\ k < m + (s + s)
    BY <2>1, HalvesOf
  <2>5. MinId(i, l) = MinId(j, l)
    BY <1>1 DEF SamePrefix
  <2>6. l \in 0 .. IdBits /\ Size(l) \in Nat \ {0}
    BY <1>0, Sizes
  <2>7. /\ MinId(j, l) <= j /\ j < MinId(j, l) + s
        /\ MinId(i, l) <= i /\ i < MinId(i, l) + s
    BY <2>1, <2>6, Divides DEF MinId
  <2>8. m <= j /\ j < m + (s + s)
    BY <2>2, <2>5, <2>7
  <2> QED BY <2>1, <2>3, <2>8 DEF SamePrefix
<1> DEFINE S == {k \in 0 .. len : SamePrefix(i, j, len - k)}
<1>2. 0 \in S
  <2>1. 0 \in 0 .. len /\ len - 0 = len
    BY <1>0
  <2> QED BY <2>1
<1>3. ASSUME NEW k \in 1 .. len, k - 1 \in S PROVE k \in S
  <2>1. len - (k - 1) \in 1 .. IdBits /\ (len - (k - 1)) - 1 = len - k /\ k \in 0 .. len
    BY <1>0
  <2>2. SamePrefix(i, j, len - (k - 1))
    BY <1>3
  <2>3. SamePrefix(i, j, (len - (k - 1)) - 1)
    BY <1>1, <2>1, <2>2
  <2> QED BY <2>1, <2>3
<1> HIDE DEF S
<1>4. \A k \in 0 .. len : k \in S
  BY <1>0, <1>2, <1>3, RoundByRound
<1>5. ASSUME NEW l \in 0 .. len PROVE SamePrefix(i, j, l)
  <2>1. len - l \in 0 .. len /\ len - (len - l) = l
    BY <1>0
  <2>2. SamePrefix(i, j, len - (len - l))
    BY <1>4, <2>1 DEF S
  <2> QED BY <2>1, <2>2
<1>6. ASSUME NEW l \in 1 .. len PROVE Sibling(i, l) = Sibling(j, l)
  <2>1. l \in 0 .. len /\ l - 1 \in 0 .. len
    BY <1>0
  <2> QED BY <1>5, <2>1 DEF SamePrefix, Sibling
<1> QED BY <1>5, <1>6

\* The range beside that of i is in the same one around both.
LEMMA BesideIs ==
    ASSUME NEW i \in Nat, NEW l \in 1 .. IdBits
    PROVE  /\ Sibling(i, l) \in Nat /\ Sibling(i, l) # MinId(i, l)
           /\ SamePrefix(i, Sibling(i, l), l - 1)
<1>1. PICK m, s, x : m = MinId(i, l - 1) /\ s = Size(l) /\ x = Sibling(i, l)
  OBVIOUS
<1>2. /\ s \in Nat \ {0} /\ m \in Nat /\ x \in Nat
      /\ \/ MinId(i, l) = m /\ x = m + s
         \/ MinId(i, l) = m + s /\ x = m
      /\ MinId(x, l - 1) = m <=> m <= x /\ x < m + (s + s)
  BY <1>1, HalvesOf
<1>3. MinId(x, l - 1) = m
  BY <1>2
<1> QED BY <1>1, <1>2, <1>3 DEF SamePrefix

(***************************************************************************)
(* The bucket of an ID.                                                    *)
(***************************************************************************)
\* The fields of a bucket in a table.
LEMMA BucketIs ==
    ASSUME NEW b, BucketOK(b)
    PROVE  /\ b \in Bucket /\ Aligned(b) /\ Filled(b)
           /\ b.min \in Id /\ b.min \in Nat /\ b.len \in 0 .. IdBits /\ Size(b.len) \in Nat \ {0}
           /\ b.nodes \in Seq(Id) /\ b.cached \in Seq(Id)
           /\ \A i \in Nat : isInRange(b, i) <=> b.min <= i /\ i < b.min + Size(b.len)
<1>1. /\ b \in Bucket /\ Aligned(b) /\ Filled(b) /\ b.min \in Id /\ b.len \in 0 .. IdBits
      /\ b.nodes \in Seq(Id) /\ b.cached \in Seq(Id)
  BY DEF BucketOK, Bucket
<1>2. b.min \in Nat
  BY <1>1 DEF Id
<1>3. Size(b.len) \in Nat \ {0}
  BY <1>1, Sizes
<1>4. \A i \in Nat : isInRange(b, i) <=> b.min <= i /\ i < b.min + Size(b.len)
  BY <1>1, RangeIs
<1> QED BY <1>1, <1>2, <1>3, <1>4

\* What a table is.
LEMMA TableIs ==
    ASSUME NEW t \in Table
    PROVE  /\ t \in Seq(Bucket) /\ Len(t) \in Nat \ {0} /\ DOMAIN t = 1 .. Len(t)
           /\ Chain(t) /\ \A k \in 1 .. Len(t) : BucketOK(t[k])
           /\ Spine(t)
<1>1. t \in Seq(Bucket) /\ Chain(t) /\ (\A k \in 1 .. Len(t) : BucketOK(t[k])) /\ Spine(t)
  BY DEF Table
<1>2. Len(t) \in Nat /\ DOMAIN t = 1 .. Len(t) /\ (t = <<>> <=> Len(t) = 0)
  BY <1>1, SeqIs
<1> QED BY <1>1, <1>2 DEF Chain

\* Every ID is in a bucket.
LEMMA BucketFound ==
    ASSUME NEW t \in Table, NEW i \in Id
    PROVE  BucketAt(t, i) \in 1 .. Len(t) /\ isInRange(t[BucketAt(t, i)], i)
<1>0. /\ Len(t) \in Nat \ {0} /\ DOMAIN t = 1 .. Len(t) /\ Chain(t)
      /\ \A k \in 1 .. Len(t) : BucketOK(t[k])
  BY TableIs
<1>1. /\ i \in Nat /\ Pow2[IdBits] \in Nat /\ i < Pow2[IdBits]
  BY PowersOfTwo, RoutingTableAssumption DEF Id
<1> DEFINE L == Len(t)
           S == {j \in 1 .. L + 1 : j = L + 1 \/ t[j].min > i}
<1>2. S \in SUBSET Nat /\ L + 1 \in S
  BY <1>0
<1>3. PICK m \in S : \A y \in S : m <= y
  BY <1>2, LeastNumber
<1>4. m \in 1 .. L + 1 /\ m \in Nat /\ (m = L + 1 \/ t[m].min > i)
  BY <1>0
<1>5. m # 1
  <2>1. 1 # L + 1 /\ ~(t[1].min > i)
    BY <1>0, <1>1 DEF Chain
  <2> QED BY <1>4, <2>1
<1>6. m - 1 \in 1 .. L /\ m - 1 \in Nat /\ m - 1 \in 1 .. L + 1 /\ m - 1 # L + 1 /\ ~(m <= m - 1)
  BY <1>0, <1>4, <1>5
<1>7. PICK k \in 1 .. L : k = m - 1
  BY <1>6
<1>8. BucketOK(t[k])
  BY <1>0
<1>9. /\ t[k].min \in Nat /\ Size(t[k].len) \in Nat
      /\ isInRange(t[k], i) <=> t[k].min <= i /\ i < t[k].min + Size(t[k].len)
  BY <1>1, <1>8, BucketIs
<1>10. t[k].min <= i
  <2>1. m - 1 \notin S
    BY <1>3, <1>6
  <2>2. ~(t[k].min > i)
    BY <1>6, <1>7, <2>1
  <2> QED BY <1>1, <1>9, <2>2
<1>11. i < t[k].min + Size(t[k].len)
  <2>1. CASE m = L + 1
    <3>1. k = Len(t)
      BY <1>0, <1>7, <2>1
    <3> QED BY <1>0, <1>1, <3>1 DEF Chain
  <2>2. CASE m # L + 1
    <3>1. m \in 2 .. Len(t) /\ t[m].min > i
      BY <1>0, <1>4, <1>5, <2>2
    <3>2. t[m].min = t[m - 1].min + Size(t[m - 1].len)
      BY <1>0, <3>1 DEF Chain
    <3> QED BY <1>1, <1>7, <1>9, <3>1, <3>2
  <2> QED BY <2>1, <2>2
<1>12. \E j \in DOMAIN t : isInRange(t[j], i)
  BY <1>0, <1>9, <1>10, <1>11
<1>13. BucketAt(t, i) \in DOMAIN t /\ isInRange(t[BucketAt(t, i)], i)
  BY <1>12 DEF BucketAt
<1> QED BY <1>0, <1>13

\* Buckets are in the order of their ranges.
LEMMA BucketsApart ==
    ASSUME NEW t \in Table
    PROVE  \A l \in 1 .. Len(t) : \A j \in 1 .. l - 1 : t[j].min + Size(t[j].len) <= t[l].min
<1>0. /\ Len(t) \in Nat \ {0} /\ Chain(t)
      /\ \A k \in 1 .. Len(t) : BucketOK(t[k])
  BY TableIs
<1>1. \A k \in 1 .. Len(t) : t[k].min \in Nat /\ Size(t[k].len) \in Nat
  BY <1>0, BucketIs
<1> DEFINE S == {l \in 0 .. Len(t) : l # 0 =>
                    \A j \in 1 .. l - 1 : t[j].min + Size(t[j].len) <= t[l].min}
<1>2. 0 \in S
  BY <1>0
<1>3. ASSUME NEW l \in 1 .. Len(t), l - 1 \in S PROVE l \in S
  <2>1. ASSUME NEW j \in 1 .. l - 1 PROVE t[j].min + Size(t[j].len) <= t[l].min
    <3>1. l \in 2 .. Len(t) /\ l - 1 \in 1 .. Len(t) /\ j \in 1 .. Len(t)
      BY <1>0
    <3>2. t[l].min = t[l - 1].min + Size(t[l - 1].len)
      BY <1>0, <3>1 DEF Chain
    <3>3. CASE j = l - 1
      BY <1>1, <3>1, <3>2, <3>3
    <3>4. CASE j # l - 1
      <4>1. j \in 1 .. (l - 1) - 1 /\ l - 1 # 0
        BY <1>0, <3>1, <3>4
      <4>2. t[j].min + Size(t[j].len) <= t[l - 1].min
        BY <1>3, <4>1
      <4>3. /\ t[j].min \in Nat /\ Size(t[j].len) \in Nat /\ t[l - 1].min \in Nat
            /\ Size(t[l - 1].len) \in Nat
        BY <1>1, <3>1
      <4> QED BY <3>2, <4>2, <4>3
    <3> QED BY <3>3, <3>4
  <2> QED BY <1>0, <2>1
<1> HIDE DEF S
<1>4. \A l \in 0 .. Len(t) : l \in S
  BY <1>0, <1>2, <1>3, RoundByRound
<1>5. \A l \in 1 .. Len(t) : l \in 0 .. Len(t) /\ l # 0
  BY <1>0
<1> QED BY <1>4, <1>5 DEF S

\* An ID is in one bucket only.
LEMMA BucketUnique ==
    ASSUME NEW t \in Table, NEW i \in Id, NEW j \in 1 .. Len(t), isInRange(t[j], i)
    PROVE  BucketAt(t, i) = j
<1>1. PICK k \in 1 .. Len(t) : k = BucketAt(t, i) /\ isInRange(t[k], i)
  BY BucketFound
<1>2. Len(t) \in Nat /\ i \in Nat /\ BucketOK(t[j]) /\ BucketOK(t[k])
  BY TableIs DEF Id
<1>3. /\ t[j].min \in Nat /\ Size(t[j].len) \in Nat
      /\ t[j].min <= i /\ i < t[j].min + Size(t[j].len)
  BY <1>2, BucketIs
<1>4. /\ t[k].min \in Nat /\ Size(t[k].len) \in Nat
      /\ t[k].min <= i /\ i < t[k].min + Size(t[k].len)
  BY <1>1, <1>2, BucketIs
<1>5. ~(j < k)
  <2>1. j < k => j \in 1 .. k - 1
    BY <1>2
  <2>2. j < k => t[j].min + Size(t[j].len) <= t[k].min
    BY <2>1, BucketsApart
  <2> QED BY <1>2, <1>3, <1>4, <2>2
<1>6. ~(k < j)
  <2>1. k < j => k \in 1 .. j - 1
    BY <1>2
  <2>2. k < j => t[k].min + Size(t[k].len) <= t[j].min
    BY <2>1, BucketsApart
  <2> QED BY <1>2, <1>3, <1>4, <2>2
<1> QED BY <1>1, <1>2, <1>5, <1>6

(***************************************************************************)
(* Splitting a bucket.                                                     *)
(***************************************************************************)
\* The halves of a bucket.
LowerOf(b) == split(b)[1]
UpperOf(b) == split(b)[2]

LowIds(b) == {n \in Id : isInRange([b EXCEPT !.len = @ + 1, !.cached = <<>>], n)}

\* Their fields.
LEMMA SplitFields ==
    ASSUME NEW b \in Bucket
    PROVE  /\ split(b) = <<LowerOf(b), UpperOf(b)>>
           /\ LowerOf(b) = [min |-> b.min, len |-> b.len + 1,
                            nodes |-> IF AssertsOn THEN Keep(b.nodes, LowIds(b)) ELSE <<>>,
                            cached |-> <<>>]
           /\ UpperOf(b) = [min |-> Sibling(b.min, b.len + 1), len |-> b.len + 1,
                            nodes |-> Keep(b.nodes, Id \ LowIds(b)),
                            cached |-> b.cached]
           /\ LowerOf(b).min = b.min /\ LowerOf(b).len = b.len + 1
           /\ UpperOf(b).min = Sibling(b.min, b.len + 1) /\ UpperOf(b).len = b.len + 1
<1>0. PICK m, l, ns, cs : b = [min |-> m, len |-> l, nodes |-> ns, cached |-> cs]
  BY DEF Bucket
<1> DEFINE low == [b EXCEPT !.len = @ + 1, !.cached = <<>>]
           A == Keep(b.nodes, {n \in Id : isInRange(low, n)})
           B == Keep(b.nodes, {n \in Id : ~isInRange(low, n)})
           S == Sibling(b.min, b.len + 1)
<1>1. split(b) = << [low EXCEPT !.nodes = IF AssertsOn THEN A ELSE <<>>],
                    [b EXCEPT !.min = S, !.len = b.len + 1, !.nodes = B] >>
  <2>1. low.nodes = b.nodes
    BY <1>0
  <2> QED BY <2>1 DEF split
<1>2. {n \in Id : ~isInRange(low, n)} = Id \ LowIds(b) /\ LowIds(b) = {n \in Id : isInRange(low, n)}
  BY DEF LowIds
<1>3. A = Keep(b.nodes, LowIds(b)) /\ B = Keep(b.nodes, Id \ LowIds(b))
  BY <1>2
<1>a. b.min = m /\ b.len = l /\ b.nodes = ns /\ b.cached = cs
  BY <1>0
<1>4. low = [min |-> b.min, len |-> b.len + 1, nodes |-> b.nodes, cached |-> <<>>]
  <2>1. low = [[b EXCEPT !.len = l + 1] EXCEPT !.cached = <<>>]
    BY <1>a DEF Bucket
  <2>2. PICK c : c = [b EXCEPT !.len = l + 1]
    OBVIOUS
  <2> HIDE DEF low
  <2>3. c = [min |-> m, len |-> l + 1, nodes |-> ns, cached |-> cs]
    BY <1>0, <2>2
  <2>4. [c EXCEPT !.cached = <<>>] = [min |-> m, len |-> l + 1, nodes |-> ns, cached |-> <<>>]
    BY <2>3
  <2> QED BY <1>a, <2>1, <2>2, <2>4, Zenon
<1> HIDE DEF A, B, S, low
<1>5. /\ LowerOf(b) = [low EXCEPT !.nodes = IF AssertsOn THEN A ELSE <<>>]
      /\ UpperOf(b) = [b EXCEPT !.min = S, !.len = b.len + 1, !.nodes = B]
      /\ split(b) = <<LowerOf(b), UpperOf(b)>>
  BY <1>1 DEF LowerOf, UpperOf
<1>6. [low EXCEPT !.nodes = IF AssertsOn THEN A ELSE <<>>]
        = [min |-> b.min, len |-> b.len + 1, nodes |-> IF AssertsOn THEN A ELSE <<>>, cached |-> <<>>]
  BY <1>4
<1>7. [b EXCEPT !.min = S, !.len = b.len + 1, !.nodes = B]
        = [min |-> S, len |-> b.len + 1, nodes |-> B, cached |-> b.cached]
  <2>1. PICK c : c = [b EXCEPT !.min = S]
    OBVIOUS
  <2>2. PICK d : d = [c EXCEPT !.len = b.len + 1]
    OBVIOUS
  <2>3. [b EXCEPT !.min = S, !.len = b.len + 1, !.nodes = B] = [d EXCEPT !.nodes = B]
    BY <2>1, <2>2 DEF Bucket
  <2>4. c = [min |-> S, len |-> l, nodes |-> ns, cached |-> cs]
    BY <1>0, <2>1
  <2>5. d = [min |-> S, len |-> b.len + 1, nodes |-> ns, cached |-> cs]
    BY <2>2, <2>4
  <2>6. [d EXCEPT !.nodes = B] = [min |-> S, len |-> b.len + 1, nodes |-> B, cached |-> cs]
    BY <2>5
  <2> QED BY <1>a, <2>3, <2>6, Zenon
<1>8. /\ LowerOf(b).min = b.min /\ LowerOf(b).len = b.len + 1
      /\ UpperOf(b).min = S /\ UpperOf(b).len = b.len + 1
  BY <1>5, <1>6, <1>7
<1> QED BY <1>3, <1>5, <1>6, <1>7, <1>8 DEF S

\* The ranges of the halves.
LEMMA SplitRanges ==
    ASSUME NEW b, BucketOK(b), splitAllowed(b), NEW lo, NEW up,
           lo = LowerOf(b), up = UpperOf(b)
    PROVE  /\ lo.min = b.min /\ up.min = b.min + Size(lo.len)
           /\ lo.len = b.len + 1 /\ up.len = b.len + 1 /\ b.len + 1 \in 0 .. IdBits
           /\ Size(b.len) = Size(lo.len) + Size(lo.len) /\ Size(lo.len) \in Nat \ {0}
           /\ Aligned(lo) /\ Aligned(up) /\ up.min \in Id
<1>0. /\ b \in Bucket /\ Aligned(b) /\ b.min \in Id /\ b.min \in Nat /\ b.len \in 0 .. IdBits
  BY BucketIs
<1>1. IdBits \in Nat /\ b.len \in 0 .. IdBits - 1 /\ b.len + 1 \in 0 .. IdBits
  BY <1>0, RoutingTableAssumption DEF splitAllowed
<1>2. /\ lo.min = b.min /\ lo.len = b.len + 1
      /\ up.min = Sibling(b.min, b.len + 1) /\ up.len = b.len + 1
  <2>1. /\ LowerOf(b).min = b.min /\ LowerOf(b).len = b.len + 1
        /\ UpperOf(b).min = Sibling(b.min, b.len + 1) /\ UpperOf(b).len = b.len + 1
    BY <1>0, SplitFields, Zenon
  <2> QED BY <2>1
<1>3. PICK s : s = Size(b.len + 1)
  OBVIOUS
<1>4. /\ Size(b.len) = s + s /\ s \in Nat \ {0}
      /\ Sibling(b.min, b.len + 1) = b.min + s
      /\ \E a \in Nat : b.min = a * s
      /\ \E a \in Nat : b.min + s = a * s
  BY <1>0, <1>1, <1>3, HalvesAre
<1>5. b.min + (s + s) <= Pow2[IdBits] /\ Pow2[IdBits] \in Nat
  BY <1>0, <1>1, <1>4, PowersOfTwo DEF Aligned
<1>6. b.min + s <= Pow2[IdBits] /\ (b.min + s) + s <= Pow2[IdBits]
  BY <1>0, <1>4, <1>5
<1>7. Aligned(lo) /\ Aligned(up)
  BY <1>2, <1>3, <1>4, <1>6 DEF Aligned
<1>8. up.min \in Id
  BY <1>0, <1>2, <1>4, <1>5, <1>6 DEF Id
<1> QED BY <1>1, <1>2, <1>3, <1>4, <1>7, <1>8

\* A split makes two good buckets of one and forgets no node.
LEMMA SplitIs ==
    ASSUME NEW b, BucketOK(b), splitAllowed(b), NEW lo, NEW up,
           lo = LowerOf(b), up = UpperOf(b)
    PROVE  /\ BucketOK(lo) /\ BucketOK(up)
           /\ AssertsOn => ToSet(b.nodes) \subseteq ToSet(lo.nodes) \cup ToSet(up.nodes)
<1>0. /\ b \in Bucket /\ Filled(b) /\ b.min \in Id /\ b.min \in Nat /\ b.len \in 0 .. IdBits
      /\ b.nodes \in Seq(Id) /\ b.cached \in Seq(Id)
      /\ \A i \in Nat : isInRange(b, i) <=> b.min <= i /\ i < b.min + Size(b.len)
  BY BucketIs
<1>1. /\ lo.min = b.min /\ up.min = b.min + Size(lo.len)
      /\ lo.len = b.len + 1 /\ up.len = b.len + 1 /\ b.len + 1 \in 0 .. IdBits
      /\ Size(b.len) = Size(lo.len) + Size(lo.len) /\ Size(lo.len) \in Nat \ {0}
      /\ Aligned(lo) /\ Aligned(up) /\ up.min \in Id
  BY SplitRanges
<1> DEFINE A == Keep(b.nodes, LowIds(b))
           B == Keep(b.nodes, Id \ LowIds(b))
<1>2. /\ lo = [min |-> b.min, len |-> b.len + 1, nodes |-> IF AssertsOn THEN A ELSE <<>>, cached |-> <<>>]
      /\ up = [min |-> up.min, len |-> b.len + 1, nodes |-> B, cached |-> b.cached]
  <2>1. /\ LowerOf(b) = [min |-> b.min, len |-> b.len + 1,
                        nodes |-> IF AssertsOn THEN A ELSE <<>>, cached |-> <<>>]
        /\ UpperOf(b) = [min |-> Sibling(b.min, b.len + 1), len |-> b.len + 1,
                         nodes |-> B, cached |-> b.cached]
        /\ UpperOf(b).min = Sibling(b.min, b.len + 1)
    BY <1>0, SplitFields, Zenon
  <2> QED BY <2>1, Zenon
<1>3. /\ A \in Seq(Id) /\ ToSet(A) = ToSet(b.nodes) \cap LowIds(b)
      /\ Len(A) \in Nat /\ Len(A) <= Len(b.nodes)
  BY <1>0, KeepIs, KeepShorter
<1>4. /\ B \in Seq(Id) /\ ToSet(B) = ToSet(b.nodes) \cap (Id \ LowIds(b))
      /\ Len(B) \in Nat /\ Len(B) <= Len(b.nodes)
  BY <1>0, KeepIs, KeepShorter
<1> HIDE DEF A, B
<1>5. PICK z : z = <<>>
  OBVIOUS
<1>6. z \in Seq(Id) /\ Len(z) = 0 /\ ToSet(z) = {}
  BY <1>5 DEF ToSet
<1>7. PICK c : c = IF AssertsOn THEN A ELSE z
  OBVIOUS
<1>8. /\ c \in Seq(Id) /\ ToSet(c) \subseteq ToSet(b.nodes) \cap LowIds(b)
      /\ Len(c) \in Nat /\ Len(c) <= Len(b.nodes)
      /\ AssertsOn => c = A
  <2>1. Len(b.nodes) \in Nat
    BY <1>0
  <2> QED BY <1>3, <1>6, <1>7, <2>1
<1>9. /\ lo.min = b.min /\ lo.len = b.len + 1 /\ lo.nodes = c /\ lo.cached = z
      /\ up.len = b.len + 1 /\ up.nodes = B /\ up.cached = b.cached
      /\ lo = [min |-> b.min, len |-> b.len + 1, nodes |-> c, cached |-> z]
  BY <1>2, <1>5, <1>7
<1>10. lo \in Bucket /\ up \in Bucket
  <2>1. up = [min |-> up.min, len |-> up.len, nodes |-> up.nodes, cached |-> up.cached]
    BY <1>2, <1>9
  <2> QED BY <1>0, <1>1, <1>4, <1>6, <1>8, <1>9, <2>1 DEF Bucket
<1>11. /\ \A i \in Nat : isInRange(lo, i) <=> lo.min <= i /\ i < lo.min + Size(lo.len)
       /\ \A i \in Nat : isInRange(up, i) <=> up.min <= i /\ i < up.min + Size(up.len)
  BY <1>0, <1>1, RangeIs
<1>12. LowIds(b) = {n \in Id : isInRange(lo, n)}
  <2>1. PICK d : d = [b EXCEPT !.len = @ + 1, !.cached = <<>>]
    OBVIOUS
  <2>2. d.min = lo.min /\ d.len = lo.len
    <3>1. b = [min |-> b.min, len |-> b.len, nodes |-> b.nodes, cached |-> b.cached]
      BY <1>0 DEF Bucket
    <3> QED BY <1>9, <2>1, <3>1
  <2>3. LowIds(b) = {n \in Id : isInRange(d, n)}
    BY <2>1 DEF LowIds
  <2> QED BY <2>2, <2>3 DEF isInRange
<1>13. Len(b.nodes) <= K /\ Len(b.cached) <= CacheSize /\ b.cached = <<>>
  BY <1>0 DEF Filled
<1>14. K \in Nat /\ CacheSize \in Nat /\ Id \subseteq Nat
  BY RoutingTableAssumption DEF Id
<1>15. Filled(lo)
  <2>1. \A n \in Members(lo) : isInRange(lo, n)
    BY <1>6, <1>8, <1>9, <1>12 DEF Members
  <2>2. Len(lo.nodes) <= K /\ Len(lo.cached) <= CacheSize
    BY <1>0, <1>6, <1>8, <1>9, <1>13, <1>14
  <2> QED BY <1>5, <1>9, <2>1, <2>2 DEF Filled
<1>16. Filled(up)
  <2>1. ASSUME NEW n \in ToSet(b.nodes), n \in Id, n \notin LowIds(b) PROVE isInRange(up, n)
    <3>1. isInRange(b, n) /\ ~isInRange(lo, n) /\ n \in Nat
      BY <1>0, <1>12, <1>14, <2>1 DEF Filled, Members
    <3>2. b.min <= n /\ n < b.min + Size(b.len) /\ ~(b.min <= n /\ n < b.min + Size(lo.len))
      BY <1>0, <1>1, <1>11, <3>1
    <3>3. up.min <= n /\ n < up.min + Size(up.len)
      BY <1>0, <1>1, <3>1, <3>2
    <3> QED BY <1>11, <3>1, <3>3
  <2>2. ToSet(up.cached) = {}
    BY <1>5, <1>6, <1>9, <1>13
  <2>3. \A n \in Members(up) : isInRange(up, n)
    BY <1>4, <1>9, <2>1, <2>2 DEF Members
  <2>4. Len(up.nodes) <= K /\ Len(up.cached) <= CacheSize
    BY <1>0, <1>4, <1>9, <1>13, <1>14
  <2> QED BY <1>9, <1>13, <2>3, <2>4 DEF Filled
<1>17. ASSUME AssertsOn, NEW n \in ToSet(b.nodes) PROVE n \in ToSet(lo.nodes) \cup ToSet(up.nodes)
  <2>1. n \in Id
    BY <1>0, SeqIs
  <2> QED BY <1>3, <1>4, <1>8, <1>9, <1>17, <2>1
<1> QED BY <1>1, <1>10, <1>15, <1>16, <1>17 DEF BucketOK

(***************************************************************************)
(* Tables.                                                                 *)
(***************************************************************************)
\* The nodes of a table.
LEMMA NodesAre ==
    ASSUME NEW t \in Table, NEW n
    PROVE  n \in TableNodes(t) <=> \E k \in 1 .. Len(t) : n \in ToSet(t[k].nodes)
BY TableIs DEF TableNodes

\* The table after its k-th bucket is split.
SplitAt(t, k) == SubSeq(t, 1, k - 1) \o split(t[k]) \o SubSeq(t, k + 1, Len(t))

LEMMA SplitAtIs ==
    ASSUME NEW A, NEW t \in Seq(A), NEW k \in 1 .. Len(t), NEW lo \in A, NEW up \in A,
           split(t[k]) = <<lo, up>>
    PROVE  LET u == SplitAt(t, k)
           IN  /\ u \in Seq(A) /\ Len(u) = Len(t) + 1
               /\ \A j \in 1 .. k - 1 : u[j] = t[j]
               /\ u[k] = lo /\ u[k + 1] = up
               /\ \A j \in k + 2 .. Len(t) + 1 : u[j] = t[j - 1]
<1> DEFINE f == SubSeq(t, 1, k - 1)
           g == SubSeq(t, k + 1, Len(t))
           m == <<lo, up>>
<1>0. Len(t) \in Nat /\ k \in Nat
  OBVIOUS
<1>1. /\ f \in Seq(A) /\ Len(f) = k - 1 /\ \A j \in 1 .. k - 1 : f[j] = t[j]
  BY <1>0
<1>2. /\ g \in Seq(A) /\ Len(g) = Len(t) - k /\ \A j \in 1 .. Len(t) - k : g[j] = t[k + j]
  BY <1>0
<1>3. m \in Seq(A) /\ Len(m) = 2 /\ m[1] = lo /\ m[2] = up
  OBVIOUS
<1> HIDE DEF f, g, m
<1>4. PICK h : h = f \o m
  OBVIOUS
<1>5. /\ h \in Seq(A) /\ Len(h) = k + 1 /\ \A j \in 1 .. k - 1 : h[j] = t[j]
      /\ h[k] = lo /\ h[k + 1] = up
  <2>1. /\ h \in Seq(A) /\ Len(h) = Len(f) + Len(m)
        /\ \A j \in 1 .. Len(h) : h[j] = IF j <= Len(f) THEN f[j] ELSE m[j - Len(f)]
    <3>1. f \in Seq(A) /\ m \in Seq(A)
      BY <1>1, <1>3
    <3>2. JoinOf(f \o m, f, m, A)
      BY <3>1, ConcatAt
    <3> QED BY <1>4, <3>2 DEF JoinOf
  <2>2. Len(h) = k + 1 /\ k - (k - 1) = 1 /\ (k + 1) - (k - 1) = 2
    BY <1>0, <1>1, <1>3, <2>1
  <2>3. \A j \in 1 .. k - 1 : j \in 1 .. Len(h) /\ j <= Len(f)
    BY <1>0, <1>1, <2>2
  <2>4. k \in 1 .. Len(h) /\ k + 1 \in 1 .. Len(h) /\ ~(k <= Len(f)) /\ ~(k + 1 <= Len(f))
    BY <1>0, <1>1, <2>2
  <2>5. h[k] = lo /\ h[k + 1] = up
    BY <1>1, <1>3, <2>1, <2>2, <2>4
  <2>6. \A j \in 1 .. k - 1 : h[j] = t[j]
    BY <1>1, <2>1, <2>3
  <2> QED BY <2>1, <2>2, <2>5, <2>6
<1>6. PICK u : u = h \o g
  OBVIOUS
<1>7. /\ u \in Seq(A) /\ Len(u) = Len(h) + Len(g)
      /\ \A j \in 1 .. Len(u) : u[j] = IF j <= Len(h) THEN h[j] ELSE g[j - Len(h)]
  <2>1. h \in Seq(A) /\ g \in Seq(A)
    BY <1>2, <1>5
  <2>2. JoinOf(h \o g, h, g, A)
    BY <2>1, ConcatAt
  <2> QED BY <1>6, <2>2 DEF JoinOf
<1>8. Len(u) = Len(t) + 1
  BY <1>0, <1>2, <1>5, <1>7
<1>9. \A j \in 1 .. k + 1 : u[j] = h[j]
  <2>1. \A j \in 1 .. k + 1 : j \in 1 .. Len(u) /\ j <= Len(h)
    BY <1>0, <1>5, <1>8
  <2> QED BY <1>7, <2>1
<1>10. ASSUME NEW j \in k + 2 .. Len(t) + 1 PROVE u[j] = t[j - 1]
  <2>1. /\ j \in 1 .. Len(u) /\ ~(j <= Len(h)) /\ j - Len(h) \in 1 .. Len(t) - k
        /\ k + (j - Len(h)) = j - 1
    BY <1>0, <1>5, <1>8
  <2>2. u[j] = g[j - Len(h)]
    BY <1>7, <2>1
  <2>3. g[j - Len(h)] = t[k + (j - Len(h))]
    BY <1>2, <2>1
  <2> QED BY <2>1, <2>2, <2>3
<1>11. /\ \A j \in 1 .. k - 1 : u[j] = t[j]
       /\ u[k] = lo /\ u[k + 1] = up
  <2>1. k \in 1 .. k + 1 /\ k + 1 \in 1 .. k + 1 /\ \A j \in 1 .. k - 1 : j \in 1 .. k + 1
    BY <1>0
  <2> QED BY <1>5, <1>9, <2>1
<1>12. u = SplitAt(t, k)
  BY <1>4, <1>6 DEF SplitAt, f, g, m
<1> QED BY <1>7, <1>8, <1>10, <1>11, <1>12

\* The bucket that is split is the one of the local node.
LEMMA SpineSplit ==
    ASSUME NEW t \in Table, NEW k \in 1 .. Len(t), splitAllowed(t[k]), NEW lo, NEW up,
           lo.min = t[k].min, up.min = t[k].min + Size(lo.len),
           lo.len = t[k].len + 1, up.len = t[k].len + 1,
           NEW u \in Seq(Bucket), Len(u) = Len(t) + 1, u[k] = lo, u[k + 1] = up,
           \A j \in 1 .. k - 1 : u[j] = t[j],
           \A j \in k + 2 .. Len(t) + 1 : u[j] = t[j - 1]
    PROVE  Spine(u)
<1>0. /\ Len(t) \in Nat \ {0} /\ BucketOK(t[k]) /\ IdBits \in Nat /\ LocalId \in Nat /\ LocalId \in Id
  BY TableIs, RoutingTableAssumption DEF Id
<1>1. PICK p \in 0 .. IdBits : SplitTo(t, p)
  BY TableIs DEF Spine
<1>2. PICK b : b = t[k]
  OBVIOUS
<1>3. /\ b.min \in Nat /\ b.len \in 0 .. IdBits - 2 /\ isInRange(b, LocalId) /\ Aligned(b)
  <2>1. b.min \in Nat /\ b.len \in 0 .. IdBits /\ Aligned(b)
    BY <1>0, <1>2, BucketIs
  <2> QED BY <1>0, <1>2, <2>1 DEF splitAllowed
<1>4. b.len = p /\ b.min = MinId(LocalId, p)
  <2>1. ASSUME b.len \in 1 .. p, b.min = Sibling(LocalId, b.len) PROVE FALSE
    <3>1. b.len \in 1 .. IdBits
      BY <1>0, <2>1
    <3>2. b.min # MinId(LocalId, b.len)
      BY <1>0, <2>1, <3>1, BesideIs
    <3>3. MinId(LocalId, b.len) = MinId(b.min, b.len)
      BY <1>3 DEF isInRange, SamePrefix
    <3>4. MinId(b.min, b.len) = b.min
      <4>1. PICK s \in Nat \ {0} : s = Size(b.len)
        BY <1>0, <3>1, Sizes
      <4>2. PICK a \in Nat : b.min = a * s
        BY <1>3, <4>1 DEF Aligned
      <4>3. (b.min \div s) * s = a * s <=> a * s <= b.min /\ b.min < a * s + s
        BY <1>3, Between
      <4> QED BY <1>3, <4>1, <4>2, <4>3 DEF MinId
    <3> QED BY <3>2, <3>3, <3>4
  <2> QED BY <1>1, <1>2, <2>1 DEF SplitTo
<1>5. PICK q \in 1 .. IdBits : q = p + 1 /\ q - 1 = p
  BY <1>0, <1>3, <1>4
<1>6. \/ MinId(LocalId, q) = lo.min /\ Sibling(LocalId, q) = up.min
      \/ MinId(LocalId, q) = up.min /\ Sibling(LocalId, q) = lo.min
  <2>1. PICK m, s : m = MinId(LocalId, q - 1) /\ s = Size(q)
    OBVIOUS
  <2>2. \/ MinId(LocalId, q) = m /\ Sibling(LocalId, q) = m + s
        \/ MinId(LocalId, q) = m + s /\ Sibling(LocalId, q) = m
    BY <1>0, <2>1, HalvesOf
  <2>3. lo.min = m /\ up.min = m + s
    BY <1>2, <1>4, <1>5, <2>1
  <2> QED BY <2>2, <2>3
<1>7. lo.len = q /\ up.len = q
  BY <1>2, <1>4, <1>5
<1>8. ASSUME NEW j \in 1 .. Len(u)
      PROVE  \/ u[j].len = q /\ u[j].min = MinId(LocalId, q)
             \/ u[j].len \in 1 .. q /\ u[j].min = Sibling(LocalId, u[j].len)
  <2>1. CASE j = k \/ j = k + 1
    <3>1. u[j] = lo \/ u[j] = up
      BY <2>1
    <3>2. q \in 1 .. q
      BY <1>0
    <3> QED BY <1>6, <1>7, <3>1, <3>2
  <2>2. ASSUME NEW i \in 1 .. Len(t), i # k, u[j] = t[i]
        PROVE  u[j].len \in 1 .. q /\ u[j].min = Sibling(LocalId, u[j].len)
    <3>1. t[i].len = p => t[i].min # MinId(LocalId, p)
      <4> SUFFICES ASSUME t[i].len = p, t[i].min = MinId(LocalId, p) PROVE FALSE
        OBVIOUS
      <4>1. isInRange(t[i], LocalId)
        BY <1>2, <1>3, <1>4 DEF isInRange
      <4> QED BY <1>0, <1>2, <1>3, <2>2, <4>1, BucketUnique
    <3>2. t[i].len \in 1 .. p /\ t[i].min = Sibling(LocalId, t[i].len)
      BY <1>1, <3>1 DEF SplitTo
    <3>3. \A l \in 1 .. p : l \in 1 .. q
      BY <1>0, <1>5
    <3> QED BY <2>2, <3>2, <3>3
  <2>3. CASE j \in 1 .. k - 1
    <3>1. j \in 1 .. Len(t) /\ j # k /\ u[j] = t[j]
      BY <1>0, <2>3
    <3> QED BY <2>2, <3>1
  <2>4. CASE j \in k + 2 .. Len(t) + 1
    <3>1. j - 1 \in 1 .. Len(t) /\ j - 1 # k /\ u[j] = t[j - 1]
      BY <1>0, <2>4
    <3> QED BY <2>2, <3>1
  <2> QED BY <1>0, <2>1, <2>3, <2>4
<1>9. ASSUME NEW l \in 1 .. q PROVE \E j \in 1 .. Len(u) : IsBeside(u[j], LocalId, l)
  <2>1. CASE l = q
    <3>1. IsBeside(lo, LocalId, q) \/ IsBeside(up, LocalId, q)
      BY <1>6, <1>7 DEF IsBeside
    <3>2. k \in 1 .. Len(u) /\ k + 1 \in 1 .. Len(u)
      BY <1>0
    <3> QED BY <2>1, <3>1, <3>2
  <2>2. CASE l # q
    <3>1. l \in 1 .. p
      BY <1>0, <1>5, <2>2
    <3>2. PICK i \in 1 .. Len(t) : IsBeside(t[i], LocalId, l)
      BY <1>1, <3>1 DEF SplitTo
    <3>3. i # k
      <4>1. t[i].len = l
        BY <3>2 DEF IsBeside
      <4>2. CASE l = p
        <5>1. t[i].min # MinId(LocalId, p)
          <6>1. p \in 1 .. IdBits
            BY <3>1, <4>2
          <6> QED BY <1>0, <3>2, <4>2, <6>1, BesideIs DEF IsBeside
        <5> QED BY <1>2, <1>4, <5>1
      <4> QED BY <1>2, <1>4, <4>1, <4>2
    <3>4. CASE i < k
      <4>1. i \in 1 .. k - 1 /\ i \in 1 .. Len(u)
        BY <1>0, <3>4
      <4>2. u[i] = t[i]
        BY <4>1
      <4> QED BY <3>2, <4>1, <4>2
    <3>5. CASE i > k
      <4>1. i + 1 \in k + 2 .. Len(t) + 1 /\ i + 1 \in 1 .. Len(u) /\ (i + 1) - 1 = i
        BY <1>0, <3>5
      <4>2. u[i + 1] = t[i]
        BY <4>1
      <4> QED BY <3>2, <4>1, <4>2
    <3> QED BY <1>0, <3>3, <3>4, <3>5
  <2> QED BY <2>1, <2>2
<1>10. q \in 0 .. IdBits
  BY <1>0
<1> QED BY <1>8, <1>9, <1>10 DEF Spine, SplitTo

\* It is a table again, and no node is forgotten.
LEMMA SplitTable ==
    ASSUME NEW t \in Table, NEW k \in 1 .. Len(t), splitAllowed(t[k])
    PROVE  /\ SplitAt(t, k) \in Table
           /\ AssertsOn => TableNodes(t) \subseteq TableNodes(SplitAt(t, k))
           /\ k + 1 \in 1 .. Len(SplitAt(t, k)) /\ k \in 1 .. Len(SplitAt(t, k))
           /\ SplitAt(t, k)[k].len = t[k].len + 1 /\ SplitAt(t, k)[k + 1].len = t[k].len + 1
           /\ \A i \in Id : isInRange(t[k], i) =>
                \/ isInRange(SplitAt(t, k)[k], i)
                \/ isInRange(SplitAt(t, k)[k + 1], i)
<1>0. /\ t \in Seq(Bucket) /\ Len(t) \in Nat \ {0} /\ DOMAIN t = 1 .. Len(t)
      /\ Chain(t) /\ \A j \in 1 .. Len(t) : BucketOK(t[j])
  BY TableIs
<1>1. PICK b, lo, up : b = t[k] /\ lo = LowerOf(b) /\ up = UpperOf(b)
  OBVIOUS
<1>2. BucketOK(b) /\ splitAllowed(b)
  BY <1>0, <1>1
<1>3. /\ BucketOK(lo) /\ BucketOK(up)
      /\ AssertsOn => ToSet(b.nodes) \subseteq ToSet(lo.nodes) \cup ToSet(up.nodes)
  BY <1>1, <1>2, SplitIs
<1>4. /\ lo.min = b.min /\ up.min = b.min + Size(lo.len)
      /\ lo.len = b.len + 1 /\ up.len = b.len + 1
      /\ Size(b.len) = Size(lo.len) + Size(lo.len) /\ Size(lo.len) \in Nat \ {0}
  BY <1>1, <1>2, SplitRanges
<1>5. lo \in Bucket /\ up \in Bucket /\ b \in Bucket /\ split(t[k]) = <<lo, up>> /\ b.min \in Nat
  <2>1. b \in Bucket /\ b.min \in Nat
    BY <1>2, BucketIs
  <2>2. split(b) = <<LowerOf(b), UpperOf(b)>>
    BY <2>1, SplitFields, Zenon
  <2> QED BY <1>1, <1>3, <2>1, <2>2 DEF BucketOK
<1>6. PICK u : u = SplitAt(t, k)
  OBVIOUS
<1>7. /\ u \in Seq(Bucket) /\ Len(u) = Len(t) + 1
      /\ \A j \in 1 .. k - 1 : u[j] = t[j]
      /\ u[k] = lo /\ u[k + 1] = up
      /\ \A j \in k + 2 .. Len(t) + 1 : u[j] = t[j - 1]
  BY <1>0, <1>5, <1>6, SplitAtIs
<1>8. ASSUME NEW j \in 1 .. Len(u)
      PROVE  j \in 1 .. k - 1 \/ j = k \/ j = k + 1 \/ j \in k + 2 .. Len(t) + 1
  BY <1>0, <1>7
<1>9. ASSUME NEW j \in 1 .. Len(u) PROVE BucketOK(u[j])
  <2>1. CASE j \in 1 .. k - 1
    <3>1. j \in 1 .. Len(t)
      BY <1>0, <2>1
    <3> QED BY <1>0, <1>7, <2>1, <3>1
  <2>2. CASE j \in k + 2 .. Len(t) + 1
    <3>1. j - 1 \in 1 .. Len(t)
      BY <1>0, <2>2
    <3> QED BY <1>0, <1>7, <2>2, <3>1
  <2> QED BY <1>3, <1>7, <1>8, <2>1, <2>2
<1>10. u[1].min = 0
  <2>1. CASE k = 1
    BY <1>0, <1>1, <1>4, <1>7, <2>1 DEF Chain
  <2>2. CASE k # 1
    <3>1. 1 \in 1 .. k - 1
      BY <1>0, <2>2
    <3> QED BY <1>0, <1>7, <3>1 DEF Chain
  <2> QED BY <2>1, <2>2
<1>11. b.min + Size(b.len) = up.min + Size(up.len)
  BY <1>4, <1>5
<1>12. u[Len(u)].min + Size(u[Len(u)].len) = Pow2[IdBits]
  <2>1. CASE k = Len(t)
    <3>1. u[Len(u)] = up
      BY <1>7, <2>1
    <3> QED BY <1>0, <1>1, <1>11, <2>1, <3>1 DEF Chain
  <2>2. CASE k # Len(t)
    <3>1. Len(u) \in k + 2 .. Len(t) + 1 /\ Len(u) - 1 = Len(t)
      BY <1>0, <1>7, <2>2
    <3>2. u[Len(u)] = t[Len(t)]
      BY <1>7, <3>1
    <3> QED BY <1>0, <3>2 DEF Chain
  <2> QED BY <2>1, <2>2
<1>13. ASSUME NEW j \in 2 .. Len(u) PROVE u[j].min = u[j - 1].min + Size(u[j - 1].len)
  <2>0. \A i \in 2 .. Len(t) : t[i].min = t[i - 1].min + Size(t[i - 1].len)
    BY <1>0 DEF Chain
  <2>1. CASE j \in 2 .. k - 1
    <3>1. j \in 1 .. k - 1 /\ j - 1 \in 1 .. k - 1 /\ j \in 2 .. Len(t)
      BY <1>0, <2>1
    <3>2. u[j] = t[j] /\ u[j - 1] = t[j - 1]
      BY <1>7, <3>1
    <3> QED BY <2>0, <3>1, <3>2
  <2>2. CASE j = k
    <3>1. k - 1 \in 1 .. k - 1 /\ k \in 2 .. Len(t)
      BY <1>0, <2>2
    <3>2. u[k - 1] = t[k - 1] /\ t[k].min = t[k - 1].min + Size(t[k - 1].len)
      BY <1>7, <2>0, <3>1
    <3> QED BY <1>1, <1>4, <1>7, <2>2, <3>2
  <2>3. CASE j = k + 1
    <3>1. j - 1 = k
      BY <1>0, <2>3
    <3> QED BY <1>4, <1>7, <2>3, <3>1
  <2>4. CASE j = k + 2
    <3>1. j - 1 = k + 1 /\ j \in k + 2 .. Len(t) + 1 /\ k + 1 \in 2 .. Len(t) /\ (k + 1) - 1 = k
      BY <1>0, <1>7, <2>4
    <3>2. u[j] = t[k + 1] /\ u[j - 1] = up
      BY <1>7, <3>1
    <3>3. t[k + 1].min = b.min + Size(b.len)
      BY <1>1, <2>0, <3>1
    <3> QED BY <1>11, <3>2, <3>3
  <2>5. CASE j \in k + 3 .. Len(t) + 1
    <3>1. /\ j \in k + 2 .. Len(t) + 1 /\ j - 1 \in k + 2 .. Len(t) + 1
          /\ j - 1 \in 2 .. Len(t)
      BY <1>0, <2>5
    <3>2. u[j] = t[j - 1] /\ u[j - 1] = t[(j - 1) - 1]
      BY <1>7, <3>1
    <3>3. t[j - 1].min = t[(j - 1) - 1].min + Size(t[(j - 1) - 1].len)
      BY <2>0, <3>1
    <3> QED BY <3>2, <3>3
  <2>6. j \in 2 .. k - 1 \/ j = k \/ j = k + 1 \/ j = k + 2 \/ j \in k + 3 .. Len(t) + 1
    BY <1>0, <1>7
  <2> QED BY <2>1, <2>2, <2>3, <2>4, <2>5, <2>6
<1>14. u # <<>>
  BY <1>0, <1>7
<1>15. u \in Table
  <2>1. Spine(u)
    BY <1>1, <1>2, <1>4, <1>7, SpineSplit
  <2> QED BY <1>7, <1>9, <1>10, <1>12, <1>13, <1>14, <2>1 DEF Table, Chain
<1>16. k + 1 \in 1 .. Len(u) /\ k \in 1 .. Len(u)
  BY <1>0, <1>7
<1>17. ASSUME AssertsOn, NEW n \in TableNodes(t) PROVE n \in TableNodes(u)
  <2>1. PICK j \in 1 .. Len(t) : n \in ToSet(t[j].nodes)
    BY NodesAre
  <2>2. \E i \in 1 .. Len(u) : n \in ToSet(u[i].nodes)
    <3>1. CASE j < k
      <4>1. j \in 1 .. k - 1 /\ j \in 1 .. Len(u)
        BY <1>0, <1>7, <3>1
      <4> QED BY <1>7, <2>1, <4>1
    <3>2. CASE j = k
      <4>1. n \in ToSet(u[k].nodes) \cup ToSet(u[k + 1].nodes)
        BY <1>1, <1>3, <1>7, <1>17, <2>1, <3>2
      <4> QED BY <1>16, <4>1
    <3>3. CASE j > k
      <4>1. j + 1 \in k + 2 .. Len(t) + 1 /\ j + 1 \in 1 .. Len(u) /\ (j + 1) - 1 = j
        BY <1>0, <1>7, <3>3
      <4>2. u[j + 1] = t[j]
        BY <1>7, <4>1
      <4> QED BY <2>1, <4>1, <4>2
    <3> QED BY <1>0, <3>1, <3>2, <3>3
  <2> QED BY <1>15, <2>2, NodesAre
<1>18. ASSUME NEW i \in Id, isInRange(b, i) PROVE isInRange(lo, i) \/ isInRange(up, i)
  <2>1. i \in Nat
    BY DEF Id
  <2>2. b.min <= i /\ i < b.min + Size(b.len)
    BY <1>2, <1>18, <2>1, BucketIs
  <2>3. isInRange(lo, i) <=> lo.min <= i /\ i < lo.min + Size(lo.len)
    BY <1>3, <2>1, BucketIs
  <2>4. isInRange(up, i) <=> up.min <= i /\ i < up.min + Size(up.len)
    BY <1>3, <2>1, BucketIs
  <2> QED BY <1>4, <1>5, <2>1, <2>2, <2>3, <2>4
<1> QED BY <1>1, <1>4, <1>6, <1>7, <1>15, <1>16, <1>17, <1>18

(***************************************************************************)
(* The loop of addNode.                                                    *)
(***************************************************************************)
\* No bucket has to be split for n.
Settled(t, dead, n) ==
    LET b == t[BucketAt(t, n)] IN CanTake(b, dead, n) \/ ~splitAllowed(b)

\* A round splits the bucket of n, or there is nothing to do.
LEMMA SplitForIs ==
    ASSUME NEW t \in Table, NEW dead, NEW n \in Id, NEW u, u = SplitFor(t, dead, n)
    PROVE  /\ u \in Table /\ (AssertsOn => TableNodes(t) \subseteq TableNodes(u))
           /\ Settled(t, dead, n) => u = t
           /\ ~Settled(t, dead, n) => u[BucketAt(u, n)].len = t[BucketAt(t, n)].len + 1
<1>1. PICK k \in 1 .. Len(t) : k = BucketAt(t, n) /\ isInRange(t[k], n)
  BY BucketFound
<1>2. CASE Settled(t, dead, n)
  <2>1. u = t
    BY <1>1, <1>2 DEF Settled, SplitFor
  <2> QED BY <1>2, <2>1
<1>3. CASE ~Settled(t, dead, n)
  <2>1. splitAllowed(t[k]) /\ u = SplitAt(t, k)
    BY <1>1, <1>3 DEF Settled, SplitFor, SplitAt
  <2>2. /\ u \in Table
        /\ AssertsOn => TableNodes(t) \subseteq TableNodes(u)
        /\ k + 1 \in 1 .. Len(u) /\ k \in 1 .. Len(u)
        /\ u[k].len = t[k].len + 1 /\ u[k + 1].len = t[k].len + 1
        /\ isInRange(u[k], n) \/ isInRange(u[k + 1], n)
    BY <1>1, <2>1, SplitTable
  <2>3. isInRange(u[k], n) => BucketAt(u, n) = k
    BY <2>2, BucketUnique
  <2>4. isInRange(u[k + 1], n) => BucketAt(u, n) = k + 1
    BY <2>2, BucketUnique
  <2> QED BY <1>1, <1>3, <2>2, <2>3, <2>4
<1> QED BY <1>2, <1>3

\* The table before addNode puts the node where it belongs.
Ready(t, dead, n, u) ==
    u \in Table /\ Settled(u, dead, n) /\ (AssertsOn => TableNodes(t) \subseteq TableNodes(u))

Placed(u, dead, n, good) ==
    [u EXCEPT ![BucketAt(u, n)] = IF CanTake(@, dead, n) THEN TakeNode(@, n)
                                  ELSE IF good THEN cacheNode(@, n) ELSE @]

\* After IdBits rounds nothing is left to be split: a round that splits makes
\* the bucket of n one bit longer.
LEMMA AddLoop ==
    ASSUME NEW t \in Table, NEW dead, NEW n \in Id, n # LocalId, NEW good
    PROVE  \E u : /\ Ready(t, dead, n, u)
                  /\ addNode(t, dead, n, good) = Placed(u, dead, n, good)
<1>0. IdBits \in Nat
  BY RoutingTableAssumption
<1> DEFINE G(f) == f = [i \in 0 .. IdBits |-> IF i = 0 THEN t ELSE SplitFor(f[i - 1], dead, n)]
           F == CHOOSE f : G(f)
           g == [i \in 1 .. IdBits |-> [x \in Table |-> SplitFor(x, dead, n)]]
<1>1. addNode(t, dead, n, good) = Placed(F[IdBits], dead, n, good)
  BY DEF addNode, Placed
<1>2. \A x \in Table : SplitFor(x, dead, n) \in Table
  BY SplitForIs
<1>3. LoopStep(g, IdBits, Table)
  BY <1>2 DEF LoopStep
<1>4. \A i \in 1 .. IdBits : \A x \in Table : g[i][x] = SplitFor(x, dead, n)
  OBVIOUS
<1> HIDE DEF g
<1>5. PICK f : LoopRun(f, IdBits, Table, t, g)
  BY <1>0, <1>3, LoopRuns
<1>6. f \in [0 .. IdBits -> Table] /\ f[0] = t /\ \A i \in 1 .. IdBits : f[i] = g[i][f[i - 1]]
  BY <1>5 DEF LoopRun
<1>7. G(f)
  <2>1. ASSUME NEW i \in 0 .. IdBits PROVE f[i] = IF i = 0 THEN t ELSE SplitFor(f[i - 1], dead, n)
    <3>1. i # 0 => i \in 1 .. IdBits /\ i - 1 \in 0 .. IdBits
      BY <1>0
    <3>2. i # 0 => f[i] = g[i][f[i - 1]] /\ f[i - 1] \in Table
      BY <1>6, <3>1
    <3> QED BY <1>4, <1>6, <3>1, <3>2
  <2> QED BY <1>6, <2>1
<1>8. G(F)
  BY <1>7
<1>9. \A i \in 0 .. IdBits : F[i] = IF i = 0 THEN t ELSE SplitFor(F[i - 1], dead, n)
  BY <1>8, Zenon
<1> HIDE DEF F, G
<1> DEFINE Good(i) ==
             /\ F[i] \in Table /\ (AssertsOn => TableNodes(t) \subseteq TableNodes(F[i]))
             /\ Settled(F[i], dead, n) \/ F[i][BucketAt(F[i], n)].len >= i
           S == {i \in 0 .. IdBits : Good(i)}
<1>10. \A x \in Table : x[BucketAt(x, n)].len \in 0 .. IdBits
  <2> SUFFICES ASSUME NEW x \in Table PROVE x[BucketAt(x, n)].len \in 0 .. IdBits
    OBVIOUS
  <2>1. BucketAt(x, n) \in 1 .. Len(x)
    BY BucketFound
  <2>2. BucketOK(x[BucketAt(x, n)])
    BY <2>1, TableIs
  <2> QED BY <2>2, BucketIs
<1>11. 0 \in S
  <2>1. F[0] = t /\ 0 \in 0 .. IdBits
    BY <1>0, <1>9
  <2>2. t[BucketAt(t, n)].len >= 0
    BY <1>0, <1>10
  <2>3. Good(0)
    BY <2>1, <2>2
  <2> QED BY <2>1, <2>3
<1>12. ASSUME NEW i \in 1 .. IdBits, i - 1 \in S PROVE i \in S
  <2>1. PICK x, y : x = F[i - 1] /\ y = F[i]
    OBVIOUS
  <2>2. i \in 0 .. IdBits /\ y = SplitFor(x, dead, n)
    BY <1>0, <1>9, <2>1
  <2>3. /\ x \in Table /\ (AssertsOn => TableNodes(t) \subseteq TableNodes(x))
        /\ Settled(x, dead, n) \/ x[BucketAt(x, n)].len >= i - 1
    BY <1>12, <2>1
  <2>4. /\ y \in Table /\ (AssertsOn => TableNodes(x) \subseteq TableNodes(y))
        /\ Settled(x, dead, n) => y = x
        /\ ~Settled(x, dead, n) => y[BucketAt(y, n)].len = x[BucketAt(x, n)].len + 1
    BY <2>2, <2>3, SplitForIs
  <2>5. x[BucketAt(x, n)].len \in 0 .. IdBits
    BY <1>10, <2>3
  <2>6. Settled(y, dead, n) \/ y[BucketAt(y, n)].len >= i
    BY <1>0, <2>3, <2>4, <2>5
  <2>7. y \in Table /\ (AssertsOn => TableNodes(t) \subseteq TableNodes(y))
    BY <2>3, <2>4
  <2>8. Good(i)
    BY <2>1, <2>6, <2>7
  <2> QED BY <2>2, <2>8
<1> HIDE DEF S
<1>13. \A i \in 0 .. IdBits : i \in S
  BY <1>0, <1>11, <1>12, RoundByRound
<1>14. Good(IdBits)
  BY <1>0, <1>13 DEF S
<1>15. PICK u : u = F[IdBits]
  OBVIOUS
<1>16. Settled(u, dead, n)
  <2>1. CASE u[BucketAt(u, n)].len >= IdBits
    <3>1. u[BucketAt(u, n)].len \in 0 .. IdBits
      BY <1>10, <1>14, <1>15
    <3>2. ~(u[BucketAt(u, n)].len < IdBits - 1)
      BY <1>0, <2>1, <3>1
    <3> QED BY <3>2 DEF Settled, splitAllowed
  <2> QED BY <1>14, <1>15, <2>1
<1>17. Ready(t, dead, n, u)
  BY <1>14, <1>15, <1>16 DEF Ready
<1> HIDE DEF Good
<1> QED BY <1>1, <1>15, <1>17

(***************************************************************************)
(* The operations on a bucket.                                             *)
(***************************************************************************)
\* A bucket that is changed keeps its range and is still good.
Changed(b, c) == BucketOK(c) /\ c.min = b.min /\ c.len = b.len

LEMMA ChangedIs ==
    ASSUME NEW b, BucketOK(b), NEW ns \in Seq(Id), NEW cs \in Seq(Id),
           NEW c, c = [min |-> b.min, len |-> b.len, nodes |-> ns, cached |-> cs],
           Len(ns) <= K, Len(cs) <= CacheSize,
           \A n \in ToSet(ns) \cup ToSet(cs) : isInRange(b, n),
           cs # <<>> => Len(ns) = K /\ ~splitAllowed(b)
    PROVE  Changed(b, c) /\ c.nodes = ns /\ c.cached = cs
<1>1. b.min \in Id /\ b.len \in 0 .. IdBits /\ Aligned(b)
  BY BucketIs
<1>2. c.min = b.min /\ c.len = b.len /\ c.nodes = ns /\ c.cached = cs
  OBVIOUS
<1>3. c \in Bucket
  BY <1>1 DEF Bucket
<1>4. Aligned(c)
  BY <1>1, <1>2 DEF Aligned
<1>5. \A n : isInRange(c, n) <=> isInRange(b, n)
  BY <1>2 DEF isInRange
<1>6. splitAllowed(c) <=> splitAllowed(b)
  BY <1>2, <1>5 DEF splitAllowed
<1>7. Filled(c)
  BY <1>2, <1>5, <1>6 DEF Filled, Members
<1> QED BY <1>2, <1>3, <1>4, <1>7 DEF Changed, BucketOK

\* The fields of a good bucket again.
LEMMA FilledIs ==
    ASSUME NEW b, BucketOK(b)
    PROVE  /\ b = [min |-> b.min, len |-> b.len, nodes |-> b.nodes, cached |-> b.cached]
           /\ b.nodes \in Seq(Id) /\ b.cached \in Seq(Id)
           /\ Len(b.nodes) \in Nat /\ Len(b.cached) \in Nat /\ K \in Nat \ {0} /\ CacheSize \in Nat \ {0}
           /\ Len(b.nodes) <= K /\ Len(b.cached) <= CacheSize
           /\ \A n \in ToSet(b.nodes) : isInRange(b, n)
           /\ \A n \in ToSet(b.cached) : isInRange(b, n)
           /\ b.cached # <<>> => Len(b.nodes) = K /\ ~splitAllowed(b)
<1>1. b \in Bucket /\ Filled(b) /\ b.nodes \in Seq(Id) /\ b.cached \in Seq(Id)
  BY BucketIs
<1>2. Len(b.nodes) \in Nat /\ Len(b.cached) \in Nat
  BY <1>1, SeqIs
<1>3. b = [min |-> b.min, len |-> b.len, nodes |-> b.nodes, cached |-> b.cached]
  BY <1>1 DEF Bucket
<1> QED BY <1>1, <1>2, <1>3, RoutingTableAssumption DEF Filled, Members

\* A bucket that takes a node loses at most a bad one.
LEMMA TakeIs ==
    ASSUME NEW b, BucketOK(b), NEW dead, NEW n \in Id, isInRange(b, n), CanTake(b, dead, n),
           NEW c, c = TakeNode(b, n)
    PROVE  /\ Changed(b, c) /\ n \in ToSet(c.nodes)
           /\ \A x \in ToSet(b.nodes) : x \in ToSet(c.nodes) \/ x \in dead
<1>0. /\ b.nodes \in Seq(Id) /\ b.cached \in Seq(Id)
      /\ Len(b.nodes) \in Nat /\ Len(b.cached) \in Nat /\ K \in Nat \ {0}
      /\ Len(b.nodes) <= K /\ Len(b.cached) <= CacheSize
      /\ \A x \in ToSet(b.nodes) : isInRange(b, x)
      /\ \A x \in ToSet(b.cached) : isInRange(b, x)
      /\ b.cached # <<>> => Len(b.nodes) = K /\ ~splitAllowed(b)
  BY FilledIs
<1>1. PICK q : q = b.nodes
  OBVIOUS
<1>2. PICK p : p = IF n \in ToSet(q) THEN RemoveFirst(q, n)
                   ELSE IF Len(q) < K THEN q ELSE Tail(q)
  OBVIOUS
<1>3. c = [min |-> b.min, len |-> b.len, nodes |-> Append(p, n), cached |-> b.cached]
  <2>1. c = [b EXCEPT !.nodes = Append(p, n)]
    BY <1>1, <1>2 DEF TakeNode
  <2>2. b \in Bucket
    BY BucketIs
  <2> QED BY <2>1, <2>2 DEF Bucket
<1>4. /\ p \in Seq(Id) /\ Len(p) \in Nat /\ Len(p) + 1 <= K /\ ToSet(p) \subseteq ToSet(q)
      /\ Len(q) = K => Len(p) + 1 = K
      /\ \A x \in ToSet(q) : x \in ToSet(p) \/ x = n \/ x \in dead
  <2>1. CASE n \in ToSet(q)
    <3>1. p = RemoveFirst(q, n)
      BY <1>2, <2>1
    <3>2. /\ p \in Seq(Id) /\ Len(p) = Len(q) - 1 /\ Len(q) \in Nat \ {0}
          /\ ToSet(p) \subseteq ToSet(q) /\ ToSet(q) \subseteq ToSet(p) \cup {n}
      BY <1>0, <1>1, <2>1, <3>1, RemoveIs
    <3> QED BY <1>0, <1>1, <3>2
  <2>2. CASE n \notin ToSet(q) /\ Len(q) < K
    <3>1. p = q
      BY <1>2, <2>2
    <3> QED BY <1>0, <1>1, <2>2, <3>1
  <2>3. CASE n \notin ToSet(q) /\ ~(Len(q) < K)
    <3>1. p = Tail(q) /\ q # <<>> /\ Len(q) = K /\ Head(q) \in dead
      <4>1. Len(q) # 0 /\ q \in Seq(Id)
        BY <1>0, <1>1, <2>3
      <4>2. q # <<>>
        BY <4>1, SeqIs
      <4> QED BY <1>0, <1>1, <1>2, <2>3, <4>2 DEF CanTake
    <3>2. Tail(q) \in Seq(Id) /\ ToSet(q) = {Head(q)} \cup ToSet(Tail(q))
      BY <1>0, <1>1, <3>1, HeadIs
    <3>3. Len(Tail(q)) = Len(q) - 1
      BY <1>0, <1>1, <3>1
    <3> QED BY <1>0, <1>1, <3>1, <3>2, <3>3
  <2> QED BY <2>1, <2>2, <2>3
<1>5. PICK r : r = Append(p, n)
  OBVIOUS
<1>6. r \in Seq(Id) /\ ToSet(r) = ToSet(p) \cup {n} /\ Len(r) = Len(p) + 1
  <2>1. Append(p, n) \in Seq(Id) /\ ToSet(Append(p, n)) = ToSet(p) \cup {n}
    BY <1>4, AppendIs
  <2>2. Len(Append(p, n)) = Len(p) + 1
    BY <1>4
  <2> QED BY <1>5, <2>1, <2>2
<1>7. /\ Len(r) <= K /\ \A x \in ToSet(r) \cup ToSet(b.cached) : isInRange(b, x)
      /\ b.cached # <<>> => Len(r) = K /\ ~splitAllowed(b)
  BY <1>0, <1>1, <1>4, <1>6
<1>8. Changed(b, c) /\ c.nodes = r
  <2>1. c = [min |-> b.min, len |-> b.len, nodes |-> r, cached |-> b.cached]
    BY <1>3, <1>5
  <2>2. PICK cs : cs = b.cached
    OBVIOUS
  <2>3. /\ r \in Seq(Id) /\ cs \in Seq(Id) /\ Len(r) <= K /\ Len(cs) <= CacheSize
        /\ \A x \in ToSet(r) \cup ToSet(cs) : isInRange(b, x)
        /\ cs # <<>> => Len(r) = K /\ ~splitAllowed(b)
        /\ c = [min |-> b.min, len |-> b.len, nodes |-> r, cached |-> cs]
    BY <1>0, <1>6, <1>7, <2>1, <2>2
  <2> QED BY <2>3, ChangedIs
<1> QED BY <1>1, <1>4, <1>6, <1>8

\* A node waits only for a full bucket that cannot be split.
LEMMA CacheIs ==
    ASSUME NEW b, BucketOK(b), NEW dead, NEW n \in Id, isInRange(b, n),
           ~CanTake(b, dead, n), ~splitAllowed(b), NEW c, c = cacheNode(b, n)
    PROVE  Changed(b, c) /\ ToSet(c.nodes) = ToSet(b.nodes)
<1>0. /\ b.nodes \in Seq(Id) /\ b.cached \in Seq(Id)
      /\ Len(b.nodes) \in Nat /\ Len(b.cached) \in Nat /\ K \in Nat \ {0} /\ CacheSize \in Nat \ {0}
      /\ Len(b.nodes) <= K /\ Len(b.cached) <= CacheSize
      /\ \A x \in ToSet(b.nodes) : isInRange(b, x)
      /\ \A x \in ToSet(b.cached) : isInRange(b, x)
  BY FilledIs
<1>1. Len(b.nodes) = K
  BY <1>0 DEF CanTake
<1>2. PICK ns, cs : ns = b.nodes /\ cs = b.cached
  OBVIOUS
<1>3. PICK one : one = <<n>>
  OBVIOUS
<1>4. one \in Seq(Id) /\ Len(one) = 1 /\ ToSet(one) = {n}
  <2>1. one \in Seq(Id) /\ Len(one) = 1 /\ one[1] = n
    BY <1>3
  <2>2. \A x : x \in ToSet(one) <=> \E i \in 1 .. Len(one) : one[i] = x
    BY <2>1, SeqIs
  <2>3. ASSUME NEW x PROVE x \in ToSet(one) <=> x = n
    BY <2>1, <2>2
  <2> QED BY <2>1, <2>3
<1>5. PICK q : q = one \o cs
  OBVIOUS
<1>6. q \in Seq(Id) /\ ToSet(q) = {n} \cup ToSet(cs) /\ Len(q) = Len(cs) + 1
  <2>1. one \o cs \in Seq(Id) /\ ToSet(one \o cs) = ToSet(one) \cup ToSet(cs)
    BY <1>0, <1>2, <1>4, ConcatIs
  <2>2. JoinOf(one \o cs, one, cs, Id)
    BY <1>0, <1>2, <1>4, ConcatAt
  <2>3. Len(one \o cs) = Len(one) + Len(cs)
    BY <2>2 DEF JoinOf
  <2> QED BY <1>0, <1>2, <1>4, <1>5, <2>1, <2>3
<1>7. PICK k : k = Min({Len(cs) + 1, CacheSize})
  OBVIOUS
<1>8. k \in 0 .. Len(q) /\ k <= CacheSize /\ k \in Nat
  <2>1. Len(cs) + 1 \in Int /\ CacheSize \in Int
    BY <1>0, <1>2
  <2>2. k = IF Len(cs) + 1 <= CacheSize THEN Len(cs) + 1 ELSE CacheSize
    BY <1>7, <2>1, MinOfTwo
  <2> QED BY <1>0, <1>2, <1>6, <2>2
<1>9. PICK d : d = SubSeq(q, 1, k)
  OBVIOUS
<1>10. d \in Seq(Id) /\ ToSet(d) \subseteq ToSet(q) /\ Len(d) = k
  <2>1. SubSeq(q, 1, k) \in Seq(Id) /\ ToSet(q) = ToSet(SubSeq(q, 1, k)) \cup ToSet(SubSeq(q, k + 1, Len(q)))
    BY <1>6, <1>8, CutIs
  <2>2. Len(SubSeq(q, 1, k)) = k
    BY <1>6, <1>8
  <2> QED BY <1>9, <2>1, <2>2
<1>11. c = [min |-> b.min, len |-> b.len, nodes |-> ns, cached |-> d]
  <2>1. c = [b EXCEPT !.cached = d]
    BY <1>2, <1>3, <1>5, <1>7, <1>9 DEF cacheNode
  <2>2. b \in Bucket
    BY BucketIs
  <2> QED BY <1>2, <2>1, <2>2 DEF Bucket
<1>12. /\ ns \in Seq(Id) /\ Len(ns) <= K /\ Len(d) <= CacheSize
       /\ \A x \in ToSet(ns) \cup ToSet(d) : isInRange(b, x)
       /\ d # <<>> => Len(ns) = K /\ ~splitAllowed(b)
  BY <1>0, <1>1, <1>2, <1>6, <1>8, <1>10
<1>13. Changed(b, c) /\ c.nodes = ns
  BY <1>10, <1>11, <1>12, ChangedIs
<1> QED BY <1>2, <1>13

\* A node is dropped for one that waits.
LEMMA DropIs ==
    ASSUME NEW b, BucketOK(b), NEW n \in Id, NEW c, c = dropNode(b, n)
    PROVE  /\ Changed(b, c)
           /\ \A x \in ToSet(b.nodes) : x \in ToSet(c.nodes) \/ x = n
<1>0. /\ b.nodes \in Seq(Id) /\ b.cached \in Seq(Id)
      /\ Len(b.nodes) \in Nat /\ Len(b.cached) \in Nat /\ K \in Nat \ {0} /\ CacheSize \in Nat \ {0}
      /\ Len(b.nodes) <= K /\ Len(b.cached) <= CacheSize
      /\ \A x \in ToSet(b.nodes) : isInRange(b, x)
      /\ \A x \in ToSet(b.cached) : isInRange(b, x)
      /\ b.cached # <<>> => Len(b.nodes) = K /\ ~splitAllowed(b)
  BY FilledIs
<1>1. CASE ~(b.cached # <<>> /\ n \in ToSet(b.nodes))
  <2>1. c = b
    BY <1>1 DEF dropNode
  <2> QED BY <2>1 DEF Changed
<1>2. CASE b.cached # <<>> /\ n \in ToSet(b.nodes)
  <2>1. PICK q, w : q = b.nodes /\ w = b.cached
    OBVIOUS
  <2>2. PICK p, h, d : p = RemoveFirst(q, n) /\ h = Head(w) /\ d = Tail(w)
    OBVIOUS
  <2>3. /\ p \in Seq(Id) /\ Len(p) = Len(q) - 1 /\ Len(q) \in Nat \ {0}
        /\ ToSet(p) \subseteq ToSet(q) /\ ToSet(q) \subseteq ToSet(p) \cup {n}
    BY <1>0, <1>2, <2>1, <2>2, RemoveIs
  <2>4. h \in Id /\ d \in Seq(Id) /\ ToSet(w) = {h} \cup ToSet(d)
    BY <1>0, <1>2, <2>1, <2>2, HeadIs
  <2>5. Len(d) = Len(w) - 1
    BY <1>0, <1>2, <2>1, <2>2
  <2>6. PICK r : r = Append(p, h)
    OBVIOUS
  <2>7. r \in Seq(Id) /\ ToSet(r) = ToSet(p) \cup {h} /\ Len(r) = Len(p) + 1
    <3>1. Append(p, h) \in Seq(Id) /\ ToSet(Append(p, h)) = ToSet(p) \cup {h}
      BY <2>3, <2>4, AppendIs
    <3>2. Len(Append(p, h)) = Len(p) + 1
      BY <2>3, <2>4
    <3> QED BY <2>6, <3>1, <3>2
  <2>8. c = [min |-> b.min, len |-> b.len, nodes |-> r, cached |-> d]
    <3>1. c = [b EXCEPT !.nodes = r, !.cached = d]
      BY <1>2, <2>1, <2>2, <2>6 DEF dropNode
    <3>2. b \in Bucket
      BY BucketIs
    <3>3. PICK e : e = [b EXCEPT !.nodes = r]
      OBVIOUS
    <3>4. c = [e EXCEPT !.cached = d]
      BY <3>1, <3>2, <3>3 DEF Bucket
    <3>5. PICK m, l : m = b.min /\ l = b.len
      OBVIOUS
    <3>6. e = [min |-> m, len |-> l, nodes |-> r, cached |-> b.cached]
      BY <3>2, <3>3, <3>5 DEF Bucket
    <3>7. [e EXCEPT !.cached = d] = [min |-> m, len |-> l, nodes |-> r, cached |-> d]
      BY <3>6
    <3> QED BY <3>4, <3>5, <3>7, Zenon
  <2>9. /\ Len(r) <= K /\ Len(d) <= CacheSize
        /\ \A x \in ToSet(r) \cup ToSet(d) : isInRange(b, x)
        /\ d # <<>> => Len(r) = K /\ ~splitAllowed(b)
    BY <1>0, <1>2, <2>1, <2>3, <2>4, <2>5, <2>7
  <2>10. Changed(b, c) /\ c.nodes = r
    BY <2>4, <2>7, <2>8, <2>9, ChangedIs
  <2> QED BY <2>1, <2>3, <2>7, <2>10
<1> QED BY <1>1, <1>2

(***************************************************************************)
(* The operations on the table.                                            *)
(***************************************************************************)
\* One bucket of the table is changed.
LEMMA SetBucket ==
    ASSUME NEW t \in Table, NEW k \in 1 .. Len(t), NEW c, Changed(t[k], c),
           NEW u, u = [t EXCEPT ![k] = c]
    PROVE  /\ u \in Table /\ ToSet(c.nodes) \subseteq TableNodes(u)
           /\ \A x \in TableNodes(t) :
                x \in TableNodes(u) \/ (x \in ToSet(t[k].nodes) /\ x \notin ToSet(c.nodes))
<1>0. /\ t \in Seq(Bucket) /\ Len(t) \in Nat \ {0} /\ DOMAIN t = 1 .. Len(t)
      /\ Chain(t) /\ \A j \in 1 .. Len(t) : BucketOK(t[j])
  BY TableIs
<1>1. BucketOK(c) /\ c \in Bucket /\ c.min = t[k].min /\ c.len = t[k].len
  BY DEF Changed, BucketOK
<1>2. /\ u \in Seq(Bucket) /\ Len(u) = Len(t)
      /\ u[k] = c /\ \A j \in 1 .. Len(t) : j # k => u[j] = t[j]
  BY <1>0, <1>1
<1>3. ASSUME NEW j \in 1 .. Len(t) PROVE BucketOK(u[j]) /\ u[j].min = t[j].min /\ u[j].len = t[j].len
  BY <1>0, <1>1, <1>2
<1>4. Chain(u)
  <2>1. 1 \in 1 .. Len(t) /\ Len(t) \in 1 .. Len(t)
    BY <1>0
  <2>2. \A j \in 2 .. Len(t) : j \in 1 .. Len(t) /\ j - 1 \in 1 .. Len(t)
    BY <1>0
  <2>3. u # <<>>
    BY <1>0, <1>2
  <2>4. ASSUME NEW j \in 2 .. Len(u) PROVE u[j].min = u[j - 1].min + Size(u[j - 1].len)
    <3>1. t[j].min = t[j - 1].min + Size(t[j - 1].len)
      BY <1>0, <1>2 DEF Chain
    <3> QED BY <1>2, <1>3, <2>2, <3>1
  <2>5. u[1].min = 0 /\ u[Len(u)].min + Size(u[Len(u)].len) = Pow2[IdBits]
    BY <1>0, <1>2, <1>3, <2>1 DEF Chain
  <2> QED BY <2>3, <2>4, <2>5 DEF Chain
<1>5. u \in Table
  <2>1. PICK p \in 0 .. IdBits : SplitTo(t, p)
    BY TableIs DEF Spine
  <2>2. SplitTo(u, p)
    BY <1>2, <1>3, <2>1 DEF SplitTo, IsBeside
  <2> QED BY <1>2, <1>3, <1>4, <2>2 DEF Table, Spine
<1>6. ASSUME NEW x \in ToSet(c.nodes) PROVE x \in TableNodes(u)
  BY <1>2, <1>5, NodesAre
<1>7. ASSUME NEW x \in TableNodes(t), x \notin TableNodes(u)
      PROVE  x \in ToSet(t[k].nodes) /\ x \notin ToSet(c.nodes)
  <2>1. PICK j \in 1 .. Len(t) : x \in ToSet(t[j].nodes)
    BY NodesAre
  <2>2. \A i \in 1 .. Len(u) : x \notin ToSet(u[i].nodes)
    BY <1>5, <1>7, NodesAre
  <2> QED BY <1>2, <2>1, <2>2
<1> QED BY <1>5, <1>6, <1>7

\* Table u has all the nodes of t that are not in dead.
Keeps(t, u, dead) == \A x \in TableNodes(t) : x \in TableNodes(u) \/ x \in dead

\* A node is added: only bad nodes may have to go.
LEMMA AddIs ==
    ASSUME NEW t \in Table, NEW dead, NEW n \in Id, NEW good \in BOOLEAN,
           NEW v, v = addNode(t, dead, n, good)
    PROVE  v \in Table /\ (AssertsOn => Keeps(t, v, dead))
<1>1. CASE n = LocalId
  <2>1. v = t
    BY <1>1 DEF addNode
  <2> QED BY <2>1 DEF Keeps
<1>2. CASE n # LocalId
  <2>1. PICK u : Ready(t, dead, n, u) /\ v = Placed(u, dead, n, good)
    BY <1>2, AddLoop
  <2>2. u \in Table /\ Settled(u, dead, n) /\ (AssertsOn => TableNodes(t) \subseteq TableNodes(u))
    BY <2>1 DEF Ready
  <2>3. PICK k \in 1 .. Len(u) : k = BucketAt(u, n) /\ isInRange(u[k], n)
    BY <2>2, BucketFound
  <2>4. PICK b : b = u[k]
    OBVIOUS
  <2>5. BucketOK(b) /\ isInRange(b, n)
    BY <2>2, <2>3, <2>4, TableIs
  <2>6. PICK c : c = IF CanTake(b, dead, n) THEN TakeNode(b, n)
                     ELSE IF good THEN cacheNode(b, n) ELSE b
    OBVIOUS
  <2>7. v = [u EXCEPT ![k] = c]
    BY <2>1, <2>3, <2>4, <2>6 DEF Placed
  <2>8. Changed(b, c) /\ \A x \in ToSet(b.nodes) : x \in ToSet(c.nodes) \/ x \in dead
    <3>1. CASE CanTake(b, dead, n)
      <4>1. c = TakeNode(b, n)
        BY <2>6, <3>1
      <4> QED BY <2>5, <3>1, <4>1, TakeIs
    <3>2. CASE ~CanTake(b, dead, n) /\ good
      <4>1. c = cacheNode(b, n) /\ ~splitAllowed(b)
        BY <2>2, <2>3, <2>4, <2>6, <3>2 DEF Settled
      <4>2. Changed(b, c) /\ ToSet(c.nodes) = ToSet(b.nodes)
        BY <2>5, <3>2, <4>1, CacheIs
      <4> QED BY <4>2
    <3>3. CASE ~CanTake(b, dead, n) /\ ~good
      <4>1. c = b
        BY <2>6, <3>3
      <4> QED BY <2>5, <4>1 DEF Changed
    <3> QED BY <3>1, <3>2, <3>3
  <2>9. /\ v \in Table
        /\ \A x \in TableNodes(u) :
             x \in TableNodes(v) \/ (x \in ToSet(u[k].nodes) /\ x \notin ToSet(c.nodes))
    BY <2>2, <2>4, <2>7, <2>8, SetBucket
  <2>10. ASSUME AssertsOn, NEW x \in TableNodes(t) PROVE x \in TableNodes(v) \/ x \in dead
    BY <2>2, <2>4, <2>8, <2>9, <2>10
  <2> QED BY <2>9, <2>10 DEF Keeps
<1> QED BY <1>1, <1>2

\* A node is dropped: no other one is lost.
LEMMA DropTable ==
    ASSUME NEW t \in Table, NEW n \in Id, NEW v, v = DropFromTable(t, n)
    PROVE  v \in Table /\ Keeps(t, v, {n})
<1>1. PICK k \in 1 .. Len(t) : k = BucketAt(t, n)
  BY BucketFound
<1>2. PICK c : c = dropNode(t[k], n)
  OBVIOUS
<1>3. BucketOK(t[k])
  BY TableIs
<1>4. Changed(t[k], c) /\ \A x \in ToSet(t[k].nodes) : x \in ToSet(c.nodes) \/ x = n
  BY <1>2, <1>3, DropIs
<1>5. v = [t EXCEPT ![k] = c]
  BY <1>1, <1>2 DEF DropFromTable
<1>6. /\ v \in Table
      /\ \A x \in TableNodes(t) :
           x \in TableNodes(v) \/ (x \in ToSet(t[k].nodes) /\ x \notin ToSet(c.nodes))
  BY <1>4, <1>5, SetBucket
<1> QED BY <1>4, <1>6 DEF Keeps

\* A table and the bad nodes.
State == [table : Table, bad : SUBSET Id]

\* What nodes added one after the other may do to s.
Grown(s, r) ==
    r \in State /\ r.bad \subseteq s.bad /\ (AssertsOn => Keeps(s.table, r.table, s.bad))

LEMMA AddNewIs ==
    ASSUME NEW s \in State, NEW n \in Id
    PROVE  Grown(s, AddNew(s, n))
<1>1. PICK u : u = addNode(s.table, s.bad, n, FALSE)
  OBVIOUS
<1>2. s.table \in Table /\ s.bad \in SUBSET Id
  BY DEF State
<1>3. u \in Table /\ (AssertsOn => Keeps(s.table, u, s.bad))
  BY <1>1, <1>2, AddIs
<1>4. PICK d : d = s.bad \ ({n} \cap TableNodes(u))
  OBVIOUS
<1>5. AddNew(s, n) = [table |-> u, bad |-> d]
  BY <1>1, <1>4 DEF AddNew
<1>6. d \in SUBSET Id /\ d \subseteq s.bad
  BY <1>2, <1>4
<1> QED BY <1>3, <1>5, <1>6 DEF Grown, State

\* Nodes are added one after the other.
LEMMA AddNodesIs ==
    ASSUME NEW s \in State, NEW ns \in Seq(Id)
    PROVE  Grown(s, addNodes(s, ns))
<1>0. Len(ns) \in Nat /\ \A i \in 1 .. Len(ns) : ns[i] \in Id
  BY SeqIs
<1> DEFINE N == Len(ns)
           G(f) == f = [i \in 0 .. N |-> IF i = 0 THEN s ELSE AddNew(f[i - 1], ns[i])]
           F == CHOOSE f : G(f)
           g == [i \in 1 .. N |-> [x \in State |-> AddNew(x, ns[i])]]
<1>1. addNodes(s, ns) = F[N]
  BY DEF addNodes
<1>2. \A i \in 1 .. N : \A x \in State : AddNew(x, ns[i]) \in State
  BY <1>0, AddNewIs DEF Grown
<1>3. LoopStep(g, N, State)
  BY <1>2 DEF LoopStep
<1>4. \A i \in 1 .. N : \A x \in State : g[i][x] = AddNew(x, ns[i])
  OBVIOUS
<1> HIDE DEF g
<1>5. PICK f : LoopRun(f, N, State, s, g)
  BY <1>0, <1>3, LoopRuns
<1>6. f \in [0 .. N -> State] /\ f[0] = s /\ \A i \in 1 .. N : f[i] = g[i][f[i - 1]]
  BY <1>5 DEF LoopRun
<1>7. G(f)
  <2>1. ASSUME NEW i \in 0 .. N PROVE f[i] = IF i = 0 THEN s ELSE AddNew(f[i - 1], ns[i])
    <3>1. i # 0 => i \in 1 .. N /\ i - 1 \in 0 .. N
      BY <1>0
    <3>2. i # 0 => f[i] = g[i][f[i - 1]] /\ f[i - 1] \in State
      BY <1>6, <3>1
    <3> QED BY <1>4, <1>6, <3>1, <3>2
  <2> QED BY <1>6, <2>1
<1>8. G(F)
  BY <1>7
<1>9. \A i \in 0 .. N : F[i] = IF i = 0 THEN s ELSE AddNew(F[i - 1], ns[i])
  BY <1>8, Zenon
<1> HIDE DEF F, G
<1> DEFINE S == {i \in 0 .. N : Grown(s, F[i])}
<1>10. 0 \in S
  <2>1. F[0] = s /\ 0 \in 0 .. N
    BY <1>0, <1>9
  <2>2. Grown(s, s)
    BY DEF Grown, Keeps
  <2> QED BY <2>1, <2>2
<1>11. ASSUME NEW i \in 1 .. N, i - 1 \in S PROVE i \in S
  <2>1. PICK x, y : x = F[i - 1] /\ y = F[i]
    OBVIOUS
  <2>2. i \in 0 .. N /\ y = AddNew(x, ns[i]) /\ ns[i] \in Id
    BY <1>0, <1>9, <2>1
  <2>3. Grown(s, x)
    BY <1>11, <2>1
  <2>4. Grown(x, y)
    BY <2>2, <2>3, AddNewIs DEF Grown
  <2>5. Grown(s, y)
    BY <2>3, <2>4 DEF Grown, Keeps
  <2> QED BY <2>1, <2>2, <2>5
<1> HIDE DEF S
<1>12. \A i \in 0 .. N : i \in S
  BY <1>0, <1>10, <1>11, RoundByRound
<1>13. N \in S
  BY <1>0, <1>12
<1> QED BY <1>1, <1>13 DEF S

\* The table of a node that starts.
LEMMA InitTableIs == InitTable \in Table
<1>0. IdBits \in Nat /\ 0 \in 0 .. IdBits
  BY RoutingTableAssumption
<1>1. PICK z : z = <<>>
  OBVIOUS
<1>2. z \in Seq(Id) /\ Len(z) = 0 /\ ToSet(z) = {}
  BY <1>1 DEF ToSet
<1>3. PICK b : b = [min |-> 0, len |-> 0, nodes |-> z, cached |-> z]
  OBVIOUS
<1>4. b.min = 0 /\ b.len = 0 /\ b.nodes = z /\ b.cached = z
  BY <1>3
<1>5. Pow2[IdBits] \in Nat \ {0} /\ Size(0) = Pow2[IdBits]
  BY <1>0, PowersOfTwo, Sizes
<1>6. b \in Bucket
  <2>1. 0 \in Id
    BY <1>5 DEF Id
  <2> QED BY <1>0, <1>2, <1>3, <2>1 DEF Bucket
<1>7. Aligned(b)
  <2>1. 0 = 0 * Size(0) /\ 0 \in Nat /\ 0 + Size(0) <= Pow2[IdBits]
    BY <1>5
  <2> QED BY <1>4, <2>1 DEF Aligned
<1>8. Filled(b)
  BY <1>1, <1>2, <1>4, RoutingTableAssumption DEF Filled, Members
<1>9. PICK t : t = <<b>>
  OBVIOUS
<1>10. t \in Seq(Bucket) /\ Len(t) = 1 /\ t[1] = b /\ t # <<>>
  BY <1>6, <1>9
<1>11. Chain(t)
  BY <1>4, <1>5, <1>10 DEF Chain
<1>12. Spine(t)
  <2>1. PICK size \in Nat \ {0} : size = Size(0) /\ size = Pow2[IdBits]
    BY <1>5
  <2>2. LocalId \in Nat /\ LocalId < size
    BY <2>1, RoutingTableAssumption DEF Id
  <2>3. (LocalId \div size) * size = 0
    <3>1. (LocalId \div size) * size = 0 * size <=> 0 * size <= LocalId /\ LocalId < 0 * size + size
      BY <2>2, Between
    <3>2. 0 * size = 0
      OBVIOUS
    <3> QED BY <2>2, <3>1, <3>2
  <2>4. MinId(LocalId, 0) = 0
    BY <2>1, <2>3 DEF MinId
  <2>5. SplitTo(t, 0)
    <3>1. \A k \in 1 .. Len(t) : t[k] = b
      BY <1>10
    <3>2. 1 .. 0 = {}
      OBVIOUS
    <3> QED BY <1>4, <2>4, <3>1, <3>2 DEF SplitTo
  <2> QED BY <1>0, <2>5 DEF Spine
<1>13. t \in Table
  BY <1>6, <1>7, <1>8, <1>10, <1>11, <1>12 DEF Table, BucketOK
<1> QED BY <1>1, <1>3, <1>9, <1>13 DEF InitTable

\* The buckets collectUpward looks at are there.
LEMMA BesidesAre ==
    ASSUME NEW t \in Table, NEW k \in 1 .. Len(t), NEW i \in Nat, isInRange(t[k], i)
    PROVE  \A l \in 1 .. t[k].len - 1 : \E j \in 1 .. Len(t) : IsBeside(t[j], i, l)
<1>0. /\ BucketOK(t[k]) /\ IdBits \in Nat /\ LocalId \in Nat
  BY TableIs, RoutingTableAssumption DEF Id
<1>1. PICK b : b = t[k]
  OBVIOUS
<1>2. b.min \in Nat /\ b.len \in 0 .. IdBits
  BY <1>0, <1>1, BucketIs
<1>a. PICK n \in 0 .. IdBits : n = b.len
  BY <1>2
<1>3. PICK p \in 0 .. IdBits : SplitTo(t, p)
  BY TableIs DEF Spine
<1> SUFFICES ASSUME NEW l \in 1 .. n - 1 PROVE \E j \in 1 .. Len(t) : IsBeside(t[j], i, l)
  BY <1>1, <1>a
<1>4. l \in 1 .. n /\ l \in 1 .. n - 1 /\ l \in 1 .. IdBits /\ n \in 1 .. IdBits /\ n - 1 \in 0 .. IdBits
  BY <1>0
<1>5. Sibling(i, l) = Sibling(b.min, l)
  BY <1>1, <1>2, <1>a, <1>4, SharedPrefix DEF isInRange
<1>6. Sibling(b.min, l) = Sibling(LocalId, l) /\ l \in 1 .. p
  <2>1. CASE b.len = p /\ b.min = MinId(LocalId, p)
    <3>1. SamePrefix(LocalId, b.min, b.len)
      <4>1. PICK s \in Nat \ {0} : s = Size(p)
        BY Sizes
      <4>2. PICK a \in Nat : a = LocalId \div s
        BY <1>0, Divides
      <4>3. b.min = a * s
        BY <2>1, <4>1, <4>2 DEF MinId
      <4>4. (b.min \div s) * s = a * s <=> a * s <= b.min /\ b.min < a * s + s
        BY <1>2, Between
      <4>5. (b.min \div s) * s = (LocalId \div s) * s
        BY <1>2, <4>2, <4>3, <4>4
      <4> QED BY <2>1, <4>1, <4>5 DEF SamePrefix, MinId
    <3> QED BY <1>0, <1>2, <1>a, <1>4, <2>1, <3>1, SharedPrefix
  <2>2. CASE b.len \in 1 .. p /\ b.min = Sibling(LocalId, b.len)
    <3>1. SamePrefix(LocalId, b.min, n - 1)
      BY <1>0, <1>a, <1>4, <2>2, BesideIs
    <3>2. Sibling(b.min, l) = Sibling(LocalId, l)
      BY <1>0, <1>2, <1>a, <1>4, <3>1, SharedPrefix
    <3>3. l \in 1 .. p
      BY <1>0, <1>2, <1>a, <1>4, <2>2
    <3> QED BY <3>2, <3>3
  <2> QED BY <1>1, <1>3, <2>1, <2>2 DEF SplitTo
<1>7. PICK j \in 1 .. Len(t) : IsBeside(t[j], LocalId, l)
  BY <1>3, <1>6 DEF SplitTo
<1> QED BY <1>5, <1>6, <1>7 DEF IsBeside

\* The invariant says what TableWellFormed does.
LEMMA TableIsWellFormed ==
    ASSUME NEW t \in Table
    PROVE  TableWellFormed(t)
<1>1. DOMAIN t = 1 .. Len(t) /\ Chain(t) /\ \A j \in 1 .. Len(t) : BucketOK(t[j])
  BY TableIs
<1>2. \A j \in 1 .. Len(t) : Filled(t[j])
  BY <1>1 DEF BucketOK
<1>3. ASSUME NEW k \in 1 .. Len(t), NEW l \in 1 .. t[k].len - 1
      PROVE  \E j \in DOMAIN t : IsBeside(t[j], t[k].min, l)
  <2>1. t[k].min \in Nat /\ isInRange(t[k], t[k].min)
    BY <1>1, BucketIs DEF isInRange, SamePrefix
  <2> QED BY <1>1, <2>1, BesidesAre
<1> QED BY <1>1, <1>2, <1>3 DEF TableWellFormed, Chain, Filled, Members

(***************************************************************************)
(* The nodes close to an ID.                                               *)
(***************************************************************************)
\* The buckets that are searched are buckets of the table.
LEMMA SearchOrderIs ==
    ASSUME NEW t \in Table, NEW key \in Id
    PROVE  SearchOrder(t, key) \in Seq(Bucket)
<1>0. t \in Seq(Bucket) /\ DOMAIN t = 1 .. Len(t) /\ key \in Nat
  BY TableIs DEF Id
<1>1. PICK k \in 1 .. Len(t) : k = BucketAt(t, key) /\ isInRange(t[k], key)
  BY BucketFound
<1>2. PICK b : b = t[k] /\ b = findBucketFor(t, key)
  BY <1>1 DEF findBucketFor
<1>3. PICK n \in 0 .. IdBits : n = b.len
  BY <1>1, <1>2, TableIs, BucketIs
<1>4. PICK near : near = Keep(t, {c \in ToSet(t) : SamePrefix(c.min, key, b.len - 1)})
  OBVIOUS
<1>5. near \in Seq(Bucket) /\ Reverse(near) \in Seq(Bucket)
  <2>1. near \in Seq(Bucket)
    BY <1>0, <1>4, KeepIs
  <2>2. Len(near) \in Nat /\ \A i \in 1 .. Len(near) : near[i] \in Bucket
    BY <2>1, SeqIs
  <2>3. \A i \in 1 .. Len(near) : (Len(near) - i) + 1 \in 1 .. Len(near)
    BY <2>2
  <2> QED BY <2>1, <2>2, <2>3 DEF Reverse
<1>6. PICK far : far = [i \in 1 .. n - 1 |-> Beside(t, key, n - i)]
  OBVIOUS
<1>7. far \in Seq(Bucket)
  <2>1. ASSUME NEW i \in 1 .. n - 1 PROVE Beside(t, key, n - i) \in Bucket
    <3>1. PICK l \in 1 .. n - 1 : l = n - i
      BY RoutingTableAssumption
    <3>2. \E j \in DOMAIN t : IsBeside(t[j], key, l)
      BY <1>0, <1>1, <1>2, <1>3, BesidesAre
    <3>3. (CHOOSE j \in DOMAIN t : IsBeside(t[j], key, l)) \in DOMAIN t
      BY <3>2
    <3>4. \A j \in DOMAIN t : t[j] \in Bucket
      BY <1>0, SeqIs
    <3> QED BY <3>1, <3>3, <3>4 DEF Beside
  <2>2. CASE n = 0
    <3>1. 1 .. n - 1 = {}
      BY <2>2
    <3>2. far = <<>>
      BY <1>6, <3>1
    <3> QED BY <3>2
  <2>3. CASE n # 0
    <3>1. n - 1 \in Nat
      BY <2>3, RoutingTableAssumption
    <3> QED BY <1>6, <2>1, <3>1
  <2> QED BY <2>2, <2>3
<1>8. SearchOrder(t, key) = IF n = 0 THEN t ELSE (IF Head(near) = b THEN near ELSE Reverse(near)) \o far
  BY <1>2, <1>3, <1>4, <1>6 DEF SearchOrder
<1>9. near \o far \in Seq(Bucket) /\ Reverse(near) \o far \in Seq(Bucket)
  BY <1>5, <1>7, ConcatIs
<1> QED BY <1>0, <1>8, <1>9

\* What findClosestKNodes collects.
LEMMA ClosestIs ==
    ASSUME NEW t \in Table, NEW dead, NEW key \in Id
    PROVE  getClosestKNodes(t, dead, key) \in Seq(Id)
<1>1. PICK order \in Seq(Bucket) : order = SearchOrder(t, key)
  BY SearchOrderIs
<1>2. Len(order) \in Nat /\ \A i \in 1 .. Len(order) : order[i] \in Bucket
  BY SeqIs
<1> DEFINE N == Len(order)
           Collect(x, i) == IF Len(x) >= K THEN x ELSE x \o Keep(order[i].nodes, Id \ dead)
           G(f) == f = [i \in 0 .. N |->
                         IF i = 0 THEN <<>>
                         ELSE IF Len(f[i - 1]) >= K THEN f[i - 1]
                         ELSE f[i - 1] \o Keep(order[i].nodes, Id \ dead)]
           F == CHOOSE f : G(f)
           g == [i \in 1 .. N |-> [x \in Seq(Id) |-> Collect(x, i)]]
<1>3. getClosestKNodes(t, dead, key) = SubSeq(F[N], 1, Min({K, Len(F[N])}))
  BY <1>1 DEF getClosestKNodes
<1>4. ASSUME NEW i \in 1 .. N, NEW x \in Seq(Id) PROVE Collect(x, i) \in Seq(Id)
  <2>1. order[i].nodes \in Seq(Id)
    BY <1>2 DEF Bucket
  <2>2. PICK y \in Seq(Id) : y = Keep(order[i].nodes, Id \ dead)
    BY <2>1, KeepIs
  <2>3. x \o y \in Seq(Id)
    BY ConcatIs
  <2> QED BY <2>2, <2>3
<1>5. LoopStep(g, N, Seq(Id))
  <2> HIDE DEF Collect
  <2> QED BY <1>4 DEF LoopStep
<1>6. \A i \in 1 .. N : \A x \in Seq(Id) : g[i][x] = Collect(x, i)
  <2> HIDE DEF Collect
  <2> QED OBVIOUS
<1> HIDE DEF g
<1>a. PICK e : e = <<>>
  OBVIOUS
<1>7. e \in Seq(Id)
  BY <1>a
<1>8. PICK f : LoopRun(f, N, Seq(Id), e, g)
  BY <1>2, <1>5, <1>7, LoopRuns
<1>9. f \in [0 .. N -> Seq(Id)] /\ f[0] = e /\ \A i \in 1 .. N : f[i] = g[i][f[i - 1]]
  BY <1>8 DEF LoopRun
<1>10. G(f)
  <2>1. ASSUME NEW i \in 0 .. N
        PROVE  f[i] = IF i = 0 THEN <<>>
                      ELSE IF Len(f[i - 1]) >= K THEN f[i - 1]
                      ELSE f[i - 1] \o Keep(order[i].nodes, Id \ dead)
    <3>1. i # 0 => i \in 1 .. N /\ i - 1 \in 0 .. N
      BY <1>2
    <3>2. i # 0 => f[i] = Collect(f[i - 1], i)
      BY <1>6, <1>9, <3>1
    <3> QED BY <1>a, <1>9, <3>2
  <2> QED BY <1>9, <2>1
<1>11. G(F)
  <2> HIDE DEF G
  <2> QED BY <1>10
<1>12. \A i \in 0 .. N : F[i] = IF i = 0 THEN <<>> ELSE Collect(F[i - 1], i)
  BY <1>11, Zenon
<1> HIDE DEF F, G, Collect
<1> DEFINE S == {i \in 0 .. N : F[i] \in Seq(Id)}
<1>13. 0 \in S
  <2>1. 0 \in 0 .. N /\ F[0] = e
    BY <1>2, <1>a, <1>12
  <2> QED BY <1>7, <2>1
<1>14. ASSUME NEW i \in 1 .. N, i - 1 \in S PROVE i \in S
  <2>1. i \in 0 .. N /\ F[i - 1] \in Seq(Id) /\ F[i] = Collect(F[i - 1], i)
    BY <1>2, <1>12, <1>14
  <2> QED BY <1>4, <2>1
<1> HIDE DEF S
<1>15. \A i \in 0 .. N : i \in S
  BY <1>2, <1>13, <1>14, RoundByRound
<1>16. PICK all \in Seq(Id) : all = F[N]
  BY <1>2, <1>15 DEF S
<1>17. Len(all) \in Nat /\ \A i \in 1 .. Len(all) : all[i] \in Id
  BY SeqIs
<1>18. PICK m \in 0 .. Len(all) : m = Min({K, Len(all)})
  BY <1>17, MinOfTwo, RoutingTableAssumption
<1>19. SubSeq(all, 1, m) \in Seq(Id)
  BY <1>17
<1> QED BY <1>3, <1>16, <1>18, <1>19

(***************************************************************************)
(* The steps.                                                              *)
(***************************************************************************)
\* The inductive invariant: every bucket has the range of a prefix, besides
\* what TableWellFormed says.
Inv == table \in Table /\ bad \in SUBSET Id /\ setup \in Setups

\* The action of NodesKept.
NoneLost ==
    \A n \in TableNodes(table) \ TableNodes(table') :
        \/ n \in bad \cup bad'
        \/ \E e \in BagToSet(tracked) : e.to = n /\ tracked' = Multiset!BagRemove(tracked, e)

Good == Inv' /\ (AssertsOn => NoneLost)

\* The IDs of nodes.
LEMMA NodesHaveIds ==
    /\ Node \subseteq Id
    /\ \A s \in Setups : s.nodes \subseteq Node /\ s.ask \subseteq Node /\ s.known \in Seq(Id)
<1>1. Node \subseteq Id
  BY DHTAssumption
<1>2. ASSUME NEW s \in Setups PROVE s.nodes \subseteq Node /\ s.ask \subseteq Node /\ s.known \in Seq(Id)
  <2>1. s.nodes \subseteq Node /\ s.ask \subseteq Node /\ s.known \in Seq(Node)
    BY DHTAssumption
  <2> QED BY <1>1, <2>1
<1> QED BY <1>1, <1>2

LEMMA InitInv == Init => Inv
<1> SUFFICES ASSUME Init PROVE Inv
  OBVIOUS
<1>1. PICK s : s = [table |-> InitTable, bad |-> {}]
  OBVIOUS
<1>2. s \in State
  BY <1>1, InitTableIs DEF State
<1>3. setup \in Setups /\ setup.known \in Seq(Id)
  BY NodesHaveIds DEF Init
<1>4. Grown(s, addNodes(s, setup.known))
  BY <1>2, <1>3, AddNodesIs
<1>5. addNodes(s, setup.known).table \in Table
  BY <1>4 DEF Grown, State
<1> QED BY <1>1, <1>3, <1>5 DEF Init, Inv

\* An answer: the table loses bad nodes, and the node that was asked.
LEMMA ReplyGood ==
    ASSUME Inv, NEW e \in BagToSet(tracked), NEW n \in Node, NEW told \in Seq(Id),
           Reply(e, n, told)
    PROVE  Good
<1>0. /\ table \in Table /\ bad \in SUBSET Id /\ setup \in Setups /\ n \in Id
      /\ setup' = setup /\ tracked' = Multiset!BagRemove(tracked, e)
  BY NodesHaveIds DEF Inv, Reply
<1>1. PICK t : t = IF e.to \in Node \ {n} THEN DropFromTable(table, e.to) ELSE table
  OBVIOUS
<1>2. PICK s : s = [table |-> t, bad |-> bad]
  OBVIOUS
<1>3. PICK r : r = doReceivedAction(s, e.task, told)
  OBVIOUS
<1>4. bad' = r.bad \ {n} /\ table' = addGoodNode(r.table, bad', n)
  BY <1>1, <1>2, <1>3 DEF Reply
<1>5. t \in Table /\ Keeps(table, t, {e.to})
  <2>1. CASE e.to \in Node \ {n}
    <3>1. t = DropFromTable(table, e.to) /\ e.to \in Id
      BY <1>1, <2>1, NodesHaveIds
    <3> QED BY <1>0, <3>1, DropTable
  <2>2. CASE ~(e.to \in Node \ {n})
    BY <1>0, <1>1, <2>2 DEF Keeps
  <2> QED BY <2>1, <2>2
<1>6. s \in State /\ s.table = t /\ s.bad = bad
  BY <1>0, <1>2, <1>5 DEF State
<1>7. Grown(s, r)
  <2>1. Grown(s, addNodes(s, told))
    BY <1>6, AddNodesIs
  <2>2. Grown(s, s)
    BY <1>6 DEF Grown, Keeps
  <2> QED BY <1>3, <2>1, <2>2 DEF doReceivedAction
<1>8. r.table \in Table /\ r.bad \in SUBSET Id /\ r.bad \subseteq bad /\ (AssertsOn => Keeps(t, r.table, bad))
  BY <1>6, <1>7 DEF Grown, State
<1>9. table' \in Table /\ (AssertsOn => Keeps(r.table, table', bad'))
  <2>1. table' = addNode(r.table, bad', n, TRUE)
    BY <1>4 DEF addGoodNode
  <2> QED BY <1>0, <1>8, <2>1, AddIs
<1>10. AssertsOn => NoneLost
  BY <1>0, <1>5, <1>8, <1>9 DEF Keeps, NoneLost
<1>11. bad' \in SUBSET Id
  BY <1>4, <1>8
<1> QED BY <1>0, <1>9, <1>10, <1>11 DEF Good, Inv

\* A query.
LEMMA AskedGood ==
    ASSUME Inv, NEW n \in Node, Asked(n)
    PROVE  Good
<1>0. /\ table \in Table /\ bad \in SUBSET Id /\ setup \in Setups /\ n \in Id
      /\ setup' = setup /\ bad' = bad \ {n} /\ table' = addNode(table, bad', n, TRUE)
  BY NodesHaveIds DEF Inv, Asked, addGoodNode
<1>1. table' \in Table /\ (AssertsOn => Keeps(table, table', bad'))
  BY <1>0, AddIs
<1> QED BY <1>0, <1>1 DEF Good, Inv, Keeps, NoneLost

\* No answer.
LEMMA TimeoutGood ==
    ASSUME Inv, NEW e \in BagToSet(tracked), HandleTimeout(e)
    PROVE  Good
<1>0. /\ table \in Table /\ bad \in SUBSET Id /\ setup \in Setups
      /\ setup' = setup /\ tracked' = Multiset!BagRemove(tracked, e)
  BY DEF Inv, HandleTimeout
<1>1. CASE UNCHANGED <<table, bad>>
  BY <1>0, <1>1 DEF Good, Inv, NoneLost
<1>2. CASE /\ e.to \in Node
           /\ bad' = bad \cup {e.to}
           /\ table' = DropFromTable(table, e.to)
  <2>1. e.to \in Id
    BY <1>2, NodesHaveIds
  <2>2. table' \in Table /\ Keeps(table, table', {e.to})
    BY <1>0, <1>2, <2>1, DropTable
  <2>3. bad' \in SUBSET Id
    BY <1>0, <1>2, <2>1
  <2> QED BY <1>0, <2>2, <2>3 DEF Good, Inv, Keeps, NoneLost
<1> QED BY <1>1, <1>2 DEF HandleTimeout

\* The nodes an answer tells of.
LEMMA ToldIs ==
    ASSUME NEW S \in SUBSET Id, NEW told \in BoundedSeq(S, MaxTold)
    PROVE  told \in Seq(Id)
<1>1. PICK m \in 0 .. MaxTold : told \in [1 .. m -> S]
  BY DEF BoundedSeq, SeqOf
<1> QED BY <1>1

\* Every step.
LEMMA NextGood ==
    ASSUME Inv, [Next]_vars
    PROVE  Good
<1>0. CASE UNCHANGED <<setup, table, bad>>
  BY <1>0 DEF Good, Inv, NoneLost
<1>1. CASE UNCHANGED vars
  BY <1>0, <1>1
<1>2. CASE AddsTask
  BY <1>0, <1>2 DEF AddsTask, PortMessage, RefreshBucket, GetPeers, GotPeers
<1>3. CASE ExecuteTasks
  BY <1>0, <1>3 DEF ExecuteTasks
<1>4. CASE Receives
  <2>1. CASE \E t \in Task \cup {NoTask} : Answered(t)
    <3>1. PICK e \in BagToSet(tracked), n \in setup.nodes :
             \E told \in BoundedSeq(setup.nodes \ {n}, MaxTold) : Reply(e, n, told)
      BY <2>1 DEF Answered
    <3>2. PICK told \in BoundedSeq(setup.nodes \ {n}, MaxTold) : Reply(e, n, told)
      BY <3>1
    <3>3. n \in Node /\ setup.nodes \ {n} \subseteq Id
      BY NodesHaveIds DEF Inv
    <3>4. told \in Seq(Id)
      BY <3>3, ToldIs
    <3> QED BY <3>2, <3>3, <3>4, ReplyGood
  <2>2. CASE \E e \in BagToSet(tracked) : BadReply(e)
    BY <2>2, TimeoutGood DEF BadReply
  <2>3. CASE \E n \in setup.ask : Asked(n)
    <3>1. setup.ask \subseteq Node
      BY NodesHaveIds DEF Inv
    <3> QED BY <2>3, <3>1, AskedGood
  <2> QED BY <1>4, <2>1, <2>2, <2>3 DEF Receives
<1>5. CASE EndReceive \/ EndTimeout
  BY <1>0, <1>5 DEF EndReceive, EndTimeout
<1>6. CASE \E t \in Task \cup {NoTask} : TimesOut(t)
  BY <1>6, TimeoutGood DEF TimesOut, TimeOut
<1>7. CASE Sends
  BY <1>0, <1>7 DEF Sends, sendMessages
<1> QED BY <1>1, <1>2, <1>3, <1>4, <1>5, <1>6, <1>7 DEF Next

\* The routing table (DHTRoutingTable.cc, DHTBucket.cc) is well formed after
\* every message: the buckets divide the IDs among them, each holds at most K
\* nodes, all of its range, nodes wait only where no split is possible, and
\* collectUpward finds a bucket beside each range around a bucket.
THEOREM TableCorrect == Spec => []TableOK
<1>1. Inv => TableOK
  BY TableIsWellFormed DEF Inv, TableOK
<1>2. Inv /\ [Next]_vars => Inv'
  BY NextGood DEF Good
<1> QED BY <1>1, <1>2, InitInv, PTL DEF Spec

\* Where assert() is evaluated, a node leaves the table only when it is bad
\* or a query to it has been answered under another ID or given up
\* (DHTBucket::addNode, dropNode, split).
THEOREM NodesStay == AssertsOn /\ Spec => NodesKept
<1>1. Inv /\ [Next]_vars => Inv'
  BY NextGood DEF Good
<1>2. AssertsOn /\ Inv /\ [Next]_vars => [NoneLost]_vars
  BY NextGood DEF Good
<1>3. AssertsOn => AssertsOn'
  OBVIOUS
<1>4. NodesKept <=> [][NoneLost]_vars
  BY DEF NodesKept, NoneLost
<1> QED BY <1>1, <1>2, <1>3, <1>4, InitInv, PTL DEF Spec

(***************************************************************************)
(* Messages: how many of a task are queued and tracked.                    *)
(***************************************************************************)
Place == Id \cup {TargetOf[t] : t \in Task}
Message == [to : Place, task : Task \cup {NoTask}, reply : BOOLEAN]
Sent == [to : Place, task : Task \cup {NoTask}, failed : BOOLEAN]

\* Queued messages; no task waits for what answers a query.
OutQueue == {q \in Seq(Message) : \A i \in 1 .. Len(q) : q[i].reply => q[i].task = NoTask}

\* Tracked messages.
Bag == UNION {[S -> Nat \ {0}] : S \in SUBSET Sent}
Tracker == {b \in Bag : \A t \in Task : IsFiniteSet(TrackedOf(b, t))}

\* Queue r is q with n more messages of t.
Adds(q, r, t, n) ==
    /\ r \in OutQueue
    /\ \A u \in Task :
        Cardinality(QueuedOf(r, u)) = Cardinality(QueuedOf(q, u)) + IF u = t THEN n ELSE 0

LEMMA QueuedIs ==
    ASSUME NEW q \in Seq(Message), NEW t
    PROVE  /\ QueuedOf(q, t) = {i \in 1 .. Len(q) : q[i].task = t}
           /\ IsFiniteSet(QueuedOf(q, t)) /\ Cardinality(QueuedOf(q, t)) \in Nat
<1>1. Len(q) \in Nat /\ DOMAIN q = 1 .. Len(q)
  BY SeqIs
<1>2. QueuedOf(q, t) = {i \in 1 .. Len(q) : q[i].task = t}
  BY <1>1 DEF QueuedOf
<1>3. IsFiniteSet(1 .. Len(q))
  BY <1>1, FS_Interval
<1>4. QueuedOf(q, t) \in SUBSET (1 .. Len(q))
  BY <1>2
<1>5. IsFiniteSet(QueuedOf(q, t))
  BY <1>3, <1>4, FS_Subset
<1> QED BY <1>2, <1>5, FS_CardinalityType

LEMMA QueueGrows ==
    ASSUME NEW q \in OutQueue, NEW d \in Seq(Message), NEW t \in Task \cup {NoTask},
           \A i \in 1 .. Len(d) : d[i].task = t /\ (d[i].reply => t = NoTask)
    PROVE  Adds(q, q \o d, t, Len(d))
<1>0. /\ q \in Seq(Message) /\ Len(q) \in Nat /\ Len(d) \in Nat
      /\ \A i \in 1 .. Len(q) : q[i].reply => q[i].task = NoTask
  BY SeqIs DEF OutQueue
<1>1. PICK r : r = q \o d
  OBVIOUS
<1>2. /\ r \in Seq(Message) /\ Len(r) = Len(q) + Len(d)
      /\ \A i \in 1 .. Len(q) : r[i] = q[i]
      /\ \A i \in Len(q) + 1 .. Len(r) : r[i] = d[i - Len(q)] /\ i - Len(q) \in 1 .. Len(d)
  BY <1>0, <1>1
<1>3. \A i \in 1 .. Len(r) : i \in 1 .. Len(q) \/ i \in Len(q) + 1 .. Len(r)
  BY <1>0, <1>2
<1>4. \A i \in Len(q) + 1 .. Len(r) : r[i].task = t /\ (r[i].reply => t = NoTask)
  BY <1>2
<1>5. r \in OutQueue
  BY <1>0, <1>2, <1>3, <1>4 DEF OutQueue
<1>6. ASSUME NEW u \in Task
      PROVE  Cardinality(QueuedOf(r, u)) = Cardinality(QueuedOf(q, u)) + IF u = t THEN Len(d) ELSE 0
  <2>1. PICK A, B, C : A = QueuedOf(q, u) /\ B = QueuedOf(r, u) /\ C = Len(q) + 1 .. Len(q) + Len(d)
    OBVIOUS
  <2>2. /\ A = {i \in 1 .. Len(q) : q[i].task = u} /\ B = {i \in 1 .. Len(r) : r[i].task = u}
        /\ IsFiniteSet(A) /\ IsFiniteSet(B) /\ Cardinality(A) \in Nat
    BY <1>0, <1>2, <2>1, QueuedIs
  <2>3. CASE u # t
    <3>1. A = B
      <4>1. \A i : i \in A => i \in B
        BY <1>0, <1>2, <2>2
      <4>2. \A i : i \in B => i \in A
        BY <1>0, <1>2, <1>3, <1>4, <2>2, <2>3
      <4> QED BY <4>1, <4>2, <2>2
    <3>2. Cardinality(A) + 0 = Cardinality(A)
      BY <2>2
    <3> QED BY <2>1, <2>3, <3>1, <3>2
  <2>4. CASE u = t
    <3>1. \A i : i \in B <=> i \in A \/ i \in C
      <4>1. \A i : i \in A => i \in B
        BY <1>0, <1>2, <2>2
      <4>2. \A i : i \in C => i \in B
        BY <1>0, <1>2, <1>4, <2>1, <2>2, <2>4
      <4>3. \A i : i \in B => i \in A \/ i \in C
        BY <1>0, <1>2, <1>3, <2>1, <2>2
      <4> QED BY <4>1, <4>2, <4>3
    <3>2. B = A \cup C /\ A \cap C = {}
      <4>1. A \cap C = {}
        BY <1>0, <2>1, <2>2
      <4> QED BY <3>1, <4>1
    <3>3. IsFiniteSet(C) /\ Cardinality(C) = Len(d)
      <4>1. Len(q) + 1 \in Int /\ Len(q) + Len(d) \in Int
        BY <1>0
      <4>2. IsFiniteSet(C) /\ Cardinality(C) = IF Len(q) + 1 > Len(q) + Len(d) THEN 0 ELSE (Len(q) + Len(d)) - (Len(q) + 1) + 1
        BY <2>1, <4>1, FS_Interval
      <4> QED BY <1>0, <4>2
    <3>4. Cardinality(A \cup C) = Cardinality(A) + Cardinality(C) - Cardinality(A \cap C)
      BY <2>2, <3>3, FS_Union
    <3>5. Cardinality(B) = Cardinality(A) + Len(d)
      <4>1. Cardinality(A \cap C) = 0
        BY <3>2, FS_EmptySet
      <4>2. PICK x, y : x = Cardinality(A \cap C) /\ y = Cardinality(A)
        OBVIOUS
      <4>3. Cardinality(B) = y + Len(d) - x /\ x = 0 /\ y \in Nat
        BY <2>2, <3>2, <3>3, <3>4, <4>1, <4>2
      <4> QED BY <1>0, <4>2, <4>3
    <3> QED BY <2>1, <2>4, <3>5
  <2> QED BY <2>3, <2>4
<1> QED BY <1>1, <1>5, <1>6 DEF Adds

\* The members of a bag and their copies.
LEMMA TrackedIs ==
    ASSUME NEW b \in Bag, NEW t
    PROVE  /\ DOMAIN b \subseteq Sent /\ b \in [DOMAIN b -> Nat \ {0}] /\ BagToSet(b) = DOMAIN b
           /\ \A e, k : <<e, k>> \in TrackedOf(b, t) <=> e \in DOMAIN b /\ e.task = t /\ k \in 1 .. b[e]
           /\ \A p \in TrackedOf(b, t) : \E e, k : p = <<e, k>>
<1>1. PICK S \in SUBSET Sent : b \in [S -> Nat \ {0}]
  BY DEF Bag
<1>2. DOMAIN b = S
  BY <1>1
<1>3. BagToSet(b) = DOMAIN b
  BY DEF BagToSet
<1>4. \A p : p \in TrackedOf(b, t) <=> \E e \in DOMAIN b : e.task = t /\ p \in {e} \X (1 .. b[e])
  BY <1>3 DEF TrackedOf
<1> QED BY <1>1, <1>2, <1>3, <1>4

\* A message more is tracked.
LEMMA BagGrows ==
    ASSUME NEW b \in Tracker, NEW e \in Sent, NEW c, c = Multiset!BagAdd(b, e)
    PROVE  /\ c \in Tracker
           /\ \A t \in Task : Cardinality(TrackedOf(c, t))
                                = Cardinality(TrackedOf(b, t)) + IF e.task = t THEN 1 ELSE 0
<1>0. /\ b \in Bag /\ DOMAIN b \subseteq Sent /\ b \in [DOMAIN b -> Nat \ {0}]
  BY TrackedIs DEF Tracker
<1>1. PICK n \in Nat \ {0} : n = IF e \in DOMAIN b THEN b[e] + 1 ELSE 1
  BY <1>0
<1>2. /\ DOMAIN c = DOMAIN b \cup {e} /\ c[e] = n /\ \A x \in DOMAIN b : x # e => c[x] = b[x]
      /\ c = [x \in DOMAIN b \cup {e} |-> c[x]]
  <2>1. CASE e \in DOMAIN b
    <3>1. c = [x \in DOMAIN b |-> IF x = e THEN b[x] + 1 ELSE b[x]]
      BY <2>1 DEF Multiset!BagAdd
    <3>2. DOMAIN b = DOMAIN b \cup {e}
      BY <2>1
    <3> QED BY <1>1, <2>1, <3>1, <3>2
  <2>2. CASE e \notin DOMAIN b
    <3>1. c = [x \in DOMAIN b \cup {e} |-> IF x = e THEN 1 ELSE b[x]]
      BY <2>2 DEF Multiset!BagAdd
    <3> QED BY <1>1, <2>2, <3>1
  <2> QED BY <2>1, <2>2
<1>3. c \in Bag
  <2>1. PICK S \in SUBSET Sent : S = DOMAIN b \cup {e}
    BY <1>0
  <2>2. \A x \in S : c[x] \in Nat \ {0}
    BY <1>0, <1>1, <1>2, <2>1
  <2>3. c \in [S -> Nat \ {0}]
    BY <1>2, <2>1, <2>2
  <2> QED BY <2>3 DEF Bag
<1>4. ASSUME NEW t \in Task
      PROVE  /\ IsFiniteSet(TrackedOf(c, t))
             /\ Cardinality(TrackedOf(c, t)) = Cardinality(TrackedOf(b, t)) + IF e.task = t THEN 1 ELSE 0
  <2>1. PICK A, B, p : A = TrackedOf(b, t) /\ B = TrackedOf(c, t) /\ p = <<e, n>>
    OBVIOUS
  <2>2. /\ \A x, k : <<x, k>> \in A <=> x \in DOMAIN b /\ x.task = t /\ k \in 1 .. b[x]
        /\ \A y \in A : \E x, k : y = <<x, k>>
        /\ \A x, k : <<x, k>> \in B <=> x \in DOMAIN c /\ x.task = t /\ k \in 1 .. c[x]
        /\ \A y \in B : \E x, k : y = <<x, k>>
    BY <1>0, <1>3, <2>1, TrackedIs
  <2>3. IsFiniteSet(A)
    BY <2>1 DEF Tracker
  <2>4. p \notin A
    BY <1>0, <1>1, <2>1, <2>2
  <2>5. ASSUME NEW x, NEW k PROVE <<x, k>> \in B <=> <<x, k>> \in A \/ (e.task = t /\ <<x, k>> = p)
    <3>1. CASE x # e
      <4>1. <<x, k>> # p
        BY <2>1, <3>1
      <4> QED BY <1>2, <2>2, <3>1, <4>1
    <3>2. CASE x = e
      <4>1. <<x, k>> \in B <=> e.task = t /\ k \in 1 .. n
        BY <1>2, <2>2, <3>2
      <4>2. <<x, k>> \in A <=> e \in DOMAIN b /\ e.task = t /\ k \in 1 .. b[e]
        BY <2>2, <3>2
      <4>3. <<x, k>> = p <=> k = n
        BY <2>1, <3>2
      <4>4. k \in 1 .. n <=> (e \in DOMAIN b /\ k \in 1 .. b[e]) \/ k = n
        BY <1>0, <1>1
      <4> QED BY <4>1, <4>2, <4>3, <4>4
    <3> QED BY <3>1, <3>2
  <2>6. \A y : y \in B <=> y \in A \/ (e.task = t /\ y = p)
    BY <2>1, <2>2, <2>5
  <2>7. B = IF e.task = t THEN A \cup {p} ELSE A
    BY <2>6
  <2>8. IsFiniteSet(A \cup {p}) /\ Cardinality(A \cup {p}) = Cardinality(A) + 1
    BY <2>3, <2>4, FS_AddElement
  <2>9. Cardinality(A) \in Nat
    BY <2>3, FS_CardinalityType
  <2> QED BY <2>1, <2>3, <2>7, <2>8, <2>9
<1> QED BY <1>3, <1>4 DEF Tracker

\* A message is no longer tracked.
LEMMA BagShrinks ==
    ASSUME NEW b \in Tracker, NEW e \in DOMAIN b, NEW c, c = Multiset!BagRemove(b, e)
    PROVE  /\ c \in Tracker
           /\ \A t \in Task :
                /\ Cardinality(TrackedOf(b, t)) \in Nat
                /\ Cardinality(TrackedOf(b, t)) = Cardinality(TrackedOf(c, t)) + IF e.task = t THEN 1 ELSE 0
<1>0. /\ b \in Bag /\ DOMAIN b \subseteq Sent /\ b \in [DOMAIN b -> Nat \ {0}]
  BY TrackedIs DEF Tracker
<1>1. PICK n \in Nat \ {0} : n = b[e]
  BY <1>0
<1>2. /\ DOMAIN c \subseteq DOMAIN b /\ c = [x \in DOMAIN c |-> c[x]]
      /\ \A x \in DOMAIN b : x # e => x \in DOMAIN c /\ c[x] = b[x]
      /\ n = 1 => e \notin DOMAIN c
      /\ n # 1 => e \in DOMAIN c /\ c[e] = n - 1
  <2>1. CASE n = 1
    <3>1. c = [x \in DOMAIN b \ {e} |-> b[x]]
      BY <1>1, <2>1 DEF Multiset!BagRemove
    <3> QED BY <2>1, <3>1
  <2>2. CASE n # 1
    <3>1. c = [x \in DOMAIN b |-> IF x = e THEN b[x] - 1 ELSE b[x]]
      BY <1>1, <2>2 DEF Multiset!BagRemove
    <3> QED BY <1>1, <2>2, <3>1
  <2> QED BY <2>1, <2>2
<1>3. c \in Bag
  <2>1. PICK S \in SUBSET Sent : S = DOMAIN c
    BY <1>0, <1>2
  <2>2. \A x \in S : c[x] \in Nat \ {0}
    BY <1>0, <1>1, <1>2, <2>1
  <2>3. c \in [S -> Nat \ {0}]
    BY <1>2, <2>1, <2>2
  <2> QED BY <2>3 DEF Bag
<1>4. ASSUME NEW t \in Task
      PROVE  /\ IsFiniteSet(TrackedOf(c, t)) /\ Cardinality(TrackedOf(b, t)) \in Nat
             /\ Cardinality(TrackedOf(b, t)) = Cardinality(TrackedOf(c, t)) + IF e.task = t THEN 1 ELSE 0
  <2>1. PICK A, B, p : A = TrackedOf(b, t) /\ B = TrackedOf(c, t) /\ p = <<e, n>>
    OBVIOUS
  <2>2. /\ \A x, k : <<x, k>> \in A <=> x \in DOMAIN b /\ x.task = t /\ k \in 1 .. b[x]
        /\ \A y \in A : \E x, k : y = <<x, k>>
        /\ \A x, k : <<x, k>> \in B <=> x \in DOMAIN c /\ x.task = t /\ k \in 1 .. c[x]
        /\ \A y \in B : \E x, k : y = <<x, k>>
    BY <1>0, <1>3, <2>1, TrackedIs
  <2>3. IsFiniteSet(A) /\ Cardinality(A) \in Nat
    BY <2>1, FS_CardinalityType DEF Tracker
  <2>4. e.task = t <=> p \in A
    BY <1>0, <1>1, <2>1, <2>2
  <2>5. ASSUME NEW x, NEW k PROVE <<x, k>> \in B <=> <<x, k>> \in A /\ <<x, k>> # p
    <3>1. CASE x # e
      <4>1. <<x, k>> # p
        BY <2>1, <3>1
      <4>2. x \in DOMAIN c <=> x \in DOMAIN b
        BY <1>2, <3>1
      <4> QED BY <1>2, <2>2, <3>1, <4>1, <4>2
    <3>2. CASE x = e
      <4>1. <<x, k>> \in B <=> e \in DOMAIN c /\ e.task = t /\ k \in 1 .. c[e]
        BY <2>2, <3>2
      <4>2. <<x, k>> \in A <=> e.task = t /\ k \in 1 .. n
        BY <1>1, <2>2, <3>2
      <4>3. <<x, k>> = p <=> k = n
        BY <2>1, <3>2
      <4>4. (e \in DOMAIN c /\ k \in 1 .. c[e]) <=> k \in 1 .. n /\ k # n
        BY <1>1, <1>2
      <4> QED BY <4>1, <4>2, <4>3, <4>4
    <3> QED BY <3>1, <3>2
  <2>6. \A y : y \in B <=> y \in A /\ y # p
    BY <2>1, <2>2, <2>5
  <2>7. B = A \ {p}
    BY <2>6
  <2>8. IsFiniteSet(B) /\ Cardinality(B) = IF p \in A THEN Cardinality(A) - 1 ELSE Cardinality(A)
    BY <2>3, <2>7, FS_RemoveElement
  <2> QED BY <2>1, <2>3, <2>4, <2>8
<1> QED BY <1>3, <1>4 DEF Tracker

\* The messages of task t among the first i.
First(i, t) == {j \in 1 .. i : outq[j].task = t}

LEMMA FirstIs ==
    ASSUME NEW t
    PROVE  /\ First(0, t) = {}
           /\ \A i \in Nat : IsFiniteSet(First(i, t)) /\ Cardinality(First(i, t)) \in Nat
           /\ \A i \in Nat \ {0} : Cardinality(First(i, t))
                = Cardinality(First(i - 1, t)) + IF outq[i].task = t THEN 1 ELSE 0
<1>1. First(0, t) = {}
  <2>1. 1 .. 0 = {}
    OBVIOUS
  <2> QED BY <2>1 DEF First
<1>2. ASSUME NEW i \in Nat PROVE IsFiniteSet(First(i, t)) /\ Cardinality(First(i, t)) \in Nat
  <2>1. IsFiniteSet(1 .. i)
    BY FS_Interval
  <2>2. First(i, t) \in SUBSET (1 .. i)
    BY DEF First
  <2>3. IsFiniteSet(First(i, t))
    BY <2>1, <2>2, FS_Subset
  <2> QED BY <2>3, FS_CardinalityType
<1>3. ASSUME NEW i \in Nat \ {0}
      PROVE  Cardinality(First(i, t)) = Cardinality(First(i - 1, t)) + IF outq[i].task = t THEN 1 ELSE 0
  <2>1. PICK A, B : A = First(i - 1, t) /\ B = First(i, t)
    OBVIOUS
  <2>2. i - 1 \in Nat /\ \A j : j \in 1 .. i <=> j \in 1 .. i - 1 \/ j = i
    OBVIOUS
  <2>3. i \notin A /\ IsFiniteSet(A) /\ Cardinality(A) \in Nat
    <3>1. i \notin A
      BY <2>1 DEF First
    <3> QED BY <1>2, <2>1, <2>2, <3>1
  <2>4. \A j : j \in B <=> j \in A \/ (outq[i].task = t /\ j = i)
    BY <2>1, <2>2 DEF First
  <2>5. CASE outq[i].task = t
    <3>1. B = A \cup {i}
      BY <2>4, <2>5
    <3>2. Cardinality(B) = Cardinality(A) + 1
      BY <2>3, <3>1, FS_AddElement
    <3> QED BY <2>1, <2>5, <3>2
  <2>6. CASE outq[i].task # t
    <3>1. B = A
      BY <2>4, <2>6
    <3> QED BY <2>1, <2>3, <2>6, <3>1
  <2> QED BY <2>5, <2>6
<1> QED BY <1>1, <1>2, <1>3

TrackOne(b, i, failing) ==
    IF outq[i].reply THEN b ELSE Multiset!BagAdd(b, Entry(outq[i], i \in failing))

LEMMA TrackOneIs ==
    ASSUME outq \in OutQueue, NEW b \in Tracker, NEW i \in 1 .. Len(outq), NEW failing
    PROVE  /\ TrackOne(b, i, failing) \in Tracker
           /\ \A t \in Task : Cardinality(TrackedOf(TrackOne(b, i, failing), t))
                = Cardinality(TrackedOf(b, t)) + IF outq[i].task = t THEN 1 ELSE 0
<1>1. PICK m : m = outq[i]
  OBVIOUS
<1>2. m \in Message /\ (m.reply => m.task = NoTask)
  BY <1>1, SeqIs DEF OutQueue
<1>3. m.to \in Place /\ m.task \in Task \cup {NoTask}
  BY <1>2 DEF Message
<1>4. CASE m.reply
  <2>1. TrackOne(b, i, failing) = b
    BY <1>1, <1>4 DEF TrackOne
  <2>2. \A t \in Task : m.task # t
    BY <1>2, <1>4, DHTAssumption
  <2>3. \A t \in Task : Cardinality(TrackedOf(b, t)) \in Nat
    BY FS_CardinalityType DEF Tracker
  <2> QED BY <1>1, <2>1, <2>2, <2>3
<1>5. CASE ~m.reply
  <2>1. PICK e : e = Entry(m, i \in failing)
    OBVIOUS
  <2>2. e \in Sent /\ e.task = m.task
    BY <1>3, <2>1 DEF Entry, Sent
  <2>3. TrackOne(b, i, failing) = Multiset!BagAdd(b, e)
    BY <1>1, <1>5, <2>1 DEF TrackOne
  <2> QED BY <1>1, <2>2, <2>3, BagGrows
<1> QED BY <1>4, <1>5

\* What is sent is tracked.
LEMMA TrackIs ==
    ASSUME outq \in OutQueue, NEW b \in Tracker, NEW n \in 0 .. Len(outq), NEW failing
    PROVE  /\ Track(b, n, failing) \in Tracker
           /\ \A t \in Task : Cardinality(TrackedOf(Track(b, n, failing), t))
                = Cardinality(TrackedOf(b, t)) + Cardinality(First(n, t))
<1>0. Len(outq) \in Nat /\ n \in Nat /\ \A i \in 1 .. n : i \in 1 .. Len(outq)
  <2>1. Len(outq) \in Nat
    BY SeqIs DEF OutQueue
  <2> QED BY <2>1
<1> DEFINE G(f) == f = [i \in 0 .. n |->
                         IF i = 0 THEN b
                         ELSE IF outq[i].reply THEN f[i - 1]
                         ELSE Multiset!BagAdd(f[i - 1], Entry(outq[i], i \in failing))]
           F == CHOOSE f : G(f)
           g == [i \in 1 .. n |-> [x \in Tracker |-> TrackOne(x, i, failing)]]
<1>1. Track(b, n, failing) = F[n]
  BY DEF Track
<1>2. \A i \in 1 .. n : \A x \in Tracker : TrackOne(x, i, failing) \in Tracker
  BY <1>0, TrackOneIs
<1>3. LoopStep(g, n, Tracker)
  BY <1>2 DEF LoopStep
<1>4. \A i \in 1 .. n : \A x \in Tracker : g[i][x] = TrackOne(x, i, failing)
  OBVIOUS
<1> HIDE DEF g
<1>5. PICK f : LoopRun(f, n, Tracker, b, g)
  BY <1>0, <1>3, LoopRuns
<1>6. f \in [0 .. n -> Tracker] /\ f[0] = b /\ \A i \in 1 .. n : f[i] = g[i][f[i - 1]]
  BY <1>5 DEF LoopRun
<1>7. G(f)
  <2>1. ASSUME NEW i \in 0 .. n PROVE f[i] = IF i = 0 THEN b ELSE TrackOne(f[i - 1], i, failing)
    <3>1. i # 0 => i \in 1 .. n /\ i - 1 \in 0 .. n
      BY <1>0
    <3>2. i # 0 => f[i] = g[i][f[i - 1]] /\ f[i - 1] \in Tracker
      BY <1>6, <3>1
    <3> QED BY <1>4, <1>6, <3>1, <3>2
  <2> QED BY <1>6, <2>1 DEF TrackOne
<1>8. G(F)
  <2> HIDE DEF G
  <2> QED BY <1>7
<1>9. \A i \in 0 .. n : F[i] = IF i = 0 THEN b ELSE TrackOne(F[i - 1], i, failing)
  BY <1>8, Zenon DEF TrackOne
<1> HIDE DEF F, G
<1> DEFINE Moved(i) ==
             /\ F[i] \in Tracker
             /\ \A t \in Task : Cardinality(TrackedOf(F[i], t))
                                  = Cardinality(TrackedOf(b, t)) + Cardinality(First(i, t))
           S == {i \in 0 .. n : Moved(i)}
<1>10. \A t \in Task : Cardinality(TrackedOf(b, t)) \in Nat
  BY FS_CardinalityType DEF Tracker
<1>11. 0 \in S
  <2>1. F[0] = b /\ 0 \in 0 .. n
    BY <1>0, <1>9
  <2>2. \A t \in Task : Cardinality(First(0, t)) = 0
    BY FirstIs, FS_EmptySet
  <2>3. Moved(0)
    BY <1>10, <2>1, <2>2
  <2> QED BY <2>1, <2>3
<1>12. ASSUME NEW i \in 1 .. n, i - 1 \in S PROVE i \in S
  <2>1. PICK x, y : x = F[i - 1] /\ y = F[i]
    OBVIOUS
  <2>2. i \in 0 .. n /\ i \in 1 .. Len(outq) /\ i \in Nat \ {0} /\ i - 1 \in Nat /\ y = TrackOne(x, i, failing)
    BY <1>0, <1>9, <2>1
  <2>3. /\ x \in Tracker
        /\ \A t \in Task : Cardinality(TrackedOf(x, t)) = Cardinality(TrackedOf(b, t)) + Cardinality(First(i - 1, t))
    BY <1>12, <2>1
  <2>4. /\ y \in Tracker
        /\ \A t \in Task : Cardinality(TrackedOf(y, t))
             = Cardinality(TrackedOf(x, t)) + IF outq[i].task = t THEN 1 ELSE 0
    BY <2>2, <2>3, TrackOneIs
  <2>5. ASSUME NEW t \in Task
        PROVE  Cardinality(TrackedOf(y, t)) = Cardinality(TrackedOf(b, t)) + Cardinality(First(i, t))
    <3>1. /\ Cardinality(First(i - 1, t)) \in Nat
          /\ Cardinality(First(i, t)) = Cardinality(First(i - 1, t)) + IF outq[i].task = t THEN 1 ELSE 0
      BY <2>2, FirstIs
    <3> QED BY <1>10, <2>3, <2>4, <3>1
  <2>6. Moved(i)
    BY <2>1, <2>4, <2>5
  <2> QED BY <2>2, <2>6
<1> HIDE DEF S
<1>13. \A i \in 0 .. n : i \in S
  BY <1>0, <1>11, <1>12, RoundByRound
<1>14. Moved(n)
  BY <1>0, <1>13 DEF S
<1> QED BY <1>1, <1>14

\* What is not sent stays queued.
LEMMA RestIs ==
    ASSUME outq \in OutQueue, NEW n \in 0 .. Len(outq), NEW r, r = SubSeq(outq, n + 1, Len(outq))
    PROVE  /\ r \in OutQueue
           /\ \A t \in Task : Cardinality(QueuedOf(outq, t)) = Cardinality(QueuedOf(r, t)) + Cardinality(First(n, t))
<1>0. /\ outq \in Seq(Message) /\ Len(outq) \in Nat /\ n \in Nat
      /\ \A i \in 1 .. Len(outq) : outq[i] \in Message /\ (outq[i].reply => outq[i].task = NoTask)
  <2>1. outq \in Seq(Message)
    BY DEF OutQueue
  <2> QED BY <2>1, SeqIs DEF OutQueue
<1>1. /\ r \in Seq(Message) /\ Len(r) = Len(outq) - n
      /\ \A i \in 1 .. Len(r) : r[i] = outq[i + n] /\ i + n \in n + 1 .. Len(outq)
  BY <1>0
<1>2. r \in OutQueue
  <2>1. \A i \in 1 .. Len(r) : i + n \in 1 .. Len(outq)
    BY <1>0, <1>1
  <2>2. ASSUME NEW i \in 1 .. Len(r) PROVE r[i].reply => r[i].task = NoTask
    <3>1. r[i] = outq[i + n] /\ i + n \in 1 .. Len(outq)
      BY <1>1, <2>1
    <3> QED BY <1>0, <3>1
  <2> QED BY <1>1, <2>2 DEF OutQueue
<1>3. ASSUME NEW t \in Task
      PROVE  Cardinality(QueuedOf(outq, t)) = Cardinality(QueuedOf(r, t)) + Cardinality(First(n, t))
  <2>1. PICK A, B, C : A = QueuedOf(outq, t) /\ B = QueuedOf(r, t) /\ C = First(n, t)
    OBVIOUS
  <2>2. /\ A = {i \in 1 .. Len(outq) : outq[i].task = t}
        /\ B = {i \in 1 .. Len(r) : r[i].task = t} /\ IsFiniteSet(B) /\ Cardinality(B) \in Nat
    BY <1>0, <1>1, <2>1, QueuedIs
  <2>3. C = {i \in 1 .. n : outq[i].task = t} /\ IsFiniteSet(C) /\ Cardinality(C) \in Nat
    BY <1>0, <2>1, FirstIs DEF First
  <2>4. PICK f : f = [i \in B |-> i + n]
    OBVIOUS
  <2>5. PICK D : D = {f[i] : i \in B}
    OBVIOUS
  <2>6. IsFiniteSet(D) /\ Cardinality(D) = Cardinality(B)
    <3>0. B \subseteq Nat
      BY <2>2
    <3>1. f = [i \in B |-> f[i]] /\ DOMAIN f = B /\ \A i \in B : f[i] = i + n
      BY <2>4
    <3>2. IsInjective(f)
      <4>1. \A i, j \in B : i + n = j + n => i = j
        BY <1>0, <3>0
      <4> QED BY <3>1, <4>1 DEF IsInjective
    <3>3. IsFiniteSet(B) /\ f = [i \in B |-> f[i]]
      BY <2>2, <3>1
    <3>4. IsFiniteSet({f[i] : i \in B}) /\ (IsInjective(f) => Cardinality({f[i] : i \in B}) = Cardinality(B))
      BY <3>3, FunctionValues, Zenon
    <3> QED BY <2>5, <3>2, <3>4
  <2>7. D = {i \in n + 1 .. Len(outq) : outq[i].task = t}
    <3>1. ASSUME NEW i \in D PROVE i \in n + 1 .. Len(outq) /\ outq[i].task = t
      BY <1>1, <2>2, <2>4, <2>5
    <3>2. ASSUME NEW i \in n + 1 .. Len(outq), outq[i].task = t PROVE i \in D
      <4>1. i - n \in 1 .. Len(r) /\ (i - n) + n = i
        BY <1>0, <1>1
      <4>2. i - n \in B
        BY <1>1, <2>2, <3>2, <4>1
      <4> QED BY <2>4, <2>5, <4>1, <4>2
    <3> QED BY <3>1, <3>2
  <2>8. A = C \cup D /\ C \cap D = {}
    <3>1. \A i : i \in 1 .. Len(outq) <=> i \in 1 .. n \/ i \in n + 1 .. Len(outq)
      BY <1>0
    <3>2. \A i : ~(i \in 1 .. n /\ i \in n + 1 .. Len(outq))
      BY <1>0
    <3> QED BY <2>2, <2>3, <2>7, <3>1, <3>2
  <2>9. Cardinality(A) = Cardinality(C) + Cardinality(D) - Cardinality({})
    BY <2>3, <2>6, <2>8, FS_Union
  <2>10. Cardinality(A) = Cardinality(B) + Cardinality(C)
    <3>1. PICK x, y, z : x = Cardinality(B) /\ y = Cardinality(C) /\ z = Cardinality({})
      OBVIOUS
    <3>2. x \in Nat /\ y \in Nat /\ z = 0 /\ Cardinality(A) = y + x - z
      BY <2>2, <2>3, <2>6, <2>9, <3>1, FS_EmptySet
    <3>3. Cardinality(A) = x + y
      BY <3>2
    <3> QED BY <3>1, <3>3
  <2> QED BY <2>1, <2>10
<1> QED BY <1>2, <1>3

(***************************************************************************)
(* What the callbacks of a task do to its state and to the queue.          *)
(***************************************************************************)
LookupEntry == [node : Id, used : BOOLEAN]
TaskState == [entries : Seq(LookupEntry), inflight : Nat, retry : Nat,
              tokens : SUBSET Node, finished : BOOLEAN]
Work == [task : TaskState, outq : OutQueue]

\* The fields of a task.
LEMMA TaskIs ==
    ASSUME NEW a \in TaskState
    PROVE  /\ a.entries \in Seq(LookupEntry) /\ a.inflight \in Nat /\ a.retry \in Nat
           /\ a.tokens \in SUBSET Node /\ a.finished \in BOOLEAN
           /\ a = [entries |-> a.entries, inflight |-> a.inflight, retry |-> a.retry,
                   tokens |-> a.tokens, finished |-> a.finished]
BY DEF TaskState

LEMMA WorkIs ==
    ASSUME NEW w \in Work
    PROVE  w.task \in TaskState /\ w.outq \in OutQueue /\ w = [task |-> w.task, outq |-> w.outq]
BY DEF Work

\* New and finished tasks.
LEMMA NewTaskIs ==
    /\ NewTask \in TaskState /\ NewTask.inflight = 0 /\ NewTask.finished = FALSE
    /\ Finished \in TaskState /\ Finished.inflight = 0 /\ Finished.finished = TRUE
<1>1. PICK z : z = <<>>
  OBVIOUS
<1>2. z \in Seq(LookupEntry)
  BY <1>1
<1>3. NewTask = [entries |-> z, inflight |-> 0, retry |-> 0, tokens |-> {}, finished |-> FALSE]
  BY <1>1 DEF NewTask
<1>4. PICK x \in TaskState : x = NewTask /\ x.inflight = 0 /\ x.finished = FALSE
  <2>1. PICK x : x = [entries |-> z, inflight |-> 0, retry |-> 0, tokens |-> {}, finished |-> FALSE]
    OBVIOUS
  <2>2. x \in TaskState
    BY <1>2, <2>1 DEF TaskState
  <2>3. x.inflight = 0 /\ x.finished = FALSE
    BY <2>1
  <2> QED BY <1>3, <2>1, <2>2, <2>3
<1>5. Finished = [x EXCEPT !.finished = TRUE]
  BY <1>4, Zenon DEF Finished
<1>6. PICK y : y = [x EXCEPT !.finished = TRUE]
  OBVIOUS
<1>7. y \in TaskState /\ y.inflight = 0 /\ y.finished = TRUE
  BY <1>4, <1>6 DEF TaskState
<1> QED BY <1>4, <1>5, <1>6, <1>7

\* The task in r has sent n messages more than the one in w.
SendsMore(w, r, t, n) ==
    /\ r \in Work /\ n \in Nat /\ Adds(w.outq, r.outq, t, n)
    /\ r.task.inflight = w.task.inflight + n

LEMMA SendIs ==
    ASSUME NEW w \in Work, NEW t \in Task
    PROVE  /\ \E n : SendsMore(w, sendMessage(w, t), t, n)
           /\ sendMessage(w, t).task.finished = w.task.finished
<1>0. w.task \in TaskState /\ w.outq \in OutQueue
  BY WorkIs
<1>1. PICK a, E : a = w.task /\ E = a.entries
  OBVIOUS
<1>2. a \in TaskState /\ E \in Seq(LookupEntry) /\ a.inflight \in Nat
  BY <1>0, <1>1, TaskIs
<1>3. Len(E) \in Nat /\ DOMAIN E = 1 .. Len(E) /\ \A i \in 1 .. Len(E) : E[i] \in LookupEntry
  BY <1>2, SeqIs
<1>4. PICK unused : unused = Keep([i \in DOMAIN E |-> i], {i \in DOMAIN E : ~E[i].used})
  OBVIOUS
<1>5. unused \in Seq(1 .. Len(E)) /\ Len(unused) \in Nat /\ \A i \in 1 .. Len(unused) : unused[i] \in 1 .. Len(E)
  <2>1. [i \in DOMAIN E |-> i] \in Seq(1 .. Len(E))
    BY <1>3
  <2>2. unused \in Seq(1 .. Len(E))
    BY <1>4, <2>1, KeepIs
  <2> QED BY <2>2, SeqIs
<1>6. PICK n \in 0 .. Len(unused) : n = Min({Len(unused), Max({0, Alpha - a.inflight})})
  <2>1. PICK x \in Nat : x = Max({0, Alpha - a.inflight})
    <3>1. Alpha - a.inflight \in Int
      BY <1>2, DHTAssumption
    <3> QED BY <3>1, MaxOfTwo
  <2>2. PICK y \in Nat : y = Len(unused)
    BY <1>5
  <2>3. Min({y, x}) = IF y <= x THEN y ELSE x
    BY MinOfTwo
  <2> QED BY <2>1, <2>2, <2>3
<1>7. PICK now : now = SubSeq(unused, 1, n)
  OBVIOUS
<1>8. \A i \in 1 .. n : now[i] \in 1 .. Len(E)
  BY <1>5, <1>7
<1>9. PICK e : e = [i \in DOMAIN E |-> [E[i] EXCEPT !.used = E[i].used \/ i \in ToSet(now)]]
  OBVIOUS
<1>10. e \in Seq(LookupEntry)
  <2>1. ASSUME NEW i \in 1 .. Len(E) PROVE [E[i] EXCEPT !.used = E[i].used \/ i \in ToSet(now)] \in LookupEntry
    <3>1. PICK v \in BOOLEAN : v = (E[i].used \/ i \in ToSet(now))
      OBVIOUS
    <3>2. E[i] \in LookupEntry
      BY <1>3
    <3>3. [E[i] EXCEPT !.used = v] \in LookupEntry
      BY <3>2 DEF LookupEntry
    <3> QED BY <3>1, <3>3, Zenon
  <2>2. DOMAIN e = 1 .. Len(E) /\ \A i \in 1 .. Len(E) : e[i] \in LookupEntry
    BY <1>3, <1>9, <2>1
  <2>3. e = [i \in 1 .. Len(E) |-> e[i]]
    BY <1>3, <1>9
  <2> QED BY <1>3, <2>2, <2>3
<1>11. PICK d : d = [i \in 1 .. n |-> Query(E[now[i]].node, t)]
  OBVIOUS
<1>12. d \in Seq(Message) /\ Len(d) = n /\ \A i \in 1 .. n : d[i].task = t /\ ~d[i].reply
  <2>1. ASSUME NEW i \in 1 .. n PROVE Query(E[now[i]].node, t) \in Message
    <3>1. E[now[i]].node \in Id
      BY <1>3, <1>8 DEF LookupEntry
    <3> QED BY <3>1 DEF Query, Message, Place
  <2>2. \A i \in 1 .. n : d[i].task = t /\ ~d[i].reply
    BY <1>11 DEF Query
  <2>3. n \in Nat
    BY <1>5
  <2> QED BY <1>11, <2>1, <2>2, <2>3
<1>13. Adds(w.outq, w.outq \o d, t, n)
  BY <1>0, <1>12, QueueGrows
<1>14. PICK c : c = [a EXCEPT !.inflight = @ + n, !.entries = e]
  OBVIOUS
<1>15. c \in TaskState /\ c.inflight = a.inflight + n /\ c.finished = a.finished
  <2>1. a.inflight + n \in Nat
    BY <1>2, <1>5
  <2>2. PICK x : x = [a EXCEPT !.inflight = @ + n]
    OBVIOUS
  <2>3. x \in TaskState /\ x.inflight = a.inflight + n /\ x.finished = a.finished
    BY <1>2, <2>1, <2>2 DEF TaskState
  <2>4. c = [x EXCEPT !.entries = e]
    BY <1>14, <2>2
  <2> QED BY <1>10, <2>3, <2>4 DEF TaskState
<1>16. sendMessage(w, t) = [task |-> c, outq |-> w.outq \o d]
  <2>1. sendMessage(w, t) =
          [task |-> [a EXCEPT !.inflight = @ + n,
                              !.entries = [i \in DOMAIN E |->
                                [E[i] EXCEPT !.used = @ \/ i \in ToSet(now)]]],
           outq |-> w.outq \o [i \in 1 .. n |-> Query(E[now[i]].node, t)]]
    BY <1>1, <1>4, <1>6, <1>7, Zenon DEF sendMessage
  <2> QED BY <1>9, <1>11, <1>14, <2>1
<1>17. PICK r : r = [task |-> c, outq |-> w.outq \o d]
  OBVIOUS
<1>18. r.task = c /\ r.outq = w.outq \o d
  BY <1>17
<1>19. r \in Work
  BY <1>13, <1>15, <1>17 DEF Work, Adds
<1>20. SendsMore(w, r, t, n)
  BY <1>1, <1>5, <1>13, <1>15, <1>18, <1>19 DEF SendsMore
<1> QED BY <1>1, <1>15, <1>16, <1>17, <1>18, <1>20

\* The XOR metric is a number.
LEMMA DistanceIs ==
    ASSUME NEW key, NEW a
    PROVE  Distance(key, a) \in Nat
<1>0. IdBits \in Nat
  BY RoutingTableAssumption
<1> DEFINE h == [l \in 1 .. IdBits |-> IF Bit(a, l) = Bit(key, l) THEN 0 ELSE 1]
           G(f) == f = [l \in 0 .. IdBits |->
                         IF l = 0 THEN 0
                         ELSE 2 * f[l - 1] + IF Bit(a, l) = Bit(key, l) THEN 0 ELSE 1]
           F == CHOOSE f : G(f)
           g == [l \in 1 .. IdBits |-> [x \in Nat |-> 2 * x + h[l]]]
<1>1. Distance(key, a) = F[IdBits]
  BY DEF Distance
<1>2. h \in [1 .. IdBits -> Nat] /\ \A l \in 1 .. IdBits : h[l] = IF Bit(a, l) = Bit(key, l) THEN 0 ELSE 1
  OBVIOUS
<1> HIDE DEF h
<1>3. \A l \in 1 .. IdBits : \A x \in Nat : 2 * x + h[l] \in Nat
  BY <1>2
<1>4. LoopStep(g, IdBits, Nat) /\ \A l \in 1 .. IdBits : \A x \in Nat : g[l][x] = 2 * x + h[l]
  BY <1>3 DEF LoopStep
<1> HIDE DEF g
<1>5. PICK f : LoopRun(f, IdBits, Nat, 0, g)
  BY <1>0, <1>4, LoopRuns
<1>6. f \in [0 .. IdBits -> Nat] /\ f[0] = 0 /\ \A l \in 1 .. IdBits : f[l] = g[l][f[l - 1]]
  BY <1>5 DEF LoopRun
<1>7. G(f)
  <2>1. ASSUME NEW l \in 0 .. IdBits
        PROVE  f[l] = IF l = 0 THEN 0 ELSE 2 * f[l - 1] + IF Bit(a, l) = Bit(key, l) THEN 0 ELSE 1
    <3>1. CASE l = 0
      BY <1>6, <3>1
    <3>2. CASE l # 0
      <4>1. l \in 1 .. IdBits /\ l - 1 \in 0 .. IdBits
        BY <1>0, <3>2
      <4>2. PICK x \in Nat : x = f[l - 1]
        BY <1>6, <4>1
      <4>3. f[l] = 2 * x + h[l]
        BY <1>4, <1>6, <4>1, <4>2
      <4> QED BY <1>2, <3>2, <4>1, <4>2, <4>3
    <3> QED BY <3>1, <3>2
  <2> QED BY <1>6, <2>1
<1>8. G(F)
  <2> HIDE DEF G
  <2> QED BY <1>7
<1>9. \A l \in 0 .. IdBits : F[l] = IF l = 0 THEN 0 ELSE 2 * F[l - 1] + IF Bit(a, l) = Bit(key, l) THEN 0 ELSE 1
  BY <1>8, Zenon
<1> HIDE DEF F, G
<1> DEFINE S == {l \in 0 .. IdBits : F[l] \in Nat}
<1>10. 0 \in S
  BY <1>0, <1>9
<1>11. ASSUME NEW l \in 1 .. IdBits, l - 1 \in S PROVE l \in S
  <2>1. PICK x \in Nat : x = F[l - 1]
    BY <1>11
  <2>2. l \in 0 .. IdBits /\ l # 0
    BY <1>0
  <2>3. F[l] = 2 * x + IF Bit(a, l) = Bit(key, l) THEN 0 ELSE 1
    BY <1>9, <2>1, <2>2
  <2>4. F[l] \in Nat
    BY <2>3
  <2> QED BY <2>2, <2>4
<1> HIDE DEF S
<1>12. \A l \in 0 .. IdBits : l \in S
  BY <1>0, <1>10, <1>11, RoundByRound
<1> QED BY <1>0, <1>1, <1>12 DEF S

\* Of some IDs one is nearest.
LEMMA NearestIs ==
    ASSUME NEW key, NEW ids, ids # {}
    PROVE  Nearest(key, ids) \in ids
<1>1. PICK S : S = {Distance(key, x) : x \in ids}
  OBVIOUS
<1>2. S \in SUBSET Nat /\ S # {}
  BY <1>1, DistanceIs
<1>3. Min(S) \in S /\ \A y \in S : Min(S) <= y
  BY <1>2, LeastNumber
<1>4. PICK x \in ids : Min(S) = Distance(key, x)
  BY <1>1, <1>3
<1>5. \A y \in ids : Distance(key, x) <= Distance(key, y)
  BY <1>1, <1>3, <1>4
<1> QED BY <1>5 DEF Nearest

LEMMA NearestFirst ==
    ASSUME NEW key, NEW ids \in SUBSET Id, IsFiniteSet(ids)
    PROVE  Closest(key, ids) \in Seq(Id)
<1>0. Cardinality(ids) \in Nat
  BY FS_CardinalityType
<1> DEFINE n == Min({K, Cardinality(ids)})
<1>1. n \in Nat /\ n <= Cardinality(ids)
  <2>1. PICK x \in Nat : x = Cardinality(ids)
    BY <1>0
  <2>2. K \in Nat
    BY RoutingTableAssumption
  <2>3. Min({K, x}) = IF K <= x THEN K ELSE x
    BY <2>2, MinOfTwo
  <2> QED BY <2>1, <2>2, <2>3
<1> DEFINE D == SUBSET Id
           G(f) == f = [i \in 0 .. n |-> IF i = 0 THEN ids ELSE f[i - 1] \ {Nearest(key, f[i - 1])}]
           F == CHOOSE f : G(f)
           g == [i \in 1 .. n |-> [x \in D |-> x \ {Nearest(key, x)}]]
<1>2. Closest(key, ids) = [i \in 1 .. n |-> Nearest(key, F[i - 1])]
  BY DEF Closest
<1> HIDE DEF n
<1>3. LoopStep(g, n, D) /\ \A i \in 1 .. n : \A x \in D : g[i][x] = x \ {Nearest(key, x)}
  <2>1. \A x \in D : x \ {Nearest(key, x)} \in D
    OBVIOUS
  <2> HIDE DEF D
  <2> QED BY <2>1 DEF LoopStep
<1>4. ids \in D
  OBVIOUS
<1> HIDE DEF g, D
<1>5. PICK f : LoopRun(f, n, D, ids, g)
  BY <1>1, <1>3, <1>4, LoopRuns
<1>6. f \in [0 .. n -> D] /\ f[0] = ids /\ \A i \in 1 .. n : f[i] = g[i][f[i - 1]]
  BY <1>5 DEF LoopRun
<1>7. G(f)
  <2>1. ASSUME NEW i \in 0 .. n PROVE f[i] = IF i = 0 THEN ids ELSE f[i - 1] \ {Nearest(key, f[i - 1])}
    <3>1. i # 0 => i \in 1 .. n /\ i - 1 \in 0 .. n
      BY <1>1
    <3> QED BY <1>3, <1>6, <3>1
  <2> QED BY <1>6, <2>1
<1>8. G(F)
  <2> HIDE DEF G
  <2> QED BY <1>7
<1>9. \A i \in 0 .. n : F[i] = IF i = 0 THEN ids ELSE F[i - 1] \ {Nearest(key, F[i - 1])}
  BY <1>8, Zenon
<1> HIDE DEF F, G
<1> DEFINE Left(i) == /\ F[i] \in SUBSET Id /\ IsFiniteSet(F[i])
                      /\ Cardinality(F[i]) = Cardinality(ids) - i
           S == {i \in 0 .. n : Left(i)}
<1>10. 0 \in S
  <2>1. 0 \in 0 .. n
    BY <1>1
  <2>2. F[0] = ids
    BY <1>9, <2>1
  <2> QED BY <1>0, <2>1, <2>2
<1>11. ASSUME NEW x \in SUBSET Id, NEW i \in 1 .. n, IsFiniteSet(x), Cardinality(x) = Cardinality(ids) - (i - 1)
       PROVE  /\ Nearest(key, x) \in x
              /\ IsFiniteSet(x \ {Nearest(key, x)})
              /\ Cardinality(x \ {Nearest(key, x)}) = Cardinality(ids) - i
  <2>1. Cardinality(x) # 0
    BY <1>0, <1>1, <1>11
  <2>2. x # {}
    BY <2>1, FS_EmptySet
  <2>3. Nearest(key, x) \in x
    BY <2>2, NearestIs
  <2>4. PICK y \in x : y = Nearest(key, x)
    BY <2>3
  <2>5. IsFiniteSet(x \ {y}) /\ Cardinality(x \ {y}) = Cardinality(x) - 1
    BY <1>11, FS_RemoveElement
  <2>6. (Cardinality(ids) - (i - 1)) - 1 = Cardinality(ids) - i
    BY <1>0
  <2> QED BY <1>11, <2>3, <2>4, <2>5, <2>6
<1>12. ASSUME NEW i \in 1 .. n, i - 1 \in S PROVE i \in S
  <2>1. PICK x : x = F[i - 1]
    OBVIOUS
  <2>2. x \in SUBSET Id /\ IsFiniteSet(x) /\ Cardinality(x) = Cardinality(ids) - (i - 1)
    BY <1>12, <2>1
  <2>a. i \in 0 .. n /\ i # 0
    BY <1>1
  <2>3. i \in 0 .. n /\ F[i] = x \ {Nearest(key, x)}
    BY <1>9, <2>1, <2>a
  <2>4. Left(i)
    BY <1>11, <2>2, <2>3
  <2> QED BY <2>3, <2>4
<1> HIDE DEF S
<1>13. \A i \in 0 .. n : i \in S
  BY <1>1, <1>10, <1>12, RoundByRound
<1>14. ASSUME NEW i \in 1 .. n PROVE Nearest(key, F[i - 1]) \in Id
  <2>1. PICK x : x = F[i - 1]
    OBVIOUS
  <2>2. i - 1 \in 0 .. n
    BY <1>1
  <2>3. x \in SUBSET Id /\ IsFiniteSet(x) /\ Cardinality(x) = Cardinality(ids) - (i - 1)
    BY <1>13, <2>1, <2>2 DEF S
  <2> QED BY <1>11, <2>1, <2>3
<1> QED BY <1>1, <1>2, <1>14

\* What becomes of the entries of a lookup.
LEMMA MergeIs ==
    ASSUME NEW E \in Seq(LookupEntry), NEW key, NEW n \in Id, NEW told \in SUBSET Id, IsFiniteSet(told)
    PROVE  Merge(E, key, n, told) \in Seq(LookupEntry)
<1>0. Len(E) \in Nat /\ DOMAIN E = 1 .. Len(E) /\ \A i \in 1 .. Len(E) : E[i] \in LookupEntry
  BY SeqIs
<1>1. PICK R : R = Renamed(E, n)
  OBVIOUS
<1>2. DOMAIN R = 1 .. Len(E) /\ \A i \in 1 .. Len(E) : R[i].node \in Id
  <2>1. R = [i \in DOMAIN E |-> IF AddressOf(E[i].node) = HomeOf[n] THEN [E[i] EXCEPT !.node = n] ELSE E[i]]
    BY <1>1 DEF Renamed
  <2>2. ASSUME NEW i \in 1 .. Len(E) PROVE R[i].node \in Id
    <3>1. E[i] \in LookupEntry /\ (R[i] = E[i] \/ R[i] = [E[i] EXCEPT !.node = n])
      BY <1>0, <2>1
    <3> QED BY <3>1 DEF LookupEntry
  <2> QED BY <1>0, <2>1, <2>2
<1>3. PICK f : f = [i \in 1 .. Len(E) |-> R[i].node]
  OBVIOUS
<1>4. PICK ids : ids = told \cup {R[i].node : i \in DOMAIN R}
  OBVIOUS
<1>5. ids \in SUBSET Id /\ IsFiniteSet(ids)
  <2>1. IsFiniteSet(1 .. Len(E))
    BY <1>0, FS_Interval
  <2>2. f = [i \in 1 .. Len(E) |-> f[i]]
    BY <1>3
  <2>3. IsFiniteSet({f[i] : i \in 1 .. Len(E)})
    BY <2>1, <2>2, FunctionValues
  <2>4. ids = told \cup {f[i] : i \in 1 .. Len(E)}
    BY <1>2, <1>3, <1>4
  <2>5. IsFiniteSet(ids)
    BY <2>3, <2>4, FS_Union
  <2>6. ids \in SUBSET Id
    BY <1>2, <1>4
  <2> QED BY <2>5, <2>6
<1>6. PICK c \in Seq(Id) : c = Closest(key, ids)
  BY <1>5, NearestFirst
<1>7. Merge(E, key, n, told) = [i \in DOMAIN c |-> [node |-> c[i], used |-> LastUsed(R, c[i])]]
  BY <1>1, <1>4, <1>6, Zenon DEF Merge
<1>8. Len(c) \in Nat /\ DOMAIN c = 1 .. Len(c) /\ \A i \in 1 .. Len(c) : c[i] \in Id
  BY SeqIs
<1>9. ASSUME NEW i \in 1 .. Len(c) PROVE [node |-> c[i], used |-> LastUsed(R, c[i])] \in LookupEntry
  <2>1. LastUsed(R, c[i]) \in BOOLEAN
    BY DEF LastUsed
  <2> QED BY <1>8, <2>1 DEF LookupEntry
<1> QED BY <1>7, <1>8, <1>9

LEMMA ForgetIs ==
    ASSUME NEW E \in Seq(LookupEntry), NEW n
    PROVE  Forget(E, n) \in Seq(LookupEntry)
<1>0. Len(E) \in Nat /\ DOMAIN E = 1 .. Len(E)
  BY SeqIs
<1>1. PICK at : at = {i \in DOMAIN E : E[i].node = n}
  OBVIOUS
<1>2. Forget(E, n) = IF at = {} THEN E ELSE RemoveAt(E, Min(at))
  BY <1>1 DEF Forget
<1>3. ASSUME at # {} PROVE RemoveAt(E, Min(at)) \in Seq(LookupEntry)
  <2>1. at \in SUBSET Nat
    BY <1>0, <1>1
  <2>2. PICK i \in at : i = Min(at)
    BY <1>3, <2>1, LeastNumber
  <2>3. i \in 1 .. Len(E)
    BY <1>0, <1>1
  <2>4. SubSeq(E, 1, i - 1) \in Seq(LookupEntry) /\ SubSeq(E, i + 1, Len(E)) \in Seq(LookupEntry)
    BY <1>0, <2>3
  <2>5. SubSeq(E, 1, i - 1) \o SubSeq(E, i + 1, Len(E)) \in Seq(LookupEntry)
    BY <2>4
  <2> QED BY <2>2, <2>5 DEF RemoveAt
<1> QED BY <1>2, <1>3

\* Nobody waits for the answer to an announce.
LEMMA AnnounceIs ==
    ASSUME NEW w \in Work, NEW t \in Task
    PROVE  Adds(w.outq, announcePeer(w, t), t, 0)
<1>0. w.task \in TaskState /\ w.outq \in OutQueue
  BY WorkIs
<1>a. PICK q \in OutQueue : q = w.outq
  BY <1>0
<1>b. \A u \in Task : Cardinality(QueuedOf(q, u)) \in Nat
  BY QueuedIs DEF OutQueue
<1>1. CASE KindOf[t] # "peerLookup"
  <2>1. announcePeer(w, t) = q
    BY <1>1, <1>a DEF announcePeer
  <2>2. Adds(q, q, t, 0)
    BY <1>b DEF Adds
  <2> QED BY <1>a, <2>1, <2>2
<1>2. CASE KindOf[t] = "peerLookup"
  <2>1. PICK E \in Seq(LookupEntry) : E = w.task.entries
    BY <1>0, TaskIs
  <2>2. PICK S : S = {e \in ToSet(w.task.entries) : e.used /\ e.node \in w.task.tokens}
    OBVIOUS
  <2>3. PICK told \in Seq(LookupEntry) : told = Keep(w.task.entries, S)
    BY <2>1, KeepIs
  <2>4. Len(told) \in Nat /\ \A i \in 1 .. Len(told) : told[i] \in LookupEntry
    BY SeqIs
  <2>5. PICK m \in 0 .. Len(told) : m = Min({K, Len(told)})
    <3>1. PICK x \in Nat : x = Len(told)
      BY <2>4
    <3>2. K \in Nat
      BY RoutingTableAssumption
    <3>3. Min({K, x}) = IF K <= x THEN K ELSE x
      BY <3>2, MinOfTwo
    <3> QED BY <3>1, <3>2, <3>3
  <2>6. PICK d : d = [i \in 1 .. m |-> Query(told[i].node, NoTask)]
    OBVIOUS
  <2>7. announcePeer(w, t) = q \o d
    <3>1. announcePeer(w, t) = w.outq \o [i \in 1 .. m |-> Query(told[i].node, NoTask)]
      BY <1>2, <2>2, <2>3, <2>5, Zenon DEF announcePeer
    <3> QED BY <1>a, <2>6, <3>1
  <2>8. d \in Seq(Message) /\ Len(d) = m /\ \A i \in 1 .. m : d[i].task = NoTask
    <3>1. ASSUME NEW i \in 1 .. m PROVE Query(told[i].node, NoTask) \in Message
      <4>1. i \in 1 .. Len(told)
        BY <2>4
      <4>2. told[i].node \in Id
        BY <2>4, <4>1 DEF LookupEntry
      <4> QED BY <4>2 DEF Query, Message, Place
    <3>2. m \in Nat
      BY <2>4
    <3>3. \A i \in 1 .. m : d[i].task = NoTask
      BY <2>6 DEF Query
    <3> QED BY <2>6, <3>1, <3>2, <3>3
  <2>9. Adds(q, q \o d, NoTask, m)
    BY <2>8, QueueGrows
  <2>10. \A u \in Task : u # NoTask
    BY DHTAssumption
  <2>11. Adds(q, q \o d, t, 0)
    BY <2>9, <2>10, <1>b DEF Adds
  <2> QED BY <1>a, <2>7, <2>11
<1> QED BY <1>1, <1>2

\* A lookup is finished when none of its messages is in flight.
LEMMA CheckIs ==
    ASSUME NEW w \in Work, NEW t \in Task, ~w.task.finished
    PROVE  /\ \E n : SendsMore(w, sendMessageAndCheckFinish(w, t), t, n)
           /\ sendMessageAndCheckFinish(w, t).task.finished
                <=> sendMessageAndCheckFinish(w, t).task.inflight = 0
<1>0. w.task.inflight \in Nat /\ w.outq \in OutQueue
  BY WorkIs, TaskIs
<1>1. PICK r : r = sendMessage(w, t)
  OBVIOUS
<1>2. PICK n : SendsMore(w, r, t, n)
  BY <1>1, SendIs
<1>3. r.task.finished = w.task.finished
  BY <1>1, SendIs
<1>4. /\ r \in Work /\ n \in Nat /\ Adds(w.outq, r.outq, t, n)
      /\ r.task.inflight = w.task.inflight + n
  BY <1>2 DEF SendsMore
<1>5. CASE r.task.inflight # 0
  <2>1. sendMessageAndCheckFinish(w, t) = r
    BY <1>1, <1>5 DEF sendMessageAndCheckFinish
  <2> QED BY <1>2, <1>3, <1>5, <2>1
<1>6. CASE r.task.inflight = 0
  <2>1. PICK v : v = [task |-> Finished, outq |-> announcePeer(r, t)]
    OBVIOUS
  <2>2. sendMessageAndCheckFinish(w, t) = v
    BY <1>1, <1>6, <2>1, Zenon DEF sendMessageAndCheckFinish
  <2>3. n = 0 /\ w.task.inflight = 0
    BY <1>0, <1>4, <1>6
  <2>4. Adds(r.outq, v.outq, t, 0)
    BY <1>4, <2>1, AnnounceIs
  <2>5. \A u \in Task : Cardinality(QueuedOf(w.outq, u)) \in Nat
    BY <1>0, QueuedIs DEF OutQueue
  <2>6. Adds(w.outq, v.outq, t, 0)
    BY <1>4, <2>3, <2>4, <2>5 DEF Adds
  <2>7. v.task = Finished /\ v.task \in TaskState /\ v.task.inflight = 0 /\ v.task.finished = TRUE
    BY <2>1, NewTaskIs
  <2>8. v \in Work
    BY <2>1, <2>6, <2>7 DEF Work, Adds
  <2>9. SendsMore(w, v, t, 0)
    BY <2>3, <2>6, <2>7, <2>8 DEF SendsMore
  <2> QED BY <2>2, <2>7, <2>9
<1> QED BY <1>5, <1>6

\* Of the messages of t, left have not been answered when its callback turns
\* w into r, which sends m more: it is finished when none remains.
Goes(w, r, t, left, m) ==
    /\ r \in Work /\ m \in Nat /\ Adds(w.outq, r.outq, t, m)
    /\ r.task.finished <=> left + m = 0
    /\ KindOf[t] # "ping" => r.task.inflight = left + m
    /\ KindOf[t] = "ping" => left + m <= 1

LEMMA SameQueue ==
    ASSUME NEW q \in OutQueue, NEW t
    PROVE  Adds(q, q, t, 0)
<1>1. \A u \in Task : Cardinality(QueuedOf(q, u)) \in Nat
  BY QueuedIs DEF OutQueue
<1> QED BY <1>1 DEF Adds

\* One query of t is queued.
LEMMA OneMore ==
    ASSUME NEW q \in OutQueue, NEW t \in Task, NEW n \in Place
    PROVE  Adds(q, Append(q, Query(n, t)), t, 1)
<1>1. PICK x : x = Query(n, t)
  OBVIOUS
<1>2. x \in Message /\ x.task = t /\ ~x.reply
  BY <1>1 DEF Query, Message
<1>3. PICK d : d = <<x>>
  OBVIOUS
<1>4. d \in Seq(Message) /\ Len(d) = 1 /\ \A i \in 1 .. Len(d) : d[i] = x
  BY <1>2, <1>3
<1>5. Adds(q, q \o d, t, 1)
  BY <1>2, <1>4, QueueGrows
<1>6. q \o d = Append(q, x)
  <2>1. q \in Seq(Message)
    BY DEF OutQueue
  <2> QED BY <1>2, <1>3, <2>1
<1> QED BY <1>1, <1>5, <1>6

\* A callback that sends on.
LEMMA CheckGoes ==
    ASSUME NEW w \in Work, NEW t \in Task, NEW v \in Work, KindOf[t] # "ping",
           ~v.task.finished, v.outq = w.outq
    PROVE  \E m : Goes(w, sendMessageAndCheckFinish(v, t), t, v.task.inflight, m)
<1>1. PICK r : r = sendMessageAndCheckFinish(v, t)
  OBVIOUS
<1>2. PICK m : SendsMore(v, r, t, m)
  BY <1>1, CheckIs
<1>3. r.task.finished <=> r.task.inflight = 0
  BY <1>1, CheckIs
<1>4. Goes(w, r, t, v.task.inflight, m)
  BY <1>2, <1>3 DEF Goes, SendsMore
<1> QED BY <1>1, <1>4

\* A task with its callback to come: left more messages of it are waited for.
Waits(w, t, left) ==
    /\ w \in Work /\ t \in Task /\ left \in Nat /\ ~w.task.finished
    /\ KindOf[t] # "ping" => w.task.inflight = left + 1
    /\ KindOf[t] = "ping" => left = 0

LEMMA ReceivedGoes ==
    ASSUME NEW w, NEW t, NEW left, Waits(w, t, left),
           NEW n \in Node, NEW told \in SUBSET Id, IsFiniteSet(told)
    PROVE  \E m : Goes(w, onReceived(w, t, n, told), t, left, m)
<1>0. /\ w \in Work /\ t \in Task /\ left \in Nat /\ ~w.task.finished
      /\ w.task \in TaskState /\ w.outq \in OutQueue /\ w = [task |-> w.task, outq |-> w.outq]
  BY WorkIs DEF Waits
<1>1. CASE KindOf[t] = "ping"
  <2>1. PICK r : r = [w EXCEPT !.task = Finished]
    OBVIOUS
  <2>2. onReceived(w, t, n, told) = r
    BY <1>1, <2>1 DEF onReceived, PingReceived
  <2>3. r = [task |-> Finished, outq |-> w.outq]
    BY <1>0, <2>1
  <2>4. r \in Work /\ r.task.finished = TRUE /\ r.outq = w.outq
    BY <1>0, <2>3, NewTaskIs DEF Work
  <2>5. left = 0
    BY <1>1 DEF Waits
  <2>6. Goes(w, r, t, left, 0)
    BY <1>0, <1>1, <2>4, <2>5, SameQueue DEF Goes
  <2> QED BY <2>2, <2>6
<1>2. CASE KindOf[t] # "ping"
  <2>1. PICK a : a = w.task
    OBVIOUS
  <2>2. /\ a \in TaskState /\ a.entries \in Seq(LookupEntry) /\ a.inflight = left + 1
        /\ a.tokens \in SUBSET Node /\ a.finished = FALSE
    <3>1. a.inflight = left + 1 /\ ~a.finished
      BY <1>2, <2>1 DEF Waits
    <3> QED BY <1>0, <2>1, <3>1, TaskIs
  <2>3. PICK T, E : /\ T = IF KindOf[t] = "peerLookup" THEN a.tokens \cup {n} ELSE a.tokens
                    /\ E = Merge(a.entries, TargetOf[t], n, told)
    OBVIOUS
  <2>4. n \in Id
    BY DHTAssumption
  <2>5. T \in SUBSET Node /\ E \in Seq(LookupEntry)
    BY <2>2, <2>3, <2>4, MergeIs
  <2>6. PICK x : x = [a EXCEPT !.inflight = @ - 1]
    OBVIOUS
  <2>7. x \in TaskState /\ x.inflight = left /\ x.finished = FALSE /\ x.tokens = a.tokens /\ x.entries = a.entries
    <3>1. a.inflight - 1 = left
      BY <1>0, <2>2
    <3> QED BY <1>0, <2>2, <2>6, <3>1 DEF TaskState
  <2>8. PICK y : y = [x EXCEPT !.tokens = T]
    OBVIOUS
  <2>9. y \in TaskState /\ y.inflight = left /\ y.finished = FALSE /\ y.entries = a.entries
    BY <2>5, <2>7, <2>8 DEF TaskState
  <2>10. PICK z : z = [y EXCEPT !.entries = E]
    OBVIOUS
  <2>11. z \in TaskState /\ z.inflight = left /\ z.finished = FALSE
    BY <2>5, <2>9, <2>10 DEF TaskState
  <2>12. PICK v : v = [task |-> z, outq |-> w.outq]
    OBVIOUS
  <2>13. v \in Work /\ v.task = z /\ v.outq = w.outq
    BY <1>0, <2>11, <2>12 DEF Work
  <2>14. onReceived(w, t, n, told) = sendMessageAndCheckFinish(v, t)
    <3>1. onReceived(w, t, n, told) = sendMessageAndCheckFinish(
            [w EXCEPT !.task.inflight = @ - 1,
                  !.task.tokens = IF KindOf[t] = "peerLookup" THEN @ \cup {n} ELSE @,
                  !.task.entries = Merge(@, TargetOf[t], n, told)], t)
      BY <1>2 DEF onReceived
    <3>2. [w EXCEPT !.task.inflight = @ - 1] = [task |-> x, outq |-> w.outq]
      BY <1>0, <2>1, <2>6
    <3>3. [w EXCEPT !.task.inflight = @ - 1,
                  !.task.tokens = IF KindOf[t] = "peerLookup" THEN @ \cup {n} ELSE @,
                  !.task.entries = Merge(@, TargetOf[t], n, told)] = v
      <4>1. PICK w1 : w1 = [task |-> x, outq |-> w.outq]
        OBVIOUS
      <4>2. PICK w2 : w2 = [task |-> y, outq |-> w.outq]
        OBVIOUS
      <4>3. [w1 EXCEPT !.task.tokens = IF KindOf[t] = "peerLookup" THEN @ \cup {n} ELSE @] = w2
        BY <2>3, <2>7, <2>8, <4>1, <4>2
      <4>4. [w2 EXCEPT !.task.entries = Merge(@, TargetOf[t], n, told)] = v
        BY <2>3, <2>9, <2>10, <2>12, <4>2
      <4>5. w1 = [w EXCEPT !.task.inflight = @ - 1]
        BY <3>2, <4>1
      <4> QED BY <4>3, <4>4, <4>5
    <3> QED BY <3>1, <3>3
  <2> QED BY <1>0, <1>2, <2>11, <2>13, <2>14, CheckGoes
<1> QED BY <1>1, <1>2

LEMMA TimeoutGoes ==
    ASSUME NEW w, NEW t, NEW left, Waits(w, t, left), NEW n \in Place
    PROVE  \E m : Goes(w, onTimeout(w, t, n), t, left, m)
<1>0. /\ w \in Work /\ t \in Task /\ left \in Nat /\ ~w.task.finished
      /\ w.task \in TaskState /\ w.outq \in OutQueue /\ w = [task |-> w.task, outq |-> w.outq]
  BY WorkIs DEF Waits
<1>a. PICK a : a = w.task
  OBVIOUS
<1>b. /\ a \in TaskState /\ a.entries \in Seq(LookupEntry) /\ a.inflight \in Nat /\ a.retry \in Nat
      /\ a.finished = FALSE
  BY <1>0, <1>a, TaskIs
<1>1. CASE KindOf[t] = "ping"
  <2>0. left = 0
    BY <1>1 DEF Waits
  <2>1. CASE a.retry + 1 >= Retries
    <3>1. PICK r : r = [w EXCEPT !.task = Finished]
      OBVIOUS
    <3>2. onTimeout(w, t, n) = r
      BY <1>1, <1>a, <2>1, <3>1 DEF onTimeout, PingTimeout
    <3>3. r = [task |-> Finished, outq |-> w.outq]
      BY <1>0, <3>1
    <3>4. r \in Work /\ r.task.finished = TRUE /\ r.outq = w.outq
      BY <1>0, <3>3, NewTaskIs DEF Work
    <3>5. Goes(w, r, t, left, 0)
      BY <1>0, <1>1, <2>0, <3>4, SameQueue DEF Goes
    <3> QED BY <3>2, <3>5
  <2>2. CASE ~(a.retry + 1 >= Retries)
    <3>1. PICK x : x = [a EXCEPT !.retry = @ + 1]
      OBVIOUS
    <3>2. x \in TaskState /\ x.finished = FALSE
      BY <1>b, <3>1 DEF TaskState
    <3>3. PICK r : r = [task |-> x, outq |-> Append(w.outq, Query(n, t))]
      OBVIOUS
    <3>4. onTimeout(w, t, n) = r
      <4>1. onTimeout(w, t, n) = [w EXCEPT !.task.retry = @ + 1, !.outq = Append(@, Query(n, t))]
        BY <1>1, <1>a, <2>2 DEF onTimeout, PingTimeout
      <4>2. [w EXCEPT !.task.retry = @ + 1] = [task |-> x, outq |-> w.outq]
        BY <1>0, <1>a, <3>1
      <4> QED BY <1>0, <1>a, <3>1, <3>3, <4>1, <4>2
    <3>5. Adds(w.outq, r.outq, t, 1) /\ r.task = x
      BY <1>0, <3>3, OneMore
    <3>6. r \in Work
      BY <3>2, <3>3, <3>5 DEF Work, Adds
    <3>7. Goes(w, r, t, left, 1)
      BY <1>1, <2>0, <3>2, <3>5, <3>6 DEF Goes
    <3> QED BY <3>4, <3>7
  <2> QED BY <2>1, <2>2
<1>2. CASE KindOf[t] # "ping"
  <2>2. a.inflight = left + 1
    BY <1>2, <1>a DEF Waits
  <2>3. PICK E \in Seq(LookupEntry) : E = Forget(a.entries, n)
    BY <1>b, ForgetIs
  <2>6. PICK x : x = [a EXCEPT !.inflight = @ - 1]
    OBVIOUS
  <2>7. x \in TaskState /\ x.inflight = left /\ x.finished = FALSE /\ x.entries = a.entries
    <3>1. a.inflight - 1 = left
      BY <1>0, <2>2
    <3> QED BY <1>0, <1>b, <2>6, <3>1 DEF TaskState
  <2>10. PICK z : z = [x EXCEPT !.entries = E]
    OBVIOUS
  <2>11. z \in TaskState /\ z.inflight = left /\ z.finished = FALSE
    BY <2>3, <2>7, <2>10 DEF TaskState
  <2>12. PICK v : v = [task |-> z, outq |-> w.outq]
    OBVIOUS
  <2>13. v \in Work /\ v.task = z /\ v.outq = w.outq
    BY <1>0, <2>11, <2>12 DEF Work
  <2>14. onTimeout(w, t, n) = sendMessageAndCheckFinish(v, t)
    <3>1. onTimeout(w, t, n) = sendMessageAndCheckFinish(
            [w EXCEPT !.task.inflight = @ - 1, !.task.entries = Forget(@, n)], t)
      BY <1>2 DEF onTimeout
    <3>2. [w EXCEPT !.task.inflight = @ - 1] = [task |-> x, outq |-> w.outq]
      BY <1>0, <1>a, <2>6
    <3>3. [w EXCEPT !.task.inflight = @ - 1, !.task.entries = Forget(@, n)] = v
      <4>1. PICK w1 : w1 = [task |-> x, outq |-> w.outq]
        OBVIOUS
      <4>2. [w1 EXCEPT !.task.entries = Forget(@, n)] = v
        BY <2>3, <2>7, <2>10, <2>12, <4>1
      <4>3. w1 = [w EXCEPT !.task.inflight = @ - 1]
        BY <3>2, <4>1
      <4> QED BY <4>2, <4>3
    <3> QED BY <3>1, <3>3
  <2> QED BY <1>0, <1>2, <2>11, <2>13, <2>14, CheckGoes
<1> QED BY <1>1, <1>2

LEMMA StartupGoes ==
    ASSUME NEW w \in Work, NEW t \in Task, table \in Table, bad \in SUBSET Id,
           ~w.task.finished, KindOf[t] # "ping" => w.task.inflight = 0
    PROVE  \E m : Goes(w, startup(w, t), t, 0, m)
<1>0. /\ w.task \in TaskState /\ w.outq \in OutQueue /\ w = [task |-> w.task, outq |-> w.outq]
  BY WorkIs
<1>1. CASE KindOf[t] = "ping"
  <2>1. PICK n \in Place : n = TargetOf[t]
    BY DEF Place
  <2>2. PICK r : r = [task |-> w.task, outq |-> Append(w.outq, Query(n, t))]
    OBVIOUS
  <2>3. startup(w, t) = r
    <3>1. startup(w, t) = [w EXCEPT !.outq = Append(@, Query(n, t))]
      BY <1>1, <2>1 DEF startup, PingStartup
    <3> QED BY <1>0, <2>2, <3>1
  <2>4. Adds(w.outq, r.outq, t, 1) /\ r.task = w.task
    BY <1>0, <2>2, OneMore
  <2>5. r \in Work
    BY <1>0, <2>2, <2>4 DEF Work, Adds
  <2>6. Goes(w, r, t, 0, 1)
    BY <1>1, <2>4, <2>5 DEF Goes
  <2> QED BY <2>3, <2>6
<1>2. CASE KindOf[t] # "ping"
  <2>1. TargetOf[t] \in Id
    BY <1>2, DHTAssumption
  <2>2. PICK c \in Seq(Id) : c = getClosestKNodes(table, bad, TargetOf[t])
    BY <2>1, ClosestIs
  <2>3. PICK E : E = [i \in DOMAIN c |-> [node |-> c[i], used |-> FALSE]]
    OBVIOUS
  <2>4. E \in Seq(LookupEntry)
    <3>1. Len(c) \in Nat /\ DOMAIN c = 1 .. Len(c) /\ \A i \in 1 .. Len(c) : c[i] \in Id
      BY SeqIs
    <3>2. \A i \in 1 .. Len(c) : [node |-> c[i], used |-> FALSE] \in LookupEntry
      BY <3>1 DEF LookupEntry
    <3> QED BY <2>3, <3>1, <3>2
  <2>5. PICK x : x = [w.task EXCEPT !.entries = E]
    OBVIOUS
  <2>6. x \in TaskState /\ x.inflight = 0 /\ x.finished = w.task.finished
    BY <1>0, <1>2, <2>4, <2>5 DEF TaskState
  <2>7. PICK v : v = [task |-> x, outq |-> w.outq]
    OBVIOUS
  <2>8. v \in Work /\ v.task = x /\ v.outq = w.outq
    BY <1>0, <2>6, <2>7 DEF Work
  <2>9. PICK r : r = sendMessage(v, t)
    OBVIOUS
  <2>10. PICK m : SendsMore(v, r, t, m)
    BY <2>8, <2>9, SendIs
  <2>11. /\ r \in Work /\ m \in Nat /\ Adds(w.outq, r.outq, t, m) /\ r.task.inflight = m
         /\ ~r.task.finished
    <3>1. ~r.task.finished
      BY <2>6, <2>8, <2>9, SendIs
    <3>2. r \in Work /\ m \in Nat /\ Adds(w.outq, r.outq, t, m) /\ r.task.inflight = 0 + m
      BY <2>6, <2>8, <2>10 DEF SendsMore
    <3> QED BY <3>1, <3>2
  <2>12. startup(w, t) = IF r.task.inflight = 0 THEN [w EXCEPT !.task = Finished] ELSE r
    <3>1. [w EXCEPT !.task.entries = E] = v
      BY <1>0, <2>5, <2>7
    <3>2. startup(w, t) = IF sendMessage([w EXCEPT !.task.entries = E], t).task.inflight = 0
                          THEN [w EXCEPT !.task = Finished]
                          ELSE sendMessage([w EXCEPT !.task.entries = E], t)
      BY <1>2, <2>2, <2>3, Zenon DEF startup
    <3> QED BY <2>9, <3>1, <3>2
  <2>13. CASE m = 0
    <3>1. PICK y : y = [w EXCEPT !.task = Finished]
      OBVIOUS
    <3>2. y = [task |-> Finished, outq |-> w.outq]
      BY <1>0, <3>1
    <3>3. y \in Work /\ y.task.finished = TRUE /\ y.task.inflight = 0 /\ y.outq = w.outq
      BY <1>0, <3>2, NewTaskIs DEF Work
    <3>4. Goes(w, y, t, 0, 0)
      BY <1>0, <1>2, <3>3, SameQueue DEF Goes
    <3> QED BY <2>11, <2>12, <2>13, <3>1, <3>4
  <2>14. CASE m # 0
    <3>1. Goes(w, r, t, 0, m)
      BY <1>2, <2>11, <2>14 DEF Goes
    <3> QED BY <2>11, <2>12, <2>14, <3>1
  <2> QED BY <2>13, <2>14
<1> QED BY <1>1, <1>2

(***************************************************************************)
(* Tasks and the messages they wait for.                                   *)
(***************************************************************************)
Count(q, b, t) == Cardinality(QueuedOf(q, t)) + Cardinality(TrackedOf(b, t))

\* Of task t, whose state is a, c messages are queued or tracked.
Counted(executed, a, c, t) ==
    /\ c \in Nat
    /\ c > 0 <=> executed /\ ~a.finished
    /\ KindOf[t] # "ping" => a.inflight = c
    /\ KindOf[t] = "ping" => c <= 1

\* A task waits in the queue of its executor or is executed by it, not both,
\* and what waits has not been begun.
Queued(Q, X, T) ==
    /\ Q \in [Executor -> Seq(Task)] /\ X \in [Executor -> SUBSET Task] /\ T \in [Task -> TaskState]
    /\ \A x \in Executor :
        /\ IsInjective(Q[x])
        /\ \A t \in X[x] : QueueOf[t] = x
        /\ \A t \in ToSet(Q[x]) : QueueOf[t] = x /\ t \notin X[x] /\ ~T[t].finished

Sound(Q, X, T, O, b) ==
    /\ Queued(Q, X, T) /\ O \in OutQueue /\ b \in Tracker
    /\ \A t \in Task : Counted(t \in X[QueueOf[t]], T[t], Count(O, b, t), t)

LEMMA CountIs ==
    ASSUME NEW q \in OutQueue, NEW b \in Tracker, NEW t \in Task
    PROVE  /\ Cardinality(QueuedOf(q, t)) \in Nat /\ Cardinality(TrackedOf(b, t)) \in Nat
           /\ Count(q, b, t) \in Nat
<1>1. Cardinality(QueuedOf(q, t)) \in Nat
  BY QueuedIs DEF OutQueue
<1>2. Cardinality(TrackedOf(b, t)) \in Nat
  BY FS_CardinalityType DEF Tracker
<1> QED BY <1>1, <1>2 DEF Count

\* More messages of one task.
LEMMA CountGrows ==
    ASSUME NEW q \in OutQueue, NEW r, NEW b \in Tracker, NEW t, NEW m \in Nat, Adds(q, r, t, m)
    PROVE  /\ r \in OutQueue
           /\ \A u \in Task : Count(r, b, u) = Count(q, b, u) + IF u = t THEN m ELSE 0
<1>1. r \in OutQueue
  BY DEF Adds
<1>2. ASSUME NEW u \in Task PROVE Count(r, b, u) = Count(q, b, u) + IF u = t THEN m ELSE 0
  <2>1. PICK x, y, z : x = Cardinality(QueuedOf(q, u)) /\ y = Cardinality(TrackedOf(b, u)) /\ z = Cardinality(QueuedOf(r, u))
    OBVIOUS
  <2>2. x \in Nat /\ y \in Nat /\ z = x + (IF u = t THEN m ELSE 0)
    BY <2>1, CountIs DEF Adds
  <2>3. z + y = (x + y) + (IF u = t THEN m ELSE 0)
    BY <2>2
  <2> QED BY <2>1, <2>3 DEF Count
<1> QED BY <1>1, <1>2

\* A message is answered or given up.
LEMMA CountShrinks ==
    ASSUME NEW q \in OutQueue, NEW b \in Tracker, NEW e \in DOMAIN b, NEW c, c = Multiset!BagRemove(b, e)
    PROVE  /\ c \in Tracker
           /\ \A u \in Task : Count(q, b, u) = Count(q, c, u) + IF u = e.task THEN 1 ELSE 0
<1>1. c \in Tracker
  BY BagShrinks
<1>2. ASSUME NEW u \in Task PROVE Count(q, b, u) = Count(q, c, u) + IF u = e.task THEN 1 ELSE 0
  <2>1. PICK x, y, z : x = Cardinality(QueuedOf(q, u)) /\ y = Cardinality(TrackedOf(b, u)) /\ z = Cardinality(TrackedOf(c, u))
    OBVIOUS
  <2>2. x \in Nat /\ y \in Nat /\ z \in Nat
    BY <1>1, <2>1, CountIs
  <2>3. y = z + IF u = e.task THEN 1 ELSE 0
    BY <2>1, BagShrinks
  <2>4. x + y = (x + z) + (IF u = e.task THEN 1 ELSE 0)
    BY <2>2, <2>3
  <2> QED BY <2>1, <2>4 DEF Count
<1> QED BY <1>1, <1>2

\* The callback of a task.
LEMMA CallbackSound ==
    ASSUME NEW Q, NEW X, NEW T, NEW O, NEW b, Sound(Q, X, T, O, b), NEW e \in DOMAIN b,
           NEW t \in Task, t = e.task, NEW c, c = Multiset!BagRemove(b, e)
    PROVE  /\ Waits([task |-> T[t], outq |-> O], t, Count(O, c, t))
           /\ \A r, m : Goes([task |-> T[t], outq |-> O], r, t, Count(O, c, t), m)
                          => Sound(Q, X, [T EXCEPT ![t] = r.task], r.outq, c)
<1>0. /\ Queued(Q, X, T) /\ O \in OutQueue /\ b \in Tracker
      /\ \A u \in Task : Counted(u \in X[QueueOf[u]], T[u], Count(O, b, u), u)
  BY DEF Sound
<1>1. /\ Q \in [Executor -> Seq(Task)] /\ X \in [Executor -> SUBSET Task] /\ T \in [Task -> TaskState]
  BY <1>0 DEF Queued
<1>2. c \in Tracker /\ \A u \in Task : Count(O, b, u) = Count(O, c, u) + IF u = t THEN 1 ELSE 0
  BY <1>0, CountShrinks
<1>3. PICK left \in Nat : left = Count(O, c, t)
  BY <1>0, <1>2, CountIs
<1>4. /\ t \in X[QueueOf[t]] /\ ~T[t].finished
      /\ KindOf[t] # "ping" => T[t].inflight = left + 1
      /\ KindOf[t] = "ping" => left = 0
  <2>1. Count(O, b, t) = left + 1
    BY <1>2, <1>3
  <2>2. Counted(t \in X[QueueOf[t]], T[t], left + 1, t)
    BY <1>0, <2>1
  <2> QED BY <2>2 DEF Counted
<1>5. PICK w : w = [task |-> T[t], outq |-> O]
  OBVIOUS
<1>6. w \in Work /\ w.task = T[t] /\ w.outq = O
  BY <1>0, <1>1, <1>5 DEF Work
<1>7. Waits(w, t, left)
  BY <1>4, <1>6 DEF Waits
<1>8. ASSUME NEW r, NEW m, Goes(w, r, t, left, m) PROVE Sound(Q, X, [T EXCEPT ![t] = r.task], r.outq, c)
  <2>1. /\ r \in Work /\ m \in Nat /\ Adds(O, r.outq, t, m)
        /\ r.task.finished <=> left + m = 0
        /\ KindOf[t] # "ping" => r.task.inflight = left + m
        /\ KindOf[t] = "ping" => left + m <= 1
    BY <1>6, <1>8 DEF Goes
  <2>2. r.task \in TaskState
    BY <2>1, WorkIs
  <2>3. PICK U : U = [T EXCEPT ![t] = r.task]
    OBVIOUS
  <2>4. U \in [Task -> TaskState] /\ U[t] = r.task /\ \A u \in Task : u # t => U[u] = T[u]
    BY <1>1, <2>2, <2>3
  <2>5. r.outq \in OutQueue /\ \A u \in Task : Count(r.outq, c, u) = Count(O, c, u) + IF u = t THEN m ELSE 0
    <3>1. PICK o : o = r.outq
      OBVIOUS
    <3>2. Adds(O, o, t, m) /\ m \in Nat
      BY <2>1, <3>1
    <3>3. o \in OutQueue /\ \A u \in Task : Count(o, c, u) = Count(O, c, u) + IF u = t THEN m ELSE 0
      BY <1>0, <1>2, <3>2, CountGrows
    <3> QED BY <3>1, <3>3
  <2>6. Queued(Q, X, U)
    <3>1. ASSUME NEW x \in Executor, NEW u \in ToSet(Q[x])
          PROVE  QueueOf[u] = x /\ u \notin X[x] /\ ~U[u].finished
      <4>1. QueueOf[u] = x /\ u \notin X[x] /\ ~T[u].finished
        BY <1>0, <3>1 DEF Queued
      <4>2. u # t
        BY <1>4, <4>1
      <4>3. Q[x] \in Seq(Task)
        BY <1>1
      <4>4. u \in Task
        BY <4>3, SeqIs
      <4> QED BY <2>4, <4>1, <4>2, <4>4
    <3> QED BY <1>0, <2>4, <3>1 DEF Queued
  <2>7. ASSUME NEW u \in Task PROVE Counted(u \in X[QueueOf[u]], U[u], Count(r.outq, c, u), u)
    <3>1. CASE u = t
      <4>1. Count(r.outq, c, u) = left + m
        BY <1>3, <2>5, <3>1
      <4>2. PICK k \in Nat : k = left + m
        BY <2>1
      <4>3. Counted(t \in X[QueueOf[t]], r.task, k, t)
        BY <1>4, <2>1, <4>2 DEF Counted
      <4> QED BY <2>4, <3>1, <4>1, <4>2, <4>3
    <3>2. CASE u # t
      <4>1. Count(r.outq, c, u) = Count(O, c, u) + 0 /\ Count(O, b, u) = Count(O, c, u) + 0
        BY <1>2, <2>5, <3>2
      <4>2. Count(O, c, u) \in Nat
        BY <1>0, <1>2, CountIs
      <4>3. Count(r.outq, c, u) = Count(O, b, u)
        BY <4>1, <4>2
      <4> QED BY <1>0, <2>4, <3>2, <4>3
    <3> QED BY <3>1, <3>2
  <2> QED BY <1>2, <2>3, <2>5, <2>6, <2>7 DEF Sound
<1> QED BY <1>3, <1>5, <1>7, <1>8

\* The first task in the queue of an executor is begun.
LEMMA StartSound ==
    ASSUME NEW Q, NEW X, NEW T, NEW O, NEW b, Sound(Q, X, T, O, b), table \in Table, bad \in SUBSET Id,
           NEW x \in Executor, Q[x] # <<>>, NEW t, t = Head(Q[x]),
           NEW w, w = startup([task |-> T[t], outq |-> O], t)
    PROVE  Sound([Q EXCEPT ![x] = Tail(@)],
                 [X EXCEPT ![x] = IF w.task.finished THEN @ ELSE @ \cup {t}],
                 [T EXCEPT ![t] = IF w.task.finished /\ t \notin held THEN NewTask ELSE w.task],
                 w.outq, b)
<1>0. /\ Queued(Q, X, T) /\ O \in OutQueue /\ b \in Tracker
      /\ \A u \in Task : Counted(u \in X[QueueOf[u]], T[u], Count(O, b, u), u)
  BY DEF Sound
<1>1. /\ Q \in [Executor -> Seq(Task)] /\ X \in [Executor -> SUBSET Task] /\ T \in [Task -> TaskState]
      /\ \A y \in Executor :
        /\ IsInjective(Q[y])
        /\ \A u \in X[y] : QueueOf[u] = y
        /\ \A u \in ToSet(Q[y]) : QueueOf[u] = y /\ u \notin X[y] /\ ~T[u].finished
  BY <1>0 DEF Queued
<1>2. PICK q \in Seq(Task) : q = Q[x] /\ IsInjective(q)
  BY <1>1
<1>3. /\ t \in Task /\ Tail(q) \in Seq(Task) /\ ToSet(q) = {t} \cup ToSet(Tail(q))
      /\ IsInjective(Tail(q)) /\ t \notin ToSet(Tail(q))
  BY <1>2, HeadIs
<1>4. QueueOf[t] = x /\ t \notin X[x] /\ ~T[t].finished
  BY <1>1, <1>2, <1>3
<1>5. Count(O, b, t) = 0 /\ (KindOf[t] # "ping" => T[t].inflight = 0)
  <2>1. Counted(t \in X[QueueOf[t]], T[t], Count(O, b, t), t)
    BY <1>0, <1>3
  <2> QED BY <1>4, <2>1 DEF Counted
<1>6. PICK v : v = [task |-> T[t], outq |-> O]
  OBVIOUS
<1>7. v \in Work /\ v.task = T[t] /\ v.outq = O
  BY <1>0, <1>1, <1>3, <1>6 DEF Work
<1>8. PICK m : Goes(v, w, t, 0, m)
  BY <1>3, <1>4, <1>5, <1>6, <1>7, StartupGoes
<1>9. /\ w \in Work /\ m \in Nat /\ Adds(O, w.outq, t, m)
      /\ w.task.finished <=> m = 0
      /\ KindOf[t] # "ping" => w.task.inflight = m
      /\ KindOf[t] = "ping" => m <= 1
  <2>1. m \in Nat /\ 0 + m = m
    BY <1>8 DEF Goes
  <2> QED BY <1>7, <1>8, <2>1 DEF Goes
<1>10. PICK o : o = w.outq
  OBVIOUS
<1>11. o \in OutQueue /\ \A u \in Task : Count(o, b, u) = Count(O, b, u) + IF u = t THEN m ELSE 0
  <2>1. Adds(O, o, t, m) /\ m \in Nat
    BY <1>9, <1>10
  <2> QED BY <1>0, <2>1, CountGrows
<1>12. PICK a : a = IF w.task.finished /\ t \notin held THEN NewTask ELSE w.task
  OBVIOUS
<1>13. /\ a \in TaskState /\ (KindOf[t] # "ping" => a.inflight = m)
       /\ m # 0 => ~a.finished
  <2>1. w.task \in TaskState
    BY <1>9, WorkIs
  <2>2. CASE w.task.finished /\ t \notin held
    BY <1>9, <1>12, <2>2, NewTaskIs
  <2>3. CASE ~(w.task.finished /\ t \notin held)
    BY <1>9, <1>12, <2>1, <2>3
  <2> QED BY <2>2, <2>3
<1>14. PICK Q2, X2, T2 : /\ Q2 = [Q EXCEPT ![x] = Tail(@)]
                         /\ X2 = [X EXCEPT ![x] = IF w.task.finished THEN @ ELSE @ \cup {t}]
                         /\ T2 = [T EXCEPT ![t] = a]
  OBVIOUS
<1>15. /\ Q2 \in [Executor -> Seq(Task)] /\ Q2[x] = Tail(q) /\ \A y \in Executor : y # x => Q2[y] = Q[y]
  BY <1>1, <1>2, <1>3, <1>14
<1>16. /\ X2 \in [Executor -> SUBSET Task] /\ \A y \in Executor : y # x => X2[y] = X[y]
       /\ \A u : u \in X2[x] <=> u \in X[x] \/ (m # 0 /\ u = t)
  <2>1. X2[x] = IF w.task.finished THEN X[x] ELSE X[x] \cup {t}
    BY <1>1, <1>14
  <2>2. X2 \in [Executor -> SUBSET Task] /\ \A y \in Executor : y # x => X2[y] = X[y]
    BY <1>1, <1>3, <1>14
  <2> QED BY <1>9, <2>1, <2>2
<1>17. T2 \in [Task -> TaskState] /\ T2[t] = a /\ \A u \in Task : u # t => T2[u] = T[u]
  BY <1>1, <1>3, <1>13, <1>14
<1>18. Queued(Q2, X2, T2)
  <2>1. ASSUME NEW y \in Executor PROVE IsInjective(Q2[y]) /\ \A u \in X2[y] : QueueOf[u] = y
    <3>1. CASE y = x
      BY <1>1, <1>3, <1>4, <1>15, <1>16, <3>1
    <3>2. CASE y # x
      BY <1>1, <1>15, <1>16, <3>2
    <3> QED BY <3>1, <3>2
  <2>2. ASSUME NEW y \in Executor, NEW u \in ToSet(Q2[y])
        PROVE  QueueOf[u] = y /\ u \notin X2[y] /\ ~T2[u].finished
    <3>0. u \in Task
      <4>1. Q2[y] \in Seq(Task)
        BY <1>15
      <4> QED BY <2>2, <4>1, SeqIs
    <3>1. CASE y = x
      <4>1. u \in ToSet(q) /\ u # t
        BY <1>3, <1>15, <2>2, <3>1
      <4> QED BY <1>1, <1>2, <1>16, <1>17, <3>0, <3>1, <4>1
    <3>2. CASE y # x
      <4>1. QueueOf[u] = y /\ u \notin X[y] /\ ~T[u].finished
        BY <1>1, <1>15, <2>2, <3>2
      <4>2. u # t
        BY <1>4, <3>2, <4>1
      <4> QED BY <1>16, <1>17, <3>0, <3>2, <4>1, <4>2
    <3> QED BY <3>1, <3>2
  <2> QED BY <1>15, <1>16, <1>17, <2>1, <2>2 DEF Queued
<1>19. ASSUME NEW u \in Task PROVE Counted(u \in X2[QueueOf[u]], T2[u], Count(o, b, u), u)
  <2>1. CASE u = t
    <3>1. Count(o, b, u) = m
      BY <1>5, <1>9, <1>11, <2>1
    <3>2. u \in X2[QueueOf[u]] <=> m # 0
      BY <1>4, <1>16, <2>1
    <3>3. Counted(u \in X2[QueueOf[u]], a, m, u)
      BY <1>9, <1>13, <2>1, <3>2 DEF Counted
    <3> QED BY <1>17, <2>1, <3>1, <3>3
  <2>2. CASE u # t
    <3>1. Count(O, b, u) \in Nat
      BY <1>0, CountIs
    <3>2. Count(o, b, u) = Count(O, b, u)
      BY <1>11, <2>2, <3>1
    <3>3. u \in X2[QueueOf[u]] <=> u \in X[QueueOf[u]]
      <4>1. QueueOf[u] \in Executor
        BY DHTAssumption
      <4> QED BY <1>16, <2>2, <4>1
    <3>4. Counted(u \in X[QueueOf[u]], T[u], Count(O, b, u), u)
      BY <1>0
    <3> QED BY <1>17, <2>2, <3>2, <3>3, <3>4 DEF Counted
  <2> QED BY <2>1, <2>2
<1>20. Sound(Q2, X2, T2, o, b)
  BY <1>0, <1>11, <1>18, <1>19 DEF Sound
<1> QED BY <1>10, <1>12, <1>14, <1>20

\* Executor x lets the finished tasks in done go.
Releases(X, T, x, done, X2, T2) ==
    /\ done = {t \in X[x] : T[t].finished}
    /\ X2 = [X EXCEPT ![x] = @ \ done]
    /\ T2 = [t \in Task |-> IF t \in done \ held THEN NewTask ELSE T[t]]

LEMMA ReleaseSound ==
    ASSUME NEW Q, NEW X, NEW T, NEW O, NEW b, Sound(Q, X, T, O, b), NEW x \in Executor,
           NEW done, NEW X2, NEW T2, Releases(X, T, x, done, X2, T2)
    PROVE  Sound(Q, X2, T2, O, b)
<1>0. /\ Queued(Q, X, T) /\ O \in OutQueue /\ b \in Tracker
      /\ \A u \in Task : Counted(u \in X[QueueOf[u]], T[u], Count(O, b, u), u)
  BY DEF Sound
<1>1. /\ Q \in [Executor -> Seq(Task)] /\ X \in [Executor -> SUBSET Task] /\ T \in [Task -> TaskState]
      /\ \A y \in Executor :
        /\ IsInjective(Q[y])
        /\ \A u \in X[y] : QueueOf[u] = y
        /\ \A u \in ToSet(Q[y]) : QueueOf[u] = y /\ u \notin X[y] /\ ~T[u].finished
  BY <1>0 DEF Queued
<1>2. /\ done = {t \in X[x] : T[t].finished} /\ X2 = [X EXCEPT ![x] = @ \ done]
      /\ T2 = [t \in Task |-> IF t \in done \ held THEN NewTask ELSE T[t]]
  BY DEF Releases
<1>3. /\ X2 \in [Executor -> SUBSET Task] /\ \A y \in Executor : X2[y] \subseteq X[y]
      /\ \A y \in Executor : y # x => X2[y] = X[y]
      /\ \A u : u \in X2[x] <=> u \in X[x] /\ u \notin done
  BY <1>1, <1>2
<1>4. /\ T2 \in [Task -> TaskState]
      /\ \A u \in Task : T2[u] = IF u \in done \ held THEN NewTask ELSE T[u]
  BY <1>1, <1>2, NewTaskIs
<1>5. Queued(Q, X2, T2)
  <2>1. ASSUME NEW y \in Executor, NEW u \in ToSet(Q[y])
        PROVE  QueueOf[u] = y /\ u \notin X2[y] /\ ~T2[u].finished
    <3>1. QueueOf[u] = y /\ u \notin X[y] /\ ~T[u].finished
      BY <1>1, <2>1
    <3>2. u \in Task
      <4>1. Q[y] \in Seq(Task)
        BY <1>1
      <4> QED BY <2>1, <4>1, SeqIs
    <3>3. u \notin done
      BY <1>2, <3>1
    <3> QED BY <1>3, <1>4, <3>1, <3>2, <3>3
  <2> QED BY <1>1, <1>3, <1>4, <2>1 DEF Queued
<1>6. ASSUME NEW u \in Task PROVE Counted(u \in X2[QueueOf[u]], T2[u], Count(O, b, u), u)
  <2>0. QueueOf[u] \in Executor /\ Counted(u \in X[QueueOf[u]], T[u], Count(O, b, u), u)
    BY <1>0, DHTAssumption
  <2>1. CASE u \in done
    <3>1. u \in X[x] /\ T[u].finished /\ QueueOf[u] = x
      BY <1>1, <1>2, <2>1
    <3>2. Count(O, b, u) = 0 /\ (KindOf[u] # "ping" => T[u].inflight = 0)
      BY <2>0, <3>1 DEF Counted
    <3>3. u \notin X2[QueueOf[u]]
      BY <1>3, <2>1, <3>1
    <3>4. KindOf[u] # "ping" => T2[u].inflight = 0
      BY <1>4, <3>2, NewTaskIs
    <3> QED BY <3>2, <3>3, <3>4 DEF Counted
  <2>2. CASE u \notin done
    <3>1. T2[u] = T[u]
      BY <1>4, <2>2
    <3>2. u \in X2[QueueOf[u]] <=> u \in X[QueueOf[u]]
      BY <1>3, <2>0, <2>2
    <3> QED BY <2>0, <3>1, <3>2 DEF Counted
  <2> QED BY <2>1, <2>2
<1> QED BY <1>0, <1>5, <1>6 DEF Sound

Snapshot == [queue : [Executor -> Seq(Task)], exec : [Executor -> SUBSET Task],
             task : [Task -> TaskState], outq : OutQueue]

SoundIn(s, b) == s \in Snapshot /\ Sound(s.queue, s.exec, s.task, s.outq, b)

LEMMA SnapshotIs ==
    ASSUME NEW Q, NEW X, NEW T, NEW O, NEW b, Sound(Q, X, T, O, b),
           NEW s, s = [queue |-> Q, exec |-> X, task |-> T, outq |-> O]
    PROVE  SoundIn(s, b)
<1>1. Q \in [Executor -> Seq(Task)] /\ X \in [Executor -> SUBSET Task] /\ T \in [Task -> TaskState] /\ O \in OutQueue
  BY DEF Sound, Queued
<1>2. s \in Snapshot
  BY <1>1 DEF Snapshot
<1>3. s.queue = Q /\ s.exec = X /\ s.task = T /\ s.outq = O
  OBVIOUS
<1> QED BY <1>2, <1>3 DEF SoundIn

LEMMA SnapshotHas ==
    ASSUME NEW s, NEW b, SoundIn(s, b)
    PROVE  /\ s = [queue |-> s.queue, exec |-> s.exec, task |-> s.task, outq |-> s.outq]
           /\ s.queue \in [Executor -> Seq(Task)]
           /\ Sound(s.queue, s.exec, s.task, s.outq, b)
BY DEF SoundIn, Snapshot

\* One round of the loop of DHTTaskExecutor::update.
LEMMA StartNextSound ==
    ASSUME NEW s, NEW b, SoundIn(s, b), table \in Table, bad \in SUBSET Id, NEW x \in Executor
    PROVE  SoundIn(StartNext(s, x), b)
<1>1. PICK Q, X, T, O : Q = s.queue /\ X = s.exec /\ T = s.task /\ O = s.outq
  OBVIOUS
<1>2. s = [queue |-> Q, exec |-> X, task |-> T, outq |-> O] /\ Sound(Q, X, T, O, b)
  BY <1>1, SnapshotHas
<1>3. PICK t, w : t = Head(Q[x]) /\ w = startup([task |-> T[t], outq |-> O], t)
  OBVIOUS
<1>4. CASE Q[x] = <<>> \/ Cardinality(X[x]) >= NumConcurrent
  <2>1. StartNext(s, x) = s
    BY <1>1, <1>4 DEF StartNext
  <2> QED BY <2>1
<1>5. CASE ~(Q[x] = <<>> \/ Cardinality(X[x]) >= NumConcurrent)
  <2>1. PICK Q2, X2, T2 :
          /\ Q2 = [Q EXCEPT ![x] = Tail(@)]
          /\ X2 = [X EXCEPT ![x] = IF w.task.finished THEN @ ELSE @ \cup {t}]
          /\ T2 = [T EXCEPT ![t] = IF w.task.finished /\ t \notin held THEN NewTask ELSE w.task]
    OBVIOUS
  <2>2. Sound(Q2, X2, T2, w.outq, b)
    BY <1>2, <1>3, <1>5, <2>1, StartSound
  <2>3. StartNext(s, x) = [queue |-> Q2, exec |-> X2, task |-> T2, outq |-> w.outq]
    <3>1. StartNext(s, x) = Begin(s, x, t, w)
      BY <1>1, <1>3, <1>5, Zenon DEF StartNext
    <3>2. Begin(s, x, t, w) = [queue |-> Q2, exec |-> X2, task |-> T2, outq |-> w.outq]
      BY <1>1, <2>1, Zenon DEF Begin
    <3> QED BY <3>1, <3>2
  <2> QED BY <2>2, <2>3, SnapshotIs
<1> QED BY <1>4, <1>5

LEMMA ReleasedSound ==
    ASSUME NEW s, NEW b, SoundIn(s, b), NEW x \in Executor,
           NEW done, done = {t \in s.exec[x] : s.task[t].finished}
    PROVE  SoundIn(LetGo(s, x, done), b)
<1>1. PICK Q, X, T, O : Q = s.queue /\ X = s.exec /\ T = s.task /\ O = s.outq
  OBVIOUS
<1>2. s = [queue |-> Q, exec |-> X, task |-> T, outq |-> O] /\ Sound(Q, X, T, O, b)
  BY <1>1, SnapshotHas
<1>3. done = {t \in X[x] : T[t].finished}
  BY <1>1
<1>4. PICK X2, T2 : /\ X2 = [X EXCEPT ![x] = @ \ done]
                    /\ T2 = [t \in Task |-> IF t \in done \ held THEN NewTask ELSE T[t]]
  OBVIOUS
<1>a. Releases(X, T, x, done, X2, T2)
  BY <1>3, <1>4, Zenon DEF Releases
<1>5. Sound(Q, X2, T2, O, b)
  BY <1>2, <1>a, ReleaseSound
<1>6. LetGo(s, x, done) = [queue |-> Q, exec |-> X2, task |-> T2, outq |-> O]
  BY <1>1, <1>4, Zenon DEF LetGo
<1> QED BY <1>5, <1>6, SnapshotIs

LEMMA UpdateSound ==
    ASSUME NEW s, NEW b, SoundIn(s, b), table \in Table, bad \in SUBSET Id, NEW x \in Executor
    PROVE  SoundIn(update(s, x), b)
<1> DEFINE n == Len(s.queue[x])
           s1 == LetGo(s, x, {t \in s.exec[x] : s.task[t].finished})
           G(f) == f = [i \in 0 .. n |-> IF i = 0 THEN s1 ELSE StartNext(f[i - 1], x)]
           F == CHOOSE f : G(f)
           D == {r \in Snapshot : SoundIn(r, b)}
           g == [i \in 1 .. n |-> [r \in D |-> StartNext(r, x)]]
<1>0. n \in Nat
  <2>1. s.queue[x] \in Seq(Task)
    BY SnapshotHas
  <2> QED BY <2>1, SeqIs
<1>1. update(s, x) = F[n]
  BY DEF update
<1>2. \A r : r \in D <=> SoundIn(r, b)
  BY DEF SoundIn
<1>3. s1 \in D
  BY <1>2, ReleasedSound
<1> HIDE DEF D
<1>4. \A r \in D : StartNext(r, x) \in D
  BY <1>2, StartNextSound
<1>5. LoopStep(g, n, D) /\ \A i \in 1 .. n : \A r \in D : g[i][r] = StartNext(r, x)
  BY <1>4 DEF LoopStep
<1> HIDE DEF g, n, s1
<1>6. PICK f : LoopRun(f, n, D, s1, g)
  BY <1>0, <1>3, <1>5, LoopRuns
<1>7. f \in [0 .. n -> D] /\ f[0] = s1 /\ \A i \in 1 .. n : f[i] = g[i][f[i - 1]]
  BY <1>6 DEF LoopRun
<1>8. G(f)
  <2>1. ASSUME NEW i \in 0 .. n PROVE f[i] = IF i = 0 THEN s1 ELSE StartNext(f[i - 1], x)
    <3>1. i # 0 => i \in 1 .. n /\ i - 1 \in 0 .. n
      BY <1>0
    <3> QED BY <1>5, <1>7, <3>1
  <2> QED BY <1>7, <2>1
<1>9. G(F)
  <2> HIDE DEF G
  <2> QED BY <1>8
<1>10. \A i \in 0 .. n : F[i] = IF i = 0 THEN s1 ELSE StartNext(F[i - 1], x)
  BY <1>9, Zenon
<1> HIDE DEF F, G
<1> DEFINE S == {i \in 0 .. n : F[i] \in D}
<1>11. 0 \in S
  <2>1. 0 \in 0 .. n
    BY <1>0
  <2>2. F[0] = s1
    BY <1>10, <2>1
  <2> QED BY <1>3, <2>1, <2>2
<1>12. ASSUME NEW i \in 1 .. n, i - 1 \in S PROVE i \in S
  <2>1. i \in 0 .. n /\ i # 0 /\ F[i - 1] \in D
    BY <1>0, <1>12
  <2>2. F[i] = StartNext(F[i - 1], x)
    BY <1>10, <2>1
  <2> QED BY <1>4, <2>1, <2>2
<1> HIDE DEF S
<1>13. \A i \in 0 .. n : i \in S
  BY <1>0, <1>11, <1>12, RoundByRound
<1>14. F[n] \in D
  BY <1>0, <1>13 DEF S
<1> QED BY <1>1, <1>2, <1>14

\* The tasks of R, which no executor executes, are as new.
Resets(X, T, T2, R) ==
    /\ \A t \in R : t \notin X[QueueOf[t]]
    /\ \A t \in Task : T2[t] = IF t \in R THEN NewTask ELSE T[t]

LEMMA ResetSound ==
    ASSUME NEW Q, NEW X, NEW T, NEW O, NEW b, Sound(Q, X, T, O, b), NEW Q2, NEW T2, NEW R,
           Queued(Q2, X, T2), Resets(X, T, T2, R)
    PROVE  Sound(Q2, X, T2, O, b)
<1>0. /\ O \in OutQueue /\ b \in Tracker
      /\ \A u \in Task : Counted(u \in X[QueueOf[u]], T[u], Count(O, b, u), u)
  BY DEF Sound
<1>1. ASSUME NEW u \in Task PROVE Counted(u \in X[QueueOf[u]], T2[u], Count(O, b, u), u)
  <2>0. Counted(u \in X[QueueOf[u]], T[u], Count(O, b, u), u)
    BY <1>0
  <2>1. CASE u \in R
    <3>1. T2[u] = NewTask /\ u \notin X[QueueOf[u]]
      BY <2>1 DEF Resets
    <3>2. Count(O, b, u) = 0
      BY <2>0, <3>1 DEF Counted
    <3> QED BY <3>1, <3>2, NewTaskIs DEF Counted
  <2>2. CASE u \notin R
    BY <2>0, <2>2 DEF Resets
  <2> QED BY <2>1, <2>2
<1> QED BY <1>0, <1>1 DEF Sound

Live == Sound(queue, exec, task, outq, tracked)

LEMMA LiveIs ==
    ASSUME Live
    PROVE  /\ queue \in [Executor -> Seq(Task)] /\ exec \in [Executor -> SUBSET Task]
           /\ task \in [Task -> TaskState] /\ outq \in OutQueue /\ tracked \in Tracker
           /\ \A y \in Executor :
                /\ IsInjective(queue[y])
                /\ \A u \in exec[y] : QueueOf[u] = y
                /\ \A u \in ToSet(queue[y]) : QueueOf[u] = y /\ u \notin exec[y] /\ ~task[u].finished
           /\ \A t \in Task : Counted(t \in exec[QueueOf[t]], task[t], Count(outq, tracked, t), t)
BY DEF Live, Sound, Queued

\* Tasks are added.
LEMMA AddSound ==
    ASSUME Live, NEW ts \in Seq(Task), IsInjective(ts), \A t \in ToSet(ts) : Idle(t),
           AddTasks(ts), UNCHANGED <<exec, outq, tracked>>
    PROVE  Live'
<1>0. /\ queue \in [Executor -> Seq(Task)] /\ exec \in [Executor -> SUBSET Task]
      /\ task \in [Task -> TaskState]
      /\ \A y \in Executor :
           /\ IsInjective(queue[y])
           /\ \A u \in exec[y] : QueueOf[u] = y
           /\ \A u \in ToSet(queue[y]) : QueueOf[u] = y /\ u \notin exec[y] /\ ~task[u].finished
  BY LiveIs
<1>1. PICK R : R = ToSet(ts)
  OBVIOUS
<1>2. R \subseteq Task
  BY <1>1, SeqIs
<1>3. /\ task' \in [Task -> TaskState]
      /\ \A t \in Task : task'[t] = IF t \in R THEN NewTask ELSE task[t]
  <2>1. task' = [t \in Task |-> IF t \in R THEN NewTask ELSE task[t]]
    BY <1>1 DEF AddTasks
  <2> QED BY <1>0, <2>1, NewTaskIs
<1>4. \A t \in R : \A x \in Executor : t \notin exec[x] /\ t \notin ToSet(queue[x])
  BY <1>1 DEF Idle
<1>5. \A t \in R : t \notin exec[QueueOf[t]]
  <2>1. \A t \in R : QueueOf[t] \in Executor
    BY <1>2, DHTAssumption
  <2> QED BY <1>4, <2>1
<1>6. ASSUME NEW x \in Executor
      PROVE  /\ queue'[x] \in Seq(Task) /\ IsInjective(queue'[x])
             /\ \A u \in ToSet(queue'[x]) : u \in ToSet(queue[x]) \/ (u \in R /\ QueueOf[u] = x)
  <2>1. PICK S : S = {t \in Task : QueueOf[t] = x}
    OBVIOUS
  <2>2. PICK k : k = Keep(ts, S)
    OBVIOUS
  <2>3. k \in Seq(Task) /\ ToSet(k) = R \cap S /\ IsInjective(k)
    BY <1>1, <2>2, KeepIs
  <2>4. queue'[x] = queue[x] \o k
    BY <1>0, <2>1, <2>2 DEF AddTasks
  <2>5. PICK q \in Seq(Task) : q = queue[x] /\ IsInjective(q)
    BY <1>0
  <2>6. ToSet(q) \cap ToSet(k) = {}
    BY <1>4, <2>3, <2>5
  <2>7. q \o k \in Seq(Task) /\ IsInjective(q \o k) /\ ToSet(q \o k) = ToSet(q) \cup ToSet(k)
    BY <2>3, <2>5, <2>6, ConcatIs
  <2>8. \A u \in ToSet(q \o k) : u \in ToSet(q) \/ (u \in R /\ QueueOf[u] = x)
    BY <2>1, <2>3, <2>7
  <2> QED BY <2>4, <2>5, <2>7, <2>8
<1>7. queue' \in [Executor -> Seq(Task)]
  <2>1. queue' = [x \in Executor |-> queue'[x]]
    BY <1>0 DEF AddTasks
  <2> QED BY <1>6, <2>1
<1>8. ASSUME NEW x \in Executor, NEW u \in ToSet(queue'[x])
      PROVE  QueueOf[u] = x /\ u \notin exec[x] /\ ~task'[u].finished
  <2>1. u \in Task
    BY <1>6, <1>8, SeqIs
  <2>2. CASE u \in R
    BY <1>0, <1>3, <1>4, <1>6, <1>8, <2>1, <2>2, NewTaskIs
  <2>3. CASE u \notin R
    <3>1. u \in ToSet(queue[x])
      BY <1>6, <1>8, <2>3
    <3> QED BY <1>0, <1>3, <2>1, <2>3, <3>1
  <2> QED BY <2>2, <2>3
<1>9. Queued(queue', exec, task')
  BY <1>0, <1>3, <1>6, <1>7, <1>8 DEF Queued
<1>10. Sound(queue', exec, task', outq, tracked)
  <2>1. Resets(exec, task, task', R)
    BY <1>3, <1>5 DEF Resets
  <2> QED BY <1>9, <2>1, ResetSound DEF Live
<1> QED BY <1>10 DEF Live

\* A download no longer holds a finished lookup.
LEMMA GotSound ==
    ASSUME Live, NEW t \in Task, GotPeers(t)
    PROVE  Live'
<1>0. /\ queue \in [Executor -> Seq(Task)] /\ exec \in [Executor -> SUBSET Task]
      /\ task \in [Task -> TaskState]
      /\ \A y \in Executor :
           /\ IsInjective(queue[y])
           /\ \A u \in exec[y] : QueueOf[u] = y
           /\ \A u \in ToSet(queue[y]) : QueueOf[u] = y /\ u \notin exec[y] /\ ~task[u].finished
  BY LiveIs
<1>1. UNCHANGED <<queue, exec, outq, tracked>>
  BY DEF GotPeers
<1>2. CASE ~Idle(t)
  <2>1. task' = task
    BY <1>2 DEF GotPeers
  <2> QED BY <1>1, <2>1 DEF Live
<1>3. CASE Idle(t)
  <2>1. task' = [task EXCEPT ![t] = NewTask]
    BY <1>3 DEF GotPeers
  <2>2. task' \in [Task -> TaskState] /\ \A u \in Task : task'[u] = IF u \in {t} THEN NewTask ELSE task[u]
    BY <1>0, <2>1, NewTaskIs
  <2>3. \A x \in Executor : t \notin exec[x] /\ t \notin ToSet(queue[x])
    BY <1>3 DEF Idle
  <2>4. t \notin exec[QueueOf[t]]
    BY <2>3, DHTAssumption
  <2>5. ASSUME NEW x \in Executor, NEW u \in ToSet(queue[x]) PROVE ~task'[u].finished
    <3>1. queue[x] \in Seq(Task)
      BY <1>0
    <3>2. u \in Task /\ u # t
      BY <2>3, <2>5, <3>1, SeqIs
    <3> QED BY <1>0, <2>2, <2>5, <3>2
  <2>6. Queued(queue, exec, task')
    BY <1>0, <2>2, <2>5 DEF Queued
  <2>7. Sound(queue, exec, task', outq, tracked)
    <3>1. Resets(exec, task, task', {t})
      BY <2>2, <2>4 DEF Resets
    <3> QED BY <2>6, <3>1, ResetSound DEF Live
  <2> QED BY <1>1, <2>7 DEF Live
<1> QED BY <1>2, <1>3

\* The other commands.
LEMMA AddsSound ==
    ASSUME Live, AddsTask
    PROVE  Live'
<1>1. ASSUME NEW t \in Task PROVE <<t>> \in Seq(Task) /\ ToSet(<<t>>) = {t} /\ IsInjective(<<t>>)
  <2>1. PICK s : s = <<t>>
    OBVIOUS
  <2>2. s \in Seq(Task) /\ Len(s) = 1 /\ s[1] = t
    BY <2>1
  <2>3. DOMAIN s = 1 .. 1
    BY <2>2
  <2>4. ToSet(s) = {t}
    BY <2>2, <2>3 DEF ToSet
  <2>5. IsInjective(s)
    BY <2>3 DEF IsInjective
  <2> QED BY <2>1, <2>2, <2>4, <2>5
<1>2. ASSUME NEW t \in Task, NEW l \in Task, PortMessage(t, l) PROVE Live'
  <2>1. /\ Idle(t) /\ Idle(l) /\ t # l /\ UNCHANGED <<exec, outq, tracked>>
        /\ AddTasks(IF Len(table) = 1 THEN <<t, l>> ELSE <<t>>)
    BY <1>2 DEF PortMessage
  <2>2. PICK s : s = <<t, l>>
    OBVIOUS
  <2>3. s \in Seq(Task) /\ Len(s) = 2 /\ s[1] = t /\ s[2] = l
    BY <2>2
  <2>4. DOMAIN s = 1 .. 2
    BY <2>3
  <2>5. ToSet(s) = {t, l}
    BY <2>3, <2>4 DEF ToSet
  <2>6. IsInjective(s)
    BY <2>1, <2>3, <2>4 DEF IsInjective
  <2>7. CASE Len(table) = 1
    <3>1. AddTasks(s)
      BY <2>1, <2>2, <2>7
    <3> QED BY <2>1, <2>3, <2>5, <2>6, <3>1, AddSound
  <2>8. CASE Len(table) # 1
    <3>1. AddTasks(<<t>>)
      BY <2>1, <2>8
    <3> QED BY <1>1, <2>1, <3>1, AddSound
  <2> QED BY <2>7, <2>8
<1>3. ASSUME NEW t \in Task, RefreshBucket(t) \/ GetPeers(t) PROVE Live'
  <2>1. Idle(t) /\ AddTasks(<<t>>) /\ UNCHANGED <<exec, outq, tracked>>
    BY <1>3 DEF RefreshBucket, GetPeers
  <2> QED BY <1>1, <2>1, AddSound
<1> QED BY <1>2, <1>3, GotSound DEF AddsTask

\* A message that no task waits for is answered or given up.
LEMMA NobodyWaits ==
    ASSUME Live, NEW e \in DOMAIN tracked, e.task = NoTask, tracked' = Multiset!BagRemove(tracked, e),
           UNCHANGED <<queue, exec, task, outq>>
    PROVE  Live'
<1>0. /\ outq \in OutQueue /\ tracked \in Tracker
      /\ \A t \in Task : Counted(t \in exec[QueueOf[t]], task[t], Count(outq, tracked, t), t)
  BY LiveIs
<1>1. PICK c : c = tracked'
  OBVIOUS
<1>2. c \in Tracker /\ \A u \in Task : Count(outq, tracked, u) = Count(outq, c, u) + IF u = e.task THEN 1 ELSE 0
  BY <1>0, <1>1, CountShrinks
<1>3. ASSUME NEW u \in Task PROVE Count(outq, c, u) = Count(outq, tracked, u)
  <2>1. u # e.task
    BY DHTAssumption
  <2>2. Count(outq, c, u) \in Nat
    BY <1>0, <1>2, CountIs
  <2> QED BY <1>2, <2>1, <2>2
<1>4. \A u \in Task : Counted(u \in exec[QueueOf[u]], task[u], Count(outq, c, u), u)
  BY <1>0, <1>3
<1>5. Sound(queue, exec, task, outq, c)
  BY <1>0, <1>2, <1>4 DEF Sound, Live
<1> QED BY <1>1, <1>5 DEF Live

\* What is known of a tracked message.
LEMMA SentIs ==
    ASSUME Live, NEW e \in BagToSet(tracked)
    PROVE  e \in DOMAIN tracked /\ e.to \in Place /\ e.task \in Task \cup {NoTask}
<1>1. tracked \in Bag
  BY LiveIs DEF Tracker
<1>2. e \in DOMAIN tracked /\ e \in Sent
  BY <1>1, TrackedIs
<1> QED BY <1>2 DEF Sent

\* A sequence has finitely many elements.
LEMMA SeqFinite ==
    ASSUME NEW D, NEW q \in Seq(D)
    PROVE  IsFiniteSet(ToSet(q))
<1>1. q = [i \in DOMAIN q |-> q[i]]
  OBVIOUS
<1>2. IsFiniteSet(DOMAIN q)
  <2>1. Len(q) \in Nat /\ DOMAIN q = 1 .. Len(q)
    OBVIOUS
  <2>2. Len(q) \in Int /\ 1 \in Int
    BY <2>1
  <2>3. IsFiniteSet(1 .. Len(q))
    BY <2>2, FS_Interval
  <2> QED BY <2>1, <2>3
<1>3. IsFiniteSet({q[i] : i \in DOMAIN q})
  BY <1>1, <1>2, FunctionValues
<1> QED BY <1>3 DEF ToSet

LEMMA ReplySound ==
    ASSUME Live, NEW e \in BagToSet(tracked), NEW n \in Node, NEW told \in Seq(Id), Reply(e, n, told)
    PROVE  Live'
<1>0. /\ e \in DOMAIN tracked /\ e.task \in Task \cup {NoTask}
      /\ tracked' = Multiset!BagRemove(tracked, e) /\ UNCHANGED <<queue, exec>>
  BY SentIs DEF Reply
<1>1. CASE e.task = NoTask
  <2>1. UNCHANGED <<task, outq>>
    BY <1>1 DEF Reply, Callback
  <2> QED BY <1>0, <1>1, <2>1, NobodyWaits
<1>2. CASE e.task # NoTask
  <2>1. PICK t \in Task : t = e.task
    BY <1>0, <1>2
  <2>2. PICK c, w, S : c = tracked' /\ w = [task |-> task[t], outq |-> outq] /\ S = ToSet(told)
    OBVIOUS
  <2>3. PICK left : left = Count(outq, c, t)
    OBVIOUS
  <2>4. /\ Waits(w, t, left)
        /\ \A r, m : Goes(w, r, t, left, m) => Sound(queue, exec, [task EXCEPT ![t] = r.task], r.outq, c)
    BY <1>0, <2>1, <2>2, <2>3, CallbackSound DEF Live
  <2>5. S \in SUBSET Id /\ IsFiniteSet(S)
    BY <2>2, SeqIs, SeqFinite
  <2>6. PICK r : r = onReceived(w, t, n, S)
    OBVIOUS
  <2>7. PICK m : Goes(w, r, t, left, m)
    BY <2>4, <2>5, <2>6, ReceivedGoes
  <2>8. task' = [task EXCEPT ![t] = r.task] /\ outq' = r.outq
    BY <1>2, <2>1, <2>2, <2>6 DEF Reply, Callback
  <2>9. Sound(queue, exec, task', outq', c)
    BY <2>4, <2>7, <2>8
  <2> QED BY <1>0, <2>2, <2>9 DEF Live
<1> QED BY <1>1, <1>2

LEMMA TimeoutSound ==
    ASSUME Live, NEW e \in BagToSet(tracked), HandleTimeout(e)
    PROVE  Live'
<1>0. /\ e \in DOMAIN tracked /\ e.task \in Task \cup {NoTask} /\ e.to \in Place
      /\ tracked' = Multiset!BagRemove(tracked, e) /\ UNCHANGED <<queue, exec>>
  BY SentIs DEF HandleTimeout
<1>1. CASE e.task = NoTask
  <2>1. UNCHANGED <<task, outq>>
    BY <1>1 DEF HandleTimeout, Callback
  <2> QED BY <1>0, <1>1, <2>1, NobodyWaits
<1>2. CASE e.task # NoTask
  <2>1. PICK t \in Task : t = e.task
    BY <1>0, <1>2
  <2>2. PICK c, w, n : c = tracked' /\ w = [task |-> task[t], outq |-> outq] /\ n = e.to
    OBVIOUS
  <2>3. PICK left : left = Count(outq, c, t)
    OBVIOUS
  <2>4. /\ Waits(w, t, left)
        /\ \A r, m : Goes(w, r, t, left, m) => Sound(queue, exec, [task EXCEPT ![t] = r.task], r.outq, c)
    BY <1>0, <2>1, <2>2, <2>3, CallbackSound DEF Live
  <2>6. PICK r : r = onTimeout(w, t, n)
    OBVIOUS
  <2>7. PICK m : Goes(w, r, t, left, m)
    BY <1>0, <2>2, <2>4, <2>6, TimeoutGoes
  <2>8. task' = [task EXCEPT ![t] = r.task] /\ outq' = r.outq
    BY <1>2, <2>1, <2>2, <2>6 DEF HandleTimeout, Callback
  <2>9. Sound(queue, exec, task', outq', c)
    BY <2>4, <2>7, <2>8
  <2> QED BY <1>0, <2>2, <2>9 DEF Live
<1> QED BY <1>1, <1>2

LEMMA AskedSound ==
    ASSUME Live, NEW n \in Node, Asked(n)
    PROVE  Live'
<1>0. /\ outq \in OutQueue /\ tracked \in Tracker
      /\ \A t \in Task : Counted(t \in exec[QueueOf[t]], task[t], Count(outq, tracked, t), t)
      /\ UNCHANGED <<queue, exec, task, tracked>>
  BY LiveIs DEF Asked
<1>1. PICK x : x = [Query(n, NoTask) EXCEPT !.reply = TRUE]
  OBVIOUS
<1>2. x \in Message /\ x.task = NoTask
  <2>1. x = [to |-> n, task |-> NoTask, reply |-> TRUE]
    BY <1>1 DEF Query
  <2>2. n \in Place
    BY NodesHaveIds DEF Place
  <2> QED BY <2>1, <2>2 DEF Message
<1>3. PICK d : d = <<x>>
  OBVIOUS
<1>4. d \in Seq(Message) /\ Len(d) = 1 /\ \A i \in 1 .. Len(d) : d[i] = x
  BY <1>2, <1>3
<1>5. PICK r : r = outq \o d
  OBVIOUS
<1>6. outq' = r
  <2>1. outq \in Seq(Message)
    BY <1>0 DEF OutQueue
  <2>2. outq \o d = Append(outq, x)
    BY <1>2, <1>3, <2>1
  <2> QED BY <1>1, <1>5, <2>2 DEF Asked
<1>7. Adds(outq, r, NoTask, 1)
  BY <1>0, <1>2, <1>4, <1>5, QueueGrows
<1>8. r \in OutQueue /\ \A u \in Task : Count(r, tracked, u) = Count(outq, tracked, u) + IF u = NoTask THEN 1 ELSE 0
  BY <1>0, <1>7, CountGrows
<1>9. ASSUME NEW u \in Task PROVE Count(r, tracked, u) = Count(outq, tracked, u)
  <2>1. u # NoTask /\ Count(outq, tracked, u) \in Nat
    BY <1>0, CountIs, DHTAssumption
  <2> QED BY <1>8, <2>1
<1>10. \A u \in Task : Counted(u \in exec[QueueOf[u]], task[u], Count(r, tracked, u), u)
  BY <1>0, <1>9
<1>11. Sound(queue, exec, task, r, tracked)
  BY <1>0, <1>8, <1>10 DEF Sound, Live
<1> QED BY <1>0, <1>6, <1>11 DEF Live

LEMMA SendsSound ==
    ASSUME Live, Sends
    PROVE  Live'
<1>0. /\ outq \in OutQueue /\ tracked \in Tracker
      /\ \A t \in Task : Counted(t \in exec[QueueOf[t]], task[t], Count(outq, tracked, t), t)
  BY LiveIs
<1>a. PICK n \in 0 .. Len(outq) : \E failing \in SUBSET (1 .. n) : sendMessages(n, failing)
  BY DEF Sends
<1>1. PICK failing \in SUBSET (1 .. n) : sendMessages(n, failing)
  BY <1>a
<1>2. PICK r, c : r = SubSeq(outq, n + 1, Len(outq)) /\ c = Track(tracked, n, failing)
  OBVIOUS
<1>3. outq' = r /\ tracked' = c /\ UNCHANGED <<queue, exec, task>>
  BY <1>1, <1>2 DEF sendMessages
<1>4. r \in OutQueue /\ \A t \in Task : Cardinality(QueuedOf(outq, t)) = Cardinality(QueuedOf(r, t)) + Cardinality(First(n, t))
  BY <1>0, <1>2, RestIs
<1>5. c \in Tracker /\ \A t \in Task : Cardinality(TrackedOf(c, t)) = Cardinality(TrackedOf(tracked, t)) + Cardinality(First(n, t))
  BY <1>0, <1>2, TrackIs
<1>6. ASSUME NEW t \in Task PROVE Count(r, c, t) = Count(outq, tracked, t)
  <2>1. PICK x, y, u, v, k : /\ x = Cardinality(QueuedOf(outq, t)) /\ y = Cardinality(TrackedOf(tracked, t))
                             /\ u = Cardinality(QueuedOf(r, t)) /\ v = Cardinality(TrackedOf(c, t))
                             /\ k = Cardinality(First(n, t))
    OBVIOUS
  <2>2. x \in Nat /\ y \in Nat /\ u \in Nat /\ v \in Nat
    BY <1>0, <1>4, <1>5, <2>1, CountIs
  <2>3. k \in Nat
    <3>1. Len(outq) \in Nat
      BY <1>0, SeqIs DEF OutQueue
    <3>2. n \in Nat
      BY <3>1
    <3> QED BY <2>1, <3>2, FirstIs
  <2>4. x = u + k /\ v = y + k
    BY <1>4, <1>5, <2>1
  <2>5. u + v = x + y
    BY <2>2, <2>3, <2>4
  <2> QED BY <2>1, <2>5 DEF Count
<1>7. \A u \in Task : Counted(u \in exec[QueueOf[u]], task[u], Count(r, c, u), u)
  BY <1>0, <1>6
<1>8. Sound(queue, exec, task, r, c)
  BY <1>4, <1>5, <1>7 DEF Sound, Live
<1> QED BY <1>3, <1>8 DEF Live

LEMMA ExecuteSound ==
    ASSUME Inv, Live, ExecuteTasks
    PROVE  Live'
<1>0. table \in Table /\ bad \in SUBSET Id
  BY DEF Inv
<1>1. PICK s : s = [queue |-> queue, exec |-> exec, task |-> task, outq |-> outq]
  OBVIOUS
<1>2. SoundIn(s, tracked)
  BY <1>1, SnapshotIs DEF Live
<1>3. "periodic1" \in Executor /\ "periodic2" \in Executor /\ "immediate" \in Executor
  BY DEF Executor
<1>4. PICK s1 : s1 = update(s, "periodic1")
  OBVIOUS
<1>5. PICK s2 : s2 = update(s1, "periodic2")
  OBVIOUS
<1>6. PICK s3 : s3 = update(s2, "immediate")
  OBVIOUS
<1>7. SoundIn(s1, tracked)
  BY <1>0, <1>2, <1>3, <1>4, UpdateSound
<1>8. SoundIn(s2, tracked)
  BY <1>0, <1>3, <1>5, <1>7, UpdateSound
<1>9. SoundIn(s3, tracked)
  BY <1>0, <1>3, <1>6, <1>8, UpdateSound
<1>10. queue' = s3.queue /\ exec' = s3.exec /\ task' = s3.task /\ outq' = s3.outq /\ tracked' = tracked
  BY <1>1, <1>4, <1>5, <1>6, Zenon DEF ExecuteTasks, Becomes
<1> QED BY <1>9, <1>10, SnapshotHas DEF Live

LEMMA InitLive == Init => Live
<1> SUFFICES ASSUME Init PROVE Live
  OBVIOUS
<1>0. /\ queue = [x \in Executor |-> <<>>] /\ exec = [x \in Executor |-> {}]
      /\ task = [t \in Task |-> NewTask] /\ outq = <<>> /\ tracked = EmptyBag
  BY DEF Init
<1>1. PICK e : e = <<>>
  OBVIOUS
<1>2. e \in Seq(Task) /\ e \in Seq(Message) /\ Len(e) = 0 /\ DOMAIN e = 1 .. 0 /\ 1 .. 0 = {}
  BY <1>1
<1>3. ToSet(e) = {} /\ IsInjective(e)
  BY <1>2 DEF ToSet, IsInjective
<1>4. Queued(queue, exec, task)
  <2>1. queue = [x \in Executor |-> e]
    BY <1>0, <1>1
  <2>2. queue \in [Executor -> Seq(Task)] /\ exec \in [Executor -> SUBSET Task] /\ task \in [Task -> TaskState]
    BY <1>0, <1>2, <2>1, NewTaskIs
  <2>3. \A x \in Executor : queue[x] = e /\ exec[x] = {}
    BY <1>0, <2>1
  <2> QED BY <1>3, <2>2, <2>3 DEF Queued
<1>5. outq \in OutQueue /\ \A t \in Task : QueuedOf(outq, t) = {}
  <2>1. e \in OutQueue
    BY <1>2 DEF OutQueue
  <2>2. \A t \in Task : QueuedOf(e, t) = {}
    BY <1>2 DEF QueuedOf
  <2> QED BY <1>0, <1>1, <2>1, <2>2
<1>6. tracked \in Bag /\ DOMAIN tracked = {}
  <2>1. tracked = [x \in {} |-> 1]
    BY <1>0 DEF EmptyBag, SetToBag
  <2>2. tracked \in [{} -> Nat \ {0}]
    BY <2>1
  <2> QED BY <2>1, <2>2 DEF Bag
<1>7. \A t \in Task : TrackedOf(tracked, t) = {}
  BY <1>6, TrackedIs
<1>8. tracked \in Tracker
  BY <1>6, <1>7, FS_EmptySet DEF Tracker
<1>9. ASSUME NEW t \in Task PROVE Counted(t \in exec[QueueOf[t]], task[t], Count(outq, tracked, t), t)
  <2>1. Count(outq, tracked, t) = 0
    <3>1. Cardinality(QueuedOf(outq, t)) = 0 /\ Cardinality(TrackedOf(tracked, t)) = 0
      BY <1>5, <1>7, FS_EmptySet
    <3> QED BY <3>1 DEF Count
  <2>2. exec[QueueOf[t]] = {} /\ task[t] = NewTask
    BY <1>0, DHTAssumption
  <2> QED BY <2>1, <2>2, NewTaskIs DEF Counted
<1> QED BY <1>4, <1>5, <1>8, <1>9 DEF Live, Sound

LEMMA NextLive ==
    ASSUME Inv, Live, [Next]_vars
    PROVE  Live'
<1>0. CASE UNCHANGED <<queue, exec, task, outq, tracked>>
  BY <1>0 DEF Live
<1>1. CASE UNCHANGED vars
  BY <1>0, <1>1
<1>2. CASE AddsTask
  BY <1>2, AddsSound
<1>3. CASE ExecuteTasks
  BY <1>3, ExecuteSound
<1>4. CASE Receives
  <2>1. CASE \E t \in Task \cup {NoTask} : Answered(t)
    <3>1. PICK e \in BagToSet(tracked), n \in setup.nodes :
             \E told \in BoundedSeq(setup.nodes \ {n}, MaxTold) : Reply(e, n, told)
      BY <2>1 DEF Answered
    <3>2. PICK told \in BoundedSeq(setup.nodes \ {n}, MaxTold) : Reply(e, n, told)
      BY <3>1
    <3>3. n \in Node /\ setup.nodes \ {n} \subseteq Id
      BY NodesHaveIds DEF Inv
    <3>4. told \in Seq(Id)
      BY <3>3, ToldIs
    <3> QED BY <3>2, <3>3, <3>4, ReplySound
  <2>2. CASE \E e \in BagToSet(tracked) : BadReply(e)
    BY <2>2, TimeoutSound DEF BadReply
  <2>3. CASE \E n \in setup.ask : Asked(n)
    <3>1. setup.ask \subseteq Node
      BY NodesHaveIds DEF Inv
    <3> QED BY <2>3, <3>1, AskedSound
  <2> QED BY <1>4, <2>1, <2>2, <2>3 DEF Receives
<1>5. CASE EndReceive \/ EndTimeout
  BY <1>0, <1>5 DEF EndReceive, EndTimeout
<1>6. CASE \E t \in Task \cup {NoTask} : TimesOut(t)
  BY <1>6, TimeoutSound DEF TimesOut, TimeOut
<1>7. CASE Sends
  BY <1>7, SendsSound
<1> QED BY <1>1, <1>2, <1>3, <1>4, <1>5, <1>6, <1>7 DEF Next

LEMMA LiveAlive == Live => CallbacksAlive
<1> SUFFICES ASSUME Live, NEW t \in Task
             PROVE  /\ Outstanding(t) > 0 <=> Running(t)
                    /\ KindOf[t] # "ping" => task[t].inflight = Outstanding(t)
  BY DEF CallbacksAlive
<1>1. Outstanding(t) = Count(outq, tracked, t)
  BY DEF Outstanding, Count
<1>2. Counted(t \in exec[QueueOf[t]], task[t], Count(outq, tracked, t), t)
  BY LiveIs
<1> QED BY <1>1, <1>2 DEF Counted, Running

\* No callback is left without its task, and no task without a callback to
\* come: a task is executed as long as one of its messages is queued or
\* tracked (DHTTaskExecutor::update, DHTMessageTracker, the lookup and ping
\* tasks), and a lookup counts its messages right.
THEOREM CallbacksCorrect == Spec => []CallbacksAlive
<1>1. Inv /\ [Next]_vars => Inv'
  BY NextGood DEF Good
<1>2. Inv /\ Live /\ [Next]_vars => Live'
  BY NextLive
<1> QED BY <1>1, <1>2, InitInv, InitLive, LiveAlive, PTL DEF Spec

=============================================================================
