-------------------------- MODULE DHTRoutingTable --------------------------
(***************************************************************************)
(* The routing table of the DHT: buckets of nodes in a binary tree over    *)
(* the node IDs, in which only the bucket of the local node is split.      *)
(*                                                                         *)
(* The tree is the sequence of its leaves from left to right; an inner     *)
(* node is the range of its leaves.  IDs are numbers of IdBits bits, and a *)
(* node is its ID: no two addresses claim the same one.                    *)
(***************************************************************************)
EXTENDS Integers, Sequences, FiniteSets, FiniteSetsExt, SequencesExt, Queues

CONSTANTS
    IdBits,     \* DHT_ID_LENGTH * 8
    K,          \* nodes of a bucket, and of an answer
    CacheSize,  \* CACHE_SIZE, nodes that wait for a place in a bucket
    LocalId,    \* the ID of the local node
    AssertsOn   \* the build evaluates assert()

Pow2[n \in 0 .. IdBits] == IF n = 0 THEN 1 ELSE 2 * Pow2[n - 1]

Id == 0 .. Pow2[IdBits] - 1

ASSUME RoutingTableAssumption ==
    /\ IdBits \in Nat \ {0, 1} /\ K \in Nat \ {0} /\ CacheSize \in Nat \ {0}
    /\ LocalId \in Id
    /\ AssertsOn \in BOOLEAN

\* The range of IDs that share the first len bits of i.
Size(len) == Pow2[IdBits - len]
MinId(i, len) == (i \div Size(len)) * Size(len)
SamePrefix(i, j, len) == MinId(i, len) = MinId(j, len)

\* The range beside the one of i at len: bit len is flipped.
Sibling(i, len) ==
    LET m == MinId(i, len)
    IN  IF MinId(i, len - 1) = m THEN m + Size(len) ELSE m - Size(len)

----------------------------------------------------------------------------
(***************************************************************************)
(* DHTBucket.                                                              *)
(***************************************************************************)
InitTable == << [min |-> 0, len |-> 0, nodes |-> <<>>, cached |-> <<>>] >>

isInRange(b, i) == SamePrefix(i, b.min, b.len)
splitAllowed(b) == b.len < IdBits - 1 /\ isInRange(b, LocalId)

\* A full bucket takes a node it knows, or a new one for a bad one that was
\* seen least recently.
CanTake(b, bad, n) ==
    n \in ToSet(b.nodes) \/ Len(b.nodes) < K \/ Head(b.nodes) \in bad

TakeNode(b, n) ==
    [b EXCEPT !.nodes =
        Append(IF n \in ToSet(@) THEN RemoveFirst(@, n)
               ELSE IF Len(@) < K THEN @ ELSE Tail(@), n)]

cacheNode(b, n) ==
    [b EXCEPT !.cached = SubSeq(<<n>> \o @, 1, Min({Len(@) + 1, CacheSize}))]

\* A node is dropped only when another one waits for its place.
dropNode(b, n) ==
    IF b.cached # <<>> /\ n \in ToSet(b.nodes)
    THEN [b EXCEPT !.nodes = Append(RemoveFirst(@, n), Head(b.cached)),
                   !.cached = Tail(@)]
    ELSE b

\* Fault: the bucket that is split keeps all its nodes.
SplitKeepsNodes(b) ==
    LET low == [b EXCEPT !.len = @ + 1, !.cached = <<>>]
    IN  << [low EXCEPT !.nodes = SelectSeq(@, LAMBDA n : isInRange(low, n))],
           [b EXCEPT !.min = Sibling(@, b.len + 1), !.len = @ + 1] >>

\* Fault: the nodes of the new bucket are moved inside an assertion.
SplitWithoutAsserts(b) ==
    LET low == [b EXCEPT !.len = @ + 1, !.cached = <<>>]
    IN  << [low EXCEPT !.nodes = <<>>],
           [b EXCEPT !.min = Sibling(@, b.len + 1), !.len = @ + 1,
                     !.nodes = SelectSeq(@, LAMBDA n : ~isInRange(low, n))] >>

\* The lower half is a new bucket, the upper half the old one.  The nodes of
\* the new bucket are added to it in the argument of an assert.
split(b) ==
    LET low == [b EXCEPT !.len = @ + 1, !.cached = <<>>]
    IN  << [low EXCEPT !.nodes =
                IF AssertsOn THEN Keep(@, {n \in Id : isInRange(low, n)}) ELSE <<>>],
           [b EXCEPT !.min = Sibling(@, b.len + 1), !.len = @ + 1,
                     !.nodes = Keep(@, {n \in Id : ~isInRange(low, n)})] >>

----------------------------------------------------------------------------
(***************************************************************************)
(* DHTRoutingTable and DHTBucketTree, on the leaves t.                     *)
(***************************************************************************)
BucketAt(t, i) == CHOOSE k \in DOMAIN t : isInRange(t[k], i)
findBucketFor(t, i) == t[BucketAt(t, i)]
TableNodes(t) == UNION {ToSet(t[k].nodes) : k \in DOMAIN t}

\* One round of the loop of addNode that splits the bucket.
SplitFor(t, bad, n) ==
    LET k == BucketAt(t, n)
    IN  IF CanTake(t[k], bad, n) \/ ~splitAllowed(t[k]) THEN t
        ELSE SubSeq(t, 1, k - 1) \o split(t[k]) \o SubSeq(t, k + 1, Len(t))

addNode(t, bad, n, good) ==
    LET split_[i \in 0 .. IdBits] ==
            IF i = 0 THEN t ELSE SplitFor(split_[i - 1], bad, n)
        u == split_[IdBits]
        k == BucketAt(u, n)
    IN  IF n = LocalId THEN t
        ELSE [u EXCEPT ![k] = IF CanTake(@, bad, n) THEN TakeNode(@, n)
                              ELSE IF good THEN cacheNode(@, n) ELSE @]

\* Nodes we have not heard from are added one after the other to the table of
\* s.  The object of each is a new one: where it is taken, it is not bad.
AddNew(s, n) ==
    LET u == addNode(s.table, s.bad, n, FALSE)
    IN  [table |-> u, bad |-> s.bad \ ({n} \cap TableNodes(u))]

addNodes(s, nodes) ==
    LET added[i \in 0 .. Len(nodes)] ==
            IF i = 0 THEN s ELSE AddNew(added[i - 1], nodes[i])
    IN  added[Len(nodes)]

addGoodNode(t, bad, n) == addNode(t, bad, n, TRUE)

DropFromTable(t, n) == [t EXCEPT ![BucketAt(t, n)] = dropNode(@, n)]

\* The buckets in which nodes close to key are looked for: the half of the
\* tree around its bucket, away from it, then the bucket beside each range
\* that contains that half.
IsBeside(b, key, l) == b.len = l /\ b.min = Sibling(key, l)
Beside(t, key, l) == t[CHOOSE k \in DOMAIN t : IsBeside(t[k], key, l)]

SearchOrder(t, key) ==
    LET b == findBucketFor(t, key)
        near == Keep(t, {c \in ToSet(t) : SamePrefix(c.min, key, b.len - 1)})
    IN  IF b.len = 0 THEN t
        ELSE (IF Head(near) = b THEN near ELSE Reverse(near))
             \o [i \in 1 .. b.len - 1 |-> Beside(t, key, b.len - i)]

\* findClosestKNodes: bad nodes are passed over, and a bucket is looked at
\* only while nodes are missing.
getClosestKNodes(t, bad, key) ==
    LET order == SearchOrder(t, key)
        collected[i \in 0 .. Len(order)] ==
            IF i = 0 THEN <<>>
            ELSE IF Len(collected[i - 1]) >= K THEN collected[i - 1]
            ELSE collected[i - 1] \o Keep(order[i].nodes, Id \ bad)
        all == collected[Len(order)]
    IN  SubSeq(all, 1, Min({K, Len(all)}))

----------------------------------------------------------------------------
\* The buckets divide the IDs among them in the order of the tree, a bucket
\* holds at most K nodes, all of its range, and nodes wait only for a full
\* bucket that cannot be split: then a node is dropped only for another one.
\* The range beside each range around a bucket is a bucket, not split further.
TableWellFormed(t) ==
    /\ t[1].min = 0
    /\ t[Len(t)].min + Size(t[Len(t)].len) = Pow2[IdBits]
    /\ \A k \in 2 .. Len(t) : t[k].min = t[k - 1].min + Size(t[k - 1].len)
    /\ \A k \in DOMAIN t :
        LET b == t[k]
        IN  /\ Len(b.nodes) <= K /\ Len(b.cached) <= CacheSize
            /\ \A n \in ToSet(b.nodes) \cup ToSet(b.cached) : isInRange(b, n)
            /\ b.cached # <<>> => Len(b.nodes) = K /\ ~splitAllowed(b)
            /\ \A l \in 1 .. b.len - 1 :
                \E j \in DOMAIN t : IsBeside(t[j], b.min, l)

=============================================================================
