------------------------ MODULE RequestGroupManProofs ------------------------
(***************************************************************************)
(* Proofs about RequestGroupMan for any number of downloads, any limits    *)
(* and any mix of RPC calls, signals and options.                          *)
(***************************************************************************)
EXTENDS RequestGroupMan, FiniteSetTheorems, TLAPS

(***************************************************************************)
(* What the operations of IndexedList do to the type, to the keys and to   *)
(* the uniqueness of the keys of a list, for lists of any length.          *)
(***************************************************************************)

\* Containing a key is having it among the keys.
LEMMA ContainsKeys ==
    ASSUME NEW list, NEW key
    PROVE  Contains(list, key) <=> key \in Keys(list)
BY DEF Contains, Keys

\* Appending a new key (seq_.emplace_back).
LEMMA AppendList ==
    ASSUME NEW S, NEW list \in Seq(S), NEW key \in S
    PROVE  /\ Append(list, key) \in Seq(S)
           /\ Keys(Append(list, key)) = Keys(list) \cup {key}
           /\ Distinct(list) /\ key \notin Keys(list) => Distinct(Append(list, key))
<1> DEFINE new == Append(list, key)
<1>1. /\ new \in Seq(S) /\ Len(new) = Len(list) + 1
      /\ DOMAIN new = 1..Len(new) /\ DOMAIN list = 1..Len(list)
      /\ Len(list) \in Nat
      /\ \A i \in 1..Len(list) : new[i] = list[i]
      /\ new[Len(list) + 1] = key
  OBVIOUS
<1> HIDE DEF new
<1>2. Keys(new) = Keys(list) \cup {key}
  <2>1. ASSUME NEW k \in Keys(new) PROVE k \in Keys(list) \cup {key}
    <3>1. PICK i \in DOMAIN new : new[i] = k
      BY <2>1 DEF Keys
    <3>2. CASE i = Len(list) + 1
      BY <1>1, <3>1, <3>2
    <3>3. CASE i # Len(list) + 1
      BY <1>1, <3>1, <3>3 DEF Keys
    <3> QED BY <3>2, <3>3
  <2>2. ASSUME NEW k \in Keys(list) PROVE k \in Keys(new)
    <3>1. PICK i \in DOMAIN list : list[i] = k
      BY <2>2 DEF Keys
    <3>2. i \in DOMAIN new /\ new[i] = k
      BY <1>1, <3>1
    <3> QED BY <3>2 DEF Keys
  <2>3. key \in Keys(new)
    <3>1. Len(list) + 1 \in DOMAIN new
      BY <1>1
    <3> QED BY <1>1, <3>1 DEF Keys
  <2> QED BY <2>1, <2>2, <2>3
<1>3. ASSUME Distinct(list), key \notin Keys(list) PROVE Distinct(new)
  BY <1>1, <1>3 DEF Distinct, Keys
<1> QED BY <1>1, <1>2, <1>3 DEF new

\* The elements of a concatenation.
LEMMA ConcatElements ==
    ASSUME NEW S, NEW a \in Seq(S), NEW b \in Seq(S)
    PROVE  /\ a \o b \in Seq(S) /\ Len(a \o b) = Len(a) + Len(b)
           /\ DOMAIN (a \o b) = 1..Len(a \o b)
           /\ \A i \in 1..Len(a \o b) :
                (a \o b)[i] = IF i <= Len(a) THEN a[i] ELSE b[i - Len(a)]
OBVIOUS

\* Concatenation: the bulk insert at the front of the waiting queue.
LEMMA ConcatList ==
    ASSUME NEW S, NEW a \in Seq(S), NEW b \in Seq(S)
    PROVE  /\ a \o b \in Seq(S)
           /\ Keys(a \o b) = Keys(a) \cup Keys(b)
           /\ Distinct(a) /\ Distinct(b) /\ Keys(a) \cap Keys(b) = {}
                => Distinct(a \o b)
<1> DEFINE new == a \o b
<1>1. /\ new \in Seq(S) /\ Len(new) = Len(a) + Len(b)
      /\ DOMAIN new = 1..Len(new) /\ DOMAIN a = 1..Len(a) /\ DOMAIN b = 1..Len(b)
      /\ Len(a) \in Nat /\ Len(b) \in Nat
      /\ \A i \in 1..Len(new) :
            new[i] = IF i <= Len(a) THEN a[i] ELSE b[i - Len(a)]
  BY ConcatElements
<1> HIDE DEF new
<1>2. ASSUME NEW k \in Keys(new) PROVE k \in Keys(a) \cup Keys(b)
  <2>1. PICK i \in 1..Len(new) : new[i] = k
    BY <1>1, <1>2 DEF Keys
  <2>2. CASE i <= Len(a)
    BY SMTT(60), <1>1, <2>1, <2>2 DEF Keys
  <2>3. CASE ~(i <= Len(a))
    <3>1. i - Len(a) \in DOMAIN b /\ b[i - Len(a)] = k
      BY <1>1, <2>1, <2>3
    <3> QED BY <3>1 DEF Keys
  <2> QED BY <2>2, <2>3
<1>3. ASSUME NEW k \in Keys(a) PROVE k \in Keys(new)
  <2>1. PICK i \in 1..Len(a) : a[i] = k
    BY <1>1, <1>3 DEF Keys
  <2>2. i \in DOMAIN new /\ new[i] = k
    BY <1>1, <2>1
  <2> QED BY <2>2 DEF Keys
<1>4. ASSUME NEW k \in Keys(b) PROVE k \in Keys(new)
  <2>1. PICK i \in 1..Len(b) : b[i] = k
    BY <1>1, <1>4 DEF Keys
  <2>2. i + Len(a) \in DOMAIN new /\ new[i + Len(a)] = k
    BY SMTT(60), <1>1, <2>1
  <2> QED BY <2>2 DEF Keys
<1>5. ASSUME Distinct(a), Distinct(b), Keys(a) \cap Keys(b) = {}
      PROVE Distinct(new)
  <2> SUFFICES ASSUME NEW i \in 1..Len(new), NEW j \in 1..Len(new),
                      new[i] = new[j]
               PROVE  i = j
    BY <1>1 DEF Distinct
  <2>1. \A n \in 1..Len(new) :
            \/ n \in DOMAIN a /\ new[n] = a[n]
            \/ n > Len(a) /\ n - Len(a) \in DOMAIN b /\ new[n] = b[n - Len(a)]
    BY <1>1
  <2>2. \A m \in DOMAIN a, n \in DOMAIN b : a[m] # b[n]
    BY <1>5 DEF Keys
  <2>3. CASE i \in DOMAIN a /\ j \in DOMAIN a
    BY <1>1, <1>5, <2>3 DEF Distinct
  <2>4. CASE i > Len(a) /\ j > Len(a)
    <3>1. /\ i - Len(a) \in DOMAIN b /\ new[i] = b[i - Len(a)]
          /\ j - Len(a) \in DOMAIN b /\ new[j] = b[j - Len(a)]
      BY <1>1, <2>4
    <3>2. b[i - Len(a)] = b[j - Len(a)]
      BY <3>1
    <3>3. i - Len(a) = j - Len(a)
      BY <1>5, <3>1, <3>2 DEF Distinct
    <3> QED BY <1>1, <3>3
  <2> QED BY <1>1, <2>1, <2>2, <2>3, <2>4
<1> QED BY <1>1, <1>2, <1>3, <1>4, <1>5 DEF new

\* Erasing the element at a position.
LEMMA EraseList ==
    ASSUME NEW S, NEW list \in Seq(S), NEW i \in 1..Len(list)
    PROVE  /\ EraseAt(list, i) \in Seq(S)
           /\ Distinct(list) => Keys(EraseAt(list, i)) = Keys(list) \ {list[i]}
           /\ Distinct(list) => Distinct(EraseAt(list, i))
<1> DEFINE new == EraseAt(list, i)
<1>1. /\ new \in Seq(S) /\ Len(new) = Len(list) - 1
      /\ DOMAIN new = 1..Len(new) /\ DOMAIN list = 1..Len(list)
      /\ Len(list) \in Nat
      /\ \A n \in 1..Len(new) :
            new[n] = IF n < i THEN list[n] ELSE list[n + 1]
  <2> DEFINE a == SubSeq(list, 1, i - 1)
             b == SubSeq(list, i + 1, Len(list))
  <2>1. /\ a \in Seq(S) /\ Len(a) = i - 1
        /\ \A n \in 1..(i - 1) : a[n] = list[n]
    OBVIOUS
  <2>2. /\ b \in Seq(S) /\ Len(b) = Len(list) - i
        /\ \A n \in 1..(Len(list) - i) : b[n] = list[i + n]
    OBVIOUS
  <2>3. new = a \o b /\ Len(list) \in Nat /\ DOMAIN list = 1..Len(list)
    BY DEF EraseAt
  <2> HIDE DEF new, a, b
  <2>4. /\ new \in Seq(S) /\ Len(new) = Len(a) + Len(b)
        /\ DOMAIN new = 1..Len(new)
        /\ \A n \in 1..Len(new) :
              new[n] = IF n <= Len(a) THEN a[n] ELSE b[n - Len(a)]
    BY ZenonT(60), <2>1, <2>2, <2>3, ConcatElements
  <2>5. Len(new) = Len(list) - 1
    BY <2>1, <2>2, <2>3, <2>4
  <2>6. ASSUME NEW n \in 1..Len(new)
        PROVE  new[n] = IF n < i THEN list[n] ELSE list[n + 1]
    <3>1. CASE n < i
      BY <2>1, <2>3, <2>4, <3>1
    <3>2. CASE ~(n < i)
      <4>1. /\ n - (i - 1) \in 1..(Len(list) - i) /\ i + (n - (i - 1)) = n + 1
            /\ ~(n <= Len(a))
        BY <2>1, <2>3, <2>5, <3>2
      <4>2. new[n] = b[n - (i - 1)]
        BY <2>1, <2>4, <4>1
      <4> QED BY <2>2, <3>2, <4>1, <4>2
    <3> QED BY <3>1, <3>2
  <2> QED BY <2>3, <2>4, <2>5, <2>6
<1> HIDE DEF new
<1>2. ASSUME Distinct(list), NEW k \in Keys(new) PROVE k \in Keys(list) \ {list[i]}
  <2>1. PICK n \in 1..Len(new) : new[n] = k
    BY <1>1, <1>2 DEF Keys
  <2>2. PICK m \in 1..Len(list) : m # i /\ list[m] = k
    <3>1. CASE n < i
      BY <1>1, <2>1, <3>1
    <3>2. CASE ~(n < i)
      <4>1. n + 1 \in 1..Len(list) /\ n + 1 # i /\ list[n + 1] = k
        BY <1>1, <2>1, <3>2
      <4> QED BY <4>1
    <3> QED BY <3>1, <3>2
  <2> QED BY <1>1, <1>2, <2>2 DEF Keys, Distinct
<1>3. ASSUME NEW k \in Keys(list), k # list[i] PROVE k \in Keys(new)
  <2>1. PICK m \in 1..Len(list) : list[m] = k
    BY <1>1, <1>3 DEF Keys
  <2>2. PICK n \in 1..Len(new) : new[n] = k
    <3>1. CASE m < i
      <4>1. m \in 1..Len(new) /\ new[m] = k
        BY <1>1, <2>1, <3>1
      <4> QED BY <4>1
    <3>2. CASE ~(m < i)
      <4>1. m - 1 \in 1..Len(new) /\ ~(m - 1 < i) /\ (m - 1) + 1 = m
        BY <1>1, <1>3, <2>1, <3>2
      <4>2. new[m - 1] = k
        BY <1>1, <2>1, <4>1
      <4> QED BY <4>1, <4>2
    <3> QED BY <3>1, <3>2
  <2> QED BY <1>1, <2>2 DEF Keys
<1>4. ASSUME Distinct(list) PROVE Distinct(new)
  <2> SUFFICES ASSUME NEW m \in 1..Len(new), NEW n \in 1..Len(new),
                      new[m] = new[n]
               PROVE  m = n
    BY <1>1 DEF Distinct
  <2> DEFINE at(p) == IF p < i THEN p ELSE p + 1
  <2>1. \A p \in 1..Len(new) : at(p) \in 1..Len(list) /\ new[p] = list[at(p)]
    BY <1>1
  <2>2. at(m) = at(n)
    <3> HIDE DEF at
    <3> QED BY <1>1, <1>4, <2>1 DEF Distinct
  <2> QED BY <1>1, <2>2
<1> QED BY SMTT(60), <1>1, <1>2, <1>3, <1>4 DEF new

\* push_back and push_front keep the keys unique whether or not the key is new.
LEMMA PushList ==
    ASSUME NEW S, NEW list \in Seq(S), NEW key \in S
    PROVE  /\ PushBack(list, key) \in Seq(S)
           /\ PushFront(list, key) \in Seq(S)
           /\ Keys(PushBack(list, key)) = Keys(list) \cup {key}
           /\ Keys(PushFront(list, key)) = Keys(list) \cup {key}
           /\ Distinct(list) => Distinct(PushBack(list, key))
           /\ Distinct(list) => Distinct(PushFront(list, key))
<1>1. /\ <<key>> \in Seq(S) /\ Keys(<<key>>) = {key} /\ Distinct(<<key>>)
  BY DEF Keys, Distinct
<1>2. CASE Contains(list, key)
  BY <1>2, ContainsKeys DEF PushBack, PushFront
<1>3. CASE ~Contains(list, key)
  <2>1. key \notin Keys(list)
    BY <1>3, ContainsKeys
  <2>2. PushBack(list, key) = Append(list, key)
    BY <1>3 DEF PushBack
  <2>3. PushFront(list, key) = <<key>> \o list
    BY <1>3 DEF PushFront
  <2>4. /\ <<key>> \o list \in Seq(S)
        /\ Keys(<<key>> \o list) = {key} \cup Keys(list)
        /\ Distinct(list) => Distinct(<<key>> \o list)
    <3> HIDE DEF Distinct, Keys
    <3>1. {key} \cap Keys(list) = {}
      BY <2>1
    <3> DEFINE one == <<key>>
    <3>2. one \in Seq(S) /\ Keys(one) = {key} /\ Distinct(one)
      BY <1>1
    <3> HIDE DEF one
    <3>3. /\ one \o list \in Seq(S)
          /\ Keys(one \o list) = {key} \cup Keys(list)
          /\ Distinct(list) => Distinct(one \o list)
      BY <3>1, <3>2, ConcatList
    <3> QED BY <3>3 DEF one
  <2>5. /\ Append(list, key) \in Seq(S)
        /\ Keys(Append(list, key)) = Keys(list) \cup {key}
        /\ Distinct(list) => Distinct(Append(list, key))
    BY <2>1, AppendList
  <2> QED BY <2>2, <2>3, <2>4, <2>5
<1> QED BY <1>2, <1>3

\* remove(key) takes out that key and nothing else.
LEMMA RemoveList ==
    ASSUME NEW S, NEW list \in Seq(S), NEW key
    PROVE  /\ Remove(list, key) \in Seq(S)
           /\ Distinct(list) => Keys(Remove(list, key)) = Keys(list) \ {key}
           /\ Distinct(list) => Distinct(Remove(list, key))
<1>1. CASE Contains(list, key)
  <2>1. IndexOf(list, key) \in 1..Len(list) /\ list[IndexOf(list, key)] = key
    BY <1>1 DEF Contains, IndexOf
  <2> QED BY <1>1, <2>1, EraseList DEF Remove
<1>2. CASE ~Contains(list, key)
  BY <1>2, ContainsKeys DEF Remove
<1> QED BY <1>1, <1>2

\* insert(pos, key) adds the key, at any position.
LEMMA InsertList ==
    ASSUME NEW S, NEW list \in Seq(S), NEW key \in S, NEW pos \in 0..Len(list)
    PROVE  /\ Insert(list, pos, key) \in Seq(S)
           /\ Keys(Insert(list, pos, key)) = Keys(list) \cup {key}
           /\ Distinct(list) => Distinct(Insert(list, pos, key))
<1>0. ~(pos > Len(list))
  OBVIOUS
<1>1. CASE Contains(list, key)
  BY <1>1, ContainsKeys DEF Insert
<1>2. CASE ~Contains(list, key)
  <2> DEFINE a == SubSeq(list, 1, pos)
             b == SubSeq(list, pos + 1, Len(list))
             c == a \o <<key>>
  <2>1. /\ a \in Seq(S) /\ Len(a) = pos /\ b \in Seq(S)
        /\ Len(b) = Len(list) - pos
        /\ DOMAIN a = 1..pos /\ DOMAIN b = 1..(Len(list) - pos)
        /\ \A n \in 1..pos : a[n] = list[n]
        /\ \A n \in 1..(Len(list) - pos) : b[n] = list[pos + n]
        /\ DOMAIN list = 1..Len(list) /\ Len(list) \in Nat
    OBVIOUS
  <2>2. Insert(list, pos, key) = c \o b
    BY <1>0, <1>2 DEF Insert
  <2>3. /\ <<key>> \in Seq(S) /\ Keys(<<key>>) = {key} /\ Distinct(<<key>>)
    BY DEF Keys, Distinct
  <2> HIDE DEF a, b
  <2>4. Keys(a) \cup Keys(b) = Keys(list)
    <3>1. ASSUME NEW k \in Keys(list) PROVE k \in Keys(a) \cup Keys(b)
      <4>1. PICK n \in 1..Len(list) : list[n] = k
        BY <2>1, <3>1 DEF Keys
      <4>2. CASE n <= pos
        BY <2>1, <4>1, <4>2 DEF Keys
      <4>3. CASE ~(n <= pos)
        <5>1. n - pos \in DOMAIN b /\ pos + (n - pos) = n
          BY <2>1, <4>3
        <5>2. b[n - pos] = k
          BY <2>1, <4>1, <5>1
        <5> QED BY <5>1, <5>2 DEF Keys
      <4> QED BY <4>2, <4>3
    <3>2. ASSUME NEW n \in DOMAIN b PROVE b[n] \in Keys(list)
      <4>1. pos + n \in DOMAIN list
        BY <2>1, <3>2
      <4> QED BY <2>1, <3>2, <4>1 DEF Keys
    <3>3. ASSUME NEW n \in DOMAIN a PROVE a[n] \in Keys(list)
      BY <2>1, <3>3 DEF Keys
    <3> QED BY <3>1, <3>2, <3>3 DEF Keys
  <2>5. ASSUME Distinct(list)
        PROVE  Distinct(a) /\ Distinct(b) /\ Keys(a) \cap Keys(b) = {}
    <3>1. Distinct(a)
      BY <2>1, <2>5 DEF Distinct
    <3>2. Distinct(b)
      <4> SUFFICES ASSUME NEW m \in DOMAIN b, NEW n \in DOMAIN b, b[m] = b[n]
                   PROVE  m = n
        BY DEF Distinct
      <4>1. pos + m \in DOMAIN list /\ pos + n \in DOMAIN list
        BY <2>1
      <4>2. pos + m = pos + n
        BY <2>1, <2>5, <4>1 DEF Distinct
      <4> QED BY <2>1, <4>2
    <3>3. ASSUME NEW m \in DOMAIN a, NEW n \in DOMAIN b PROVE a[m] # b[n]
      <4>1. pos + n \in DOMAIN list /\ m \in DOMAIN list /\ m # pos + n
        BY <2>1, <3>3
      <4> QED BY <2>1, <2>5, <3>3, <4>1 DEF Distinct
    <3> QED BY <3>1, <3>2, <3>3 DEF Keys
  <2>6. /\ c \in Seq(S) /\ Keys(c) = Keys(a) \cup {key}
        /\ Distinct(list) => Distinct(c)
    <3> DEFINE one == <<key>>
    <3>1. one \in Seq(S) /\ Keys(one) = {key} /\ Distinct(one)
      BY <2>3
    <3>2. Keys(a) \cap Keys(one) = {}
      BY <1>2, <2>4, <3>1, ContainsKeys
    <3> HIDE DEF one
    <3>3. a \in Seq(S) /\ (Distinct(list) => Distinct(a))
      BY <2>1, <2>5
    <3>4. /\ a \o one \in Seq(S) /\ Keys(a \o one) = Keys(a) \cup {key}
          /\ Distinct(list) => Distinct(a \o one)
      BY <3>1, <3>2, <3>3, ConcatList
    <3> QED BY <3>4 DEF one
  <2> HIDE DEF c
  <2>7. c \o b \in Seq(S) /\ Keys(c \o b) = Keys(c) \cup Keys(b)
    BY <2>1, <2>6, ConcatList
  <2>8. ASSUME Distinct(list) PROVE Distinct(c \o b)
    <3>1. Keys(c) \cap Keys(b) = {}
      BY <1>2, <2>4, <2>5, <2>6, <2>8, ContainsKeys
    <3> QED BY <2>1, <2>5, <2>6, <2>8, <3>1, ConcatList
  <2> QED BY <2>2, <2>4, <2>6, <2>7, <2>8
<1> QED BY <1>1, <1>2

\* move permutes the list: from any position to any position the rotation
\* keeps the type, the keys and their uniqueness.
LEMMA RotateList ==
    ASSUME NEW S, NEW list \in Seq(S),
           NEW from \in 1..Len(list), NEW to \in 1..Len(list)
    PROVE  /\ Rotate(list, from, to) \in Seq(S)
           /\ Keys(Rotate(list, from, to)) = Keys(list)
           /\ Distinct(list) => Distinct(Rotate(list, from, to))
<1> DEFINE n == Len(list)
           at(i) == IF i = to THEN from
                    ELSE IF from < to /\ from <= i /\ i < to THEN i + 1
                    ELSE IF to < from /\ to < i /\ i <= from THEN i - 1
                    ELSE i
           back(i) == IF i = from THEN to
                      ELSE IF from < to /\ from < i /\ i <= to THEN i - 1
                      ELSE IF to < from /\ to <= i /\ i < from THEN i + 1
                      ELSE i
           new == Rotate(list, from, to)
<1>0. n \in Nat /\ DOMAIN list = 1..n /\ from \in 1..n /\ to \in 1..n
      /\ \A i \in 1..n : list[i] \in S
  OBVIOUS
<1>1. \A i \in 1..n : at(i) \in 1..n /\ back(i) \in 1..n /\ at(back(i)) = i
                       /\ back(at(i)) = i
  BY <1>0
<1>2. new = [i \in 1..n |-> list[at(i)]]
  BY <1>0 DEF Rotate
<1> HIDE DEF at, back, new, n
<1>3. DOMAIN new = 1..n /\ \A i \in 1..n : new[i] = list[at(i)]
  BY <1>2
<1>4. new \in Seq(S)
  <2>1. \A i \in 1..n : new[i] \in S
    BY <1>0, <1>1, <1>3
  <2>2. new \in [1..n -> S]
    BY <1>2, <2>1
  <2> QED BY <1>0, <2>2
<1>5. ASSUME NEW k \in Keys(new) PROVE k \in Keys(list)
  BY <1>0, <1>1, <1>3, <1>5 DEF Keys
<1>6. ASSUME NEW k \in Keys(list) PROVE k \in Keys(new)
  <2>1. PICK i \in 1..n : list[i] = k
    BY <1>0, <1>6 DEF Keys
  <2>2. back(i) \in DOMAIN new /\ new[back(i)] = k
    BY <1>1, <1>3, <2>1
  <2> QED BY <2>2 DEF Keys
<1>7. ASSUME Distinct(list) PROVE Distinct(new)
  <2> SUFFICES ASSUME NEW i \in 1..n, NEW j \in 1..n, new[i] = new[j]
               PROVE  i = j
    BY <1>3 DEF Distinct
  <2>1. at(i) = at(j)
    BY <1>0, <1>1, <1>3, <1>7 DEF Distinct
  <2> QED BY <1>1, <2>1
<1> QED BY <1>4, <1>5, <1>6, <1>7 DEF new

\* move of a key the list holds, in each of its three modes.
LEMMA MoveList ==
    ASSUME NEW S, NEW list \in Seq(S), NEW key \in Keys(list),
           NEW offset \in Int, NEW how \in {"POS_SET", "POS_CUR", "POS_END"}
    PROVE  /\ Move(list, key, offset, how) \in Seq(S)
           /\ \A k : k \in Keys(Move(list, key, offset, how)) <=> k \in Keys(list)
           /\ Distinct(list) => Distinct(Move(list, key, offset, how))
<1> DEFINE x == IndexOf(list, key)
           dest == MoveDest(Len(list), x - 1, offset, how) + 1
<1>1. x \in 1..Len(list)
  BY DEF IndexOf, Keys
<1> HIDE DEF x
<1>2. dest \in 1..Len(list)
  <2>1. Len(list) \in Nat /\ Len(list) >= 1
    BY <1>1
  <2>2. CASE how = "POS_SET"
    BY <1>1, <2>1, <2>2 DEF MoveDest
  <2>3. CASE how = "POS_CUR"
    BY <1>1, <2>1, <2>3 DEF MoveDest
  <2>4. CASE how = "POS_END"
    BY <1>1, <2>1, <2>4 DEF MoveDest
  <2> QED BY <2>2, <2>3, <2>4
<1>3. Move(list, key, offset, how) = Rotate(list, x, dest)
  BY DEF Move, x
<1> HIDE DEF dest
<1> QED BY <1>1, <1>2, <1>3, RotateList

----------------------------------------------------------------------------
USE DEF queueVars, resultVars, fillVars, haltVars, clientVars

(***************************************************************************)
(* The operations of RequestGroup return records of a download.            *)
(***************************************************************************)

\* setHaltRequested and setForceHaltRequested.
LEMMA HaltType ==
    ASSUME NEW rg \in Group, NEW f \in BOOLEAN, NEW reason \in HaltReason
    PROVE  /\ SetHaltRequested(rg, f, reason) \in Group
           /\ SetForceHaltRequested(rg, f, reason) \in Group
<1>1. SetHaltRequested(rg, f, reason) \in Group
  BY DEF SetHaltRequested, Group
<1> QED BY <1>1 DEF SetForceHaltRequested, Group

\* pauseRequestGroup.
LEMMA PauseType ==
    ASSUME NEW rg \in Group, NEW reserved \in BOOLEAN, NEW force \in BOOLEAN
    PROVE  PauseRequestGroup(rg, reserved, force) \in Group
<1>1. /\ SetHaltRequested(rg, TRUE, "NONE") \in Group
      /\ SetForceHaltRequested(rg, TRUE, "NONE") \in Group
  BY HaltType DEF HaltReason
<1>2. ASSUME NEW r \in Group PROVE [r EXCEPT !.pauseRequested = TRUE] \in Group
  BY DEF Group
<1> QED BY <1>1, <1>2 DEF PauseRequestGroup

\* The record of a download that is started.
LEMMA ActivatedType ==
    ASSUME NEW rg \in Group
    PROVE  Activated(rg) \in Group
BY DEF Activated, Group, Storage

\* The result reported for a download.
LEMMA ResultType ==
    ASSUME NEW rg \in Group
    PROVE  DownloadResult(rg) \in Result
<1>1. CASE DownloadFinished(rg)
  BY <1>1 DEF DownloadResult, Result
<1>2. CASE ~DownloadFinished(rg) /\ rg.haltReason = "USER_REQUEST"
  BY <1>2 DEF DownloadResult, Result
<1>3. CASE ~DownloadFinished(rg) /\ rg.haltReason # "USER_REQUEST"
  BY <1>3 DEF DownloadResult, Result
<1> QED BY <1>1, <1>2, <1>3

(***************************************************************************)
(* Type correctness, one lemma per group of actions.                       *)
(***************************************************************************)

\* The commands of a download.
LEMMA CommandTypes ==
    ASSUME TypeOK, NEW g \in Gid,
           CommandExit(g) \/ CommandAbort(g) \/ CommandFailure(g)
             \/ CommandSpawn(g) \/ CommandInitStorage(g) \/ CommandComplete(g)
    PROVE  TypeOK'
<1> USE MaxCommandAssumption
<1>1. group \in [Gid -> Group] /\ group[g] \in Group
  BY DEF TypeOK
<1>2. ASSUME CommandRuns(g), NEW r \in Group, r.numCommand = group[g].numCommand
      PROVE  DecreaseNumCommand(r) \in Group
  BY <1>1, <1>2 DEF CommandRuns, DecreaseNumCommand, Group
<1>3. ASSUME UnchangedByCommand, numActive' \in Int, queueCheck' \in BOOLEAN,
             NEW r \in Group, group' = [group EXCEPT ![g] = r]
      PROVE  TypeOK'
  BY <1>3 DEF TypeOK, UnchangedByCommand
<1>4. CASE CommandExit(g)
  BY <1>1, <1>2, <1>3, <1>4 DEF CommandExit, TypeOK
<1>5. CASE CommandAbort(g)
  <2> DEFINE e == [group[g] EXCEPT !.lastErrorCode = "ERROR"]
  <2>1. e \in Group /\ e.numCommand = group[g].numCommand
    BY <1>1 DEF Group, ErrorCode
  <2>2. group' \in {[group EXCEPT ![g] = e], [group EXCEPT ![g] = DecreaseNumCommand(e)]}
    BY <1>1, <1>5 DEF CommandAbort
  <2> HIDE DEF e
  <2>3. DecreaseNumCommand(e) \in Group
    BY <1>2, <1>5, <2>1 DEF CommandAbort, Works
  <2> QED BY <1>3, <1>5, <2>1, <2>2, <2>3 DEF CommandAbort, TypeOK
<1>6. CASE CommandFailure(g)
  <2> DEFINE e == [group[g] EXCEPT !.lastErrorCode = "ERROR"]
             h == SetHaltRequested(e, TRUE, "SHUTDOWN_SIGNAL")
  <2>1. e \in Group /\ e.numCommand = group[g].numCommand
    BY <1>1 DEF Group, ErrorCode
  <2> HIDE DEF e
  <2>2. h \in Group
    BY <2>1, HaltType DEF HaltReason
  <2>3. h.numCommand = group[g].numCommand
    BY <2>1 DEF SetHaltRequested, Group
  <2> HIDE DEF h
  <2>4. DecreaseNumCommand(h) \in Group
    BY <1>2, <1>6, <2>2, <2>3 DEF CommandFailure, Works
  <2>5. group' = [group EXCEPT ![g] = DecreaseNumCommand(h)]
    BY <1>6 DEF CommandFailure, h, e
  <2> QED BY <1>3, <1>6, <2>4, <2>5 DEF CommandFailure, TypeOK
<1>7. CASE CommandSpawn(g)
  <2>1. [group[g] EXCEPT !.numCommand = @ + 1] \in Group
    BY <1>1, <1>7 DEF CommandSpawn, Group
  <2> QED BY <1>3, <1>7, <2>1 DEF CommandSpawn, TypeOK
<1>8. CASE CommandInitStorage(g)
  <2>1. [group[g] EXCEPT !.storage = "partial"] \in Group
    BY <1>1 DEF Group, Storage
  <2> QED BY <1>3, <1>8, <2>1 DEF CommandInitStorage, TypeOK
<1>9. CASE CommandComplete(g)
  <2>1. Completed(g) \in Group
    BY <1>1 DEF Completed, Group, Storage, SeedOnlyEnabled
  <2>2. numActive' \in Int /\ queueCheck' \in BOOLEAN
    BY <1>9 DEF CommandComplete, TypeOK
  <2> QED BY <1>3, <1>9, <2>1, <2>2 DEF CommandComplete
<1> QED BY <1>4, <1>5, <1>6, <1>7, <1>8, <1>9

\* addDownloadResult keeps the types of the result lists.
LEMMA AddResultTypes ==
    ASSUME TypeOK, NEW g \in Gid, NEW r \in Result, AddDownloadResult(g, r)
    PROVE  /\ downloadResults' \in Seq(Gid)
           /\ unfinishedDownloadResults' \subseteq Gid
           /\ result' \in [Gid -> Result \cup {"NONE"}]
<1> DEFINE added == PushBack(downloadResults, g)
<1>1. added \in Seq(Gid)
  BY PushList DEF TypeOK
<1>2. result' = [result EXCEPT ![g] = r]
  BY DEF AddDownloadResult
<1>3. \/ downloadResults' = added
      \/ Len(added) > MaxDownloadResult /\ downloadResults' = EraseAt(added, 1)
  BY DEF AddDownloadResult
<1>4. \/ unfinishedDownloadResults' = unfinishedDownloadResults
      \/ /\ Len(added) > MaxDownloadResult
         /\ unfinishedDownloadResults' = unfinishedDownloadResults \cup {added[1]}
  BY DEF AddDownloadResult
<1> HIDE DEF added
<1>5. ASSUME Len(added) > MaxDownloadResult
      PROVE  1 \in 1..Len(added) /\ added[1] \in Gid
  BY <1>1, <1>5, ManAssumption
<1>6. downloadResults' \in Seq(Gid)
  BY <1>1, <1>3, <1>5, EraseList
<1>7. unfinishedDownloadResults' \subseteq Gid
  BY <1>4, <1>5 DEF TypeOK
<1>8. result' \in [Gid -> Result \cup {"NONE"}]
  BY <1>2 DEF TypeOK
<1> QED BY <1>6, <1>7, <1>8

\* The record of a download that is put back into the queue, or is over.
LEMMA ReapedType ==
    ASSUME NEW rg \in Group
    PROVE  Requeued(rg) \in Group /\ Ended(rg) \in Group
<1> DEFINE rel == ReleaseRuntimeResource(rg)
           f == SetForceHaltRequested(rel, FALSE, "NONE")
<1>1. rel \in Group
  BY DEF ReleaseRuntimeResource, Group
<1>2. Ended(rg) \in Group
  BY <1>1 DEF Ended, Group
<1> HIDE DEF rel
<1>3. f \in Group
  BY <1>1, HaltType DEF HaltReason
<1>4. OptionsMerged(rg) \in SUBSET Opts
  BY DEF OptionsMerged, Group
<1>5. Requeued(rg) = [f EXCEPT !.state = "WAITING",
                               !.option = OptionsMerged(rg),
                               !.pauseRequested = ~rg.restartRequested,
                               !.restartRequested = FALSE,
                               !.pendingOption = {}]
  BY DEF Requeued, f, rel
<1> HIDE DEF f
<1>6. Requeued(rg) \in Group
  BY ZenonT(60), <1>3, <1>4, <1>5 DEF Group
<1> QED BY <1>2, <1>6

\* removeStoppedGroup.
LEMMA RemoveStoppedTypes ==
    ASSUME TypeOK, NEW i \in DOMAIN requestGroups, ProcessStopped(i)
    PROVE  TypeOK'
<1> DEFINE g == requestGroups[i]
<1>1. g \in Gid /\ i \in 1..Len(requestGroups) /\ group[g] \in Group
  BY DEF TypeOK
<1>2. requestGroups' \in Seq(Gid)
  <2>1. requestGroups' = EraseAt(requestGroups, i)
    BY DEF ProcessStopped
  <2> QED BY <1>1, <2>1, EraseList DEF TypeOK
<1>3. numActive' \in Int
  BY DEF ProcessStopped, NumActiveAfterStop, TypeOK
<1>4. CASE group[g].pauseRequested
  <2>1. StopPaused(g)
    BY <1>4 DEF ProcessStopped
  <2>2. group' \in [Gid -> Group]
    BY <1>1, <2>1, ReapedType DEF StopPaused, TypeOK
  <2>3. reservedGroups' \in Seq(Gid)
    BY <1>1, <2>1, PushList DEF StopPaused, TypeOK
  <2> QED BY <1>2, <1>3, <2>1, <2>2, <2>3
      DEF ProcessStopped, StopPaused, TypeOK, UnchangedByFill
<1>5. CASE ~group[g].pauseRequested
  <2>1. StopForGood(g)
    BY <1>5 DEF ProcessStopped
  <2>2. group' = [group EXCEPT ![g] = Ended(group[g])]
    BY <2>1 DEF StopForGood
  <2>3. group' \in [Gid -> Group]
    BY <1>1, <2>2, ReapedType DEF TypeOK
  <2>4. /\ reservedGroups' \in Seq(Gid) /\ queueCheck' \in BOOLEAN
        /\ known' \subseteq Gid
    <3>1. FollowUps \in Seq(Gid) /\ Keys(FollowUps) \subseteq Gid
      BY ManAssumption DEF Keys
    <3>2. FollowUps \o reservedGroups \in Seq(Gid)
      BY <3>1, ConcatList DEF TypeOK
    <3>3. CASE UNCHANGED <<reservedGroups, queueCheck, known>>
      BY <3>3 DEF TypeOK
    <3>4. CASE /\ reservedGroups' = FollowUps \o reservedGroups
               /\ queueCheck' = TRUE
               /\ known' = known \cup Keys(FollowUps)
      BY <3>1, <3>2, <3>4 DEF TypeOK
    <3> QED BY <2>1, <3>3, <3>4 DEF StopForGood
  <2>5. AddDownloadResult(g, DownloadResult(group[g]))
    BY <2>1 DEF StopForGood
  <2>6. DownloadResult(group[g]) \in Result
    BY <1>1, ResultType
  <2> HIDE DEF g
  <2>7. /\ downloadResults' \in Seq(Gid)
        /\ unfinishedDownloadResults' \subseteq Gid
        /\ result' \in [Gid -> Result \cup {"NONE"}]
    BY <1>1, <2>5, <2>6, AddResultTypes
  <2> QED BY <1>2, <1>3, <2>3, <2>4, <2>7
      DEF ProcessStopped, TypeOK, UnchangedByFill
<1> QED BY <1>4, <1>5

\* Starting the first download of the queue.
LEMMA FillStartTypes ==
    ASSUME TypeOK, FillStart
    PROVE  TypeOK'
<1> DEFINE g == reservedGroups[1]
<1>1. /\ 1 \in 1..Len(reservedGroups) /\ g \in Gid /\ group[g] \in Group
      /\ group \in [Gid -> Group]
  BY DEF TypeOK, FillStart
<1>2. reservedGroups' \in Seq(Gid) /\ requestGroups' \in Seq(Gid)
  BY <1>1, EraseList, PushList DEF FillStart, TypeOK
<1>3. Activated(group[g]) \in Group
  BY <1>1, ActivatedType
<1>4. Started(g) \/ StartFailed(g)
  BY DEF FillStart
<1> HIDE DEF g
<1>5. /\ group' \in [Gid -> Group] /\ numActive' \in Int
      /\ queueCheck' \in BOOLEAN /\ count' \in Nat
  <2>1. CASE StartFailed(g)
    <3>1. [Activated(group[g]) EXCEPT !.lastErrorCode = "ERROR"] \in Group
      BY <1>3 DEF Group, ErrorCode
    <3> QED BY <1>1, <2>1, <3>1 DEF StartFailed, TypeOK
  <2>2. CASE Started(g)
    <3> DEFINE seeds(n, s) == s = "finished" /\ n > 0 /\ SeedOnlyEnabled(g)
    <3>0. PICK n \in 0..MaxCommand, s \in Storage, empty \in BOOLEAN :
            /\ group[g].numCommand + n <= MaxCommand
            /\ group' = [group EXCEPT ![g] = Launched(group[g], n, s, seeds(n, s))]
            /\ numActive' = IF seeds(n, s) THEN numActive ELSE numActive + 1
            /\ queueCheck' = (queueCheck \/ empty \/ seeds(n, s))
            /\ count' = count + 1
      BY <2>2 DEF Started
    <3> DEFINE seed == seeds(n, s)
    <3>1. /\ seed \in BOOLEAN
          /\ numActive' \in Int /\ queueCheck' \in BOOLEAN /\ count' \in Nat
      BY <3>0 DEF TypeOK
    <3>2. /\ group[g].numCommand + n \in 0..MaxCommand
          /\ group[g].seedOnly \/ seed \in BOOLEAN
      BY <1>1, <3>0, <3>1, MaxCommandAssumption DEF Group
    <3>3. Launched(group[g], n, s, seed) \in Group
      <4> HIDE DEF seeds
      <4> QED BY <1>3, <3>2 DEF Launched, Group
    <3> QED BY <1>1, <3>0, <3>1, <3>3
  <2> QED BY <1>4, <2>1, <2>2
<1> QED BY <1>2, <1>5 DEF FillStart, TypeOK, UnchangedByFill

\* FillRequestGroupCommand and the rest of fillRequestGroupFromReserver.
LEMMA FillTypes ==
    ASSUME TypeOK, FillNext
    PROVE  TypeOK'
<1>1. CASE FillExecute
  BY <1>1 DEF FillExecute, TypeOK, UnchangedByFill, Pc
<1>2. CASE RemoveStoppedGroup
  BY <1>2, RemoveStoppedTypes DEF RemoveStoppedGroup
<1>3. CASE FillBegin
  <2>1. PICK limit \in FillLimits :
          IF limit <= numActive
          THEN pc' = "return" /\ UNCHANGED <<count, num>>
          ELSE pc' = "fill" /\ count' = 0 /\ num' = FillCount(limit)
    BY <1>3 DEF FillBegin
  <2>2. limit \in Int /\ FillCount(limit) \in Int
    BY <2>1, ManAssumption DEF FillLimits, FillCount, TypeOK
  <2>3. pc' \in Pc /\ count' \in Nat /\ num' \in Int
    BY <2>1, <2>2 DEF TypeOK, Pc
  <2> QED BY <1>3, <2>3 DEF FillBegin, TypeOK, UnchangedByFill
<1>4. CASE FillParse
  <2> DEFINE h == Head(uriListParser)
  <2>1. /\ uriListParser # <<>> /\ uriListParser \in Seq(Gid \cup {BadEntry})
        /\ uriListParser' = Tail(uriListParser)
    BY <1>4 DEF FillParse, Looping, TypeOK
  <2>2. h \in Gid \cup {BadEntry} /\ uriListParser' \in Seq(Gid \cup {BadEntry})
    BY <2>1
  <2>3. CASE h = BadEntry
    BY <1>4, <2>2, <2>3 DEF FillParse, TypeOK, UnchangedByFill, Pc
  <2>4. CASE h # BadEntry
    <3>1. h \in Gid /\ reservedGroups' = PushBack(reservedGroups, h)
          /\ known' = known \cup {h} /\ UNCHANGED <<queueCheck, pc, pending>>
      BY <1>4, <2>2, <2>4 DEF FillParse
    <3> HIDE DEF h
    <3>2. reservedGroups' \in Seq(Gid) /\ known' \subseteq Gid
      BY <3>1, PushList DEF TypeOK
    <3> QED BY <1>4, <2>2, <3>1, <3>2 DEF FillParse, TypeOK, UnchangedByFill
  <2> QED BY <2>3, <2>4
<1>5. CASE FillSkip
  <2>1. 1 \in 1..Len(reservedGroups) /\ reservedGroups[1] \in Gid
    BY <1>5 DEF FillSkip, TypeOK
  <2>2. reservedGroups' \in Seq(Gid)
    BY <1>5, <2>1, EraseList DEF FillSkip, TypeOK
  <2>3. pending' \in Seq(Gid)
    BY <1>5, <2>1 DEF FillSkip, TypeOK
  <2> QED BY <1>5, <2>2, <2>3 DEF FillSkip, TypeOK, UnchangedByFill
<1>6. CASE FillStart
  BY <1>6, FillStartTypes
<1>7. CASE FillEnd
  <2>1. reservedGroups' \in Seq(Gid) /\ pending' \in Seq(Gid)
    BY <1>7, ConcatList DEF FillEnd, ReturnPending, TypeOK
  <2> QED BY <1>7, <2>1 DEF FillEnd, TypeOK, UnchangedByFill, Pc
<1>8. CASE FillReturn
  <2>1. fillAlive' \in BOOLEAN
    BY <1>8 DEF FillReturn, TypeOK
  <2>2. queueCheck' \in BOOLEAN
    BY <1>8 DEF FillReturn, TypeOK
  <2>3. pc' \in {"remove", "commands"}
    BY <1>8 DEF FillReturn
  <2>4. pc' \in Pc /\ count' \in Nat /\ num' \in Int
    BY <1>8, <2>3 DEF FillReturn, Pc
  <2> QED BY <1>8, <2>1, <2>2, <2>4 DEF FillReturn, TypeOK, UnchangedByFill
<1>9. CASE FillPeriodicCheck
  BY <1>9 DEF FillPeriodicCheck, TypeOK, UnchangedByFill
<1> QED BY <1>1, <1>2, <1>3, <1>4, <1>5, <1>6, <1>7, <1>8, <1>9 DEF FillNext

\* The RPC methods.
LEMMA RpcTypes ==
    ASSUME TypeOK, RpcNext
    PROVE  TypeOK'
<1>0. ASSUME NEW g \in Managed PROVE g \in Gid /\ group[g] \in Group
  BY <1>0 DEF Managed, Keys, TypeOK
<1>1. ASSUME UnchangedByGroupCall, queueCheck' \in BOOLEAN,
             reservedGroups' \in Seq(Gid), group' \in [Gid -> Group],
             promise' \in [Gid -> Promise], known' \subseteq Gid, dropped' \subseteq Gid
      PROVE  TypeOK'
  BY <1>1 DEF UnchangedByGroupCall, UnchangedByRpc, TypeOK
<1> DEFINE paused(r, b) == [r EXCEPT !.pauseRequested = b]
<1>p. ASSUME NEW r \in Group, NEW b \in BOOLEAN PROVE paused(r, b) \in Group
  BY DEF Group
<1>2. ASSUME NEW g \in Gid, NEW pos \in 0..(Len(reservedGroups) + 1),
             NEW pause \in BOOLEAN, Add(g, pos, pause)
      PROVE  TypeOK'
  <2> DEFINE at == IF pos > Len(reservedGroups) THEN Len(reservedGroups) ELSE pos
  <2>1. at \in 0..Len(reservedGroups)
    BY DEF TypeOK
  <2>2. reservedGroups' = Insert(reservedGroups, at, g)
    BY <1>2 DEF Add
  <2> HIDE DEF at
  <2>3. reservedGroups' \in Seq(Gid)
    BY <2>1, <2>2, InsertList DEF TypeOK
  <2>4. group' \in [Gid -> Group]
    <3>1. group' = [group EXCEPT ![g] = paused(group[g], pause)]
      BY <1>2 DEF Add
    <3> HIDE DEF paused
    <3> QED BY <1>p, <3>1 DEF TypeOK
  <2>5. promise' \in [Gid -> Promise]
    BY <1>2 DEF Add, TypeOK, Promise
  <2> QED BY <1>1, <1>2, <2>3, <2>4, <2>5 DEF Add, TypeOK
<1>3. ASSUME NEW g \in Gid, RemoveWaiting(g) PROVE TypeOK'
  <2>1. reservedGroups' \in Seq(Gid)
    BY <1>3, RemoveList DEF RemoveWaiting, TypeOK
  <2>2. group' \in [Gid -> Group]
    <3> DEFINE r == [group[g] EXCEPT !.dependee = NoGid]
    <3>1. group' = [group EXCEPT ![g] = r]
      BY <1>3 DEF RemoveWaiting
    <3>2. r \in Group
      <4>1. group[g] \in Group
        BY DEF TypeOK
      <4> QED BY <4>1 DEF Group
    <3> HIDE DEF r
    <3> QED BY <3>1, <3>2 DEF TypeOK
  <2> QED BY <1>1, <1>3, <2>1, <2>2 DEF RemoveWaiting, TypeOK
<1>4. ASSUME NEW g \in Gid, Unpause(g) PROVE TypeOK'
  <2>1. group' \in [Gid -> Group]
    <3>1. group' = [group EXCEPT ![g] = paused(group[g], FALSE)]
      BY <1>4 DEF Unpause
    <3> HIDE DEF paused
    <3> QED BY <1>p, <3>1 DEF TypeOK
  <2>2. promise' \in [Gid -> Promise]
    BY <1>4 DEF Unpause, TypeOK, Promise
  <2> QED BY <1>1, <1>4, <2>1, <2>2 DEF Unpause, TypeOK
<1>5. ASSUME NEW g \in Gid, NEW force \in BOOLEAN, RemoveActive(g, force)
      PROVE  TypeOK'
  <2> DEFINE r == IF force THEN SetForceHaltRequested(group[g], TRUE, "USER_REQUEST")
                           ELSE SetHaltRequested(group[g], TRUE, "USER_REQUEST")
  <2>1. r \in Group
    BY HaltType DEF TypeOK, HaltReason
  <2>2. group' = [group EXCEPT ![g] = r]
    BY <1>5 DEF RemoveActive
  <2> HIDE DEF r
  <2>3. group' \in [Gid -> Group]
    BY <2>1, <2>2 DEF TypeOK
  <2>4. promise' \in [Gid -> Promise]
    BY <1>5 DEF RemoveActive, TypeOK, Promise
  <2> QED BY <1>1, <1>5, <2>3, <2>4 DEF RemoveActive, TypeOK
<1>6. ASSUME NEW g \in Gid, NEW force \in BOOLEAN, Pause(g, force)
      PROVE  TypeOK'
  <2> DEFINE reserved == group[g].state = "WAITING"
             r == PauseRequestGroup(group[g], reserved, force)
  <2>0. reserved \in BOOLEAN /\ group[g] \in Group
    BY DEF TypeOK
  <2>2. group' = [group EXCEPT ![g] = r]
    BY <1>6 DEF Pause
  <2> HIDE DEF reserved
  <2>1. r \in Group
    BY <2>0, PauseType
  <2> HIDE DEF r
  <2>3. group' \in [Gid -> Group]
    BY <2>1, <2>2 DEF TypeOK
  <2>4. promise' \in [Gid -> Promise]
    BY <1>6 DEF Pause, TypeOK, Promise
  <2> QED BY <1>1, <1>6, <2>3, <2>4 DEF Pause, TypeOK
<1>7. ASSUME NEW g \in Gid, NEW o \in Opts, ChangeOption(g, o) PROVE TypeOK'
  <2> DEFINE p == PauseRequestGroup(group[g], FALSE, FALSE)
  <2>0. group[g] \in Group
    BY DEF TypeOK
  <2>1. p \in Group
    BY <2>0, PauseType
  <2>2. group[g].restartRequested \/ PauseAccepted(group[g], FALSE, FALSE) \in BOOLEAN
    BY <2>0 DEF Group, PauseAccepted
  <2>3. OptionChanged(group[g], o) \in Group
    <3>1. CASE group[g].state = "ACTIVE"
      <4> HIDE DEF p
      <4>1. OptionChanged(group[g], o) =
              [p EXCEPT !.pendingOption = {o},
                        !.restartRequested = group[g].restartRequested
                           \/ PauseAccepted(group[g], FALSE, FALSE)]
        BY <3>1 DEF OptionChanged, p
      <4>2. ASSUME NEW b \in BOOLEAN
            PROVE  [p EXCEPT !.pendingOption = {o}, !.restartRequested = b] \in Group
        BY <2>1 DEF Group
      <4> QED BY <2>2, <4>1, <4>2
    <3>2. CASE group[g].state # "ACTIVE"
      BY <2>0, <3>2 DEF OptionChanged, Group
    <3> QED BY <3>1, <3>2
  <2>4. group' \in [Gid -> Group]
    BY <1>7, <2>3 DEF ChangeOption, TypeOK
  <2>5. promise' \in [Gid -> Promise]
    BY <1>7 DEF ChangeOption, TypeOK, Promise
  <2> QED BY <1>1, <1>7, <2>4, <2>5 DEF ChangeOption, TypeOK
<1>8. ASSUME NEW g \in Gid, NEW n \in 1..MaxCommand, ChangeUri(g, n) PROVE TypeOK'
  <2>1. group[g] \in Group
    BY DEF TypeOK
  <2>2. [group[g] EXCEPT !.numCommand = @ + n] \in Group
    BY <1>8, <2>1, MaxCommandAssumption DEF ChangeUri, Group
  <2>3. group' \in [Gid -> Group]
    BY <1>8, <2>2 DEF ChangeUri, TypeOK
  <2> QED BY <1>1, <1>8, <2>3 DEF ChangeUri, TypeOK
<1>9. ASSUME NEW g \in Gid, NEW pos \in {-1, 0, 1},
             NEW how \in {"POS_SET", "POS_CUR", "POS_END"},
             ChangePosition(g, pos, how)
      PROVE  TypeOK'
  <2>1. reservedGroups' \in Seq(Gid)
    <3>1. pos \in Int /\ g \in Keys(reservedGroups)
      BY <1>9 DEF ChangePosition
    <3>2. Move(reservedGroups, g, pos, how) \in Seq(Gid)
      BY <3>1, MoveList DEF TypeOK
    <3> QED BY <1>9, <3>2 DEF ChangePosition
  <2> QED BY <1>1, <1>9, <2>1 DEF ChangePosition, TypeOK
<1>10. CASE UnpauseAll
  <2>1. group' \in [Gid -> Group]
    <3>1. group' = [g \in Gid |-> IF g \in Keys(reservedGroups)
                                  THEN paused(group[g], FALSE) ELSE group[g]]
      BY <1>10 DEF UnpauseAll
    <3> HIDE DEF paused
    <3> QED BY <1>p, <3>1 DEF TypeOK
  <2>2. promise' \in [Gid -> Promise]
    BY <1>10 DEF UnpauseAll, TypeOK, Promise
  <2> QED BY <1>1, <1>10, <2>1, <2>2 DEF UnpauseAll, TypeOK
<1>11. ASSUME NEW force \in BOOLEAN, PauseAll(force) PROVE TypeOK'
  <2>1. group' \in [Gid -> Group]
    <3>1. \A g \in Gid : /\ group[g] \in Group
                         /\ PauseRequestGroup(group[g], FALSE, force) \in Group
                         /\ PauseRequestGroup(group[g], TRUE, force) \in Group
      BY PauseType DEF TypeOK
    <3> QED BY <1>11, <3>1 DEF PauseAll
  <2>2. promise' \in [Gid -> Promise]
    BY ZenonT(60), <1>11 DEF PauseAll, TypeOK, Promise
  <2> QED BY <1>1, <1>11, <2>1, <2>2 DEF PauseAll, TypeOK
<1>12. ASSUME NEW force \in BOOLEAN, Shutdown(force) PROVE TypeOK'
  <2>1. timedHalt' \in Seq(BOOLEAN)
    BY <1>12 DEF Shutdown, TypeOK
  <2> QED BY <1>12, <2>1 DEF Shutdown, TypeOK, UnchangedByRpc
<1>13. ASSUME NEW limit \in ConcurrencyLimits, ChangeMaxConcurrentDownloads(limit)
       PROVE TypeOK'
  BY <1>13 DEF ChangeMaxConcurrentDownloads, TypeOK, UnchangedByRpc
<1>14. ASSUME NEW gids \in SUBSET Gid, RemoveResults(gids) PROVE TypeOK'
  <2>1. downloadResults' \in Seq(Gid)
    <3>1. CASE downloadResults' = <<>>
      BY <3>1
    <3>2. CASE \E g \in Keys(downloadResults) :
                 downloadResults' = Remove(downloadResults, g)
      BY <3>2, RemoveList DEF TypeOK
    <3> QED BY <1>14, <3>1, <3>2 DEF RemoveResults
  <2> QED BY <1>14, <2>1 DEF RemoveResults, TypeOK, UnchangedByRpc
<1> QED BY <1>2, <1>3, <1>4, <1>5, <1>6, <1>7, <1>8, <1>9, <1>10, <1>11, <1>12,
           <1>13, <1>14 DEF RpcNext

\* Halting the engine.
LEMMA HaltTypes ==
    ASSUME TypeOK, HaltNext
    PROVE  TypeOK'
<1>1. ASSUME NEW force \in BOOLEAN, RequestHalt(force)
      PROVE  haltRequested' \in 0..2 /\ group' \in [Gid -> Group]
  <2>1. haltRequested' \in 0..2
    BY <1>1 DEF RequestHalt, TypeOK
  <2>2. \A g \in Gid :
          /\ group[g] \in Group
          /\ SetForceHaltRequested(group[g], TRUE, "SHUTDOWN_SIGNAL") \in Group
          /\ SetHaltRequested(group[g], TRUE, "SHUTDOWN_SIGNAL") \in Group
    BY HaltType DEF TypeOK, HaltReason
  <2> QED BY <1>1, <2>1, <2>2 DEF RequestHalt
<1>2. CASE TimedHaltFires
  <2>1. /\ timedHalt # <<>> /\ timedHalt \in Seq(BOOLEAN)
        /\ timedHalt' = Tail(timedHalt)
    BY <1>2 DEF TimedHaltFires, TypeOK
  <2>2. Head(timedHalt) \in BOOLEAN /\ timedHalt' \in Seq(BOOLEAN)
    BY <2>1
  <2>3. haltRequested' \in 0..2 /\ group' \in [Gid -> Group]
    BY <1>1, <1>2, <2>2 DEF TimedHaltFires, TypeOK
  <2> QED BY <1>2, <2>2, <2>3 DEF TimedHaltFires, TypeOK, UnchangedByHalt
<1>3. CASE AfterEachIteration
  <2>1. haltRequested' \in 0..2 /\ group' \in [Gid -> Group]
    BY <1>1, <1>3 DEF AfterEachIteration
  <2> QED BY <1>3, <2>1 DEF AfterEachIteration, TypeOK, UnchangedByHalt, Pc
<1>4. CASE StoreGlobalHalt
  BY <1>4 DEF StoreGlobalHalt, TypeOK, UnchangedByHalt, Pc
<1>5. CASE EndOfRun
  BY <1>5 DEF EndOfRun, TypeOK, UnchangedByHalt, Pc
<1>6. CASE Exit
  BY <1>6 DEF Exit, TypeOK, UnchangedByHalt, Pc
<1>7. ASSUME NEW signal \in {"SIGINT", "SIGTERM"}, ReceiveSignal(signal)
      PROVE  TypeOK'
  <2>1. globalHaltRequested' \in 0..5
    BY <1>7 DEF ReceiveSignal, TypeOK
  <2> QED BY <1>7, <2>1 DEF ReceiveSignal, TypeOK, UnchangedByHalt
<1> QED BY <1>2, <1>3, <1>4, <1>5, <1>6, <1>7 DEF HaltNext

\* The initial state.
LEMMA InitTypes ==
    ASSUME Init
    PROVE  TypeOK
<1>1. group \in [Gid -> Group]
  <2>1. ASSUME NEW g \in Gid PROVE NewGroup(CreatedPaused(g), DependsOn[g]) \in Group
    <3>1. /\ CreatedPaused(g) \in BOOLEAN /\ DependsOn[g] \in Gid \cup {NoGid}
          /\ 0 \in 0..MaxCommand
      BY ManAssumption, MaxCommandAssumption DEF CreatedPaused
    <3> QED BY <3>1 DEF NewGroup, Group, HaltReason, ErrorCode, Storage
  <2> QED BY <2>1 DEF Init
<1>2. promise \in [Gid -> Promise]
  <2>1. ASSUME NEW g \in Gid PROVE CreatedPaused(g) \in BOOLEAN
    BY ManAssumption DEF CreatedPaused
  <2> QED BY <2>1 DEF Init, Promise
<1>3. /\ reservedGroups \in Seq(Gid) /\ requestGroups \in Seq(Gid)
      /\ downloadResults \in Seq(Gid) /\ pending \in Seq(Gid)
      /\ uriListParser \in Seq(Gid \cup {BadEntry}) /\ timedHalt \in Seq(BOOLEAN)
  BY ManAssumption DEF Init
<1>4. known \subseteq Gid
  BY ManAssumption DEF Init, Keys
<1> QED BY <1>1, <1>2, <1>3, <1>4, ManAssumption DEF Init, TypeOK, Pc

\* Every step keeps the types.
LEMMA NextTypes ==
    ASSUME TypeOK, [Next]_vars
    PROVE  TypeOK'
<1>1. CASE CommandNext
  BY <1>1, CommandTypes DEF CommandNext
<1>2. CASE FillNext
  BY <1>2, FillTypes
<1>3. CASE RpcNext
  BY <1>3, RpcTypes
<1>4. CASE HaltNext
  BY <1>4, HaltTypes
<1>5. CASE UNCHANGED vars
  BY <1>5 DEF vars, TypeOK
<1> QED BY <1>1, <1>2, <1>3, <1>4, <1>5 DEF Next, LoopIterates, Exited

\* Type correctness of the queue and of the engine: no operation leaves a
\* variable outside its range, for any set of downloads and any limits.  In
\* particular the count of a download's commands (RequestGroup::numCommand_)
\* never goes below zero.
THEOREM TypeCorrect == Spec => []TypeOK
<1>1. Init => TypeOK
  BY InitTypes
<1>2. TypeOK /\ [Next]_vars => TypeOK'
  BY NextTypes
<1> QED BY <1>1, <1>2, PTL DEF Spec

-----------------------------------------------------------------------------
(***************************************************************************)
(* The lists of the manager.  ListsDisjoint is made inductive by three     *)
(* facts: a download that was not created has no past, a kept result is a  *)
(* result, and the state of a download in the active list is ACTIVE (by    *)
(* which remove() chooses the list to take it from).                       *)
(***************************************************************************)

NewIsFresh ==
    \A g \in Gid : g \notin known => result[g] = "NONE" /\ g \notin dropped

ResultsAreResults == \A g \in Keys(downloadResults) : result[g] # "NONE"

ActiveState == \A g \in Keys(requestGroups) : group[g].state = "ACTIVE"

ListsInv == TypeOK /\ ListsDisjoint /\ NewIsFresh /\ ResultsAreResults /\ ActiveState

\* The fields of a download that the lists and the slots depend on.
SameCore(r, s) ==
    r.state = s.state /\ r.seedOnly = s.seedOnly /\ r.numCommand = s.numCommand

\* Halt and pause requests leave them alone.
LEMMA RequestsKeepCore ==
    ASSUME NEW rg \in Group, NEW f, NEW reason, NEW reserved, NEW o
    PROVE  /\ SameCore(SetHaltRequested(rg, f, reason), rg)
           /\ SameCore(SetForceHaltRequested(rg, f, reason), rg)
           /\ SameCore(PauseRequestGroup(rg, reserved, f), rg)
           /\ SameCore(OptionChanged(rg, o), rg)
<1>1. ASSUME NEW h, NEW why
      PROVE  /\ SameCore(SetHaltRequested(rg, h, why), rg)
             /\ DOMAIN SetHaltRequested(rg, h, why) = DOMAIN rg
  BY DEF SameCore, SetHaltRequested, Group
<1>2. ASSUME NEW h, NEW why
      PROVE  /\ SameCore(SetForceHaltRequested(rg, h, why), rg)
             /\ DOMAIN SetForceHaltRequested(rg, h, why) = DOMAIN rg
  BY <1>1 DEF SameCore, SetForceHaltRequested
<1>3. ASSUME NEW r, DOMAIN r = DOMAIN rg, SameCore(r, rg)
      PROVE  /\ SameCore([r EXCEPT !.pauseRequested = TRUE], rg)
             /\ DOMAIN [r EXCEPT !.pauseRequested = TRUE] = DOMAIN rg
  BY <1>3 DEF SameCore
<1>4. ASSUME NEW res, NEW force
      PROVE  /\ SameCore(PauseRequestGroup(rg, res, force), rg)
             /\ DOMAIN PauseRequestGroup(rg, res, force) = DOMAIN rg
  <2>1. SameCore(rg, rg)
    BY DEF SameCore
  <2> QED BY <1>1, <1>2, <1>3, <2>1 DEF PauseRequestGroup
<1>5. SameCore(OptionChanged(rg, o), rg)
  <2> DEFINE p == PauseRequestGroup(rg, FALSE, FALSE)
             b == rg.restartRequested \/ PauseAccepted(rg, FALSE, FALSE)
  <2>1. SameCore(p, rg) /\ DOMAIN p = DOMAIN rg
    BY <1>4
  <2>2. CASE rg.state = "ACTIVE"
    <3>1. OptionChanged(rg, o) = [p EXCEPT !.pendingOption = {o}, !.restartRequested = b]
      BY <2>2 DEF OptionChanged
    <3> HIDE DEF p, b
    <3> QED BY <2>1, <3>1 DEF SameCore
  <2>3. CASE rg.state # "ACTIVE"
    BY <2>3 DEF OptionChanged, SameCore
  <2> QED BY <2>2, <2>3
<1> QED BY <1>1, <1>2, <1>4, <1>5

\* What the calls of clients leave alone.
LEMMA RpcFrame ==
    ASSUME TypeOK, RpcNext
    PROVE  /\ UNCHANGED <<requestGroups, numActive, result, pending>>
           /\ \A g \in Gid : /\ group'[g].state = group[g].state
                             /\ group'[g].seedOnly = group[g].seedOnly
           /\ \/ \A g \in Gid : group'[g].numCommand = group[g].numCommand
              \/ \E g \in Gid, n \in 1..MaxCommand : ChangeUri(g, n)
           /\ "changeUri" \notin Methods =>
                \A g \in Gid : group'[g].numCommand = group[g].numCommand
<1> USE DEF UnchangedByGroupCall, UnchangedByRpc
<1> DEFINE Frame == UNCHANGED <<requestGroups, numActive, result, pending>>
           Core == \A g \in Gid : SameCore(group'[g], group[g])
<1>0. group \in [Gid -> Group] /\ \A g \in Gid : group[g] \in Group
  BY DEF TypeOK
<1>1. Frame
  BY ZenonT(60) DEF RpcNext, Add, RemoveWaiting, Unpause, RemoveActive, Pause, ChangeOption,
         ChangeUri, ChangePosition, UnpauseAll, PauseAll, Shutdown,
         ChangeMaxConcurrentDownloads, RemoveResults
<1>2. ASSUME NEW g \in Gid, NEW r, SameCore(r, group[g]), group' = [group EXCEPT ![g] = r]
      PROVE  Core
  BY <1>0, <1>2 DEF SameCore
<1>3. ASSUME UNCHANGED group PROVE Core
  BY <1>3 DEF SameCore
<1>4. ASSUME NEW g \in Gid, NEW b
      PROVE  /\ SameCore([group[g] EXCEPT !.pauseRequested = b], group[g])
             /\ SameCore([group[g] EXCEPT !.dependee = b], group[g])
  BY DEF SameCore
<1>5. ASSUME NEW g \in Gid, NEW pos, NEW pause, Add(g, pos, pause) PROVE Core
  <2>1. group' = [group EXCEPT ![g] = [group[g] EXCEPT !.pauseRequested = pause]]
    BY <1>5 DEF Add
  <2> QED BY <1>2, <1>4, <2>1
<1>6. ASSUME NEW g \in Gid, RemoveWaiting(g) PROVE Core
  <2>1. group' = [group EXCEPT ![g] = [group[g] EXCEPT !.dependee = NoGid]]
    BY <1>6 DEF RemoveWaiting
  <2> QED BY <1>2, <1>4, <2>1
<1>7. ASSUME NEW g \in Gid, Unpause(g) PROVE Core
  <2>1. group' = [group EXCEPT ![g] = [group[g] EXCEPT !.pauseRequested = FALSE]]
    BY <1>7 DEF Unpause
  <2> QED BY <1>2, <1>4, <2>1
<1>8. ASSUME NEW g \in Gid, NEW force \in BOOLEAN, RemoveActive(g, force) PROVE Core
  <2>1. /\ SameCore(SetForceHaltRequested(group[g], TRUE, "USER_REQUEST"), group[g])
        /\ SameCore(SetHaltRequested(group[g], TRUE, "USER_REQUEST"), group[g])
    BY <1>0, RequestsKeepCore
  <2> QED BY <1>2, <1>8, <2>1 DEF RemoveActive
<1>9. ASSUME NEW g \in Gid, NEW force \in BOOLEAN, Pause(g, force) PROVE Core
  <2> DEFINE r == PauseRequestGroup(group[g], group[g].state = "WAITING", force)
  <2>1. SameCore(r, group[g])
    BY <1>0, RequestsKeepCore
  <2>2. group' = [group EXCEPT ![g] = r]
    BY <1>9 DEF Pause
  <2> HIDE DEF r
  <2> QED BY <1>2, <2>1, <2>2
<1>10. ASSUME NEW g \in Gid, NEW o, ChangeOption(g, o) PROVE Core
  <2>1. SameCore(OptionChanged(group[g], o), group[g])
    BY <1>0, RequestsKeepCore
  <2> QED BY <1>2, <1>10, <2>1 DEF ChangeOption
<1>11. ASSUME UnpauseAll PROVE Core
  <2>1. \A g \in Gid : group'[g] \in {[group[g] EXCEPT !.pauseRequested = FALSE], group[g]}
    BY <1>11 DEF UnpauseAll
  <2>2. \A g \in Gid : SameCore([group[g] EXCEPT !.pauseRequested = FALSE], group[g])
    BY <1>4
  <2>3. \A g \in Gid : SameCore(group[g], group[g])
    BY DEF SameCore
  <2> QED BY <2>1, <2>2, <2>3
<1>12. ASSUME NEW force \in BOOLEAN, PauseAll(force) PROVE Core
  <2>1. \A g \in Gid : group'[g] \in {PauseRequestGroup(group[g], FALSE, force),
                                      PauseRequestGroup(group[g], TRUE, force), group[g]}
    BY <1>12 DEF PauseAll
  <2>2. \A g \in Gid : /\ SameCore(PauseRequestGroup(group[g], FALSE, force), group[g])
                       /\ SameCore(PauseRequestGroup(group[g], TRUE, force), group[g])
    BY <1>0, RequestsKeepCore
  <2> QED BY <2>1, <2>2 DEF SameCore
<1>13. ASSUME NEW g \in Gid, NEW n, ChangeUri(g, n)
       PROVE  /\ "changeUri" \in Methods
              /\ \A h \in Gid : /\ group'[h].state = group[h].state
                                /\ group'[h].seedOnly = group[h].seedOnly
  <2>1. group' = [group EXCEPT ![g] = [group[g] EXCEPT !.numCommand = group[g].numCommand + n]]
    BY <1>13 DEF ChangeUri
  <2> QED BY <1>0, <1>13, <2>1 DEF ChangeUri, Rpc
<1>14. \/ Core
       \/ \E g \in Gid, n \in 1..MaxCommand : ChangeUri(g, n)
  <2>1. ASSUME NEW g \in Gid, NEW pos, NEW how, ChangePosition(g, pos, how) PROVE Core
    BY <1>3, <2>1 DEF ChangePosition
  <2>2. ASSUME NEW force, Shutdown(force) PROVE Core
    BY <1>3, <2>2 DEF Shutdown
  <2>3. ASSUME NEW limit, ChangeMaxConcurrentDownloads(limit) PROVE Core
    BY <1>3, <2>3 DEF ChangeMaxConcurrentDownloads
  <2>4. ASSUME NEW gids, RemoveResults(gids) PROVE Core
    BY <1>3, <2>4 DEF RemoveResults
  <2> HIDE DEF Core
  <2> QED BY <1>5, <1>6, <1>7, <1>8, <1>9, <1>10, <1>11, <1>12,
             <2>1, <2>2, <2>3, <2>4 DEF RpcNext
<1> QED BY <1>1, <1>13, <1>14 DEF SameCore

\* A halt leaves alone everything but the halt requests.
LEMMA HaltFrame ==
    ASSUME TypeOK, HaltNext
    PROVE  /\ UNCHANGED <<queueVars, resultVars, pending, known, dropped>>
           /\ \A g \in Gid : SameCore(group'[g], group[g])
<1> DEFINE Core == \A g \in Gid : SameCore(group'[g], group[g])
<1>0. \A g \in Gid : group[g] \in Group
  BY DEF TypeOK
<1>1. UNCHANGED <<queueVars, resultVars, pending, known, dropped>>
  BY DEF HaltNext, TimedHaltFires, AfterEachIteration, StoreGlobalHalt, EndOfRun,
         Exit, ReceiveSignal, UnchangedByHalt
<1>2. ASSUME NEW force, RequestHalt(force) PROVE Core
  <2>1. \A g \in Gid : group'[g] \in
          {SetForceHaltRequested(group[g], TRUE, "SHUTDOWN_SIGNAL"),
           SetHaltRequested(group[g], TRUE, "SHUTDOWN_SIGNAL"), group[g]}
    BY <1>2 DEF RequestHalt
  <2>2. \A g \in Gid :
          /\ SameCore(SetForceHaltRequested(group[g], TRUE, "SHUTDOWN_SIGNAL"), group[g])
          /\ SameCore(SetHaltRequested(group[g], TRUE, "SHUTDOWN_SIGNAL"), group[g])
    BY <1>0, RequestsKeepCore
  <2> QED BY <2>1, <2>2 DEF SameCore
<1>3. ASSUME UNCHANGED group PROVE Core
  BY <1>3 DEF SameCore
<1>4. UNCHANGED group \/ \E force \in BOOLEAN : RequestHalt(force)
  <2>1. CASE TimedHaltFires
    <3>1. timedHalt # <<>> /\ timedHalt \in Seq(BOOLEAN)
      BY <2>1 DEF TimedHaltFires, TypeOK
    <3>2. Head(timedHalt) \in BOOLEAN
      BY <3>1
    <3> QED BY <2>1, <3>2 DEF TimedHaltFires
  <2>2. CASE ~TimedHaltFires
    BY <2>2 DEF HaltNext, AfterEachIteration, StoreGlobalHalt, EndOfRun, Exit,
                ReceiveSignal
  <2> QED BY <2>1, <2>2
<1> QED BY <1>1, <1>2, <1>3, <1>4

\* The commands of a download leave its list alone.
LEMMA CommandFrame ==
    ASSUME TypeOK, CommandNext
    PROVE  /\ UNCHANGED <<reservedGroups, requestGroups, resultVars, pending, known, dropped>>
           /\ \A g \in Gid : group'[g].state = group[g].state
           /\ \A g \in Gid : group'[g].numCommand > 0 => group[g].numCommand > 0
<1>0. group \in [Gid -> Group] /\ \A g \in Gid : group[g] \in Group
  BY DEF TypeOK
<1>1. PICK g \in Gid : \/ CommandExit(g) \/ CommandAbort(g) \/ CommandFailure(g)
                       \/ CommandSpawn(g) \/ CommandInitStorage(g) \/ CommandComplete(g)
  BY DEF CommandNext
<1>2. UNCHANGED <<reservedGroups, requestGroups, resultVars, pending, known, dropped>>
  BY <1>1 DEF CommandExit, CommandAbort, CommandFailure, CommandSpawn,
              CommandInitStorage, CommandComplete, UnchangedByCommand
<1>3. group[g].numCommand > 0
  BY <1>1 DEF CommandExit, CommandAbort, CommandFailure, CommandSpawn,
              CommandInitStorage, CommandComplete, Works, CommandRuns
<1>4. PICK r : group' = [group EXCEPT ![g] = r] /\ r.state = group[g].state
  <2> DEFINE e == [group[g] EXCEPT !.lastErrorCode = "ERROR"]
             h == SetHaltRequested(e, TRUE, "SHUTDOWN_SIGNAL")
  <2>1. CASE CommandExit(g)
    <3>1. DecreaseNumCommand(group[g]).state = group[g].state
      BY <1>0 DEF DecreaseNumCommand, Group
    <3>2. group' = [group EXCEPT ![g] = DecreaseNumCommand(group[g])]
      BY <2>1 DEF CommandExit
    <3> QED BY <3>1, <3>2
  <2>2. CASE CommandAbort(g)
    <3>1. e.state = group[g].state /\ DecreaseNumCommand(e).state = group[g].state
      BY <1>0 DEF DecreaseNumCommand, Group
    <3>2. group' \in {[group EXCEPT ![g] = e], [group EXCEPT ![g] = DecreaseNumCommand(e)]}
      BY <2>2 DEF CommandAbort
    <3> HIDE DEF e
    <3> QED BY <3>1, <3>2
  <2>3. CASE CommandFailure(g)
    <3>1. DecreaseNumCommand(h).state = group[g].state
      BY <1>0 DEF DecreaseNumCommand, SetHaltRequested, Group
    <3>2. group' = [group EXCEPT ![g] = DecreaseNumCommand(h)]
      BY <2>3 DEF CommandFailure
    <3> HIDE DEF h
    <3> QED BY <3>1, <3>2
  <2>4. CASE CommandSpawn(g)
    <3> DEFINE r == [group[g] EXCEPT !.numCommand = group[g].numCommand + 1]
    <3>1. group' = [group EXCEPT ![g] = r] /\ r.state = group[g].state
      BY <1>0, <2>4 DEF CommandSpawn, Group
    <3> HIDE DEF r
    <3> QED BY <3>1
  <2>5. CASE CommandInitStorage(g)
    <3> DEFINE r == [group[g] EXCEPT !.storage = "partial"]
    <3>1. group' = [group EXCEPT ![g] = r] /\ r.state = group[g].state
      BY <1>0, <2>5 DEF CommandInitStorage, Group
    <3> HIDE DEF r
    <3> QED BY <3>1
  <2>6. CASE CommandComplete(g)
    <3>1. Completed(g).state = group[g].state
      BY <1>0 DEF Completed, Group
    <3> QED BY <2>6, <3>1 DEF CommandComplete
  <2> QED BY <1>1, <2>1, <2>2, <2>3, <2>4, <2>5, <2>6
<1> QED BY <1>0, <1>2, <1>3, <1>4

\* A step that leaves the lists, the results and the states alone.
LEMMA ListsKept ==
    ASSUME ListsInv, TypeOK',
           UNCHANGED <<reservedGroups, requestGroups, pending, downloadResults,
                       result, known, dropped>>,
           \A g \in Gid : group'[g].state = group[g].state
    PROVE  ListsInv'
<1>1. ListsDisjoint'
  BY DEF ListsInv, ListsDisjoint, Live
<1>2. NewIsFresh' /\ ResultsAreResults'
  BY DEF ListsInv, NewIsFresh, ResultsAreResults
<1>3. ActiveState'
  <2>1. Keys(requestGroups) \subseteq Gid
    BY DEF ListsInv, TypeOK, Keys
  <2> QED BY <2>1 DEF ListsInv, ActiveState
<1> QED BY <1>1, <1>2, <1>3 DEF ListsInv

\* removeStoppedGroup moves a download from the active list to the front of
\* the queue, or gives it its only result.
LEMMA RemoveStoppedLists ==
    ASSUME ListsInv, NEW i \in DOMAIN requestGroups, ProcessStopped(i)
    PROVE  ListsInv'
<1> DEFINE g == requestGroups[i]
<1>0. TypeOK /\ TypeOK'
  BY RemoveStoppedTypes DEF ListsInv
<1>1. /\ g \in Gid /\ g \in Keys(requestGroups) /\ i \in 1..Len(requestGroups)
      /\ group[g] \in Group /\ group \in [Gid -> Group]
      /\ requestGroups \in Seq(Gid) /\ reservedGroups \in Seq(Gid)
      /\ downloadResults \in Seq(Gid) /\ result \in [Gid -> Result \cup {"NONE"}]
  BY SMTT(60), <1>0 DEF TypeOK, Keys
<1>2. requestGroups' = EraseAt(requestGroups, i) /\ UNCHANGED <<pending, dropped>>
  BY DEF ProcessStopped, UnchangedByFill
<1>3. /\ Distinct(reservedGroups) /\ Distinct(requestGroups) /\ Distinct(pending)
      /\ Distinct(downloadResults)
      /\ Keys(reservedGroups) \cap Keys(requestGroups) = {}
      /\ Keys(pending) \cap (Keys(reservedGroups) \cup Keys(requestGroups)) = {}
      /\ Keys(reservedGroups) \cup Keys(requestGroups) \cup Keys(pending) \subseteq Live
      /\ Live \subseteq known /\ Live \subseteq Gid
  BY <1>0 DEF ListsInv, ListsDisjoint, Live, TypeOK
<1>4. /\ Keys(requestGroups') = Keys(requestGroups) \ {g}
      /\ Distinct(requestGroups')
  BY <1>1, <1>2, <1>3, EraseList
<1>5. /\ \A k \in Keys(downloadResults) : result[k] # "NONE"
      /\ \A k \in Keys(requestGroups) : group[k].state = "ACTIVE"
      /\ \A k \in Gid : k \notin known => result[k] = "NONE" /\ k \notin dropped
      /\ Keys(requestGroups) \subseteq Gid
  BY <1>1 DEF ListsInv, ResultsAreResults, ActiveState, NewIsFresh, Keys
<1>6. StopPaused(g) \/ StopForGood(g)
  BY DEF ProcessStopped
<1> HIDE DEF g
<1>7. CASE StopPaused(g)
  <2>1. /\ reservedGroups' = PushFront(reservedGroups, g)
        /\ UNCHANGED <<resultVars, known>>
        /\ group' = [group EXCEPT ![g] = Requeued(group[g])]
    BY <1>7 DEF StopPaused
  <2>2. Keys(reservedGroups') = Keys(reservedGroups) \cup {g} /\ Distinct(reservedGroups')
    <3>1. /\ Keys(PushFront(reservedGroups, g)) = Keys(reservedGroups) \cup {g}
          /\ Distinct(PushFront(reservedGroups, g))
      BY <1>1, <1>3, PushList
    <3> QED BY <2>1, <3>1
  <2>3. Live' = Live
    BY <1>2, <2>1 DEF Live
  <2>4. ListsDisjoint'
    BY <1>1, <1>2, <1>3, <1>4, <2>1, <2>2, <2>3 DEF ListsDisjoint
  <2>5. NewIsFresh' /\ ResultsAreResults'
    BY <1>2, <1>5, <2>1 DEF NewIsFresh, ResultsAreResults
  <2>6. ActiveState'
    BY <1>1, <1>4, <1>5, <2>1 DEF ActiveState
  <2> QED BY <1>0, <2>4, <2>5, <2>6 DEF ListsInv
<1>8. CASE StopForGood(g)
  <2> DEFINE r == DownloadResult(group[g])
             added == PushBack(downloadResults, g)
  <2>1. /\ group' = [group EXCEPT ![g] = Ended(group[g])]
        /\ AddDownloadResult(g, r)
        /\ \/ UNCHANGED <<reservedGroups, known>>
           \/ /\ Keys(FollowUps) \cap known = {}
              /\ reservedGroups' = FollowUps \o reservedGroups
              /\ known' = known \cup Keys(FollowUps)
    BY <1>8 DEF StopForGood
  <2>2. r \in Result /\ r # "NONE"
    BY <1>1, ResultType DEF Result
  <2> HIDE DEF r
  <2>3. /\ result' = [result EXCEPT ![g] = r]
        /\ downloadResults' = added \/ downloadResults' = EraseAt(added, 1)
        /\ downloadResults' = EraseAt(added, 1) => 1 \in 1..Len(added) \/ downloadResults' = added
    <3>1. added \in Seq(Gid)
      BY <1>1, PushList
    <3>2. /\ result' = [result EXCEPT ![g] = r]
          /\ \/ downloadResults' = added
             \/ Len(added) > MaxDownloadResult /\ downloadResults' = EraseAt(added, 1)
      BY <2>1 DEF AddDownloadResult
    <3> HIDE DEF added
    <3> QED BY <3>1, <3>2, ManAssumption
  <2>4. /\ Distinct(downloadResults')
        /\ Keys(downloadResults') \subseteq Keys(downloadResults) \cup {g}
    <3>1. /\ added \in Seq(Gid) /\ Distinct(added)
          /\ Keys(added) = Keys(downloadResults) \cup {g}
      BY <1>1, <1>3, PushList
    <3> HIDE DEF added
    <3>2. CASE downloadResults' = added
      BY <3>1, <3>2
    <3>3. CASE downloadResults' = EraseAt(added, 1) /\ 1 \in 1..Len(added)
      BY <3>1, <3>3, EraseList
    <3> QED BY <2>3, <3>2, <3>3
  <2>5. /\ Distinct(reservedGroups')
        /\ \/ Keys(reservedGroups') = Keys(reservedGroups) /\ known' = known
           \/ /\ Keys(FollowUps) \cap known = {} /\ Keys(FollowUps) \subseteq Gid
              /\ Keys(reservedGroups') = Keys(FollowUps) \cup Keys(reservedGroups)
              /\ known' = known \cup Keys(FollowUps)
    <3>1. CASE UNCHANGED <<reservedGroups, known>>
      BY <1>3, <3>1
    <3>2. CASE /\ Keys(FollowUps) \cap known = {}
               /\ reservedGroups' = FollowUps \o reservedGroups
               /\ known' = known \cup Keys(FollowUps)
      <4>1. /\ FollowUps \in Seq(Gid) /\ Distinct(FollowUps)
            /\ Keys(FollowUps) \subseteq Gid
        BY ManAssumption DEF Keys
      <4>2. Keys(FollowUps) \cap Keys(reservedGroups) = {}
        BY <1>3, <3>2
      <4> QED BY <1>1, <1>3, <3>2, <4>1, <4>2, ConcatList
    <3> QED BY <2>1, <3>1, <3>2
  <2>6. \A k \in Gid : result'[k] = IF k = g THEN r ELSE result[k]
    BY <1>1, <2>3
  <2>7. Live \ {g} \subseteq Live'
    BY <1>2, <1>3, <2>5, <2>6 DEF Live
  <2>8. Keys(FollowUps) \cap known = {} /\ Keys(FollowUps) \subseteq Gid
           /\ known' = known \cup Keys(FollowUps) => Keys(FollowUps) \subseteq Live'
    BY <1>1, <1>2, <1>3, <1>5, <2>6 DEF Live
  <2>9. ListsDisjoint'
    BY <1>1, <1>2, <1>3, <1>4, <2>4, <2>5, <2>7, <2>8 DEF ListsDisjoint
  <2>10. NewIsFresh'
    BY <1>1, <1>2, <1>3, <1>5, <2>5, <2>6 DEF NewIsFresh
  <2>11. ResultsAreResults'
    <3>1. Keys(downloadResults) \subseteq Gid
      BY <1>1 DEF Keys
    <3> QED BY <1>1, <1>5, <2>2, <2>4, <2>6, <3>1 DEF ResultsAreResults
  <2>12. ActiveState'
    BY <1>1, <1>4, <1>5, <2>1 DEF ActiveState
  <2> QED BY <1>0, <2>9, <2>10, <2>11, <2>12 DEF ListsInv
<1> QED BY <1>6, <1>7, <1>8

\* fillRequestGroupFromReserver moves downloads between the queue, its local
\* vector and the active list, each in one of them at any time.
LEMMA FillLists ==
    ASSUME ListsInv, FillNext
    PROVE  ListsInv'
<1>0. TypeOK /\ TypeOK'
  BY FillTypes DEF ListsInv
<1>1. /\ Distinct(reservedGroups) /\ Distinct(requestGroups) /\ Distinct(pending)
      /\ Distinct(downloadResults)
      /\ Keys(reservedGroups) \cap Keys(requestGroups) = {}
      /\ Keys(pending) \cap (Keys(reservedGroups) \cup Keys(requestGroups)) = {}
      /\ Keys(reservedGroups) \cup Keys(requestGroups) \cup Keys(pending) \subseteq Live
      /\ Live \subseteq known /\ Live \subseteq Gid
  BY <1>0 DEF ListsInv, ListsDisjoint, Live, TypeOK
<1>2. /\ requestGroups \in Seq(Gid) /\ reservedGroups \in Seq(Gid)
      /\ pending \in Seq(Gid) /\ group \in [Gid -> Group]
      /\ Keys(requestGroups) \subseteq Gid /\ Keys(downloadResults) \subseteq Gid
  BY SMTT(60), <1>0 DEF TypeOK, Keys
<1>3. /\ \A k \in Keys(downloadResults) : result[k] # "NONE"
      /\ \A k \in Keys(requestGroups) : group[k].state = "ACTIVE"
      /\ \A k \in Gid : k \notin known => result[k] = "NONE" /\ k \notin dropped
  BY DEF ListsInv, ResultsAreResults, ActiveState, NewIsFresh
<1>4. Keys(<<>>) = {} /\ Distinct(<<>>)
  BY DEF Keys, Distinct
<1>5. ASSUME reservedGroups # <<>>
      PROVE  /\ 1 \in 1..Len(reservedGroups) /\ reservedGroups[1] \in Keys(reservedGroups)
             /\ reservedGroups[1] \in Gid
             /\ Keys(EraseAt(reservedGroups, 1)) = Keys(reservedGroups) \ {reservedGroups[1]}
             /\ Distinct(EraseAt(reservedGroups, 1))
  <2>1. 1 \in 1..Len(reservedGroups) /\ reservedGroups[1] \in Gid
    BY <1>2, <1>5
  <2>2. reservedGroups[1] \in Keys(reservedGroups)
    BY <1>2, <2>1 DEF Keys
  <2> QED BY <1>1, <1>2, <2>1, <2>2, EraseList
<1>6. CASE FillExecute \/ FillBegin \/ FillReturn \/ FillPeriodicCheck
  <2>1. UNCHANGED <<reservedGroups, requestGroups, pending, downloadResults,
                    result, known, dropped, group>>
    BY <1>6 DEF FillExecute, FillBegin, FillReturn, FillPeriodicCheck, UnchangedByFill
  <2> QED BY <1>0, <2>1, ListsKept
<1>7. CASE RemoveStoppedGroup
  BY <1>7, RemoveStoppedLists DEF RemoveStoppedGroup
<1>8. CASE FillParse
  <2> DEFINE h == Head(uriListParser)
  <2>0. /\ UNCHANGED <<group, requestGroups, downloadResults, result, dropped>>
        /\ \/ pending' = <<>> /\ UNCHANGED <<reservedGroups, known>>
           \/ /\ h # BadEntry /\ h \notin known /\ UNCHANGED pending
              /\ reservedGroups' = PushBack(reservedGroups, h)
              /\ known' = known \cup {h}
    BY <1>8 DEF FillParse, UnchangedByFill
  <2>1. h \in Gid \cup {BadEntry}
    <3>1. uriListParser # <<>> /\ uriListParser \in Seq(Gid \cup {BadEntry})
      BY <1>0, <1>8 DEF FillParse, Looping, TypeOK
    <3> QED BY <3>1
  <2> HIDE DEF h
  <2>2. CASE pending' = <<>> /\ UNCHANGED <<reservedGroups, known>>
    <3>1. Live' = Live
      BY <2>0, <2>2 DEF Live
    <3>2. ListsDisjoint'
      BY <1>1, <1>4, <2>0, <2>2, <3>1 DEF ListsDisjoint
    <3>3. NewIsFresh' /\ ResultsAreResults' /\ ActiveState'
      BY <1>3, <2>0, <2>2 DEF NewIsFresh, ResultsAreResults, ActiveState
    <3> QED BY <1>0, <3>2, <3>3 DEF ListsInv
  <2>3. CASE /\ h # BadEntry /\ h \notin known /\ UNCHANGED pending
             /\ reservedGroups' = PushBack(reservedGroups, h)
             /\ known' = known \cup {h}
    <3>0. h \in Gid
      BY <2>1, <2>3
    <3>1. /\ Keys(PushBack(reservedGroups, h)) = Keys(reservedGroups) \cup {h}
          /\ Distinct(PushBack(reservedGroups, h))
      BY <1>1, <1>2, <3>0, PushList
    <3>2. Live' = Live \cup {h}
      BY <1>3, <2>0, <2>3, <3>0 DEF Live
    <3>3. ListsDisjoint'
      BY <1>1, <2>0, <2>3, <3>1, <3>2 DEF ListsDisjoint
    <3>4. NewIsFresh' /\ ResultsAreResults' /\ ActiveState'
      BY <1>3, <2>0, <2>3 DEF NewIsFresh, ResultsAreResults, ActiveState
    <3> QED BY <1>0, <3>3, <3>4 DEF ListsInv
  <2> QED BY <2>0, <2>2, <2>3
<1>9. CASE FillSkip
  <2> DEFINE g == reservedGroups[1]
  <2>1. /\ reservedGroups # <<>>
        /\ pending' = Append(pending, g)
        /\ reservedGroups' = EraseAt(reservedGroups, 1)
        /\ UNCHANGED <<group, requestGroups, downloadResults, result, known, dropped>>
    BY <1>9 DEF FillSkip, UnchangedByFill
  <2>2. /\ g \in Keys(reservedGroups) /\ g \in Gid
        /\ Keys(reservedGroups') = Keys(reservedGroups) \ {g} /\ Distinct(reservedGroups')
    BY <1>5, <2>1
  <2> HIDE DEF g
  <2>3. Keys(Append(pending, g)) = Keys(pending) \cup {g} /\ Distinct(Append(pending, g))
    BY <1>1, <1>2, <2>2, AppendList
  <2>4. Live' = Live
    BY <2>1 DEF Live
  <2>5. ListsDisjoint'
    BY <1>1, <2>1, <2>2, <2>3, <2>4 DEF ListsDisjoint
  <2>6. NewIsFresh' /\ ResultsAreResults' /\ ActiveState'
    BY <1>3, <2>1 DEF NewIsFresh, ResultsAreResults, ActiveState
  <2> QED BY <1>0, <2>5, <2>6 DEF ListsInv
<1>10. CASE FillStart
  <2> DEFINE g == reservedGroups[1]
  <2>1. /\ reservedGroups # <<>>
        /\ reservedGroups' = EraseAt(reservedGroups, 1)
        /\ requestGroups' = PushBack(requestGroups, g)
        /\ Started(g) \/ StartFailed(g)
        /\ UNCHANGED <<pending, downloadResults, result, known, dropped>>
    BY <1>10 DEF FillStart, UnchangedByFill
  <2>2. /\ g \in Keys(reservedGroups) /\ g \in Gid
        /\ Keys(reservedGroups') = Keys(reservedGroups) \ {g} /\ Distinct(reservedGroups')
    BY <1>5, <2>1
  <2> HIDE DEF g
  <2>3. /\ Keys(PushBack(requestGroups, g)) = Keys(requestGroups) \cup {g}
        /\ Distinct(PushBack(requestGroups, g))
    BY <1>1, <1>2, <2>2, PushList
  <2>4. PICK r : group' = [group EXCEPT ![g] = r] /\ r.state = "ACTIVE"
    <3>0. /\ group[g] \in Group /\ Activated(group[g]) \in Group
          /\ Activated(group[g]).state = "ACTIVE"
      <4>1. group[g] \in Group
        BY <1>2, <2>2
      <4>2. Activated(group[g]) \in Group
        BY <4>1, ActivatedType
      <4> QED BY <4>1, <4>2 DEF Activated, Group
    <3>1. CASE StartFailed(g)
      <4> DEFINE r == [Activated(group[g]) EXCEPT !.lastErrorCode = "ERROR"]
      <4>1. r.state = "ACTIVE"
        BY <3>0 DEF Group
      <4>2. group' = [group EXCEPT ![g] = r]
        BY <3>1 DEF StartFailed
      <4> HIDE DEF r
      <4> QED BY <4>1, <4>2
    <3>2. CASE Started(g)
      <4>1. \A n, s, seed : Launched(group[g], n, s, seed).state = "ACTIVE"
        BY <3>0 DEF Launched, Group
      <4>2. PICK n, s, seed : group' = [group EXCEPT ![g] = Launched(group[g], n, s, seed)]
        BY <3>2 DEF Started
      <4> DEFINE r == Launched(group[g], n, s, seed)
      <4>3. r.state = "ACTIVE" /\ group' = [group EXCEPT ![g] = r]
        BY <4>1, <4>2
      <4> HIDE DEF r
      <4> QED BY <4>3
    <3> QED BY <2>1, <3>1, <3>2
  <2>5. Live' = Live
    BY <2>1 DEF Live
  <2>6. ListsDisjoint'
    BY <1>1, <2>1, <2>2, <2>3, <2>5 DEF ListsDisjoint
  <2>7. NewIsFresh' /\ ResultsAreResults'
    BY <1>3, <2>1 DEF NewIsFresh, ResultsAreResults
  <2>8. ActiveState'
    BY <1>2, <1>3, <2>1, <2>2, <2>3, <2>4 DEF ActiveState
  <2> QED BY <1>0, <2>6, <2>7, <2>8 DEF ListsInv
<1>11. CASE FillEnd
  <2>1. /\ reservedGroups' = pending \o reservedGroups /\ pending' = <<>>
        /\ UNCHANGED <<group, requestGroups, downloadResults, result, known, dropped>>
    BY <1>11 DEF FillEnd, ReturnPending, UnchangedByFill
  <2>2. /\ Keys(pending \o reservedGroups) = Keys(pending) \cup Keys(reservedGroups)
        /\ Distinct(pending \o reservedGroups)
    BY <1>1, <1>2, ConcatList
  <2>3. Live' = Live
    BY <2>1 DEF Live
  <2>4. ListsDisjoint'
    BY <1>1, <1>4, <2>1, <2>2, <2>3 DEF ListsDisjoint
  <2>5. NewIsFresh' /\ ResultsAreResults' /\ ActiveState'
    BY <1>3, <2>1 DEF NewIsFresh, ResultsAreResults, ActiveState
  <2> QED BY <1>0, <2>4, <2>5 DEF ListsInv
<1> QED BY <1>6, <1>7, <1>8, <1>9, <1>10, <1>11 DEF FillNext

\* The calls of clients.
LEMMA RpcLists ==
    ASSUME ListsInv, RpcNext
    PROVE  ListsInv'
<1>0. TypeOK /\ TypeOK'
  BY RpcTypes DEF ListsInv
<1>1. /\ UNCHANGED <<requestGroups, result, pending>>
      /\ \A g \in Gid : group'[g].state = group[g].state
  BY <1>0, RpcFrame
<1>2. /\ Distinct(reservedGroups) /\ Distinct(requestGroups) /\ Distinct(pending)
      /\ Distinct(downloadResults)
      /\ Keys(reservedGroups) \cap Keys(requestGroups) = {}
      /\ Keys(pending) \cap (Keys(reservedGroups) \cup Keys(requestGroups)) = {}
      /\ Keys(reservedGroups) \cup Keys(requestGroups) \cup Keys(pending) \subseteq Live
      /\ Live \subseteq known /\ Live \subseteq Gid
  BY <1>0 DEF ListsInv, ListsDisjoint, Live, TypeOK
<1>3. /\ \A k \in Keys(downloadResults) : result[k] # "NONE"
      /\ \A k \in Keys(requestGroups) : group[k].state = "ACTIVE"
      /\ \A k \in Gid : k \notin known => result[k] = "NONE" /\ k \notin dropped
      /\ Keys(requestGroups) \subseteq Gid
      /\ reservedGroups \in Seq(Gid) /\ downloadResults \in Seq(Gid)
  BY <1>0, <1>2 DEF ListsInv, ResultsAreResults, ActiveState, NewIsFresh, TypeOK
<1>4. ActiveState'
  BY <1>1, <1>3 DEF ActiveState
<1>5. ASSUME UNCHANGED <<reservedGroups, downloadResults, known, dropped>>
      PROVE  ListsInv'
  BY <1>0, <1>1, <1>5, ListsKept
<1>6. ASSUME NEW g \in Gid, NEW pos \in 0..(Len(reservedGroups) + 1), NEW pause,
             Add(g, pos, pause)
      PROVE  ListsInv'
  <2> DEFINE at == IF pos > Len(reservedGroups) THEN Len(reservedGroups) ELSE pos
  <2>1. at \in 0..Len(reservedGroups)
    BY <1>3
  <2>2. /\ reservedGroups' = Insert(reservedGroups, at, g) /\ g \notin known
        /\ known' = known \cup {g} /\ UNCHANGED <<dropped, downloadResults>>
    BY <1>6 DEF Add, UnchangedByGroupCall
  <2> HIDE DEF at
  <2>3. /\ Keys(Insert(reservedGroups, at, g)) = Keys(reservedGroups) \cup {g}
        /\ Distinct(Insert(reservedGroups, at, g))
    BY <1>2, <1>3, <2>1, InsertList
  <2>4. Live' = Live \cup {g}
    BY <1>1, <1>3, <2>2 DEF Live
  <2>5. ListsDisjoint'
    BY <1>1, <1>2, <2>2, <2>3, <2>4 DEF ListsDisjoint
  <2>6. NewIsFresh' /\ ResultsAreResults'
    BY <1>1, <1>3, <2>2 DEF NewIsFresh, ResultsAreResults
  <2> QED BY <1>0, <1>4, <2>5, <2>6 DEF ListsInv
<1>7. ASSUME NEW g \in Gid, RemoveWaiting(g) PROVE ListsInv'
  <2>1. /\ g \in Managed /\ group[g].state = "WAITING"
        /\ reservedGroups' = Remove(reservedGroups, g)
        /\ dropped' = dropped \cup {g} /\ UNCHANGED <<known, downloadResults>>
    BY <1>7 DEF RemoveWaiting, UnchangedByGroupCall
  <2>2. g \in Keys(reservedGroups)
    BY <1>3, <2>1 DEF Managed
  <2>3. /\ Keys(Remove(reservedGroups, g)) = Keys(reservedGroups) \ {g}
        /\ Distinct(Remove(reservedGroups, g))
    BY <1>2, <1>3, RemoveList
  <2>4. Live' = Live \ {g}
    BY <1>1, <2>1 DEF Live
  <2>5. ListsDisjoint'
    BY <1>1, <1>2, <2>1, <2>2, <2>3, <2>4 DEF ListsDisjoint
  <2>6. NewIsFresh' /\ ResultsAreResults'
    BY <1>1, <1>2, <1>3, <2>1, <2>2 DEF NewIsFresh, ResultsAreResults
  <2> QED BY <1>0, <1>4, <2>5, <2>6 DEF ListsInv
<1>8. ASSUME NEW g \in Gid, NEW pos \in {-1, 0, 1},
             NEW how \in {"POS_SET", "POS_CUR", "POS_END"},
             ChangePosition(g, pos, how)
      PROVE  ListsInv'
  <2>1. /\ pos \in Int /\ g \in Keys(reservedGroups)
        /\ reservedGroups' = Move(reservedGroups, g, pos, how)
        /\ UNCHANGED <<known, dropped, downloadResults>>
    BY <1>8 DEF ChangePosition, UnchangedByGroupCall
  <2>2. /\ Keys(Move(reservedGroups, g, pos, how)) = Keys(reservedGroups)
        /\ Distinct(Move(reservedGroups, g, pos, how))
    <3>1. pos \in Int /\ g \in Keys(reservedGroups) /\ reservedGroups \in Seq(Gid)
      BY <1>3, <2>1
    <3>2. Distinct(reservedGroups)
      BY <1>2
    <3>3. how \in {"POS_SET", "POS_CUR", "POS_END"}
      BY <1>8
    <3>4. Keys(Move(reservedGroups, g, pos, how)) = Keys(reservedGroups)
      <4>1. \A k : k \in Keys(Move(reservedGroups, g, pos, how))
                     <=> k \in Keys(reservedGroups)
        BY <3>1, <3>3, MoveList, Zenon
      <4> QED BY <4>1
    <3>5. Distinct(Move(reservedGroups, g, pos, how))
      BY <3>1, <3>2, <3>3, MoveList, Zenon
    <3> QED BY <3>4, <3>5
  <2>3. Live' = Live
    BY <1>1, <2>1 DEF Live
  <2>4. ListsDisjoint'
    BY <1>1, <1>2, <2>1, <2>2, <2>3 DEF ListsDisjoint
  <2>5. NewIsFresh' /\ ResultsAreResults'
    BY <1>1, <1>3, <2>1 DEF NewIsFresh, ResultsAreResults
  <2> QED BY <1>0, <1>4, <2>4, <2>5 DEF ListsInv
<1>9. ASSUME NEW gids \in SUBSET Gid, RemoveResults(gids) PROVE ListsInv'
  <2>1. UNCHANGED <<reservedGroups, known>> /\ dropped' = dropped \cup gids
    BY <1>9 DEF RemoveResults
  <2>2. /\ gids \subseteq Keys(downloadResults)
        /\ Keys(downloadResults') \subseteq Keys(downloadResults)
        /\ Distinct(downloadResults')
    <3>1. Keys(<<>>) = {} /\ Distinct(<<>>)
      BY DEF Keys, Distinct
    <3>2. \A g : /\ Keys(Remove(downloadResults, g)) \subseteq Keys(downloadResults)
                 /\ Distinct(Remove(downloadResults, g))
      BY <1>2, <1>3, RemoveList
    <3> QED BY <1>9, <3>1, <3>2 DEF RemoveResults
  <2>3. Live' = Live
    BY <1>1, <1>3, <2>1, <2>2 DEF Live
  <2>4. ListsDisjoint'
    BY <1>1, <1>2, <2>1, <2>2, <2>3 DEF ListsDisjoint
  <2>5. NewIsFresh'
    BY <1>1, <1>3, <2>1, <2>2 DEF NewIsFresh
  <2>6. ResultsAreResults'
    BY <1>1, <1>3, <2>2 DEF ResultsAreResults
  <2> QED BY <1>0, <1>4, <2>4, <2>5, <2>6 DEF ListsInv
<1>10. ASSUME NEW g \in Gid, NEW force \in BOOLEAN,
              Unpause(g) \/ RemoveActive(g, force) \/ Pause(g, force)
       PROVE  ListsInv'
  BY <1>5, <1>10 DEF Unpause, RemoveActive, Pause, UnchangedByGroupCall
<1>11. ASSUME NEW g \in Gid, NEW o, ChangeOption(g, o) PROVE ListsInv'
  BY <1>5, <1>11 DEF ChangeOption, UnchangedByGroupCall
<1>12. ASSUME NEW g \in Gid, NEW n, ChangeUri(g, n) PROVE ListsInv'
  BY <1>5, <1>12 DEF ChangeUri, UnchangedByGroupCall
<1>13. CASE UnpauseAll
  BY <1>5, <1>13 DEF UnpauseAll, UnchangedByGroupCall
<1>14. ASSUME NEW force \in BOOLEAN, PauseAll(force) PROVE ListsInv'
  BY <1>5, <1>14 DEF PauseAll, UnchangedByGroupCall
<1>15. ASSUME NEW force, Shutdown(force) PROVE ListsInv'
  BY <1>5, <1>15 DEF Shutdown
<1>16. ASSUME NEW limit, ChangeMaxConcurrentDownloads(limit) PROVE ListsInv'
  BY <1>5, <1>16 DEF ChangeMaxConcurrentDownloads
<1> QED BY <1>6, <1>7, <1>8, <1>9, <1>10, <1>11, <1>12, <1>13, <1>14, <1>15, <1>16
        DEF RpcNext

\* Every step keeps the invariant of the lists.
LEMMA NextLists ==
    ASSUME ListsInv, [Next]_vars
    PROVE  ListsInv'
<1>0. TypeOK /\ TypeOK'
  BY NextTypes DEF ListsInv
<1>1. CASE CommandNext
  BY <1>0, <1>1, CommandFrame, ListsKept
<1>2. CASE FillNext
  BY <1>2, FillLists
<1>3. CASE RpcNext
  BY <1>3, RpcLists
<1>4. CASE HaltNext
  BY <1>0, <1>4, HaltFrame, ListsKept DEF SameCore
<1>5. CASE UNCHANGED vars
  BY <1>0, <1>5, ListsKept DEF vars
<1> QED BY <1>1, <1>2, <1>3, <1>4, <1>5 DEF Next, LoopIterates, Exited

\* It holds at the start.
LEMMA InitLists ==
    ASSUME Init
    PROVE  ListsInv
<1>1. TypeOK
  BY InitTypes
<1>2. Keys(<<>>) = {} /\ Distinct(<<>>)
  BY DEF Keys, Distinct
<1>3. Keys(InitialGroups) \subseteq Gid /\ Distinct(InitialGroups)
  BY ManAssumption DEF Keys
<1>4. Live = Keys(InitialGroups)
  BY <1>3 DEF Init, Live
<1>5. ListsDisjoint
  BY <1>2, <1>3, <1>4 DEF Init, ListsDisjoint
<1>6. NewIsFresh /\ ResultsAreResults /\ ActiveState
  BY <1>2 DEF Init, NewIsFresh, ResultsAreResults, ActiveState
<1> QED BY <1>1, <1>5, <1>6 DEF ListsInv

\* For any downloads, limits and calls: the waiting queue, the active list and
\* the local vector of the fill loop never share a download nor hold one
\* twice, and hold only downloads that have neither ended nor been removed.
THEOREM ListsCorrect == Spec => []ListsDisjoint
<1>1. Init => ListsInv
  BY InitLists
<1>2. ListsInv /\ [Next]_vars => ListsInv'
  BY NextLists
<1>3. ListsInv => ListsDisjoint
  BY DEF ListsInv
<1> QED BY <1>1, <1>2, <1>3, PTL DEF Spec

\* Only a download of the active list gets a result.
LEMMA ResultStep ==
    ASSUME ListsInv, [Next]_vars, NEW g \in Gid, result[g] # "NONE"
    PROVE  result'[g] = result[g]
<1>0. TypeOK /\ result \in [Gid -> Result \cup {"NONE"}]
  BY DEF ListsInv, TypeOK
<1>1. CASE CommandNext
  BY <1>0, <1>1, CommandFrame
<1>2. CASE RemoveStoppedGroup
  <2>1. PICK i \in DOMAIN requestGroups : ProcessStopped(i)
    BY <1>2 DEF RemoveStoppedGroup
  <2> DEFINE k == requestGroups[i]
  <2>2. k \in Keys(requestGroups)
    BY DEF Keys
  <2>3. k # g
    BY <2>2 DEF ListsInv, ListsDisjoint, Live
  <2>4. StopPaused(k) \/ StopForGood(k)
    BY <2>1 DEF ProcessStopped
  <2> HIDE DEF k
  <2>5. UNCHANGED result \/ \E r : result' = [result EXCEPT ![k] = r]
    BY <2>4 DEF StopPaused, StopForGood, AddDownloadResult
  <2> QED BY <1>0, <2>3, <2>5
<1>3. CASE FillNext /\ ~RemoveStoppedGroup
  BY <1>3 DEF FillNext, FillExecute, FillBegin, FillParse, FillSkip, FillStart,
              FillEnd, FillReturn, FillPeriodicCheck
<1>4. CASE RpcNext
  BY <1>0, <1>4, RpcFrame
<1>5. CASE HaltNext
  BY <1>0, <1>5, HaltFrame
<1>6. CASE UNCHANGED vars
  BY <1>6 DEF vars
<1> QED BY <1>1, <1>2, <1>3, <1>4, <1>5, <1>6 DEF Next, LoopIterates, Exited

\* A result is final for any downloads, limits and calls: no later step changes
\* it, and the download it was given to is never active again.
THEOREM ResultsCorrect == Spec => ResultIsFinal
<1>1. Init => ListsInv
  BY InitLists
<1>2. ListsInv /\ [Next]_vars => ListsInv'
  BY NextLists
<1>3. ListsInv /\ ListsInv' /\ [Next]_vars =>
        [\A g \in Gid : result[g] # "NONE" =>
            /\ result'[g] = result[g]
            /\ g \notin Keys(requestGroups')]_vars
  <2> SUFFICES ASSUME ListsInv, ListsInv', [Next]_vars, NEW g \in Gid,
                      result[g] # "NONE"
               PROVE  result'[g] = result[g] /\ g \notin Keys(requestGroups')
    OBVIOUS
  <2>1. result'[g] = result[g]
    BY ResultStep
  <2>2. \A k \in Keys(requestGroups') : result'[k] = "NONE"
    BY DEF ListsInv, ListsDisjoint, Live
  <2> QED BY <2>1, <2>2
<1> QED BY <1>1, <1>2, <1>3, PTL DEF Spec, ResultIsFinal

-----------------------------------------------------------------------------
(***************************************************************************)
(* The slots.  numActive_ is right because only active downloads have      *)
(* commands (so only they turn into seeders), and because a download that  *)
(* leaves the active list is no longer marked as a seeder (so it counts    *)
(* when it is started again).                                              *)
(***************************************************************************)

SeedOnlyActive == \A g \in Gid : group[g].seedOnly => g \in Keys(requestGroups)

SlotInv ==
    ListsInv /\ CommandsOnlyWhenActive /\ SeedOnlyActive /\ NumActiveAccounting

\* A step that leaves the active list and the slots alone.
LEMMA SlotsKept ==
    ASSUME SlotInv, ListsInv', UNCHANGED <<requestGroups, numActive>>,
           \A g \in Gid : group'[g].seedOnly = group[g].seedOnly,
           \A g \in Gid : group'[g].numCommand > 0 => group[g].numCommand > 0
    PROVE  SlotInv'
<1>1. CommandsOnlyWhenActive' /\ SeedOnlyActive'
  BY DEF SlotInv, CommandsOnlyWhenActive, SeedOnlyActive
<1>2. Keys(requestGroups) \subseteq Gid
  BY DEF SlotInv, ListsInv, TypeOK, Keys
<1>3. SlotHolders' = SlotHolders
  BY <1>2 DEF SlotHolders
<1>4. NumActiveAccounting'
  BY <1>3 DEF SlotInv, NumActiveAccounting
<1> QED BY <1>1, <1>4 DEF SlotInv

\* The slots are a finite set.
LEMMA SlotsFinite ==
    ASSUME TypeOK
    PROVE  IsFiniteSet(SlotHolders) /\ Cardinality(SlotHolders) \in Nat
<1>1. SlotHolders \subseteq Gid
  BY DEF SlotHolders, TypeOK, Keys
<1>2. IsFiniteSet(SlotHolders)
  BY <1>1, FiniteAssumption, FS_Subset
<1> QED BY <1>2, FS_CardinalityType

\* A completed torrent gives its slot back (enableSeedOnly).
LEMMA CommandSlots ==
    ASSUME SlotInv, CommandNext
    PROVE  SlotInv'
<1>0. /\ TypeOK /\ TypeOK' /\ group \in [Gid -> Group]
      /\ \A g \in Gid : group[g] \in Group
  BY CommandTypes DEF SlotInv, ListsInv, TypeOK, CommandNext
<1>1. /\ ListsInv' /\ UNCHANGED requestGroups
      /\ \A g \in Gid : group'[g].numCommand > 0 => group[g].numCommand > 0
  BY <1>0, CommandFrame, ListsKept DEF SlotInv
<1>2. PICK g \in Gid : \/ CommandExit(g) \/ CommandAbort(g) \/ CommandFailure(g)
                       \/ CommandSpawn(g) \/ CommandInitStorage(g) \/ CommandComplete(g)
  BY DEF CommandNext
<1>3. ASSUME UNCHANGED numActive, NEW r, group' = [group EXCEPT ![g] = r],
             r.seedOnly = group[g].seedOnly
      PROVE  SlotInv'
  <2>1. \A h \in Gid : group'[h].seedOnly = group[h].seedOnly
    BY <1>0, <1>3
  <2> QED BY <1>1, <1>3, <2>1, SlotsKept
<1> DEFINE e == [group[g] EXCEPT !.lastErrorCode = "ERROR"]
           h == SetHaltRequested(e, TRUE, "SHUTDOWN_SIGNAL")
<1>4. CASE CommandExit(g)
  <2>1. DecreaseNumCommand(group[g]).seedOnly = group[g].seedOnly
    BY <1>0 DEF DecreaseNumCommand, Group
  <2>2. group' = [group EXCEPT ![g] = DecreaseNumCommand(group[g])] /\ UNCHANGED numActive
    BY <1>4 DEF CommandExit
  <2> QED BY <1>3, <2>1, <2>2
<1>5. CASE CommandAbort(g)
  <2>1. e.seedOnly = group[g].seedOnly /\ DecreaseNumCommand(e).seedOnly = group[g].seedOnly
    BY <1>0 DEF DecreaseNumCommand, Group
  <2>2. /\ group' \in {[group EXCEPT ![g] = e], [group EXCEPT ![g] = DecreaseNumCommand(e)]}
        /\ UNCHANGED numActive
    BY <1>5 DEF CommandAbort
  <2> HIDE DEF e
  <2> QED BY <1>3, <2>1, <2>2
<1>6. CASE CommandFailure(g)
  <2>1. DecreaseNumCommand(h).seedOnly = group[g].seedOnly
    BY <1>0 DEF DecreaseNumCommand, SetHaltRequested, Group
  <2>2. group' = [group EXCEPT ![g] = DecreaseNumCommand(h)] /\ UNCHANGED numActive
    BY <1>6 DEF CommandFailure
  <2> HIDE DEF h
  <2> QED BY <1>3, <2>1, <2>2
<1>7. CASE CommandSpawn(g)
  <2> DEFINE r == [group[g] EXCEPT !.numCommand = group[g].numCommand + 1]
  <2>1. /\ group' = [group EXCEPT ![g] = r] /\ r.seedOnly = group[g].seedOnly
        /\ UNCHANGED numActive
    BY <1>0, <1>7 DEF CommandSpawn, Group
  <2> HIDE DEF r
  <2> QED BY <1>3, <2>1
<1>8. CASE CommandInitStorage(g)
  <2> DEFINE r == [group[g] EXCEPT !.storage = "partial"]
  <2>1. /\ group' = [group EXCEPT ![g] = r] /\ r.seedOnly = group[g].seedOnly
        /\ UNCHANGED numActive
    BY <1>0, <1>8 DEF CommandInitStorage, Group
  <2> HIDE DEF r
  <2> QED BY <1>3, <2>1
<1>9. CASE CommandComplete(g)
  <2>0. /\ group' = [group EXCEPT ![g] = Completed(g)]
        /\ numActive' = IF SeedOnlyEnabled(g) THEN numActive - 1 ELSE numActive
    BY <1>9 DEF CommandComplete
  <2>1. CASE ~SeedOnlyEnabled(g)
    <3>1. Completed(g).seedOnly = group[g].seedOnly
      BY <1>0, <2>1 DEF Completed, Group
    <3> QED BY <1>3, <2>0, <2>1, <3>1
  <2>2. CASE SeedOnlyEnabled(g)
    <3>1. Completed(g).seedOnly = TRUE /\ ~group[g].seedOnly
      BY <1>0, <2>2 DEF Completed, Group, SeedOnlyEnabled
    <3>2. g \in Keys(requestGroups)
      <4>1. group[g].numCommand > 0
        BY <1>9 DEF CommandComplete, Works, CommandRuns
      <4> QED BY <4>1 DEF SlotInv, CommandsOnlyWhenActive
    <3>3. group'[g].seedOnly /\ \A k \in Gid : k # g => group'[k].seedOnly = group[k].seedOnly
      BY <1>0, <2>0, <3>1
    <3>4. g \in SlotHolders /\ SlotHolders' = SlotHolders \ {g}
      <4>1. Keys(requestGroups) \subseteq Gid
        BY SMTT(60), <1>0 DEF TypeOK, Keys
      <4> QED BY <1>1, <3>1, <3>2, <3>3, <4>1 DEF SlotHolders
    <3>5. Cardinality(SlotHolders \ {g}) = Cardinality(SlotHolders) - 1
      BY <1>0, <3>4, SlotsFinite, FS_RemoveElement
    <3>6. NumActiveAccounting'
      BY <2>0, <2>2, <3>4, <3>5 DEF SlotInv, NumActiveAccounting
    <3>7. SeedOnlyActive'
      BY <1>1, <3>2, <3>3 DEF SlotInv, SeedOnlyActive
    <3>8. CommandsOnlyWhenActive'
      BY <1>1 DEF SlotInv, CommandsOnlyWhenActive
    <3> QED BY <1>1, <3>6, <3>7, <3>8 DEF SlotInv
  <2> QED BY <2>1, <2>2
<1> QED BY <1>2, <1>4, <1>5, <1>6, <1>7, <1>8, <1>9

\* A stopped download gives its slot back unless it was a seeder, and is no
\* longer one.
LEMMA RemoveStoppedSlots ==
    ASSUME SlotInv, NEW i \in DOMAIN requestGroups, ProcessStopped(i)
    PROVE  SlotInv'
<1> DEFINE g == requestGroups[i]
<1>0. /\ TypeOK /\ ListsInv' /\ group \in [Gid -> Group]
      /\ g \in Gid /\ g \in Keys(requestGroups) /\ i \in 1..Len(requestGroups)
      /\ group[g] \in Group /\ requestGroups \in Seq(Gid) /\ Distinct(requestGroups)
      /\ Keys(requestGroups) \subseteq Gid
  <2>1. ListsInv' /\ ListsInv
    BY RemoveStoppedLists DEF SlotInv
  <2>2. TypeOK /\ Distinct(requestGroups)
    BY <2>1 DEF ListsInv, ListsDisjoint
  <2> QED BY <2>1, <2>2 DEF TypeOK, Keys
<1>1. /\ requestGroups' = EraseAt(requestGroups, i)
      /\ numActive' = NumActiveAfterStop(g)
      /\ group[g].numCommand = 0
      /\ StopPaused(g) \/ StopForGood(g)
  BY DEF ProcessStopped, Stopped
<1>2. Keys(requestGroups') = Keys(requestGroups) \ {g}
  BY <1>0, <1>1, EraseList
<1> HIDE DEF g
<1>3. \E r : /\ group' = [group EXCEPT ![g] = r]
             /\ ~r.seedOnly /\ r.numCommand = group[g].numCommand
  <2>1. /\ ~Requeued(group[g]).seedOnly
        /\ Requeued(group[g]).numCommand = group[g].numCommand
    BY <1>0 DEF Requeued, ReleaseRuntimeResource, SetForceHaltRequested,
                SetHaltRequested, Group
  <2>2. ~Ended(group[g]).seedOnly /\ Ended(group[g]).numCommand = group[g].numCommand
    BY <1>0 DEF Ended, ReleaseRuntimeResource, Group
  <2>3. group' \in {[group EXCEPT ![g] = Requeued(group[g])],
                    [group EXCEPT ![g] = Ended(group[g])]}
    BY <1>1 DEF StopPaused, StopForGood
  <2> QED BY <2>1, <2>2, <2>3
<1>4. /\ ~group'[g].seedOnly /\ group'[g].numCommand = 0
      /\ \A k \in Gid : k # g => group'[k] = group[k]
  BY <1>0, <1>1, <1>3
<1>5. CommandsOnlyWhenActive' /\ SeedOnlyActive'
  BY <1>0, <1>2, <1>4 DEF SlotInv, CommandsOnlyWhenActive, SeedOnlyActive
<1>6. SlotHolders' = SlotHolders \ {g}
  BY <1>0, <1>2, <1>4 DEF SlotHolders
<1>7. NumActiveAccounting'
  <2>1. CASE group[g].seedOnly
    <3>1. SlotHolders' = SlotHolders
      BY <1>6, <2>1 DEF SlotHolders
    <3> QED BY <1>1, <2>1, <3>1 DEF SlotInv, NumActiveAccounting, NumActiveAfterStop
  <2>2. CASE ~group[g].seedOnly
    <3>1. g \in SlotHolders
      BY <1>0, <2>2 DEF SlotHolders
    <3>2. Cardinality(SlotHolders \ {g}) = Cardinality(SlotHolders) - 1
      BY <1>0, <3>1, SlotsFinite, FS_RemoveElement
    <3> QED BY <1>1, <1>6, <2>2, <3>2 DEF SlotInv, NumActiveAccounting, NumActiveAfterStop
  <2> QED BY <2>1, <2>2
<1> QED BY <1>0, <1>5, <1>7 DEF SlotInv

\* A started download takes a slot, unless it seeds at once.
LEMMA FillStartSlots ==
    ASSUME SlotInv, FillStart
    PROVE  SlotInv'
<1> DEFINE g == reservedGroups[1]
<1>0. ListsInv /\ ListsInv' /\ TypeOK
  BY FillLists DEF SlotInv, ListsInv, FillNext
<1>1. /\ reservedGroups # <<>> /\ requestGroups' = PushBack(requestGroups, g)
      /\ Started(g) \/ StartFailed(g)
  BY DEF FillStart
<1>2. /\ reservedGroups \in Seq(Gid) /\ requestGroups \in Seq(Gid)
      /\ group \in [Gid -> Group] /\ Keys(requestGroups) \subseteq Gid
      /\ numActive \in Int
  BY <1>0 DEF TypeOK, Keys
<1>3. g \in Gid /\ g \in Keys(reservedGroups)
  <2>1. 1 \in DOMAIN reservedGroups /\ g \in Gid
    BY <1>1, <1>2
  <2> QED BY <2>1 DEF Keys
<1> HIDE DEF g
<1>4. g \notin Keys(requestGroups) /\ group[g] \in Group /\ ~group[g].seedOnly
  <2>1. g \notin Keys(requestGroups)
    BY <1>0, <1>3 DEF ListsInv, ListsDisjoint
  <2> QED BY <1>2, <1>3, <2>1 DEF SlotInv, SeedOnlyActive
<1>5. Keys(requestGroups') = Keys(requestGroups) \cup {g}
  <2>1. Keys(PushBack(requestGroups, g)) = Keys(requestGroups) \cup {g}
    BY <1>2, <1>3, PushList
  <2> QED BY <1>1, <2>1
<1>6. \E r : /\ group' = [group EXCEPT ![g] = r]
             /\ numActive' = IF r.seedOnly THEN numActive ELSE numActive + 1
  <2>0. Activated(group[g]) \in Group /\ ~Activated(group[g]).seedOnly
    <3>1. Activated(group[g]) \in Group
      BY <1>4, ActivatedType
    <3> QED BY <1>4, <3>1 DEF Activated, Group
  <2>1. CASE StartFailed(g)
    <3> DEFINE r == [Activated(group[g]) EXCEPT !.lastErrorCode = "ERROR"]
    <3>1. ~r.seedOnly
      BY <2>0 DEF Group
    <3>2. group' = [group EXCEPT ![g] = r] /\ numActive' = numActive + 1
      BY <2>1 DEF StartFailed
    <3> HIDE DEF r
    <3> QED BY <3>1, <3>2
  <2>2. CASE Started(g)
    <3> DEFINE seeds(n, s) == s = "finished" /\ n > 0 /\ SeedOnlyEnabled(g)
    <3>1. PICK n \in 0..MaxCommand, s \in Storage :
            /\ group' = [group EXCEPT ![g] = Launched(group[g], n, s, seeds(n, s))]
            /\ numActive' = IF seeds(n, s) THEN numActive ELSE numActive + 1
      BY <2>2 DEF Started
    <3> DEFINE seed == seeds(n, s)
               r == Launched(group[g], n, s, seed)
    <3>2. seed \in BOOLEAN
      OBVIOUS
    <3> HIDE DEF seeds
    <3>3. r.seedOnly = (group[g].seedOnly \/ seed)
      BY <2>0 DEF Launched, Group
    <3>4. r.seedOnly <=> seed
      BY <1>4, <3>2, <3>3
    <3> HIDE DEF r
    <3>5. group' = [group EXCEPT ![g] = r]
      BY <3>1 DEF r
    <3> QED BY <3>1, <3>4, <3>5
  <2> QED BY <1>1, <2>1, <2>2
<1>7. /\ numActive' = IF group'[g].seedOnly THEN numActive ELSE numActive + 1
      /\ \A k \in Gid : k # g => group'[k] = group[k]
  BY <1>2, <1>3, <1>6
<1>8. CommandsOnlyWhenActive' /\ SeedOnlyActive'
  BY <1>5, <1>7 DEF SlotInv, CommandsOnlyWhenActive, SeedOnlyActive
<1>9. NumActiveAccounting'
  <2>1. CASE group'[g].seedOnly
    <3>1. SlotHolders' = SlotHolders
      BY <1>2, <1>4, <1>5, <1>7, <2>1 DEF SlotHolders
    <3> QED BY <1>7, <2>1, <3>1 DEF SlotInv, NumActiveAccounting
  <2>2. CASE ~group'[g].seedOnly
    <3>1. SlotHolders' = SlotHolders \cup {g} /\ g \notin SlotHolders
      BY <1>2, <1>3, <1>4, <1>5, <1>7, <2>2 DEF SlotHolders
    <3>2. Cardinality(SlotHolders \cup {g}) = Cardinality(SlotHolders) + 1
      BY <1>0, <3>1, SlotsFinite, FS_AddElement
    <3> QED BY <1>7, <2>2, <3>1, <3>2 DEF SlotInv, NumActiveAccounting
  <2> QED BY <2>1, <2>2
<1> QED BY <1>0, <1>8, <1>9 DEF SlotInv

\* Every step keeps the accounting of the slots.
LEMMA NextSlots ==
    ASSUME "changeUri" \notin Methods, SlotInv, [Next]_vars
    PROVE  SlotInv'
<1>0. TypeOK /\ ListsInv' /\ \A g \in Gid : group[g] \in Group
  BY NextLists DEF SlotInv, ListsInv, TypeOK
<1>1. CASE CommandNext
  BY <1>1, CommandSlots
<1>2. CASE RemoveStoppedGroup
  BY <1>2, RemoveStoppedSlots DEF RemoveStoppedGroup
<1>3. CASE FillStart
  BY <1>3, FillStartSlots
<1>4. CASE \/ FillExecute \/ FillBegin \/ FillParse \/ FillSkip \/ FillEnd
           \/ FillReturn \/ FillPeriodicCheck
  <2>1. UNCHANGED <<requestGroups, numActive, group>>
    BY <1>4 DEF FillExecute, FillBegin, FillParse, FillSkip, FillEnd, FillReturn,
                FillPeriodicCheck
  <2> QED BY <1>0, <2>1, SlotsKept
<1>5. CASE RpcNext
  <2>1. /\ UNCHANGED <<requestGroups, numActive>>
        /\ \A g \in Gid : /\ group'[g].seedOnly = group[g].seedOnly
                          /\ group'[g].numCommand = group[g].numCommand
    BY <1>0, <1>5, RpcFrame
  <2> QED BY <1>0, <2>1, SlotsKept
<1>6. CASE HaltNext
  <2>1. /\ UNCHANGED <<requestGroups, numActive>>
        /\ \A g \in Gid : /\ group'[g].seedOnly = group[g].seedOnly
                          /\ group'[g].numCommand = group[g].numCommand
    BY <1>0, <1>6, HaltFrame DEF SameCore
  <2> QED BY <1>0, <2>1, SlotsKept
<1>7. CASE UNCHANGED vars
  BY <1>0, <1>7, SlotsKept DEF vars
<1> QED BY <1>1, <1>2, <1>3, <1>4, <1>5, <1>6, <1>7
        DEF Next, FillNext, LoopIterates, Exited

\* It holds at the start.
LEMMA InitSlots ==
    ASSUME Init
    PROVE  SlotInv
<1>1. ListsInv
  BY InitLists
<1>2. Keys(requestGroups) = {} /\ numActive = 0
  BY DEF Init, Keys
<1>3. \A g \in Gid : group[g].numCommand = 0 /\ group[g].seedOnly = FALSE
  BY DEF Init, NewGroup
<1>4. CommandsOnlyWhenActive /\ SeedOnlyActive
  BY <1>3 DEF CommandsOnlyWhenActive, SeedOnlyActive
<1>5. SlotHolders = {}
  BY <1>2 DEF SlotHolders
<1>6. NumActiveAccounting
  BY <1>2, <1>5, FS_EmptySet DEF NumActiveAccounting
<1> QED BY <1>1, <1>4, <1>6 DEF SlotInv

\* numActive_ is the number of active downloads that are not detached seeders,
\* for any downloads, limits and calls but aria2.changeUri (which may give
\* commands to a paused download, see CommandsOnlyWhenActive); so the assertion
\* of decreaseNumActive() never fails and no slot of
\* --max-concurrent-downloads is lost or gained.
THEOREM SlotsCorrect ==
    ASSUME "changeUri" \notin Methods
    PROVE  Spec => []NumActiveAccounting
<1>1. Init => SlotInv
  BY InitSlots
<1>2. SlotInv /\ [Next]_vars => SlotInv'
  BY NextSlots
<1>3. SlotInv => NumActiveAccounting
  BY DEF SlotInv
<1> QED BY <1>1, <1>2, <1>3, PTL DEF Spec

\* Under the same condition no command works for a download that is waiting,
\* paused or stopped.
THEOREM CommandsCorrect ==
    ASSUME "changeUri" \notin Methods
    PROVE  Spec => []CommandsOnlyWhenActive
<1>1. Init => SlotInv
  BY InitSlots
<1>2. SlotInv /\ [Next]_vars => SlotInv'
  BY NextSlots
<1>3. SlotInv => CommandsOnlyWhenActive
  BY DEF SlotInv
<1> QED BY <1>1, <1>2, <1>3, PTL DEF Spec
=============================================================================
