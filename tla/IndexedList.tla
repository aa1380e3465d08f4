---------------------------- MODULE IndexedList ----------------------------
(***************************************************************************)
(* IndexedList.h: the ordered list with unique keys in which              *)
(* RequestGroupMan keeps its waiting queue, its active list and its        *)
(* download results.  A list is the sequence of its keys; the hash index   *)
(* beside the deque holds exactly the keys of the sequence, so a lookup    *)
(* is a membership test.  Positions are 0-based in the code and 1-based    *)
(* here: code position p is index p + 1.                                   *)
(***************************************************************************)
EXTENDS Integers, Sequences

\* The keys of a list (index_).
Keys(list) == {list[i] : i \in DOMAIN list}

\* A list holds each key once.
Distinct(list) ==
    \A i, j \in DOMAIN list : list[i] = list[j] => i = j

Contains(list, key) == \E i \in DOMAIN list : list[i] = key

\* The 1-based position of a key the list holds.
IndexOf(list, key) == CHOOSE i \in DOMAIN list : list[i] = key

\* push_back and push_front do nothing (return false) when the key is there.
PushBack(list, key) ==
    IF Contains(list, key) THEN list ELSE Append(list, key)

PushFront(list, key) ==
    IF Contains(list, key) THEN list ELSE <<key>> \o list

\* Fault: the hash index forgets the element and the deque keeps it.
EraseNothing(list, i) == list

\* erase at a position, and remove by key.
EraseAt(list, i) ==
    SubSeq(list, 1, i - 1) \o SubSeq(list, i + 1, Len(list))

Remove(list, key) ==
    IF Contains(list, key) THEN EraseAt(list, IndexOf(list, key)) ELSE list

\* insert(pos, key): pos is a 0-based position, refused past the end.
Insert(list, pos, key) ==
    IF pos > Len(list) \/ Contains(list, key)
    THEN list
    ELSE SubSeq(list, 1, pos) \o <<key>> \o SubSeq(list, pos + 1, Len(list))

(***************************************************************************)
(* move: where an element at 0-based position xp goes for a given offset   *)
(* and mode, and the list after the rotation.                              *)
(***************************************************************************)
MoveDest(size, xp, offset, how) ==
    LET lower(n) == IF n < 0 THEN 0 ELSE n
        upper(n) == IF n > size - 1 THEN size - 1 ELSE n
    IN CASE how = "POS_CUR" -> IF offset > 0 THEN upper(xp + offset)
                                             ELSE lower(xp + offset)
         [] how = "POS_END" -> lower(upper(size - 1 + offset))
         [] how = "POS_SET" -> lower(upper(offset))

\* std::rotate of the range between the old and the new position: the
\* elements in between shift by one towards the hole.
Rotate(list, from, to) ==
    [i \in DOMAIN list |->
        IF i = to THEN list[from]
        ELSE IF from < to /\ from <= i /\ i < to THEN list[i + 1]
        ELSE IF to < from /\ to < i /\ i <= from THEN list[i - 1]
        ELSE list[i]]

Move(list, key, offset, how) ==
    LET x == IndexOf(list, key)
    IN Rotate(list, x, MoveDest(Len(list), x - 1, offset, how) + 1)
=============================================================================
