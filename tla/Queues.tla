------------------------------- MODULE Queues -------------------------------
(***************************************************************************)
(* Operators on queues that several modules use, written as recursive      *)
(* functions, about which one can prove.                                   *)
(***************************************************************************)
EXTENDS Integers, Sequences

\* The elements of S in queue q, in order.
Keep(q, S) ==
    LET Kept[n \in 0 .. Len(q)] ==
          IF n = 0 THEN <<>>
          ELSE IF q[n] \in S THEN Append(Kept[n - 1], q[n]) ELSE Kept[n - 1]
    IN  Kept[Len(q)]

=============================================================================
