------------------------------ MODULE MCSwarm ------------------------------
(***************************************************************************)
(* Small instances of Swarm for TLC.                                       *)
(***************************************************************************)
EXTENDS Swarm

CONSTANTS a1, a2, a3, i1, i2

\* Two peers share an IP address.
Ips == (a1 :> i1) @@ (a2 :> i1) @@ (a3 :> i2)

\* A download that has just begun; one with three peers, two
\* of which change their minds.
Beginning == [wired |-> <<>>, found |-> Addr, talk |-> {}, slots |-> 2]
Talking == [wired |-> <<a1, a2, a3>>, found |-> {}, talk |-> {a1, a2}, slots |-> 3]
BothSetups == {Beginning, Talking}

=============================================================================
