------------------------------- MODULE MCDHT -------------------------------
(***************************************************************************)
(* Small instances of DHT for TLC.                                         *)
(***************************************************************************)
EXTENDS DHT

CONSTANTS a1, a2, a3, ping, boot, refresh, peers

Homes == [n \in Node |-> IF n \in {1, 6} THEN a1
                         ELSE IF n \in {2, 5} THEN a2 ELSE a3]
Kinds == [t \in Task |-> IF t = ping THEN "ping"
                         ELSE IF t = peers THEN "peerLookup" ELSE "nodeLookup"]
Queues == [t \in Task |-> IF t = peers THEN "periodic2"
                          ELSE IF t = refresh THEN "periodic1" ELSE "immediate"]
Targets == [t \in Task |-> IF t = ping THEN a1
                           ELSE IF t = boot THEN LocalId ELSE 3]
\* A new node that is told DHT ports; one with a full bucket that others wait
\* for, in which node 5 has come back as node 2; and one that refreshes and
\* looks for peers.
AllSetups ==
    { [nodes |-> {1, 2, 3}, known |-> <<>>, ask |-> {2, 3},
       tasks |-> {ping, boot}],
      [nodes |-> {2, 4, 6}, known |-> <<4, 5>>, ask |-> {6},
       tasks |-> {peers}],
      [nodes |-> {1}, known |-> <<1>>, ask |-> {},
       tasks |-> {refresh, peers}] }

=============================================================================
