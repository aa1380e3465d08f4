-------------------------- MODULE MCRequestGroupMan --------------------------
(***************************************************************************)
(* Values for the constants of RequestGroupMan that a configuration file   *)
(* cannot write down.                                                      *)
(***************************************************************************)
EXTENDS RequestGroupMan

CONSTANTS g1, g2, g3

NoDependency == [g \in Gid |-> NoGid]
G3OnG2 == [g \in Gid |-> IF g = g3 THEN g2 ELSE NoGid]

NoGroups == <<>>
Group1 == <<g1>>
Groups12 == <<g1, g2>>
Groups123 == <<g1, g2, g3>>

Groups23 == <<g2, g3>>
BadThen1 == <<BadEntry, g1>>
OneThenBad == <<g1, BadEntry>>
=============================================================================
