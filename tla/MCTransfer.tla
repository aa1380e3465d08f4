----------------------------- MODULE MCTransfer -----------------------------
(***************************************************************************)
(* Small instances of Transfer for TLC.                                    *)
(***************************************************************************)
EXTENDS Transfer

CONSTANTS s1, s2, p1, p2

AllPieces == [p \in Peer |-> Piece]
FirstAndAll == [p \in Peer |-> IF p = p1 THEN Piece ELSE {0}]
NoneAllowedFast == [p \in Peer |-> {}]
FirstAllowedFast == [p \in Peer |-> IF p = p1 THEN {0} ELSE {}]
NoPeers == [p \in {} |-> {}]
StreamSymmetry == Permutations(Stream)

=============================================================================
