------------------------- MODULE MCCallReplication -------------------------
(***************************************************************************)
(* Small instances of CallReplication for TLC.                             *)
(***************************************************************************)
EXTENDS CallReplication, TLC

NodeSymmetry == Permutations(Node)
=============================================================================
