------------------------------ MODULE MCJournal ------------------------------
(***************************************************************************)
(* Journal on small sets, for TLC.                                         *)
(***************************************************************************)
EXTENDS Journal, TLC

ConnectionSymmetry == Permutations(Connections)
=============================================================================
