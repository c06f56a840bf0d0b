----------------------------- MODULE MCAuthority -----------------------------
(***************************************************************************)
(* Authority on small sets, for TLC.                                       *)
(***************************************************************************)
EXTENDS Authority, TLC

\* Identifiers carry no order and no meaning: any renaming of them is a symmetry.
IdSymmetry ==
  Permutations(Tasks) \cup Permutations(Keys) \cup Permutations(Grants)
    \cup Permutations(Receipts) \cup Permutations(Callers)
=============================================================================
