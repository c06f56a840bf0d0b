----------------------------- MODULE MCOwnerGate -----------------------------
(***************************************************************************)
(* OwnerGate on small sets, for TLC.                                       *)
(***************************************************************************)
EXTENDS OwnerGate, TLC

CONSTANTS k1, n1, n2

Sound      == [key |-> k1, name |-> n1, epoch |-> 1, quality |-> "sound", expires |-> 1]
Extended   == [Sound EXCEPT !.expires = 2]
Mismatched == [Sound EXCEPT !.quality = "mismatch"]
Garbled    == [Sound EXCEPT !.name = n2, !.quality = "unfit"]
Keyless    == [key |-> None, name |-> None, epoch |-> 0, quality |-> "unfit", expires |-> 0]

\* One task under one key, edited to run longer or with the wrong input, or
\* into something whose receipts cannot be read back.
Mixed  == {Sound, Extended, Mismatched, Garbled}
NoTask == {Keyless}

RunSymmetry == Permutations(Runs)
=============================================================================
