------------------------- MODULE MCResidentService -------------------------
(***************************************************************************)
(* ResidentService on small sets, for TLC.  No symmetry: it would not be   *)
(* sound for the liveness properties.                                      *)
(***************************************************************************)
EXTENDS ResidentService, TLC
=============================================================================
