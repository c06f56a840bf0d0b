----------------------------- MODULE TaskStates -----------------------------
(***************************************************************************)
(* The task states of the authority core and the table of moves a client   *)
(* may ask for (ALLOWED_TRANSITIONS).  "none" stands for Python's None: the *)
(* task has no row yet.                                                    *)
(***************************************************************************)

Terminal == {"completed", "rejected", "cancelled", "quarantined"}

\* The states in which an executor is believed to be at work.
Held == {"dispatched", "running"}

States == {"none", "proposed", "approved", "unknown"} \cup Held \cup Terminal

Allowed(from) ==
  CASE from = "none"       -> {"proposed"}
    [] from = "proposed"   -> {"approved", "rejected", "cancelled", "quarantined"}
    [] from = "approved"   -> {"dispatched", "cancelled", "quarantined"}
    [] from = "dispatched" -> {"running", "unknown", "cancelled", "quarantined"}
    [] from = "running"    -> {"unknown"} \cup Terminal
    [] from = "unknown"    -> {"running", "completed", "cancelled", "quarantined"}
    [] OTHER               -> {}
=============================================================================
