----------------------------- MODULE SingleWriter -----------------------------
(***************************************************************************)
(* What the resident service promises to clients and to readers of its     *)
(* snapshots, with no threads, ticks or files: one process at a time owns  *)
(* the database, only the owner serves, and CURRENT.json is a register     *)
(* that only moves forward.  A snapshot need not be a state the database   *)
(* was ever in: its tables are read one after another, each from one of    *)
(* the states between that of its first read and that of its last, and a   *)
(* writer that does not serve (a last tick) may change the database in     *)
(* between.  What is promised is that none of them is older than any table *)
(* of the snapshot before.  Module ResidentService implements this.        *)
(***************************************************************************)
EXTENDS Naturals

CONSTANTS
  Runtimes,             \* service processes
  None                  \* no process

VARIABLES
  owner,                \* the process that owns the database
  serving,              \* the processes that serve clients
  version,              \* the number of states the database has been in
  current               \* the snapshot CURRENT.json leads to: the states its first
                        \* and its last read saw, 0 before the first snapshot

vars == <<owner, serving, version, current>>

Init ==
  /\ owner = None
  /\ serving = {}
  /\ version = 1
  /\ current = [first |-> 0, last |-> 0]

Own ==
  /\ owner = None
  /\ owner' \in Runtimes
  /\ UNCHANGED <<serving, version, current>>

Open ==
  /\ owner # None
  /\ serving' = {owner}
  /\ UNCHANGED <<owner, version, current>>

Close ==
  /\ serving' = {}
  /\ UNCHANGED <<owner, version, current>>

\* With or without having closed: the owner may be killed.
Leave ==
  /\ owner' = None
  /\ serving' = {}
  /\ UNCHANGED <<version, current>>

Write ==
  /\ version' = version + 1
  /\ UNCHANGED <<owner, serving, current>>

Publish ==
  /\ serving # {}
  /\ \E first, last \in current.last..version :
       /\ first <= last
       /\ current' = [first |-> first, last |-> last]
  /\ UNCHANGED <<owner, serving, version>>

Next == Own \/ Open \/ Close \/ Leave \/ Write \/ Publish

Spec == Init /\ [][Next]_vars
=============================================================================
