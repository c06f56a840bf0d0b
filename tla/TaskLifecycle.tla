---------------------------- MODULE TaskLifecycle ----------------------------
(***************************************************************************)
(* What the authority core promises about tasks, with no grants, leases,   *)
(* receipts, journal or callers: a task moves along the table of allowed   *)
(* moves and only under the epoch it was created in; the one exception is  *)
(* the loss of a lease, which may put tasks of any epoch, several at once, *)
(* into "unknown".  Epochs only ever rise by one.  Module Authority        *)
(* implements this specification.                                          *)
(***************************************************************************)
EXTENDS Naturals, TaskStates

CONSTANT Tasks          \* task identifiers

VARIABLES
  state,                \* state[t]: the state of task t
  owner,                \* owner[t]: the epoch task t was created under
  current               \* the current authority epoch, 0 before the first

vars == <<state, owner, current>>

Init ==
  /\ state = [t \in Tasks |-> "none"]
  /\ owner = [t \in Tasks |-> 0]
  /\ current = 0

\* A new authority takes over.
Promote ==
  /\ current' = current + 1
  /\ UNCHANGED <<state, owner>>

\* A task is taken in, under the current epoch or one that has just passed.
Propose(t) ==
  /\ state[t] = "none"
  /\ \E e \in 1..current : owner' = [owner EXCEPT ![t] = e]
  /\ state' = [state EXCEPT ![t] = "proposed"]
  /\ UNCHANGED current

\* A task moves, under the authority that owns it.
Move(t) ==
  /\ owner[t] = current
  /\ state[t] # "none"
  /\ \E to \in Allowed(state[t]) : state' = [state EXCEPT ![t] = to]
  /\ UNCHANGED <<owner, current>>

\* Leases are lost: the tasks in lost leave their executors.
Lose(lost) ==
  /\ \A t \in lost : state[t] \in Held
  /\ state' = [t \in Tasks |-> IF t \in lost THEN "unknown" ELSE state[t]]
  /\ UNCHANGED <<owner, current>>

Next ==
  \/ Promote
  \/ \E t \in Tasks : Propose(t) \/ Move(t)
  \/ \E lost \in SUBSET Tasks : Lose(lost)

Spec == Init /\ [][Next]_vars
=============================================================================
