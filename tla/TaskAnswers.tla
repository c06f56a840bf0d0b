----------------------------- MODULE TaskAnswers -----------------------------
(***************************************************************************)
(* What the owner-gated executor promises of a task that has a well-formed *)
(* key and that its receipts can name, with no labels, runs, comments or   *)
(* failures: the task gets one receipt at most; the receipt says           *)
(* "completed" only after an artifact was published; and nothing is        *)
(* published for a task that has its receipt.  Module OwnerGate implements *)
(* this.                                                                   *)
(***************************************************************************)
CONSTANT Tasks

VARIABLES
  published,            \* whether a task has an artifact
  receipts              \* the receipts of a task

vars == <<published, receipts>>

Init ==
  /\ published = [t \in Tasks |-> FALSE]
  /\ receipts = [t \in Tasks |-> {}]

Open(t) == receipts[t] = {}

Publish(t) ==
  /\ Open(t)
  /\ published' = [published EXCEPT ![t] = TRUE]
  /\ UNCHANGED receipts

Answer(t) ==
  /\ Open(t)
  /\ \E c \in receipts'[t] :
       /\ c.state = "completed" => published[t]
       /\ receipts' = [receipts EXCEPT ![t] = {c}]
  /\ UNCHANGED published

Next == \E t \in Tasks : Publish(t) \/ Answer(t)

Spec == Init /\ [][Next]_vars
=============================================================================
