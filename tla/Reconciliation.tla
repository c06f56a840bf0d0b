---------------------------- MODULE Reconciliation ----------------------------
(***************************************************************************)
(* What reconciling a logical name promises: one verdict on the tables as  *)
(* they stand together, at one moment.  Registration may do anything to    *)
(* the tables, except forget a name given to an artifact or a receipt.     *)
(***************************************************************************)
CONSTANTS
  Contents,             \* artifacts, identified by their bytes
  Names,                \* logical names
  Planes,               \* storage planes
  Library,              \* the plane that is also indexed
  Sites,                \* where replicas are: pairs of plane and locator
  Pointers,             \* where pointers to a name are
  Receipts,
  Claims,               \* what a receipt says of a job and its output
  None

VARIABLES
  named,                \* artifact_names: whether a name has an artifact
  replica,              \* replicas: what was observed at a site
  pointer,              \* pointers: the artifact one agrees with throughout
  receipt,              \* receipts
  ruling                \* reconciliations: the latest of each name

tables == <<named, replica, pointer, receipt>>
vars   == <<tables, ruling>>

Ruling(decision, artifact) == [decision |-> decision, artifact |-> artifact]

-----------------------------------------------------------------------------

Current(n) == {a \in Contents : named[n][a] = "active"}

Known(n) == {a \in Contents : named[n][a] # "none"}

\* A copy of a on plane p of which the observation is one of obs.
Copied(a, p, obs) ==
  \E s \in Sites : /\ s[1] = p
                   /\ replica[s] # None
                   /\ replica[s].artifact = a
                   /\ replica[s].observed \in obs

\* A receipt that speaks of name n, by an artifact or an output it once had.
SpeaksOf(r, n) ==
  /\ receipt[r] # None
  /\ receipt[r].artifact \in Known(n) \/ receipt[r].output \in Known(n)

\* Two completed receipts of one job do not have the same output.
Disagree(r, s) ==
  /\ receipt[r].completed /\ receipt[s].completed
  /\ receipt[r].job = receipt[s].job
  /\ receipt[r].output # None /\ receipt[s].output # None
  /\ receipt[r].output # receipt[s].output

Disputed(n) ==
  \E r, s \in Receipts : SpeaksOf(r, n) /\ SpeaksOf(s, n) /\ Disagree(r, s)

\* Versions, bytes or receipts conflict.
Suspect(n, required) ==
  \/ \E a, b \in Current(n) : a # b
  \/ \E a \in Current(n), p \in required : Copied(a, p, {"changed"})
  \/ Current(n) # {} /\ Disputed(n)

Repair(a, required) ==
  \E p \in required : ~Copied(a, p, {"indexed", "pending"})

Redirect(n, a) ==
  \E q \in Pointers : pointer[n][q] # None /\ pointer[n][q].agrees # a

Unindexed(a, required) ==
  Library \in required /\ Copied(a, Library, {"pending"})

Verdict(n, required) ==
  IF Current(n) = {} THEN Ruling("missing_authority", None)
  ELSE IF Suspect(n, required) THEN Ruling("quarantined", None)
  ELSE LET a == CHOOSE x \in Current(n) : TRUE IN
       Ruling(IF Repair(a, required) THEN "repair_required"
              ELSE IF Redirect(n, a) THEN "pointer_update_required"
              ELSE IF Unindexed(a, required) THEN "accepted_pending_index"
              ELSE "accepted", a)

-----------------------------------------------------------------------------

Init ==
  /\ named = [n \in Names |-> [a \in Contents |-> "none"]]
  /\ replica = [s \in Sites |-> None]
  /\ pointer = [n \in Names |-> [q \in Pointers |-> None]]
  /\ receipt = [r \in Receipts |-> None]
  /\ ruling = [n \in Names |-> None]

Register ==
  /\ \A n \in Names, a \in Contents : named[n][a] # "none" => named'[n][a] # "none"
  /\ \A r \in Receipts : receipt[r] # None => receipt'[r] = receipt[r]
  /\ UNCHANGED ruling

Rule(n, required) ==
  /\ ruling' = [ruling EXCEPT ![n] = Verdict(n, required)]
  /\ UNCHANGED tables

Next == Register \/ \E n \in Names, required \in SUBSET Planes : Rule(n, required)

Spec == Init /\ [][Next]_vars
=============================================================================
