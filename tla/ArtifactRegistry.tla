-------------------------- MODULE ArtifactRegistry --------------------------
(***************************************************************************)
(* The artifact registry: what connectors and executors report of          *)
(* artifacts, their copies, the pointers to them and their receipts, and   *)
(* reconcile, which decides from these tables what a logical name stands   *)
(* for.                                                                    *)
(*                                                                         *)
(* A registration is one transaction and one step.  reconcile reads its    *)
(* tables one after the other before it opens its transaction, so that     *)
(* each of its statements is a step, kept in call[c] by the connection c.  *)
(* An artifact is its bytes; a call that is refused changes nothing.       *)
(***************************************************************************)
CONSTANTS
  Contents,             \* artifacts, identified by their bytes
  Names,                \* logical names
  Planes,               \* storage planes
  Library,              \* the plane that is also indexed
  Sites,                \* where replicas are: pairs of plane and locator
  Pointers,             \* where pointers to a name are
  Receipts,
  Claims,               \* what a receipt says of a job and its output
  Callers,              \* connections to the database
  None

Observations == {"absent", "changed", "indexed", "pending"}

ASSUME NoneAssumption == None \notin Contents \cup Claims
ASSUME ClaimsAssumption ==
  \A k \in Claims : /\ k.completed \in BOOLEAN
                    /\ k.artifact \in Contents \cup {None}
                    /\ k.output \in Contents \cup {None}

VARIABLES
  named,                \* artifact_names: whether a name has an artifact
  replica,              \* replicas: what was observed at a site
  pointer,              \* pointers: the artifact one agrees with throughout
  receipt,              \* receipts
  ruling,               \* reconciliations: the latest of each name
  call                  \* what a caller has read so far

tables == <<named, replica, pointer, receipt>>
vars   == <<tables, ruling, call>>

\* A row of each table; a row that is not there is None.
ReplicaRow == [artifact : Contents, observed : Observations]
PointerRow == [agrees : Contents \cup {None}]

Decisions ==
  {"accepted", "accepted_pending_index", "pointer_update_required",
   "repair_required", "quarantined", "missing_authority"}
RulingRow == [decision : Decisions, artifact : Contents \cup {None}]

Findings ==
  {"missing_artifact", "duplicate_logical_name", "changed_bytes", "missing_replica",
   "persisted_not_indexed", "stale_pointer", "conflicting_receipts"}

Idle == [stage |-> "idle"]

Reconciling ==
  [stage : {"replicas", "pointers", "receipts", "decide"}, name : Names,
   required : SUBSET Planes, artifact : Contents \cup {None}, found : SUBSET Findings]

Init ==
  /\ named = [n \in Names |-> [a \in Contents |-> "none"]]
  /\ replica = [s \in Sites |-> None]
  /\ pointer = [n \in Names |-> [q \in Pointers |-> None]]
  /\ receipt = [r \in Receipts |-> None]
  /\ ruling = [n \in Names |-> None]
  /\ call = [c \in Callers |-> Idle]

-----------------------------------------------------------------------------
(* Registration *)

Registered(a) == \E n \in Names : named[n][a] # "none"

Flag(active) == IF active THEN "active" ELSE "inactive"

\* Registering a version leaves the others of its name as they are.
RegisterArtifact(c, n, a, active) ==
  /\ call[c] = Idle
  /\ named' = [named EXCEPT ![n][a] = Flag(active)]
  /\ UNCHANGED <<replica, pointer, receipt, ruling, call>>

\* All names of the artifact are switched together.
SetArtifactActive(c, a, active) ==
  /\ call[c] = Idle
  /\ Registered(a)
  /\ named' = [n \in Names |->
                 [named[n] EXCEPT ![a] = IF @ = "none" THEN @ ELSE Flag(active)]]
  /\ UNCHANGED <<replica, pointer, receipt, ruling, call>>

\* A site belongs to the first artifact reported there: the row of another one
\* is refused by the table.
RegisterReplica(c, s, a, observed) ==
  /\ call[c] = Idle
  /\ Registered(a)
  /\ replica[s] # None => replica[s].artifact = a
  /\ replica' = [replica EXCEPT ![s] = [artifact |-> a, observed |-> observed]]
  /\ UNCHANGED <<named, pointer, receipt, ruling, call>>

\* A pointer agrees with an artifact when its target, the hash it declares and
\* the hash that was observed, if any, are that artifact's.
RegisterPointer(c, n, q) ==
  /\ call[c] = Idle
  /\ \E target, declared, observed \in Contents \cup {None} :
       /\ target # None => Registered(target)
       /\ pointer' = [pointer EXCEPT ![n][q] =
            [agrees |-> IF target = declared /\ observed \in {None, target}
                        THEN target ELSE None]]
  /\ UNCHANGED <<named, replica, receipt, ruling, call>>

\* A receipt is inserted once and never replaced.
ReceiptFree(r) == receipt[r] = None

RegisterReceipt(c, r, k) ==
  /\ call[c] = Idle
  /\ ReceiptFree(r)
  /\ k.artifact # None => Registered(k.artifact)
  /\ receipt' = [receipt EXCEPT ![r] = k]
  /\ UNCHANGED <<named, replica, pointer, ruling, call>>

-----------------------------------------------------------------------------
(* reconcile, one statement at a time *)

Active(n) == {a \in Contents : named[n][a] = "active"}

\* Mutant: only the versions that are active now are looked up.
EverNamedActive(n) == {a \in Contents : named[n][a] = "active"}

EverNamed(n) == {a \in Contents : named[n][a] # "none"}

Candidates(a, p) ==
  {s \in Sites : s[1] = p /\ replica[s] # None /\ replica[s].artifact = a}

\* Mutant: one matching copy makes up for a changed one.
PlaneFindingsLenient(a, p) ==
  LET seen == {replica[s].observed : s \in Candidates(a, p)} IN
  IF seen \cap {"indexed", "pending"} # {}
  THEN IF p = Library /\ "pending" \in seen THEN {"persisted_not_indexed"} ELSE {}
  ELSE IF "changed" \in seen THEN {"changed_bytes"} ELSE {"missing_replica"}

PlaneFindings(a, p) ==
  LET seen == {replica[s].observed : s \in Candidates(a, p)} IN
  IF "changed" \in seen THEN {"changed_bytes"}
  ELSE IF seen \cap {"indexed", "pending"} = {} THEN {"missing_replica"}
  ELSE IF p = Library /\ "pending" \in seen THEN {"persisted_not_indexed"}
  ELSE {}

ReplicaFindings(a, required) == UNION {PlaneFindings(a, p) : p \in required}

PointerFindings(n, a) ==
  IF \E q \in Pointers : pointer[n][q] # None /\ pointer[n][q].agrees # a
  THEN {"stale_pointer"} ELSE {}

\* The receipts that name an artifact of n, or bytes of one.
Selected(n) ==
  {r \in Receipts : /\ receipt[r] # None
                    /\ \/ receipt[r].artifact \in EverNamed(n)
                       \/ receipt[r].output \in EverNamed(n)}

Outputs(n, job) ==
  {receipt[r].output : r \in {s \in Selected(n) : /\ receipt[s].job = job
                                                  /\ receipt[s].completed}} \ {None}

Conflicting(n) ==
  \E r \in Selected(n) : \E x, y \in Outputs(n, receipt[r].job) : x # y

ReceiptFindings(n) == IF Conflicting(n) THEN {"conflicting_receipts"} ELSE {}

Conflicts == {"changed_bytes", "conflicting_receipts", "duplicate_logical_name"}

\* Mutant: the state of a pointer is handed on as the decision.
WithoutConflictNamesState(found) ==
  IF "missing_artifact" \in found THEN "missing_authority"
  ELSE IF "missing_replica" \in found THEN "repair_required"
  ELSE IF "stale_pointer" \in found THEN "stale_pointer"
  ELSE "accepted"

WithoutConflict(found) ==
  IF "missing_artifact" \in found THEN "missing_authority"
  ELSE IF "missing_replica" \in found THEN "repair_required"
  ELSE IF "stale_pointer" \in found THEN "pointer_update_required"
  ELSE IF "persisted_not_indexed" \in found THEN "accepted_pending_index"
  ELSE "accepted"

\* Mutant: a copy to repair is looked for before a conflict.
DecisionRepairFirst(found) ==
  IF "missing_replica" \notin found /\ found \cap Conflicts # {} THEN "quarantined"
  ELSE WithoutConflict(found)

Decision(found) ==
  IF found \cap Conflicts # {} THEN "quarantined" ELSE WithoutConflict(found)

\* Without exactly one active version nothing else is read.
ReadArtifacts(c, n, required) ==
  LET reads(stage, artifact, found) ==
        call' = [call EXCEPT ![c] = [stage |-> stage, name |-> n, required |-> required,
                                     artifact |-> artifact, found |-> found]]
  IN
  /\ call[c] = Idle
  /\ \/ Active(n) = {} /\ reads("decide", None, {"missing_artifact"})
     \/ \E a \in Active(n) : Active(n) = {a} /\ reads("replicas", a, {})
     \/ /\ \E a, b \in Active(n) : a # b
        /\ reads("decide", None, {"duplicate_logical_name"})
  /\ UNCHANGED <<tables, ruling>>

\* Mutant: a statement's findings replace those of the one before.
FindsLast(c, from, to, findings) ==
  /\ call[c].stage = from
  /\ call' = [call EXCEPT ![c].stage = to, ![c].found = findings]
  /\ UNCHANGED <<tables, ruling>>

Finds(c, from, to, findings) ==
  /\ call[c].stage = from
  /\ call' = [call EXCEPT ![c].stage = to, ![c].found = @ \cup findings]
  /\ UNCHANGED <<tables, ruling>>

ReadReplicas(c) ==
  Finds(c, "replicas", "pointers", ReplicaFindings(call[c].artifact, call[c].required))

ReadPointers(c) ==
  Finds(c, "pointers", "receipts", PointerFindings(call[c].name, call[c].artifact))

ReadReceipts(c) ==
  Finds(c, "receipts", "decide", ReceiptFindings(call[c].name))

\* A quarantined name stands for nothing, whatever is active.
RulingOn(artifact, found) ==
  [decision |-> Decision(found),
   artifact |-> IF Decision(found) = "quarantined" THEN None ELSE artifact]

Commit(c) ==
  /\ call[c].stage = "decide"
  /\ ruling' = [ruling EXCEPT ![call[c].name] = RulingOn(call[c].artifact, call[c].found)]
  /\ call' = [call EXCEPT ![c] = Idle]
  /\ UNCHANGED tables

\* The process dies, or the database stays busy.
Abandon(c) ==
  /\ call[c] # Idle
  /\ call' = [call EXCEPT ![c] = Idle]
  /\ UNCHANGED <<tables, ruling>>

Registers(c) ==
  \/ \E n \in Names, a \in Contents, active \in BOOLEAN : RegisterArtifact(c, n, a, active)
  \/ \E a \in Contents, active \in BOOLEAN : SetArtifactActive(c, a, active)
  \/ \E s \in Sites, a \in Contents, o \in Observations : RegisterReplica(c, s, a, o)
  \/ \E n \in Names, q \in Pointers : RegisterPointer(c, n, q)
  \/ \E r \in Receipts, k \in Claims : RegisterReceipt(c, r, k)

Reconciles(c) ==
  \/ \E n \in Names, required \in SUBSET Planes : ReadArtifacts(c, n, required)
  \/ ReadReplicas(c)
  \/ ReadPointers(c)
  \/ ReadReceipts(c)
  \/ Commit(c)
  \/ Abandon(c)

Next == \E c \in Callers : Registers(c) \/ Reconciles(c)

Spec == Init /\ [][Next]_vars

\* Nothing is registered while a name is being reconciled: the service serialises
\* its calls, and operators leave the database to it.  Names may be reconciled
\* from several connections at once.
Quiet == \A c \in Callers : call[c] = Idle

QuietNext == \E c \in Callers : (Quiet /\ Registers(c)) \/ Reconciles(c)

QuietSpec == Init /\ [][QuietNext]_vars

-----------------------------------------------------------------------------
(* Properties *)

\* Every row stays a row of its table.
TypeOK ==
  /\ named \in [Names -> [Contents -> {"none", "active", "inactive"}]]
  /\ replica \in [Sites -> ReplicaRow \cup {None}]
  /\ pointer \in [Names -> [Pointers -> PointerRow \cup {None}]]
  /\ receipt \in [Receipts -> Claims \cup {None}]
  /\ ruling \in [Names -> RulingRow \cup {None}]
  /\ call \in [Callers -> Reconciling \cup {Idle}]

\* Receipts that conflict over a name conflict for ever: no registration, version
\* change or replayed receipt makes reconcile stop seeing them.
ConflictsStay == [][\A n \in Names : Conflicting(n) => Conflicting(n)']_vars

\* "Conflicting bytes, receipts, or simultaneous active versions fail closed"
\* (README.md:13): whatever a ruling names is its only active version, with no
\* conflict among the receipts that name its artifacts and, on the planes asked
\* for, no copy whose bytes have changed - at the moment the ruling is recorded.
FailsClosed ==
  [][\A c \in Callers : Commit(c) =>
       LET n == call[c].name
           a == ruling'[n].artifact
       IN a # None => /\ Active(n) = {a}
                      /\ ~Conflicting(n)
                      /\ \A s \in Sites :
                           s[1] \in call[c].required /\ replica[s] # None
                             /\ replica[s].artifact = a
                           => replica[s].observed # "changed"]_vars

\* Two completed receipts of one job with different outputs quarantine the name
\* of either output (README.md:13).  They do not when the other output was never
\* registered under that name.
ConflictingReceiptsQuarantined ==
  [][\A c \in Callers : Commit(c) =>
       LET n == call[c].name IN
       (\E r, s \in Receipts :
          /\ r \in Selected(n)
          /\ receipt[s] # None
          /\ receipt[r].job = receipt[s].job
          /\ receipt[r].completed /\ receipt[s].completed
          /\ receipt[r].output # None /\ receipt[s].output # None
          /\ receipt[r].output # receipt[s].output)
       => ruling'[n].artifact = None]_vars

\* The statements of reconcile add up to one verdict on one state of the tables.
Abstract == INSTANCE Reconciliation
RulesAtOnce == Abstract!Spec

-----------------------------------------------------------------------------
(* What is needed to show them, when nothing is registered meanwhile *)

\* What reconcile has found by each stage, of the tables as they stand.
StillSo(stage, n, required, a, found) ==
  \/ /\ stage = "decide" /\ a = None
     /\ \/ Active(n) = {} /\ found = {"missing_artifact"}
        \/ (\E x, y \in Active(n) : x # y) /\ found = {"duplicate_logical_name"}
  \/ /\ a # None /\ Active(n) = {a}
     /\ LET copies   == ReplicaFindings(a, required)
            pointers == PointerFindings(n, a)
        IN \/ stage = "replicas" /\ found = {}
           \/ stage = "pointers" /\ found = copies
           \/ stage = "receipts" /\ found = copies \cup pointers
           \/ stage = "decide" /\ found = copies \cup pointers \cup ReceiptFindings(n)

\* What a caller has read is still so.
ReadingHolds(c) ==
  \A n \in Names, required \in SUBSET Planes, a \in Contents \cup {None} :
    /\ call[c] # Idle
    /\ call[c].name = n
    /\ call[c].required = required
    /\ call[c].artifact = a
    => StillSo(call[c].stage, n, required, a, call[c].found)

ReadingsHold == \A c \in Callers : ReadingHolds(c)

IInv == TypeOK /\ ReadingsHold
=============================================================================
