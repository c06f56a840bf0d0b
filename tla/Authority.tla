------------------------------ MODULE Authority ------------------------------
(***************************************************************************)
(* The authority core: epochs, capabilities, tasks, work grants, executor  *)
(* leases and terminal receipts, as rows of one SQLite database, and the   *)
(* calls of AuthorityCore that change them.                                *)
(*                                                                         *)
(* A caller is one database connection.  BEGIN IMMEDIATE makes each        *)
(* transaction one step, but issue_epoch, create_task and issue_grant read *)
(* what they check before they open it: those calls take two steps, and    *)
(* with several callers others run in between.  The resident service is    *)
(* one caller (its calls are serialised); processes that open the database *)
(* from the command line are several.  A call that raises, or that finds   *)
(* its work already done, changes nothing and is a stuttering step.  The   *)
(* pass over the leases checks nothing beforehand: it may come at any      *)
(* time, also from a connection that does nothing else.                    *)
(*                                                                         *)
(* Every time is an argument of the call, chosen by the client.            *)
(***************************************************************************)
EXTENDS Naturals, Sequences, FiniteSets, TaskStates

CONSTANTS
  Tasks,                \* task identifiers
  Keys,                 \* idempotency keys
  Grants,               \* grant identifiers; a grant and its lease share one
  Executors,            \* those a grant may name
  Receipts,             \* terminal receipt identifiers
  Claims,               \* the time, actor and evidence of a client's transition
  Callers,              \* database connections
  None,                 \* NULL
  MaxEpoch,             \* bound on the epochs issued
  MaxTime               \* bound on the times clients supply

ASSUME NoneAssumption ==
  None \notin Tasks \cup Keys \cup Grants \cup Executors \cup Receipts \cup Claims

\* A client does not claim as its evidence a lease or receipt the registry would.
ASSUME EvidenceAssumption ==
  Claims \cap Grants = {} /\ Claims \cap Receipts = {} /\ Grants \cap Receipts = {}

ASSUME BoundAssumption == MaxEpoch \in Nat /\ MaxTime \in Nat

VARIABLES
  epoch,                \* authority_epochs: the status of every epoch
  current,              \* metadata.current_authority_epoch, 0 when absent
  capability,           \* the active declaration of every executor
  task,                 \* tasks
  grant,                \* work_grants
  lease,                \* leases
  receipt,              \* receipts
  log,                  \* task_transitions of every task, in sequence order
  call                  \* what every caller is about to commit

vars == <<epoch, current, capability, task, grant, lease, receipt, log, call>>

Epochs == 1..MaxEpoch
Times  == 1..MaxTime

\* What a transition is recorded on: a grant's lease, a receipt, a client's
\* claim, or (intake) the task's own payload.  The time of a transition is part
\* of its identity; it tells apart nothing but claims, since a lease or receipt
\* is the evidence of a move at most once.
Evidence == Grants \cup Receipts \cup Claims \cup {None}

\* Rows.  A row in state "none" is absent; a time or epoch 0 is NULL.
TaskRow    == [state : States, key : Keys \cup {None}, epoch : 0..MaxEpoch,
               receipt : Receipts \cup {None}]
GrantRow   == [state : {"none", "issued", "accepted", "active", "completed",
                        "revoked", "expired"},
               task : Tasks \cup {None}, epoch : 0..MaxEpoch,
               executor : Executors \cup {None}]
LeaseRow   == [state : {"none", "issued", "active", "released", "revoked", "expired"},
               expires : 0..MaxTime, beat : 0..MaxTime]
ReceiptRow == [state : {"none", "completed", "rejected"}, task : Tasks \cup {None},
               key : Keys \cup {None}, epoch : 0..MaxEpoch]
Transition == [from : States, to : States, evidence : Evidence]

\* Calls that have passed the checks they make before their transaction.
Idle      == [op |-> "idle"]
EpochCall == [op : {"issue_epoch"}, epoch : Epochs]
TaskCall  == [op : {"create_task"}, task : Tasks, key : Keys, epoch : Epochs]
GrantCall == [op : {"issue_grant"}, grant : Grants, task : Tasks, epoch : Epochs,
              executor : Executors, expires : Times]

Init ==
  /\ epoch = [e \in Epochs |-> "none"]
  /\ current = 0
  /\ capability = [x \in Executors |-> "none"]
  /\ task = [t \in Tasks |->
               [state |-> "none", key |-> None, epoch |-> 0, receipt |-> None]]
  /\ grant = [g \in Grants |->
                [state |-> "none", task |-> None, epoch |-> 0, executor |-> None]]
  /\ lease = [g \in Grants |-> [state |-> "none", expires |-> 0, beat |-> 0]]
  /\ receipt = [r \in Receipts |->
                  [state |-> "none", task |-> None, key |-> None, epoch |-> 0]]
  /\ log = [t \in Tasks |-> <<>>]
  /\ call = [c \in Callers |-> Idle]

-----------------------------------------------------------------------------
(* Recording a transition *)

\* The identity of a transition does not include the state it leaves.
Recorded(t, to, ev) ==
  \E i \in DOMAIN log[t] : log[t][i].to = to /\ log[t][i].evidence = ev

RowAfter(t, to, ev) ==
  IF Recorded(t, to, ev) THEN task[t] ELSE [task[t] EXCEPT !.state = to]

\* Mutant: a state is logged the first time it is reached only.
LogAfterOncePerState(t, to, ev) ==
  IF \E i \in DOMAIN log[t] : log[t][i].to = to
  THEN log[t]
  ELSE Append(log[t], [from |-> task[t].state, to |-> to, evidence |-> ev])

LogAfter(t, to, ev) ==
  IF Recorded(t, to, ev)
  THEN log[t]
  ELSE Append(log[t], [from |-> task[t].state, to |-> to, evidence |-> ev])

AppendTransition(t, to, ev) ==
  /\ task' = [task EXCEPT ![t] = RowAfter(t, to, ev)]
  /\ log'  = [log EXCEPT ![t] = LogAfter(t, to, ev)]

-----------------------------------------------------------------------------
(* Epochs and capabilities *)

\* Mutant: INSERT OR REPLACE where the code has INSERT.
EpochAlwaysFree(n) == TRUE

EpochFree(n) == epoch[n] = "none"

IssueEpochCheck(c) ==
  /\ call[c] = Idle
  /\ current < MaxEpoch
  /\ EpochFree(current + 1)
  /\ call' = [call EXCEPT ![c] = [op |-> "issue_epoch", epoch |-> current + 1]]
  /\ UNCHANGED <<epoch, current, capability, task, grant, lease, receipt, log>>

\* The epoch retired is the one that was current at the check; an epoch that
\* another caller has inserted since violates the primary key.
IssueEpochCommit(c) ==
  LET n == call[c].epoch IN
  /\ call[c].op = "issue_epoch"
  /\ EpochFree(n)
  /\ epoch' = [e \in Epochs |->
                 CASE e = n -> "active"
                   [] e + 1 = n /\ epoch[e] = "active" -> "retired"
                   [] OTHER -> epoch[e]]
  /\ current' = n
  /\ call' = [call EXCEPT ![c] = Idle]
  /\ UNCHANGED <<capability, task, grant, lease, receipt, log>>

\* "fit" declares the tasks' operation and reports healthy; "unfit" lacks one.
DeclareCapability(c, x) ==
  /\ call[c] = Idle
  /\ \E d \in {"fit", "unfit"} : capability' = [capability EXCEPT ![x] = d]
  /\ UNCHANGED <<epoch, current, task, grant, lease, receipt, log, call>>

-----------------------------------------------------------------------------
(* Tasks *)

CreateTaskCheck(c, t, k) ==
  /\ call[c] = Idle
  /\ current # 0
  /\ call' = [call EXCEPT ![c] =
                [op |-> "create_task", task |-> t, key |-> k, epoch |-> current]]
  /\ UNCHANGED <<epoch, current, capability, task, grant, lease, receipt, log>>

\* A key in use is a replay or a conflict; a task identifier in use violates
\* the primary key.  None of the three changes a row.
CreateTaskCommit(c) ==
  LET t == call[c].task IN
  /\ call[c].op = "create_task"
  /\ \A u \in Tasks : task[u].key # call[c].key
  /\ task[t].state = "none"
  /\ task' = [task EXCEPT ![t] = [state |-> "proposed", key |-> call[c].key,
                                  epoch |-> call[c].epoch, receipt |-> None]]
  /\ log' = [log EXCEPT ![t] = LogAfter(t, "proposed", None)]
  /\ call' = [call EXCEPT ![c] = Idle]
  /\ UNCHANGED <<epoch, current, capability, grant, lease, receipt>>

\* Mutant: a transition does not ask whose epoch the task is of.
OwnedByAny(t) == task[t].state # "none"

\* The task exists and is of the current epoch.
Owned(t) == task[t].state # "none" /\ task[t].epoch = current

TransitionTask(c, t, to, claim) ==
  /\ call[c] = Idle
  /\ ~Recorded(t, to, claim)
  /\ Owned(t)
  /\ to \in Allowed(task[t].state)
  /\ AppendTransition(t, to, claim)
  /\ UNCHANGED <<epoch, current, capability, grant, lease, receipt, call>>

ApproveTask(c, t, claim) ==
  /\ task[t].state = "proposed"
  /\ TransitionTask(c, t, "approved", claim)

-----------------------------------------------------------------------------
(* Grants and leases *)

Grantable(t) == Owned(t) /\ task[t].state = "approved"

IssueGrantCheck(c, g, t, x, expires) ==
  /\ call[c] = Idle
  /\ current # 0
  /\ Grantable(t)
  /\ capability[x] = "fit"
  /\ grant[g].state = "none"
  /\ call' = [call EXCEPT ![c] =
                [op |-> "issue_grant", grant |-> g, task |-> t, epoch |-> current,
                 executor |-> x, expires |-> expires]]
  /\ UNCHANGED <<epoch, current, capability, task, grant, lease, receipt, log>>

IssueGrantCommit(c) ==
  LET g == call[c].grant IN
  /\ call[c].op = "issue_grant"
  /\ grant[g].state = "none"
  /\ grant' = [grant EXCEPT ![g] =
                 [state |-> "issued", task |-> call[c].task, epoch |-> call[c].epoch,
                  executor |-> call[c].executor]]
  /\ lease' = [lease EXCEPT ![g] =
                 [state |-> "issued", expires |-> call[c].expires, beat |-> 0]]
  /\ call' = [call EXCEPT ![c] = Idle]
  /\ UNCHANGED <<epoch, current, capability, task, receipt, log>>

\* Mutant: a grant's epoch is not compared with the current one.
LiveInAnyEpoch(g, at) == at < lease[g].expires

\* The grant may still be used at this time.
Live(g, at) == grant[g].epoch = current /\ at < lease[g].expires

\* Mutant: acceptance trusts the state the task had when the grant was issued.
AcceptableUnread(g, at) == grant[g].state = "issued" /\ Live(g, at)

Acceptable(g, at) ==
  /\ grant[g].state = "issued"
  /\ Live(g, at)
  /\ task[grant[g].task].state = "approved"

AcceptGrant(c, g, at) ==
  /\ call[c] = Idle
  /\ Acceptable(g, at)
  /\ grant' = [grant EXCEPT ![g].state = "accepted"]
  /\ lease' = [lease EXCEPT ![g].state = "active", ![g].beat = at]
  /\ AppendTransition(grant[g].task, "dispatched", g)
  /\ UNCHANGED <<epoch, current, capability, receipt, call>>

StartTask(c, g, at) ==
  LET t == grant[g].task IN
  /\ call[c] = Idle
  /\ grant[g].state = "accepted"
  /\ Live(g, at)
  /\ lease[g].state = "active"
  /\ task[t].state = "dispatched"
  /\ grant' = [grant EXCEPT ![g].state = "active"]
  /\ AppendTransition(t, "running", g)
  /\ UNCHANGED <<epoch, current, capability, lease, receipt, call>>

\* Mutant: a heartbeat renews the lease from the time it is sent.
HeartbeatRenews(c, g, at) ==
  /\ call[c] = Idle
  /\ lease[g].state = "active"
  /\ Live(g, at)
  /\ lease' = [lease EXCEPT ![g].beat = at, ![g].expires = at + MaxTime]
  /\ UNCHANGED <<epoch, current, capability, task, grant, receipt, log, call>>

\* A heartbeat is noted; it does not move the time at which the lease expires.
Heartbeat(c, g, at) ==
  /\ call[c] = Idle
  /\ lease[g].state = "active"
  /\ Live(g, at)
  /\ lease' = [lease EXCEPT ![g].beat = at]
  /\ UNCHANGED <<epoch, current, capability, task, grant, receipt, log, call>>

\* Mutant: the leases the reconciler looks at include released ones.
DueReleasedToo(now) ==
  {g \in Grants : /\ lease[g].state \in {"issued", "active", "released"}
                  /\ lease[g].expires <= now}

Due(now) ==
  {g \in Grants : lease[g].state \in {"issued", "active"} /\ lease[g].expires <= now}

\* Mutant: a task that was handed out but has not started is left alone.
LostWhileRunning(gs) ==
  {t \in Tasks : task[t].state = "running" /\ \E g \in gs : grant[g].task = t}

\* Mutant: the pass over the leases stops at the first task it finds.
LostFirstOnly(gs) ==
  LET all == {t \in Tasks : task[t].state \in Held /\ \E g \in gs : grant[g].task = t}
  IN  IF all = {} THEN {} ELSE {CHOOSE t \in all : TRUE}

\* Mutant: the pass does not look at the state of the task.
LostInAnyState(gs) ==
  {t \in Tasks : task[t].state # "none" /\ \E g \in gs : grant[g].task = t}

\* The tasks that leave their executors when the leases of gs are lost.
Lost(gs) == {t \in Tasks : task[t].state \in Held /\ \E g \in gs : grant[g].task = t}

\* UPDATE table SET state = s WHERE the key is in gs.
Marked(table, gs, s) ==
  [g \in Grants |-> IF g \in gs THEN [table[g] EXCEPT !.state = s] ELSE table[g]]

\* One transaction for all due leases, whatever their epoch.  They are taken by
\* expiry: the first of a task's due leases to be reached is the one recorded.
ExpireLeases(now) ==
  LET due  == Due(now)
      lost == Lost(due)
  IN
  /\ due # {}
  /\ lease' = Marked(lease, due, "expired")
  /\ grant' = Marked(grant, {g \in due : grant[g].state \notin {"completed", "revoked"}},
                     "expired")
  /\ \E first \in [lost -> due] :
       /\ \A t \in lost :
            /\ grant[first[t]].task = t
            /\ \A g \in due : grant[g].task = t => lease[first[t]].expires <= lease[g].expires
       /\ task' = [t \in Tasks |->
                     IF t \in lost THEN RowAfter(t, "unknown", first[t]) ELSE task[t]]
       /\ log' = [t \in Tasks |->
                    IF t \in lost THEN LogAfter(t, "unknown", first[t]) ELSE log[t]]
  /\ UNCHANGED <<epoch, current, capability, receipt, call>>

\* A lease that has already ended is left as it is.
RevokeLease(c, g) ==
  /\ call[c] = Idle
  /\ lease[g].state \in {"issued", "active"}
  /\ lease' = Marked(lease, {g}, "revoked")
  /\ grant' = Marked(grant, {g}, "revoked")
  /\ IF grant[g].task \in Lost({g})
     THEN AppendTransition(grant[g].task, "unknown", g)
     ELSE UNCHANGED <<task, log>>
  /\ UNCHANGED <<epoch, current, capability, receipt, call>>

-----------------------------------------------------------------------------
(* Terminal receipts and completion *)

\* Every state but "completed" is as good as "rejected".  The receipt's fields
\* are the client's: they need not agree with any task.
RegisterReceipt(c, r) ==
  /\ call[c] = Idle
  /\ receipt[r].state = "none"
  /\ \E t \in Tasks, k \in Keys, e \in Epochs, s \in {"completed", "rejected"} :
       receipt' = [receipt EXCEPT ![r] = [state |-> s, task |-> t, key |-> k, epoch |-> e]]
  /\ UNCHANGED <<epoch, current, capability, task, grant, lease, log, call>>

\* Mutant: the receipt of another task is accepted.
ReceiptFitsAnyTask(r, t) ==
  /\ receipt[r].state = "completed"
  /\ receipt[r].key = task[t].key
  /\ receipt[r].epoch = task[t].epoch

ReceiptFits(r, t) ==
  /\ receipt[r].state = "completed"
  /\ receipt[r].task = t
  /\ receipt[r].key = task[t].key
  /\ receipt[r].epoch = task[t].epoch

\* Mutant: the task does not keep its receipt.
CompletedRowUnsigned(t, r) == RowAfter(t, "completed", r)

CompletedRow(t, r) == [RowAfter(t, "completed", r) EXCEPT !.receipt = r]

\* The grants in use are closed and their leases released; a grant that was
\* never accepted stays as it is.
CompleteTask(c, t, r) ==
  LET inUse == {g \in Grants : /\ grant[g].task = t
                               /\ grant[g].state \in {"accepted", "active"}}
  IN
  /\ call[c] = Idle
  /\ Owned(t)
  /\ task[t].state \in {"running", "unknown"}
  /\ ReceiptFits(r, t)
  /\ task' = [task EXCEPT ![t] = CompletedRow(t, r)]
  /\ log' = [log EXCEPT ![t] = LogAfter(t, "completed", r)]
  /\ grant' = Marked(grant, inUse, "completed")
  /\ lease' = Marked(lease, inUse, "released")
  /\ UNCHANGED <<epoch, current, capability, receipt, call>>

-----------------------------------------------------------------------------

\* Between its checks and its commit a call may fail: the write lock is not
\* granted, a constraint refuses the insert, or the process dies.
Abort(c) ==
  /\ call[c] # Idle
  /\ call' = [call EXCEPT ![c] = Idle]
  /\ UNCHANGED <<epoch, current, capability, task, grant, lease, receipt, log>>

Step(c) ==
  \/ IssueEpochCheck(c)
  \/ IssueEpochCommit(c)
  \/ \E x \in Executors : DeclareCapability(c, x)
  \/ \E t \in Tasks, k \in Keys : CreateTaskCheck(c, t, k)
  \/ CreateTaskCommit(c)
  \/ \E t \in Tasks, to \in States, claim \in Claims :
       TransitionTask(c, t, to, claim)
  \/ \E t \in Tasks, claim \in Claims : ApproveTask(c, t, claim)
  \/ \E g \in Grants, t \in Tasks, x \in Executors, expires \in Times :
       IssueGrantCheck(c, g, t, x, expires)
  \/ IssueGrantCommit(c)
  \/ \E g \in Grants, at \in Times : AcceptGrant(c, g, at)
  \/ \E g \in Grants, at \in Times : StartTask(c, g, at)
  \/ \E g \in Grants, at \in Times : Heartbeat(c, g, at)
  \/ \E g \in Grants : RevokeLease(c, g)
  \/ \E r \in Receipts : RegisterReceipt(c, r)
  \/ \E t \in Tasks, r \in Receipts : CompleteTask(c, t, r)
  \/ Abort(c)

Next ==
  \/ \E c \in Callers : Step(c)
  \/ \E now \in Times : ExpireLeases(now)

Spec == Init /\ [][Next]_vars

\* The calls of resident services that follow one another: none overlaps with
\* another, except for a tick that has outlived the process before, which may come
\* between what a call checks and what it commits.
Alone(c) == \A d \in Callers \ {c} : call[d] = Idle

ServiceNext ==
  \/ \E c \in Callers : Alone(c) /\ Step(c)
  \/ \E now \in Times : ExpireLeases(now)

ServiceSpec == Init /\ [][ServiceNext]_vars

-----------------------------------------------------------------------------
(* Properties *)

\* Every row is a row of the schema.
TypeOK ==
  /\ epoch \in [Epochs -> {"none", "active", "retired"}]
  /\ current \in 0..MaxEpoch
  /\ capability \in [Executors -> {"none", "fit", "unfit"}]
  /\ task \in [Tasks -> TaskRow]
  /\ grant \in [Grants -> GrantRow]
  /\ lease \in [Grants -> LeaseRow]
  /\ receipt \in [Receipts -> ReceiptRow]
  /\ log \in [Tasks -> Seq(Transition)]
  /\ call \in [Callers -> {Idle} \cup EpochCall \cup TaskCall \cup GrantCall]

\* The history of a task leads, move by move, from no row to state s.
LeadsTo(history, s) ==
  /\ history = <<>> => s = "none"
  /\ history # <<>> => /\ history[1].from = "none"
                       /\ history[Len(history)].to = s
  /\ \A i \in 1..(Len(history) - 1) : history[i + 1].from = history[i].to

\* verify_materialized_state finds no error after any sequence of calls: the
\* transitions of every task chain up to its state, whichever of the writers
\* (intake, clients, executors, the lease reconciler, completion) made them.
MaterializedState == \A t \in Tasks : LeadsTo(log[t], task[t].state)

\* Promotions never skip, repeat or fork an epoch, also when callers race
\* between the check and the insert: the current epoch is the only active one,
\* those before it are retired, those after it do not exist.
EpochsInLine ==
  \A e \in Epochs : epoch[e] = CASE e < current -> "retired"
                                 [] e = current -> "active"
                                 [] OTHER       -> "none"

\* A grant and its lease, two rows written by six different calls, never drift
\* apart.
GrantLeaseCoupled ==
  \A g \in Grants :
    lease[g].state = CASE grant[g].state \in {"accepted", "active"} -> "active"
                       [] grant[g].state = "completed"              -> "released"
                       [] OTHER                                     -> grant[g].state

\* A lease has been accepted, whatever became of it, when it has a heartbeat.
Accepted(g) == lease[g].beat # 0

\* However many grants are issued for one task, and however clients move the
\* task about, only one of them is ever accepted: a task reaches one executor.
OneExecutor ==
  \A g, h \in Grants :
    Accepted(g) /\ Accepted(h) /\ grant[g].task = grant[h].task => g = h

\* A task is dispatched at most once in its life; an unknown task may be
\* resumed but is never handed out again.
DispatchedOnce ==
  \A t \in Tasks : \A i, j \in DOMAIN log[t] :
    log[t][i].to = "dispatched" /\ log[t][j].to = "dispatched" => i = j

\* A lost lease is never silent: while a task stands where a grant put it
\* (dispatched or running), that grant's lease is active.
HeldUnderLease ==
  \A t \in Tasks :
    LET last == log[t][Len(log[t])].evidence IN
    task[t].state \in Held /\ last \in Grants => lease[last].state = "active"

\* A task with a terminal receipt is completed, the receipt is a completed one
\* of this very task, key and epoch, and no executor still holds the task.
ReceiptBacksCompletion ==
  \A t \in Tasks : task[t].receipt # None =>
    LET r == receipt[task[t].receipt] IN
    /\ task[t].state = "completed"
    /\ [state |-> "completed", task |-> t, key |-> task[t].key, epoch |-> task[t].epoch] = r
    /\ \A g \in Grants : grant[g].task = t => grant[g].state \notin {"accepted", "active"}

\* Every completion can be traced to its author: the last move in the history of a
\* completed task was made on the receipt the task keeps or, if it keeps none, on a
\* claim of a client's own - never by an executor's lease or a lost one.
CompletionTraced ==
  \A t \in Tasks : task[t].state = "completed" =>
    LET last == log[t][Len(log[t])].evidence IN
    IF task[t].receipt = None THEN last \in Claims ELSE last = task[t].receipt

\* After a promotion everything of an older epoch is fenced: its tasks can only
\* be lost, its grants and leases only end, whatever call is retried or was
\* under way when the epoch changed.
StaleEpochFenced ==
  [][/\ \A t \in Tasks :
          task[t].state # "none" /\ task[t].epoch # current /\ task'[t] # task[t]
            => task[t].state \in Held /\ task'[t] = [task[t] EXCEPT !.state = "unknown"]
     /\ \A g \in Grants :
          grant[g].state # "none" /\ grant[g].epoch # current /\ lease'[g] # lease[g]
            => lease'[g].state \in {"expired", "revoked"}]_vars

\* Where calls do not overlap, what a call has checked holds when it commits,
\* whatever a late tick does in between: a task is taken in under the epoch then
\* current, and a grant is issued under it for an approved task of it, to an
\* executor fit for the task - also when the tick ends another grant of that task.
WorkAsChecked ==
  [][/\ \A t \in Tasks :
          task[t].state = "none" /\ task'[t].state # "none" => task'[t].epoch = current
     /\ \A g \in Grants :
          grant[g].state = "none" /\ grant'[g].state # "none" =>
            /\ grant'[g].epoch = current
            /\ task[grant'[g].task].state = "approved"
            /\ task[grant'[g].task].epoch = current
            /\ capability[grant'[g].executor] = "fit"]_vars

\* A lease once lost or released is never used again, by a late acceptance,
\* start, heartbeat or completion.
NothingRevives ==
  [][\A g \in Grants : lease[g].state \in {"released", "revoked", "expired"}
       => lease'[g] = lease[g] /\ grant'[g] = grant[g]]_vars

\* The core implements the abstract life of a task.
Lifecycle == INSTANCE TaskLifecycle WITH
  state <- [t \in Tasks |-> task[t].state],
  owner <- [t \in Tasks |-> task[t].epoch]

ImplementsLifecycle == Lifecycle!Spec

-----------------------------------------------------------------------------
(* The inductive invariant: what the code relies on between its calls *)

Early == {"none", "proposed", "approved"}     \* not yet handed out

\* What a call checked before its transaction has not been undone since, except
\* that the epoch it saw may have passed.
CallsSound ==
  \A c \in Callers :
    /\ call[c].op = "issue_epoch" => call[c].epoch <= current + 1
    /\ call[c].op = "create_task" => call[c].epoch \in 1..current
    /\ call[c].op = "issue_grant" =>
         /\ task[call[c].task].state # "none"
         /\ task[call[c].task].epoch = call[c].epoch

\* Absent tasks have no history; the others belong to an epoch issued so far.
TasksSound ==
  \A t \in Tasks :
    IF task[t].state = "none"
    THEN log[t] = <<>> /\ task[t].receipt = None
    ELSE task[t].epoch \in 1..current

\* A grant is for an existing task and of its epoch.
GrantsSound ==
  \A g \in Grants : grant[g].state # "none" =>
    /\ grant[g].task \in Tasks
    /\ task[grant[g].task].state # "none"
    /\ grant[g].epoch = task[grant[g].task].epoch

\* A lease has a heartbeat exactly when its grant was accepted, and then its
\* task has left the states a grant can be accepted in for good.
AcceptanceSound ==
  \A g \in Grants :
    /\ Accepted(g) => /\ grant[g].state \notin {"none", "issued"}
                      /\ task[grant[g].task].state \notin Early
    /\ grant[g].state \in {"accepted", "active", "completed"} => Accepted(g)

\* No move is recorded that the state excludes: nothing was dispatched yet in an
\* early state, and a terminal state is the last a history reaches.
HistorySound ==
  \A t \in Tasks : \A i \in DOMAIN log[t] :
    /\ task[t].state \in Early => log[t][i].to # "dispatched"
    /\ log[t][i].to \in Terminal => i = Len(log[t])

\* A lease is evidence in the history of its own task only, and evidence of a
\* loss only after it was lost.
EvidenceSound ==
  \A t \in Tasks : \A i \in DOMAIN log[t] : log[t][i].evidence \in Grants =>
    LET g == log[t][i].evidence IN
    /\ grant[g].state # "none"
    /\ grant[g].task = t
    /\ log[t][i].to = "unknown" => lease[g].state \in {"revoked", "expired"}

\* What holds between any two calls, and is enough to show that the next one
\* keeps it.
IInv ==
  /\ TypeOK
  /\ EpochsInLine
  /\ CallsSound
  /\ TasksSound
  /\ GrantsSound
  /\ GrantLeaseCoupled
  /\ AcceptanceSound
  /\ OneExecutor
  /\ MaterializedState
  /\ HistorySound
  /\ DispatchedOnce
  /\ EvidenceSound
  /\ HeldUnderLease
  /\ ReceiptBacksCompletion

\* What a call checked is so until it commits, where calls do not overlap.
ChecksHold ==
  \A c \in Callers :
    /\ call[c].op = "create_task" => call[c].epoch = current
    /\ call[c].op = "issue_grant" =>
         /\ call[c].epoch = current
         /\ Grantable(call[c].task)
         /\ capability[call[c].executor] = "fit"

-----------------------------------------------------------------------------
(* What the documents say and the code does not keep *)

\* "unknown state when a running executor loses its lease": a lease whose loss
\* made a task unknown was one its executor had accepted.
UnknownByExecutorsLease ==
  \A t \in Tasks : \A i \in DOMAIN log[t] :
    log[t][i].to = "unknown" /\ log[t][i].evidence \in Grants
      => Accepted(log[t][i].evidence)

\* "terminal-receipt completion": a completed task has a terminal receipt.
CompletedByReceipt ==
  \A t \in Tasks : task[t].state = "completed" => task[t].receipt # None

\* "stale-epoch fencing after promotion": a task is taken in under the epoch
\* that is current when its row appears.
IntakeUnderCurrentEpoch ==
  [][\A t \in Tasks : task[t].state = "none" /\ task'[t].state # "none"
       => task'[t].epoch = current]_vars
=============================================================================
