# Verification of the Superintendent authority registry and executor gate

This directory holds TLA+ models of the program under `src/`, their TLC
configurations, and theorems about them checked by TLAPS.  `PROJECT.json` maps
every definition to the lines it stands for.  Paths below are relative to `src/`;
*registry* is `conformance/artifact-registry/src/superintendent_registry`, *gate*
is `conformance/executor-gate`, *README* is `conformance/artifact-registry/README.md`.

## 1. The system

Two programs share a vocabulary (tasks, authority epochs, idempotency keys,
terminal receipts) and nothing else.

| Component | State | Operations |
|---|---|---|
| Authority core (`authority.py`, `authority_registry.py`) | epochs, current epoch, capability declarations, tasks, grants, leases, receipts, task transitions | issue_epoch, declare_capability, create_task, transition_task, approve_task, issue_grant, accept_grant, start_task, heartbeat, expire_leases, revoke_lease, register_terminal_receipt, complete_task, verify_materialized_state |
| Event journal (`database.py`, `_event`) | events, event_chain | connect with backfill, append within a transaction, verify_event_chain |
| Artifact registry (`registry.py`) | artifacts, names, replicas, pointers, reconciliations | register_*, set_artifact_active, reconcile, export_state |
| Resident service (`service_runtime.py`, `service_common.py`) | process lock, database lock, threads, started flag, last tick | start, stop, serve_forever, mutate, tick, scheduler loop, verify |
| Snapshots (`service_runtime.py`) | digest-named files, `CURRENT.json` | write_snapshot, atomic_write |
| HTTP layer, command lines (`service_http.py`, `cli.py`, `service_cli.py`) | none | requests and commands become calls of the above |
| Executor gate (*gate*, `.github/workflows/superintendent-owner-gate.yml`) | none of its own: comments of the issue, artifacts of the run | execute_task, upload, post_receipt |
| Contracts, canonical JSON | none | pure functions |
| Timeout conformance, tools, media lab, audits, experiments, imports | recorded data, one-shot scripts | none |

Interactions.  Every authority or registry call is one or more SQLite statements
on a connection; its changes and the event that records them commit in one
`BEGIN IMMEDIATE` transaction (`database.py:303`).  The resident service opens a
connection per call under a lock (`service_runtime.py:73`), so that its requests
and its scheduler are serialised; the command line (`cli.py:142`) opens the same
file without asking for the service's process lock.  The executor gate talks to
GitHub only: a label starts a workflow run, the scripts read and write comments.

What is hard, and what must hold:

* **Authority core.**  Three calls check outside their transaction, with other
  processes in between.  A task's state is moved by four kinds of writer (clients,
  executors, the lease pass, completion) and stored twice (row and history); a
  grant and its lease are two rows kept in step by hand; all times come from the
  clients.  Correct means: epochs in one line; history and state agree; a task
  reaches one executor; a lost lease is never silent and never revived;
  completion is backed by the right receipt; an old epoch is fenced.
* **Event journal.**  Append-only triggers make mistakes permanent: a row chained
  wrongly would make `connect` refuse the database for ever.  Correct means: it
  can always be opened, whatever is open verifies, nothing recorded changes,
  every mutation is recorded.
* **Executor gate.**  A run dies at any step, may be re-run, and several events of
  one issue compete; the only memory is the list of comments, read twice.
  Correct means: one receipt per task, no work after it, completion only with its
  artifact, success only with a receipt.
* **Artifact registry.**  `reconcile` decides from four separate reads, and its
  transaction begins after them.  Correct means: the reads add up to one verdict on
  one state of the tables; conflicting bytes, receipts or active versions are never
  accepted; a conflict between receipts is never forgotten.
* **Resident service.**  Lock ownership against a tick that outlives `stop`, a
  crash at any point, a client that keeps its connection, a scheduler that must
  survive failing ticks.  Correct means: nothing is served without the lock, no
  process is ready before expired leases are reconciled, due leases end, and a stop
  comes to an end.
* **Snapshots.**  A snapshot is read one table after another.  `CURRENT.json` always
  names a complete file, and no table of it is older than any table of the snapshot
  named before.

`PROJECT.json` lists the hazards at their lines, with the properties that cover
each, or the reason none does yet.

## 2. Modules

| Module | Models |
|---|---|
| `TaskStates` | the table of task states and allowed transitions |
| `TaskLifecycle` | abstract: tasks are taken in under the current epoch or an earlier one, move by the table in their own epoch only, and are lost together |
| `Authority` | the authority core; its tables as functions, its calls as actions |
| `MCAuthority` | symmetry for TLC |
| `AuthoritySteps` | what one step may do to a task, a grant, the epochs, a call, a receipt |
| `AuthorityProofs` | invariance, action properties, refinement of `TaskLifecycle` |
| `TaskAnswers` | abstract: what the executor promises of a task, without labels, runs, comments or failures |
| `OwnerGate`, `MCOwnerGate`, `OwnerGateProofs` | the executor gate with its workflow, model bodies, proofs and refinement of `TaskAnswers` |
| `Journal`, `MCJournal`, `JournalProofs` | the journal and its chain, proofs |
| `SingleWriter` | abstract: one owner of the database, only the owner serves, `CURRENT.json` moves forward |
| `ResidentService`, `MCResidentService`, `ResidentServiceProofs` | the processes of the service, their threads, both locks, snapshots; proofs and refinement of `SingleWriter` |
| `Reconciliation` | abstract: what reconciling a name promises, one verdict on the tables as they stand |
| `ArtifactRegistry`, `MCArtifactRegistry`, `ArtifactRegistryProofs` | registration, `reconcile` one statement at a time; small sets; proofs and refinement of `Reconciliation` |

How they fit: `Authority` has the transactions of the service in full and any number
of connections; `ResidentService` says which of them can overlap, and keeps of
the tables the leases alone, which is what its scheduler is for.  `ArtifactRegistry`
and `Journal` are the other two groups of tables in the same database.

Two specifications restrict how calls overlap, and take from `ResidentService` what
they may assume.  `ServiceSpec` (of `Authority`) lets a call begin or go on only while
no other is under way, lease passes excepted; `QuietSpec` (of `ArtifactRegistry`) lets
anything be registered only while no connection reconciles, though any number of
them may reconcile at once.  Both hold of the service on its own: its requests run
one at a time under its database lock (README:111), a second process does not serve
(`ServesUnderLock`), commands stay away (README:131), and all that can come
between a request's check and its commit is the last lease pass of a process that
has stopped (`RequestsUndisturbed`).

### Authority

A variable is a table (`epoch`, `task`, `grant`, `lease`, `receipt`, `capability`),
`current` is `metadata.current_authority_epoch`, `log[t]` the rows of
`task_transitions` for `t` in sequence order.  A row in state `"none"` is absent.
A *caller* is a connection.  `issue_epoch`, `create_task` and `issue_grant` are two
actions each: the check, and the commit that uses what was checked; `call[c]`
holds it in between.  Every other call reads what it decides on inside its
transaction, or re-reads it there, and is one action.  `Abort` is a call that ends
between the two: the write lock is refused, a constraint fails, the process dies.
A crash loses no committed transaction (`synchronous = FULL`), so it needs nothing
else.  A call that raises, or is a replay, changes nothing.

`expire_leases` is one action over all due leases; the lease that is recorded for a
task is the first due one by expiry, any of them on a tie.  It checks nothing before
its transaction and is tied to no caller: a pass may come from any connection at any
time, also between another call's check and its commit. Transition identities are kept
as what they bind: the target state and the evidence (`Recorded`), which leaves out
the state a transition starts from, as the code does.  `Step(c)` is any other call of
a connection.  In `ServiceSpec` these calls do not overlap, and lease passes come at
any time.  Times are arguments, chosen freely by the caller in every call, so late,
early and repeated times are all included.

### OwnerGate

`run[r]` is a workflow run: its event (issue, body and policy epoch at the time of
the label), its attempt and how far it has come.  `running`, `decided`,
`uploaded`, `cleared` are the points between the steps of the job: before
`execute_task`, after it, after the upload, after `post_receipt` has re-read the
comments.  `Fail` may happen at each of them.  `Post` stores the comment and may
report failure all the same.  `Edit` and `Quote` are what people do to an issue: another
body, a comment that quotes a receipt.  A body is what the executor reads of it: key,
task identity, epoch, expiry and whether a check fails before (`unfit`) or after
(`mismatch`) the comments are read.

A receipt is read back from a fenced block of JSON inside the comment
(`receipt_utils.py:81`), and what the body puts into it may break the fence or compare
unequal to itself.  Task identities (task id and capability, or an epoch that is no
number) of which this is so are the constant `Illegible`: a receipt that echoes one is
a comment of the executor that no later run recognises, and every label adds another.
Such an identity is neither a well-formed identifier nor an allowed capability, so its
task is never executed.  `OneReceipt` and `TaskAnswers` are about the other names.

GitHub is external, and modelled as the workflow relies on it: one run in progress
and one waiting per concurrency group, the newest waiting run replacing the older
one; a re-run keeps event and revision; comments of the executor are not edited or
deleted; the list of comments read is complete; a post that fails has either taken
effect by the time the run ends or never does.

### Journal

`events` is the table in sequence order, `chain` the `event_chain` rows by sequence
number.  A hash stands for what it binds, so equal hashes are equal histories.
`Connect` is `connect`: it checks the chained rows, then chains what is missing.
A mutation is `set_artifact_active`, whose event depends on the flag and on a
supplied time; the older release appends without chaining
(`registry.py:40`) and, as README:131 demands, only while no connection of this
one is open.  `ChainVerifies` is about the tables.  `verify_event_chain` reads the
chained rows and then counts the events in a second statement
(`authority_registry.py:85`, `:102`): another connection's append between the two makes
it report a length mismatch that the tables never had.

### ResidentService

A process is an element of `Runtimes`; `main[r]` is how far its main thread is in
`start` and `stop` (`locked`, `verified`, `observed`, `reconciled`, `ready`,
`stopping`, `closing`, `drained`, `released`, and `off` before and after), `sched[r]`
and `http[r]` are its two other threads.  A request takes the database lock and checks
(`Begin`), and commits (`Commit`) or raises (`Refuse`) before it gives the lock back;
the scheduler's tick waits for it (`Unlocked`).  `seen[r]` is the time a tick has read
before it waits for the database.  A state of the database is counted by `version`.
`write_snapshot` reads table after table in statements of their own
(`registry.py:279`, `authority_registry.py:164`) under the database lock of its
process and outside any transaction: `Export` is the first read, `ExportRest` the
last, and `shot[r]` the versions the two saw, between which every other read lies.
`files` and `pointer` are the snapshot files and `CURRENT.json`, each by such a pair.
A pair with two versions is a snapshot that mixes tables of several states.  Only
the last tick of a process that has given up the lock can bring this about
(`RequestsUndisturbed`), and no document excludes it: README:116 promises
content-addressed snapshots and an atomic pointer.

`Stop` sets the stop event, `Shutdown` asks the serving loop to end, `Drain` is its
end, possible only between two connections: the server has one thread, and a
connection is kept alive by its client (`service_http.py:23`).  `Release` does not
wait for a tick: the join gives up after five seconds (`service_runtime.py:350`).
`Kill` may happen wherever the lock is held; the kernel drops the lock with the
process.  `TickFails` is any exception of a tick.  `Command` is the command line,
which takes no lock and which README:131 allows only while no process has it.  What a
command may do beside a service all the same, two processes on one file with no lock
between them, is the run `authority_racing`.

Assumed: the defaults of `ServiceConfig` (`startup_reconcile`, an interval above
zero), a clock that does not run backwards, a rename that is atomic.

### ArtifactRegistry

`named[n][a]` is the row of `artifact_names` (`"none"`, `"active"`, `"inactive"`);
`replica[s]` what was last observed at a place, as `reconcile` tells it apart:
`absent`, `changed`, `pending` (present, not indexed), `indexed`; `pointer[n][q]` the
artifact with which target, declared and observed hash all agree, if any;
`receipt[r]` a job (task and key), whether it completed, artifact and output.
An artifact is its bytes, so an output's hash is an artifact or `None`.
`ReadArtifacts`, `ReadReplicas`, `ReadPointers`, `ReadReceipts` are the four reads and
`Commit` the transaction; `call[c]` holds what was found between them.  `ruling[n]` is
the latest row of `reconciliations`.

## 3. Runs

| Run | Instance | Shows |
|---|---|---|
| `authority_service` | `ServiceSpec`, 1 caller, 2 tasks, 2 keys, 2 grants, times 1..2 | two grants compete for a task, or hold two tasks that one pass ends; one hand-out, one dispatch, no silent loss; what a call checked holds when it commits, lease passes in between or not |
| `authority_racing` | 2 callers, 2 tasks, 1 grant, 2 epochs, receipts | checks race a promotion; fencing; receipts; completions have an author; nothing revives; the inductive invariant; refinement |
| `authority_sibling` | violation | finding 1 |
| `authority_receiptless` | violation | finding 2 |
| `authority_lateintake` | violation | finding 3 |
| `owner_gate` | 1 issue, 4 bodies (sound, sound with another expiry, mismatched, illegible), 2 runs of 2 attempts, 2 epochs, times 0..1 | one receipt, no work after it, artifacts before completion; refinement of `TaskAnswers` |
| `owner_gate_malformed` | violation | finding 5 |
| `journal_releases` | 2 connections, old writers, 3 times, 5 events | chain, opening, append-only |
| `journal_unjournalled` | violation | finding 4 |
| `resident_service` | 2 processes, 1 lease, times 0..1 | lock, readiness, requests undisturbed, snapshots, refinement of `SingleWriter`, and the two liveness properties |
| `registry_service` | `QuietSpec`, 2 callers, 2 artifacts, 1 name, 2 places on the indexed plane, 1 pointer, 2 receipts | the reads of `reconcile` are one verdict; conflicts stay; nothing suspect is accepted |
| `registry_unseen` | violation | finding 6 |

Bounds.  `MaxEpoch`, `MaxTime`, `MaxAttempt`, `MaxEvents` are guards of the actions
that count.  Two of everything that competes is enough for the pairs the
properties speak of: two grants of a task, two tasks of a pass, two callers
between a check and a commit, an old and a new epoch, two runs, two connections, a
process and its successor, two versions of a name, two copies on one plane, two
receipts of one job.  Two times are an expiry and a call before it, or not;
`owner_gate` and `resident_service` count them from 0.  Five events allow two turns
of each release.  The receipts of `registry_service` are of one job and contradict each
other in output and artifact; those of `registry_unseen` report an output only.
`authority_service` has one caller: where calls do not overlap, a second caller only
repeats the first under another name.  The lease pass needs no caller and comes also
between a check and its commit, where it may end leases, of other grants of the task
too.  The run has one epoch; the theorem `CommittedAsChecked` covers promotions and any
number of callers.
The proofs lift the bounds.  Symmetry is used where the properties are
safety; `resident_service` has none.
Deadlock is not checked in the runs of `Authority` and `OwnerGate`: once everything
is issued, registered and ended, or every run is used up, nothing more can happen.
The other modules never stop and are checked.

Fairness.  Stated for `ResidentService` only: calls of the core are made by clients,
and GitHub promises nothing the workflow could rely on.  The threads of the service go
on when they can (weak fairness of a tick's start and of the scheduler's end, of a
request or an export under way, of a snapshot being written, and of the steps of
`stop`).  A tick is held up by the requests of its own process, between any two of
which it may take the lock, and fails when another process keeps the database busy
beyond its timeout; that ends, and the loop catches every exception of a tick
(`service_runtime.py:282`), so a tick tried again and again succeeds some time (strong
fairness of `SchedulerTick`).  Nothing is fair that needs a client, an operator or a
crash.  What cannot be assumed is a condition of the property: `LeasesEnd` asks that
some process is ready again and again, however often processes are killed; `StopEnds`
asks that clients let go of their connections again and again. Without that the
property fails: `shutdown` waits for the client that is connected, while the scheduler
has already ended.

Every property of a passing run has a mutant in `PROJECT.json`: a plausible
mistake in one mapped definition that makes TLC refute it.

### Findings

1. `authority.py:507`, `:524`: the end of a *sibling* lease, of a grant nobody
   accepted, makes a task unknown while its executor runs it under an active lease.
   README:80 speaks of "a running executor loses its lease".
2. `authority.py:329`: `transition_task` reaches `completed` without a receipt and
   leaves the lease active; README:81 "terminal-receipt completion".  What does
   hold: the last move of every completed task names its receipt or a client's claim
   (`CompletionTraced`).
3. `authority.py:170`: `create_task` may take a task in under an epoch retired since
   its check; README:82 "stale-epoch fencing after promotion".  The task is then
   fenced, and stranded.  Overlapping calls are all it takes and without them it
   cannot happen (`NoLateIntake`).
4. `authority_registry.py:41`, `registry.py:108`: a mutation whose event equals an
   earlier one changes its row and is not journalled; README:11 "Every mutation
   appends a hashed event."
5. `receipt_utils.py:94` with `execute_task.py:137`: a body without a key is answered
   under a fallback key its receipts can never match, so every label adds one; gate
   README:15 "A duplicate event exits without producing another artifact or receipt."
6. `registry.py:233`: `reconcile` compares only the receipts whose output or artifact
   is registered under the logical name.  A second completed receipt of the same task
   and key, with an output of other bytes that was never registered there, is not
   seen, and the name is accepted; README:13 "Conflicting bytes, receipts, or
   simultaneous active versions fail closed into quarantine."

## 4. Proofs

Assumptions are the named `ASSUME`s of the modules: NULL is not an identifier, a
client's claim is not mistaken for a lease or a receipt, bounds are natural numbers,
bodies have the fields the scripts read, and those whose receipts cannot be read back
fail the executor's first checks.  Nothing is assumed of the size of the sets.

**Authority** (`AuthoritySteps`, `AuthorityProofs`).  `Spec => []IInv`, and from it
every property of the passing runs.  The properties are not inductive alone.  That
one grant at most is accepted needs that acceptance, visible for ever in the
heartbeat, has taken the task out of the states a grant is accepted in for good
(`AcceptanceSound`); that the transition of an acceptance or a loss is really
recorded, and not taken for a replay, needs that no dispatch is on record for a
task not yet handed out, that terminal moves come last (`HistorySound`), and that
a lease is evidence of a loss only once it is lost (`EvidenceSound`); epochs stay in
line because a pending promotion is at most the successor of the current epoch
(`CallsSound`).  `AuthoritySteps` shows once what any step can do to a single task
and a single grant; each conjunct then goes through those few cases.  `Fencing` and
`NoRevival` are action properties from the same cases.  `CompletionsAreTraced` ties the
last row of a completed task's history to its author, on top of `IInv`.
`Implementation` maps every step of the core to a step of `TaskLifecycle` or a stutter.

Of `ServiceSpec`, for any number of connections taking turns: what a call has checked
stays true until it commits (`ChecksHold`, an invariant because a lease pass, which may
come in between from any connection, moves no epoch, no capability, and no task before
its dispatch; a pass that also moved approved tasks would break it, which is the
mutant of `WorkAsChecked`).
Hence `CommittedAsChecked`, and `NoLateIntake`: the property finding 3 violates
holds where calls do not overlap.

**OwnerGate** (`OwnerGateProofs`).  `Spec => []IInv`.  A run acts on comments it read
earlier; what it read still holds because only a run in progress posts and the
concurrency group admits one per issue (`Serialised`, `ReadingsHold`); completion
reports an artifact because of `UploadsFirst`.  From it: at most one receipt,
completion has its artifact, success answers, nothing is published after a
receipt.  `Implementation` puts them together: seen by key and task identity, with
the artifacts of all runs and the receipts among the comments, every step of the
workflow is a step of `TaskAnswers` or a stutter.  The tasks are those whose receipts
can be read back (`LegibleTasks`): no name of theirs is in `Illegible`.

**Journal** (`JournalProofs`).  The invariant says that chained rows form a prefix of
the events, each as backfilling would rebuild it, and a complete one while a
connection is open.  From it: the database always opens, verifies, and keeps its
records.

**ResidentService** (`ResidentServiceProofs`).  `Spec => []IInv`.  The lock is held
exactly by the process whose main thread is between acquiring and releasing it
(`LockFollows`), and threads live in certain phases of it (`ThreadsFollow`): hence
nothing is served without the lock.  No lease due at the startup tick stands
between that tick and readiness (`Reconciled`), because until then only a tick of a
process that no longer has the lock can write, and ticks end leases.
The first read of a snapshot in progress is never older than the last read of the one
`CURRENT.json` names (`SnapshotsInOrder`), and its file is there before it is named
(`FilesFirst`).  `RequestsRunUndisturbed`: nothing changes a lease between what a request
checks and what it commits, or while a snapshot is read, the last tick of a stopped
process excepted - the own scheduler
waits for the lock, no other process is past `start`, commands wait for no process.
`Implementation` maps every step to one of `SingleWriter`, which hides the threads, the
ticks and the files: `CURRENT.json` is there a value, and a dangling pointer would
be none.  What is published there is a range of versions, from the last one of the
snapshot before to the present: the tables of a snapshot may be of different states
within it, and it never reaches back.

**ArtifactRegistry** (`ArtifactRegistryProofs`).  Of `Spec`, for any number of callers
and any overlap: type correctness, and that conflicts between receipts stay.  Of
`QuietSpec` (nothing is registered while a connection reconciles; reconciling
connections overlap freely, and there may be any number of them): what a call has found
stays true of the tables (`ReadingsHold`; a commit of another call writes verdicts only,
which no call reads), so that the findings at the commit are those of one moment.
`VerdictFound` shows that the decision on complete findings is the abstract verdict;
from it, `reconcile` implements `Reconciliation`, and nothing in conflict is accepted.
`OneCallerIsQuiet`: a single connection meets the hypothesis by itself.  Of `Spec` with
two callers neither holds: a command run beside the service, against README:131,
can change the tables between two reads.

Every safety property, action property and refinement of a passing run is a
theorem.  Only model-checked: the six disagreements of section 3, and the liveness
properties `LeasesEnd` and `StopEnds`, which are out of the prover's reach (fairness
is a matter of `ENABLED`).  The bound on epochs, times, attempts and events is a
constant of the theorems, any natural number; the tables' sets are arbitrary.

## 5. Not modelled, and what is left

Parts of modelled components: the foreground variant `serve_forever` of the service,
which no program of the repository calls; starting a stopped runtime object a second
time; a service without startup reconciliation or scheduler; `register_contract`, which
fills a table nothing else reads.  They would be the next extension of
`ResidentService`.

Left out for good: parsing of requests and authentication (no state), argument
parsing and printing, contracts and canonical JSON (pure functions of one value;
content identifiers are modelled by the content they bind), media tools and
recorded data (one-shot generators; nothing concurrent or stateful).

Hazards without a property: resumed tasks that no lease times out, a published
artifact whose re-run is rejected or judged by an epoch that has passed, waiting runs
cancelled by an unrelated label, comments deleted while they are read, a replica's
place that stays with its first version, a client's tick at a time of its own, writers
of an older release beside an open connection.  The models reach these states or say
why they exclude them; no document of the repository promises anything of them.  Tasks
of a retired epoch stay where they are: that is what `StaleEpochFenced` says.
