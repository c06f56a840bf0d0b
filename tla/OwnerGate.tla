------------------------------ MODULE OwnerGate ------------------------------
(***************************************************************************)
(* The owner-gated executor: an issue carries a task, the label            *)
(* "owner-approved" approves it, and a workflow run validates the task,    *)
(* publishes an artifact and posts a terminal receipt as a comment.  The   *)
(* comments of the issue are the executor's only memory.                   *)
(*                                                                         *)
(* A run takes several steps and may fail at each; another event may start *)
(* a run of the same issue, or someone re-run an old one.  What GitHub does *)
(* (queueing, one run at a time in a concurrency group and one waiting, an *)
(* event and a revision fixed for all attempts of a run) is modelled as    *)
(* the workflow file relies on it.                                         *)
(***************************************************************************)
EXTENDS Naturals, FiniteSets

CONSTANTS
  Issues,
  Keys,                 \* well-formed idempotency keys
  Names,                \* a task's identifier and capability, taken together
  Illegible,            \* those that a receipt does not give back as they were
  Bodies,               \* issue bodies, as the executor reads them
  Runs,                 \* workflow runs
  None,
  MaxAttempt,           \* bound on the attempts of one run
  MaxEpoch,             \* bound on the policy's epoch
  MaxTime               \* bound on the clock

\* A body without a well-formed key has key None.  "unfit" fails a check made
\* before the comments are read, "mismatch" one made on its input afterwards.
\* A receipt is JSON in a code fence: a name that closes the fence, or that is not
\* equal to itself, is lost in it.  Such a name is neither a well-formed identifier
\* nor an allowed capability.
ASSUME BodiesAssumption ==
  /\ Bodies \subseteq [key : Keys \cup {None}, name : Names \cup {None}, epoch : Nat,
                       quality : {"sound", "unfit", "mismatch"}, expires : Nat]
  /\ Illegible \subseteq Names
  /\ \A b \in Bodies : b.name \in Illegible => b.quality = "unfit"

ASSUME NoneAssumption ==
  None \notin Issues \cup Keys \cup Names \cup Bodies /\ Bodies \cap Keys = {}

ASSUME BoundAssumption ==
  MaxAttempt \in Nat \ {0} /\ MaxEpoch \in Nat \ {0} /\ MaxTime \in Nat

VARIABLES
  text,                 \* the body of every issue
  policy,               \* current_epoch of policy.json on the default branch
  clock,
  run,                  \* every workflow run
  artifacts,            \* artifacts uploaded
  comments              \* comments of all issues that carry a receipt marker

vars == <<text, policy, clock, run, artifacts, comments>>

Phases == {"none", "pending", "running", "decided", "uploaded", "cleared",
           "done", "failed", "cancelled"}

\* The phases in which a run occupies its issue's concurrency group.
InProgress == {"running", "decided", "uploaded", "cleared"}

\* The marker of a body that has no key is derived from the body itself.
Marker(b) == IF b.key # None THEN b.key ELSE b

Run      == [phase : Phases, issue : Issues \cup {None}, body : Bodies \cup {None}, approval : BOOLEAN,
             epoch : 1..MaxEpoch, attempt : 0..MaxAttempt,
             decision : {"none", "execute", "duplicate", "reject"}]
Artifact == [issue : Issues, body : Bodies, run : Runs, attempt : 0..MaxAttempt]
Comment  == [issue : Issues, author : {"actions", "user"}, marker : Keys \cup Bodies,
             name : Names \cup {None}, epoch : Nat, state : {"completed", "rejected"},
             run : Runs \cup {None}, attempt : 0..MaxAttempt]

Init ==
  /\ text \in [Issues -> Bodies]
  /\ policy = 1
  /\ clock = 0
  /\ run = [r \in Runs |-> [phase |-> "none", issue |-> None, body |-> None, approval |-> FALSE,
                            epoch |-> 1, attempt |-> 0, decision |-> "none"]]
  /\ artifacts = {}
  /\ comments = {}

-----------------------------------------------------------------------------
(* People, and time *)

Edit(i, b) ==
  /\ text[i] # b
  /\ text' = [text EXCEPT ![i] = b]
  /\ UNCHANGED <<policy, clock, run, artifacts, comments>>

Promote ==
  /\ policy < MaxEpoch
  /\ policy' = policy + 1
  /\ UNCHANGED <<text, clock, run, artifacts, comments>>

Tick ==
  /\ clock < MaxTime
  /\ clock' = clock + 1
  /\ UNCHANGED <<text, policy, run, artifacts, comments>>

\* A receipt for b that somebody else has pasted into issue i.
Quotation(i, b) ==
  [issue |-> i, author |-> "user", marker |-> Marker(b), name |-> b.name, epoch |-> b.epoch,
   state |-> "completed", run |-> None, attempt |-> 0]

\* Someone quotes a receipt, marker and all, of this issue or of another one.  The
\* same quotation twice says no more than once.
Quote(i, b) ==
  /\ Quotation(i, b) \notin comments
  /\ comments' = comments \cup {Quotation(i, b)}
  /\ UNCHANGED <<text, policy, clock, run, artifacts>>

-----------------------------------------------------------------------------
(* Queueing *)

\* A run that is queued takes the place of the one that was waiting.
Queue(r, queued) ==
  run' = [s \in Runs |->
            CASE s = r -> queued
              [] s # r /\ run[s].phase = "pending" /\ run[s].issue = queued.issue
                   -> [run[s] EXCEPT !.phase = "cancelled"]
              [] OTHER -> run[s]]

\* Any label starts a run: the label is tested only once the run's turn comes.
\* The event holds the body, and the revision the policy, of this moment.
Label(i, r, approval) ==
  /\ run[r].phase = "none"
  /\ Queue(r, [phase |-> "pending", issue |-> i, body |-> text[i], approval |-> approval,
               epoch |-> policy, attempt |-> 1, decision |-> "none"])
  /\ UNCHANGED <<text, policy, clock, artifacts, comments>>

Rerun(r) ==
  /\ run[r].phase \in {"done", "failed", "cancelled"}
  /\ run[r].attempt < MaxAttempt
  /\ Queue(r, [run[r] EXCEPT !.phase = "pending", !.attempt = @ + 1, !.decision = "none"])
  /\ UNCHANGED <<text, policy, clock, artifacts, comments>>

\* Mutant: runs of one issue are not serialised.
NeverBusy(i) == FALSE

Busy(i) == \E r \in Runs : run[r].issue = i /\ run[r].phase \in InProgress

Start(r) ==
  /\ run[r].phase = "pending"
  /\ ~Busy(run[r].issue)
  /\ run' = [run EXCEPT ![r].phase = IF run[r].approval THEN "running" ELSE "done"]
  /\ UNCHANGED <<text, policy, clock, artifacts, comments>>

\* An API call fails, the runner is lost, or someone cancels the run.
Fail(r) ==
  /\ run[r].phase \in InProgress
  /\ run' = [run EXCEPT ![r].phase = "failed"]
  /\ UNCHANGED <<text, policy, clock, artifacts, comments>>

-----------------------------------------------------------------------------
(* The executor *)

\* Mutant: a receipt counts whoever wrote the comment.
ReceiptByAnyone(c, b) == c.marker = b.key /\ c.name = b.name /\ c.epoch = b.epoch

\* The receipt names the marker as its key; the task of a body without a key
\* has none to compare it with.  The receipt is read back from the comment's text.
ValidReceipt(c, b) ==
  /\ c.author = "actions"
  /\ c.name \notin Illegible
  /\ c.marker = Marker(b)
  /\ c.marker = b.key
  /\ c.name = b.name
  /\ c.epoch = b.epoch

Answered(i, b) == \E c \in comments : c.issue = i /\ ValidReceipt(c, b)

\* The checks made before the comments are read.
Admissible(b, epoch) ==
  /\ b.key # None
  /\ b.quality # "unfit"
  /\ b.epoch = epoch
  /\ clock < b.expires

\* The errors found before the comments are read outweigh a receipt.
Decision(i, b, epoch) ==
  CASE ~Admissible(b, epoch)  -> "reject"
    [] Admissible(b, epoch) /\ Answered(i, b) -> "duplicate"
    [] OTHER -> IF b.quality = "mismatch" THEN "reject" ELSE "execute"

Execute(r) ==
  /\ run[r].phase = "running"
  /\ run' = [run EXCEPT ![r].phase = "decided",
                        ![r].decision = Decision(run[r].issue, run[r].body, run[r].epoch)]
  /\ UNCHANGED <<text, policy, clock, artifacts, comments>>

\* Mutant: the artifact is of the issue's body at the time of the upload.
ArtifactOfLatest(r) ==
  [issue |-> run[r].issue, body |-> text[run[r].issue], run |-> r, attempt |-> run[r].attempt]

ArtifactOf(r) ==
  [issue |-> run[r].issue, body |-> run[r].body, run |-> r, attempt |-> run[r].attempt]

Upload(r) ==
  /\ run[r].phase = "decided"
  /\ run[r].decision = "execute"
  /\ artifacts' = artifacts \cup {ArtifactOf(r)}
  /\ run' = [run EXCEPT ![r].phase = "uploaded"]
  /\ UNCHANGED <<text, policy, clock, comments>>

\* Mutant: the receipt is posted even when the upload has failed or was skipped.
ReadyToPostAlways(r) == run[r].phase \in {"decided", "uploaded"}

\* The steps of the job run in order, and the upload only for a task to execute.
ReadyToPost(r) ==
  \/ run[r].phase = "decided" /\ run[r].decision # "execute"
  \/ run[r].phase = "uploaded"

\* Mutant: the comments are not read again before a receipt is posted.
NothingToPostUnread(r) == run[r].decision = "duplicate"

NothingToPost(r) ==
  run[r].decision = "duplicate" \/ Answered(run[r].issue, run[r].body)

Reread(r) ==
  /\ ReadyToPost(r)
  /\ run' = [run EXCEPT ![r].phase = IF NothingToPost(r) THEN "done" ELSE "cleared"]
  /\ UNCHANGED <<text, policy, clock, artifacts, comments>>

\* Mutant: the receipt carries the decision as its state.
StateOfVerbatim(decision) == decision

StateOf(decision) == IF decision = "execute" THEN "completed" ELSE "rejected"

ReceiptOf(r) ==
  [issue |-> run[r].issue, author |-> "actions", marker |-> Marker(run[r].body),
   name |-> run[r].body.name, epoch |-> run[r].body.epoch,
   state |-> StateOf(run[r].decision), run |-> r, attempt |-> run[r].attempt]

\* The comment is stored; the run fails all the same when the response is lost.
Post(r) ==
  /\ run[r].phase = "cleared"
  /\ comments' = comments \cup {ReceiptOf(r)}
  /\ \E phase \in {"done", "failed"} : run' = [run EXCEPT ![r].phase = phase]
  /\ UNCHANGED <<text, policy, clock, artifacts>>

-----------------------------------------------------------------------------

Next ==
  \/ \E i \in Issues, b \in Bodies : Edit(i, b) \/ Quote(i, b)
  \/ Promote
  \/ Tick
  \/ \E i \in Issues, r \in Runs, approval \in BOOLEAN : Label(i, r, approval)
  \/ \E r \in Runs : \/ Rerun(r)
                     \/ Start(r)
                     \/ Fail(r)
                     \/ Execute(r)
                     \/ Upload(r)
                     \/ Reread(r)
                     \/ Post(r)

Spec == Init /\ [][Next]_vars

-----------------------------------------------------------------------------
(* Properties *)

\* Runs, artifacts and comments have the fields the scripts write.
TypeOK ==
  /\ text \in [Issues -> Bodies]
  /\ policy \in 1..MaxEpoch
  /\ clock \in 0..MaxTime
  /\ run \in [Runs -> Run]
  /\ artifacts \subseteq Artifact
  /\ comments \subseteq Comment

Receipts == {c \in comments : c.author = "actions"}

\* A task with a well-formed key and a name its receipts can carry gets one receipt
\* in its issue, however often it is labelled, edited and re-run, and wherever its
\* runs fail, a lost response to the post included.
OneReceipt ==
  \A c, d \in Receipts :
    c.issue = d.issue /\ c.marker = d.marker /\ c.marker \in Keys
      /\ c.name = d.name /\ c.name \notin Illegible /\ c.epoch = d.epoch => c = d

\* A receipt that reports completion comes after the artifact of the same attempt.
CompletedHasArtifact ==
  \A c \in Receipts : c.state = "completed" =>
    \E a \in artifacts : /\ a.issue = c.issue /\ a.run = c.run /\ a.attempt = c.attempt
                         /\ Marker(a.body) = c.marker

\* A run that succeeds leaves its task answered by the executor itself, whoever
\* else has quoted a receipt.
SuccessIsAnswered ==
  \A r \in Runs : run[r].phase = "done" /\ run[r].approval =>
    \E c \in Receipts : c.issue = run[r].issue /\ c.marker = Marker(run[r].body)

\* A receipt settles its task: no artifact is published for it afterwards, not
\* even by a run that had already decided to execute.
NoWorkAfterReceipt ==
  [][\A a \in artifacts' \ artifacts : ~Answered(a.issue, a.body)]_vars

\* A task of an issue that has a well-formed key and a legible name, whatever else
\* its body says of it.
TaskOf(i, b) == <<i, b.key, b.name, b.epoch>>

Tasks ==
  {TaskOf(i, b) : i \in Issues,
                  b \in {x \in Bodies : x.key # None /\ x.name \notin Illegible}}

\* The executor implements tasks with one receipt at most, that are published
\* before they are completed and not after they were answered.
Answers == INSTANCE TaskAnswers WITH
  published <- [t \in Tasks |-> \E a \in artifacts : TaskOf(a.issue, a.body) = t],
  receipts <- [t \in Tasks |->
                 {c \in Receipts : <<c.issue, c.marker, c.name, c.epoch>> = t}]

ImplementsAnswers == Answers!Spec

-----------------------------------------------------------------------------
(* The inductive invariant *)

\* The concurrency group admits one run of an issue at a time.
Serialised ==
  \A r, s \in Runs :
    run[r].phase \in InProgress /\ run[s].phase \in InProgress /\ run[r].issue = run[s].issue
      => r = s

\* A run that was ever queued has its event.
EventsHeld ==
  \A r \in Runs : run[r].phase # "none" => run[r].issue \in Issues /\ run[r].body \in Bodies

\* Whether a run acts on its having read no receipt.
Unanswered(r) ==
  \/ run[r].phase = "decided" /\ run[r].decision = "execute"
  \/ run[r].phase = "cleared"

\* What a run read in the comments still holds while it acts on it.
Readings(r) ==
  /\ Unanswered(r) => ~Answered(run[r].issue, run[r].body)
  /\ run[r].phase = "decided" /\ run[r].decision = "duplicate"
       => Answered(run[r].issue, run[r].body)

ReadingsHold == \A r \in Runs : Readings(r)

\* Only a run that decided to execute uploads, and one about to report completion
\* has uploaded its artifact.
UploadsFirst ==
  \A r \in Runs :
    /\ run[r].phase = "uploaded" => run[r].decision = "execute"
    /\ run[r].phase \in {"uploaded", "cleared"} /\ run[r].decision = "execute" =>
         ArtifactOf(r) \in artifacts

\* What holds between any two steps, and is enough to show that the next one
\* keeps it.
IInv ==
  /\ TypeOK
  /\ EventsHeld
  /\ Serialised
  /\ ReadingsHold
  /\ UploadsFirst
  /\ OneReceipt
  /\ CompletedHasArtifact
  /\ SuccessIsAnswered

-----------------------------------------------------------------------------
(* What the documents say and the code does not keep *)

\* "A duplicate event exits without producing another artifact or receipt": no
\* two receipts of one issue carry the same marker.
DuplicateAddsNoReceipt ==
  \A c, d \in Receipts : c.issue = d.issue /\ c.marker = d.marker => c = d
=============================================================================
