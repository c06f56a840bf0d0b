--------------------------- MODULE OwnerGateProofs ---------------------------
(***************************************************************************)
(* Proofs about the owner-gated executor, for any number of issues, runs,  *)
(* attempts, tasks and edits.                                              *)
(*                                                                         *)
(* The argument: the concurrency group admits one run of an issue at a     *)
(* time (Serialised) and only a run in progress posts, so what a run read  *)
(* in the comments of its issue is still so when it acts (ReadingsHold).   *)
(***************************************************************************)
EXTENDS OwnerGate, TLAPS

-----------------------------------------------------------------------------
(* Types *)

\* Every step of a run writes a row of the declared shape.
LEMMA RunType ==
  ASSUME TypeOK, EventsHeld, NEW r \in Runs,
         \/ Rerun(r) \/ Start(r) \/ Fail(r) \/ Execute(r) \/ Upload(r) \/ Reread(r) \/ Post(r)
  PROVE  run' \in [Runs -> Run] /\ EventsHeld'
<1> USE DEF TypeOK, EventsHeld, Run, Phases
<1>1. CASE Rerun(r)
  <2> DEFINE q == [run[r] EXCEPT !.phase = "pending", !.attempt = @ + 1, !.decision = "none"]
  <2>0. run[r] \in Run /\ run[r].issue \in Issues /\ run[r].body \in Bodies
    BY <1>1 DEF Rerun
  <2>a. run[r].attempt + 1 \in 0..MaxAttempt
    BY <1>1, <2>0, BoundAssumption DEF Rerun
  <2>1. q \in Run /\ q.issue \in Issues /\ q.body \in Bodies
    BY <2>0, <2>a
  <2>2. Queue(r, q)
    BY <1>1 DEF Rerun
  <2> HIDE DEF q
  <2>. QED BY <2>1, <2>2 DEF Queue
<1>2. CASE Start(r)
  BY <1>2 DEF Start
<1>3. CASE Fail(r)
  BY <1>3 DEF Fail, InProgress
<1>4. CASE Execute(r)
  <2> DEFINE d == Decision(run[r].issue, run[r].body, run[r].epoch)
  <2>1. d \in {"execute", "duplicate", "reject"}
    BY DEF Decision
  <2>2. /\ run[r].phase = "running"
        /\ run' = [run EXCEPT ![r].phase = "decided", ![r].decision = d]
    BY <1>4 DEF Execute
  <2> HIDE DEF d
  <2>3. [run[r] EXCEPT !.phase = "decided", !.decision = d] \in Run
    BY <2>1
  <2>4. run' = [run EXCEPT ![r] = [run[r] EXCEPT !.phase = "decided", !.decision = d]]
    BY <2>2
  <2>. QED BY <2>2, <2>3, <2>4
<1>5. CASE Upload(r)
  BY <1>5 DEF Upload
<1>6. CASE Reread(r)
  BY <1>6 DEF Reread, ReadyToPost
<1>7. CASE Post(r)
  BY <1>7 DEF Post
<1>. QED BY <1>1, <1>2, <1>3, <1>4, <1>5, <1>6, <1>7

\* The comment a run posts is a comment.
LEMMA PostType ==
  ASSUME TypeOK, EventsHeld, NEW r \in Runs, run[r].phase # "none"
  PROVE  ReceiptOf(r) \in Comment
<1>1. run[r].issue \in Issues /\ run[r].body \in Bodies /\ run[r].attempt \in 0..MaxAttempt
  BY DEF TypeOK, EventsHeld, Run
<1>2. /\ Marker(run[r].body) \in Keys \cup Bodies
      /\ run[r].body.name \in Names \cup {None} /\ run[r].body.epoch \in Nat
  BY <1>1, BodiesAssumption DEF Marker
<1>3. StateOf(run[r].decision) \in {"completed", "rejected"}
  BY DEF StateOf
<1>. QED BY <1>1, <1>2, <1>3 DEF Comment, ReceiptOf

\* Every step keeps the fields the scripts write.
LEMMA TypeStep ==
  ASSUME TypeOK, EventsHeld, [Next]_vars PROVE TypeOK' /\ EventsHeld'
<1>1. CASE UNCHANGED vars
  BY <1>1 DEF vars, TypeOK, EventsHeld
<1>2. ASSUME NEW i \in Issues, NEW b \in Bodies, Edit(i, b) PROVE TypeOK' /\ EventsHeld'
  BY <1>2 DEF Edit, TypeOK, EventsHeld
<1>3. CASE Promote
  BY <1>3, BoundAssumption DEF Promote, TypeOK, EventsHeld
<1>4. CASE Tick
  BY <1>4, BoundAssumption DEF Tick, TypeOK, EventsHeld
<1>5. ASSUME NEW i \in Issues, NEW b \in Bodies, Quote(i, b) PROVE TypeOK' /\ EventsHeld'
  <2>1. Marker(b) \in Keys \cup Bodies /\ b.name \in Names \cup {None} /\ b.epoch \in Nat
    BY BodiesAssumption DEF Marker
  <2>2. Quotation(i, b) \in Comment
    BY <2>1, BoundAssumption DEF Quotation, Comment
  <2>. QED BY <1>5, <2>2 DEF Quote, TypeOK, EventsHeld
<1>6. ASSUME NEW i \in Issues, NEW r \in Runs, NEW approval \in BOOLEAN, Label(i, r, approval)
      PROVE  TypeOK' /\ EventsHeld'
  <2> DEFINE q == [phase |-> "pending", issue |-> i, body |-> text[i], approval |-> approval,
                   epoch |-> policy, attempt |-> 1, decision |-> "none"]
  <2>1. q \in Run /\ q.issue \in Issues /\ q.body \in Bodies
    BY <1>6, BoundAssumption DEF TypeOK, Run, Phases
  <2>2. Queue(r, q)
    BY <1>6 DEF Label
  <2> HIDE DEF q
  <2>3. run' \in [Runs -> Run] /\ EventsHeld'
    BY <2>1, <2>2 DEF Queue, TypeOK, EventsHeld, Run, Phases
  <2>. QED BY <1>6, <2>3 DEF Label, TypeOK
<1>7. ASSUME NEW r \in Runs, Rerun(r) \/ Start(r) \/ Fail(r) \/ Execute(r) \/ Reread(r)
      PROVE  TypeOK' /\ EventsHeld'
  BY <1>7, RunType DEF Rerun, Start, Fail, Execute, Reread, TypeOK
<1>8. ASSUME NEW r \in Runs, Upload(r) PROVE TypeOK' /\ EventsHeld'
  <2>1. run[r].issue \in Issues /\ run[r].body \in Bodies /\ run[r].attempt \in 0..MaxAttempt
    BY <1>8 DEF Upload, TypeOK, EventsHeld, Run
  <2>2. artifacts' \subseteq Artifact
    BY <1>8, <2>1 DEF Upload, ArtifactOf, TypeOK, Artifact
  <2>. QED BY <1>8, <2>2, RunType DEF Upload, TypeOK
<1>9. ASSUME NEW r \in Runs, Post(r) PROVE TypeOK' /\ EventsHeld'
  <2>1. comments' \subseteq Comment
    BY <1>9, PostType DEF Post, TypeOK
  <2>. QED BY <1>9, <2>1, RunType DEF Post, TypeOK
<1>. QED
  BY <1>1, <1>2, <1>3, <1>4, <1>5, <1>6, <1>7, <1>8, <1>9 DEF Next

-----------------------------------------------------------------------------
(* What a step does to runs and comments *)

\* A run comes into progress only by Start; otherwise runs in progress stay with
\* their event, their attempt and their approval.
LEMMA RunStep ==
  ASSUME TypeOK, [Next]_vars
  PROVE  \/ \E r \in Runs : Start(r)
         \/ \A s \in Runs : run'[s].phase \in InProgress =>
              /\ run[s].phase \in InProgress
              /\ run'[s].issue = run[s].issue
<1> USE DEF InProgress, TypeOK
<1>1. CASE run' = run
  BY <1>1
<1>2. ASSUME NEW r \in Runs, NEW q, q.phase = "pending", Queue(r, q)
      PROVE  \A s \in Runs : run'[s].phase \in InProgress =>
               run[s].phase \in InProgress /\ run'[s].issue = run[s].issue
  BY <1>2 DEF Queue, Run
<1>3. ASSUME NEW i \in Issues, NEW r \in Runs, NEW approval \in BOOLEAN, Label(i, r, approval)
      PROVE  \A s \in Runs : run'[s].phase \in InProgress =>
               run[s].phase \in InProgress /\ run'[s].issue = run[s].issue
  BY <1>2, <1>3 DEF Label
<1>4. ASSUME NEW r \in Runs, Rerun(r)
      PROVE  \A s \in Runs : run'[s].phase \in InProgress =>
               run[s].phase \in InProgress /\ run'[s].issue = run[s].issue
  BY <1>2, <1>4 DEF Rerun, Run
<1>5. ASSUME NEW r \in Runs, Fail(r) \/ Execute(r) \/ Upload(r) \/ Reread(r) \/ Post(r)
      PROVE  \A s \in Runs : run'[s].phase \in InProgress =>
               run[s].phase \in InProgress /\ run'[s].issue = run[s].issue
  BY <1>5 DEF Fail, Execute, Upload, Reread, ReadyToPost, Post, Run
<1>. QED
  BY <1>1, <1>3, <1>4, <1>5 DEF Next, vars, Edit, Promote, Tick, Quote

\* Comments are only added: quotations, and the receipts that runs post.
LEMMA CommentStep ==
  ASSUME TypeOK, [Next]_vars
  PROVE  \/ comments' = comments
         \/ run' = run /\ \E c : c.author = "user" /\ comments' = comments \cup {c}
         \/ \E r \in Runs : Post(r)
<1>1. ASSUME NEW i \in Issues, NEW b \in Bodies, Quote(i, b)
      PROVE  run' = run /\ \E c : c.author = "user" /\ comments' = comments \cup {c}
  <2>1. Quotation(i, b).author = "user"
    BY DEF Quotation
  <2>. QED BY <1>1, <2>1 DEF Quote
<1>. QED
  BY <1>1 DEF Next, vars, Edit, Promote, Tick, Label, Rerun, Start, Fail, Execute, Upload, Reread

-----------------------------------------------------------------------------
(* The conjuncts of the invariant *)

\* Start is the only way into progress, and finds the group free.
LEMMA SerialisedStep ==
  ASSUME TypeOK, Serialised, [Next]_vars PROVE Serialised'
<1>1. ASSUME NEW r \in Runs, Start(r) PROVE Serialised'
  BY <1>1 DEF Start, Busy, Serialised, TypeOK, Run
<1>2. CASE \A s \in Runs : run'[s].phase \in InProgress =>
             run[s].phase \in InProgress /\ run'[s].issue = run[s].issue
  BY <1>2 DEF Serialised
<1>. QED BY <1>1, <1>2, RunStep

\* The step Post(r) settles its own issue only.
LEMMA OneReceiptStep ==
  ASSUME IInv, [Next]_vars PROVE OneReceipt'
<1>1. CASE comments' = comments
  BY <1>1 DEF IInv, OneReceipt, Receipts
<1>2. ASSUME NEW c, c.author = "user", comments' = comments \cup {c} PROVE OneReceipt'
  BY <1>2 DEF IInv, OneReceipt, Receipts
<1>3. ASSUME NEW r \in Runs, Post(r) PROVE OneReceipt'
  <2> DEFINE b == run[r].body
             e == ReceiptOf(r)
  <2>1. ~Answered(run[r].issue, b)
    BY <1>3 DEF Post, IInv, ReadingsHold, Readings, Unanswered
  <2>2. b \in Bodies
    BY <1>3 DEF Post, IInv, EventsHeld
  <2>3. ASSUME NEW d \in Receipts, d.issue = e.issue, d.marker = e.marker, e.marker \in Keys,
               d.name = e.name, d.name \notin Illegible, d.epoch = e.epoch
        PROVE  FALSE
    <3>1. Marker(b) = b.key
      BY <2>2, <2>3, NoneAssumption DEF Marker, ReceiptOf
    <3>2. ValidReceipt(d, b) /\ d.issue = run[r].issue
      BY <2>3, <3>1 DEF ValidReceipt, Receipts, ReceiptOf
    <3>. QED BY <2>1, <3>2 DEF Answered, Receipts
  <2>4. comments' = comments \cup {e}
    BY <1>3 DEF Post
  <2> HIDE DEF e, b
  <2>. QED BY <2>3, <2>4 DEF IInv, OneReceipt, Receipts
<1>. QED BY <1>1, <1>2, <1>3, CommentStep DEF IInv

\* A completed receipt is posted by a run whose artifact is uploaded.
LEMMA CompletedStep ==
  ASSUME IInv, [Next]_vars PROVE CompletedHasArtifact'
<1>0. artifacts \subseteq artifacts'
  BY DEF Next, vars, Edit, Promote, Tick, Quote, Label, Rerun, Start, Fail, Execute, Upload,
         Reread, Post
<1>1. CASE comments' = comments
  BY <1>0, <1>1 DEF IInv, CompletedHasArtifact, Receipts, Marker
<1>2. ASSUME NEW c, c.author = "user", comments' = comments \cup {c} PROVE CompletedHasArtifact'
  BY <1>0, <1>2 DEF IInv, CompletedHasArtifact, Receipts, Marker
<1>3. ASSUME NEW r \in Runs, Post(r) PROVE CompletedHasArtifact'
  <2>1. ReceiptOf(r).state = "completed" => run[r].decision = "execute"
    BY DEF ReceiptOf, StateOf
  <2>2. ReceiptOf(r).state = "completed" => ArtifactOf(r) \in artifacts'
    BY <1>0, <1>3, <2>1 DEF Post, IInv, UploadsFirst
  <2>3. /\ ArtifactOf(r).issue = ReceiptOf(r).issue /\ ArtifactOf(r).run = ReceiptOf(r).run
        /\ ArtifactOf(r).attempt = ReceiptOf(r).attempt
        /\ Marker(ArtifactOf(r).body) = ReceiptOf(r).marker
    BY DEF ArtifactOf, ReceiptOf
  <2>4. comments' = comments \cup {ReceiptOf(r)}
    BY <1>3 DEF Post
  <2>. QED BY <1>0, <2>2, <2>3, <2>4 DEF IInv, CompletedHasArtifact, Receipts, Marker
<1>. QED BY <1>1, <1>2, <1>3, CommentStep DEF IInv

\* A receipt appears only in an issue whose one run in progress posts it, so
\* what another run has read stays true.
LEMMA ReadingsStep ==
  ASSUME IInv, [Next]_vars PROVE ReadingsHold'
<1> SUFFICES ASSUME NEW s \in Runs PROVE Readings(s)'
  BY DEF ReadingsHold, Readings
<1>t. run \in [Runs -> Run] /\ TypeOK /\ Serialised /\ Readings(s)
  BY DEF IInv, TypeOK, ReadingsHold, Readings
<1>1. ASSUME NEW r \in Runs, Post(r) PROVE Readings(s)'
  <2>1. CASE s = r
    BY <1>1, <1>t, <2>1 DEF Post, Readings, Unanswered, Run
  <2>2. CASE s # r
    <3>1. run'[s] = run[s] /\ comments' = comments \cup {ReceiptOf(r)}
      BY <1>1, <1>t, <2>2 DEF Post
    <3>2. Unanswered(s) => run[s].issue # ReceiptOf(r).issue
      BY <1>1, <1>t, <2>2 DEF Post, Unanswered, Serialised, InProgress, ReceiptOf
    <3>3. Unanswered(s) => ~Answered(run[s].issue, run[s].body)'
      <4>1. SUFFICES ASSUME Unanswered(s), Answered(run[s].issue, run[s].body)' PROVE FALSE
        OBVIOUS
      <4>2. Answered(run[s].issue, run[s].body)
        BY <3>1, <3>2, <4>1 DEF Answered, ValidReceipt, Marker
      <4>. QED BY <1>t, <4>1, <4>2 DEF Readings
    <3>4. Answered(run[s].issue, run[s].body) => Answered(run[s].issue, run[s].body)'
      BY <3>1 DEF Answered, ValidReceipt, Marker
    <3>. QED BY <1>t, <3>1, <3>3, <3>4 DEF Readings, Unanswered
  <2>. QED BY <2>1, <2>2
<1>2. CASE comments' = comments
  <2>1. ASSUME NEW i, NEW b PROVE Answered(i, b)' <=> Answered(i, b)
    BY <1>2 DEF Answered, ValidReceipt, Marker
  <2>2. CASE run'[s] = run[s]
    BY <1>t, <1>2, <2>2 DEF Readings, Unanswered, Answered, ValidReceipt, Marker
  <2>3. CASE run'[s].phase \notin {"decided", "cleared"}
    BY <2>3 DEF Readings, Unanswered
  <2>4. CASE Execute(s)
    <3>1. /\ run'[s].issue = run[s].issue /\ run'[s].body = run[s].body
          /\ run'[s].phase = "decided"
          /\ run'[s].decision = Decision(run[s].issue, run[s].body, run[s].epoch)
      BY <1>t, <2>4 DEF Execute, Run
    <3>2. CASE Answered(run[s].issue, run[s].body)
      BY <1>2, <3>1, <3>2 DEF Readings, Unanswered, Decision, Answered, ValidReceipt, Marker
    <3>3. CASE ~Answered(run[s].issue, run[s].body)
      BY <1>2, <3>1, <3>3 DEF Readings, Unanswered, Decision, Answered, ValidReceipt, Marker
    <3>. QED BY <3>2, <3>3
  <2>5. CASE Reread(s)
    <3>1. /\ run'[s].issue = run[s].issue /\ run'[s].body = run[s].body
          /\ run'[s].phase = "cleared" => ~Answered(run[s].issue, run[s].body)
          /\ run'[s].phase # "decided"
      BY <1>t, <2>5 DEF Reread, NothingToPost, Run
    <3>. QED BY <1>2, <3>1 DEF Readings, Unanswered, Answered, ValidReceipt, Marker
  <2>6. ASSUME NEW r \in Runs, NEW q, q.phase = "pending", Queue(r, q)
        PROVE  run'[s] = run[s] \/ run'[s].phase \notin {"decided", "cleared"}
    BY <1>t, <2>6 DEF Queue, Run
  <2>7. ASSUME NEW i \in Issues, NEW r \in Runs, NEW approval \in BOOLEAN,
               Label(i, r, approval)
        PROVE  run'[s] = run[s] \/ run'[s].phase \notin {"decided", "cleared"}
    BY <2>6, <2>7 DEF Label
  <2>8. ASSUME NEW r \in Runs, Rerun(r)
        PROVE  run'[s] = run[s] \/ run'[s].phase \notin {"decided", "cleared"}
    BY <1>t, <2>6, <2>8 DEF Rerun, Run
  <2>9. ASSUME NEW r \in Runs,
               \/ Start(r) \/ Fail(r) \/ Upload(r)
               \/ s # r /\ (Execute(r) \/ Reread(r))
        PROVE  run'[s] = run[s] \/ run'[s].phase \notin {"decided", "cleared"}
    BY <1>t, <2>9 DEF Start, Fail, Upload, Execute, Reread, Run
  <2>. QED
    BY <1>1, <2>2, <2>3, <2>4, <2>5, <2>7, <2>8, <2>9
    DEF Next, vars, Edit, Promote, Tick, Quote
<1>3. ASSUME NEW c, c.author = "user", comments' = comments \cup {c}, run' = run
      PROVE  Readings(s)'
  BY <1>t, <1>3 DEF Readings, Unanswered, Answered, ValidReceipt, Marker
<1>. QED BY <1>t, <1>1, <1>2, <1>3, CommentStep

\* What a run has uploaded it keeps while it is in progress.
LEMMA UploadsStep ==
  ASSUME IInv, [Next]_vars PROVE UploadsFirst'
<1> SUFFICES ASSUME NEW s \in Runs
             PROVE  /\ run'[s].phase = "uploaded" => run'[s].decision = "execute"
                    /\ run'[s].phase \in {"uploaded", "cleared"} /\ run'[s].decision = "execute"
                         => ArtifactOf(s)' \in artifacts'
  BY DEF UploadsFirst
<1>t. run \in [Runs -> Run]
  BY DEF IInv, TypeOK
<1>u. /\ run[s].phase = "uploaded" => run[s].decision = "execute"
      /\ run[s].phase \in {"uploaded", "cleared"} /\ run[s].decision = "execute"
           => ArtifactOf(s) \in artifacts
  BY DEF IInv, UploadsFirst
<1>0. artifacts \subseteq artifacts'
  BY DEF Next, vars, Edit, Promote, Tick, Quote, Label, Rerun, Start, Fail, Execute, Upload,
         Reread, Post
<1>1. CASE run'[s] = run[s]
  BY <1>0, <1>1, <1>u DEF ArtifactOf
<1>2. CASE run'[s].phase \notin {"uploaded", "cleared"}
  BY <1>2
<1>3. CASE Upload(s)
  BY <1>3, <1>t DEF Upload, ArtifactOf, Run
<1>4. CASE Reread(s)
  BY <1>4, <1>t, <1>u DEF Reread, ReadyToPost, ArtifactOf, Run
<1>5. ASSUME NEW r \in Runs, NEW q, q.phase = "pending", Queue(r, q)
      PROVE  run'[s] = run[s] \/ run'[s].phase \notin {"uploaded", "cleared"}
  BY <1>t, <1>5 DEF Queue, Run
<1>6. ASSUME NEW i \in Issues, NEW r \in Runs, NEW approval \in BOOLEAN, Label(i, r, approval)
      PROVE  run'[s] = run[s] \/ run'[s].phase \notin {"uploaded", "cleared"}
  BY <1>5, <1>6 DEF Label
<1>7. ASSUME NEW r \in Runs, Rerun(r)
      PROVE  run'[s] = run[s] \/ run'[s].phase \notin {"uploaded", "cleared"}
  BY <1>t, <1>5, <1>7 DEF Rerun, Run
<1>8. ASSUME NEW r \in Runs,
             \/ Start(r) \/ Fail(r) \/ Execute(r) \/ Post(r)
             \/ s # r /\ (Upload(r) \/ Reread(r))
      PROVE  run'[s] = run[s] \/ run'[s].phase \notin {"uploaded", "cleared"}
  BY <1>t, <1>8 DEF Start, Fail, Upload, Execute, Reread, Post, Run
<1>. QED
  BY <1>1, <1>2, <1>3, <1>4, <1>6, <1>7, <1>8
  DEF Next, vars, Edit, Promote, Tick, Quote

\* A run ends well only on a receipt it has read or posted.
LEMMA SuccessStep ==
  ASSUME IInv, [Next]_vars PROVE SuccessIsAnswered'
<1> DEFINE Told(s) == \E c \in Receipts : c.issue = run[s].issue /\ c.marker = Marker(run[s].body)
<1> SUFFICES ASSUME NEW s \in Runs, run'[s].phase = "done", run'[s].approval PROVE Told(s)'
  BY DEF SuccessIsAnswered
<1>t. run \in [Runs -> Run]
  BY DEF IInv, TypeOK
<1>0. comments \subseteq comments'
  BY CommentStep DEF IInv, Post
<1>1. CASE run'[s] = run[s]
  <2>1. Told(s)
    BY <1>1 DEF IInv, SuccessIsAnswered
  <2>. QED BY <1>0, <1>1, <2>1 DEF Receipts, Marker
<1>2. CASE Reread(s)
  <2>1. run'[s].issue = run[s].issue /\ run'[s].body = run[s].body /\ NothingToPost(s)
    BY <1>t, <1>2 DEF Reread, Run
  <2>2. Answered(run[s].issue, run[s].body)
    BY <1>2, <2>1
    DEF Reread, ReadyToPost, NothingToPost, IInv, ReadingsHold, Readings, UploadsFirst
  <2>. QED BY <1>0, <2>1, <2>2 DEF Answered, ValidReceipt, Receipts, Marker
<1>3. CASE Post(s)
  <2>1. run'[s].issue = run[s].issue /\ run'[s].body = run[s].body
    BY <1>t, <1>3 DEF Post, Run
  <2>2. ReceiptOf(s) \in comments'
    BY <1>3 DEF Post
  <2>. QED BY <2>1, <2>2 DEF ReceiptOf, Receipts, Marker
<1>4. ASSUME NEW r \in Runs, NEW q, q.phase = "pending", Queue(r, q)
      PROVE  run'[s] = run[s]
  BY <1>t, <1>4 DEF Queue, Run
<1>5. ASSUME NEW i \in Issues, NEW r \in Runs, NEW approval \in BOOLEAN, Label(i, r, approval)
      PROVE  run'[s] = run[s]
  BY <1>4, <1>5 DEF Label
<1>6. ASSUME NEW r \in Runs, Rerun(r) PROVE run'[s] = run[s]
  BY <1>t, <1>4, <1>6 DEF Rerun, Run
<1>7. ASSUME NEW r \in Runs,
             \/ Start(r) \/ Fail(r) \/ Execute(r) \/ Upload(r)
             \/ s # r /\ (Reread(r) \/ Post(r))
      PROVE  run'[s] = run[s]
  BY <1>t, <1>7 DEF Start, Fail, Execute, Upload, Reread, Post, Run
<1>. QED
  BY <1>1, <1>2, <1>3, <1>5, <1>6, <1>7 DEF Next, vars, Edit, Promote, Tick, Quote

-----------------------------------------------------------------------------
(* Theorems *)

\* Every step keeps the invariant.
LEMMA InvStep == IInv /\ [Next]_vars => IInv'
BY TypeStep, SerialisedStep, OneReceiptStep, CompletedStep, ReadingsStep, UploadsStep,
   SuccessStep
DEF IInv

\* The inductive invariant holds in every state of every history of the gate.
THEOREM Invariance == Spec => []IInv
<1>1. Init => IInv
  BY BoundAssumption
  DEF Init, IInv, TypeOK, Run, Phases, EventsHeld, Serialised, InProgress, ReadingsHold,
      Readings, Unanswered, UploadsFirst, OneReceipt, Receipts, CompletedHasArtifact,
      SuccessIsAnswered
<1>. QED BY <1>1, InvStep, PTL DEF Spec

\* Runs, artifacts and comments always have the fields the scripts write.
THEOREM TypeCorrect == Spec => []TypeOK
<1>1. IInv => TypeOK
  BY DEF IInv
<1>. QED BY <1>1, Invariance, PTL

\* A task with a well-formed key and a name its receipts can carry gets at most one
\* receipt in its issue.
THEOREM AtMostOneReceipt == Spec => []OneReceipt
<1>1. IInv => OneReceipt
  BY DEF IInv
<1>. QED BY <1>1, Invariance, PTL

\* A receipt that reports completion has its artifact.
THEOREM CompletionHasArtifact == Spec => []CompletedHasArtifact
<1>1. IInv => CompletedHasArtifact
  BY DEF IInv
<1>. QED BY <1>1, Invariance, PTL

\* A run that succeeds leaves its task answered.
THEOREM SuccessAnswers == Spec => []SuccessIsAnswered
<1>1. IInv => SuccessIsAnswered
  BY DEF IInv
<1>. QED BY <1>1, Invariance, PTL

\* No artifact is published for a task that has its receipt.
THEOREM ReceiptSettles == Spec => NoWorkAfterReceipt
<1> DEFINE Fresh == \A a \in artifacts' \ artifacts : ~Answered(a.issue, a.body)
<1>1. IInv /\ [Next]_vars => [Fresh]_vars
  <2> SUFFICES ASSUME IInv, Next PROVE Fresh
    OBVIOUS
  <2>1. ASSUME NEW r \in Runs, Upload(r) PROVE Fresh
    <3>1. ~Answered(ArtifactOf(r).issue, ArtifactOf(r).body)
      BY <2>1 DEF Upload, ArtifactOf, IInv, ReadingsHold, Readings, Unanswered
    <3>. QED BY <2>1, <3>1 DEF Upload
  <2>2. CASE artifacts' = artifacts
    BY <2>2
  <2>. QED
    BY <2>1, <2>2 DEF Next, Edit, Promote, Tick, Quote, Label, Rerun, Start, Fail, Execute,
       Reread, Post
<1>. QED BY <1>1, Invariance, PTL DEF Spec, NoWorkAfterReceipt

-----------------------------------------------------------------------------
(* The executor implements tasks that are answered at most once *)

Published(t) == \E a \in artifacts : TaskOf(a.issue, a.body) = t

ReceiptsOf(t) == {c \in Receipts : <<c.issue, c.marker, c.name, c.epoch>> = t}

\* A body whose receipts can be read back and compared with it.
Legible(b) == b.key # None /\ b.name \notin Illegible

\* A task of an issue is one exactly when its body is legible, and then the body's key
\* marks its receipts; no other receipt is of a task.
LEMMA LegibleTasks ==
  ASSUME NEW i \in Issues, NEW b \in Bodies
  PROVE  /\ Legible(b) => TaskOf(i, b) \in Tasks /\ Marker(b) = b.key
         /\ ~Legible(b) => TaskOf(i, b) \notin Tasks
         /\ ~Legible(b) => \A epoch : <<i, Marker(b), b.name, epoch>> \notin Tasks
<1>1. Legible(b) => TaskOf(i, b) \in Tasks /\ Marker(b) = b.key
  BY DEF Tasks, TaskOf, Marker, Legible
<1>2. ASSUME NEW t \in Tasks PROVE t[2] \in Keys /\ t[2] # None /\ t[3] \notin Illegible
  BY BodiesAssumption DEF Tasks, TaskOf
<1>3. ~Legible(b) => TaskOf(i, b) \notin Tasks
  BY <1>2 DEF TaskOf, Legible
<1>4. ASSUME ~Legible(b), NEW epoch, <<i, Marker(b), b.name, epoch>> \in Tasks
      PROVE  FALSE
  <2>1. Marker(b) \in Keys /\ b.name \notin Illegible
    BY <1>2, <1>4
  <2>2. b.key = None
    BY <1>4, <2>1 DEF Legible
  <2>3. Marker(b) = b
    BY <2>2 DEF Marker
  <2>. QED BY <2>1, <2>3, NoneAssumption
<1>. QED BY <1>1, <1>3, <1>4

\* A task whose run has read no receipt of it has none.
LEMMA UnreadIsOpen ==
  ASSUME NEW i \in Issues, NEW b \in Bodies, Legible(b), ~Answered(i, b)
  PROVE  ReceiptsOf(TaskOf(i, b)) = {}
<1>1. Marker(b) = b.key /\ b.name \notin Illegible
  BY LegibleTasks DEF Legible
<1>. SUFFICES ASSUME NEW c \in Receipts,
                     <<c.issue, c.marker, c.name, c.epoch>> = TaskOf(i, b)
              PROVE  FALSE
  BY DEF ReceiptsOf
<1>2. c.issue = i /\ c.marker = b.key /\ c.name = b.name /\ c.epoch = b.epoch
  BY DEF TaskOf
<1>. QED BY <1>1, <1>2 DEF Answered, ValidReceipt, Receipts

\* An upload publishes one open task, or one that is not legible.
LEMMA UploadPublishes ==
  ASSUME IInv, NEW r \in Runs, Upload(r)
  PROVE  [Answers!Next]_(Answers!vars)
<1> DEFINE i == run[r].issue
           b == run[r].body
           t == TaskOf(i, b)
<1>1. i \in Issues /\ b \in Bodies
  BY DEF Upload, IInv, EventsHeld
<1>2. ~Answered(i, b)
  BY DEF Upload, IInv, ReadingsHold, Readings, Unanswered
<1>3. \A u : Published(u)' <=> (Published(u) \/ u = t)
  <2>1. artifacts' = artifacts \cup {ArtifactOf(r)}
    BY DEF Upload
  <2>2. TaskOf(ArtifactOf(r).issue, ArtifactOf(r).body) = t
    BY DEF ArtifactOf
  <2> HIDE DEF t
  <2>. QED BY <2>1, <2>2 DEF Published, TaskOf
<1>4. \A u : ReceiptsOf(u)' = ReceiptsOf(u)
  BY DEF Upload, ReceiptsOf, Receipts
<1> HIDE DEF i, b, t
<1>5. [u \in Tasks |-> ReceiptsOf(u)]' = [u \in Tasks |-> ReceiptsOf(u)]
  BY <1>4
<1>6. CASE ~Legible(b)
  <2>1. t \notin Tasks
    BY <1>1, <1>6, LegibleTasks DEF t
  <2>2. [u \in Tasks |-> Published(u)]' = [u \in Tasks |-> Published(u)]
    BY <1>3, <2>1 DEF Published
  <2>. QED BY <1>5, <2>2 DEF Answers!vars, Published, ReceiptsOf
<1>7. CASE Legible(b)
  <2>1. t \in Tasks /\ ReceiptsOf(t) = {}
    BY <1>1, <1>2, <1>7, LegibleTasks, UnreadIsOpen DEF t
  <2>2. [u \in Tasks |-> Published(u)]' = [[u \in Tasks |-> Published(u)] EXCEPT ![t] = TRUE]
    BY <1>3, <2>1 DEF Published
  <2>3. Answers!Publish(t)
    BY <1>5, <2>1, <2>2 DEF Answers!Publish, Answers!Open, Published, ReceiptsOf
  <2>. QED BY <2>1, <2>3 DEF Answers!Next
<1>. QED BY <1>6, <1>7

\* A run posts the one receipt of an open task, or one of a task that is not
\* legible; a completed one after the artifact.
LEMMA PostAnswers ==
  ASSUME IInv, NEW r \in Runs, Post(r)
  PROVE  [Answers!Next]_(Answers!vars)
<1> DEFINE i == run[r].issue
           b == run[r].body
           e == ReceiptOf(r)
           t == <<i, Marker(b), b.name, b.epoch>>
<1>1. i \in Issues /\ b \in Bodies
  BY DEF Post, IInv, EventsHeld
<1>2. ~Answered(i, b)
  BY DEF Post, IInv, ReadingsHold, Readings, Unanswered
<1>3. Receipts' = Receipts \cup {e}
  BY DEF Post, ReceiptOf, Receipts
<1>4. <<e.issue, e.marker, e.name, e.epoch>> = t
  BY DEF ReceiptOf
<1>5. e.state = "completed" => Published(TaskOf(i, b))
  <2>1. e.state = "completed" => run[r].decision = "execute"
    BY DEF ReceiptOf, StateOf
  <2>2. e.state = "completed" => ArtifactOf(r) \in artifacts
    BY <2>1 DEF Post, IInv, UploadsFirst
  <2>. QED BY <2>2 DEF ArtifactOf, Published
<1>6. artifacts' = artifacts
  BY DEF Post
<1> HIDE DEF i, b, e, t
<1>7. \A u : ReceiptsOf(u)' = IF u = t THEN ReceiptsOf(u) \cup {e} ELSE ReceiptsOf(u)
  BY <1>3, <1>4 DEF ReceiptsOf
<1>8. [u \in Tasks |-> Published(u)]' = [u \in Tasks |-> Published(u)]
  BY <1>6 DEF Published
<1>9. CASE ~Legible(b)
  <2>1. t \notin Tasks
    BY <1>1, <1>9, LegibleTasks DEF t
  <2>2. [u \in Tasks |-> ReceiptsOf(u)]' = [u \in Tasks |-> ReceiptsOf(u)]
    BY <1>7, <2>1
  <2>. QED BY <1>8, <2>2 DEF Answers!vars, Published, ReceiptsOf
<1>10. CASE Legible(b)
  <2>1. t = TaskOf(i, b) /\ t \in Tasks /\ ReceiptsOf(t) = {}
    BY <1>1, <1>2, <1>10, LegibleTasks, UnreadIsOpen DEF t, TaskOf
  <2>2. PICK u \in Tasks : u = t
    BY <2>1
  <2>3. ReceiptsOf(u) = {} /\ (e.state = "completed" => Published(u))
    BY <1>5, <2>1, <2>2
  <2>4. [v \in Tasks |-> ReceiptsOf(v)]' = [[v \in Tasks |-> ReceiptsOf(v)] EXCEPT ![u] = {e}]
    BY <1>7, <2>2, <2>3
  <2>5. e \in [v \in Tasks |-> ReceiptsOf(v)]'[u]
    BY <2>4
  <2>6. Answers!Answer(u)
    BY <1>8, <2>3, <2>4, <2>5 DEF Answers!Answer, Answers!Open, Published, ReceiptsOf
  <2>. QED BY <2>6 DEF Answers!Next
<1>. QED BY <1>9, <1>10

\* Whatever people, runs and failures do, a task with a well-formed key and a name its
\* receipts can carry is answered at most once, completed only when published, and
\* published only while it is open.
THEOREM Implementation == Spec => ImplementsAnswers
<1>1. Init => Answers!Init
  BY DEF Init, Answers!Init, Receipts
<1>2. ASSUME IInv, [Next]_vars PROVE [Answers!Next]_(Answers!vars)
  <2>1. ASSUME UNCHANGED <<artifacts, Receipts>> PROVE UNCHANGED Answers!vars
    BY <2>1 DEF Answers!vars, Receipts
  <2>2. ASSUME NEW i \in Issues, NEW b \in Bodies, Quote(i, b)
        PROVE  UNCHANGED <<artifacts, Receipts>>
    BY <2>2 DEF Quote, Quotation, Receipts
  <2>3. UNCHANGED <<artifacts, comments>> => UNCHANGED <<artifacts, Receipts>>
    BY DEF Receipts
  <2>4. CASE \E r \in Runs : Upload(r) \/ Post(r)
    BY <1>2, <2>4, UploadPublishes, PostAnswers
  <2>5. CASE ~\E r \in Runs : Upload(r) \/ Post(r)
    <3>1. UNCHANGED <<artifacts, Receipts>>
      BY <1>2, <2>2, <2>3, <2>5 DEF Next, vars, Edit, Promote, Tick, Label, Rerun, Start, Fail,
         Execute, Reread
    <3>. QED BY <2>1, <3>1
  <2>. QED BY <2>4, <2>5
<1>3. IInv /\ [Next]_vars => [Answers!Next]_(Answers!vars)
  BY <1>2
<1>. QED BY <1>1, <1>3, Invariance, PTL DEF Spec, Answers!Spec, ImplementsAnswers
=============================================================================
