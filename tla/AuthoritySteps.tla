--------------------------- MODULE AuthoritySteps ---------------------------
(***************************************************************************)
(* What one step of Authority may do to one row.  Each lemma goes through  *)
(* the actions once; the theorems of AuthorityProofs rest on the lemmas    *)
(* and need not look at the actions again.                                 *)
(***************************************************************************)
EXTENDS Authority, TLAPS

\* Clients' times fit the columns, whose zero is NULL.
LEMMA TimeType == Times \subseteq 0..MaxTime
  BY BoundAssumption DEF Times

\* Recording a transition writes a row and a history of the schema.
LEMMA AfterType ==
  ASSUME TypeOK, NEW t \in Tasks, NEW to \in States, NEW ev \in Evidence
  PROVE  /\ RowAfter(t, to, ev) \in TaskRow
         /\ LogAfter(t, to, ev) \in Seq(Transition)
<1>1. [from |-> task[t].state, to |-> to, evidence |-> ev] \in Transition
  BY DEF TypeOK, TaskRow, Transition
<1>2. [task[t] EXCEPT !.state = to] \in TaskRow
  BY DEF TypeOK, TaskRow
<1>3. QED
  BY <1>1, <1>2 DEF TypeOK, RowAfter, LogAfter

\* Changing the state of some grants keeps the table's type.
LEMMA MarkedGrantType ==
  ASSUME TypeOK, NEW gs, NEW s \in {"completed", "revoked", "expired"}
  PROVE  Marked(grant, gs, s) \in [Grants -> GrantRow]
<1>1. \A g \in Grants : [grant[g] EXCEPT !.state = s] \in GrantRow /\ grant[g] \in GrantRow
  BY DEF TypeOK, GrantRow
<1>2. QED
  BY <1>1 DEF Marked

\* Changing the state of some leases keeps the table's type.
LEMMA MarkedLeaseType ==
  ASSUME TypeOK, NEW gs, NEW s \in {"released", "revoked", "expired"}
  PROVE  Marked(lease, gs, s) \in [Grants -> LeaseRow]
<1>1. \A g \in Grants : [lease[g] EXCEPT !.state = s] \in LeaseRow /\ lease[g] \in LeaseRow
  BY DEF TypeOK, LeaseRow
<1>2. QED
  BY <1>1 DEF Marked

\* Every call writes rows of the schema only.
LEMMA TypeStep == ASSUME TypeOK, GrantsSound, [Next]_vars PROVE TypeOK'
<1> USE BoundAssumption
<1>0. CASE UNCHANGED vars
  BY <1>0 DEF vars, TypeOK
<1>1. ASSUME NEW c \in Callers, IssueEpochCheck(c) PROVE TypeOK'
  <2>1. [op |-> "issue_epoch", epoch |-> current + 1] \in EpochCall
    BY <1>1 DEF IssueEpochCheck, TypeOK, EpochCall, Epochs
  <2>. QED BY <1>1, <2>1 DEF IssueEpochCheck, TypeOK
<1>2. ASSUME NEW c \in Callers, IssueEpochCommit(c) PROVE TypeOK'
  <2>1. call[c] \in EpochCall
    BY <1>2 DEF IssueEpochCommit, TypeOK, Idle, EpochCall, TaskCall, GrantCall
  <2>2. call[c].epoch \in Epochs
    BY <2>1 DEF EpochCall
  <2>. QED BY <1>2, <2>2 DEF IssueEpochCommit, TypeOK, Epochs
<1>3. ASSUME NEW c \in Callers, NEW x \in Executors, DeclareCapability(c, x) PROVE TypeOK'
  BY <1>3 DEF DeclareCapability, TypeOK
<1>4. ASSUME NEW c \in Callers, NEW t \in Tasks, NEW k \in Keys, CreateTaskCheck(c, t, k)
      PROVE TypeOK'
  <2>1. [op |-> "create_task", task |-> t, key |-> k, epoch |-> current] \in TaskCall
    BY <1>4 DEF CreateTaskCheck, TypeOK, TaskCall, Epochs
  <2>. QED BY <1>4, <2>1 DEF CreateTaskCheck, TypeOK
<1>5. ASSUME NEW c \in Callers, CreateTaskCommit(c) PROVE TypeOK'
  <2>1. call[c] \in TaskCall
    BY <1>5 DEF CreateTaskCommit, TypeOK, Idle, EpochCall, TaskCall, GrantCall
  <2>2. LogAfter(call[c].task, "proposed", None) \in Seq(Transition)
    BY <2>1, AfterType DEF TaskCall, States, Evidence
  <2>3. [state |-> "proposed", key |-> call[c].key, epoch |-> call[c].epoch,
      receipt |-> None] \in TaskRow
    BY <2>1 DEF TaskCall, TaskRow, States, Epochs
  <2>. QED BY <1>5, <2>1, <2>2, <2>3 DEF CreateTaskCommit, TypeOK
<1>6. ASSUME NEW c \in Callers, NEW t \in Tasks, NEW to \in States, NEW claim \in Claims,
             TransitionTask(c, t, to, claim)
      PROVE  TypeOK'
  <2>1. claim \in Evidence
    BY DEF Evidence
  <2>. QED BY <1>6, <2>1, AfterType DEF TransitionTask, AppendTransition, TypeOK
<1>7. ASSUME NEW c \in Callers, NEW t \in Tasks, NEW claim \in Claims,
             ApproveTask(c, t, claim)
      PROVE  TypeOK'
  BY <1>6, <1>7 DEF ApproveTask, States
<1>8. ASSUME NEW c \in Callers, NEW g \in Grants, NEW t \in Tasks, NEW x \in Executors,
             NEW expires \in Times, IssueGrantCheck(c, g, t, x, expires)
      PROVE  TypeOK'
  <2>1. [op |-> "issue_grant", grant |-> g, task |-> t, epoch |-> current,
                 executor |-> x, expires |-> expires] \in GrantCall
    BY <1>8 DEF IssueGrantCheck, TypeOK, GrantCall, Epochs
  <2>. QED BY <1>8, <2>1 DEF IssueGrantCheck, TypeOK
<1>9. ASSUME NEW c \in Callers, IssueGrantCommit(c) PROVE TypeOK'
  <2>1. call[c] \in GrantCall
    BY <1>9 DEF IssueGrantCommit, TypeOK, Idle, EpochCall, TaskCall, GrantCall
  <2>2. /\ [state |-> "issued", task |-> call[c].task, epoch |-> call[c].epoch,
            executor |-> call[c].executor] \in GrantRow
        /\ [state |-> "issued", expires |-> call[c].expires, beat |-> 0] \in LeaseRow
    BY <2>1 DEF GrantCall, GrantRow, LeaseRow, Epochs, Times
  <2>. QED BY <1>9, <2>1, <2>2 DEF IssueGrantCommit, TypeOK
<1>10. ASSUME NEW c \in Callers, NEW g \in Grants, NEW at \in Times, AcceptGrant(c, g, at)
       PROVE  TypeOK'
  <2>1. g \in Evidence /\ "dispatched" \in States
    BY DEF Evidence, States, Held
  <2>2. grant[g].task \in Tasks
    BY <1>10 DEF AcceptGrant, Acceptable, GrantsSound
  <2>3. [grant[g] EXCEPT !.state = "accepted"] \in GrantRow
    BY DEF TypeOK, GrantRow
  <2>4. [[lease[g] EXCEPT !.state = "active"] EXCEPT !.beat = at] \in LeaseRow
    BY TimeType DEF TypeOK, LeaseRow
  <2>. QED BY <1>10, <2>1, <2>2, <2>3, <2>4, AfterType DEF AcceptGrant, AppendTransition, TypeOK
<1>11. ASSUME NEW c \in Callers, NEW g \in Grants, NEW at \in Times, StartTask(c, g, at)
       PROVE  TypeOK'
  <2>1. g \in Evidence /\ "running" \in States
    BY DEF Evidence, States, Held
  <2>2. grant[g].task \in Tasks
    BY <1>11 DEF StartTask, GrantsSound
  <2>3. [grant[g] EXCEPT !.state = "active"] \in GrantRow
    BY DEF TypeOK, GrantRow
  <2>. QED BY <1>11, <2>1, <2>2, <2>3, AfterType DEF StartTask, AppendTransition, TypeOK
<1>12. ASSUME NEW c \in Callers, NEW g \in Grants, NEW at \in Times, Heartbeat(c, g, at)
       PROVE  TypeOK'
  <2>1. [lease[g] EXCEPT !.beat = at] \in LeaseRow
    BY TimeType DEF TypeOK, LeaseRow
  <2>. QED BY <1>12, <2>1 DEF Heartbeat, TypeOK
<1>13. ASSUME NEW now \in Times, ExpireLeases(now) PROVE TypeOK'
  <2>1. Due(now) \subseteq Grants /\ "unknown" \in States /\ Grants \subseteq Evidence
    BY DEF Due, States, Evidence
  <2>2. PICK first \in [Lost(Due(now)) -> Due(now)] :
          /\ task' = [t \in Tasks |->
               IF t \in Lost(Due(now)) THEN RowAfter(t, "unknown", first[t]) ELSE task[t]]
          /\ log' = [t \in Tasks |->
               IF t \in Lost(Due(now)) THEN LogAfter(t, "unknown", first[t]) ELSE log[t]]
    BY <1>13 DEF ExpireLeases
  <2>3. task' \in [Tasks -> TaskRow] /\ log' \in [Tasks -> Seq(Transition)]
    BY <2>1, <2>2, AfterType DEF TypeOK
  <2>. QED BY <1>13, <2>3, MarkedGrantType, MarkedLeaseType DEF ExpireLeases, TypeOK
<1>14. ASSUME NEW c \in Callers, NEW g \in Grants, RevokeLease(c, g) PROVE TypeOK'
  <2>1. g \in Evidence /\ "unknown" \in States
    BY DEF Evidence, States
  <2>2. task' \in [Tasks -> TaskRow] /\ log' \in [Tasks -> Seq(Transition)]
    <3>1. CASE grant[g].task \in Lost({g})
      <4>1. grant[g].task \in Tasks
        BY <3>1 DEF Lost
      <4>2. AppendTransition(grant[g].task, "unknown", g)
        BY <1>14, <3>1 DEF RevokeLease
      <4>. QED BY <2>1, <4>1, <4>2, AfterType DEF AppendTransition, TypeOK
    <3>2. CASE grant[g].task \notin Lost({g})
      BY <1>14, <3>2 DEF RevokeLease, TypeOK
    <3>. QED BY <3>1, <3>2
  <2>. QED BY <1>14, <2>2, MarkedGrantType, MarkedLeaseType DEF RevokeLease, TypeOK
<1>15. ASSUME NEW c \in Callers, NEW r \in Receipts, RegisterReceipt(c, r) PROVE TypeOK'
  <2>1. PICK t \in Tasks, k \in Keys, e \in Epochs, s \in {"completed", "rejected"} :
          receipt' = [receipt EXCEPT ![r] = [state |-> s, task |-> t, key |-> k, epoch |-> e]]
    BY <1>15 DEF RegisterReceipt
  <2>2. [state |-> s, task |-> t, key |-> k, epoch |-> e] \in ReceiptRow
    BY DEF ReceiptRow, Epochs
  <2>3. receipt' \in [Receipts -> ReceiptRow]
    BY <2>1, <2>2 DEF TypeOK
  <2>. QED BY <1>15, <2>3 DEF RegisterReceipt, TypeOK
<1>16. ASSUME NEW c \in Callers, NEW t \in Tasks, NEW r \in Receipts, CompleteTask(c, t, r)
       PROVE  TypeOK'
  <2>1. r \in Evidence /\ "completed" \in States
    BY DEF Evidence, States, Terminal
  <2>2. RowAfter(t, "completed", r) \in TaskRow
    BY <2>1, AfterType
  <2>3. [RowAfter(t, "completed", r) EXCEPT !.receipt = r] \in TaskRow
    BY <2>2 DEF TaskRow
  <2>. QED BY <1>16, <2>1, <2>3, AfterType, MarkedGrantType, MarkedLeaseType
           DEF CompleteTask, CompletedRow, TypeOK
<1>17. ASSUME NEW c \in Callers, Abort(c) PROVE TypeOK'
  BY <1>17 DEF Abort, TypeOK
<1>. QED
  BY <1>0, <1>1, <1>2, <1>3, <1>4, <1>5, <1>6, <1>7, <1>8, <1>9, <1>10, <1>11, <1>12,
     <1>13, <1>14, <1>15, <1>16, <1>17 DEF Next, Step

-----------------------------------------------------------------------------
(* How one step may change one task *)

Same(t) == task'[t] = task[t] /\ log'[t] = log[t]

Moves(t, to, ev) ==
  /\ log'[t] = Append(log[t], [from |-> task[t].state, to |-> to, evidence |-> ev])
  /\ task'[t] = [task[t] EXCEPT !.state = to]

Created(t) ==
  /\ task[t].state = "none"
  /\ log'[t] = Append(log[t], [from |-> "none", to |-> "proposed", evidence |-> None])
  /\ \E c \in Callers :
       /\ call[c].op = "create_task"
       /\ task'[t] = [state |-> "proposed", key |-> call[c].key,
                      epoch |-> call[c].epoch, receipt |-> None]

Claimed(t) ==
  /\ Owned(t)
  /\ \E to \in Allowed(task[t].state), claim \in Claims : Moves(t, to, claim)

Granted(t) ==
  /\ Owned(t)
  /\ \E g \in Grants :
       /\ grant[g].state # "none"
       /\ grant[g].task = t
       /\ lease'[g].state = "active"
       /\ \/ task[t].state = "approved" /\ Moves(t, "dispatched", g)
          \/ task[t].state = "dispatched" /\ Moves(t, "running", g)

Loses(t) ==
  /\ task[t].state \in Held
  /\ \E g \in Grants :
       /\ grant[g].state # "none"
       /\ grant[g].task = t
       /\ lease'[g].state \in {"revoked", "expired"}
       /\ Moves(t, "unknown", g)

Completed(t) ==
  /\ Owned(t)
  /\ task[t].state \in {"running", "unknown"}
  /\ \E r \in Receipts :
       /\ ReceiptFits(r, t)
       /\ receipt'[r] = receipt[r]
       /\ log'[t] = Append(log[t], [from |-> task[t].state, to |-> "completed", evidence |-> r])
       /\ task'[t] = [[task[t] EXCEPT !.state = "completed"] EXCEPT !.receipt = r]
  /\ \A g \in Grants : grant'[g].task = t => grant'[g].state \notin {"accepted", "active"}

\* The dispatch that an acceptance records is not on record yet.
LEMMA DispatchIsNew ==
  ASSUME IInv, NEW t \in Tasks, NEW g, task[t].state \in Early
  PROVE  ~Recorded(t, "dispatched", g)
  BY DEF IInv, HistorySound, Recorded

\* Nor is the loss that the end of a lease records.
LEMMA LossIsNew ==
  ASSUME IInv, NEW t \in Tasks, NEW g \in Grants, lease[g].state \in {"issued", "active"}
  PROVE  ~Recorded(t, "unknown", g)
  BY DEF IInv, EvidenceSound, Recorded

\* Nor is the completion that complete_task records.
LEMMA CompletionIsNew ==
  ASSUME IInv, NEW t \in Tasks, NEW r, task[t].state \notin Terminal
  PROVE  ~Recorded(t, "completed", r)
<1>1. SUFFICES ASSUME NEW i \in DOMAIN log[t], log[t][i].to = "completed" PROVE FALSE
  BY DEF Recorded
<1>2. i = Len(log[t])
  BY <1>1 DEF IInv, HistorySound, Terminal
<1>3. log[t] \in Seq(Transition) /\ log[t] # <<>>
  BY <1>1 DEF IInv, TypeOK
<1>4. log[t][Len(log[t])].to = task[t].state
  BY <1>3 DEF IInv, MaterializedState, LeadsTo
<1>5. QED
  BY <1>1, <1>2, <1>4 DEF Terminal

\* All a step can do to a task is one of the changes named above.
LEMMA TaskStep ==
  ASSUME IInv, [Next]_vars, NEW t \in Tasks
  PROVE  Same(t) \/ Created(t) \/ Claimed(t) \/ Granted(t) \/ Loses(t) \/ Completed(t)
<1> USE DEF Same
<1>t. TypeOK /\ GrantsSound
  BY DEF IInv
<1>0. CASE UNCHANGED vars
  BY <1>0 DEF vars
<1>1. ASSUME NEW c \in Callers, IssueEpochCheck(c) PROVE Same(t)
  BY <1>1 DEF IssueEpochCheck
<1>2. ASSUME NEW c \in Callers, IssueEpochCommit(c) PROVE Same(t)
  BY <1>2 DEF IssueEpochCommit
<1>3. ASSUME NEW c \in Callers, NEW x \in Executors, DeclareCapability(c, x) PROVE Same(t)
  BY <1>3 DEF DeclareCapability
<1>4. ASSUME NEW c \in Callers, NEW u \in Tasks, NEW k \in Keys, CreateTaskCheck(c, u, k)
      PROVE  Same(t)
  BY <1>4 DEF CreateTaskCheck
<1>5. ASSUME NEW c \in Callers, CreateTaskCommit(c) PROVE Same(t) \/ Created(t)
  <2>1. call[c] \in TaskCall
    BY <1>t, <1>5 DEF CreateTaskCommit, TypeOK, Idle, EpochCall, TaskCall, GrantCall
  <2>2. CASE t = call[c].task
    <3>1. log[t] = <<>>
      BY <1>5, <2>2 DEF CreateTaskCommit, IInv, TasksSound
    <3>2. ~Recorded(t, "proposed", None)
      BY <3>1 DEF Recorded
    <3>. QED BY <1>t, <1>5, <2>2, <3>2 DEF CreateTaskCommit, Created, LogAfter, TypeOK
  <2>3. CASE t # call[c].task
    BY <1>t, <1>5, <2>3 DEF CreateTaskCommit, TypeOK
  <2>. QED BY <2>2, <2>3
<1>6. ASSUME NEW c \in Callers, NEW u \in Tasks, NEW to \in States, NEW claim \in Claims,
             TransitionTask(c, u, to, claim)
      PROVE  Same(t) \/ Claimed(t)
  BY <1>t, <1>6 DEF TransitionTask, AppendTransition, RowAfter, LogAfter, TypeOK, Claimed, Moves
<1>7. ASSUME NEW c \in Callers, NEW u \in Tasks, NEW claim \in Claims,
             ApproveTask(c, u, claim)
      PROVE  Same(t) \/ Claimed(t)
  BY <1>6, <1>7 DEF ApproveTask, States
<1>8. ASSUME NEW c \in Callers, NEW g \in Grants, NEW u \in Tasks, NEW x \in Executors,
             NEW expires \in Times, IssueGrantCheck(c, g, u, x, expires)
      PROVE  Same(t)
  BY <1>8 DEF IssueGrantCheck
<1>9. ASSUME NEW c \in Callers, IssueGrantCommit(c) PROVE Same(t)
  BY <1>9 DEF IssueGrantCommit
<1>10. ASSUME NEW c \in Callers, NEW g \in Grants, NEW at \in Times, AcceptGrant(c, g, at)
       PROVE  Same(t) \/ Granted(t)
  <2>1. CASE grant[g].task = t
    <3>1. Owned(t) /\ task[t].state = "approved" /\ grant[g].state = "issued"
      BY <1>t, <1>10, <2>1 DEF AcceptGrant, Acceptable, Live, Owned, GrantsSound
    <3>2. ~Recorded(t, "dispatched", g)
      BY <3>1, DispatchIsNew DEF Early
    <3>3. lease'[g].state = "active"
      BY <1>t, <1>10 DEF AcceptGrant, TypeOK, LeaseRow
    <3>4. Moves(t, "dispatched", g)
      BY <1>t, <1>10, <2>1, <3>2
         DEF AcceptGrant, AppendTransition, RowAfter, LogAfter, Moves, TypeOK
    <3>. QED BY <2>1, <3>1, <3>3, <3>4 DEF Granted
  <2>2. CASE grant[g].task # t
    BY <1>t, <1>10, <2>2 DEF AcceptGrant, AppendTransition, TypeOK
  <2>. QED BY <2>1, <2>2
<1>11. ASSUME NEW c \in Callers, NEW g \in Grants, NEW at \in Times, StartTask(c, g, at)
       PROVE  Same(t) \/ Granted(t)
  <2>1. CASE grant[g].task = t /\ ~Recorded(t, "running", g)
    <3>1. Owned(t) /\ task[t].state = "dispatched" /\ grant[g].state = "accepted"
      BY <1>t, <1>11, <2>1 DEF StartTask, Live, Owned, GrantsSound
    <3>2. lease'[g].state = "active"
      BY <1>11 DEF StartTask
    <3>3. Moves(t, "running", g)
      BY <1>t, <1>11, <2>1
         DEF StartTask, AppendTransition, RowAfter, LogAfter, Moves, TypeOK
    <3>. QED BY <2>1, <3>1, <3>2, <3>3 DEF Granted
  <2>2. CASE grant[g].task # t \/ Recorded(t, "running", g)
    BY <1>t, <1>11, <2>2 DEF StartTask, AppendTransition, RowAfter, LogAfter, TypeOK
  <2>. QED BY <2>1, <2>2
<1>12. ASSUME NEW c \in Callers, NEW g \in Grants, NEW at \in Times, Heartbeat(c, g, at)
       PROVE  Same(t)
  BY <1>12 DEF Heartbeat
<1>13. ASSUME NEW now \in Times, ExpireLeases(now)
       PROVE  Same(t) \/ Loses(t)
  <2> DEFINE due == Due(now)
  <2>1. PICK first \in [Lost(due) -> due] :
          /\ \A u \in Lost(due) : grant[first[u]].task = u
          /\ task' = [u \in Tasks |->
               IF u \in Lost(due) THEN RowAfter(u, "unknown", first[u]) ELSE task[u]]
          /\ log' = [u \in Tasks |->
               IF u \in Lost(due) THEN LogAfter(u, "unknown", first[u]) ELSE log[u]]
    BY <1>13 DEF ExpireLeases
  <2>2. CASE t \in Lost(due)
    <3> DEFINE g == first[t]
    <3>1. g \in due /\ grant[g].task = t /\ task[t].state \in Held
      BY <2>1, <2>2 DEF Lost
    <3>2. g \in Grants /\ lease[g].state \in {"issued", "active"}
      BY <3>1 DEF Due
    <3>3. ~Recorded(t, "unknown", g)
      BY <3>2, LossIsNew
    <3>4. Moves(t, "unknown", g)
      BY <2>1, <2>2, <3>3 DEF Moves, RowAfter, LogAfter
    <3>5. lease'[g].state = "expired"
      BY <1>t, <1>13, <3>1, <3>2 DEF ExpireLeases, Marked, TypeOK, LeaseRow
    <3>6. grant[g].state # "none"
      BY <3>2 DEF IInv, GrantLeaseCoupled
    <3>. QED BY <3>1, <3>2, <3>4, <3>5, <3>6 DEF Loses
  <2>3. CASE t \notin Lost(due)
    BY <2>1, <2>3
  <2>. QED BY <2>2, <2>3
<1>14. ASSUME NEW c \in Callers, NEW g \in Grants, RevokeLease(c, g)
       PROVE  Same(t) \/ Loses(t)
  <2>1. CASE grant[g].task = t /\ t \in Lost({g})
    <3>1. task[t].state \in Held /\ lease[g].state \in {"issued", "active"}
      BY <1>14, <2>1 DEF RevokeLease, Lost
    <3>2. ~Recorded(t, "unknown", g)
      BY <3>1, LossIsNew
    <3>3. Moves(t, "unknown", g)
      BY <1>t, <1>14, <2>1, <3>2
         DEF RevokeLease, AppendTransition, RowAfter, LogAfter, Moves, TypeOK
    <3>4. lease'[g].state = "revoked"
      BY <1>t, <1>14 DEF RevokeLease, Marked, TypeOK, LeaseRow
    <3>5. grant[g].state # "none"
      BY <3>1 DEF IInv, GrantLeaseCoupled
    <3>. QED BY <2>1, <3>1, <3>3, <3>4, <3>5 DEF Loses
  <2>2. CASE grant[g].task # t \/ t \notin Lost({g})
    BY <1>t, <1>14, <2>2 DEF RevokeLease, AppendTransition, TypeOK
  <2>. QED BY <2>1, <2>2
<1>15. ASSUME NEW c \in Callers, NEW r \in Receipts, RegisterReceipt(c, r) PROVE Same(t)
  BY <1>15 DEF RegisterReceipt
<1>16. ASSUME NEW c \in Callers, NEW u \in Tasks, NEW r \in Receipts, CompleteTask(c, u, r)
       PROVE  Same(t) \/ Completed(t)
  <2>1. CASE u = t
    <3>1. ~Recorded(t, "completed", r)
      BY <1>16, <2>1, CompletionIsNew DEF CompleteTask, Terminal
    <3>2. ASSUME NEW g \in Grants, grant'[g].task = t
          PROVE  grant'[g].state \notin {"accepted", "active"}
      BY <1>t, <1>16, <2>1, <3>2 DEF CompleteTask, Marked, TypeOK, GrantRow
    <3>. QED BY <1>t, <1>16, <2>1, <3>1, <3>2
             DEF CompleteTask, CompletedRow, RowAfter, LogAfter, Completed, TypeOK
  <2>2. CASE u # t
    BY <1>t, <1>16, <2>2 DEF CompleteTask, TypeOK
  <2>. QED BY <2>1, <2>2
<1>17. ASSUME NEW c \in Callers, Abort(c) PROVE Same(t)
  BY <1>17 DEF Abort
<1>. QED
  BY <1>0, <1>1, <1>2, <1>3, <1>4, <1>5, <1>6, <1>7, <1>8, <1>9, <1>10, <1>11, <1>12,
     <1>13, <1>14, <1>15, <1>16, <1>17 DEF Next, Step

-----------------------------------------------------------------------------
(* How one step may change one grant and its lease *)

GSame(g) == grant'[g] = grant[g] /\ lease'[g] = lease[g]

Issued(g) ==
  /\ grant[g].state = "none"
  /\ \E c \in Callers :
       /\ call[c].op = "issue_grant"
       /\ grant'[g] = [state |-> "issued", task |-> call[c].task, epoch |-> call[c].epoch,
                       executor |-> call[c].executor]
       /\ lease'[g] = [state |-> "issued", expires |-> call[c].expires, beat |-> 0]

Accepts(g) ==
  /\ grant[g].state = "issued"
  /\ task[grant[g].task].state = "approved"
  /\ grant[g].epoch = current
  /\ task'[grant[g].task].state = "dispatched"
  /\ grant'[g] = [grant[g] EXCEPT !.state = "accepted"]
  /\ \E at \in Times : lease'[g] = [[lease[g] EXCEPT !.state = "active"] EXCEPT !.beat = at]
  /\ \A h \in Grants \ {g} : GSame(h)

Starts(g) ==
  /\ grant[g].state = "accepted"
  /\ grant[g].epoch = current
  /\ grant'[g] = [grant[g] EXCEPT !.state = "active"]
  /\ lease'[g] = lease[g]

Beats(g) ==
  /\ lease[g].state = "active"
  /\ grant[g].epoch = current
  /\ grant'[g] = grant[g]
  /\ \E at \in Times : lease'[g] = [lease[g] EXCEPT !.beat = at]

Ends(g) ==
  /\ lease[g].state \in {"issued", "active"}
  /\ \E s \in {"revoked", "expired"} :
       /\ grant'[g] = [grant[g] EXCEPT !.state = s]
       /\ lease'[g] = [lease[g] EXCEPT !.state = s]
  /\ task[grant[g].task].state \in Held => task'[grant[g].task].state = "unknown"

Closes(g) ==
  /\ grant[g].state \in {"accepted", "active"}
  /\ grant[g].epoch = current
  /\ grant'[g] = [grant[g] EXCEPT !.state = "completed"]
  /\ lease'[g] = [lease[g] EXCEPT !.state = "released"]
  /\ task'[grant[g].task].state = "completed"

\* All a step can do to a grant and its lease is one of the changes named above.
LEMMA GrantStep ==
  ASSUME IInv, [Next]_vars, NEW g \in Grants
  PROVE  GSame(g) \/ Issued(g) \/ Accepts(g) \/ Starts(g) \/ Beats(g) \/ Ends(g) \/ Closes(g)
<1>t. TypeOK /\ GrantsSound
  BY DEF IInv
<1>0. CASE UNCHANGED vars
  BY <1>0 DEF vars, GSame
<1>1. ASSUME NEW c \in Callers, IssueEpochCheck(c) PROVE GSame(g)
  BY <1>1 DEF IssueEpochCheck, GSame
<1>2. ASSUME NEW c \in Callers, IssueEpochCommit(c) PROVE GSame(g)
  BY <1>2 DEF IssueEpochCommit, GSame
<1>3. ASSUME NEW c \in Callers, NEW x \in Executors, DeclareCapability(c, x) PROVE GSame(g)
  BY <1>3 DEF DeclareCapability, GSame
<1>4. ASSUME NEW c \in Callers, NEW t \in Tasks, NEW k \in Keys, CreateTaskCheck(c, t, k)
      PROVE  GSame(g)
  BY <1>4 DEF CreateTaskCheck, GSame
<1>5. ASSUME NEW c \in Callers, CreateTaskCommit(c) PROVE GSame(g)
  BY <1>5 DEF CreateTaskCommit, GSame
<1>6. ASSUME NEW c \in Callers, NEW t \in Tasks, NEW to \in States, NEW claim \in Claims,
             TransitionTask(c, t, to, claim)
      PROVE  GSame(g)
  BY <1>6 DEF TransitionTask, GSame
<1>7. ASSUME NEW c \in Callers, NEW t \in Tasks, NEW claim \in Claims,
             ApproveTask(c, t, claim)
      PROVE  GSame(g)
  BY <1>7 DEF ApproveTask, TransitionTask, GSame
<1>8. ASSUME NEW c \in Callers, NEW h \in Grants, NEW t \in Tasks, NEW x \in Executors,
             NEW expires \in Times, IssueGrantCheck(c, h, t, x, expires)
      PROVE  GSame(g)
  BY <1>8 DEF IssueGrantCheck, GSame
<1>9. ASSUME NEW c \in Callers, IssueGrantCommit(c) PROVE GSame(g) \/ Issued(g)
  BY <1>t, <1>9 DEF IssueGrantCommit, GSame, Issued, TypeOK
<1>10. ASSUME NEW c \in Callers, NEW h \in Grants, NEW at \in Times, AcceptGrant(c, h, at)
       PROVE  GSame(g) \/ Accepts(g)
  <2>1. CASE h = g
    <3>1. /\ grant[g].state = "issued"
          /\ task[grant[g].task].state = "approved"
          /\ grant[g].epoch = current
          /\ grant[g].task \in Tasks
      BY <1>t, <1>10, <2>1 DEF AcceptGrant, Acceptable, Live, GrantsSound
    <3>2. ~Recorded(grant[g].task, "dispatched", g)
      BY <3>1, DispatchIsNew DEF Early
    <3>3. task'[grant[g].task].state = "dispatched"
      BY <1>t, <1>10, <2>1, <3>1, <3>2
         DEF AcceptGrant, AppendTransition, RowAfter, TypeOK, TaskRow
    <3>4. /\ grant'[g] = [grant[g] EXCEPT !.state = "accepted"]
          /\ lease'[g] = [[lease[g] EXCEPT !.state = "active"] EXCEPT !.beat = at]
          /\ \A f \in Grants \ {g} : GSame(f)
      BY <1>t, <1>10, <2>1 DEF AcceptGrant, TypeOK, GSame
    <3>. QED BY <3>1, <3>3, <3>4 DEF Accepts
  <2>2. CASE h # g
    BY <1>t, <1>10, <2>2 DEF AcceptGrant, TypeOK, GSame
  <2>. QED BY <2>1, <2>2
<1>11. ASSUME NEW c \in Callers, NEW h \in Grants, NEW at \in Times, StartTask(c, h, at)
       PROVE  GSame(g) \/ Starts(g)
  BY <1>t, <1>11 DEF StartTask, Live, TypeOK, GSame, Starts
<1>12. ASSUME NEW c \in Callers, NEW h \in Grants, NEW at \in Times, Heartbeat(c, h, at)
       PROVE  GSame(g) \/ Beats(g)
  BY <1>t, <1>12 DEF Heartbeat, Live, TypeOK, GSame, Beats
<1>13. ASSUME NEW now \in Times, ExpireLeases(now)
       PROVE  GSame(g) \/ Ends(g)
  <2> DEFINE due == Due(now)
  <2>1. CASE g \notin due
    BY <1>13, <2>1 DEF ExpireLeases, Marked, GSame
  <2>2. CASE g \in due
    <3>1. lease[g].state \in {"issued", "active"}
      BY <2>2 DEF Due
    <3>2. grant[g].state \notin {"none", "completed", "revoked"}
      BY <3>1 DEF IInv, GrantLeaseCoupled
    <3>3. /\ grant'[g] = [grant[g] EXCEPT !.state = "expired"]
          /\ lease'[g] = [lease[g] EXCEPT !.state = "expired"]
      BY <1>13, <2>2, <3>2 DEF ExpireLeases, Marked
    <3>4. ASSUME task[grant[g].task].state \in Held
          PROVE  task'[grant[g].task].state = "unknown"
      <4> DEFINE t == grant[g].task
      <4>1. t \in Tasks
        BY <1>t, <3>2 DEF GrantsSound
      <4>2. t \in Lost(due)
        BY <2>2, <3>4, <4>1 DEF Lost
      <4>3. PICK first \in [Lost(due) -> due] :
              task' = [u \in Tasks |->
                IF u \in Lost(due) THEN RowAfter(u, "unknown", first[u]) ELSE task[u]]
        BY <1>13 DEF ExpireLeases
      <4>4. first[t] \in Grants /\ lease[first[t]].state \in {"issued", "active"}
        BY <4>2, <4>3 DEF Due
      <4>5. ~Recorded(t, "unknown", first[t])
        BY <4>1, <4>4, LossIsNew
      <4>. QED BY <1>t, <4>1, <4>2, <4>3, <4>5 DEF RowAfter, TypeOK, TaskRow
    <3>. QED BY <3>1, <3>3, <3>4 DEF Ends
  <2>. QED BY <2>1, <2>2
<1>14. ASSUME NEW c \in Callers, NEW h \in Grants, RevokeLease(c, h)
       PROVE  GSame(g) \/ Ends(g)
  <2>1. CASE h # g
    BY <1>14, <2>1 DEF RevokeLease, Marked, GSame
  <2>2. CASE h = g
    <3>1. lease[g].state \in {"issued", "active"}
      BY <1>14, <2>2 DEF RevokeLease
    <3>2. grant[g].state # "none"
      BY <3>1 DEF IInv, GrantLeaseCoupled
    <3>3. /\ grant'[g] = [grant[g] EXCEPT !.state = "revoked"]
          /\ lease'[g] = [lease[g] EXCEPT !.state = "revoked"]
      BY <1>14, <2>2 DEF RevokeLease, Marked
    <3>4. ASSUME task[grant[g].task].state \in Held
          PROVE  task'[grant[g].task].state = "unknown"
      <4>1. grant[g].task \in Tasks
        BY <1>t, <3>2 DEF GrantsSound
      <4>2. grant[g].task \in Lost({g})
        BY <3>4, <4>1 DEF Lost
      <4>3. ~Recorded(grant[g].task, "unknown", g)
        BY <3>1, <4>1, LossIsNew
      <4>. QED BY <1>t, <1>14, <2>2, <4>1, <4>2, <4>3
               DEF RevokeLease, AppendTransition, RowAfter, TypeOK, TaskRow
    <3>. QED BY <3>1, <3>3, <3>4 DEF Ends
  <2>. QED BY <2>1, <2>2
<1>15. ASSUME NEW c \in Callers, NEW r \in Receipts, RegisterReceipt(c, r) PROVE GSame(g)
  BY <1>15 DEF RegisterReceipt, GSame
<1>16. ASSUME NEW c \in Callers, NEW t \in Tasks, NEW r \in Receipts, CompleteTask(c, t, r)
       PROVE  GSame(g) \/ Closes(g)
  <2>1. CASE grant[g].task = t /\ grant[g].state \in {"accepted", "active"}
    <3>1. ~Recorded(t, "completed", r)
      BY <1>16, CompletionIsNew DEF CompleteTask, Terminal
    <3>2. task'[t].state = "completed"
      BY <1>t, <1>16, <3>1 DEF CompleteTask, CompletedRow, RowAfter, TypeOK, TaskRow
    <3>3. grant[g].epoch = current
      BY <1>t, <1>16, <2>1 DEF CompleteTask, Owned, GrantsSound
    <3>. QED BY <1>16, <2>1, <3>2, <3>3 DEF CompleteTask, Marked, Closes
  <2>2. CASE ~(grant[g].task = t /\ grant[g].state \in {"accepted", "active"})
    BY <1>16, <2>2 DEF CompleteTask, Marked, GSame
  <2>. QED BY <2>1, <2>2
<1>17. ASSUME NEW c \in Callers, Abort(c) PROVE GSame(g)
  BY <1>17 DEF Abort, GSame
<1>. QED
  BY <1>0, <1>1, <1>2, <1>3, <1>4, <1>5, <1>6, <1>7, <1>8, <1>9, <1>10, <1>11, <1>12,
     <1>13, <1>14, <1>15, <1>16, <1>17 DEF Next, Step

-----------------------------------------------------------------------------
(* How one step may change the epochs, a pending call or a receipt *)

Promotes ==
  /\ current + 1 \in Epochs
  /\ current' = current + 1
  /\ epoch' = [e \in Epochs |->
                 CASE e = current + 1 -> "active"
                   [] e = current /\ epoch[e] = "active" -> "retired"
                   [] OTHER -> epoch[e]]

\* Epochs change by a promotion only.
LEMMA EpochStep ==
  ASSUME IInv, [Next]_vars
  PROVE  UNCHANGED <<epoch, current>> \/ Promotes
<1>t. TypeOK /\ CallsSound /\ EpochsInLine
  BY DEF IInv
<1>1. ASSUME NEW c \in Callers, IssueEpochCommit(c) PROVE Promotes
  <2> DEFINE n == call[c].epoch
  <2>1. call[c] \in EpochCall
    BY <1>t, <1>1 DEF IssueEpochCommit, TypeOK, Idle, EpochCall, TaskCall, GrantCall
  <2>2. n \in Epochs /\ n <= current + 1 /\ current \in Nat
    <3>1. n \in Epochs
      BY <2>1 DEF EpochCall
    <3>2. n <= current + 1
      BY <1>t, <1>1 DEF CallsSound, IssueEpochCommit
    <3>3. current \in Nat
      BY <1>t, BoundAssumption DEF TypeOK
    <3>. QED BY <3>1, <3>2, <3>3
  <2>3. epoch[n] = "none"
    BY <1>1 DEF IssueEpochCommit, EpochFree
  <2>4. ~(n < current) /\ n # current
    BY <1>t, <2>2, <2>3 DEF EpochsInLine
  <2>5. n = current + 1
    BY <2>2, <2>4, BoundAssumption DEF Epochs
  <2>6. \A e \in Epochs : e + 1 = n <=> e = current
    BY <2>2, <2>5, BoundAssumption DEF Epochs
  <2>7. epoch' = [e \in Epochs |->
                 CASE e = n -> "active"
                   [] e + 1 = n /\ epoch[e] = "active" -> "retired"
                   [] OTHER -> epoch[e]] /\ current' = n
    BY <1>1 DEF IssueEpochCommit
  <2>. QED BY <2>2, <2>5, <2>6, <2>7 DEF Promotes
<1>2. ASSUME NEW c \in Callers,
             \/ IssueEpochCheck(c)
             \/ \E r \in Receipts : RegisterReceipt(c, r)
             \/ \E x \in Executors : DeclareCapability(c, x)
             \/ \E t \in Tasks, k \in Keys : CreateTaskCheck(c, t, k)
             \/ CreateTaskCommit(c) \/ IssueGrantCommit(c) \/ Abort(c)
             \/ \E t \in Tasks, to \in States, claim \in Claims : TransitionTask(c, t, to, claim)
             \/ \E t \in Tasks, claim \in Claims : ApproveTask(c, t, claim)
             \/ \E g \in Grants, t \in Tasks, x \in Executors, expires \in Times :
                  IssueGrantCheck(c, g, t, x, expires)
             \/ \E g \in Grants, at \in Times :
                  AcceptGrant(c, g, at) \/ StartTask(c, g, at) \/ Heartbeat(c, g, at)
             \/ \E g \in Grants : RevokeLease(c, g)
             \/ \E t \in Tasks, r \in Receipts : CompleteTask(c, t, r)
      PROVE  UNCHANGED <<epoch, current>>
  BY <1>2 DEF IssueEpochCheck, DeclareCapability, CreateTaskCheck,
     CreateTaskCommit, TransitionTask, ApproveTask, IssueGrantCheck, IssueGrantCommit,
     AcceptGrant, StartTask, Heartbeat, RevokeLease, RegisterReceipt, CompleteTask, Abort
<1>3. CASE UNCHANGED vars \/ \E now \in Times : ExpireLeases(now)
  BY <1>3 DEF vars, ExpireLeases
<1>. QED
  BY <1>1, <1>2, <1>3 DEF Next, Step

\* The current epoch never goes back.
LEMMA EpochRises ==
  ASSUME IInv, [Next]_vars
  PROVE  current \in Nat /\ current' \in Nat /\ current <= current'
<1>1. current \in Nat
  BY BoundAssumption DEF IInv, TypeOK
<1>2. QED
  BY <1>1, EpochStep DEF Promotes

\* A call newly under way has just seen the epoch it is for.
Begun(c) ==
  /\ current' = current
  /\ \/ call'[c] \in EpochCall /\ call'[c].epoch = current + 1
     \/ call'[c] \in TaskCall /\ call'[c].epoch = current /\ current # 0
     \/ call'[c] \in GrantCall /\ call'[c].epoch = current /\ Owned(call'[c].task)

\* A caller's pending call is kept, dropped, or one whose checks just passed.
LEMMA CallStep ==
  ASSUME IInv, [Next]_vars, NEW c \in Callers
  PROVE  call'[c] = call[c] \/ call'[c] = Idle \/ Begun(c)
<1>t. TypeOK
  BY DEF IInv
<1>0. CASE UNCHANGED vars \/ \E now \in Times : ExpireLeases(now)
  BY <1>0 DEF vars, ExpireLeases
<1>1. ASSUME NEW d \in Callers, IssueEpochCheck(d) PROVE call'[c] = call[c] \/ Begun(c)
  <2>1. [op |-> "issue_epoch", epoch |-> current + 1] \in EpochCall
    BY <1>t, <1>1, BoundAssumption DEF IssueEpochCheck, TypeOK, EpochCall, Epochs
  <2>. QED BY <1>t, <1>1, <2>1 DEF IssueEpochCheck, TypeOK, Begun
<1>2. ASSUME NEW d \in Callers, NEW t \in Tasks, NEW k \in Keys, CreateTaskCheck(d, t, k)
      PROVE  call'[c] = call[c] \/ Begun(c)
  <2>1. [op |-> "create_task", task |-> t, key |-> k, epoch |-> current] \in TaskCall
    BY <1>t, <1>2, BoundAssumption DEF CreateTaskCheck, TypeOK, TaskCall, Epochs
  <2>. QED BY <1>t, <1>2, <2>1 DEF CreateTaskCheck, TypeOK, Begun
<1>3. ASSUME NEW d \in Callers, NEW g \in Grants, NEW t \in Tasks, NEW x \in Executors,
             NEW expires \in Times, IssueGrantCheck(d, g, t, x, expires)
      PROVE  call'[c] = call[c] \/ Begun(c)
  <2>1. [op |-> "issue_grant", grant |-> g, task |-> t, epoch |-> current,
         executor |-> x, expires |-> expires] \in GrantCall
    BY <1>t, <1>3, BoundAssumption DEF IssueGrantCheck, TypeOK, GrantCall, Epochs
  <2>. QED BY <1>t, <1>3, <2>1 DEF IssueGrantCheck, Grantable, TypeOK, Begun
<1>4. ASSUME NEW d \in Callers,
             IssueEpochCommit(d) \/ CreateTaskCommit(d) \/ IssueGrantCommit(d) \/ Abort(d)
      PROVE  call'[c] = call[c] \/ call'[c] = Idle
  BY <1>t, <1>4 DEF IssueEpochCommit, CreateTaskCommit, IssueGrantCommit, Abort, TypeOK
<1>5. ASSUME NEW d \in Callers,
             \/ \E x \in Executors : DeclareCapability(d, x)
             \/ \E t \in Tasks, to \in States, claim \in Claims : TransitionTask(d, t, to, claim)
             \/ \E t \in Tasks, claim \in Claims : ApproveTask(d, t, claim)
             \/ \E g \in Grants, at \in Times :
                  AcceptGrant(d, g, at) \/ StartTask(d, g, at) \/ Heartbeat(d, g, at)
             \/ \E g \in Grants : RevokeLease(d, g)
             \/ \E r \in Receipts : RegisterReceipt(d, r)
             \/ \E t \in Tasks, r \in Receipts : CompleteTask(d, t, r)
      PROVE  call' = call
  BY <1>5 DEF DeclareCapability, TransitionTask, ApproveTask, AcceptGrant, StartTask,
     Heartbeat, RevokeLease, RegisterReceipt, CompleteTask
<1>. QED
  BY <1>0, <1>1, <1>2, <1>3, <1>4, <1>5 DEF Next, Step

\* A registered receipt is never overwritten.
LEMMA ReceiptStep ==
  ASSUME IInv, [Next]_vars, NEW r \in Receipts, receipt[r].state # "none"
  PROVE  receipt'[r] = receipt[r]
<1>1. ASSUME NEW c \in Callers, NEW q \in Receipts, RegisterReceipt(c, q)
      PROVE  receipt'[r] = receipt[r]
  BY <1>1 DEF RegisterReceipt, IInv, TypeOK
<1>2. ASSUME NEW c \in Callers,
             \/ IssueEpochCheck(c) \/ IssueEpochCommit(c)
             \/ \E x \in Executors : DeclareCapability(c, x)
             \/ \E t \in Tasks, k \in Keys : CreateTaskCheck(c, t, k)
             \/ CreateTaskCommit(c) \/ IssueGrantCommit(c) \/ Abort(c)
             \/ \E t \in Tasks, to \in States, claim \in Claims : TransitionTask(c, t, to, claim)
             \/ \E t \in Tasks, claim \in Claims : ApproveTask(c, t, claim)
             \/ \E g \in Grants, t \in Tasks, x \in Executors, expires \in Times :
                  IssueGrantCheck(c, g, t, x, expires)
             \/ \E g \in Grants, at \in Times :
                  AcceptGrant(c, g, at) \/ StartTask(c, g, at) \/ Heartbeat(c, g, at)
             \/ \E g \in Grants : RevokeLease(c, g)
             \/ \E t \in Tasks, q \in Receipts : CompleteTask(c, t, q)
      PROVE  receipt' = receipt
  BY <1>2 DEF IssueEpochCheck, IssueEpochCommit, DeclareCapability,
     CreateTaskCheck, CreateTaskCommit, TransitionTask, ApproveTask, IssueGrantCheck,
     IssueGrantCommit, AcceptGrant, StartTask, Heartbeat, RevokeLease, CompleteTask, Abort
<1>3. CASE UNCHANGED vars \/ \E now \in Times : ExpireLeases(now)
  BY <1>3 DEF vars, ExpireLeases
<1>. QED
  BY <1>1, <1>2, <1>3 DEF Next, Step
=============================================================================
