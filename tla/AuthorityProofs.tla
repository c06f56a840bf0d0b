--------------------------- MODULE AuthorityProofs ---------------------------
(***************************************************************************)
(* Authority keeps its invariants and implements TaskLifecycle, for every  *)
(* set of tasks, keys, grants, executors, receipts, claims and callers.    *)
(* IInv is the inductive invariant; each of its parts is shown to survive  *)
(* a step by a lemma of its own, from the step lemmas of AuthoritySteps.   *)
(***************************************************************************)
EXTENDS AuthoritySteps

-----------------------------------------------------------------------------
(* What is known of every task, grant and pending call *)

\* The states a grant can hold a task in.
LEMMA InHeld == Held = {"dispatched", "running"}
  BY DEF Held

\* A task keeps its row, its key and its epoch, and once handed out is never
\* again in an early state.
LEMMA TaskKept ==
  ASSUME IInv, [Next]_vars, NEW t \in Tasks, task[t].state # "none"
  PROVE  /\ task'[t].state # "none"
         /\ task'[t].key = task[t].key
         /\ task'[t].epoch = task[t].epoch
         /\ task[t].state \notin Early => task'[t].state \notin Early
<1>1. task[t] \in TaskRow
  BY DEF IInv, TypeOK
<1>2. QED
  BY <1>1, TaskStep DEF Same, Created, Claimed, Granted, Loses, Completed, Moves, Allowed,
     Early, TaskRow, Terminal, Held

\* A grant keeps its row, its task and its epoch.
LEMMA GrantKept ==
  ASSUME IInv, [Next]_vars, NEW g \in Grants, grant[g].state # "none"
  PROVE  /\ grant'[g].state # "none"
         /\ grant'[g].task = grant[g].task
         /\ grant'[g].epoch = grant[g].epoch
<1>1. grant[g] \in GrantRow
  BY DEF IInv, TypeOK
<1>2. CASE GSame(g) \/ Issued(g) \/ Beats(g)
  BY <1>2 DEF GSame, Issued, Beats
<1>3. CASE Accepts(g) \/ Starts(g)
  BY <1>1, <1>3 DEF Accepts, Starts, GrantRow
<1>4. CASE Ends(g) \/ Closes(g)
  BY <1>1, <1>4 DEF Ends, Closes, GrantRow
<1>. QED BY <1>2, <1>3, <1>4, GrantStep

\* The arguments of a pending call are of their types.
LEMMA CallTypes ==
  ASSUME TypeOK, NEW c \in Callers
  PROVE  /\ call[c].op = "issue_epoch" => call[c] \in EpochCall
         /\ call[c].op = "create_task" => call[c] \in TaskCall
         /\ call[c].op = "issue_grant" => call[c] \in GrantCall
<1>1. call[c] \in {Idle} \cup EpochCall \cup TaskCall \cup GrantCall
  BY DEF TypeOK
<1>2. Idle.op = "idle"
  BY DEF Idle
<1>3. /\ \A m \in EpochCall : m.op = "issue_epoch"
      /\ \A m \in TaskCall : m.op = "create_task"
      /\ \A m \in GrantCall : m.op = "issue_grant"
  BY DEF EpochCall, TaskCall, GrantCall
<1>. QED BY <1>1, <1>2, <1>3

-----------------------------------------------------------------------------
(* Each part of the invariant survives a step *)

\* The insert finds the epoch free, so the check it rests on still holds.
LEMMA EpochsInLineStep == ASSUME IInv, [Next]_vars PROVE EpochsInLine'
<1>1. EpochsInLine /\ current \in Nat /\ \A e \in Epochs : e \in Nat
  BY BoundAssumption DEF IInv, TypeOK, Epochs
<1>2. CASE UNCHANGED <<epoch, current>>
  BY <1>1, <1>2 DEF EpochsInLine
<1>3. CASE Promotes
  BY <1>1, <1>3 DEF Promotes, EpochsInLine
<1>. QED BY <1>2, <1>3, EpochStep

\* What a pending call has checked survives the steps of other callers.
LEMMA CallsSoundStep == ASSUME IInv, [Next]_vars PROVE CallsSound'
<1>1. SUFFICES ASSUME NEW c \in Callers
               PROVE  /\ call'[c].op = "issue_epoch" => call'[c].epoch <= current' + 1
                      /\ call'[c].op = "create_task" => call'[c].epoch \in 1..current'
                      /\ call'[c].op = "issue_grant" =>
                           /\ task'[call'[c].task].state # "none"
                           /\ task'[call'[c].task].epoch = call'[c].epoch
  BY DEF CallsSound
<1>2. current \in Nat /\ current' \in Nat /\ current <= current'
  BY EpochRises
<1>3. CASE call'[c] = call[c]
  <2>1. TypeOK /\ CallsSound
    BY DEF IInv
  <2>2. call[c].op = "issue_epoch" => call[c].epoch \in Nat
    BY <2>1, CallTypes, BoundAssumption DEF EpochCall, Epochs
  <2>3. call[c].op = "issue_grant" => call[c].task \in Tasks
    BY <2>1, CallTypes DEF GrantCall
  <2>4. call[c].op = "issue_epoch" => call[c].epoch <= current' + 1
    BY <1>2, <2>1, <2>2 DEF CallsSound
  <2>5. call[c].op = "create_task" => call[c].epoch \in 1..current'
    BY <1>2, <2>1 DEF CallsSound
  <2>6. call[c].op = "issue_grant" =>
           /\ task'[call[c].task].state # "none"
           /\ task'[call[c].task].epoch = call[c].epoch
    BY <2>1, <2>3, TaskKept DEF CallsSound
  <2>. QED BY <1>3, <2>4, <2>5, <2>6
<1>4. CASE call'[c] = Idle
  BY <1>4 DEF Idle
<1>5. CASE Begun(c)
  <2>1. CASE call'[c] \in EpochCall /\ call'[c].epoch = current + 1
    BY <1>2, <1>5, <2>1 DEF EpochCall, Begun
  <2>2. CASE call'[c] \in TaskCall /\ call'[c].epoch = current /\ current # 0
    BY <1>2, <1>5, <2>2 DEF TaskCall, Begun
  <2>3. CASE call'[c] \in GrantCall /\ call'[c].epoch = current /\ Owned(call'[c].task)
    <3>1. call'[c].op = "issue_grant" /\ call'[c].task \in Tasks
      BY <2>3 DEF GrantCall
    <3>. QED BY <2>3, <3>1, TaskKept DEF Owned
  <2>. QED BY <1>5, <2>1, <2>2, <2>3 DEF Begun
<1>. QED BY <1>3, <1>4, <1>5, CallStep

\* A task is taken in under an epoch issued before.
LEMMA TasksSoundStep == ASSUME IInv, [Next]_vars PROVE TasksSound'
<1>1. SUFFICES ASSUME NEW t \in Tasks
               PROVE  IF task'[t].state = "none"
                      THEN log'[t] = <<>> /\ task'[t].receipt = None
                      ELSE task'[t].epoch \in 1..current'
  BY DEF TasksSound
<1>2. current \in Nat /\ current' \in Nat /\ current <= current'
  BY EpochRises
<1>3. CASE task[t].state # "none"
  <2>1. task[t].epoch \in 1..current
    BY <1>3 DEF IInv, TasksSound
  <2>. QED BY <1>2, <1>3, <2>1, TaskKept
<1>4. CASE task[t].state = "none"
  <2>1. log[t] = <<>> /\ task[t].receipt = None
    BY <1>4 DEF IInv, TasksSound
  <2>2. CASE Same(t)
    BY <1>4, <2>1, <2>2 DEF Same
  <2>3. CASE Created(t)
    BY <1>2, <2>3 DEF Created, IInv, CallsSound
  <2>4. ~Claimed(t) /\ ~Granted(t) /\ ~Loses(t) /\ ~Completed(t)
    BY <1>4 DEF Claimed, Granted, Loses, Completed, Owned, Held
  <2>. QED BY <2>2, <2>3, <2>4, TaskStep
<1>. QED BY <1>3, <1>4

\* A grant is issued for the task and the epoch its check saw.
LEMMA GrantsSoundStep == ASSUME IInv, [Next]_vars PROVE GrantsSound'
<1>1. SUFFICES ASSUME NEW g \in Grants, grant'[g].state # "none"
               PROVE  /\ grant'[g].task \in Tasks
                      /\ task'[grant'[g].task].state # "none"
                      /\ grant'[g].epoch = task'[grant'[g].task].epoch
  BY DEF GrantsSound
<1>2. CASE grant[g].state # "none"
  <2>1. /\ grant[g].task \in Tasks
        /\ task[grant[g].task].state # "none"
        /\ grant[g].epoch = task[grant[g].task].epoch
    BY <1>2 DEF IInv, GrantsSound
  <2>. QED BY <1>2, <2>1, GrantKept, TaskKept
<1>3. CASE grant[g].state = "none"
  <2>1. Issued(g)
    <3>1. lease[g].state = "none"
      BY <1>3 DEF IInv, GrantLeaseCoupled
    <3>. QED BY <1>1, <1>3, <3>1, GrantStep DEF GSame, Accepts, Starts, Beats, Ends, Closes
  <2>2. PICK c \in Callers :
          /\ call[c].op = "issue_grant"
          /\ grant'[g] = [state |-> "issued", task |-> call[c].task, epoch |-> call[c].epoch,
                          executor |-> call[c].executor]
    BY <2>1 DEF Issued
  <2>3. call[c].task \in Tasks
    BY <2>2, CallTypes DEF IInv, GrantCall
  <2>4. /\ task[call[c].task].state # "none"
        /\ task[call[c].task].epoch = call[c].epoch
    BY <2>2 DEF IInv, CallsSound
  <2>. QED BY <2>2, <2>3, <2>4, TaskKept
<1>. QED BY <1>2, <1>3

\* Whatever changes a grant's state changes its lease's with it.
LEMMA GrantLeaseCoupledStep == ASSUME IInv, [Next]_vars PROVE GrantLeaseCoupled'
<1>1. SUFFICES ASSUME NEW g \in Grants
               PROVE  lease'[g].state =
                        CASE grant'[g].state \in {"accepted", "active"} -> "active"
                          [] grant'[g].state = "completed"              -> "released"
                          [] OTHER                                      -> grant'[g].state
  BY DEF GrantLeaseCoupled
<1>2. /\ grant[g] \in GrantRow
      /\ lease[g] \in LeaseRow
      /\ lease[g].state =
                        CASE grant[g].state \in {"accepted", "active"} -> "active"
                          [] grant[g].state = "completed"              -> "released"
                          [] OTHER                                     -> grant[g].state
  BY DEF IInv, TypeOK, GrantLeaseCoupled
<1>3. CASE GSame(g)
  BY <1>2, <1>3 DEF GSame
<1>4. CASE Issued(g)
  BY <1>2, <1>4 DEF Issued
<1>5. CASE Accepts(g)
  BY <1>2, <1>5 DEF Accepts, GrantRow, LeaseRow
<1>6. CASE Starts(g)
  BY <1>2, <1>6 DEF Starts, GrantRow
<1>7. CASE Beats(g)
  BY <1>2, <1>7 DEF Beats, LeaseRow
<1>8. CASE Ends(g)
  BY <1>2, <1>8 DEF Ends, GrantRow, LeaseRow
<1>9. CASE Closes(g)
  BY <1>2, <1>9 DEF Closes, GrantRow, LeaseRow
<1>. QED BY <1>3, <1>4, <1>5, <1>6, <1>7, <1>8, <1>9, GrantStep

\* Acceptance takes a task out of the early states, which it never re-enters.
LEMMA AcceptanceSoundStep == ASSUME IInv, [Next]_vars PROVE AcceptanceSound'
<1>1. SUFFICES ASSUME NEW g \in Grants
               PROVE  /\ lease'[g].beat # 0 =>
                           /\ grant'[g].state \notin {"none", "issued"}
                           /\ task'[grant'[g].task].state \notin Early
                      /\ grant'[g].state \in {"accepted", "active", "completed"}
                           => lease'[g].beat # 0
  BY DEF AcceptanceSound, Accepted
<1>2. /\ grant[g] \in GrantRow
      /\ lease[g] \in LeaseRow
      /\ lease[g].beat # 0 => /\ grant[g].state \notin {"none", "issued"}
                              /\ task[grant[g].task].state \notin Early
      /\ grant[g].state \in {"accepted", "active", "completed"} => lease[g].beat # 0
  BY DEF IInv, TypeOK, AcceptanceSound, Accepted
<1>3. lease[g].beat # 0 => /\ grant'[g].task = grant[g].task
                           /\ task'[grant'[g].task].state \notin Early
  <2>1. grant[g].state # "none" => grant[g].task \in Tasks /\ task[grant[g].task].state # "none"
    BY DEF IInv, GrantsSound
  <2>. QED BY <1>2, <2>1, GrantKept, TaskKept
<1>t. \A at \in Times : at # 0
  BY BoundAssumption DEF Times
<1>4. CASE GSame(g)
  BY <1>2, <1>3, <1>4 DEF GSame
<1>5. CASE Issued(g)
  BY <1>5 DEF Issued
<1>6. CASE Accepts(g)
  <2>1. lease'[g].beat # 0 /\ grant'[g].state = "accepted" /\ grant'[g].task = grant[g].task
    BY <1>2, <1>6, <1>t DEF Accepts, GrantRow, LeaseRow
  <2>. QED BY <1>6, <2>1 DEF Accepts, Early
<1>7. CASE Starts(g)
  BY <1>2, <1>3, <1>7 DEF Starts, GrantRow
<1>8. CASE Beats(g)
  <2>1. grant[g].state \in {"accepted", "active"}
    BY <1>2, <1>8 DEF Beats, IInv, GrantLeaseCoupled, GrantRow
  <2>2. lease'[g].beat # 0
    BY <1>2, <1>8, <1>t DEF Beats, LeaseRow
  <2>. QED BY <1>2, <1>3, <1>8, <2>1, <2>2 DEF Beats
<1>9. CASE Ends(g)
  BY <1>2, <1>3, <1>9 DEF Ends, GrantRow, LeaseRow
<1>10. CASE Closes(g)
  BY <1>2, <1>3, <1>10 DEF Closes, GrantRow, LeaseRow
<1>. QED BY <1>4, <1>5, <1>6, <1>7, <1>8, <1>9, <1>10, GrantStep

\* A grant whose acceptance is on record belongs to a task that can no longer be
\* accepted for, so a second acceptance finds no task left.
LEMMA OneExecutorStep == ASSUME IInv, [Next]_vars PROVE OneExecutor'
<1>1. SUFFICES ASSUME NEW g \in Grants, NEW h \in Grants, g # h,
                      lease'[g].beat # 0, lease'[h].beat # 0,
                      grant'[g].task = grant'[h].task
               PROVE  FALSE
  BY DEF OneExecutor, Accepted
<1>2. ASSUME NEW f \in Grants, lease'[f].beat # 0
      PROVE  \/ Accepts(f)
             \/ /\ lease[f].beat # 0
                /\ grant'[f].task = grant[f].task
                /\ task[grant[f].task].state \notin Early
  <2>1. /\ grant[f] \in GrantRow
        /\ lease[f] \in LeaseRow
        /\ lease[f].beat # 0 => /\ grant[f].state \notin {"none", "issued"}
                                /\ task[grant[f].task].state \notin Early
        /\ grant[f].state \in {"accepted", "active", "completed"} => lease[f].beat # 0
    BY DEF IInv, TypeOK, AcceptanceSound, Accepted
  <2>2. lease[f].beat # 0 => grant'[f].task = grant[f].task
    BY <2>1, GrantKept
  <2>3. lease[f].state = "active" => grant[f].state \in {"accepted", "active"}
    BY <2>1 DEF IInv, GrantLeaseCoupled, GrantRow
  <2>4. Accepts(f) \/ lease[f].beat # 0
    <3>1. CASE GSame(f) \/ Starts(f)
      BY <1>2, <3>1 DEF GSame, Starts
    <3>2. CASE Beats(f)
      BY <2>1, <2>3, <3>2 DEF Beats
    <3>5. CASE Issued(f)
      BY <1>2, <3>5 DEF Issued
    <3>3. CASE Ends(f)
      BY <1>2, <2>1, <3>3 DEF Ends, LeaseRow
    <3>4. CASE Closes(f)
      BY <2>1, <3>4 DEF Closes
    <3>. QED BY <3>1, <3>2, <3>3, <3>4, <3>5, GrantStep
  <2>. QED BY <2>1, <2>2, <2>4
<1>3. ASSUME NEW f \in Grants, Accepts(f)
      PROVE  /\ task[grant'[f].task].state = "approved"
             /\ \A e \in Grants \ {f} : ~Accepts(e)
  <2>1. grant[f] \in GrantRow /\ \A e \in Grants : grant[e] \in GrantRow
    BY DEF IInv, TypeOK
  <2>2. grant'[f].task = grant[f].task
    BY <1>3, <2>1 DEF Accepts, GrantRow
  <2>3. \A e \in Grants \ {f} : grant'[e] = grant[e]
    BY <1>3 DEF Accepts, GSame
  <2>4. \A e \in Grants : Accepts(e) => grant[e].state = "issued" /\ grant'[e].state = "accepted"
    BY <2>1 DEF Accepts, GrantRow
  <2>. QED BY <1>3, <2>2, <2>3, <2>4 DEF Accepts
<1>4. CASE Accepts(g) \/ Accepts(h)
  BY <1>1, <1>2, <1>3, <1>4 DEF Early
<1>5. CASE ~Accepts(g) /\ ~Accepts(h)
  BY <1>1, <1>2, <1>5 DEF IInv, OneExecutor, Accepted
<1>. QED BY <1>4, <1>5

-----------------------------------------------------------------------------
(* Histories *)

\* Every change of a task appends one move to its history, that leaves the state
\* the task was in, by a move the table allows.
AppendsMove(t, to, ev) ==
  /\ log'[t] = Append(log[t], [from |-> task[t].state, to |-> to, evidence |-> ev])
  /\ task'[t].state = to
  /\ to \in Allowed(task[t].state)

LEMMA HistoryStep ==
  ASSUME IInv, [Next]_vars, NEW t \in Tasks
  PROVE  \/ Same(t)
         \/ \E to \in States, ev \in Evidence :
              /\ AppendsMove(t, to, ev)
              /\ ev \in Grants =>
                   /\ grant[ev].state # "none"
                   /\ grant[ev].task = t
                   /\ to = "unknown" => lease'[ev].state \in {"revoked", "expired"}
                   /\ to \in Held => lease'[ev].state = "active"
<1>1. task[t] \in TaskRow
  BY DEF IInv, TypeOK
<1>2. CASE Created(t)
  <2>1. AppendsMove(t, "proposed", None)
    BY <1>2 DEF Created, AppendsMove, Allowed
  <2>2. None \notin Grants /\ None \in Evidence /\ "proposed" \in States
    BY NoneAssumption DEF Evidence, States
  <2>. QED BY <2>1, <2>2
<1>3. CASE Claimed(t)
  <2>1. PICK to \in Allowed(task[t].state), claim \in Claims : Moves(t, to, claim)
    BY <1>3 DEF Claimed
  <2>2. AppendsMove(t, to, claim)
    BY <1>1, <2>1 DEF Moves, AppendsMove, TaskRow
  <2>3. claim \notin Grants /\ claim \in Evidence /\ to \in States
    BY <2>1, EvidenceAssumption DEF Evidence, States, Allowed, Terminal, Held
  <2>. QED BY <2>2, <2>3
<1>4. CASE Granted(t)
  <2>1. PICK g \in Grants :
          /\ grant[g].state # "none"
          /\ grant[g].task = t
          /\ lease'[g].state = "active"
          /\ \/ task[t].state = "approved" /\ Moves(t, "dispatched", g)
             \/ task[t].state = "dispatched" /\ Moves(t, "running", g)
    BY <1>4 DEF Granted
  <2>2. AppendsMove(t, "dispatched", g) \/ AppendsMove(t, "running", g)
    BY <1>1, <2>1 DEF Moves, AppendsMove, TaskRow, Allowed
  <2>3. g \in Evidence /\ "dispatched" \in States /\ "running" \in States
    BY DEF Evidence, States, Held
  <2>. QED BY <2>1, <2>2, <2>3
<1>5. CASE Loses(t)
  <2>1. PICK g \in Grants :
          /\ grant[g].state # "none"
          /\ grant[g].task = t
          /\ lease'[g].state \in {"revoked", "expired"}
          /\ Moves(t, "unknown", g)
    BY <1>5 DEF Loses
  <2>2. AppendsMove(t, "unknown", g)
    BY <1>1, <1>5, <2>1 DEF Loses, Moves, AppendsMove, TaskRow, Allowed, Held
  <2>3. g \in Evidence /\ "unknown" \in States /\ "unknown" \notin Held
    BY DEF Evidence, States, Held
  <2>. QED BY <2>1, <2>2, <2>3
<1>6. CASE Completed(t)
  <2>1. PICK r \in Receipts :
          /\ log'[t] = Append(log[t], [from |-> task[t].state, to |-> "completed", evidence |-> r])
          /\ task'[t] = [[task[t] EXCEPT !.state = "completed"] EXCEPT !.receipt = r]
    BY <1>6 DEF Completed
  <2>2. AppendsMove(t, "completed", r)
    BY <1>1, <1>6, <2>1 DEF Completed, AppendsMove, TaskRow, Allowed, Terminal
  <2>3. r \notin Grants /\ r \in Evidence /\ "completed" \in States
    BY EvidenceAssumption DEF Evidence, States, Terminal
  <2>. QED BY <2>2, <2>3
<1>. QED BY <1>2, <1>3, <1>4, <1>5, <1>6, TaskStep

\* What appending one element does to a sequence.
LEMMA Appended ==
  ASSUME NEW S, NEW s \in Seq(S), NEW e \in S
  PROVE  /\ Append(s, e) \in Seq(S)
         /\ Append(s, e) # <<>>
         /\ Len(Append(s, e)) = Len(s) + 1
         /\ Append(s, e)[Len(s) + 1] = e
         /\ \A i \in DOMAIN s : i \in DOMAIN Append(s, e) /\ Append(s, e)[i] = s[i]
         /\ \A i \in DOMAIN Append(s, e) : i \in DOMAIN s \/ i = Len(s) + 1
  OBVIOUS

\* The move a step appends is a transition.
LEMMA MoveType ==
  ASSUME TypeOK, NEW t \in Tasks, NEW to \in States, NEW ev \in Evidence
  PROVE  /\ [from |-> task[t].state, to |-> to, evidence |-> ev] \in Transition
         /\ log[t] \in Seq(Transition)
  BY DEF TypeOK, TaskRow, Transition

\* A move is appended from the state the task is in.
LEMMA MaterializedStateStep == ASSUME IInv, [Next]_vars PROVE MaterializedState'
<1>1. SUFFICES ASSUME NEW t \in Tasks PROVE LeadsTo(log'[t], task'[t].state)
  BY DEF MaterializedState
<1>2. LeadsTo(log[t], task[t].state)
  BY DEF IInv, MaterializedState
<1>3. ASSUME NEW to \in States, NEW ev \in Evidence, AppendsMove(t, to, ev)
      PROVE  LeadsTo(log'[t], task'[t].state)
  <2> DEFINE m == [from |-> task[t].state, to |-> to, evidence |-> ev]
             h == log[t]
  <2>1. m \in Transition /\ h \in Seq(Transition)
    BY MoveType DEF IInv
  <2>2. log'[t] = Append(h, m) /\ task'[t].state = to /\ m.to = to /\ m.from = task[t].state
    BY <1>3 DEF AppendsMove
  <2> HIDE DEF m, h
  <2>3. LeadsTo(h, m.from) => LeadsTo(Append(h, m), m.to)
    BY <2>1 DEF LeadsTo
  <2>. QED BY <1>2, <2>2, <2>3 DEF h
<1>. QED BY <1>2, <1>3, HistoryStep DEF Same

\* Nothing follows a terminal move, and only a dispatch records a dispatch.
LEMMA HistorySoundStep == ASSUME IInv, [Next]_vars PROVE HistorySound'
<1>1. SUFFICES ASSUME NEW t \in Tasks, NEW i \in DOMAIN log'[t]
               PROVE  /\ task'[t].state \in Early => log'[t][i].to # "dispatched"
                      /\ log'[t][i].to \in Terminal => i = Len(log'[t])
  BY DEF HistorySound
<1>2. \A j \in DOMAIN log[t] :
        /\ task[t].state \in Early => log[t][j].to # "dispatched"
        /\ log[t][j].to \in Terminal => j = Len(log[t])
  BY DEF IInv, HistorySound
<1>3. ASSUME NEW to \in States, NEW ev \in Evidence, AppendsMove(t, to, ev)
      PROVE  /\ task'[t].state \in Early => log'[t][i].to # "dispatched"
             /\ log'[t][i].to \in Terminal => i = Len(log'[t])
  <2> DEFINE m == [from |-> task[t].state, to |-> to, evidence |-> ev]
             h == log[t]
  <2>1. m \in Transition /\ h \in Seq(Transition)
    BY MoveType DEF IInv
  <2>2. log'[t] = Append(h, m) /\ task'[t].state = to /\ m.to = to
    BY <1>3 DEF AppendsMove
  <2>3. task[t].state \notin Terminal /\ (to \in Early => task[t].state \in Early)
    BY <1>3 DEF AppendsMove, Allowed, Terminal, Early
  <2>4. \A j \in DOMAIN h : h[j].to \notin Terminal
    <3>1. SUFFICES ASSUME NEW j \in DOMAIN h, h[j].to \in Terminal PROVE FALSE
      OBVIOUS
    <3>2. j = Len(h) /\ h # <<>>
      BY <1>2, <2>1, <3>1
    <3>3. h[Len(h)].to = task[t].state
      BY <3>2 DEF IInv, MaterializedState, LeadsTo
    <3>. QED BY <2>3, <3>1, <3>2, <3>3
  <2> HIDE DEF m, h
  <2>5. /\ Len(Append(h, m)) = Len(h) + 1
        /\ Append(h, m)[Len(h) + 1] = m
        /\ \A j \in DOMAIN h : Append(h, m)[j] = h[j]
        /\ i \in DOMAIN h \/ i = Len(h) + 1
    BY <1>1, <2>1, <2>2, Appended
  <2>6. CASE i = Len(h) + 1
    BY <2>2, <2>5, <2>6 DEF Early
  <2>7. CASE i \in DOMAIN h
    BY <1>2, <2>2, <2>3, <2>4, <2>5, <2>7 DEF h
  <2>. QED BY <2>5, <2>6, <2>7
<1>. QED BY <1>1, <1>2, <1>3, HistoryStep DEF Same

\* A second dispatch would start from an early state, where none is recorded.
LEMMA DispatchedOnceStep == ASSUME IInv, [Next]_vars PROVE DispatchedOnce'
<1>1. SUFFICES ASSUME NEW t \in Tasks, NEW i \in DOMAIN log'[t], NEW j \in DOMAIN log'[t],
                      log'[t][i].to = "dispatched", log'[t][j].to = "dispatched"
               PROVE  i = j
  BY DEF DispatchedOnce
<1>2. \A a, b \in DOMAIN log[t] :
        log[t][a].to = "dispatched" /\ log[t][b].to = "dispatched" => a = b
  BY DEF IInv, DispatchedOnce
<1>3. ASSUME NEW to \in States, NEW ev \in Evidence, AppendsMove(t, to, ev)
      PROVE  i = j
  <2> DEFINE m == [from |-> task[t].state, to |-> to, evidence |-> ev]
             h == log[t]
  <2>1. m \in Transition /\ h \in Seq(Transition)
    BY MoveType DEF IInv
  <2>2. log'[t] = Append(h, m) /\ m.to = to
    BY <1>3 DEF AppendsMove
  <2>3. to = "dispatched" => \A a \in DOMAIN h : h[a].to # "dispatched"
    <3>1. to = "dispatched" => task[t].state \in Early
      BY <1>3 DEF AppendsMove, Allowed, Early, Terminal
    <3>. QED BY <3>1 DEF IInv, HistorySound
  <2> HIDE DEF m, h
  <2>4. /\ Append(h, m)[Len(h) + 1] = m
        /\ \A a \in DOMAIN h : Append(h, m)[a] = h[a]
        /\ i \in DOMAIN h \/ i = Len(h) + 1
        /\ j \in DOMAIN h \/ j = Len(h) + 1
    BY <1>1, <2>1, <2>2, Appended
  <2>. QED BY <1>1, <1>2, <2>2, <2>3, <2>4 DEF h
<1>. QED BY <1>1, <1>2, <1>3, HistoryStep DEF Same

\* A lost lease stays lost.
LEMMA LostStaysLost ==
  ASSUME IInv, [Next]_vars, NEW g \in Grants,
         lease[g].state \in {"released", "revoked", "expired"}
  PROVE  GSame(g)
<1>1. grant[g].state \in {"completed", "revoked", "expired"}
  BY DEF IInv, TypeOK, GrantLeaseCoupled, GrantRow
<1>2. QED
  BY <1>1, GrantStep DEF Issued, Accepts, Starts, Beats, Ends, Closes

\* Only the end of a lease records its loss.
LEMMA EvidenceSoundStep == ASSUME IInv, [Next]_vars PROVE EvidenceSound'
<1>1. SUFFICES ASSUME NEW t \in Tasks, NEW i \in DOMAIN log'[t], log'[t][i].evidence \in Grants
               PROVE  /\ grant'[log'[t][i].evidence].state # "none"
                      /\ grant'[log'[t][i].evidence].task = t
                      /\ log'[t][i].to = "unknown"
                           => lease'[log'[t][i].evidence].state \in {"revoked", "expired"}
  BY DEF EvidenceSound
<1>2. ASSUME NEW a \in DOMAIN log[t], log[t][a].evidence \in Grants
      PROVE  /\ grant'[log[t][a].evidence].state # "none"
             /\ grant'[log[t][a].evidence].task = t
             /\ log[t][a].to = "unknown"
                  => lease'[log[t][a].evidence].state \in {"revoked", "expired"}
  <2>1. /\ grant[log[t][a].evidence].state # "none"
        /\ grant[log[t][a].evidence].task = t
        /\ log[t][a].to = "unknown"
             => lease[log[t][a].evidence].state \in {"revoked", "expired"}
    BY <1>2 DEF IInv, EvidenceSound
  <2>. QED BY <1>2, <2>1, GrantKept, LostStaysLost DEF GSame
<1>3. ASSUME NEW to \in States, NEW ev \in Evidence, AppendsMove(t, to, ev),
             ev \in Grants => /\ grant[ev].state # "none"
                              /\ grant[ev].task = t
                              /\ to = "unknown" => lease'[ev].state \in {"revoked", "expired"}
      PROVE  /\ grant'[log'[t][i].evidence].state # "none"
             /\ grant'[log'[t][i].evidence].task = t
             /\ log'[t][i].to = "unknown"
                  => lease'[log'[t][i].evidence].state \in {"revoked", "expired"}
  <2> DEFINE m == [from |-> task[t].state, to |-> to, evidence |-> ev]
             h == log[t]
  <2>1. m \in Transition /\ h \in Seq(Transition)
    BY MoveType DEF IInv
  <2>2. log'[t] = Append(h, m) /\ m.to = to /\ m.evidence = ev
    BY <1>3 DEF AppendsMove
  <2>3. ev \in Grants => grant'[ev].state # "none" /\ grant'[ev].task = t
    BY <1>3, GrantKept
  <2> HIDE DEF m, h
  <2>4. /\ Append(h, m)[Len(h) + 1] = m
        /\ \A a \in DOMAIN h : Append(h, m)[a] = h[a]
        /\ i \in DOMAIN h \/ i = Len(h) + 1
    BY <1>1, <2>1, <2>2, Appended
  <2>5. CASE i = Len(h) + 1
    BY <1>1, <1>3, <2>2, <2>3, <2>4, <2>5
  <2>6. CASE i \in DOMAIN h
    BY <1>1, <1>2, <2>2, <2>4, <2>6 DEF h
  <2>. QED BY <2>4, <2>5, <2>6
<1>. QED BY <1>1, <1>2, <1>3, HistoryStep DEF Same

\* The end of a lease takes the task it holds along.
LEMMA HeldUnderLeaseStep == ASSUME IInv, [Next]_vars PROVE HeldUnderLease'
<1>1. SUFFICES ASSUME NEW t \in Tasks, task'[t].state \in Held,
                      log'[t][Len(log'[t])].evidence \in Grants
               PROVE  lease'[log'[t][Len(log'[t])].evidence].state = "active"
  BY DEF HeldUnderLease
<1>2. CASE Same(t)
  <2> DEFINE g == log[t][Len(log[t])].evidence
  <2>1. task[t].state \in Held /\ g \in Grants
    BY <1>1, <1>2 DEF Same
  <2>2. lease[g].state = "active"
    BY <2>1 DEF IInv, HeldUnderLease
  <2>3. log[t] \in Seq(Transition) /\ log[t] # <<>>
    BY <2>1 DEF IInv, TypeOK, MaterializedState, LeadsTo, Held
  <2>4. Len(log[t]) \in DOMAIN log[t]
    BY <2>3
  <2>5. grant[g].task = t
    BY <2>1, <2>4 DEF IInv, EvidenceSound
  <2>6. ~Ends(g) /\ ~Closes(g)
    BY <1>2, <2>1, <2>5 DEF Ends, Closes, Same, Held
  <2>7. lease[g] \in LeaseRow /\ grant[g].state # "none"
    BY <2>1, <2>2 DEF IInv, TypeOK, GrantLeaseCoupled
  <2>8. lease'[g].state = "active"
    BY <2>1, <2>2, <2>6, <2>7, GrantStep DEF GSame, Issued, Accepts, Starts, Beats, LeaseRow
  <2>. QED BY <1>2, <2>8 DEF Same
<1>3. ASSUME NEW to \in States, NEW ev \in Evidence, AppendsMove(t, to, ev),
             ev \in Grants /\ to \in Held => lease'[ev].state = "active"
      PROVE  lease'[log'[t][Len(log'[t])].evidence].state = "active"
  <2> DEFINE m == [from |-> task[t].state, to |-> to, evidence |-> ev]
  <2>1. m \in Transition /\ log[t] \in Seq(Transition)
    BY MoveType DEF IInv
  <2>2. log'[t] = Append(log[t], m) /\ task'[t].state = to /\ m.evidence = ev
    BY <1>3 DEF AppendsMove
  <2> HIDE DEF m
  <2>3. log'[t][Len(log'[t])] = m
    BY <2>1, <2>2, Appended
  <2>. QED BY <1>1, <1>3, <2>2, <2>3
<1>. QED BY <1>2, <1>3, HistoryStep

\* Completed is terminal and receipts are kept, so what backs a completion stays.
LEMMA ReceiptBacksCompletionStep == ASSUME IInv, [Next]_vars PROVE ReceiptBacksCompletion'
<1>1. SUFFICES ASSUME NEW t \in Tasks, task'[t].receipt # None
               PROVE  /\ task'[t].state = "completed"
                      /\ [state |-> "completed", task |-> t, key |-> task'[t].key,
                          epoch |-> task'[t].epoch] = receipt'[task'[t].receipt]
                      /\ \A g \in Grants : grant'[g].task = t
                           => grant'[g].state \notin {"accepted", "active"}
  BY DEF ReceiptBacksCompletion
<1>t. task[t] \in TaskRow /\ \A r \in Receipts : receipt[r] \in ReceiptRow
  BY DEF IInv, TypeOK
<1>2. CASE Completed(t)
  <2>1. PICK r \in Receipts :
          /\ ReceiptFits(r, t)
          /\ receipt'[r] = receipt[r]
          /\ task'[t] = [[task[t] EXCEPT !.state = "completed"] EXCEPT !.receipt = r]
    BY <1>2 DEF Completed
  <2>2. /\ task'[t].state = "completed" /\ task'[t].receipt = r
        /\ task'[t].key = task[t].key /\ task'[t].epoch = task[t].epoch
    BY <1>t, <2>1 DEF TaskRow
  <2>3. receipt[r] = [state |-> "completed", task |-> t, key |-> task[t].key,
                      epoch |-> task[t].epoch]
    BY <1>t, <2>1 DEF ReceiptFits, ReceiptRow
  <2>. QED BY <1>2, <2>1, <2>2, <2>3 DEF Completed
<1>3. CASE Created(t)
  BY <1>1, <1>3 DEF Created
<1>4. CASE Same(t) \/ Claimed(t) \/ Granted(t) \/ Loses(t)
  <2>1. task[t].receipt # None
    BY <1>1, <1>t, <1>4 DEF Same, Claimed, Granted, Loses, Moves, TaskRow
  <2>2. /\ task[t].state = "completed"
        /\ [state |-> "completed", task |-> t, key |-> task[t].key,
            epoch |-> task[t].epoch] = receipt[task[t].receipt]
        /\ \A g \in Grants : grant[g].task = t => grant[g].state \notin {"accepted", "active"}
    BY <2>1 DEF IInv, ReceiptBacksCompletion
  <2>3. Same(t)
    BY <1>4, <2>2 DEF Claimed, Granted, Loses, Allowed, Held
  <2>4. receipt'[task[t].receipt] = receipt[task[t].receipt]
    BY <1>t, <2>1, <2>2, ReceiptStep DEF TaskRow
  <2>5. ASSUME NEW g \in Grants, grant'[g].task = t
        PROVE  grant'[g].state \notin {"accepted", "active"}
    <3>1. grant[g] \in GrantRow
      BY DEF IInv, TypeOK
    <3>2. CASE GSame(g) \/ Beats(g)
      BY <2>2, <2>5, <3>2 DEF GSame, Beats
    <3>3. CASE Issued(g)
      BY <3>3 DEF Issued
    <3>4. CASE Accepts(g) \/ Starts(g)
      BY <2>2, <2>5, <3>1, <3>4 DEF Accepts, Starts, GrantRow
    <3>5. CASE Ends(g) \/ Closes(g)
      BY <3>1, <3>5 DEF Ends, Closes, GrantRow
    <3>. QED BY <3>2, <3>3, <3>4, <3>5, GrantStep
  <2>. QED BY <2>2, <2>3, <2>4, <2>5 DEF Same
<1>. QED BY <1>2, <1>3, <1>4, TaskStep

-----------------------------------------------------------------------------
(* The invariant *)

\* It holds in the empty database.
LEMMA InitIInv == Init => IInv
<1> SUFFICES ASSUME Init PROVE IInv
  OBVIOUS
<1> USE BoundAssumption
<1>1. TypeOK
  <2>1. /\ [state |-> "none", key |-> None, epoch |-> 0, receipt |-> None] \in TaskRow
        /\ [state |-> "none", task |-> None, epoch |-> 0, executor |-> None] \in GrantRow
        /\ [state |-> "none", expires |-> 0, beat |-> 0] \in LeaseRow
        /\ [state |-> "none", task |-> None, key |-> None, epoch |-> 0] \in ReceiptRow
        /\ <<>> \in Seq(Transition)
    BY DEF TaskRow, GrantRow, LeaseRow, ReceiptRow, States
  <2>. QED BY <2>1 DEF Init, TypeOK
<1>2. EpochsInLine
  BY DEF Init, EpochsInLine, Epochs
<1>3. CallsSound
  BY DEF Init, CallsSound, Idle
<1>4. TasksSound /\ GrantsSound /\ GrantLeaseCoupled
  BY DEF Init, TasksSound, GrantsSound, GrantLeaseCoupled
<1>5. AcceptanceSound /\ OneExecutor
  BY DEF Init, AcceptanceSound, OneExecutor, Accepted
<1>6. MaterializedState /\ HistorySound /\ DispatchedOnce /\ EvidenceSound
  BY DEF Init, MaterializedState, LeadsTo, HistorySound, DispatchedOnce, EvidenceSound
<1>7. HeldUnderLease /\ ReceiptBacksCompletion
  BY DEF Init, HeldUnderLease, ReceiptBacksCompletion, Held
<1>. QED BY <1>1, <1>2, <1>3, <1>4, <1>5, <1>6, <1>7 DEF IInv

\* Every step, of any caller, keeps it.
LEMMA NextIInv == IInv /\ [Next]_vars => IInv'
<1> SUFFICES ASSUME IInv, [Next]_vars PROVE IInv'
  OBVIOUS
<1>1. TypeOK' /\ EpochsInLine' /\ CallsSound' /\ TasksSound' /\ GrantsSound'
  BY TypeStep, EpochsInLineStep, CallsSoundStep, TasksSoundStep, GrantsSoundStep DEF IInv
<1>2. GrantLeaseCoupled' /\ AcceptanceSound' /\ OneExecutor'
  BY GrantLeaseCoupledStep, AcceptanceSoundStep, OneExecutorStep
<1>3. MaterializedState' /\ HistorySound' /\ DispatchedOnce'
  BY MaterializedStateStep, HistorySoundStep, DispatchedOnceStep
<1>4. EvidenceSound' /\ HeldUnderLease' /\ ReceiptBacksCompletion'
  BY EvidenceSoundStep, HeldUnderLeaseStep, ReceiptBacksCompletionStep
<1>. QED BY <1>1, <1>2, <1>3, <1>4 DEF IInv

\* The invariant holds between any two calls of AuthorityCore.
THEOREM Invariance == Spec => []IInv
  BY InitIInv, NextIInv, PTL DEF Spec

\* Every table keeps rows of its schema.
THEOREM TypeCorrect == Spec => []TypeOK
<1>1. IInv => TypeOK
  BY DEF IInv
<1>. QED BY <1>1, Invariance, PTL

\* Racing promotions never skip, repeat or fork an epoch.
THEOREM EpochsStayInLine == Spec => []EpochsInLine
<1>1. IInv => EpochsInLine
  BY DEF IInv
<1>. QED BY <1>1, Invariance, PTL

\* verify_materialized_state never finds an error in what the calls wrote.
THEOREM StateMatchesHistory == Spec => []MaterializedState
<1>1. IInv => MaterializedState
  BY DEF IInv
<1>. QED BY <1>1, Invariance, PTL

\* The rows of a grant and of its lease stay in step.
THEOREM GrantAndLeaseAgree == Spec => []GrantLeaseCoupled
<1>1. IInv => GrantLeaseCoupled
  BY DEF IInv
<1>. QED BY <1>1, Invariance, PTL

\* No two grants of a task are ever both accepted.
THEOREM SingleHandOut == Spec => []OneExecutor
<1>1. IInv => OneExecutor
  BY DEF IInv
<1>. QED BY <1>1, Invariance, PTL

\* A task is handed to an executor once in its life, whatever clients do with it.
THEOREM SingleDispatch == Spec => []DispatchedOnce
<1>1. IInv => DispatchedOnce
  BY DEF IInv
<1>. QED BY <1>1, Invariance, PTL

\* No lease is lost while the task its grant put to work still looks held.
THEOREM NoSilentLoss == Spec => []HeldUnderLease
<1>1. IInv => HeldUnderLease
  BY DEF IInv
<1>. QED BY <1>1, Invariance, PTL

\* A terminal receipt on a task is always the right one, and ends its grants.
THEOREM ReceiptsBackCompletions == Spec => []ReceiptBacksCompletion
<1>1. IInv => ReceiptBacksCompletion
  BY DEF IInv
<1>. QED BY <1>1, Invariance, PTL

-----------------------------------------------------------------------------
(* What a step may never do *)

\* Nothing of a past epoch is used again, whatever was under way at the promotion.
THEOREM Fencing == Spec => StaleEpochFenced
<1> DEFINE
  TaskFenced(t) ==
    task[t].state # "none" /\ task[t].epoch # current /\ task'[t] # task[t]
      => task[t].state \in Held /\ task'[t] = [task[t] EXCEPT !.state = "unknown"]
  LeaseFenced(g) ==
    grant[g].state # "none" /\ grant[g].epoch # current /\ lease'[g] # lease[g]
      => lease'[g].state \in {"expired", "revoked"}
<1>1. ASSUME IInv, [Next]_vars, NEW t \in Tasks PROVE TaskFenced(t)
  BY <1>1, TaskStep DEF Same, Created, Claimed, Granted, Loses, Completed, Moves, Owned
<1>2. ASSUME IInv, [Next]_vars, NEW g \in Grants PROVE LeaseFenced(g)
  <2>1. lease[g] \in LeaseRow
    BY <1>2 DEF IInv, TypeOK
  <2>2. Ends(g) => lease'[g].state \in {"expired", "revoked"}
    BY <2>1 DEF Ends, LeaseRow
  <2>. QED BY <1>2, <2>2, GrantStep DEF GSame, Issued, Accepts, Starts, Beats, Closes
<1>3. IInv /\ [Next]_vars
        => [(\A t \in Tasks : TaskFenced(t)) /\ (\A g \in Grants : LeaseFenced(g))]_vars
  BY <1>1, <1>2
<1>. QED BY <1>3, Invariance, PTL DEF Spec, StaleEpochFenced

\* No late call brings back a lease that is lost or released.
THEOREM NoRevival == Spec => NothingRevives
<1> DEFINE
  Dead(g) == lease[g].state \in {"released", "revoked", "expired"}
               => lease'[g] = lease[g] /\ grant'[g] = grant[g]
<1>1. ASSUME IInv, [Next]_vars, NEW g \in Grants PROVE Dead(g)
  BY <1>1, LostStaysLost DEF GSame
<1>2. IInv /\ [Next]_vars => [\A g \in Grants : Dead(g)]_vars
  BY <1>1
<1>. QED BY <1>2, Invariance, PTL DEF Spec, NothingRevives

-----------------------------------------------------------------------------
(* Who completed a task *)

\* No step leaves a completion without its author: a move that completes a task is
\* made on a client's claim, which sets no receipt, or on the receipt it sets, and
\* nothing moves a completed task.
LEMMA CompletionTracedStep ==
  ASSUME IInv, CompletionTraced, [Next]_vars
  PROVE  CompletionTraced'
<1> DEFINE Last(t) == log[t][Len(log[t])].evidence
           Traced(t) == IF task[t].receipt = None THEN Last(t) \in Claims
                                                  ELSE Last(t) = task[t].receipt
<1>1. SUFFICES ASSUME NEW t \in Tasks, task'[t].state = "completed" PROVE Traced(t)'
  BY DEF CompletionTraced
<1>t. task[t] \in TaskRow /\ log[t] \in Seq(Transition)
  BY DEF IInv, TypeOK
<1>2. CASE Same(t)
  BY <1>1, <1>2 DEF Same, CompletionTraced
<1>3. CASE Created(t) \/ Granted(t) \/ Loses(t)
  <2>1. CASE Created(t)
    BY <1>1, <2>1 DEF Created
  <2>2. CASE Granted(t) \/ Loses(t)
    <3>1. PICK to \in {"dispatched", "running", "unknown"}, ev \in Grants : Moves(t, to, ev)
      BY <2>2 DEF Granted, Loses
    <3>. QED BY <1>1, <1>t, <3>1 DEF Moves, TaskRow
  <2>. QED BY <1>3, <2>1, <2>2
<1>4. CASE Claimed(t)
  <2>1. PICK to \in Allowed(task[t].state), claim \in Claims : Moves(t, to, claim)
    BY <1>4 DEF Claimed
  <2>2. task[t].receipt = None
    BY <2>1 DEF IInv, ReceiptBacksCompletion, Allowed
  <2>3. Last(t)' = claim
    <3> DEFINE m == [from |-> task[t].state, to |-> to, evidence |-> claim]
    <3>1. m \in Transition
      BY <1>t, <2>1, EvidenceAssumption DEF Transition, TaskRow, Evidence, States, Allowed,
          Terminal, Held
    <3>2. log'[t] = Append(log[t], m) /\ m.evidence = claim
      BY <2>1 DEF Moves
    <3> HIDE DEF m
    <3>. QED BY <1>t, <3>1, <3>2, Appended
  <2>4. task'[t].receipt = None
    BY <1>t, <2>1, <2>2 DEF Moves, TaskRow
  <2>. QED BY <2>3, <2>4
<1>5. CASE Completed(t)
  <2>1. PICK r \in Receipts :
          /\ log'[t] = Append(log[t], [from |-> task[t].state, to |-> "completed", evidence |-> r])
          /\ task'[t] = [[task[t] EXCEPT !.state = "completed"] EXCEPT !.receipt = r]
    BY <1>5 DEF Completed
  <2>2. Last(t)' = r
    <3> DEFINE m == [from |-> task[t].state, to |-> "completed", evidence |-> r]
    <3>1. m \in Transition
      BY <1>t DEF Transition, TaskRow, Evidence, States, Terminal
    <3>2. log'[t] = Append(log[t], m) /\ m.evidence = r
      BY <2>1
    <3> HIDE DEF m
    <3>. QED BY <1>t, <3>1, <3>2, Appended
  <2>3. task'[t].receipt = r /\ r # None
    BY <1>t, <2>1, NoneAssumption DEF TaskRow
  <2>. QED BY <2>2, <2>3
<1>. QED BY <1>2, <1>3, <1>4, <1>5, TaskStep

\* Whoever completes a task, by a receipt or by hand, is on record as its author.
THEOREM CompletionsAreTraced == Spec => []CompletionTraced
<1>1. Init => CompletionTraced
  BY DEF Init, CompletionTraced
<1>2. IInv /\ CompletionTraced /\ [Next]_vars => CompletionTraced'
  BY CompletionTracedStep
<1>. QED BY <1>1, <1>2, Invariance, PTL DEF Spec

-----------------------------------------------------------------------------
(* Calls that do not overlap *)

\* The steps of the resident service are steps of the core.
LEMMA ServiceSteps == [ServiceNext]_vars => [Next]_vars
BY DEF ServiceNext, Next, Step

LEMMA ServiceIsSpec == ServiceSpec => Spec
BY ServiceSteps, PTL DEF ServiceSpec, Spec

\* The steps that only check.
Checks(c) ==
  \/ IssueEpochCheck(c)
  \/ \E t \in Tasks, k \in Keys : CreateTaskCheck(c, t, k)
  \/ \E g \in Grants, t \in Tasks, x \in Executors, expires \in Times :
       IssueGrantCheck(c, g, t, x, expires)

\* A step of one call leaves the others as they are; its own has just been checked,
\* or nothing of it is left to commit.
LEMMA CallAfter ==
  ASSUME TypeOK, NEW c \in Callers, Step(c)
  PROVE  /\ \A d \in Callers \ {c} : call'[d] = call[d]
         /\ Checks(c) \/ call'[c] = Idle
<1>1. CASE Checks(c)
  BY <1>1 DEF Checks, IssueEpochCheck, CreateTaskCheck, IssueGrantCheck, TypeOK
<1>2. CASE \/ IssueEpochCommit(c) \/ CreateTaskCommit(c) \/ IssueGrantCommit(c)
           \/ Abort(c)
  BY <1>2 DEF IssueEpochCommit, CreateTaskCommit, IssueGrantCommit, Abort, TypeOK
<1>3. CASE call[c] = Idle /\ call' = call
  BY <1>3
<1>4. Checks(c) \/ (IssueEpochCommit(c) \/ CreateTaskCommit(c) \/ IssueGrantCommit(c) \/ Abort(c))
        \/ (call[c] = Idle /\ call' = call)
  BY DEF Step, Checks, DeclareCapability, TransitionTask, ApproveTask, AcceptGrant, StartTask,
         Heartbeat, RevokeLease, RegisterReceipt, CompleteTask
<1>. QED BY <1>1, <1>2, <1>3, <1>4

\* What a call has checked at this moment is so.
LEMMA JustChecked ==
  ASSUME TypeOK, NEW c \in Callers, Checks(c)
  PROVE  /\ UNCHANGED <<current, capability, task>>
         /\ call'[c].op = "create_task" => call'[c].epoch = current
         /\ call'[c].op = "issue_grant" => /\ call'[c].epoch = current
                                           /\ Grantable(call'[c].task)
                                           /\ capability[call'[c].executor] = "fit"
<1>1. CASE IssueEpochCheck(c)
  BY <1>1 DEF IssueEpochCheck, TypeOK
<1>2. CASE \E t \in Tasks, k \in Keys : CreateTaskCheck(c, t, k)
  BY <1>2 DEF CreateTaskCheck, TypeOK
<1>3. CASE \E g \in Grants, t \in Tasks, x \in Executors, expires \in Times :
             IssueGrantCheck(c, g, t, x, expires)
  BY <1>3 DEF IssueGrantCheck, TypeOK
<1>. QED BY <1>1, <1>2, <1>3 DEF Checks

\* What calls have checked stays so: another call waits, and a tick that does not
\* moves only tasks that are handed out already.
LEMMA ChecksHoldStep ==
  ASSUME IInv, ChecksHold, [ServiceNext]_vars
  PROVE  ChecksHold'
<1>t. TypeOK
  BY DEF IInv
<1>1. CASE UNCHANGED vars
  BY <1>1 DEF vars, ChecksHold, Grantable, Owned
<1>2. ASSUME NEW c \in Callers, Alone(c), Step(c) PROVE ChecksHold'
  <2>1. \A d \in Callers \ {c} : call'[d] = Idle
    BY <1>t, <1>2, CallAfter DEF Alone
  <2>2. CASE call'[c] = Idle
    BY <2>1, <2>2 DEF ChecksHold, Idle
  <2>3. CASE Checks(c)
    <3>1. PICK k : k = call'[c]
      OBVIOUS
    <3>2. k.op = "issue_grant" => Grantable(k.task)'
      BY <1>t, <2>3, <3>1, JustChecked DEF Grantable, Owned
    <3>. QED BY <1>t, <2>1, <2>3, <3>1, <3>2, JustChecked DEF ChecksHold, Idle, Grantable, Owned
  <2>. QED BY <1>t, <1>2, <2>2, <2>3, CallAfter
<1>3. ASSUME NEW now \in Times, ExpireLeases(now) PROVE ChecksHold'
  <2>1. UNCHANGED <<current, capability, call>>
    BY <1>3 DEF ExpireLeases
  <2>2. ASSUME NEW t \in Tasks, task[t].state = "approved" PROVE task'[t] = task[t]
    BY <1>3, <2>2, InHeld DEF ExpireLeases, Lost
  <2>3. ASSUME NEW d \in Callers, call[d].op = "issue_grant" PROVE call[d].task \in Tasks
    BY <1>t, <2>3, CallTypes DEF GrantCall
  <2>4. ASSUME NEW d \in Callers, call[d].op = "issue_grant" PROVE Grantable(call[d].task)'
    <3>1. PICK t \in Tasks : t = call[d].task
      BY <2>3, <2>4
    <3>2. Grantable(t)
      BY <2>4, <3>1 DEF ChecksHold
    <3>. QED BY <2>1, <2>2, <3>1, <3>2 DEF Grantable, Owned
  <2>. QED BY <2>1, <2>4 DEF ChecksHold
<1>. QED BY <1>1, <1>2, <1>3 DEF ServiceNext

\* Where calls do not overlap, what they have checked is so until they commit.
LEMMA ChecksAlwaysHold == ServiceSpec => []ChecksHold
<1>1. Init => ChecksHold
  BY DEF Init, ChecksHold, Idle
<1>2. IInv /\ ChecksHold /\ [ServiceNext]_vars => ChecksHold'
  BY ChecksHoldStep
<1>. QED BY <1>1, <1>2, ServiceIsSpec, Invariance, PTL DEF ServiceSpec

\* What was checked and is still so is what is committed.
LEMMA CommitsAsChecked ==
  ASSUME IInv, ChecksHold, [Next]_vars
  PROVE  /\ \A t \in Tasks :
              task[t].state = "none" /\ task'[t].state # "none" => task'[t].epoch = current
         /\ \A g \in Grants :
              grant[g].state = "none" /\ grant'[g].state # "none" =>
                /\ grant'[g].epoch = current
                /\ task[grant'[g].task].state = "approved"
                /\ task[grant'[g].task].epoch = current
                /\ capability[grant'[g].executor] = "fit"
<1>1. ASSUME NEW t \in Tasks, task[t].state = "none", task'[t].state # "none"
      PROVE  task'[t].epoch = current
  <2>1. Created(t)
    BY <1>1, TaskStep, InHeld DEF Same, Claimed, Granted, Loses, Completed, Owned
  <2>. QED BY <2>1 DEF Created, ChecksHold
<1>2. ASSUME NEW g \in Grants, grant[g].state = "none", grant'[g].state # "none"
      PROVE  Issued(g)
  <2>1. lease[g].state = "none"
    BY <1>2 DEF IInv, GrantLeaseCoupled
  <2>. QED BY <1>2, <2>1, GrantStep DEF GSame, Accepts, Starts, Beats, Ends, Closes
<1>3. ASSUME NEW g \in Grants, Issued(g)
      PROVE  /\ grant'[g].epoch = current
             /\ task[grant'[g].task].state = "approved"
             /\ task[grant'[g].task].epoch = current
             /\ capability[grant'[g].executor] = "fit"
  BY <1>3 DEF Issued, ChecksHold, Grantable, Owned
<1>. QED BY <1>1, <1>2, <1>3

\* Where calls do not overlap, a late tick aside, tasks are taken in under the
\* current epoch and grants are issued as they were checked, any number of
\* connections taking turns.
THEOREM CommittedAsChecked == ServiceSpec => WorkAsChecked
<1>1. IInv /\ ChecksHold /\ [Next]_vars =>
        [/\ \A t \in Tasks :
              task[t].state = "none" /\ task'[t].state # "none" => task'[t].epoch = current
         /\ \A g \in Grants :
              grant[g].state = "none" /\ grant'[g].state # "none" =>
                /\ grant'[g].epoch = current
                /\ task[grant'[g].task].state = "approved"
                /\ task[grant'[g].task].epoch = current
                /\ capability[grant'[g].executor] = "fit"]_vars
  BY CommitsAsChecked
<1>. QED BY <1>1, ChecksAlwaysHold, ServiceIsSpec, Invariance, PTL DEF Spec, WorkAsChecked

\* The promotion between check and insert is all that lets create_task take in a
\* task under a past epoch: without overlapping calls it never does.
THEOREM NoLateIntake == ServiceSpec => IntakeUnderCurrentEpoch
<1>1. IInv /\ ChecksHold /\ [Next]_vars =>
        [\A t \in Tasks : task[t].state = "none" /\ task'[t].state # "none"
           => task'[t].epoch = current]_vars
  BY CommitsAsChecked
<1>. QED BY <1>1, ChecksAlwaysHold, ServiceIsSpec, Invariance, PTL
     DEF Spec, IntakeUnderCurrentEpoch

-----------------------------------------------------------------------------
(* The core implements the abstract life of a task *)

\* One task moves and nothing else does: an abstract move.
LEMMA MoveTo ==
  ASSUME IInv, [Next]_vars, NEW t \in Tasks, Owned(t),
         NEW to \in Allowed(task[t].state), task'[t].state = to,
         \A u \in Tasks \ {t} : task'[u] = task[u],
         current' = current
  PROVE  Lifecycle!Move(t)
<1>1. task[t].state # "none" /\ task[t].epoch = current
  BY DEF Owned
<1>2. \A u \in Tasks : task'[u].epoch = task[u].epoch
  BY <1>1, TaskKept
<1>3. [u \in Tasks |-> task'[u].state]
        = [[u \in Tasks |-> task[u].state] EXCEPT ![t] = to]
  OBVIOUS
<1>4. [u \in Tasks |-> task'[u].epoch] = [u \in Tasks |-> task[u].epoch]
  BY <1>2
<1>5. Lifecycle!Allowed([u \in Tasks |-> task[u].state][t]) = Allowed(task[t].state)
  BY DEF Allowed, Lifecycle!Allowed, Terminal, Lifecycle!Terminal
<1>. QED BY <1>1, <1>3, <1>4, <1>5 DEF Lifecycle!Move

\* One transition is appended, by a move the table allows: an abstract move.
LEMMA AppendMoves ==
  ASSUME IInv, [Next]_vars, NEW t \in Tasks, Owned(t), NEW to \in States, NEW ev,
         to \in Allowed(task[t].state),
         AppendTransition(t, to, ev), current' = current
  PROVE  [Lifecycle!Next]_(Lifecycle!vars)
<1>1. task \in [Tasks -> TaskRow]
  BY DEF IInv, TypeOK
<1>2. CASE Recorded(t, to, ev)
  <2>1. task' = task
    BY <1>1, <1>2 DEF AppendTransition, RowAfter
  <2>. QED BY <2>1 DEF Lifecycle!vars
<1>3. CASE ~Recorded(t, to, ev)
  <2>1. task'[t].state = to /\ \A u \in Tasks \ {t} : task'[u] = task[u]
    BY <1>1, <1>3 DEF AppendTransition, RowAfter, TaskRow
  <2>. QED BY <2>1, MoveTo DEF Lifecycle!Next
<1>. QED BY <1>2, <1>3

\* The tasks of lost become unknown and nothing else changes: an abstract loss.
LEMMA LosesThem ==
  ASSUME NEW lost \in SUBSET Tasks, \A t \in lost : task[t].state \in Held,
         task \in [Tasks -> TaskRow],
         task' = [t \in Tasks |-> IF t \in lost THEN [task[t] EXCEPT !.state = "unknown"]
                                                ELSE task[t]],
         current' = current
  PROVE  Lifecycle!Next
<1>1. \A t \in Tasks : /\ task'[t].state = IF t \in lost THEN "unknown" ELSE task[t].state
                       /\ task'[t].epoch = task[t].epoch
  BY DEF TaskRow
<1>2. [t \in Tasks |-> task'[t].state]
        = [t \in Tasks |-> IF t \in lost THEN "unknown" ELSE [u \in Tasks |-> task[u].state][t]]
  BY <1>1
<1>3. [t \in Tasks |-> task'[t].epoch] = [t \in Tasks |-> task[t].epoch]
  BY <1>1
<1>4. \A t \in lost : [u \in Tasks |-> task[u].state][t] \in Lifecycle!Held
  BY DEF Held, Lifecycle!Held
<1>5. Lifecycle!Lose(lost)
  BY <1>2, <1>3, <1>4 DEF Lifecycle!Lose
<1>. QED BY <1>5 DEF Lifecycle!Next

\* A task is taken in and nothing else changes: an abstract intake.
LEMMA ProposesIt ==
  ASSUME NEW t \in Tasks, NEW e \in 1..current, task[t].state = "none",
         task'[t].state = "proposed", task'[t].epoch = e,
         \A u \in Tasks \ {t} : task'[u] = task[u],
         current' = current
  PROVE  Lifecycle!Next
<1>1. [u \in Tasks |-> task'[u].state]
        = [[u \in Tasks |-> task[u].state] EXCEPT ![t] = "proposed"]
  OBVIOUS
<1>2. [u \in Tasks |-> task'[u].epoch] = [[u \in Tasks |-> task[u].epoch] EXCEPT ![t] = e]
  OBVIOUS
<1>3. Lifecycle!Propose(t)
  BY <1>1, <1>2 DEF Lifecycle!Propose
<1>. QED BY <1>3 DEF Lifecycle!Next

\* Every step of the core is an abstract step or a stutter.
LEMMA LifecycleStep ==
  ASSUME IInv, [Next]_vars PROVE [Lifecycle!Next]_(Lifecycle!vars)
<1>t. TypeOK /\ GrantsSound
  BY DEF IInv
<1>0. CASE UNCHANGED vars
  BY <1>0 DEF vars, Lifecycle!vars
<1>1. ASSUME task' = task PROVE [Lifecycle!Next]_(Lifecycle!vars)
  <2>1. CASE UNCHANGED <<epoch, current>>
    BY <1>1, <2>1 DEF Lifecycle!vars
  <2>2. CASE Promotes
    BY <1>1, <2>2 DEF Promotes, Lifecycle!Next, Lifecycle!Promote
  <2>. QED BY <2>1, <2>2, EpochStep
<1>2. ASSUME NEW c \in Callers,
             \/ IssueEpochCheck(c) \/ IssueEpochCommit(c)
             \/ IssueGrantCommit(c) \/ Abort(c)
             \/ \E x \in Executors : DeclareCapability(c, x)
             \/ \E t \in Tasks, k \in Keys : CreateTaskCheck(c, t, k)
             \/ \E g \in Grants, t \in Tasks, x \in Executors, expires \in Times :
                  IssueGrantCheck(c, g, t, x, expires)
             \/ \E g \in Grants, at \in Times : Heartbeat(c, g, at)
             \/ \E r \in Receipts : RegisterReceipt(c, r)
      PROVE  [Lifecycle!Next]_(Lifecycle!vars)
  BY <1>1, <1>2 DEF IssueEpochCheck, IssueEpochCommit, IssueGrantCommit, Abort,
     DeclareCapability, CreateTaskCheck, IssueGrantCheck, Heartbeat, RegisterReceipt
<1>3. ASSUME NEW c \in Callers, CreateTaskCommit(c)
      PROVE  [Lifecycle!Next]_(Lifecycle!vars)
  <2> DEFINE t == call[c].task
             e == call[c].epoch
  <2>1. t \in Tasks /\ e \in 1..current
    BY <1>t, <1>3, CallTypes DEF CreateTaskCommit, TaskCall, IInv, CallsSound
  <2>2. task[t].state = "none" /\ current' = current
    BY <1>3 DEF CreateTaskCommit
  <2>3. /\ task'[t].state = "proposed" /\ task'[t].epoch = e
        /\ \A u \in Tasks \ {t} : task'[u] = task[u]
    BY <1>t, <1>3, <2>1 DEF CreateTaskCommit, TypeOK
  <2> HIDE DEF t, e
  <2>. QED BY <2>1, <2>2, <2>3, ProposesIt
<1>4. ASSUME NEW c \in Callers, NEW t \in Tasks, NEW to \in States, NEW claim \in Claims,
             TransitionTask(c, t, to, claim)
      PROVE  [Lifecycle!Next]_(Lifecycle!vars)
  BY <1>4, AppendMoves DEF TransitionTask
<1>5. ASSUME NEW c \in Callers, NEW t \in Tasks, NEW claim \in Claims,
             ApproveTask(c, t, claim)
      PROVE  [Lifecycle!Next]_(Lifecycle!vars)
  BY <1>4, <1>5 DEF ApproveTask, States
<1>6. ASSUME NEW c \in Callers, NEW g \in Grants, NEW at \in Times, AcceptGrant(c, g, at)
      PROVE  [Lifecycle!Next]_(Lifecycle!vars)
  <2> DEFINE t == grant[g].task
  <2>1. /\ t \in Tasks /\ Owned(t)
        /\ "dispatched" \in Allowed(task[t].state) /\ "dispatched" \in States
        /\ AppendTransition(t, "dispatched", g) /\ current' = current
    BY <1>t, <1>6 DEF AcceptGrant, Acceptable, Live, Owned, GrantsSound, Allowed, States, Held
  <2>. QED BY <2>1, AppendMoves
<1>7. ASSUME NEW c \in Callers, NEW g \in Grants, NEW at \in Times, StartTask(c, g, at)
      PROVE  [Lifecycle!Next]_(Lifecycle!vars)
  <2> DEFINE t == grant[g].task
  <2>1. /\ t \in Tasks /\ Owned(t)
        /\ "running" \in Allowed(task[t].state) /\ "running" \in States
        /\ AppendTransition(t, "running", g) /\ current' = current
    BY <1>t, <1>7 DEF StartTask, Live, Owned, GrantsSound, Allowed, States, Held
  <2>. QED BY <2>1, AppendMoves
<1>8. ASSUME NEW now \in Times, ExpireLeases(now)
      PROVE  [Lifecycle!Next]_(Lifecycle!vars)
  <2> DEFINE due == Due(now)
  <2>1. PICK first \in [Lost(due) -> due] :
          task' = [t \in Tasks |->
                     IF t \in Lost(due) THEN RowAfter(t, "unknown", first[t]) ELSE task[t]]
    BY <1>8 DEF ExpireLeases
  <2>2. ASSUME NEW t \in Lost(due) PROVE ~Recorded(t, "unknown", first[t])
    BY <2>1, <2>2, LossIsNew DEF Due, Lost
  <2>3. task' = [t \in Tasks |-> IF t \in Lost(due)
                                 THEN [task[t] EXCEPT !.state = "unknown"] ELSE task[t]]
    BY <2>1, <2>2 DEF RowAfter
  <2>4. Lost(due) \in SUBSET Tasks /\ \A t \in Lost(due) : task[t].state \in Held
    BY DEF Lost
  <2>5. current' = current
    BY <1>8 DEF ExpireLeases
  <2>. QED BY <1>t, <2>3, <2>4, <2>5, LosesThem DEF TypeOK
<1>9. ASSUME NEW c \in Callers, NEW g \in Grants, RevokeLease(c, g)
      PROVE  [Lifecycle!Next]_(Lifecycle!vars)
  <2> DEFINE t == grant[g].task
  <2>1. CASE t \notin Lost({g})
    BY <1>1, <1>9, <2>1 DEF RevokeLease
  <2>2. CASE t \in Lost({g})
    <3>1. t \in Tasks /\ task[t].state \in Held
      BY <2>2 DEF Lost
    <3>2. ~Recorded(t, "unknown", g)
      BY <1>9, <3>1, LossIsNew DEF RevokeLease
    <3>3. task' = [task EXCEPT ![t] = [task[t] EXCEPT !.state = "unknown"]]
      BY <1>9, <2>2, <3>2 DEF RevokeLease, AppendTransition, RowAfter
    <3>4. task' = [u \in Tasks |-> IF u \in {t} THEN [task[u] EXCEPT !.state = "unknown"]
                                                ELSE task[u]]
      BY <1>t, <3>1, <3>3 DEF TypeOK
    <3>5. {t} \in SUBSET Tasks /\ (\A u \in {t} : task[u].state \in Held) /\ current' = current
      BY <1>9, <3>1 DEF RevokeLease
    <3>. QED BY <1>t, <3>4, <3>5, LosesThem DEF TypeOK
  <2>. QED BY <2>1, <2>2
<1>10. ASSUME NEW c \in Callers, NEW t \in Tasks, NEW r \in Receipts, CompleteTask(c, t, r)
       PROVE  [Lifecycle!Next]_(Lifecycle!vars)
  <2>1. Owned(t) /\ task[t].state \in {"running", "unknown"} /\ current' = current
    BY <1>10 DEF CompleteTask
  <2>2. ~Recorded(t, "completed", r)
    BY <2>1, CompletionIsNew DEF Terminal
  <2>3. task'[t].state = "completed" /\ \A u \in Tasks \ {t} : task'[u] = task[u]
    BY <1>t, <1>10, <2>2 DEF CompleteTask, CompletedRow, RowAfter, TypeOK, TaskRow
  <2>4. "completed" \in Allowed(task[t].state)
    BY <2>1 DEF Allowed, Terminal
  <2>5. Lifecycle!Move(t)
    BY <2>1, <2>3, <2>4, MoveTo
  <2>. QED BY <2>5 DEF Lifecycle!Next
<1>. QED
  BY <1>0, <1>2, <1>3, <1>4, <1>5, <1>6, <1>7, <1>8, <1>9, <1>10 DEF Next, Step

\* Every behaviour of the authority core, seen through its task table, is a
\* behaviour of the abstract life of a task.
THEOREM Implementation == Spec => ImplementsLifecycle
<1>1. Init => Lifecycle!Init
  BY DEF Init, Lifecycle!Init
<1>2. IInv /\ [Next]_vars => [Lifecycle!Next]_(Lifecycle!vars)
  BY LifecycleStep
<1>. QED BY <1>1, <1>2, Invariance, PTL DEF Spec, ImplementsLifecycle, Lifecycle!Spec
=============================================================================
