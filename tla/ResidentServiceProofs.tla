------------------------ MODULE ResidentServiceProofs ------------------------
(***************************************************************************)
(* Proofs about the resident service, for any processes, leases and times. *)
(***************************************************************************)
EXTENDS ResidentService, TLAPS

USE NoneAssumption, BoundAssumption

-----------------------------------------------------------------------------
(* What a step does to the database and to the times *)

\* A transaction leaves rows of the table, and counts up.
LEMMA ChangeTyped ==
  ASSUME TypeOK, Change
  PROVE  /\ lease' \in [Leases -> LeaseRow]
         /\ version' \in Nat
         /\ version' >= version
<1>1. CASE \E l \in Leases, e \in Times : Grant(l, e)
  BY <1>1 DEF Grant, TypeOK, LeaseRow
<1>2. CASE \E l \in Leases : End(l)
  BY <1>2 DEF End, TypeOK, LeaseRow
<1>3. CASE \E t \in Times : ExpireLeases(t)
  BY <1>3 DEF ExpireLeases, Expired, TypeOK, LeaseRow
<1>. QED BY <1>1, <1>2, <1>3 DEF Change

\* So does a pass, and afterwards nothing is due that was due at its time.
LEMMA PassTyped ==
  ASSUME TypeOK, NEW t \in Times, ExpireLeases(t)
  PROVE  /\ lease' \in [Leases -> LeaseRow]
         /\ version' \in Nat
         /\ version' >= version
         /\ \A l \in Leases : ~Due(l, t)'
         /\ \A l \in Leases, u \in Times : Due(l, u)' => Due(l, u)
<1>1. /\ lease' \in [Leases -> LeaseRow]
      /\ version' \in Nat
      /\ version' >= version
  BY DEF ExpireLeases, Expired, TypeOK, LeaseRow
<1>2. ASSUME NEW l \in Leases PROVE ~Due(l, t)'
  BY DEF ExpireLeases, Expired, Due, Standing, TypeOK, LeaseRow
<1>3. ASSUME NEW l \in Leases, NEW u \in Times, Due(l, u)' PROVE Due(l, u)
  BY <1>3 DEF ExpireLeases, Expired, Due, Standing, TypeOK, LeaseRow
<1>. QED BY <1>1, <1>2, <1>3

-----------------------------------------------------------------------------
(* The parts of the invariant, one after the other *)

\* The type invariant is kept by every step.
LEMMA TypeOKStep == ASSUME TypeOK, [Next]_vars PROVE TypeOK'
<1>1. ASSUME NEW r \in Runtimes, Main(r) PROVE TypeOK'
  <2>1. CASE StartupTick(r)
    BY <2>1, PassTyped DEF StartupTick, Goes, TypeOK, Owning, Starting, Serving, disk, threads
  <2>2. CASE Acquire(r)
    BY <2>2 DEF Acquire, Goes, TypeOK, Owning, Starting, Serving, Times,
                database, disk, threads
  <2>3. CASE Verify(r)
    BY <2>3 DEF Verify, Goes, TypeOK, Owning, Starting, Serving, Times,
                database, disk, threads
  <2>4. CASE StartupObserve(r)
    BY <2>4 DEF StartupObserve, Goes, TypeOK, Owning, Starting, Serving, Times,
                database, disk, threads
  <2>5. CASE StartFails(r)
    BY <2>5 DEF StartFails, TypeOK, Owning, Starting, Serving, Times,
                database, disk, threads
  <2>6. CASE Serve(r)
    BY <2>6 DEF Serve, Goes, TypeOK, Owning, Starting, Serving, Times,
                database, disk, threads
  <2>7. CASE Stop(r) \/ Shutdown(r)
    BY <2>7 DEF Stop, Shutdown, Goes, TypeOK, Owning, Starting, Serving, Times,
                database, disk, threads
  <2>8. CASE Drain(r)
    BY <2>8 DEF Drain, Goes, TypeOK, Owning, Starting, Serving, Times,
                database, disk, threads
  <2>9. CASE Release(r)
    BY <2>9 DEF Release, Goes, TypeOK, Owning, Starting, Serving, Times,
                database, disk, threads
  <2>10. CASE Exit(r)
    BY <2>10 DEF Exit, Gone, Snapshot, NoSnapshot, TypeOK, Owning, Starting, Serving, Times,
                database, disk, threads
  <2>11. CASE Kill(r)
    BY <2>11 DEF Kill, Gone, Snapshot, NoSnapshot, TypeOK, Owning, Starting, Serving, Times,
                database, disk, threads
  <2>. QED BY <1>1, <2>1, <2>2, <2>3, <2>4, <2>5, <2>6, <2>7, <2>8, <2>9, <2>10, <2>11 DEF Main
<1>2. ASSUME NEW r \in Runtimes, Http(r) PROVE TypeOK'
  <2>1. CASE Commit(r)
    BY <2>1, ChangeTyped DEF Commit, TypeOK, disk
  <2>2. CASE Connect(r)
    BY <2>2 DEF Connect, TypeOK, database, disk, threads
  <2>3. CASE Disconnect(r)
    BY <2>3 DEF Disconnect, TypeOK, database, disk, threads
  <2>4. CASE Export(r) \/ ExportRest(r)
    <3>1. shot' \in [Runtimes -> Snapshot]
      BY <2>4 DEF Export, ExportRest, TypeOK, Snapshot
    <3>. QED BY <2>4, <3>1 DEF Export, ExportRest, TypeOK, Snapping, database, disk
  <2>5. CASE WriteFile(r)
    BY <2>5 DEF WriteFile, TypeOK, Snapping, database, disk, threads
  <2>6. CASE WritePointer(r)
    <3>1. pointer' \in Snapshot /\ shot' \in [Runtimes -> Snapshot]
      BY <2>6 DEF WritePointer, TypeOK, Snapshot, NoSnapshot
    <3>. QED BY <2>6, <3>1 DEF WritePointer, TypeOK, database
  <2>7. CASE SnapshotFails(r)
    BY <2>7 DEF SnapshotFails, TypeOK, Snapshot, NoSnapshot, database, disk, threads
  <2>8. CASE Begin(r)
    BY <2>8 DEF Begin, TypeOK, database, disk
  <2>9. CASE Refuse(r)
    <3>1. shot' \in [Runtimes -> Snapshot]
      BY <2>9 DEF Refuse, TypeOK, Snapshot, NoSnapshot
    <3>. QED BY <2>9, <3>1 DEF Refuse, TypeOK, database, disk
  <2>. QED BY <1>2, <2>1, <2>2, <2>3, <2>4, <2>5, <2>6, <2>7, <2>8, <2>9 DEF Http
<1>3. ASSUME NEW r \in Runtimes, Scheduler(r) PROVE TypeOK'
  <2>1. CASE SchedulerTick(r)
    BY <2>1, PassTyped DEF SchedulerTick, TypeOK, disk
  <2>2. CASE Observe(r) \/ TickFails(r) \/ SchedulerEnds(r)
    BY <2>2 DEF Observe, TickFails, AfterFailure, SchedulerEnds, TypeOK, database, disk
  <2>. QED BY <1>3, <2>1, <2>2 DEF Scheduler
<1>4. CASE Command
  BY <1>4, ChangeTyped DEF Command, TypeOK, disk, threads
<1>5. CASE Tick
  BY <1>5 DEF Tick, TypeOK, Times, database, disk, threads
<1>6. CASE UNCHANGED vars
  BY <1>6 DEF TypeOK, vars, database, disk, threads
<1>. QED BY <1>1, <1>2, <1>3, <1>4, <1>5, <1>6 DEF Next

\* Only the main thread takes the lock and gives it up.
LEMMA LockFollowsStep == ASSUME IInv, [Next]_vars PROVE LockFollows'
<1>. USE DEF IInv, LockFollows, TypeOK, Owning, Starting, Serving
<1>1. ASSUME NEW r \in Runtimes, Main(r) PROVE LockFollows'
  <2>1. CASE Acquire(r) \/ Release(r) \/ StartFails(r) \/ Kill(r)
    BY <2>1 DEF Acquire, LockFree, Release, StartFails, Kill, Gone, Goes
  <2>2. CASE Verify(r) \/ StartupObserve(r) \/ StartupTick(r) \/ Serve(r) \/ Stop(r)
        \/ Shutdown(r) \/ Drain(r) \/ Exit(r)
    BY <2>2 DEF Verify, StartupObserve, StartupTick, Serve, Stop, Shutdown, Drain, Exit, Gone, Goes
  <2>. QED BY <1>1, <2>1, <2>2 DEF Main
<1>2. ASSUME UNCHANGED <<lock, main>> PROVE LockFollows'
  BY <1>2
<1>3. ASSUME NEW r \in Runtimes, Http(r) \/ Scheduler(r) PROVE UNCHANGED <<lock, main>>
  BY <1>3 DEF Http, Scheduler, Connect, Disconnect, Begin, Commit, Refuse, Export, ExportRest, WriteFile,
      WritePointer,
              SnapshotFails, Observe, SchedulerTick, TickFails, SchedulerEnds
<1>4. ASSUME Command \/ Tick \/ UNCHANGED vars PROVE UNCHANGED <<lock, main>>
  BY <1>4 DEF Command, Tick, vars
<1>. QED BY <1>1, <1>2, <1>3, <1>4 DEF Next

\* Threads are created and ended with their process, the HTTP thread before the
\* lock is given up.
LEMMA ThreadsFollowStep == ASSUME IInv, [Next]_vars PROVE ThreadsFollow'
<1>. USE DEF IInv, ThreadsFollow, TypeOK, Owning, Starting, Serving
<1>1. ASSUME NEW r \in Runtimes, Main(r) PROVE ThreadsFollow'
  <2>1. CASE Serve(r) \/ Drain(r) \/ Exit(r) \/ Kill(r)
    BY <2>1 DEF Serve, Drain, Exit, Kill, Gone, Goes
  <2>2. CASE Acquire(r) \/ Verify(r) \/ StartupObserve(r) \/ StartupTick(r) \/ StartFails(r)
        \/ Stop(r) \/ Shutdown(r) \/ Release(r)
    BY <2>2 DEF Acquire, Verify, StartupObserve, StartupTick, StartFails, Stop, Shutdown,
        Release, Goes, threads
  <2>. QED BY <1>1, <2>1, <2>2 DEF Main
<1>2. ASSUME NEW r \in Runtimes, Http(r) PROVE ThreadsFollow'
  BY <1>2 DEF Http, Connect, Disconnect, Begin, Commit, Refuse, Export, ExportRest, WriteFile, WritePointer,
      Written,
              SnapshotFails, threads
<1>3. ASSUME NEW r \in Runtimes, Scheduler(r) PROVE ThreadsFollow'
  BY <1>3 DEF Scheduler, Observe, SchedulerTick, TickFails, AfterFailure, SchedulerEnds
<1>4. CASE Command \/ Tick \/ UNCHANGED vars
  BY <1>4 DEF Command, Tick, vars, threads
<1>. QED BY <1>1, <1>2, <1>3, <1>4 DEF Next

\* While a process has reconciled and does not serve yet, it alone may write, but
\* for the scheduler of a stopped one, and that adds no lease.
LEMMA ReconciledStep == ASSUME IInv, [Next]_vars PROVE Reconciled'
<1>. SUFFICES ASSUME NEW q \in Runtimes, main'[q] = "reconciled", NEW l \in Leases
              PROVE  ~Due(l, seen[q])'
  BY DEF Reconciled
<1>. USE DEF IInv, TypeOK
<1>1. ASSUME main[q] = "reconciled", UNCHANGED <<lease, seen>> PROVE ~Due(l, seen[q])'
  BY <1>1 DEF Reconciled, Due, Standing
<1>2. ASSUME NEW r \in Runtimes, Main(r) PROVE ~Due(l, seen[q])'
  <2>1. CASE StartupTick(r)
    <3>1. seen' = seen /\ ExpireLeases(seen[r]) /\ seen[r] \in Times
      BY <2>1 DEF StartupTick, threads
    <3>2. \A k \in Leases : ~Due(k, seen[r])'
      BY <3>1, PassTyped
    <3>3. \A k \in Leases, u \in Times : Due(k, u)' => Due(k, u)
      BY <3>1, PassTyped
    <3>4. CASE r = q
      BY <3>1, <3>2, <3>4 DEF Due, Standing
    <3>5. CASE r # q
      <4>1. main[q] = "reconciled"
        BY <2>1, <3>5 DEF StartupTick, Goes
      <4>2. ~Due(l, seen[q])
        BY <4>1 DEF Reconciled
      <4>. QED BY <4>2, <3>1, <3>3 DEF Due, Standing
    <3>. QED BY <3>4, <3>5
  <2>2. CASE StartupObserve(r)
    <3>1. main[q] = "reconciled" /\ r # q
      BY <2>2 DEF StartupObserve, Goes
    <3>. QED BY <2>2, <3>1 DEF StartupObserve, Reconciled, Due, Standing, database
  <2>3. CASE StartFails(r)
    <3>1. main[q] = "reconciled" /\ r # q
      BY <2>3 DEF StartFails
    <3>. QED BY <2>3, <3>1 DEF StartFails, Reconciled, Due, Standing, database
  <2>4. CASE Exit(r) \/ Kill(r)
    <3>1. main[q] = "reconciled" /\ r # q
      BY <2>4 DEF Exit, Kill, Gone
    <3>. QED BY <2>4, <3>1 DEF Exit, Kill, Gone, Reconciled, Due, Standing, database
  <2>5. CASE Acquire(r) \/ Verify(r) \/ Serve(r) \/ Stop(r) \/ Shutdown(r) \/ Drain(r) \/ Release(r)
    <3>1. main[q] = "reconciled" /\ UNCHANGED <<lease, seen>>
      BY <2>5 DEF Acquire, Verify, Serve, Stop, Shutdown, Drain, Release, Goes, database, threads
    <3>. QED BY <3>1, <1>1
  <2>. QED BY <1>2, <2>1, <2>2, <2>3, <2>4, <2>5 DEF Main
<1>3. ASSUME NEW r \in Runtimes, Http(r) PROVE ~Due(l, seen[q])'
  <2>1. main[q] = "reconciled"
    BY <1>3 DEF Http, Connect, Disconnect, Begin, Commit, Refuse, Export, ExportRest, WriteFile,
        WritePointer, SnapshotFails
  <2>2. http[r] = "checked" => FALSE
    BY <2>1 DEF ThreadsFollow, LockFollows, Owning, Starting, Serving
  <2>. QED BY <1>3, <2>1, <2>2, <1>1 DEF Http, Connect, Disconnect, Begin, Commit, Refuse,
      Export, ExportRest, WriteFile,
           WritePointer, SnapshotFails, database
<1>4. ASSUME NEW r \in Runtimes, Scheduler(r) PROVE ~Due(l, seen[q])'
  <2>1. main[q] = "reconciled"
    BY <1>4 DEF Scheduler, Observe, SchedulerTick, TickFails, SchedulerEnds
  <2>2. r # q
    BY <1>4, <2>1 DEF Scheduler, Observe, SchedulerTick, TickFails, SchedulerEnds,
       ThreadsFollow, Serving
  <2>3. CASE SchedulerTick(r)
    <3>1. seen' = seen /\ ExpireLeases(seen[r]) /\ seen[r] \in Times
      BY <2>3 DEF SchedulerTick
    <3>2. \A k \in Leases, u \in Times : Due(k, u)' => Due(k, u)
      BY <3>1, PassTyped
    <3>3. ~Due(l, seen[q])
      BY <2>1 DEF Reconciled
    <3>. QED BY <3>1, <3>2, <3>3 DEF Due, Standing
  <2>4. CASE Observe(r)
    BY <2>4, <2>1, <2>2 DEF Observe, Reconciled, Due, Standing, database
  <2>5. CASE TickFails(r) \/ SchedulerEnds(r)
    BY <2>5, <2>1, <1>1 DEF TickFails, SchedulerEnds, database
  <2>. QED BY <1>4, <2>3, <2>4, <2>5 DEF Scheduler
<1>5. CASE Command
  BY <1>5 DEF Command, LockFollows, Owning, Starting
<1>6. CASE Tick \/ UNCHANGED vars
  BY <1>6, <1>1 DEF Tick, vars, database, threads
<1>. QED BY <1>2, <1>3, <1>4, <1>5, <1>6 DEF Next

\* One process at a time has a snapshot in progress, and it ends with it.
LEMMA SnapshotsInOrderStep == ASSUME IInv, [Next]_vars PROVE SnapshotsInOrder'
<1>. USE DEF IInv, TypeOK
<1>1. version' \in Nat /\ version' >= version
  <2>1. ASSUME NEW r \in Runtimes, StartupTick(r) \/ SchedulerTick(r)
        PROVE version' \in Nat /\ version' >= version
    <3>1. ExpireLeases(seen[r]) /\ seen[r] \in Times
      BY <2>1 DEF StartupTick, SchedulerTick
    <3>. QED BY <3>1, PassTyped
  <2>2. CASE Command \/ \E r \in Runtimes : Commit(r)
    BY <2>2, ChangeTyped DEF Command, Commit
  <2>3. CASE Tick \/ UNCHANGED vars
    BY <2>3 DEF Tick, vars, database
  <2>4. ASSUME NEW r \in Runtimes, Main(r), ~StartupTick(r) PROVE version' = version
    BY <2>4 DEF Main, Acquire, Verify, StartupObserve, StartFails, Serve, Stop, Shutdown, Drain,
        Release, Exit,
                Kill, Gone, database
  <2>5. ASSUME NEW r \in Runtimes, Http(r), ~Commit(r) PROVE version' = version
    BY <2>5 DEF Http, Connect, Disconnect, Begin, Refuse, Export, ExportRest, WriteFile, WritePointer,
        SnapshotFails, database
  <2>6. ASSUME NEW r \in Runtimes, Scheduler(r), ~SchedulerTick(r) PROVE version' = version
    BY <2>6 DEF Scheduler, Observe, TickFails, SchedulerEnds, database
  <2>. QED BY <2>1, <2>2, <2>3, <2>4, <2>5, <2>6 DEF Next
<1>2. ASSUME pointer' = pointer,
             \A q \in Runtimes : http'[q] \in Snapping => http[q] \in Snapping /\ shot'[q] = shot[q]
      PROVE SnapshotsInOrder'
  BY <1>1, <1>2 DEF SnapshotsInOrder, Snapshot
<1>3. ASSUME NEW r \in Runtimes, Export(r) PROVE SnapshotsInOrder'
  <2>1. pointer' = pointer /\ version' = version /\ shot'[r] = [first |-> version, last |-> version]
    BY <1>3 DEF Export, database, disk
  <2>2. ASSUME NEW q \in Runtimes \ {r} PROVE http'[q] = http[q] /\ shot'[q] = shot[q]
    BY <1>3 DEF Export
  <2>. QED BY <2>1, <2>2, <1>1 DEF SnapshotsInOrder, Snapshot
<1>4. ASSUME NEW r \in Runtimes, ExportRest(r) PROVE SnapshotsInOrder'
  <2>1. pointer' = pointer /\ version' = version /\ http[r] \in Snapping
        /\ shot'[r] = [first |-> shot[r].first, last |-> version]
    BY <1>4 DEF ExportRest, Snapping, Snapshot, database, disk
  <2>2. ASSUME NEW q \in Runtimes \ {r} PROVE http'[q] = http[q] /\ shot'[q] = shot[q]
    BY <1>4 DEF ExportRest
  <2>3. shot[r] \in Snapshot
    OBVIOUS
  <2>4. pointer.last <= shot[r].first /\ shot[r].first <= version
    BY <2>1, <2>3 DEF SnapshotsInOrder, Snapshot
  <2>. QED BY <2>1, <2>2, <2>4, <1>1 DEF SnapshotsInOrder, Snapshot
<1>5. ASSUME NEW r \in Runtimes, WritePointer(r) PROVE SnapshotsInOrder'
  <2>1. ASSUME NEW q \in Runtimes, http'[q] \in Snapping PROVE FALSE
    BY <1>5, <2>1 DEF WritePointer, Written, ThreadsFollow, LockFollows, Owning, Starting, Serving,
       Snapping
  <2>2. pointer'.last <= version'
    BY <1>5, <1>1 DEF WritePointer, Written, SnapshotsInOrder, Snapping, Snapshot
  <2>. QED BY <2>1, <2>2 DEF SnapshotsInOrder
<1>6. ASSUME NEW r \in Runtimes, Main(r) PROVE SnapshotsInOrder'
  <2>1. pointer' = pointer
    BY <1>6 DEF Main, Acquire, Verify, StartupObserve, StartupTick, StartFails, Serve, Stop,
       Shutdown, Drain, Release, Exit, Kill, Gone, disk
  <2>2. ASSUME NEW q \in Runtimes, http'[q] \in Snapping
        PROVE http[q] \in Snapping /\ shot'[q] = shot[q]
    BY <1>6, <2>2 DEF Main, Acquire, Verify, StartupObserve, StartupTick, StartFails, Serve,
       Stop, Shutdown, Drain, Release, Exit, Kill, Gone, threads, Snapping
  <2>. QED BY <2>1, <2>2, <1>2
<1>7. ASSUME NEW r \in Runtimes, Http(r), ~Export(r), ~ExportRest(r), ~WritePointer(r)
      PROVE SnapshotsInOrder'
  <2>1. pointer' = pointer
    BY <1>7 DEF Http, Connect, Disconnect, Begin, Commit, Refuse, WriteFile, SnapshotFails, disk
  <2>2. ASSUME NEW q \in Runtimes, http'[q] \in Snapping
        PROVE http[q] \in Snapping /\ shot'[q] = shot[q]
    BY <1>7, <2>2 DEF Http, Connect, Disconnect, Begin, Commit, Refuse, WriteFile, SnapshotFails,
       Snapping
  <2>. QED BY <2>1, <2>2, <1>2
<1>8. ASSUME NEW r \in Runtimes, Scheduler(r) PROVE SnapshotsInOrder'
  BY <1>8, <1>2 DEF Scheduler, Observe, SchedulerTick, TickFails, SchedulerEnds, disk
<1>9. CASE Command \/ Tick \/ UNCHANGED vars
  BY <1>9, <1>2 DEF Command, Tick, vars, disk, threads
<1>. QED BY <1>3, <1>4, <1>5, <1>6, <1>7, <1>8, <1>9 DEF Next

\* A file is written before its name, and files are never removed.
LEMMA FilesFirstStep ==
  ASSUME IInv, [Next]_vars PROVE FilesFirst' /\ CurrentResolves'
<1>. USE DEF IInv, TypeOK
<1>1. ASSUME pointer' = pointer, files' = files,
             \A q \in Runtimes : http'[q] = "written" => http[q] = "written" /\ shot'[q] = shot[q]
      PROVE FilesFirst' /\ CurrentResolves'
  BY <1>1 DEF FilesFirst, CurrentResolves
<1>2. ASSUME NEW r \in Runtimes, WriteFile(r) PROVE FilesFirst' /\ CurrentResolves'
  BY <1>2 DEF WriteFile, FilesFirst, CurrentResolves
<1>3. ASSUME NEW r \in Runtimes, WritePointer(r) PROVE FilesFirst' /\ CurrentResolves'
  BY <1>3 DEF WritePointer, Written, FilesFirst, CurrentResolves
<1>4. ASSUME NEW r \in Runtimes, Main(r) PROVE FilesFirst' /\ CurrentResolves'
  <2>1. pointer' = pointer /\ files' = files
    BY <1>4 DEF Main, Acquire, Verify, StartupObserve, StartupTick, StartFails, Serve, Stop,
        Shutdown, Drain,
                Release, Exit, Kill, Gone, disk
  <2>2. ASSUME NEW q \in Runtimes, http'[q] = "written"
        PROVE http[q] = "written" /\ shot'[q] = shot[q]
    BY <1>4, <2>2 DEF Main, Acquire, Verify, StartupObserve, StartupTick, StartFails, Serve,
        Stop, Shutdown,
                Drain, Release, Exit, Kill, Gone, threads
  <2>. QED BY <2>1, <2>2, <1>1
<1>5. ASSUME NEW r \in Runtimes, Http(r), ~WriteFile(r), ~WritePointer(r)
      PROVE FilesFirst' /\ CurrentResolves'
  BY <1>5, <1>1 DEF Http, Connect, Disconnect, Begin, Commit, Refuse, Export, ExportRest, SnapshotFails,
      disk, threads
<1>6. ASSUME NEW r \in Runtimes, Scheduler(r) PROVE FilesFirst' /\ CurrentResolves'
  BY <1>6, <1>1 DEF Scheduler, Observe, SchedulerTick, TickFails, SchedulerEnds, disk
<1>7. CASE Command \/ Tick \/ UNCHANGED vars
  BY <1>7, <1>1 DEF Command, Tick, vars, disk, threads
<1>. QED BY <1>2, <1>3, <1>4, <1>5, <1>6, <1>7 DEF Next

-----------------------------------------------------------------------------
(* The theorems *)

\* Every step keeps the inductive invariant.
LEMMA IInvStep == IInv /\ [Next]_vars => IInv'
BY TypeOKStep, LockFollowsStep, ThreadsFollowStep, ReconciledStep, SnapshotsInOrderStep,
   FilesFirstStep DEF IInv

\* The inductive invariant holds of every behaviour of the service.
THEOREM Invariance == Spec => []IInv
<1>1. Init => IInv
  BY DEF Init, IInv, TypeOK, LeaseRow, Times, LockFollows, ThreadsFollow, Reconciled,
      SnapshotsInOrder, Snapping, Snapshot, NoSnapshot,
         FilesFirst, CurrentResolves, Owning, Starting, Serving
<1>. QED BY <1>1, IInvStep, PTL DEF Spec

\* The state of the service keeps its shape.
THEOREM TypeCorrect == Spec => []TypeOK
<1>1. IInv => TypeOK
  BY DEF IInv
<1>. QED BY <1>1, Invariance, PTL

\* Nobody serves, or finishes a request, without holding the process lock.
THEOREM SoleServer == Spec => []ServesUnderLock
<1>1. IInv => ServesUnderLock
  BY DEF IInv, ServesUnderLock, ThreadsFollow, LockFollows, Owning
<1>. QED BY <1>1, Invariance, PTL

\* A snapshot that CURRENT.json names is there in full.
THEOREM CurrentIsWhole == Spec => []CurrentResolves
<1>1. IInv => CurrentResolves
  BY DEF IInv
<1>. QED BY <1>1, Invariance, PTL

\* Serving begins with no lease standing that was due at the startup tick.
THEOREM ReadyMeansReconciled == Spec => ReadyReconciled
<1>1. ASSUME IInv, [Next]_vars,
             NEW q \in Runtimes, main[q] # "ready", main'[q] = "ready", NEW l \in Leases
      PROVE  ~Due(l, seen[q])
  <2>1. ASSUME NEW r \in Runtimes, Main(r) PROVE Serve(q)
    <3>1. ~(StartFails(r) \/ Exit(r) \/ Kill(r))
      BY <1>1 DEF StartFails, Exit, Kill, Gone, IInv, TypeOK
    <3>2. ~(Acquire(r) \/ Verify(r) \/ StartupObserve(r) \/ StartupTick(r))
      BY <1>1 DEF Acquire, Verify, StartupObserve, StartupTick, Goes, IInv, TypeOK
    <3>3. ~(Stop(r) \/ Shutdown(r) \/ Drain(r) \/ Release(r))
      BY <1>1 DEF Stop, Shutdown, Drain, Release, Goes, IInv, TypeOK
    <3>4. Serve(r) => r = q
      BY <1>1 DEF Serve, Goes, IInv, TypeOK
    <3>. QED BY <2>1, <3>1, <3>2, <3>3, <3>4 DEF Main
  <2>2. ASSUME NEW r \in Runtimes, Http(r) \/ Scheduler(r) PROVE FALSE
    BY <1>1, <2>2 DEF Http, Scheduler, Connect, Disconnect, Begin, Commit, Refuse, Export, ExportRest,
        WriteFile, WritePointer,
       SnapshotFails, Observe, SchedulerTick, TickFails, SchedulerEnds
  <2>3. ~(Command \/ Tick \/ UNCHANGED vars)
    BY <1>1 DEF Command, Tick, vars
  <2>4. Serve(q)
    BY <1>1, <2>1, <2>2, <2>3 DEF Next
  <2>. QED BY <1>1, <2>4 DEF Serve, Goes, IInv, Reconciled
<1>2. IInv /\ [Next]_vars => [\A r \in Runtimes : main[r] # "ready" /\ main'[r] = "ready"
                               => \A l \in Leases : ~Due(l, seen[r])]_vars
  BY <1>1
<1>. QED BY <1>2, Invariance, PTL DEF Spec, ReadyReconciled

\* CURRENT.json only ever moves to a snapshot none of whose tables is older than any
\* table of the one before.
THEOREM SnapshotsMoveForward == Spec => SnapshotsForward
<1>1. ASSUME IInv, [Next]_vars, pointer' # pointer PROVE pointer'.first >= pointer.last
  <2>1. ASSUME NEW r \in Runtimes, WritePointer(r) PROVE pointer'.first >= pointer.last
    BY <1>1, <2>1 DEF WritePointer, Written, IInv, TypeOK, SnapshotsInOrder, Snapping, Snapshot
  <2>2. ASSUME NEW r \in Runtimes, Main(r) \/ Scheduler(r) PROVE pointer' = pointer
    BY <2>2 DEF Main, Acquire, Verify, StartupObserve, StartupTick, StartFails, Serve, Stop,
        Shutdown, Drain,
       Release, Exit, Kill, Gone, Scheduler, Observe, SchedulerTick, TickFails, SchedulerEnds, disk
  <2>3. ASSUME NEW r \in Runtimes, Http(r), ~WritePointer(r) PROVE pointer' = pointer
    BY <2>3 DEF Http, Connect, Disconnect, Begin, Commit, Refuse, Export, ExportRest, WriteFile,
        SnapshotFails, disk
  <2>4. CASE Command \/ Tick \/ UNCHANGED vars
    BY <1>1, <2>4 DEF Command, Tick, vars, disk
  <2>. QED BY <1>1, <2>1, <2>2, <2>3, <2>4 DEF Next
<1>2. IInv /\ [Next]_vars => [pointer' # pointer => pointer'.first >= pointer.last]_vars
  BY <1>1
<1>. QED BY <1>2, Invariance, PTL DEF Spec, SnapshotsForward

\* While a request or an export holds the database lock of its process, no main thread, no other
\* HTTP thread and no command changes a lease.
LEMMA OthersWait ==
  ASSUME IInv, [Next]_vars, NEW r \in Runtimes, http[r] \in {"checked", "exporting"},
         http'[r] = http[r], lease' # lease
  PROVE  \E q \in Runtimes \ {r} : main[q] = "released" /\ SchedulerTick(q)
<1>. USE DEF IInv, TypeOK, Owning, Starting, Serving
<1>1. main[r] \in Serving /\ lock = r
  BY DEF ThreadsFollow, LockFollows
<1>2. ASSUME NEW q \in Runtimes, q # r PROVE main[q] \notin Owning /\ http[q] = "none"
  BY <1>1, <1>2 DEF ThreadsFollow, LockFollows
<1>3. ASSUME NEW q \in Runtimes, Main(q) PROVE FALSE
  <2>1. StartupTick(q)
    BY <1>3 DEF Main, Acquire, Verify, StartupObserve, StartFails, Serve, Stop, Shutdown, Drain,
       Release, Exit, Kill, Gone, database
  <2>. QED BY <1>1, <1>2, <2>1 DEF StartupTick, Goes
<1>4. ASSUME NEW q \in Runtimes, Http(q) PROVE FALSE
  <2>1. Commit(q)
    BY <1>4 DEF Http, Connect, Disconnect, Begin, Refuse, Export, ExportRest, WriteFile, WritePointer,
       SnapshotFails, database
  <2>. QED BY <1>2, <2>1 DEF Commit
<1>5. ASSUME NEW q \in Runtimes, Scheduler(q)
      PROVE  q # r /\ main[q] = "released" /\ SchedulerTick(q)
  <2>1. SchedulerTick(q)
    BY <1>5 DEF Scheduler, Observe, TickFails, SchedulerEnds, database
  <2>2. q # r
    BY <2>1 DEF SchedulerTick, Unlocked
  <2>3. main[q] \in Serving \cup {"drained", "released"}
    BY <2>1 DEF SchedulerTick, ThreadsFollow
  <2>. QED BY <1>2, <2>1, <2>2, <2>3
<1>6. ~(Command \/ Tick \/ UNCHANGED vars)
  BY <1>1, NoneAssumption DEF Command, Tick, vars, database
<1>. QED BY <1>3, <1>4, <1>5, <1>6 DEF Next

\* What a request checked is what it commits on, and what an export reads first goes
\* with what it reads last, but for leases that a process that has given up the lock
\* still ends.
THEOREM RequestsRunUndisturbed == Spec => RequestsUndisturbed
<1>1. ASSUME IInv, [Next]_vars, NEW r \in Runtimes,
             http[r] \in {"checked", "exporting"}, http'[r] = http[r], lease' # lease
      PROVE  \E q \in Runtimes \ {r} :
               /\ main[q] = "released" /\ sched[q] = "ticking"
               /\ \A l \in Leases : lease'[l] = IF Due(l, seen[q])
                                               THEN [lease[l] EXCEPT !.state = "ended"]
                                               ELSE lease[l]
  <2>1. PICK q \in Runtimes \ {r} : main[q] = "released" /\ SchedulerTick(q)
    BY <1>1, OthersWait
  <2>. QED BY <2>1 DEF SchedulerTick, ExpireLeases, Expired
<1>2. IInv /\ [Next]_vars =>
        [\A r \in Runtimes :
           http[r] \in {"checked", "exporting"} /\ http'[r] = http[r] /\ lease' # lease
           => \E q \in Runtimes \ {r} :
                /\ main[q] = "released" /\ sched[q] = "ticking"
                /\ \A l \in Leases : lease'[l] = IF Due(l, seen[q])
                                                THEN [lease[l] EXCEPT !.state = "ended"]
                                                ELSE lease[l]]_vars
  BY <1>1
<1>. QED BY <1>2, Invariance, PTL DEF Spec, RequestsUndisturbed

-----------------------------------------------------------------------------
(* The service implements the single writer *)

\* The processes that serve.
Servers == {r \in Runtimes : http[r] # "none"}

\* CURRENT.json leads to what it names, and who serves owns the lock.
LEMMA OwnerServes ==
  ASSUME IInv
  PROVE  /\ Resolved = pointer
         /\ \A r \in Runtimes : http[r] # "none" => main[r] \in Serving /\ lock = r
BY DEF IInv, CurrentResolves, Resolved, ThreadsFollow, LockFollows, Owning

\* A transaction, or none, and nothing else: an abstract write, or a stutter.
LEMMA WritesOnly ==
  ASSUME TypeOK, Change \/ (\E t \in Times : ExpireLeases(t)) \/ UNCHANGED version,
         UNCHANGED <<lock, Servers, Resolved>>
  PROVE  [Writer!Next]_(Writer!vars)
<1>1. version' = version \/ version' = version + 1
  BY DEF Change, Grant, End, ExpireLeases
<1>. QED BY <1>1 DEF Writer!Next, Writer!Write, Writer!vars, Servers

\* Every step of a main thread is an abstract step or a stutter.
LEMMA MainImplements ==
  ASSUME IInv, IInv', NEW r \in Runtimes, Main(r) PROVE [Writer!Next]_(Writer!vars)
<1>t. TypeOK
  BY DEF IInv
<1>1. Resolved' = Resolved
  BY DEF Main, Acquire, Verify, StartupObserve, StartupTick, StartFails, Serve, Stop, Shutdown,
      Drain,
     Release, Exit, Kill, Gone, disk, Resolved
<1>2. CASE Acquire(r)
  <2>1. lock = None /\ lock' \in Runtimes /\ UNCHANGED <<Servers, version>>
    BY <1>2 DEF Acquire, LockFree, threads, database, Servers
  <2>. QED BY <1>1, <2>1 DEF Writer!Next, Writer!Own, Servers
<1>3. CASE Verify(r) \/ StartupObserve(r) \/ Stop(r) \/ Shutdown(r)
  <2>1. UNCHANGED <<lock, Servers, version>>
    BY <1>3 DEF Verify, StartupObserve, Stop, Shutdown, threads, database, Servers
  <2>. QED BY <1>1, <1>t, <2>1, WritesOnly
<1>4. CASE StartupTick(r)
  <2>1. ExpireLeases(seen[r]) /\ seen[r] \in Times
    BY <1>t, <1>4 DEF StartupTick, TypeOK
  <2>2. UNCHANGED <<lock, Servers>>
    BY <1>4 DEF StartupTick, threads, Servers
  <2>. QED BY <1>1, <1>t, <2>1, <2>2, WritesOnly
<1>5. CASE Serve(r)
  <2>1. lock = r /\ lock' = lock /\ version' = version
    BY <1>5 DEF Serve, Goes, database, IInv, LockFollows, Owning, Starting
  <2>2. Servers' = {lock}
    BY <1>t, <1>5, <2>1, OwnerServes DEF Serve, Servers, TypeOK
  <2>3. lock # None
    BY <2>1, NoneAssumption
  <2>. QED BY <1>1, <2>1, <2>2, <2>3 DEF Writer!Next, Writer!Open, Servers
<1>6. CASE Drain(r)
  <2>1. UNCHANGED <<lock, version>>
    BY <1>6 DEF Drain, database
  <2>2. lock = r
    BY <1>6 DEF Drain, Goes, IInv, LockFollows, Owning, Serving
  <2>3. Servers' = {}
    BY <1>t, <1>6, <2>2, OwnerServes DEF Drain, Servers, TypeOK
  <2>. QED BY <1>1, <2>1, <2>3 DEF Writer!Next, Writer!Close, Servers
<1>7. CASE StartFails(r) \/ Release(r) \/ Kill(r)
  <2>1. lock' = None /\ version' = version
    BY <1>7 DEF StartFails, Release, Kill, Gone, database
  <2>2. Servers' = {}
    BY <2>1, NoneAssumption DEF IInv, ThreadsFollow, LockFollows, Owning, Servers
  <2>. QED BY <1>1, <2>1, <2>2 DEF Writer!Next, Writer!Leave, Servers
<1>8. CASE Exit(r)
  <2>1. UNCHANGED <<lock, version>>
    BY <1>8 DEF Exit, Gone, database
  <2>2. http[r] = "none"
    BY <1>8 DEF Exit, IInv, ThreadsFollow, Serving
  <2>3. Servers' = Servers
    BY <1>t, <1>8, <2>2 DEF Exit, Gone, Servers, TypeOK
  <2>. QED BY <1>1, <1>t, <2>1, <2>3, WritesOnly
<1>. QED BY <1>2, <1>3, <1>4, <1>5, <1>6, <1>7, <1>8 DEF Main

\* So is every step of an HTTP thread: the pointer is what readers see.
LEMMA HttpImplements ==
  ASSUME IInv, IInv', NEW r \in Runtimes, Http(r) PROVE [Writer!Next]_(Writer!vars)
<1>t. TypeOK
  BY DEF IInv
<1>1. Servers' = Servers /\ lock' = lock
  <2>1. http[r] # "none" /\ http'[r] # "none" /\ \A q \in Runtimes \ {r} : http'[q] = http[q]
    BY <1>t DEF Http, Connect, Disconnect, Begin, Commit, Refuse, Export, ExportRest, WriteFile, WritePointer,
       Written, SnapshotFails, TypeOK
  <2>2. lock' = lock
    BY DEF Http, Connect, Disconnect, Begin, Commit, Refuse, Export, ExportRest, WriteFile, WritePointer,
       SnapshotFails
  <2>. QED BY <2>1, <2>2 DEF Servers
<1>2. CASE Commit(r)
  BY <1>1, <1>2, <1>t, WritesOnly DEF Commit, disk, Resolved
<1>3. CASE WritePointer(r)
  <2>1. Servers # {} /\ version' = version
    BY <1>3 DEF WritePointer, Written, Servers, database
  <2>2. Resolved' = shot[r] /\ Resolved = pointer
    BY OwnerServes, <1>3 DEF WritePointer, Resolved, IInv, CurrentResolves
  <2>3. shot[r] = [first |-> shot[r].first, last |-> shot[r].last]
        /\ shot[r].first \in Nat /\ shot[r].last \in Nat
        /\ pointer.last \in Nat /\ version \in Nat
    BY <1>t DEF TypeOK, Snapshot
  <2>4. pointer.last <= shot[r].first /\ shot[r].first <= shot[r].last /\ shot[r].last <= version
    BY <1>3 DEF WritePointer, Written, IInv, SnapshotsInOrder, Snapping
  <2>5. shot[r].first \in pointer.last..version /\ shot[r].last \in pointer.last..version
    BY <2>3, <2>4
  <2>6. \E first, last \in Resolved.last..version :
          first <= last /\ Resolved' = [first |-> first, last |-> last]
    BY <2>2, <2>3, <2>4, <2>5
  <2>. QED BY <1>1, <2>1, <2>6 DEF Writer!Next, Writer!Publish, Servers
<1>4. CASE ~Commit(r) /\ ~WritePointer(r)
  <2>1. version' = version /\ pointer' = pointer
    BY <1>4 DEF Http, Connect, Disconnect, Begin, Refuse, Export, ExportRest, WriteFile, SnapshotFails,
        database, disk
  <2>2. Resolved' = Resolved
    BY <2>1 DEF Resolved, IInv, CurrentResolves
  <2>. QED BY <1>1, <1>t, <2>1, <2>2, WritesOnly
<1>. QED BY <1>2, <1>3, <1>4

\* One process at a time owns the database, only the owner serves, and CURRENT.json
\* leads to snapshots that only move forward, whatever the last tick of a stopped
\* process does to one that is being read.
THEOREM Implementation == Spec => ImplementsSingleWriter
<1>1. Init => Writer!Init
  BY DEF Init, Writer!Init, Resolved, NoSnapshot
<1>2. ASSUME IInv, IInv', [Next]_vars PROVE [Writer!Next]_(Writer!vars)
  <2>t. TypeOK
    BY <1>2 DEF IInv
  <2>1. ASSUME NEW r \in Runtimes, Scheduler(r) PROVE [Writer!Next]_(Writer!vars)
    <3>1. UNCHANGED <<lock, Servers, Resolved>>
      BY <2>1 DEF Scheduler, Observe, SchedulerTick, TickFails, SchedulerEnds, disk, Servers,
          Resolved
    <3>2. (ExpireLeases(seen[r]) /\ seen[r] \in Times) \/ version' = version
      BY <2>t, <2>1 DEF Scheduler, Observe, SchedulerTick, TickFails, SchedulerEnds, database,
          TypeOK
    <3>. QED BY <2>t, <3>1, <3>2, WritesOnly
  <2>2. CASE Command \/ Tick \/ UNCHANGED vars
    <3>1. UNCHANGED <<lock, Servers, Resolved>> /\ (Change \/ UNCHANGED version)
      BY <2>2 DEF Command, Tick, vars, threads, disk, database, Servers, Resolved
    <3>. QED BY <2>t, <3>1, WritesOnly
  <2>. QED BY <1>2, <2>1, <2>2, MainImplements, HttpImplements DEF Next
<1>3. IInv /\ IInv' /\ [Next]_vars => [Writer!Next]_(Writer!vars)
  BY <1>2
<1>. QED BY <1>1, <1>3, Invariance, PTL DEF Spec, Writer!Spec, ImplementsSingleWriter
=============================================================================
