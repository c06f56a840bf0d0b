--------------------------- MODULE ResidentService ---------------------------
(***************************************************************************)
(* The resident service: processes that compete for one database, each     *)
(* with a main thread, a scheduler thread and an HTTP thread; the process  *)
(* lock between them; the snapshots they leave on disk.                    *)
(*                                                                         *)
(* Of the database only the leases count here, and how often they have     *)
(* changed: every transaction is one step (module Authority has them in    *)
(* detail).  A process may be killed at any point; the kernel then drops   *)
(* its lock, and the next one finds what was committed and what was        *)
(* renamed into place.                                                     *)
(*                                                                         *)
(* The service runs as it does by default: it reconciles at startup and    *)
(* has a scheduler.  The clock does not run backwards.                     *)
(***************************************************************************)
EXTENDS Naturals

CONSTANTS
  Runtimes,             \* service processes
  Leases,
  None,                 \* no process
  MaxTime               \* bound on the clock, and on expiry times

ASSUME NoneAssumption == None \notin Runtimes
ASSUME BoundAssumption == MaxTime \in Nat

VARIABLES
  clock,
  lease,                \* leases: state and expires_at
  version,              \* the number of changes committed to them
  lock,                 \* the process that holds the lock file
  main,                 \* how far the main thread of a process is
  sched,                \* its scheduler thread
  http,                 \* its HTTP thread
  seen,                 \* the time its tick in progress was started with
  shot,                 \* its snapshot in progress, as far as it is read
  files,                \* the snapshots on disk
  pointer               \* the snapshot that CURRENT.json names

database == <<lease, version>>
disk     == <<files, pointer>>
threads  == <<sched, http, seen, shot>>
vars     == <<clock, database, lock, main, threads, disk>>

Times    == 0..MaxTime

\* An issued lease is due like an active one.
LeaseRow == [state : {"none", "active", "ended"}, expires : Times]

\* A snapshot is read table by table: the versions its first and its last read saw.
Snapshot   == [first : Nat, last : Nat]
NoSnapshot == [first |-> 0, last |-> 0]

\* The phases in which a process holds the lock.
Starting == {"locked", "verified", "observed", "reconciled"}
Serving  == {"ready", "stopping", "closing"}
Owning   == Starting \cup Serving \cup {"drained"}

\* The stages of a snapshot in progress.
Snapping == {"exporting", "exported", "written"}

Init ==
  /\ clock = 0
  /\ lease = [l \in Leases |-> [state |-> "none", expires |-> 0]]
  /\ version = 1
  /\ lock = None
  /\ main = [r \in Runtimes |-> "off"]
  /\ sched = [r \in Runtimes |-> "none"]
  /\ http = [r \in Runtimes |-> "none"]
  /\ seen = [r \in Runtimes |-> 0]
  /\ shot = [r \in Runtimes |-> NoSnapshot]
  /\ files = {}
  /\ pointer = NoSnapshot

Goes(r, from, to) ==
  /\ main[r] = from
  /\ main' = [main EXCEPT ![r] = to]

-----------------------------------------------------------------------------
(* What a transaction does to the leases *)

Standing(l) == lease[l].state = "active"

Due(l, t) == Standing(l) /\ lease[l].expires <= t

\* Clients choose the expiry, also one that has passed.
Grant(l, e) ==
  /\ lease[l].state = "none"
  /\ lease' = [lease EXCEPT ![l] = [state |-> "active", expires |-> e]]
  /\ version' = version + 1

End(l) ==
  /\ Standing(l)
  /\ lease' = [lease EXCEPT ![l].state = "ended"]
  /\ version' = version + 1

\* Mutant: the pass gives a due lease another time unit.
ExpiredRenewed(t) ==
  [l \in Leases |-> IF Due(l, t) THEN [lease[l] EXCEPT !.expires = t + 1] ELSE lease[l]]

Expired(t) ==
  [l \in Leases |-> IF Due(l, t) THEN [lease[l] EXCEPT !.state = "ended"] ELSE lease[l]]

ExpireLeases(t) ==
  /\ lease' = Expired(t)
  /\ version' = IF \E l \in Leases : Due(l, t) THEN version + 1 ELSE version

\* accept_grant; revoke_lease and complete_task; a tick, at a time of the caller's.
Change ==
  \/ \E l \in Leases, e \in Times : Grant(l, e)
  \/ \E l \in Leases : End(l)
  \/ \E t \in Times : ExpireLeases(t)

-----------------------------------------------------------------------------
(* start: lock, verify, reconcile, serve *)

\* Mutant: the lock file is opened and not locked.
LockFreeAlways == TRUE

LockFree == lock = None

\* A process that finds the lock taken ends without having changed anything.
Acquire(r) ==
  /\ LockFree
  /\ Goes(r, "off", "locked")
  /\ lock' = r
  /\ UNCHANGED <<clock, database, threads, disk>>

Verify(r) ==
  /\ Goes(r, "locked", "verified")
  /\ UNCHANGED <<clock, database, lock, threads, disk>>

\* The startup tick reads the clock, then waits for the database.
StartupObserve(r) ==
  /\ Goes(r, "verified", "observed")
  /\ seen' = [seen EXCEPT ![r] = clock]
  /\ UNCHANGED <<clock, database, lock, sched, http, shot, disk>>

\* Mutant: the startup tick is skipped.
StartupTickSkipped(r) ==
  /\ Goes(r, "observed", "reconciled")
  /\ UNCHANGED <<clock, database, lock, threads, disk>>

StartupTick(r) ==
  /\ Goes(r, "observed", "reconciled")
  /\ ExpireLeases(seen[r])
  /\ UNCHANGED <<clock, lock, threads, disk>>

\* Verification or reconciliation fails or finds an error (verification reads more
\* than once, and a last tick of another process may come in between), the database
\* stays busy, or the address is taken: the lock is given up, and the process ends.
StartFails(r) ==
  /\ main[r] \in Starting
  /\ main' = [main EXCEPT ![r] = "off"]
  /\ lock' = None
  /\ seen' = [seen EXCEPT ![r] = 0]
  /\ UNCHANGED <<clock, database, sched, http, shot, disk>>

Serve(r) ==
  /\ Goes(r, "reconciled", "ready")
  /\ sched' = [sched EXCEPT ![r] = "waiting"]
  /\ http' = [http EXCEPT ![r] = "idle"]
  /\ UNCHANGED <<clock, database, lock, seen, shot, disk>>

-----------------------------------------------------------------------------
(* The HTTP thread: one connection at a time, kept alive by its client *)

\* Until the shutdown is requested, also when the stop event is set already.
Connect(r) ==
  /\ main[r] \in {"ready", "stopping"}
  /\ http[r] = "idle"
  /\ http' = [http EXCEPT ![r] = "held"]
  /\ UNCHANGED <<clock, database, lock, main, sched, seen, shot, disk>>

Disconnect(r) ==
  /\ http[r] = "held"
  /\ http' = [http EXCEPT ![r] = "idle"]
  /\ UNCHANGED <<clock, database, lock, main, sched, seen, shot, disk>>

\* A request takes the database lock of its process, connects and checks ...
Begin(r) ==
  /\ http[r] = "held"
  /\ http' = [http EXCEPT ![r] = "checked"]
  /\ UNCHANGED <<clock, database, lock, main, sched, seen, shot, disk>>

\* ... changes what it checked in a transaction, and lets go of the lock ...
Commit(r) ==
  /\ http[r] = "checked"
  /\ http' = [http EXCEPT ![r] = "held"]
  /\ Change
  /\ UNCHANGED <<clock, lock, main, sched, seen, shot, disk>>

\* ... or only reads, is refused, or meets a database that stays busy.
Refuse(r) ==
  /\ http[r] \in {"checked", "exporting"}
  /\ http' = [http EXCEPT ![r] = "held"]
  /\ shot' = [shot EXCEPT ![r] = NoSnapshot]
  /\ UNCHANGED <<clock, database, lock, main, sched, seen, disk>>

\* Mutant: each thread has its connection and there is no lock between them.
UnlockedAlways(r) == TRUE

\* The database lock, inside one process.
Unlocked(r) == http[r] \notin {"checked", "exporting"}

\* write_snapshot: under the database lock a first table is read ...
Export(r) ==
  /\ http[r] = "held"
  /\ http' = [http EXCEPT ![r] = "exporting"]
  /\ shot' = [shot EXCEPT ![r] = [first |-> version, last |-> version]]
  /\ UNCHANGED <<clock, database, lock, main, sched, seen, disk>>

\* ... and by one statement after another the rest, outside any transaction ...
ExportRest(r) ==
  /\ http[r] = "exporting"
  /\ http' = [http EXCEPT ![r] = "exported"]
  /\ shot' = [shot EXCEPT ![r].last = version]
  /\ UNCHANGED <<clock, database, lock, main, sched, seen, disk>>

\* ... which is written once the lock is released: first the file ...
WriteFile(r) ==
  /\ http[r] = "exported"
  /\ http' = [http EXCEPT ![r] = "written"]
  /\ files' = files \cup {shot[r]}
  /\ UNCHANGED <<clock, database, lock, main, sched, seen, shot, pointer>>

\* Mutant: the pointer is written without waiting for the file.
WrittenOrExported(r) == http[r] \in {"exported", "written"}

Written(r) == http[r] = "written"

\* ... then the pointer to it.
WritePointer(r) ==
  /\ Written(r)
  /\ http' = [http EXCEPT ![r] = "held"]
  /\ pointer' = shot[r]
  /\ shot' = [shot EXCEPT ![r] = NoSnapshot]
  /\ UNCHANGED <<clock, database, lock, main, sched, seen, files>>

\* Mutant: a write that fails removes the file it was to replace.
SnapshotFailsRemoves(r) ==
  /\ http[r] \in {"exported", "written"}
  /\ http' = [http EXCEPT ![r] = "held"]
  /\ shot' = [shot EXCEPT ![r] = NoSnapshot]
  /\ files' = files \ {shot[r]}
  /\ UNCHANGED <<clock, database, lock, main, sched, seen, pointer>>

\* A write fails, and its temporary file is removed; the client is told so.
SnapshotFails(r) ==
  /\ http[r] \in {"exported", "written"}
  /\ http' = [http EXCEPT ![r] = "held"]
  /\ shot' = [shot EXCEPT ![r] = NoSnapshot]
  /\ UNCHANGED <<clock, database, lock, main, sched, seen, disk>>

-----------------------------------------------------------------------------
(* The scheduler thread *)

\* Mutant: the stop event is forgotten once the lock is given up.
StopSetWhileOwning(r) == main[r] \in {"stopping", "closing", "drained"}

StopSet(r) == main[r] \in {"stopping", "closing", "drained", "released"}

\* The wait for the next tick times out, and the clock is read.
Observe(r) ==
  /\ sched[r] = "waiting"
  /\ ~StopSet(r)
  /\ sched' = [sched EXCEPT ![r] = "ticking"]
  /\ seen' = [seen EXCEPT ![r] = clock]
  /\ UNCHANGED <<clock, database, lock, main, http, shot, disk>>

SchedulerTick(r) ==
  /\ sched[r] = "ticking"
  /\ Unlocked(r)
  /\ ExpireLeases(seen[r])
  /\ sched' = [sched EXCEPT ![r] = "waiting"]
  /\ UNCHANGED <<clock, lock, main, http, seen, shot, disk>>

\* Mutant: an exception ends the loop.
AfterFailureEnds == "none"

\* Whatever a tick raises is recorded, and the loop goes on.
AfterFailure == "waiting"

TickFails(r) ==
  /\ sched[r] = "ticking"
  /\ Unlocked(r)
  /\ sched' = [sched EXCEPT ![r] = AfterFailure]
  /\ UNCHANGED <<clock, database, lock, main, http, seen, shot, disk>>

SchedulerEnds(r) ==
  /\ sched[r] = "waiting"
  /\ StopSet(r)
  /\ sched' = [sched EXCEPT ![r] = "none"]
  /\ UNCHANGED <<clock, database, lock, main, http, seen, shot, disk>>

-----------------------------------------------------------------------------
(* stop, and other ends *)

Stop(r) ==
  /\ Goes(r, "ready", "stopping")
  /\ UNCHANGED <<clock, database, lock, threads, disk>>

\* The stop event is set; the serving loop is asked to end after that.
Shutdown(r) ==
  /\ Goes(r, "stopping", "closing")
  /\ UNCHANGED <<clock, database, lock, threads, disk>>

\* Mutant: the server is closed without waiting for the request in progress.
DrainUnwaited(r) ==
  /\ Goes(r, "closing", "drained")
  /\ http' = [http EXCEPT ![r] = IF @ = "idle" THEN "none" ELSE @]
  /\ UNCHANGED <<clock, database, lock, sched, seen, shot, disk>>

\* The serving loop looks for the shutdown between two connections.
Drain(r) ==
  /\ http[r] = "idle"
  /\ Goes(r, "closing", "drained")
  /\ http' = [http EXCEPT ![r] = "none"]
  /\ UNCHANGED <<clock, database, lock, sched, seen, shot, disk>>

\* The scheduler thread is waited for, but only so long: a tick may outlive this.
Release(r) ==
  /\ Goes(r, "drained", "released")
  /\ lock' = None
  /\ UNCHANGED <<clock, database, threads, disk>>

\* All threads of a process are gone with it.
Gone(r) ==
  /\ main' = [main EXCEPT ![r] = "off"]
  /\ sched' = [sched EXCEPT ![r] = "none"]
  /\ http' = [http EXCEPT ![r] = "none"]
  /\ seen' = [seen EXCEPT ![r] = 0]
  /\ shot' = [shot EXCEPT ![r] = NoSnapshot]
  /\ UNCHANGED <<clock, database, disk>>

Exit(r) ==
  /\ main[r] = "released"
  /\ Gone(r)
  /\ UNCHANGED lock

Kill(r) ==
  /\ main[r] \in Owning
  /\ Gone(r)
  /\ lock' = None

-----------------------------------------------------------------------------
(* Outside the service *)

\* The command line does not take the lock; operators use it while the service
\* is down, as its documentation demands.
Command ==
  /\ lock = None
  /\ Change
  /\ UNCHANGED <<clock, lock, main, threads, disk>>

Tick ==
  /\ clock < MaxTime
  /\ clock' = clock + 1
  /\ UNCHANGED <<database, lock, main, threads, disk>>

Main(r) ==
  \/ Acquire(r) \/ Verify(r) \/ StartupObserve(r) \/ StartupTick(r) \/ StartFails(r)
  \/ Serve(r) \/ Stop(r) \/ Shutdown(r) \/ Drain(r) \/ Release(r) \/ Exit(r) \/ Kill(r)

Http(r) ==
  \/ Connect(r) \/ Disconnect(r) \/ Begin(r) \/ Commit(r) \/ Refuse(r)
  \/ Export(r) \/ ExportRest(r) \/ WriteFile(r) \/ WritePointer(r) \/ SnapshotFails(r)

Scheduler(r) ==
  Observe(r) \/ SchedulerTick(r) \/ TickFails(r) \/ SchedulerEnds(r)

Next ==
  \/ \E r \in Runtimes : Main(r) \/ Http(r) \/ Scheduler(r)
  \/ Command
  \/ Tick

Spec == Init /\ [][Next]_vars

\* Threads that can go on do: nothing is fair that needs a client, an operator
\* or a crash.  A tick waits for the request that holds the database lock, and fails
\* while another process keeps the database busy; neither lasts, so a tick that is
\* tried for ever succeeds some time.
Fairness ==
  \A r \in Runtimes :
    /\ WF_vars(Observe(r))
    /\ SF_vars(SchedulerTick(r))
    /\ WF_vars(SchedulerEnds(r))
    /\ WF_vars(Commit(r) \/ ExportRest(r) \/ Refuse(r))
    /\ WF_vars(WriteFile(r) \/ WritePointer(r) \/ SnapshotFails(r))
    /\ WF_vars(Shutdown(r))
    /\ WF_vars(Drain(r))
    /\ WF_vars(Release(r))

FairSpec == Spec /\ Fairness

-----------------------------------------------------------------------------
(* Properties *)

\* Every table, thread and file stays of its kind.
TypeOK ==
  /\ clock \in Times
  /\ lease \in [Leases -> LeaseRow]
  /\ version \in Nat
  /\ lock \in Runtimes \cup {None}
  /\ main \in [Runtimes -> Owning \cup {"off", "released"}]
  /\ sched \in [Runtimes -> {"none", "waiting", "ticking"}]
  /\ http \in [Runtimes -> {"none", "idle", "held", "checked"} \cup Snapping]
  /\ seen \in [Runtimes -> Times]
  /\ shot \in [Runtimes -> Snapshot]
  /\ files \subseteq Snapshot
  /\ pointer \in Snapshot

\* Single writer (README.md:110): no thread answers a client, or has a request
\* left to finish, unless its own process holds the lock - whatever was killed,
\* failed to start or is stopping meanwhile.
ServesUnderLock == \A r \in Runtimes : http[r] # "none" => lock = r

\* "reconciles already-expired leases before declaring readiness" (README.md:113):
\* no lease that was due at the startup tick still stands when serving begins,
\* although other processes and commands have written before that tick, and a
\* process that has stopped may still tick after it.
ReadyReconciled ==
  [][\A r \in Runtimes : main[r] # "ready" /\ main'[r] = "ready"
       => \A l \in Leases : ~Due(l, seen[r])]_vars

\* "Serializes all SQLite activity inside one process" (README.md:111): between what
\* a request checks and what it commits, and between the reads of a snapshot, no
\* lease changes, by its own scheduler, a starting process or a command - except
\* that a process that has given up the lock may still end the leases of a last
\* tick.  Only that can leave a snapshot in which tables of two states are mixed.
RequestsUndisturbed ==
  [][\A r \in Runtimes :
       http[r] \in {"checked", "exporting"} /\ http'[r] = http[r] /\ lease' # lease
       => \E q \in Runtimes \ {r} :
            /\ main[q] = "released" /\ sched[q] = "ticking"
            /\ \A l \in Leases : lease'[l] = IF Due(l, seen[q])
                                            THEN [lease[l] EXCEPT !.state = "ended"]
                                            ELSE lease[l]]_vars

\* CURRENT.json never names a snapshot that is not there in full, wherever a
\* process was killed and whichever write failed.
CurrentResolves == pointer # NoSnapshot => pointer \in files

\* CURRENT.json never goes back: each table of the snapshot it turns to is at least
\* as new as every table of the one before, also when processes take turns while
\* one still has a snapshot to finish.
SnapshotsForward == [][pointer' # pointer => pointer'.first >= pointer.last]_vars

\* What CURRENT.json leads to: nothing, if the file it names is not there.
Resolved == IF pointer \in files \cup {NoSnapshot} THEN pointer ELSE None

\* The service implements an owner of its own at any time, and a register of
\* snapshots that only moves forward.
Writer == INSTANCE SingleWriter WITH
  owner <- lock,
  serving <- {r \in Runtimes : http[r] # "none"},
  current <- Resolved

ImplementsSingleWriter == Writer!Spec

\* Provided some process is ready again and again, every due lease ends: by the
\* scheduler, however many ticks fail, or by the next startup after a crash.
LeasesEnd ==
  []<>(\E r \in Runtimes : main[r] = "ready")
    => \A l \in Leases : Due(l, clock) ~> ~Due(l, clock)

\* Provided clients let go of their connections, a process that is asked to stop
\* gives up the lock, and its scheduler thread ends too.
StopEnds ==
  \A r \in Runtimes :
    []<>(http[r] \in {"none", "idle"})
      => main[r] = "stopping" ~> lock # r /\ sched[r] = "none"

-----------------------------------------------------------------------------
(* What is needed to show them *)

\* The lock is held by the process whose main thread has it.
LockFollows == \A r \in Runtimes : lock = r <=> main[r] \in Owning

\* Threads run between their creation and their end.
ThreadsFollow ==
  \A r \in Runtimes :
    /\ http[r] # "none" <=> main[r] \in Serving
    /\ sched[r] # "none" => main[r] \in Serving \cup {"drained", "released"}

\* A process that has reconciled leaves no lease of its tick's time standing.
Reconciled ==
  \A r \in Runtimes : main[r] = "reconciled" => \A l \in Leases : ~Due(l, seen[r])

\* A snapshot in progress is no older than the one that CURRENT.json names.
SnapshotsInOrder ==
  /\ pointer.last <= version
  /\ \A r \in Runtimes : http[r] \in Snapping =>
       /\ pointer.last <= shot[r].first
       /\ shot[r].first <= shot[r].last
       /\ shot[r].last <= version

\* The file is there once it is written.
FilesFirst == \A r \in Runtimes : http[r] = "written" => shot[r] \in files

IInv ==
  /\ TypeOK
  /\ LockFollows
  /\ ThreadsFollow
  /\ Reconciled
  /\ SnapshotsInOrder
  /\ FilesFirst
  /\ CurrentResolves
=============================================================================
