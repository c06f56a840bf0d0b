\* One connection after another: two grants compete for a task, or hold two tasks
\* whose leases one pass ends together.
SPECIFICATION ServiceSpec
CONSTANTS
  Tasks = {t1, t2}
  Keys = {k1, k2}
  Grants = {g1, g2}
  Executors = {x1}
  Receipts = {}
  Claims = {a1}
  Callers = {c1}
  None = None
  MaxEpoch = 1
  MaxTime = 2
SYMMETRY IdSymmetry
CHECK_DEADLOCK FALSE
INVARIANTS
  TypeOK
  MaterializedState
  OneExecutor
  DispatchedOnce
  HeldUnderLease
PROPERTIES
  WorkAsChecked
