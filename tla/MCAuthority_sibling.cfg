\* A second grant for a task that already has its executor.
SPECIFICATION Spec
CONSTANTS
  Tasks = {t1}
  Keys = {k1}
  Grants = {g1, g2}
  Executors = {x1}
  Receipts = {}
  Claims = {a1}
  Callers = {c1}
  None = None
  MaxEpoch = 1
  MaxTime = 2
SYMMETRY IdSymmetry
CHECK_DEADLOCK FALSE
INVARIANTS
  UnknownByExecutorsLease
