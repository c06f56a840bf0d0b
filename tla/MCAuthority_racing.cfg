\* Two processes on one database: promotion races intake, grants and leases.
SPECIFICATION Spec
CONSTANTS
  Tasks = {t1, t2}
  Keys = {k1}
  Grants = {g1}
  Executors = {x1}
  Receipts = {r1}
  Claims = {a1}
  Callers = {c1, c2}
  None = None
  MaxEpoch = 2
  MaxTime = 2
SYMMETRY IdSymmetry
CHECK_DEADLOCK FALSE
INVARIANTS
  EpochsInLine
  IInv
  GrantLeaseCoupled
  ReceiptBacksCompletion
  CompletionTraced
PROPERTIES
  StaleEpochFenced
  NothingRevives
  ImplementsLifecycle
