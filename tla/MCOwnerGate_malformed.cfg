\* A body with no readable task, labelled again.
SPECIFICATION Spec
CONSTANTS
  k1 = k1
  n1 = n1
  n2 = n2
  Issues = {i1}
  Keys = {k1}
  Names = {n1, n2}
  Illegible = {n2}
  Bodies <- NoTask
  Runs = {w1, w2}
  None = None
  MaxAttempt = 1
  MaxEpoch = 1
  MaxTime = 0
SYMMETRY RunSymmetry
CHECK_DEADLOCK FALSE
INVARIANTS
  DuplicateAddsNoReceipt
