\* A promotion between the check and the insert of create_task.
SPECIFICATION Spec
CONSTANTS
  Tasks = {t1}
  Keys = {k1}
  Grants = {}
  Executors = {x1}
  Receipts = {}
  Claims = {a1}
  Callers = {c1, c2}
  None = None
  MaxEpoch = 2
  MaxTime = 1
SYMMETRY IdSymmetry
CHECK_DEADLOCK FALSE
PROPERTIES
  IntakeUnderCurrentEpoch
