\* One issue, two runs of up to two attempts each, a body edited in between.
SPECIFICATION Spec
CONSTANTS
  k1 = k1
  n1 = n1
  n2 = n2
  Issues = {i1}
  Keys = {k1}
  Names = {n1, n2}
  Illegible = {n2}
  Bodies <- Mixed
  Runs = {w1, w2}
  None = None
  MaxAttempt = 2
  MaxEpoch = 2
  MaxTime = 1
SYMMETRY RunSymmetry
CHECK_DEADLOCK FALSE
INVARIANTS
  TypeOK
  OneReceipt
  CompletedHasArtifact
  SuccessIsAnswered
  IInv
PROPERTIES
  NoWorkAfterReceipt
  ImplementsAnswers
