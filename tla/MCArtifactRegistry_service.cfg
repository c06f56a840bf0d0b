\* Two callers: every order of reports, and reconcile, also twice at once, between
\* any two of them.
SPECIFICATION QuietSpec
CONSTANTS
  version1 = version1
  version2 = version2
  place1 = place1
  place2 = place2
  job1 = job1
  Library = Library
  None = None
  Contents = {version1, version2}
  Names = {n1}
  Planes = {Library}
  Sites <- LibrarySites
  Pointers = {q1}
  Receipts = {p1, p2}
  Claims <- JobClaims
  Callers = {c1, c2}
SYMMETRY RegistrySymmetry
INVARIANTS
  TypeOK
  IInv
PROPERTIES
  ConflictsStay
  FailsClosed
  RulesAtOnce
