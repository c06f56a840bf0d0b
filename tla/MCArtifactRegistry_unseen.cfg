\* A receipt conflicts with one whose output the name never had.
SPECIFICATION Spec
CONSTANTS
  version1 = version1
  version2 = version2
  place1 = place1
  place2 = place2
  job1 = job1
  Library = Library
  None = None
  Contents = {version1, version2}
  Names = {n1}
  Planes = {Library}
  Sites <- LibrarySites
  Pointers = {q1}
  Receipts = {p1, p2}
  Claims <- OutputClaims
  Callers = {c1}
SYMMETRY RegistrySymmetry
PROPERTIES
  ConflictingReceiptsQuarantined
