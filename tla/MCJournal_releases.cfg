\* Two connections of this release, and writers of the older one in between.
SPECIFICATION Spec
CONSTANTS
  Connections = {c1, c2}
  OldConnections = {o1}
  Times = {1, 2, 3}
  MaxEvents = 5
SYMMETRY ConnectionSymmetry
INVARIANTS
  TypeOK
  ChainVerifies
  NeverRefused
PROPERTIES
  AppendOnly
