\* Two processes take turns on one database, killed and stopped at any point.
SPECIFICATION FairSpec
CONSTANTS
  Runtimes = {r1, r2}
  Leases = {l1}
  None = None
  MaxTime = 1
INVARIANTS
  TypeOK
  IInv
  ServesUnderLock
  CurrentResolves
PROPERTIES
  ReadyReconciled
  RequestsUndisturbed
  SnapshotsForward
  ImplementsSingleWriter
  LeasesEnd
  StopEnds
