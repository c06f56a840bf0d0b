\* A flag set, cleared and set again at the time it was first set.
SPECIFICATION Spec
CONSTANTS
  Connections = {c1}
  OldConnections = {}
  Times = {1}
  MaxEvents = 3
PROPERTIES
  EveryMutationJournalled
