\* Two processes, three operations, a kill and a power loss.
CONSTANTS
  k1 = k1
  k2 = k2
  v1 = v1
  v2 = v2
  c1 = c1
  c2 = c2
  Keys <- mcKeys
  Values <- mcValues
  ClearKeys <- mcKeys
  Absent = Absent
  Torn = Torn
  Clients <- mcClients
  Owner = c1
  Writer = Writer
  Free = Free
  Unknown = Unknown
  NoJob = NoJob
  MaxOps = 3
  MaxQueue = 2
  MaxKills = 1
  MaxLosses = 1
CHECK_DEADLOCK FALSE
SYMMETRY Symmetry
SPECIFICATION Spec
INVARIANTS AckedIsDurable SnapshotIsConsistent LastQueuedWins
PROPERTIES ImplementsStore
