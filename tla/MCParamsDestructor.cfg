\* The assertion of the destructor.
CONSTANTS
  k1 = k1
  k2 = k2
  v1 = v1
  v2 = v2
  c1 = c1
  c2 = c2
  Keys <- mcKeys
  Values <- mcValues
  ClearKeys <- mcKeys
  Absent = Absent
  Torn = Torn
  Clients <- mcOne
  Owner = c1
  Writer = Writer
  Free = Free
  Unknown = Unknown
  NoJob = NoJob
  MaxOps = 2
  MaxQueue = 2
  MaxKills = 0
  MaxLosses = 0
CHECK_DEADLOCK FALSE
SPECIFICATION Spec
INVARIANTS DestructorAssert
