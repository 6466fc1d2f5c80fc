\* One crash and one retry of each upload; any number of lost connections.
CONSTANTS
  i1 = i1
  i2 = i2
  u1 = u1
  u2 = u2
  w1 = w1
  Items <- mcItems
  Uploaders <- mcUploaders
  Workers <- mcWorkers
  Priority <- mcPriority
  Cellular <- mcCellular
  NoItem = NoItem
  MAX_RETRY_COUNT = 1
  MaxCrashes = 1
SPECIFICATION FairSpec
INVARIANTS OneOwner CancelledNotUploaded
PROPERTIES AllFinished
