\* Two drives, with a restart of pandad, under fairness.
CONSTANTS
  p1 = p1
  p2 = p2
  Pandas <- mcPandas
  FirstPanda = p1
  Configured <- mcConfigured
  Passive = FALSE
  MaxDrives = 2
  MaxRequests = 2
  MaxRestarts = 1
SPECIFICATION FairSpec
INVARIANTS CarModeIsThisDrives ObdHandshake
PROPERTIES ObdRequestAnswered CarModeReached
CHECK_DEADLOCK FALSE
