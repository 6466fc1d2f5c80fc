\* Cycles of three turns; a manager that reads at least every second one.
CONSTANTS
  Temps <- mcTemps
  CycleFrames = 3
  BodyFrames = 2
  SilentFrames = 2
  ManagerFrames = 2
  MaxRequests = 1
SPECIFICATION HardwareFairSpec
INVARIANTS DriveEndsAtOnce CycleIsSeen
PROPERTIES ShutdownOnlyParked StartsWhenCool ParkedShutsDown
CHECK_DEADLOCK FALSE
