\* Three commits; one failure, one drive, two reboots or power losses, anywhere.
CONSTANTS
  MaxVersion = 3
  OSOf <- mcOSOf
  MaxSkips = 1
  MaxRequests = 1
  MaxFails = 1
  MaxDrives = 1
  MaxPowerOffs = 2
SPECIFICATION FairSpec
INVARIANTS NeverHalfInstalled OSIsReady
PROPERTIES UpdateReadyInTheEnd
CHECK_DEADLOCK FALSE
