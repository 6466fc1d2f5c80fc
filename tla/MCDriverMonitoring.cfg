\* Thresholds scaled from 8/11, 6/11 and 15/30, 6/30; two red alerts or three frames of red.
CONSTANTS
  Full = 5
  ActiveStep = 2
  PRE = 3
  PROMPT = 2
  PASSIVE_PRE = 2
  PASSIVE_PROMPT = 1
  FilterGain = 3
  FilterUnit = 6
  AttentiveBelow = 3
  DistractedAbove = 3
  HiStdFallback = 1
  MaxTerminalAlerts = 2
  MaxTerminalDuration = 3
SPECIFICATION FairSpec
INVARIANTS TerminalAlertsBounded
PROPERTIES RedUntilDisengaged NothingGivenBack LockedOutUntilIgnition InattentiveIsUrged
