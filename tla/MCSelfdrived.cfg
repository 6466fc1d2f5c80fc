\* Pcm cruise and button cars, either accelerator setting, and a loop that keeps turning.
CONSTANTS
  p1 = p1
  p2 = p2
  Pandas <- mcPandas
  Configured <- mcConfigured
  CarStates <- mcCarStates
  SubMasters <- mcSubMasters
  SoftDisableSteps = 3
  MismatchLimit = 3
  CruiseMismatchLimit = 2
  InitTimeout = 2
  SafetyGrace = 3
SPECIFICATION FairSpec
INVARIANTS EnabledOnlyWithCruise NeverActiveWhileBraking CommFailureDisables
PROPERTIES LastingReasonsEndControl ImplementsEngagement ExcessiveActuationBarsEntry
