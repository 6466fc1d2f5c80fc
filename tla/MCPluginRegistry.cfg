\* Two requests at any step of the poll, and one process that calls hooks.
CONSTANTS
  Order <- mcOrder
  Deps <- mcDeps
  Conflicts <- mcConflicts
  Hooks <- mcHooks
  Priority <- mcPriority
  Fragile <- mcFragile
  Lazy <- mcLazy
  MaxFailures = 1
  MaxToggles = 2
SPECIFICATION FairSpec
INVARIANTS DefaultOrWholeChain DisabledIsUnloaded
PROPERTIES EnabledIsLoaded
CHECK_DEADLOCK FALSE
