\* b fails to import its second hook, and is disabled.
CONSTANTS
  Order <- mcOrder
  Deps <- mcDeps
  Conflicts <- mcConflicts
  Hooks <- mcHooks
  Priority <- mcPriority
  Fragile <- mcFragile
  Lazy <- mcNone
  MaxFailures = 1
  MaxToggles = 2
SPECIFICATION Spec
INVARIANTS DisabledHasNoHooks
CHECK_DEADLOCK FALSE
