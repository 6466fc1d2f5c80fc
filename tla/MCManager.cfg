\* Three processes, two crashes, three changes of the wish; the manager keeps running.
CONSTANTS
  N = 3
  Kind <- mcKind
  Restarted <- mcRestarted
  MaxCrashes = 2
  MaxToggles = 3
SPECIFICATION FairSpec
INVARIANTS OneInstance WantedIsRunningOrReported NoneLeftOver
PROPERTIES ExitCarriedOut CrashedComesBack
CHECK_DEADLOCK FALSE
