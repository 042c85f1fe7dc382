SPECIFICATION Spec
CONSTANTS
  Controllers = {}
  MaxCmds = 0
  WakeMayFail = FALSE
  MaxIds = 0
  Interests <- ReadOnly
  Durations = {3}
  WaitTimeout = 2
  MaxTime = 4
  MaxSteps = 0
  PreEpoch = 0
  DebugAsserts = TRUE
  Faults = {}
  U64 = 1000000
  OverflowChecks = TRUE
INVARIANTS
  WaitBounded
CHECK_DEADLOCK FALSE
