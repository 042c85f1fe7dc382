SPECIFICATION Spec
CONSTANTS
  Controllers = {c1}
  MaxCmds = 1
  WakeMayFail = FALSE
  MaxIds = 1
  Interests <- ReadOnly
  Durations = {}
  WaitTimeout = 2
  MaxTime = 0
  MaxSteps = 0
  PreEpoch = 0
  DebugAsserts = FALSE
  Faults = {"transient"}
  U64 = 1000000
  OverflowChecks = TRUE
INVARIANTS
  TransientPanics
CHECK_DEADLOCK FALSE
