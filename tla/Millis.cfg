SPECIFICATION Spec
CONSTANTS
  Controllers = {}
  MaxCmds = 0
  WakeMayFail = FALSE
  MaxIds = 0
  Interests <- ReadOnly
  Durations = {7}
  WaitTimeout = 2
  MaxTime = 3
  MaxSteps = 0
  PreEpoch = 0
  DebugAsserts = TRUE
  Faults = {}
  U64 = 8
  OverflowChecks = TRUE
PROPERTIES
  MillisSuffice
CHECK_DEADLOCK FALSE
