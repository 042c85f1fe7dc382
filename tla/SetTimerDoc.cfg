SPECIFICATION Spec
CONSTANTS
  Controllers = {c1}
  MaxCmds = 1
  WakeMayFail = FALSE
  MaxIds = 0
  Interests <- ReadOnly
  Durations = {1}
  WaitTimeout = 2
  MaxTime = 3
  MaxSteps = 0
  PreEpoch = 0
  DebugAsserts = TRUE
  Faults = {}
  U64 = 1000000
  OverflowChecks = TRUE
PROPERTIES
  TimerFromThisMoment
CHECK_DEADLOCK FALSE
