SPECIFICATION ServiceSpec
CONSTANTS
  Controllers = {c1}
  MaxCmds = 1
  WakeMayFail = FALSE
  MaxIds = 1
  Interests <- ReadOnly
  Durations = {1}
  WaitTimeout = 1
  MaxTime = 1
  MaxSteps = 0
  PreEpoch = 0
  DebugAsserts = FALSE
  Faults = {"poll", "resource", "write", "transient", "notready", "service"}
  U64 = 2
  OverflowChecks = TRUE
  MaxActions = 3
INVARIANTS
  NothingWaits
PROPERTIES
  PanicsForCause
  IterationEnds
  EveryActionDone
  Spec
CHECK_DEADLOCK FALSE
