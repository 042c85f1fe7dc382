SPECIFICATION Spec
CONSTANTS
  Controllers = {c1}
  MaxCmds = 1
  WakeMayFail = TRUE
  MaxIds = 2
  Interests <- MCInterests
  Durations = {}
  WaitTimeout = 2
  MaxTime = 0
  MaxSteps = 0
  PreEpoch = 0
  DebugAsserts = FALSE
  Faults = {"poll", "waker", "resource", "write", "transient", "notready", "service"}
  U64 = 1000000
  OverflowChecks = TRUE
INVARIANTS
  TypeOK
  ResourceInv
  EventsOnlyForLent
  EventsWanted
  PollsCurrentInterests
PROPERTIES
  IdsNotReused
CHECK_DEADLOCK FALSE
