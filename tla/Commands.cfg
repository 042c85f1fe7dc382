SPECIFICATION Spec
CONSTANTS
  Controllers = {c1, c2}
  MaxCmds = 2
  WakeMayFail = FALSE
  MaxIds = 0
  Interests <- ReadOnly
  Durations = {}
  WaitTimeout = 1
  MaxTime = 0
  MaxSteps = 0
  PreEpoch = 0
  DebugAsserts = TRUE
  Faults = {"service"}
  U64 = 1000000
  OverflowChecks = TRUE
PROPERTIES
  ControlSpec
  MailboxKept
  LaunchServed
  EveryCommandHandled
  ShutdownTakesEffect
CHECK_DEADLOCK FALSE
