SPECIFICATION IoSpec
CONSTANTS
  Controllers = {}
  MaxCmds = 0
  WakeMayFail = FALSE
  MaxIds = 2
  Interests <- MCInterests
  Durations = {}
  WaitTimeout = 1
  MaxTime = 0
  MaxSteps = 0
  PreEpoch = 0
  DebugAsserts = TRUE
  Faults = {"poll", "resource", "write"}
  U64 = 1000000
  OverflowChecks = TRUE
PROPERTIES
  PanicsForCause
  IoServed
  HangUpNoticed
  CustodyKept
  NothingMissed
CHECK_DEADLOCK FALSE
