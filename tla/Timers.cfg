SPECIFICATION TimedSpec
CONSTANTS
  Controllers = {}
  MaxCmds = 0
  WakeMayFail = FALSE
  MaxIds = 0
  Interests <- ReadOnly
  Durations = {0, 3}
  WaitTimeout = 2
  MaxTime = 4
  MaxSteps = 1
  PreEpoch = 1
  DebugAsserts = TRUE
  Faults = {}
  U64 = 2
  OverflowChecks = FALSE
INVARIANTS
  TimeInv
  TimerKept
  PollNotLate
PROPERTIES
  
  TimerNotEarly
  TimersFire
  AlarmsKept
CHECK_DEADLOCK FALSE
