SPECIFICATION ControlSpec
CONSTANTS
  Controllers = {c1, c2}
  MaxCmds = 1
  WakeMayFail = TRUE
PROPERTIES
  ShutdownTakesEffect
CHECK_DEADLOCK FALSE
