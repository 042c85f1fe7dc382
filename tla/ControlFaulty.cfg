SPECIFICATION ControlSpec
CONSTANTS
  Controllers = {c1, c2}
  MaxCmds = 2
  WakeMayFail = TRUE
PROPERTIES
  StrandedRecovered
CHECK_DEADLOCK FALSE
