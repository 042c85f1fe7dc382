SPECIFICATION ControlSpec
CONSTANTS
  Controllers = {c1, c2, c3}
  MaxCmds = 2
  WakeMayFail = FALSE
INVARIANTS
  ControlTypeOK
  NoLostWakeup
  ShutdownIsBarrier
  QueueInOrder
  QueueIsCut
PROPERTIES
  CommandsInOrder
SYMMETRY Handles
CHECK_DEADLOCK FALSE
