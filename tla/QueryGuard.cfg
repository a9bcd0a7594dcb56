SPECIFICATION GuardSpec
CONSTANTS
  Threads = {t1, t2, t3}
  MaxSockets = 2
INVARIANT
  SimultaneousDetected
CHECK_DEADLOCK FALSE
