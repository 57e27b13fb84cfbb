SPECIFICATION Spec
CONSTANTS
  Fds = {3}
  Fibers = {f1, f2}
  MaxCalls = 4
  MaxOpens = 1
  MaxLive = 1
  MaxRawCloses = 0
CHECK_DEADLOCK FALSE
INVARIANTS
  TimeoutCancels
