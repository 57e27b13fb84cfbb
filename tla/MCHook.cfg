SPECIFICATION FairSpec
CONSTANTS
  Fds = {3, 4}
  Fibers = {f1, f2}
  MaxCalls = 5
  MaxOpens = 2
  MaxLive = 1
  MaxRawCloses = 1
CHECK_DEADLOCK FALSE
INVARIANTS
  WaitersExact
  TimerOwned
  CtxFresh
PROPERTIES
  ConnectHonest
  
