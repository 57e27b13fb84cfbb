SPECIFICATION FairSpec
CONSTANTS
  N = 3
\* start() may hang.
CHECK_DEADLOCK FALSE
INVARIANTS
  LoopAfterStart
PROPERTIES
  JoinReturns
