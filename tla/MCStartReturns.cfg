SPECIFICATION FairSpec
CONSTANTS
  N = 2
CHECK_DEADLOCK FALSE
PROPERTIES
  StartReturns
