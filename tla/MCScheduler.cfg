SPECIFICATION FairSpec
CONSTANTS
  Pool = {t1}
  Root = root
  UseCaller = TRUE
  Fibers = {f1, f2}
  AnyThread = anyThread
  None = none
  MaxPosts = 3
INVARIANTS
  ResumeAssert
  StopDrains
  NoEarlyLeave
  IndInv
PROPERTIES
  QuiesceStable
  ImplementsPool
  StopReturns
  TasksAreTaken
