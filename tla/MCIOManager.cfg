SPECIFICATION FairSpec
CONSTANTS
  t1 = t1
  t2 = t2
  PoolThreads = {t1, t2}
  Root = root
  Configs <- MCConfigs
  Events = {e1}
  Pipe = pipe
  PipeCapacity = 2
  MaxWork = 2
INVARIANTS
  PendingExact
  WorkConserved
  IODrains
  PipeAttended
PROPERTIES
  IOStopReturns
  QueueServed
  ReadyDelivered
