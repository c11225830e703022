SPECIFICATION FairSpec
CONSTANTS
  a = a
  b = b
  Callers <- TwoCallers
  Counts <- SmallCounts
  ThreadCount = 3
  QueueCapacity = 1
  MaxWorkers = 3
  MaxAddWorkers = 2
  ScratchCount = 3
  MaxRecords = 2
  MaxInits = 2
  MaxCalls = 1
PROPERTIES
  InitReturns
CHECK_DEADLOCK FALSE
