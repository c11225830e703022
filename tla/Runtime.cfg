SPECIFICATION RTSpec
CONSTANTS
  th1 = th1
  th2 = th2
  Callers <- TwoThreads
  Counts <- SmallCounts
  ThreadCount = 2
  QueueCapacity = 1
  MaxWorkers = 2
  MaxAddWorkers = 2
  ScratchCount = 2
  MaxRecords = 2
  MaxInits = 2
  MaxCalls = 2
  HTThreads <- TwoThreads
  HandleSlots = 2
  HandleKinds = {"session", "conv"}
  GenBits = 2
  MaxObjects = 3
  Null = Null
  Invalid = Invalid
  Producers = 2
  LaneCapacity = 2
  BatchSizes = {1, 3}
  MaxPushed = 5
  MaxResets = 1
  Queueing = {q1, q2}
  Dequeuing = {d1, d2}
  RingCapacity = 2
  RingKinds = {"mpmc", "mpsc"}
  PushesEach = 2
  MinPow2 = 8
  MaxPow2 = 32
  Subdiv = 4
  PtrSize = 2
  MaxAlign = 16
  FirstGrow = 2
  MaxGrow = 3
  LocalRefill = 2
  LocalMax = 2
  LocalFlush = 1
  MaxStarts = 2
INVARIANTS
  WorkersOutlived
  FanOutSound
  HandlesSound
  FanInFaithful
  RingsFaithful
  HeapSound
PROPERTIES
  CallReturns
  ShutdownReturns
CHECK_DEADLOCK FALSE
