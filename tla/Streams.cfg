SPECIFICATION STSpec
CONSTANTS
  MaxSlots = 1
  MaxBatch = 2
  PromptCap = 3
  CtxSize = 9
  Chunks = {0, 3}
  MaxChunks = 2
  MaxTokens = 5
  StopHold = 2
  RingCapacity = 1
  WideTokens = {2, 3}
  Streamed <- SlotZero
  Failures = TRUE
  LateDecode = FALSE
  p1 = p1
  p2 = p2
  Producers <- TwoPushers
  Capacity = 2
  BatchSizes = {1, 3}
  MaxTickets = 6
  RequestKinds = {"session", "conv", "agent", "cursor"}
  Errors = {"E_NOMEM", "E_BACKEND"}
  MaxRuns = 2
INVARIANTS
  StreamSound
  EndOfStream
  WaitVerdict
  RingSound
PROPERTIES
  DecodeEnds
  CancelEnds
  WaitReturns
  ImplementsFifo
  PushReturns
  EveryItemDelivered
