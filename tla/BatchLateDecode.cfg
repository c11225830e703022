SPECIFICATION Spec
CONSTANTS
  MaxSlots = 2
  MaxBatch = 1
  PromptCap = 1
  CtxSize = 4
  Chunks = {0, 1}
  MaxChunks = 1
  MaxTokens = 2
  StopHold = 1
  RingCapacity = 1
  WideTokens = {2}
  Streamed <- SlotZero
  Failures = FALSE
  LateDecode = TRUE
INVARIANTS
  ResetBeforeAdvance
