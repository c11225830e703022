SPECIFICATION Spec
CONSTANTS
  s1 = s1
  s2 = s2
  Sessions <- OneSession
  MaxChunks = 1
  MaxTokens = 2
  StopHold = 0
  RingCapacity = 1
  WideTokens = {}
  Streamed <- OneSession
  Abandoned <- NoSessions
  Failures = FALSE
INVARIANTS
  EndOfStream
