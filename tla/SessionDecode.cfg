SPECIFICATION FairSpec
CONSTANTS
  s1 = s1
  s2 = s2
  Sessions <- TwoSessions
  MaxChunks = 1
  MaxTokens = 2
  StopHold = 1
  RingCapacity = 1
  WideTokens = {2}
  Streamed <- OneSession
  Abandoned <- OneSession
  Failures = TRUE
INVARIANTS
  SessionSound
PROPERTIES
  DecodeEnds
  DestroyReturns
