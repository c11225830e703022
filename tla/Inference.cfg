SPECIFICATION INSpec
CONSTANTS
  th1 = th1
  th2 = th2
  k1 = k1
  k2 = k2
  k3 = k3
  MaxSlots = 2
  MaxBatch = 2
  PromptCap = 2
  CtxSize = 5
  Chunks = {2}
  MaxChunks = 2
  MaxTokens = 2
  StopHold = 0
  RingCapacity = 1
  Streamed <- NoSlots
  WideTokens = {}
  Failures = FALSE
  LateDecode = FALSE
  Agents = {"a1", "a2", "a3"}
  ThreadOf <- OneThread
  AffinityOf <- Affinity
  ToolUsers = {"a1"}
  AgentSlotIds = {1}
  MaxChatTokens = 2
  CaptureTokens = 1
  MaxChats = 2
  NoAgent = "none"
  Roles = {"tool"}
  MaxMessages = 2
  MaxPromptBytes = 8
  Reserve = 1
  TruncateOldest = TRUE
  MaxCached = 1
  CacheKeys <- CacheKeySet
  HashOf <- CacheHash
  MaxEntries = 3
  CacheTokens = 4
  LoadTokens = 3
  PutSizes = {1, 2, 3}
  MaxPuts = 5
  Vacant = Vacant
  IndexKeys = {1, 2, 3, 4}
  IndexCapacity = 3
  TableSize = 8
  Groups = {1, 2}
  Vectors = {1, 2}
  Queries = {1}
  Bad = Bad
  Nil = Nil
  NodeKeys = {1, 3, 4}
  NewKeys = {1}
  GraphCapacity = 3
  MaxLevel = 2
  NeighborCap = 1
  BuildCap = 2
  QueryCaps = {2, 4}
  CandidateReserve = 1
  GenBits = 2
  GraphQueries = {3}
  GraphKinds = {"f32", "q8", "f6", "q8r", "e2m3r", "e5m2r"}
  CodeStep = 2
  RerankMin = 2
  RerankTimes = 1
  ExactCount = 1
  OldVersions = {5, 7, 8, 9}
  Align = 32
  Cuts = {1, 32}
  Bases = {0, 4}
  Callers <- TwoThreads
  MaxInflight = 2
  History = 2
  MaxTickets = 2
  TokenCounts = {0, 1, 2, 3, 4, 5, 6, 7}
  CountBits = 3
  SimdBlock = 2
  ToolNames = {"a", "b"}
  OtherNames = {"x"}
INVARIANTS
  ContextFaithful
  ChatKept
  PromptFaithful
  CacheWhole
  IndexFaithful
  GraphRoutes
  SnapshotSound
  EmbedFaithful
  ChunkerFaithful
  ToolCallsFaithful
PROPERTIES
  IsFifoCache
CHECK_DEADLOCK FALSE
