SPECIFICATION PCSpec
CONSTANTS
  k1 = k1
  k2 = k2
  k3 = k3
  CacheKeys <- CacheKeySet
  HashOf <- CacheHash
  MaxEntries = 3
  CacheTokens = 4
  LoadTokens = 3
  PutSizes = {0, 1, 2}
  MaxPuts = 5
  Vacant = Vacant
INVARIANTS
  EntriesIntact
CHECK_DEADLOCK FALSE
