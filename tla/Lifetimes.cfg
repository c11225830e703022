SPECIFICATION LTSpec
CONSTANTS
  c1 = c1
  c2 = c2
  Convs <- TwoConvs
  Owner = Owner
  MaxSlots = 2
  QueueCapacity = 1
  GraceEpochs = 3
  HandleTableFills = TRUE
  m1 = m1
  a1 = a1
  t1 = t1
  s1 = s1
  v1 = v1
  g1 = g1
  e1 = e1
  i1 = i1
  Objects <- GraphObjects
  KindOf <- GraphKinds
  OptionalOps = {"model_adapter_load", "embedder_create", "session_adapter_add", "session_feed_image", "session_grammar_for_slot"}
  MaxAdapters = 2
  NoObject = NoObject
INVARIANTS
  LifetimesSound
  GraphSound
PROPERTIES
  DestroyReturns
  ModelUnloaded
