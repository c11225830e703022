SPECIFICATION Spec
CONSTANTS
  c1 = c1
  c2 = c2
  Convs <- TwoConvs
  Owner = Owner
  MaxSlots = 2
  QueueCapacity = 1
  GraceEpochs = 3
  HandleTableFills = TRUE
INVARIANTS
  SnapshotStorageLive
