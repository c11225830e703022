SPECIFICATION Spec
CONSTANTS
  o1 = o1
  o2 = o2
  Objects <- MCObjects
  N = 2
  QueueCapacity = 1
  GraceEpochs = 3
  MaxEpoch = 5
SYMMETRY Symmetry
INVARIANTS
  TypeOK
  NoUseAfterReclaim
  FrontierBehindReaders
  RetiredExactlyOnce
