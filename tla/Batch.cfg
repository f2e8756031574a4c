SPECIFICATION FairSpec
CONSTANTS
  task = task
  call = call
  empty = empty
  Batches <- MCBatches
  Size <- MCSize
  MaxExtractingSize = 2
INVARIANTS
  TypeOK
  NothingLeftBehind
  ReturnIsExact
  TokensBounded
PROPERTIES
  KeepsPromise
  EveryBatchEnds
  TokensComeBack
CHECK_DEADLOCK FALSE
