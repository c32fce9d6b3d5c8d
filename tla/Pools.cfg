CONSTANTS
  w1 = w1
  w2 = w2
  Worker <- TwoWorkers
  Inputs <- SmallInputs
  EpochRange <- Epochs
  HAMTThreshold = 3
  ShardSize = 2
  MinPageSize = 2
SPECIFICATION FairSpec
INVARIANTS
  EpochIndexed
  OrderIndependent
  NothingHidden
  RemedyExact
  UploadSettled
  PagesExact
  GapsExact
PROPERTIES
  AllEnd
CHECK_DEADLOCK FALSE
