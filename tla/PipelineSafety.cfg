SPECIFICATION Spec
CONSTANTS
  w1 = w1
  w2 = w2
  Worker <- TwoWorkers
  StartEpoch = 1
  TargetEpoch = 3
  BlobEpochs <- OddEpochs
  MaxBuildFaults = 1
  MaxPersistFaults = 1
  MaxCrashes = 1
SYMMETRY WorkerSymmetry
INVARIANTS
  TypeOK
  CursorCovered
  StrictOrder
  SkipsAreSaved
  ResumeCovered
  NothingLost
  CompletionIsComplete
PROPERTIES CursorMonotonic ImplementsSequential
CHECK_DEADLOCK FALSE
