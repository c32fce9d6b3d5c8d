SPECIFICATION Spec
CONSTANTS
  w1 = w1
  w2 = w2
  Worker <- OneWorker
  StartEpoch = 1
  TargetEpoch = 2
  BlobEpochs <- OddEpochs
  MaxBuildFaults = 0
  MaxPersistFaults = 0
  MaxCrashes = 1
INVARIANT BlobRowsCovered
CHECK_DEADLOCK FALSE
