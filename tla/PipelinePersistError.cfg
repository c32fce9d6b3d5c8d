SPECIFICATION FairSpec
CONSTANTS
  w1 = w1
  w2 = w2
  Worker <- OneWorker
  StartEpoch = 1
  TargetEpoch = 2
  BlobEpochs <- NoEpochs
  MaxBuildFaults = 0
  MaxPersistFaults = 1
  MaxCrashes = 0
PROPERTY TearsDown
CHECK_DEADLOCK FALSE
