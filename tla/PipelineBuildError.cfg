SPECIFICATION FairSpec
CONSTANTS
  w1 = w1
  w2 = w2
  Worker <- TwoWorkers
  StartEpoch = 1
  TargetEpoch = 4
  BlobEpochs <- NoEpochs
  MaxBuildFaults = 1
  MaxPersistFaults = 0
  MaxCrashes = 0
PROPERTY TearsDown
CHECK_DEADLOCK FALSE
