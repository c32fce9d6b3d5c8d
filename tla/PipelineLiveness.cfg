SPECIFICATION FairSpec
CONSTANTS
  w1 = w1
  w2 = w2
  Worker <- OneWorker
  StartEpoch = 1
  TargetEpoch = 4
  BlobEpochs <- OddEpochs
  MaxBuildFaults = 2
  MaxPersistFaults = 0
  MaxCrashes = 1
PROPERTIES Completes TearsDown IndexedEventually
CHECK_DEADLOCK FALSE
