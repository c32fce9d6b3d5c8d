SPECIFICATION Spec
CONSTANTS
  n1 = n1
  a = a
  b = b
  x = x
  r1 = r1
  r2 = r2
  Network <- OneNetwork
  Chain <- TwoEpochs
  Pushes <- ThreeBlobs
  Request <- Requests
  EL = {TRUE}
  Ops <- AllOps
  HAMTThreshold = 2
  MaxRequests = 3
  MaxFaults = 1
SYMMETRY RequestSymmetry
INVARIANTS
  SavedResolves
  BackfillRecovers
  Settled
  ExportComplete
  GenuinelyEmpty
CHECK_DEADLOCK FALSE
