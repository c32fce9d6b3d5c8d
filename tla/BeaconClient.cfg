CONSTANTS
  worker = worker
  live = live
  Fetcher <- Fetchers
  SlotsPerEpoch = 2
  Sidecars <- TwoSlots
  Missed <- MissedSlot
  SlotWorkers = 1
  BackoffBase = 3
  BackoffCap = 2
  MaxCalls = 2
  MaxFaults = 2
SPECIFICATION FairSpec
INVARIANTS
  TypeOK
  WholeEpoch
  ResolvedByEach
PROPERTIES
  Paced
  FetchEnds
CHECK_DEADLOCK FALSE
