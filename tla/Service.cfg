CONSTANTS
  Environments <- SomeEnvironments
  DencunEpoch = 1
  MaxEpoch = 3
  MaxFaults = 2
  MaxStops = 2
SPECIFICATION FairSpec
INVARIANTS
  CursorsCovered
  NotRepeated
PROPERTIES
  Atomic
  IndexedEventually
CHECK_DEADLOCK FALSE
