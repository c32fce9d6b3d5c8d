SPECIFICATION FairSpec
CONSTANTS
  StartEpoch = 0
  MaxEpoch = 4
  MaxFaults = 1
  MaxCrashes = 1
  MaxManual = 1
INVARIANTS TypeOK CursorCovered NoGapButAnchor Disjoint
PROPERTIES HealedOnStart IndexedEventually
CHECK_DEADLOCK FALSE
