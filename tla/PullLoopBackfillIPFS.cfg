SPECIFICATION SpecWithBackfillIPFS
CONSTANTS
  StartEpoch = 1
  MaxEpoch = 5
  MaxFaults = 0
  MaxCrashes = 0
  MaxManual = 1
INVARIANT CursorCovered
CHECK_DEADLOCK FALSE
