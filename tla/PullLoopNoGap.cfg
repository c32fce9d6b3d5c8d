SPECIFICATION Spec
CONSTANTS
  StartEpoch = 1
  MaxEpoch = 4
  MaxFaults = 0
  MaxCrashes = 0
  MaxManual = 0
INVARIANT NoGap
CHECK_DEADLOCK FALSE
