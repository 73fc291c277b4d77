CONSTANTS
  MaxStarts = 2
  MaxFaults = 0
SPECIFICATION Spec
INVARIANT UpgradeOpens
CHECK_DEADLOCK FALSE
