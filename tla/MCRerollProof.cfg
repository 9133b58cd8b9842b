SPECIFICATION Spec
CONSTANTS
  Names = {a, b}
  Hideable = {}
  MaxRuns = 1
  MaxStarts = 1
  MaxFaults = 1
INVARIANT SafeMeansStopped
CHECK_DEADLOCK FALSE
