SPECIFICATION FairSpec
CONSTANTS
  Buys = {}
  Applies = {a1}
  Start = {c1}
  Desired = {c2}
  Price = 1
  Cap = 1
  MaxOps = 1
  MaxCycles = 0
  MaxFaults = 1
PROPERTY VerifiedAssignmentIsFinished
CHECK_DEADLOCK FALSE
