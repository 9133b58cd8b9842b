SPECIFICATION FairSpec
CONSTANTS
  MaxPid = 2
  MaxGen = 3
  MaxBoots = 0
  MaxRestarts = 1
PROPERTY SignalledWorkerExits
CHECK_DEADLOCK FALSE
