SPECIFICATION Spec
CONSTANTS
  MaxPid = 3
  MaxGen = 3
  MaxBoots = 1
  MaxRestarts = 1
INVARIANTS TypeOK FencedStaysFenced RestartStaysPossible OneRecordedWorker
PROPERTIES PauseHolds
CHECK_DEADLOCK FALSE
