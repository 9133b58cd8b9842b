SPECIFICATION FairSpec
CONSTANTS
  Names = {a, b}
  Hideable = {a}
  MaxRuns = 2
  MaxStarts = 2
  MaxFaults = 1
INVARIANTS TypeOK 
PROPERTIES HideIsNotLost ClosedRunsAreFinal RunsFollowThePool
CHECK_DEADLOCK FALSE
