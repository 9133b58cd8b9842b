SPECIFICATION FairSpec
CONSTANTS
  MaxActions = 2
  Cooldown = 1
  MaxIncidents = 2
  MaxScope = 3
  MaxTime = 1
INVARIANTS DoubtBlocks RecordedTruly
PROPERTIES LaneIsReturned ImplementsRecord
CHECK_DEADLOCK FALSE
