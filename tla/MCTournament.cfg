SPECIFICATION FairSpec
CONSTANTS
  MaxEvents = 2
  CashBudget = 3
  Prices = {2}
  MaxRuns = 2
  MaxFaults = 2
INVARIANTS TypeOK OneEntryTap EntryLinesAreTickets OpeningHolds FarmRunsStayFarm
PROPERTIES ResultsStand EntriesAreSettled
CHECK_DEADLOCK FALSE
