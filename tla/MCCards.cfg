SPECIFICATION FairSpec
CONSTANTS
  Buys = {b1, b2}
  Applies = {a1}
  Start = {c1}
  Desired = {c2}
  Price = 1
  Cap = 1
  MaxOps = 2
  MaxCycles = 2
  MaxFaults = 1
INVARIANTS CapHolds BookedTruly
PROPERTIES CyclesStartClean CanceledTakesNoInput ToggleLandsAsClaimed
PROPERTIES ImplementsGate CardsLetGo ReceiptSettles
CHECK_DEADLOCK FALSE
