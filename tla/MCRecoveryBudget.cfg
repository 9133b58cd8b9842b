SPECIFICATION Spec
CONSTANTS
  s1 = s1
  s2 = s2
  wa = wa
  wb = wb
  r1 = r1
  r2 = r2
  r3 = r3
  ia = ia
  ib = ib
  e1 = e1
  e2 = e2
  Nobody = Nobody
  HardIncident = 2
  HardDaily = 3
  HardCalls = 2
  Slots = 2
  Services = {s1, s2}
  WorkerOf <- TwoServices
  Requests = {r1, r2, r3}
  OwnerOf <- Owners
  IncidentOf <- Incidents
  Editors = {}
  Proposals <- Narrow
  Documents = {0}
  Quotes = {1, 2}
  Charges = {1, 2}
  MaxDay = 1
  MaxRevision = 1
SYMMETRY SameIncident
CHECK_DEADLOCK FALSE
INVARIANTS OnePost MoneyIsBounded
