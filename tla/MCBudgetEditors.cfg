SPECIFICATION Spec
CONSTANTS
  s1 = s1
  s2 = s2
  wa = wa
  wb = wb
  r1 = r1
  r2 = r2
  r3 = r3
  ia = ia
  ib = ib
  e1 = e1
  e2 = e2
  Nobody = Nobody
  HardIncident = 3
  HardDaily = 3
  HardCalls = 2
  Slots = 2
  Services = {s1}
  WorkerOf <- OneService
  Requests = {r1, r2, r3}
  OwnerOf <- OneOwner
  IncidentOf <- OneIncident
  Editors = {e1, e2}
  Proposals <- Choices
  Documents = {0, 1}
  Quotes = {1}
  Charges = {1, 2}
  MaxDay = 0
  MaxRevision = 3
SYMMETRY Alike
CHECK_DEADLOCK FALSE
PROPERTIES EditorsReplaceWhatTheyReviewed OverchargeStopsSpending
