SPECIFICATION Spec
CONSTANTS
  lab = lab
  row = row
  w1 = w1
  w2 = w2
  Nobody = Nobody
  Keys = {lab, row}
  LegacyKeys = {row}
  Workers = {w1, w2}
  Operation <- Operations2
  Price <- Prices
  Amounts = {1, 3}
  Reserve = 0
  MaxScope = 2
  MaxTime = 2
  MaxAge = 1
  SettleTime = 2
  Recent = 2
  Patience = 2
  DispatchBound = 1
SYMMETRY Symmetric
CHECK_DEADLOCK FALSE
INVARIANTS ReadingsCoverTaps BookedExactlyWhatWasProven
PROPERTIES ImplementsGate
