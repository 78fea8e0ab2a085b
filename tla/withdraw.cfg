SPECIFICATION Spec
CONSTANTS
  w1 = w1
  w2 = w2
  w3 = w3
  p1 = p1
  p2 = p2
  k1 = k1
  None = None
  Requests = {w1, w2, w3}
  Amount <- MCAmount
  Funds = 3
  Instances = {p1, p2}
  Workers = {k1}
  Attempts = 2
  MaxFaults = 1
CHECK_DEADLOCK FALSE
INVARIANTS
  WithdrawalTypeOK
  HistoryHasCause
PROPERTIES
  KeepsPayout
  UsesLedger
  FaultStrandsOne
