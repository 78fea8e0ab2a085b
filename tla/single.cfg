SPECIFICATION Spec
CONSTANTS
  b = b
  s = s
  a1 = a1
  a2 = a2
  p1 = p1
  p2 = p2
  None = None
  Users = {b, s, a1, a2}
  BuyerId = b
  SellerId = s
  Admins = {a1, a2}
  Instances = {p1}
  TwoStepOps = {"cancel", "expire", "evidence", "join"}
  MaxReports = 3
CHECK_DEADLOCK FALSE
INVARIANTS
  StatusMatchesReports
PROPERTIES
  DecidedReportsFrozen
