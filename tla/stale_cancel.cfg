SPECIFICATION Spec
CONSTANTS
  b = b
  s = s
  a1 = a1
  a2 = a2
  p1 = p1
  p2 = p2
  None = None
  Users = {b, s, a1}
  BuyerId = b
  SellerId = s
  Admins = {a1}
  Instances = {p1, p2}
  TwoStepOps = {"cancel"}
  MaxReports = 1
CHECK_DEADLOCK FALSE
PROPERTIES
  TerminalIsFinal
