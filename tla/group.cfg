SPECIFICATION CardSpec
CONSTANTS
  b = b
  s = s
  o = o
  a1 = a1
  p1 = p1
  p2 = p2
  None = None
  Users = {b, s, o, a1}
  BuyerId = b
  SellerId = s
  Admins = {o, a1}
  Owner = o
  GlobalAdmins = {}
  Instances = {p1}
  TwoStepOps = {"cancel", "expire", "evidence"}
  MaxReports = 2
INVARIANTS
  NotMisled
  CardShowsDeal
  ReportIsAnswerable
PROPERTIES
  ActsWithRights
  KeepsPromise
