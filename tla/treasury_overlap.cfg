SPECIFICATION Spec
CONSTANTS
  b = b
  s = s
  h = h
  d1 = d1
  d2 = d2
  in1 = in1
  in2 = in2
  w1 = w1
  p1 = p1
  p2 = p2
  None = None
  Users = {b, s}
  House = h
  Opened = {b, s, h}
  Deals = {d1}
  Deposits = {in1, in2}
  Withdrawals = {w1}
  Instances = {p1, p2}
  Api = "treasury"
  RefundsFee = FALSE
  Terms <- MCTerms
  Incoming <- MCIncoming
  Outgoing <- MCOutgoing
CHECK_DEADLOCK FALSE
INVARIANTS
  TypeOK
  Reconciles
  Conserved
PROPERTIES
  KeepsLedger
