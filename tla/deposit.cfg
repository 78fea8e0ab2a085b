SPECIFICATION Spec
CONSTANTS
  t1 = t1
  u1 = u1
  p1 = p1
  p2 = p2
  None = None
  Trc20 = {t1}
  Bep20 = {u1}
  Polls = {p1, p2}
  TrcConfs = 1
  BepConfs = 2
  TrcLookback = 2
  BepLookback = 1
  Window = 1
  Batch = 1
  MaxBlock = 3
  MaxFaults = 1
INVARIANTS
  DepositTypeOK
  ConfirmedIsCredited
  CreditedIsFinal
  ScannedIsRecorded
PROPERTIES
  DepositsArrive
