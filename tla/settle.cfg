SPECIFICATION Spec
CONSTANTS
  None = None
  Amount = 3
  Instances = {i1}
CHECK_DEADLOCK FALSE
INVARIANTS
  TypeOK
  PrincipalCovers
  CompletedIsPaidOut
  HistoryMatchesColumns
  DisputeMatchesDeal
PROPERTIES
  PaidWithConsent
  DisputeFreezes
