SPECIFICATION Spec
CONSTANTS
  None = None
  Dm = Dm
  Groups = {g1}
  Configured = g1
  Kinds = {"report", "reject", "setting"}
  MaxForms = 2
  MaxLost = 1
INVARIANTS
  TypeOK
  AnswersAreOfThisForm
  OneDealPerForm
  OneFlow
PROPERTIES
  NeverRewinds
  ExpiredIsOver
