CONSTANTS
  Total = 2
  Amounts = {1}
  Reasons = {r1}
  Handlers = {h1, h2}
  Routes = {"admin", "acp", "retracto", "retry", "notified"}
  OwnRefs = TRUE
  Serializable = TRUE
  LostAnswers = FALSE
  MaxRows = 2
SYMMETRY Symmetry
SPECIFICATION Spec
INVARIANTS TypeOK MoneyIsRecorded
PROPERTY KeepsLedger
CHECK_DEADLOCK FALSE
