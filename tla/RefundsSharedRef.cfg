CONSTANTS
  Total = 4
  Amounts = {1, 2}
  Reasons = {r1}
  Handlers = {h1}
  Routes = {"admin"}
  OwnRefs = FALSE
  Serializable = TRUE
  LostAnswers = FALSE
  MaxRows = 3
SYMMETRY Symmetry
SPECIFICATION Spec
INVARIANT MoneyIsRecorded
CHECK_DEADLOCK FALSE
