CONSTANTS
  Total = 3
  Amounts = {1, 2}
  Reasons = {r1}
  Handlers = {h1, h2}
  Routes = {"admin", "retracto", "retry"}
  OwnRefs = FALSE
  Serializable = TRUE
  LostAnswers = TRUE
  MaxRows = 3
SYMMETRY Symmetry
SPECIFICATION Spec
INVARIANTS NoTwinRefunds RefundedMeansFully
CHECK_DEADLOCK FALSE
