CONSTANTS
  None = None
  i1 = i1
  i2 = i2
  c1 = c1
  y1 = y1
  Sessions = {s1}
  Calls = {p1, p2}
  Intents = {i1, i2}
  Carts = {c1}
  Payments = {y1}
  Parent <- MCParent
  ByHand = TRUE
  OrderIds = {s1}
  Adults = {}
  Minors = {minor}
  Consents = {}
  Vetted = {}
  Modes = {"advance", "credit"}
  MaxAmount <- MCMaxAmount
  Values = {1, 2}
  Threshold = 2
SYMMETRY Symmetry
CONSTRAINT OneExtra
SPECIFICATION Spec
INVARIANT TypeOK
INVARIANT OrdersWereAuthorised
INVARIANT MandatesNameOrders
PROPERTY KeepsContract
CHECK_DEADLOCK FALSE
