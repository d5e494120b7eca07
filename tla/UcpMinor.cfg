CONSTANTS
  None = None
  i1 = i1
  i2 = i2
  c1 = c1
  y1 = y1
  Sessions = {s1}
  Calls = {p1, p2}
  Intents = {i1}
  Carts = {c1}
  Payments = {}
  Parent <- MCParent
  ByHand = FALSE
  OrderIds = {s1}
  Adults = {}
  Minors = {minor}
  Consents = {}
  Vetted = {}
  Modes = {"advance", "credit"}
  MaxAmount <- MCMaxAmount
  Values = {1, 2}
  Threshold = 2
SYMMETRY Symmetry
SPECIFICATION Spec
INVARIANT MinorsNeedConsent
CHECK_DEADLOCK FALSE
