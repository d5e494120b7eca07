CONSTANTS
  None = None
  i1 = i1
  i2 = i2
  c1 = c1
  y1 = y1
  Sessions = {s1, s2}
  Calls = {p1, p2}
  Intents = {i1}
  Carts = {c1}
  Payments = {}
  Parent <- MCParent
  ByHand = FALSE
  OrderIds = {s1, s2}
  Adults = {adult}
  Minors = {}
  Consents = {}
  Vetted = {}
  Modes = {"advance"}
  MaxAmount <- MCMaxAmount
  Values = {1, 2}
  Threshold = 2
SYMMETRY Symmetry
SPECIFICATION Spec
INVARIANT MandateUsedOnce
CHECK_DEADLOCK FALSE
