CONSTANTS
  Traffickers = {t1}
  Withdrawals = {w1, w2}
  Sales = {}
  Calls = {c1, c2}
  Amounts = {4}
  None = None
  Serializable = FALSE
  MaxRows = 3
SYMMETRY HandlerSymmetry
SPECIFICATION Spec
INVARIANT PostedMatchesBalance
CHECK_DEADLOCK FALSE
