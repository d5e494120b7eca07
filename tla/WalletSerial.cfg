CONSTANTS
  Traffickers = {t1}
  Withdrawals = {w1, w2}
  Sales = {s1}
  Calls = {c1, c2}
  Amounts = {4}
  None = None
  Serializable = TRUE
  MaxRows = 3
SYMMETRY HandlerSymmetry
SPECIFICATION Spec
INVARIANTS TypeOK NonNegativeBalance DebitIffCompleted PostedMatchesBalance
PROPERTY KeepsPromise
CHECK_DEADLOCK FALSE
