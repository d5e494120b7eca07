CONSTANTS
  Traffickers = {t1}
  Withdrawals = {w1, w2}
  Sales = {}
  Calls = {c1, c2}
  Amounts = {4}
  None = None
  Serializable = TRUE
  MaxRows = 3
SYMMETRY HandlerSymmetry
SPECIFICATION Spec
INVARIANT WithdrawalDebitedOnce
CHECK_DEADLOCK FALSE
