CONSTANTS
  Orders = {o1, o2}
  Calls = {c1, c2}
  Amounts = {3, 5}
  Commissions = {1}
  BatchSize = 2
SYMMETRY Symmetry
SPECIFICATION Spec
INVARIANT PaidAtMostOnce
CHECK_DEADLOCK FALSE
