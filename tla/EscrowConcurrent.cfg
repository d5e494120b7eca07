CONSTANTS
  Orders = {o1, o2}
  Calls = {c1, c2}
  Amounts = {3}
  Commissions = {1}
  BatchSize = 1
SPECIFICATION FairSpec
INVARIANTS TypeOK ReleasedIsPaid
PROPERTIES ExpiredIsSettled KeepsContract
CHECK_DEADLOCK FALSE
