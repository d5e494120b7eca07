CONSTANTS
  NumEvents = 2
  Events <- MCEvents
  Jobs = {j1, j2}
  BatchSize = 2
  GiveUpAt = 5
  MaxFailures = 0
SPECIFICATION RetryFairSpec
INVARIANTS RetryTypeOK RefundedWasPaid
PROPERTY NamedIsRefunded
CHECK_DEADLOCK FALSE
