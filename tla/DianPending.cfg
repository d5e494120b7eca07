CONSTANTS
  Orders = {o1}
  None = None
  Generators = {g1}
  Submitters = {w1, w2}
  BatchSize = 1
  MaxRetries = 2
  LastPadded = 2
  MaxNumber = 1
  MaxSubmits = 1
SPECIFICATION FairSpec
PROPERTY PendingIsSettled
CHECK_DEADLOCK FALSE
