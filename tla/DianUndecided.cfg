CONSTANTS
  Orders = {o1}
  None = None
  Generators = {g1}
  Submitters = {w1}
  BatchSize = 1
  MaxRetries = 2
  LastPadded = 2
  MaxNumber = 1
  MaxSubmits = 0
SPECIFICATION FairSpec
PROPERTY UndecidedIsSettled
CHECK_DEADLOCK FALSE
