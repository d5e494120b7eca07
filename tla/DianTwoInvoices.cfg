CONSTANTS
  Orders = {o1}
  None = None
  Generators = {g1}
  Submitters = {w1}
  BatchSize = 1
  MaxRetries = 2
  LastPadded = 2
  MaxNumber = 2
  MaxSubmits = 1
SPECIFICATION Spec
INVARIANT OneInvoice
CHECK_DEADLOCK FALSE
