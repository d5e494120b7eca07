CONSTANTS
  Orders = {o1, o2}
  None = None
  Generators = {g1, g2}
  Submitters = {w1, w2}
  BatchSize = 1
  MaxRetries = 2
  LastPadded = 2
  MaxNumber = 3
  MaxSubmits = 1
SPECIFICATION Spec
SYMMETRY MCSymmetry
CONSTRAINTS MCOneSubmitted MCNumbersFirst
INVARIANTS TypeOK NumbersDiffer AcceptedByDian GivenUpWhenTried
CHECK_DEADLOCK FALSE
