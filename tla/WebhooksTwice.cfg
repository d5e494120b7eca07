CONSTANTS
  approved = approved
  again = again
  silent = silent
  wrong = wrong
  card = card
  pending = pending
  refund = refund
  Notifications = {approved, pending}
  Status <- MCStatus
  Success <- MCSuccess
  Amount <- MCAmount
  CardFails <- MCCardFails
  Instances = {i1, i2}
  Handlers = {h1, h2}
  TTLElapses = FALSE
  MaxApplied = 2
SYMMETRY Symmetry
SPECIFICATION Spec
INVARIANT ProcessedOnce
