CONSTANTS
  approved = approved
  again = again
  silent = silent
  wrong = wrong
  card = card
  pending = pending
  refund = refund
  Notifications = {silent, wrong, pending}
  Status <- MCStatus
  Success <- MCSuccess
  Amount <- MCAmount
  CardFails <- MCCardFails
  Instances = {i1}
  Handlers = {h1, h2}
  TTLElapses = TRUE
  MaxApplied = 1
SYMMETRY Symmetry
SPECIFICATION Spec
INVARIANTS TypeOK PaidBySoundPayment PaidIsDated OneWorkerPerNotification
