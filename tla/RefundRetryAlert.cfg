CONSTANTS
  NumEvents = 1
  Events <- MCEvents
  Jobs = {j1}
  BatchSize = 1
  GiveUpAt = 5
  MaxFailures = 5
SPECIFICATION RetrySpec
INVARIANT AlertAfterFailures
CHECK_DEADLOCK FALSE
