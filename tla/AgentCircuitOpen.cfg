CONSTANTS
  Orchestrated = {o1}
  Direct = {}
  Models = 1
  MaxRetries = 0
  MaxToolCalls = 0
  FailureThreshold = 2
  HalfOpenMaxCalls = 1
  Limits = {2}
  StarterLimit = 1
  Estimate = 1
  MaxCost = 1
SPECIFICATION FairSpec
PROPERTY CircuitCloses
