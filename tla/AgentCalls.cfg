CONSTANTS
  Orchestrated = {o1}
  Direct = {d1}
  Models = 2
  MaxRetries = 1
  MaxToolCalls = 1
  FailureThreshold = 2
  HalfOpenMaxCalls = 1
  Limits = {1}
  StarterLimit = 1
  Estimate = 1
  MaxCost = 1
SPECIFICATION FairSpec
INVARIANTS TypeOK TestCallsAreFew OverspendIsBounded DraftsAreBounded
PROPERTY TestCallSettles
