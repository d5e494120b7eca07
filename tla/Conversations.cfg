SPECIFICATION Spec
CONSTANTS
  i1 = i1
  h1 = h1
  h2 = h2
  Instances = {i1}
  Handlers = {h1, h2}
  Last = 2
  MaxCustomers = 1
  MaxConversations = 2
  MaxRecords = 2
SYMMETRY Symmetry
CONSTRAINT Apart
INVARIANTS
  TypeOK
  PersistedOnce
  StopIsHeard
  TakeoverHolds
