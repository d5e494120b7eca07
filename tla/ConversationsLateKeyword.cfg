SPECIFICATION Spec
CONSTANTS
  i1 = i1
  h1 = h1
  h2 = h2
  Instances = {i1}
  Handlers = {h1}
  Last = 2
  MaxCustomers = 1
  MaxConversations = 2
  MaxRecords = 2
SYMMETRY Symmetry
PROPERTIES
  LastWordCounts
