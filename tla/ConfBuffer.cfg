CONSTANTS
  Capacity = 4
  MaxId = 9
  InOrder = TRUE
SPECIFICATION Spec
INVARIANTS OutstandingIsWanted
PROPERTY RefinesQueue
