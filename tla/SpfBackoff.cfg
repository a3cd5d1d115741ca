CONSTANTS
  Nodes = {1, 2}
  Self = 1
  MaxCost = 3
  Graphs <- MCGraphs
  Later <- MCLater
  MaxChanges = 1
SPECIFICATION Spec
PROPERTY ChangesReachRoutes
CHECK_DEADLOCK FALSE
