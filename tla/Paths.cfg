CONSTANTS
  Nodes = {1, 2, 3, 4}
  Self = 1
  MaxCost = 3
  Graphs <- MCGraphs
  Later <- MCLater
  MaxChanges = 1
SPECIFICATION MCSpec
INVARIANTS Certificate ShortestPaths OnlyLinkKept
CHECK_DEADLOCK FALSE
