CONSTANTS
  single = single  double = double  alias = alias  far = far  eth = eth  wlan = wlan
  Links <- MCLinks
  Listed = {alias, far}
  Main <- MCMain
SPECIFICATION MCSpec
INVARIANTS TablesLinked SymLinkSymNeighbor RecalculationDue
INVARIANTS  DeadLink
CHECK_DEADLOCK FALSE
