CONSTANTS
  MainAddr = "a"
  Origs = {"a", "b"}
  Seqs = {1, 2, 3}
  Sample <- MCSample
  NodeId <- MCNodeId
  Delays <- MCDelays
  DeDupDepth = 3
  UseLoopback = TRUE
  SmartGw = TRUE
  MaxSize = 2
  TxNames <- MCTxNames
  UplinkSet = TRUE
  LatitudeBits = 5
  LongitudeBits = 4
  AngleUnits = 180
  AltMin <- MCAltMin
  AltMax = 65135
  SpeedMax = 4095
  HdopMax = 2047
  HalfDay = 8
  Byte = 4
  NameBuffer = 8
  EmptySlot = EmptySlot
SPECIFICATION MCSpec
INVARIANTS AverageOfWindow TimersFollowState    
PROPERTIES DeDupWindow EveryReplyEnds
CHECK_DEADLOCK FALSE
