CONSTANTS
  Origs = {o1}
  HalfSeq = 6
  Window = 3
  MaxTooLow = 3
  VTime = 2
  ClockMod = 16
  MaxTicks = 6
  na = na  nb = nb  nc = nc  nd = nd  nx = nx
  aw = aw  bw = bw  cw = cw  dw = dw  ce = ce  xe = xe
SPECIFICATION MCSpec
INVARIANTS OnlyFirstRepeats NothingGoesRound
PROPERTIES QuietBeforeForget 
CHECK_DEADLOCK FALSE
