CONSTANTS
  Timers = {t1, t2}
  NoTimer = none
  Slots = 2
  ClockMod = 20
  MaxStall = 3
  RelTimes = {2, 3}
  JitterPct = 50
  if1 = if1  if2 = if2  n1 = n1  None = None  a1 = a1  b1 = b1
SPECIFICATION MCSpec
INVARIANTS WheelConsistent NeverVeryLate
INVARIANT HandlersMatch
PROPERTIES WalkEnds  NotBothWaitingIfPast
CHECK_DEADLOCK FALSE
