CONSTANTS
  Origs = {1, 2}
  Prefixes = {"p"}
  DefaultDst = "dflt"
  LinkLocal = {}
  NextHops = {"a", "b"}
  Ifaces = {}
  IfaceOf <- MCIfaceOf
  Routes <- MCRoutes
  MaxHops = 2
  NatNum = 1
  NatDen = 2
  FibMetric = "FLAT"
  KernelFails = TRUE
  eth = eth  ppp = ppp  ta = ta  tb = tb  g1 = g1  g2 = g2  None = None
SPECIFICATION MCSpec
INVARIANTS   CleanRunHeals LostInterface 
CHECK_DEADLOCK FALSE
