CONSTANTS
  ga = ga  gb = gb  gc = gc
  Gateways = {ga, gb, gc}
  Rank <- MCRank
  None = None
  Freed = Freed
  Broken = Broken
  Configurations <- MCConfigurations
  Topologies <- MCTopologies
  Inf = 100
  MaxHnas = 3
  MaxSpfs = 2
  MaxFailures = 1
SPECIFICATION Spec
 
PROPERTIES NoFlapping EventuallyChosen
CHECK_DEADLOCK FALSE
