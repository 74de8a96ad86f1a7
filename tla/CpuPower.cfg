\* A core with two vcores.
CONSTANTS
  v1 = v1
  v2 = v2
  VCores = {v1, v2}
  Cores = {1}
  CoreOf <- TwoThreads
  MaxClock = 3
SYMMETRY Symmetry
SPECIFICATION PowerSpec
INVARIANTS
  PowerTypeOK
  PricedWithinWall
  CutIsBounded
\* The method is stopped in the end.
CHECK_DEADLOCK FALSE
