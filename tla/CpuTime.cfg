\* The whole system, or a target that is accounted on its own CPUs or on any.
CONSTANTS
  c1 = c1
  c2 = c2
  CPUs = {c1, c2}
  Setups <- SystemOrTarget
  MaxDue = 1
  MaxTime = 2
SYMMETRY Symmetry
SPECIFICATION Spec
INVARIANTS
  KernelExact
  TimeConserved
  OnlyTargetTime
PROPERTY ImplementsMeter
\* The method is stopped in the end.
CHECK_DEADLOCK FALSE
