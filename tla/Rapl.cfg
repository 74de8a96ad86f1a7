\* The whole system, or a target that may exit and whose pid may be given again;
\* the energy counter wraps, more than once between samples too.
CONSTANTS
  PidModes = {TRUE, FALSE}
  MaxRange = 2
  Word = 16
  MaxEnergy = 5
  MaxBusy = 3
SPECIFICATION Spec
INVARIANTS
  WrapIsNearlyExact
  TimeSharedOnce
  ShareIsBounded
PROPERTY ImplementsMeter
\* The method is stopped in the end and the bounds are reached.
CHECK_DEADLOCK FALSE
