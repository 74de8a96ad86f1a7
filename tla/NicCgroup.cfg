\* Two runs, in sequence or overlapping, with failures, kills, forks and exits.
CONSTANTS
  r1 = r1
  r2 = r2
  target = target
  f1 = f1
  f2 = f2
  Instances = {r1, r2}
  Procs = {target, f1, f2}
  Target = target
SYMMETRY Symmetry
SPECIFICATION Spec
INVARIANTS
  TargetReturned
  OnlyLateForksLeak
  TargetMeasured
\* The runs end and the processes may have exited.
CHECK_DEADLOCK FALSE
