\* A run with the nic module on a process, alone or with the cpu module before or
\* after it, under the fairness of the goroutine and the select.
CONSTANTS
  cpu = cpu
  nic = nic
  csv = csv
  target = target
  f1 = f1
  Modules = {cpu, nic}
  Outputs = {csv}
  SamplingTimes = {0, 1}
  Intervals = {0, 2}
  MaxTicks = 2
  MaxRounds = 1
  Nic = nic
  Procs = {target, f1}
  Target = target
SPECIFICATION FairEcoSpec
INVARIANTS
  TargetGivenBack
  MeasuredWhileAttached
PROPERTIES
  InterruptEndsRun
  DurationEndsRun
\* The process ends.
CHECK_DEADLOCK FALSE
