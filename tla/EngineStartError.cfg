\* A statement of the repository the code does not keep.
CONSTANTS
  cpu = cpu
  nic = nic
  csv = csv
  mqtt = mqtt
  Modules = {cpu, nic}
  Outputs = {csv, mqtt}
  SamplingTimes = {0, 1, 2}
  Intervals = {0, 1, 2, 3}
  MaxTicks = 3
  MaxRounds = 2
SPECIFICATION Spec
INVARIANT StartedModulesStopped
\* The process ends.
CHECK_DEADLOCK FALSE
