\* Safety of a run: two modules, two outputs, every order, every interleaving.
CONSTANTS
  cpu = cpu
  nic = nic
  csv = csv
  mqtt = mqtt
  Modules = {cpu, nic}
  Outputs = {csv, mqtt}
  SamplingTimes = {0, 1, 2}
  Intervals = {0, 1, 2, 3}
  MaxTicks = 4
  MaxRounds = 3
SYMMETRY Symmetry
SPECIFICATION Spec
INVARIANTS
  FanOut
  ModulesReleased
  AllOutputsClosed
  NoTickForgotten
PROPERTY ImplementsPipeline
\* The process ends.
CHECK_DEADLOCK FALSE
