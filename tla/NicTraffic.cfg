\* Two CPUs race on the map; a third interface, not configured, competes for room.
CONSTANTS
  c1 = c1
  c2 = c2
  CPUs = {c1, c2}
  Ifaces = {1, 2, 3}
  Configured = {1, 2}
  MaxEntries = 2
  Lens = {1}
  MaxPackets = 3
SYMMETRY Symmetry
SPECIFICATION Spec
INVARIANTS
  KernelExact
  OnlyFullMapSkips
  ChargedOnce
PROPERTY ImplementsMeter
\* The method is stopped in the end.
CHECK_DEADLOCK FALSE
