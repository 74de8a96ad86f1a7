------------------------------- MODULE MCCpuTime -------------------------------
(***************************************************************************)
(* Instances of CpuTime for TLC.                                           *)
(***************************************************************************)
EXTENDS CpuTime, TLC

CONSTANTS c1, c2

\* CPUs only differ by their names.
Symmetry == Permutations(CPUs)

\* The whole system, accounted from any CPU; the map has room for one CPU.
System == [targeted |-> FALSE, remote |-> TRUE, maxEntries |-> 1]

\* A target with threads on both CPUs, accounted where they run.
LocalTarget == [targeted |-> TRUE, remote |-> FALSE, maxEntries |-> 2]

\* One whose CPUs are accounted from the other, too.
RemoteTarget == [targeted |-> TRUE, remote |-> TRUE, maxEntries |-> 2]

SystemOrTarget == {System, LocalTarget, RemoteTarget}
===============================================================================
