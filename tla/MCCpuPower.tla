------------------------------ MODULE MCCpuPower ------------------------------
(***************************************************************************)
(* Instances of CpuPower for TLC.                                          *)
(***************************************************************************)
EXTENDS CpuPower, TLC

CONSTANTS v1, v2

\* Two vcores on one core: only their names differ.
TwoThreads == [v \in VCores |-> 1]
Symmetry == Permutations(VCores)
===============================================================================
