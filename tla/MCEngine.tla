------------------------------- MODULE MCEngine -------------------------------
(***************************************************************************)
(* Instances of Engine for TLC.                                            *)
(***************************************************************************)
EXTENDS Engine, TLC

CONSTANTS cpu, nic, csv, mqtt

\* Nothing tells two modules, or two outputs, apart.
Symmetry == Permutations({cpu, nic}) \cup Permutations({csv, mqtt})
===============================================================================
