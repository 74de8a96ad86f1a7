----------------------------- MODULE MCNicCgroup -----------------------------
(***************************************************************************)
(* Instances of NicCgroup for TLC.                                         *)
(***************************************************************************)
EXTENDS NicCgroup, TLC

CONSTANTS r1, r2, target, f1, f2

\* Runs are interchangeable, and so are the processes the target may fork.
Symmetry == Permutations(Instances) \cup Permutations(Procs \ {target})
===============================================================================
