----------------------------- MODULE MCNicTraffic -----------------------------
(***************************************************************************)
(* Instances of NicTraffic for TLC.                                        *)
(***************************************************************************)
EXTENDS NicTraffic, TLC

CONSTANTS c1, c2

\* The programs do not look at the CPU they run on.
Symmetry == Permutations({c1, c2})
===============================================================================
