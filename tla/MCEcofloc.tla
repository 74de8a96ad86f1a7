------------------------------ MODULE MCEcofloc ------------------------------
(***************************************************************************)
(* Instances of Ecofloc for TLC.                                           *)
(***************************************************************************)
EXTENDS Ecofloc

CONSTANTS cpu, nic, csv, target, f1
===============================================================================
