------------------------------ MODULE MCCsvOutput ------------------------------
(***************************************************************************)
(* Instances of CsvOutput for TLC.                                         *)
(***************************************************************************)
EXTENDS CsvOutput

CONSTANTS r1, r2

\* Runs only differ by their names.
Symmetry == Permutations(Runs)

\* One run after the other, in any mode; runs at the same time that append; or
\* runs at the same time in any mode, of which only the types are claimed.
InTurn   == [modes |-> BOOLEAN, overlap |-> FALSE]
Together == [modes |-> {TRUE}, overlap |-> TRUE]

Anyhow   == [modes |-> BOOLEAN, overlap |-> TRUE]

AnySetup == {InTurn, Together, Anyhow}
===============================================================================
