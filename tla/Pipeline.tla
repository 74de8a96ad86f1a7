------------------------------- MODULE Pipeline -------------------------------
(***************************************************************************)
(* What the engine and the aggregator promise together, seen from the      *)
(* outputs (core/aggregator.go, ARCHITECTURE.md "Aggregator"): every batch *)
(* of samples reaches every wired output, in the order it was measured, as *)
(* if the fan-out were one step; once an output has been closed nothing is *)
(* handed to any output any more, and each output is closed at most once.  *)
(***************************************************************************)
EXTENDS Sequences

CONSTANTS Batches, \* what a call of Process can carry
          Outputs  \* every output that could be wired

VARIABLES wired,   \* the outputs of this run
          log,     \* log[o]: the batches handed to o, oldest first
          closed   \* the outputs that have been closed

pipelineVars == <<wired, log, closed>>

Init ==
  /\ wired \in SUBSET Outputs
  /\ log = [o \in Outputs |-> <<>>]
  /\ closed = {}

\* Aggregator.Process, as one step.
Emit(b) ==
  /\ closed = {}
  /\ log' = [o \in Outputs |->
               IF o \in wired THEN Append(log[o], b) ELSE log[o]]
  /\ UNCHANGED <<wired, closed>>

\* Output.Close, from Aggregator.Close.
Close(o) ==
  /\ o \in wired \ closed
  /\ closed' = closed \cup {o}
  /\ UNCHANGED <<wired, log>>

Next ==
  \/ \E b \in Batches : Emit(b)
  \/ \E o \in Outputs : Close(o)

Spec == Init /\ [][Next]_pipelineVars
===============================================================================
