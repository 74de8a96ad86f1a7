--------------------------------- MODULE Meter ---------------------------------
(***************************************************************************)
(* What a measurement method promises (core/method.go, core/module.go):    *)
(* consumption on a channel (a direction of an interface, a logical CPU, an *)
(* energy counter) only grows, and a call of Measure charges consumption   *)
(* that happened and was not charged before: nothing twice, nothing that   *)
(* did not happen, nothing taken back.                                     *)
(***************************************************************************)
EXTENDS Naturals

CONSTANT Channels

VARIABLES consumed, \* consumed[c]: what the workload has used since Start
          charged   \* charged[c]: what the samples so far account for

meterVars == <<consumed, charged>>

Init ==
  /\ consumed = [c \in Channels |-> 0]
  /\ charged  = [c \in Channels |-> 0]

\* The workload goes on, on any of its channels.
Consume ==
  /\ \A c \in Channels : consumed'[c] >= consumed[c]
  /\ UNCHANGED charged

\* A sample is produced.
Charge ==
  /\ \A c \in Channels : charged'[c] \in charged[c]..consumed[c]
  /\ UNCHANGED consumed

Next == Consume \/ Charge

Spec == Init /\ [][Next]_meterVars
================================================================================
