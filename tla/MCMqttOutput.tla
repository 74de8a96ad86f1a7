----------------------------- MODULE MCMqttOutput -----------------------------
(***************************************************************************)
(* Instances of MqttOutput for TLC.                                        *)
(***************************************************************************)
EXTENDS MqttOutput

CONSTANTS r1, r2

\* Two runs with the default id (mqtt.go:34).
DefaultID == [r \in Runs |-> "ecofloc"]
===============================================================================
