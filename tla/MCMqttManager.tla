--------------------------- MODULE MCMqttManager ---------------------------
(* Instances of MqttManager for TLC. *)
EXTENDS MqttManager
=============================================================================
