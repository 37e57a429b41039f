---------------------------- MODULE MCMqttSession ----------------------------
(***************************************************************************)
(* Model-checking instance of MqttSession; the .cfg files give its bounds.  *)
(***************************************************************************)
EXTENDS MqttSession
=============================================================================
