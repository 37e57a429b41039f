------------------------------ MODULE SessionFlag ------------------------------
(***************************************************************************)
(* What the rest of the firmware may assume of s_connected                  *)
(* (mqtt_service.c): it goes up only in a session, follows its loss, and is *)
(* down before the next session opens.  MqttSession shows that the          *)
(* handshake keeps to it; PublishQueue lets the session take its steps, but *)
(* for those a handler blocked in a push holds up.                          *)
(***************************************************************************)
VARIABLES session, s_connected

vars == <<session, s_connected>>

Init == ~session /\ ~s_connected

Opens == ~session /\ ~s_connected /\ session' = TRUE /\ UNCHANGED s_connected
Drops == session /\ session' = FALSE /\ UNCHANGED s_connected
Raised == session /\ ~s_connected /\ s_connected' = TRUE /\ UNCHANGED session
Lowered == ~session /\ s_connected /\ s_connected' = FALSE /\ UNCHANGED session
Restart == session' = FALSE /\ s_connected' = FALSE

Next == Opens \/ Drops \/ Raised \/ Lowered \/ Restart

Spec == Init /\ [][Next]_vars
=============================================================================
