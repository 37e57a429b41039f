---------------------------- MODULE MCHeartbeatTask ----------------------------
(***************************************************************************)
(* Model-checking instance of HeartbeatTask, scaled down so that, as in the *)
(* code, the longest interval just fits a word on its way to ticks: 3 * 10  *)
(* * 10 < 320, and one second more would not.                               *)
(***************************************************************************)
EXTENDS HeartbeatTask
=============================================================================
