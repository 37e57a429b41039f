---------------------------- MODULE MCPublishQueue ----------------------------
(***************************************************************************)
(* Model-checking instance of PublishQueue; the .cfg files give its bounds. *)
(***************************************************************************)
EXTENDS PublishQueue
=============================================================================
