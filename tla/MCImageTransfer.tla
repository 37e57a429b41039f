---------------------------- MODULE MCImageTransfer ----------------------------
(***************************************************************************)
(* Model-checking instance of ImageTransfer, with chunks of two bytes: an   *)
(* image with a short last chunk, an empty one, and one of whole chunks     *)
(* whose capture_id leaves no room for the index of the last.               *)
(***************************************************************************)
EXTENDS ImageTransfer

MCDataLen == [short |-> 3, empty |-> 0, long |-> 4]
MCIndexRoom == [short |-> 10, empty |-> 10, long |-> 1]
MCCaptures == DOMAIN MCDataLen
=============================================================================
