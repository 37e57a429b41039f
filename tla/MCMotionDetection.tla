-------------------------- MODULE MCMotionDetection --------------------------
(***************************************************************************)
(* Constants for model-checking MotionDetection: a disable, which leaves    *)
(* another cooldown behind, and a start whose window crosses the border     *)
(* between two words.                                                       *)
(***************************************************************************)
EXTENDS MotionDetection

Set(e, w, c) == [enabled |-> e, warmup_ms |-> w, cooldown_ms |-> c]

MCSettings == {Set(FALSE, 1, 2), Set(TRUE, 1, 1)}
=============================================================================
