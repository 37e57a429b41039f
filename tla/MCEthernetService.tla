--------------------------- MODULE MCEthernetService ---------------------------
(***************************************************************************)
(* Model-checking instance of EthernetService; the .cfg files give its      *)
(* bounds.  Two gateways are enough for one lease to differ from another.   *)
(***************************************************************************)
EXTENDS EthernetService
=============================================================================
