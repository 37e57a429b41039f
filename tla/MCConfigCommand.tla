--------------------------- MODULE MCConfigCommand ---------------------------
(***************************************************************************)
(* Constants for model-checking ConfigCommand.  The values sit on both      *)
(* sides of the range checks.  The payloads touch one key, several keys of  *)
(* different services, no key; switch detector and illuminator both ways;   *)
(* and are malformed, out of range, or for a feature the build lacks.       *)
(***************************************************************************)
EXTENDS ConfigCommand, TLC

MCDefaults == HB :> 30 @@ EN :> 1 @@ WU :> 30000 @@ CD :> 5000 @@ IR :> MODE_OFF

MCRequests ==
    { EmptyPatch,
      HB :> 3600,
      EN :> 0 @@ IR :> MODE_ON,
      EN :> 1 @@ WU :> 0 @@ CD :> 60000 @@ IR :> MODE_CAPTURE,
      HB :> 0 @@ EN :> 1,
      CD :> 60001,
      HB :> 10 @@ IR :> Malformed }

\* First power-on, and a flash written by a firmware with other ranges.
MCInitialFlash == { EmptyPatch, HB :> 0 @@ EN :> 0 @@ CD :> 60000 @@ IR :> 7 }

\* A build without the detector, on the flash of one that had it.
MCFaultDefaults == HB :> 30 @@ EN :> 0 @@ WU :> 0 @@ CD :> 0 @@ IR :> MODE_OFF

MCFaultRequests ==
    { HB :> 3600 @@ IR :> MODE_ON,
      HB :> 1,
      HB :> 3601 @@ IR :> MODE_ON,
      HB :> 10 @@ EN :> 0 }

MCFaultInitialFlash == { HB :> 0 @@ EN :> 1 @@ CD :> 60000 @@ IR :> 7 }
=============================================================================
