----------------------------- MODULE OutboundFifo -----------------------------
(***************************************************************************)
(* What the publish queue promises its callers (docs/ethernet-mqtt.md,      *)
(* "Publish Queue"): a publication it accepts is handed to the MQTT client  *)
(* once, in the order of acceptance, unless a restart wipes it; one it      *)
(* refuses is never handed over, and it refuses only while Capacity         *)
(* accepted ones wait.                                                      *)
(***************************************************************************)
EXTENDS Naturals, Sequences

CONSTANTS Messages, Capacity

VARIABLES
    accepted,  \* the publications accepted and not wiped, oldest first
    handed,    \* those the MQTT client has taken over
    refused    \* the publications whose caller was told of a failure

vars == <<accepted, handed, refused>>

Waiting == Len(accepted) - Len(handed)

Init == accepted = <<>> /\ handed = <<>> /\ refused = {}

\* One more may wait outside the queue: the one the worker is retrying.
Accept == /\ Waiting <= Capacity
          /\ \E m \in Messages \ refused : accepted' = Append(accepted, m)
          /\ UNCHANGED <<handed, refused>>

\* A caller that cannot go on without the publication restarts the node.
Refuse == /\ Waiting >= Capacity
          /\ \E m \in Messages : refused' = refused \cup {m}
          /\ accepted' \in {accepted, handed}
          /\ UNCHANGED handed

HandOver == /\ Waiting > 0
            /\ handed' = Append(handed, accepted[Len(handed) + 1])
            /\ UNCHANGED <<accepted, refused>>

Wipe == /\ accepted' = handed
        /\ UNCHANGED <<handed, refused>>

Next == Accept \/ Refuse \/ HandOver \/ Wipe

Spec == Init /\ [][Next]_vars
=============================================================================
