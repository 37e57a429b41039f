----------------------------- MODULE ConfigStore -----------------------------
(***************************************************************************)
(* What cmd/config promises (docs/runtime-config.md, "Atomic Update"): the  *)
(* settings a restart brings back change only by one whole validated update *)
(* at a time, an update answered ok has happened, and one answered with an  *)
(* error has not.  A crash may come at any time, and then the client does   *)
(* not learn which of the two it was.  Two things can weaken it, each with a *)
(* constant of its own: a boot that erases NVS, and a flash driver that     *)
(* writes entries of an update before the update is committed.              *)
(***************************************************************************)
EXTENDS RuntimeConfig

CONSTANTS
    Requests, Durables,
    Erasable,  \* may the settings be set back to the defaults?
    Leaky      \* may a setting of an update get through ahead of the rest?

VARIABLES
    durable,  \* the settings that survive a restart
    client,   \* "idle", or its command is "pending" or "applied"
    request,  \* the update its command asks for; empty when refused
    answer    \* the last answer it got: "none", "ok" or "failed"

vars == <<durable, client, request, answer>>

Init == /\ durable \in Durables
        /\ client = "idle"
        /\ request = EmptyPatch
        /\ answer = "none"

Submit == /\ client = "idle"
          /\ \E r \in Requests :
                request' = IF ParseAndValidate(r) = "OK" THEN r ELSE EmptyPatch
          /\ client' = "pending"
          /\ answer' = "none"
          /\ UNCHANGED durable

Commit == /\ client = "pending"
          /\ durable' = Overlay(durable, request)
          /\ client' = "applied"
          /\ UNCHANGED <<request, answer>>

AnswerOk == /\ client = "applied" \/ (client = "pending" /\ request = EmptyPatch)
            /\ answer' = "ok"
            /\ client' = "idle"
            /\ request' = EmptyPatch
            /\ UNCHANGED durable

AnswerFailed == /\ client = "pending"
                /\ answer' = "failed"
                /\ client' = "idle"
                /\ request' = EmptyPatch
                /\ UNCHANGED durable

\* A restart, or a command that ends without an answer.
Crash == /\ client' = "idle"
         /\ request' = EmptyPatch
         /\ UNCHANGED <<durable, answer>>

Erase == /\ Erasable
         /\ client = "idle"
         /\ durable' = Restore(EmptyPatch)
         /\ UNCHANGED <<client, request, answer>>

Leak == /\ Leaky
        /\ client = "pending"
        /\ \E k \in DOMAIN request :
              durable' = Overlay(durable, [j \in {k} |-> request[k]])
        /\ UNCHANGED <<client, request, answer>>

Next == Submit \/ Commit \/ AnswerOk \/ AnswerFailed \/ Crash \/ Erase \/ Leak

Spec == Init /\ [][Next]_vars
=============================================================================
