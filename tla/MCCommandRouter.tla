---------------------------- MODULE MCCommandRouter ----------------------------
(***************************************************************************)
(* Model-checking instance of CommandRouter.  Lengths are scaled down: a    *)
(* client buffer of 8 and payloads up to 11, so that a payload may take two *)
(* events and still pass; the reply topic has exactly the room it needs.    *)
(***************************************************************************)
EXTENDS CommandRouter

Payload(len, end, id) ==
    [len |-> len, object_end |-> end, id_len |-> id, again |-> len > end]

MCPayloads == {
    Payload(5, 5, 3),          \* an ordinary command
    Payload(5, 5, 0),          \* an empty request_id
    Payload(8, 8, 15),         \* the longest request_id
    Payload(8, 8, 16),         \* one too long
    Payload(11, 11, 3),        \* cut in two inside its object
    Payload(16, 6, 3),         \* cut in two after its object
    Payload(0, 0, Missing)}    \* empty
=============================================================================
