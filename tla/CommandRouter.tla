----------------------------- MODULE CommandRouter -----------------------------
(***************************************************************************)
(* From a message of the broker to its answer: the DATA events esp-mqtt     *)
(* makes of it, command_router_handle's checks and dispatch, the handlers,  *)
(* and the reboot task, which publishes past the queue and restarts.        *)
(*                                                                          *)
(* What a cmd/config does to the node is ConfigCommand's matter; how the    *)
(* queue hands publications over, PublishQueue's: here it is the FIFO they  *)
(* show it to be.  Topics and payloads are reduced to what the checks look  *)
(* at: which command the topic matches, and lengths.                        *)
(***************************************************************************)
EXTENDS Integers, Sequences

CONSTANTS
    Payloads,      \* payloads sent: [len, object_end, id_len, again], see below
    NodeLen,       \* length of APP_NODE_ID
    TopicMax,      \* APP_TOPIC_MAX_LEN
    RequestIdMax,  \* APP_REQUEST_ID_MAX_LEN
    PayloadMax,    \* APP_JSON_PAYLOAD_MAX_LEN
    ClientBuffer,  \* payload bytes esp-mqtt reports in one DATA event
    QueueLength,   \* APP_PUBLISH_QUEUE_LENGTH
    MaxMessages    \* bound: messages sent to the node over a whole behavior

\* object_end is the length of the JSON object the payload starts with, 0 when
\* it starts with something else; id_len that of its request_id, Missing when
\* the object has none or one that is not a string.  again: the bytes past the
\* client's buffer start with a JSON object as well.
Missing == -1

ASSUME RouterAssumption ==
    /\ Payloads \subseteq [len: Nat, object_end: Nat, id_len: Nat \cup {Missing},
                    again: BOOLEAN]
    /\ \A p \in Payloads : p.object_end <= p.len
    /\ {NodeLen, TopicMax, RequestIdMax, PayloadMax, ClientBuffer, MaxMessages,
        QueueLength} \subseteq Nat
    /\ NodeLen > 0 /\ ClientBuffer > 0 /\ MaxMessages > 0

Prefix == 13    \* "vision/nodes/"
ReplyPart == 7  \* "/reply/"

\* topic_map_init: app_main starts nothing when it fails.
ASSUME TopicMapInit ==
    NodeLen < RequestIdMax /\ Prefix + NodeLen + Len("/status/heartbeat") < TopicMax

Topics == {"ping", "config", "reboot", "capture", "other"}
Kinds == {"reply", "config_updated", "capture_failed"}
Event == [topic: Topics \cup {""}, len: Nat, object_end: Nat,
          id_len: Nat \cup {Missing}, msg: 1..MaxMessages]
Publication == [msg: 1..MaxMessages, kind: Kinds]

VARIABLES
    connected,  \* is there a session?
    count,      \* messages sent so far
    inbox,      \* the DATA events the client has still to report
    todo,       \* the kinds the running handler has still to publish, in order
    current,    \* the event it handles
    queue,      \* accepted by the publish queue, not yet with the client
    reboots,    \* the reboot tasks: where the one of each message is
    handed,     \* history: what the client has taken over
    executed    \* history: the events dispatched to a handler

router == <<todo, current, reboots, executed>>
outbound == <<queue, handed>>
vars == <<connected, count, inbox, todo, current, queue, reboots, handed,
          executed>>

NoEvent == [topic |-> "", len |-> 0, object_end |-> 0, id_len |-> Missing, msg |-> 1]
Stages == {"none", "publish", "delay"}

Init ==
    /\ connected = FALSE /\ count = 0 /\ inbox = <<>>
    /\ todo = <<>> /\ current = NoEvent /\ queue = <<>>
    /\ reboots = [n \in 1..MaxMessages |-> "none"]
    /\ handed = <<>> /\ executed = <<>>
-----------------------------------------------------------------------------
\* Mutants of definitions below.
bug_IsCommand(e) == e.topic # "other"
bug_HasRequestId(e) == e.id_len # Missing /\ e.id_len <= RequestIdMax
bug_Publishes(e) == IF e.topic = "config" THEN {<<"reply", "config_updated">>} ELSE {<<"reply">>}
bug_Publishes_twice(e) == {<<"reply", "reply">>}
bug_Announced(n) == reboots[n] = "delay" /\ connected
-----------------------------------------------------------------------------
(***************************************************************************)
(* The session and the client.  A payload longer than the client's buffer   *)
(* comes in several events; only the first one has the topic.               *)
(***************************************************************************)
SessionOpens ==
    /\ ~connected
    /\ connected' = TRUE
    /\ UNCHANGED <<count, inbox, router, outbound>>

SessionDrops ==
    /\ connected
    /\ connected' = FALSE /\ inbox' = <<>>
    /\ UNCHANGED <<count, router, outbound>>

\* At least one event, even for an empty payload.
Fragments(t, p, n) ==
    [i \in 1..(1 + (IF p.len = 0 THEN 0 ELSE (p.len - 1) \div ClientBuffer)) |->
        LET left == p.len - (i - 1) * ClientBuffer
            here == IF left > ClientBuffer THEN ClientBuffer ELSE left
        IN  [topic |-> IF i = 1 THEN t ELSE "", len |-> here, msg |-> n,
             object_end |-> IF i > 1 THEN (IF p.again THEN 1 ELSE 0)
                            ELSE IF p.object_end <= here THEN p.object_end ELSE 0,
             id_len |-> p.id_len]]

Deliver ==
    /\ connected /\ count < MaxMessages
    /\ count' = count + 1
    /\ \E t \in Topics, p \in Payloads : inbox' = inbox \o Fragments(t, p, count')
    /\ UNCHANGED <<connected, router, outbound>>
-----------------------------------------------------------------------------
(***************************************************************************)
(* command_router_handle                                                    *)
(***************************************************************************)
\* topic_map_is_..._topic; a topic too long for the buffer matches none.
IsCommand(e) == e.topic \in {"ping", "config", "reboot", "capture"}

\* cJSON parses the object the data starts with and ignores what follows.
HasObject(e) == e.len > 0 /\ e.len < PayloadMax /\ e.object_end > 0

HasRequestId(e) == e.id_len # Missing /\ e.id_len < RequestIdMax

Accepts(e) == IsCommand(e) /\ HasObject(e) /\ HasRequestId(e)

\* topic_map_format_reply_topic
ReplyTopicFits(len) == len > 0 /\ Prefix + NodeLen + ReplyPart + len < TopicMax

\* What a handler may publish through the queue, in the order of the code; a
\* reply whose topic does not fit is left out.
Publishes(e) ==
    LET reply == IF ReplyTopicFits(e.id_len) THEN <<"reply">> ELSE <<>>
    IN  CASE e.topic = "ping" -> {reply}
          [] e.topic = "config" -> {reply, <<"config_updated">> \o reply}
          [] OTHER -> {reply \o <<"capture_failed">>}

\* The heap is exhausted at the handler's first allocation.
NoMemory == todo' = <<>> /\ UNCHANGED reboots

Answer(e) == todo' \in Publishes(e) /\ UNCHANGED reboots

\* handle_reboot_command: the task is created only with a reply topic.
ScheduleReboot(e) ==
    /\ reboots' = IF ReplyTopicFits(e.id_len)
                  THEN [reboots EXCEPT ![e.msg] = "publish"] ELSE reboots
    /\ todo' = <<>>

Handle ==
    /\ inbox # <<>> /\ todo = <<>>
    /\ inbox' = Tail(inbox)
    /\ current' = Head(inbox)
    /\ LET e == Head(inbox) IN
        IF Accepts(e)
        THEN /\ executed' = Append(executed, e)
             /\ \/ e.topic = "reboot" /\ ScheduleReboot(e)
                \/ e.topic # "reboot" /\ Answer(e)
                \/ NoMemory
        ELSE UNCHANGED <<todo, reboots, executed>>
    /\ UNCHANGED <<connected, count, outbound>>
-----------------------------------------------------------------------------
(***************************************************************************)
(* The publications of a handler.  A push that times out is only logged: at *)
(* any time the queue may be full of what other tasks publish.              *)
(***************************************************************************)
\* One more publication may be out of the queue, in the worker's hands.
Room == Len(queue) <= QueueLength

Push ==
    /\ todo # <<>>
    /\ todo' = Tail(todo)
    /\ \/ Room /\ queue' = Append(queue, [msg |-> current.msg, kind |-> Head(todo)])
       \/ UNCHANGED queue
    /\ UNCHANGED <<connected, count, inbox, current, reboots, executed, handed>>

HandOver ==
    /\ connected /\ queue # <<>>
    /\ handed' = Append(handed, Head(queue))
    /\ queue' = Tail(queue)
    /\ UNCHANGED <<connected, count, inbox, router>>
-----------------------------------------------------------------------------
(***************************************************************************)
(* reboot_task, one for each cmd/reboot.  Its publication does not wait for *)
(* a session, and its result is not looked at.                              *)
(***************************************************************************)
RebootReply(n) ==
    /\ reboots[n] = "publish"
    /\ reboots' = [reboots EXCEPT ![n] = "delay"]
    /\ handed' \in {handed} \cup
         (IF connected THEN {Append(handed, [msg |-> n, kind |-> "reply"])} ELSE {})
    /\ UNCHANGED <<connected, count, inbox, todo, current, queue, executed>>

\* The end of its vTaskDelay.
Announced(n) == reboots[n] = "delay"

Down ==
    /\ connected' = FALSE /\ inbox' = <<>>
    /\ todo' = <<>> /\ current' = NoEvent /\ queue' = <<>>
    /\ reboots' = [n \in 1..MaxMessages |-> "none"]

RebootNow(n) ==
    /\ Announced(n)
    /\ Down
    /\ UNCHANGED <<count, handed, executed>>

\* The power, an abort.
Restart == Down /\ UNCHANGED <<count, handed, executed>>

Reboot == \E n \in 1..MaxMessages : RebootReply(n) \/ RebootNow(n)

Next == \/ SessionOpens \/ SessionDrops \/ Deliver
        \/ Handle \/ Push \/ HandOver
        \/ Reboot \/ Restart

Spec == Init /\ [][Next]_vars

\* FreeRTOS schedules the reboot task, above the others' priorities.
FairSpec == Spec /\ WF_vars(Reboot)
-----------------------------------------------------------------------------
TypeOK ==
    /\ connected \in BOOLEAN /\ count \in 0..MaxMessages
    /\ inbox \in Seq(Event) /\ current \in Event
    /\ todo \in Seq(Kinds)
    /\ queue \in Seq(Publication) /\ Len(queue) <= QueueLength + 1
    /\ reboots \in [1..MaxMessages -> Stages]
    /\ handed \in Seq(Publication) /\ executed \in Seq(Event)

Ran(n) == \E i \in DOMAIN executed : executed[i].msg = n

(***************************************************************************)
(* A message is dispatched at most once and only when its whole object was  *)
(* in the data looked at, however esp-mqtt cuts it into events.             *)
(***************************************************************************)
RunsOnceAndWhole ==
    /\ \A i, j \in DOMAIN executed : executed[i].msg = executed[j].msg => i = j
    /\ \A i \in DOMAIN executed : executed[i].object_end \in 1..executed[i].len

(***************************************************************************)
(* No publication is handed over twice, and each answers a message that was *)
(* dispatched: a command has at most one reply, the reboot task's included. *)
(***************************************************************************)
AtMostOneReply ==
    /\ \A i, j \in DOMAIN handed : handed[i] = handed[j] => i = j
    /\ \A i \in DOMAIN handed : Ran(handed[i].msg)

(***************************************************************************)
(* config_updated reaches the client before the reply of its command, and a *)
(* capture's reply before its capture_failed.                               *)
(***************************************************************************)
Order == <<"config_updated", "reply", "capture_failed">>
EventsInOrder ==
    \A i, j \in DOMAIN handed :
        handed[i].msg = handed[j].msg /\ i < j
            => \E a, b \in DOMAIN Order :
                  a < b /\ handed[i].kind = Order[a] /\ handed[j].kind = Order[b]

(***************************************************************************)
(* With buffers as large as the identifiers they must hold, a command that  *)
(* is executed has a reply topic, unless its request_id is the empty        *)
(* string; and a reboot is under way only for the message of a cmd/reboot   *)
(* that was executed and has a reply topic, so that the last word of the    *)
(* node before it restarts can be the answer to it.                         *)
(***************************************************************************)
BuffersFit == Prefix + NodeLen + ReplyPart + RequestIdMax <= TopicMax

AskedToReboot(n) ==
    \E i \in DOMAIN executed :
        /\ executed[i].msg = n /\ executed[i].topic = "reboot"
        /\ ReplyTopicFits(executed[i].id_len)

ExecutedHasTopic ==
    /\ BuffersFit =>
          \A i \in DOMAIN executed :
              executed[i].id_len = 0 \/ ReplyTopicFits(executed[i].id_len)
    /\ \A n \in 1..MaxMessages : reboots[n] # "none" => AskedToReboot(n)

(***************************************************************************)
(* A reboot that was scheduled restarts the node, whatever the queue and    *)
(* the session do.                                                          *)
(***************************************************************************)
Scheduled == \E n \in 1..MaxMessages : reboots[n] # "none"
RebootHappens == Scheduled ~> ~Scheduled
=============================================================================
