----------------------------- MODULE PublishQueue -----------------------------
(***************************************************************************)
(* The outgoing path of the node: the tasks that publish, the bounded RAM   *)
(* queue and its worker (publish_queue.c), and the part of mqtt_service.c   *)
(* that decides whether a publication may go out.                           *)
(*                                                                          *)
(* A publication is a record; its topic, payload, QoS and retain flag are   *)
(* what its kind and id stand for.  A task in publish_queue_push is blocked *)
(* in xQueueSend until there is room or its 500 ms are over.                *)
(***************************************************************************)
EXTENDS Naturals, Sequences

CONSTANTS
    QueueLength,  \* APP_PUBLISH_QUEUE_LENGTH
    MaxMessages,  \* bound: publications attempted over a whole behavior
    ClientLock    \* does esp-mqtt keep its API lock while it runs a handler?

ASSUME PublishQueueAssumption ==
    /\ QueueLength \in Nat \ {0}
    /\ MaxMessages \in Nat
    /\ ClientLock \in BOOLEAN

Main == "app_main"
Heartbeat == "heartbeat_task"
SysEvt == "sys_evt"
Mqtt == "mqtt_task"
Tasks == {Main, Heartbeat, SysEvt, Mqtt}

Kinds == {"boot_completed", "heartbeat", "motion_detected", "config_updated",
          "capture_failed", "reply"}
Messages == [src: Tasks, kind: Kinds, id: 1..MaxMessages]

VARIABLES
    s_queue,      \* the FreeRTOS queue
    worker,       \* where publish_queue_task is
    item,         \* the publication it has taken out: a sequence of 0 or 1
    sending,      \* per task: what it still has to push, the first one now
    booted,       \* has app_main got to its boot_completed event?
    session,      \* does the MQTT client have a session with the broker?
    s_connected,  \* mqtt_service.c's flag
    count,        \* ids given out so far
    pushed,       \* history: pushes that returned ESP_OK, restarts aside
    handed,       \* history: what esp_mqtt_client_publish has taken over
    refused       \* history: pushes that returned an error

queue == <<s_queue, worker, item>>
tasks == <<sending, booted, count>>
link == <<session, s_connected>>
history == <<pushed, handed, refused>>
vars == <<s_queue, worker, item, sending, booted, session, s_connected, count,
          pushed, handed, refused>>

Init ==
    /\ s_queue = <<>>
    /\ worker = "receive"
    /\ item = <<>>
    /\ sending = [t \in Tasks |-> <<>>]
    /\ booted = FALSE
    /\ session = FALSE
    /\ s_connected = FALSE
    /\ count = 0
    /\ pushed = <<>>
    /\ handed = <<>>
    /\ refused = {}
-----------------------------------------------------------------------------
\* Mutants of definitions below.
bug_Full_early == Len(s_queue) + 1 >= QueueLength
bug_Full_late == Len(s_queue) > QueueLength
bug_PushTimesOut(t) == FALSE
bug_Retry_dropped == worker' = "receive" /\ item' = <<>> /\ UNCHANGED s_queue
bug_Retry_requeued == /\ worker' = "receive"
                      /\ item' = <<>>
                      /\ s_queue' = s_queue \o item
-----------------------------------------------------------------------------
(***************************************************************************)
(* The callers.                                                             *)
(***************************************************************************)
Msg(t, k, n) == [src |-> t, kind |-> k, id |-> count + n]

\* Task t starts to publish the kinds ks one after the other.
Publish(t, ks) ==
    /\ sending[t] = <<>>
    /\ count + Len(ks) <= MaxMessages
    /\ sending' = [sending EXCEPT ![t] =
                      [n \in 1..Len(ks) |-> Msg(t, ks[n], n)]]
    /\ count' = count + Len(ks)

\* main.c:101
BootCompleted ==
    /\ ~booted
    /\ Publish(Main, <<"boot_completed">>)
    /\ booted' = TRUE
    /\ UNCHANGED <<queue, link, history>>

\* One round of heartbeat_task, which app_main starts before its own event.
HeartbeatDue ==
    /\ Publish(Heartbeat, <<"heartbeat">>)
    /\ UNCHANGED <<queue, booted, link, history>>

\* motion_detection_event_handler, on the default event loop's task.
MotionDetected ==
    /\ Publish(SysEvt, <<"motion_detected">>)
    /\ UNCHANGED <<queue, booted, link, history>>

\* What each command publishes through the queue, in the order of the code.
\* (cmd/reboot publishes past the queue.)
Replies == [ping |-> <<"reply">>,
            config_updated |-> <<"config_updated", "reply">>,
            config_refused |-> <<"reply">>,
            capture |-> <<"reply", "capture_failed">>]

\* MQTT_EVENT_DATA; the esp-mqtt task stays in its handler until all is pushed.
Command(cmd) ==
    /\ s_connected
    /\ Publish(Mqtt, Replies[cmd])
    /\ UNCHANGED <<queue, booted, link, history>>

Callers == \/ BootCompleted \/ HeartbeatDue \/ MotionDetected
           \/ \E cmd \in DOMAIN Replies : Command(cmd)
-----------------------------------------------------------------------------
(***************************************************************************)
(* publish_queue_push                                                       *)
(***************************************************************************)
Full == Len(s_queue) >= QueueLength

PushSucceeds(t) ==
    /\ sending[t] # <<>>
    /\ ~Full
    /\ s_queue' = Append(s_queue, Head(sending[t]))
    /\ sending' = [sending EXCEPT ![t] = Tail(@)]
    /\ pushed' = Append(pushed, Head(sending[t]))
    /\ UNCHANGED <<worker, item, booted, count, link, handed, refused>>

\* xQueueSend gives up after 500 ms; the caller logs it and goes on, except
\* app_main, whose ESP_ERROR_CHECK restarts the node.
PushTimesOut(t) ==
    /\ sending[t] # <<>>
    /\ Full
    /\ refused' = refused \cup {Head(sending[t])}
    /\ IF t = Main
       THEN /\ s_queue' = <<>>
            /\ worker' = "receive"
            /\ item' = <<>>
            /\ sending' = [u \in Tasks |-> <<>>]
            /\ booted' = FALSE
            /\ session' = FALSE
            /\ s_connected' = FALSE
            /\ pushed' = handed
       ELSE /\ sending' = [sending EXCEPT ![t] = Tail(@)]
            /\ UNCHANGED <<queue, booted, link, pushed>>
    /\ UNCHANGED <<count, handed>>
-----------------------------------------------------------------------------
(***************************************************************************)
(* publish_queue_task and mqtt_service_publish_immediate_bytes              *)
(***************************************************************************)
Receive ==
    /\ worker = "receive"
    /\ s_queue # <<>>
    /\ item' = <<Head(s_queue)>>
    /\ s_queue' = Tail(s_queue)
    /\ worker' = "check"
    /\ UNCHANGED <<tasks, link, history>>

\* The item is kept and tried again 250 ms later.
Retry == worker' = "delay" /\ UNCHANGED <<s_queue, item>>

\* The test of s_connected; the flag may change before the call it guards.
CheckConnected ==
    /\ worker = "check"
    /\ IF s_connected THEN worker' = "publish" /\ UNCHANGED <<s_queue, item>>
                      ELSE Retry
    /\ UNCHANGED <<tasks, link, history>>

InHandler == sending[Mqtt] # <<>>
ClientFree == ~(ClientLock /\ InHandler)

ClientAccepts ==
    /\ worker = "publish"
    /\ ClientFree
    /\ handed' = handed \o item
    /\ item' = <<>>
    /\ worker' = "receive"
    /\ UNCHANGED <<s_queue, tasks, link, pushed, refused>>

\* esp_mqtt_client_publish returns a negative msg_id.
ClientRefuses ==
    /\ worker = "publish"
    /\ ClientFree
    /\ Retry
    /\ UNCHANGED <<tasks, link, history>>

DelayOver ==
    /\ worker = "delay"
    /\ worker' = "check"
    /\ UNCHANGED <<s_queue, item, tasks, link, history>>

Worker == Receive \/ CheckConnected \/ ClientAccepts \/ ClientRefuses \/ DelayOver
-----------------------------------------------------------------------------
(***************************************************************************)
(* The session, and what mqtt_event_handler makes of it: the steps that     *)
(* SessionFlag allows and MqttSession's handshake takes, all of them.  The  *)
(* esp-mqtt task runs the handler itself: it handles no event while a push  *)
(* blocks it.                                                               *)
(***************************************************************************)
Flag == INSTANCE SessionFlag

SessionOpens == Flag!Opens /\ UNCHANGED <<queue, tasks, history>>

SessionDrops == Flag!Drops /\ UNCHANGED <<queue, tasks, history>>

OnConnected == ~InHandler /\ Flag!Raised /\ UNCHANGED <<queue, tasks, history>>

OnDisconnected == ~InHandler /\ Flag!Lowered /\ UNCHANGED <<queue, tasks, history>>
-----------------------------------------------------------------------------
\* A power cut, an abort or esp_restart: the queue is RAM.
Restart ==
    /\ s_queue' = <<>>
    /\ worker' = "receive"
    /\ item' = <<>>
    /\ sending' = [t \in Tasks |-> <<>>]
    /\ booted' = FALSE
    /\ session' = FALSE
    /\ s_connected' = FALSE
    /\ pushed' = handed
    /\ UNCHANGED <<count, handed, refused>>

Next == \/ Callers
        \/ \E t \in Tasks : PushSucceeds(t) \/ PushTimesOut(t)
        \/ Worker
        \/ SessionOpens \/ SessionDrops \/ OnConnected \/ OnDisconnected
        \/ Restart

Spec == Init /\ [][Next]_vars

(***************************************************************************)
(* FreeRTOS schedules the worker, ends every delay and every xQueueSend     *)
(* wait; the esp-mqtt task gets to its events; and a client that is asked   *)
(* again and again does not refuse for ever.  Nothing obliges a task to     *)
(* publish or a session to open.                                            *)
(***************************************************************************)
Fairness ==
    /\ WF_vars(Worker) /\ SF_vars(ClientAccepts)
    /\ \A t \in Tasks : WF_vars(PushSucceeds(t) \/ PushTimesOut(t))
    /\ WF_vars(OnConnected) /\ WF_vars(OnDisconnected)

FairSpec == Spec /\ Fairness
-----------------------------------------------------------------------------
TypeOK ==
    /\ s_queue \in Seq(Messages) /\ Len(s_queue) <= QueueLength
    /\ worker \in {"receive", "check", "publish", "delay"}
    /\ item \in Seq(Messages)
    /\ Len(item) = IF worker = "receive" THEN 0 ELSE 1
    /\ sending \in [Tasks -> Seq(Messages)]
    /\ booted \in BOOLEAN
    /\ session \in BOOLEAN
    /\ s_connected \in BOOLEAN
    /\ count \in 0..MaxMessages
    /\ pushed \in Seq(Messages)
    /\ handed \in Seq(Messages)
    /\ refused \subseteq Messages

(***************************************************************************)
(* Every publication whose push returned ESP_OK is in exactly one place, in *)
(* the order of the pushes: with the client, in the worker's hands, or in   *)
(* the queue; through any number of disconnections and refusals by the      *)
(* client ("this task keeps it alive", publish_queue.c:39).                 *)
(***************************************************************************)
NothingLostOrReordered == pushed = handed \o item \o s_queue

(***************************************************************************)
(* The publications of one task reach the client in the order in which the  *)
(* task made them, once each: config_updated before its reply, a capture    *)
(* reply before capture_failed, heartbeats in order, across restarts too.   *)
(***************************************************************************)
TaskOrderKept ==
    \A i, j \in DOMAIN handed :
        i < j /\ handed[i].src = handed[j].src => handed[i].id < handed[j].id

(***************************************************************************)
(* The queue implements the FIFO its callers are promised.                  *)
(***************************************************************************)
Fifo == INSTANCE OutboundFifo
            WITH accepted <- pushed, Capacity <- QueueLength

FifoSpec == Fifo!Spec

(***************************************************************************)
(* While the node stays connected from some point on, every accepted        *)
(* publication is handed to the client, unless a restart wipes it first.    *)
(***************************************************************************)
In(m, s) == \E i \in DOMAIN s : s[i] = m
HasId(n, s) == \E i \in DOMAIN s : s[i].id = n

AcceptedIsHanded ==
    (<>[]s_connected) =>
        \A n \in 1..MaxMessages :
            HasId(n, pushed) ~> (HasId(n, handed) \/ ~HasId(n, pushed))

(***************************************************************************)
(* No task stays blocked in a push: not when the broker is away, and not    *)
(* when the esp-mqtt task waits for room that only the worker can make      *)
(* while the worker waits for the lock the esp-mqtt task holds.             *)
(***************************************************************************)
NoTaskStaysBlocked ==
    \A t \in Tasks : (sending[t] # <<>>) ~> (sending[t] = <<>>)

(***************************************************************************)
(* The loss of the session ends up in s_connected even when it happens      *)
(* while the esp-mqtt task is blocked in a push.                            *)
(***************************************************************************)
SessionLossIsNoticed == (~session) ~> (~s_connected)
=============================================================================
