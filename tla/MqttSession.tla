------------------------------ MODULE MqttSession ------------------------------
(***************************************************************************)
(* The node's sessions with the broker, as mqtt_service.c makes them: the   *)
(* client, its event handler with the presence publication and the two      *)
(* subscriptions, and the last will.  The client library, TCP and the       *)
(* broker are external, with what the service relies on: one connection per *)
(* client id, a newer CONNECT closing the older connection, the will of a   *)
(* connection published when it closes, clean sessions.                     *)
(*                                                                          *)
(* Connections are numbered.  One may break at any time: what is in flight  *)
(* is lost, and each end learns of it by itself.  One the node has given up *)
(* may still deliver what it sent, even its CONNECT.                        *)
(***************************************************************************)
EXTENDS Naturals, Sequences

CONSTANTS
    MaxConns,   \* bound: connections dialled over a whole behavior
    MaxFaults   \* bound: broken connections, refused calls and restarts

ASSUME MqttAssumption == MaxConns \in Nat /\ MaxFaults \in Nat

Conns == 1..MaxConns
None == 0
Commands == {"sub node cmd/+", "sub broadcast cmd/+"}
Packets == {"connect", "online"} \cup Commands

VARIABLES
    client,       \* the client: off, idle, connecting, open
    conn,         \* the connection it holds
    conns,        \* connections dialled so far
    s_connected,  \* mqtt_service.c's flag
    todo,         \* what mqtt_event_handler still has to do
    net,          \* per connection: the packets on their way to the broker
    dead,         \* connections that broke or that the broker closed
    acked,        \* connections the broker accepted
    broker_conn,  \* the connection the broker serves the node on
    subs,         \* the node's subscriptions
    retained,     \* the retained message of status/online
    shown,        \* history: the last connection to announce the node
    refused,      \* history: what the client refused to send in this session
    faults        \* faults so far

node == <<client, conn, conns, s_connected, todo, refused>>
wire == <<net, dead, acked>>
broker == <<broker_conn, subs, retained, shown>>
vars == <<client, conn, conns, s_connected, todo, net, dead, acked,
          broker_conn, subs, retained, shown, refused, faults>>

Init ==
    /\ client = "off" /\ conn = None /\ conns = 0 /\ s_connected = FALSE /\ todo = <<>>
    /\ net = [c \in Conns |-> <<>>] /\ dead = {} /\ acked = {}
    /\ broker_conn = None /\ subs = {} /\ retained = "none" /\ shown = None
    /\ refused = {} /\ faults = 0
-----------------------------------------------------------------------------
\* Mutants of definitions below.
bug_OnConnected_one_sub == <<"connected", "online", "sub node cmd/+">>
bug_OnDisconnected == <<>>
bug_LastWill == retained
-----------------------------------------------------------------------------
(***************************************************************************)
(* The node.  Its client task runs the event handler: it dials, reads and   *)
(* notices a dead connection only with nothing left to handle, but a write  *)
(* of the handler may meet a dead connection too.                           *)
(***************************************************************************)
OnConnected == <<"connected", "online", "sub node cmd/+", "sub broadcast cmd/+">>
OnDisconnected == <<"disconnected">>

\* mqtt_service_init and mqtt_service_start.
Start ==
    /\ client = "off"
    /\ client' = "idle"
    /\ UNCHANGED <<conn, conns, s_connected, todo, wire, broker, refused, faults>>

Dial ==
    /\ client = "idle" /\ todo = <<>>
    /\ conns < MaxConns
    /\ conns' = conns + 1 /\ conn' = conns + 1
    /\ client' = "connecting"
    /\ net' = [net EXCEPT ![conns + 1] = <<"connect">>]
    /\ UNCHANGED <<s_connected, todo, dead, acked, broker, refused, faults>>

Accepted ==
    /\ client = "connecting"
    /\ conn \in acked
    /\ client' = "open"
    /\ todo' = OnConnected
    /\ refused' = {}
    /\ UNCHANGED <<conn, conns, s_connected, wire, broker, faults>>

\* The client gives up its connection and will report it.
Abandon(rest) ==
    /\ conn \in dead
    /\ client' = "idle" /\ conn' = None
    /\ todo' = rest \o OnDisconnected

Lost ==
    /\ client \in {"connecting", "open"} /\ todo = <<>>
    /\ Abandon(todo)
    /\ UNCHANGED <<conns, s_connected, wire, broker, refused, faults>>

SetFlag ==
    /\ todo # <<>> /\ Head(todo) \in {"connected", "disconnected"}
    /\ s_connected' = (Head(todo) = "connected")
    /\ todo' = Tail(todo)
    /\ UNCHANGED <<client, conn, conns, wire, broker, refused, faults>>

\* mqtt_publish_presence_online, esp_mqtt_client_subscribe.
Send ==
    /\ todo # <<>> /\ Head(todo) \in Packets
    /\ \/ /\ client = "open"
          /\ net' = IF conn \in dead THEN net
                                     ELSE [net EXCEPT ![conn] = Append(@, Head(todo))]
          /\ todo' = Tail(todo) /\ UNCHANGED <<client, conn>>
       \/ /\ client # "open"
          /\ todo' = Tail(todo) /\ UNCHANGED <<client, conn, net>>
       \/ client = "open" /\ Abandon(Tail(todo)) /\ UNCHANGED net
    /\ UNCHANGED <<conns, s_connected, dead, acked, broker, refused, faults>>

Fault == faults < MaxFaults /\ faults' = faults + 1

\* The call fails in a session that lasts; the handler ignores its result.
Refuse ==
    /\ Fault
    /\ todo # <<>> /\ Head(todo) \in Packets /\ client = "open"
    /\ todo' = Tail(todo)
    /\ refused' = refused \cup {Head(todo)}
    /\ UNCHANGED <<client, conn, conns, s_connected, wire, broker>>

Handler == SetFlag \/ Send
-----------------------------------------------------------------------------
(***************************************************************************)
(* The broker.                                                              *)
(***************************************************************************)
\* The message mqtt_service_init leaves with the broker for each connection.
LastWill == "offline"

\* The broker is rid of connection c, and of its session.
Closed(c) ==
    /\ dead' = dead \cup ({c} \ {None})
    /\ subs' = {}

BrokerConnects(c) ==
    /\ Closed(broker_conn)
    /\ retained' = IF broker_conn = None THEN retained ELSE LastWill
    /\ broker_conn' = c
    /\ acked' = acked \cup {c}
    /\ UNCHANGED shown

BrokerPublishes(c) ==
    /\ retained' = "online" /\ shown' = c
    /\ UNCHANGED <<dead, acked, broker_conn, subs>>

BrokerSubscribes(s) ==
    /\ subs' = subs \cup {s}
    /\ UNCHANGED <<dead, acked, broker_conn, retained, shown>>

BrokerReads(c) ==
    /\ c \notin dead /\ net[c] # <<>>
    /\ net' = [net EXCEPT ![c] = Tail(@)]
    /\ LET p == Head(net[c]) IN
        \/ p = "connect" /\ BrokerConnects(c)
        \/ p = "online" /\ BrokerPublishes(c)
        \/ p \in Commands /\ BrokerSubscribes(p)
    /\ UNCHANGED <<node, faults>>

\* No keepalive for 45 s, or the end of the TCP connection.
BrokerDrops ==
    /\ broker_conn # None
    /\ broker_conn \in dead \/ broker_conn # conn
    /\ Closed(broker_conn)
    /\ net' = [net EXCEPT ![broker_conn] = <<>>]
    /\ retained' = LastWill
    /\ broker_conn' = None
    /\ UNCHANGED <<node, acked, shown, faults>>
-----------------------------------------------------------------------------
Break ==
    /\ Fault
    /\ conn # None /\ conn \notin dead
    /\ dead' = dead \cup {conn}
    /\ net' = [net EXCEPT ![conn] = <<>>]
    /\ UNCHANGED <<node, acked, broker>>

\* A power cut, an abort, cmd/reboot.
Restart ==
    /\ Fault
    /\ client' = "off" /\ conn' = None /\ s_connected' = FALSE /\ todo' = <<>>
    /\ refused' = {}
    /\ UNCHANGED <<conns, wire, broker>>

Next == \/ Start \/ Dial \/ Accepted \/ Lost \/ Handler
        \/ \E c \in Conns : BrokerReads(c)
        \/ BrokerDrops
        \/ Refuse \/ Break \/ Restart

Spec == Init /\ [][Next]_vars

(***************************************************************************)
(* The client reconnects by itself (disable_auto_reconnect = false), its    *)
(* keepalive and the broker's end, TCP delivers or breaks.  Nobody has to   *)
(* switch the node on.                                                      *)
(***************************************************************************)
FairSpec == /\ Spec
            /\ WF_vars(Dial) /\ WF_vars(Accepted) /\ WF_vars(Lost) /\ WF_vars(Handler)
            /\ \A c \in Conns : WF_vars(BrokerReads(c))
            /\ WF_vars(BrokerDrops)
-----------------------------------------------------------------------------
TypeOK ==
    /\ client \in {"off", "idle", "connecting", "open"}
    /\ conn \in {None} \cup Conns /\ conns \in 0..MaxConns
    /\ s_connected \in BOOLEAN
    /\ todo \in Seq(Packets \cup {"connected", "disconnected"})
    /\ net \in [Conns -> Seq(Packets)]
    /\ dead \subseteq Conns /\ acked \subseteq Conns
    /\ broker_conn \in {None} \cup Conns
    /\ subs \subseteq Commands
    /\ retained \in {"none", "online", "offline"}
    /\ shown \in {None} \cup Conns
    /\ refused \subseteq Packets /\ faults \in 0..MaxFaults

(***************************************************************************)
(* The retained presence says online exactly while the connection that      *)
(* announced the node is the one the broker serves it on: the will of an    *)
(* old connection never hides a newer session, and an announcement does not *)
(* outlive its connection.                                                  *)
(***************************************************************************)
PresenceIsExact ==
    (retained = "online") <=> (broker_conn # None /\ shown = broker_conn)

(***************************************************************************)
(* Once the handler is through and the broker has read what it sent, a      *)
(* session that lasts is shown online and has both subscriptions, but for   *)
(* the calls the client refused in it: nothing of an older session, of a    *)
(* half-finished handler or of a takeover is left in the broker.            *)
(***************************************************************************)
SessionIsWhole ==
    client = "open" /\ conn \notin dead /\ todo = <<>> /\ net[conn] = <<>> =>
        /\ s_connected /\ broker_conn = conn
        /\ retained = "online" <=> "online" \notin refused
        /\ subs = Commands \ refused

(***************************************************************************)
(* s_connected behaves as the publish queue assumes, through connections    *)
(* that die within the handler, restarts and takeovers.                     *)
(***************************************************************************)
Flag == INSTANCE SessionFlag WITH session <- (client = "open")
FlagSpec == Flag!Spec

(***************************************************************************)
(* The node stays on from some point: after the last fault it ends up in a  *)
(* session, shown online and with both subscriptions but for the calls that *)
(* the client refused in that very session; an earlier session's refusals,  *)
(* older connections and half-finished handlers leave no trace.             *)
(***************************************************************************)
SessionSettles ==
    <>[](client # "off") =>
        <>[](/\ client = "open" /\ s_connected
             /\ retained = "online" <=> "online" \notin refused
             /\ subs = Commands \ refused)
=============================================================================
