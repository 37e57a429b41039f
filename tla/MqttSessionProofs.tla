--------------------------- MODULE MqttSessionProofs ---------------------------
(***************************************************************************)
(* The node's presence and its connected flag, for every number of          *)
(* connections and of faults.                                               *)
(***************************************************************************)
EXTENDS MqttSession, TLAPS

\* Who holds which connection: the broker serves the last one it accepted, and
\* reads a CONNECT first of all, before it accepts.
Links ==
    /\ conn \in 0..conns
    /\ client \in {"off", "idle"} <=> conn = None
    /\ client = "open" => conn \in acked
    /\ acked \subseteq 1..conns
    /\ \A c \in acked : c \in dead \/ c = broker_conn
    /\ broker_conn \in acked \cup {None}
    /\ shown \in acked \cup {None}
    /\ \A c \in Conns : net[c] # <<>> => c <= conns
    /\ \A c \in Conns : \A i \in DOMAIN net[c] :
          net[c][i] = "connect" <=> i = 1 /\ c \notin acked

\* The steps of the handler, and what it sends.
Steps == Packets \cup {"connected", "disconnected"}
Sent == Packets \ {"connect"}

\* What is left of a handler, and the flag it will leave behind.
Handling ==
    /\ client \in {"off", "connecting"} => todo = <<>> /\ ~s_connected
    /\ client = "idle" =>
          \/ todo = <<>> /\ ~s_connected
          \/ /\ todo # <<>> /\ todo[Len(todo)] = "disconnected"
             /\ \A i \in 1..(Len(todo) - 1) : todo[i] \in Sent
    /\ client = "open" =>
          \/ todo = OnConnected /\ ~s_connected
          \/ (\A i \in 1..Len(todo) : todo[i] \in Sent) /\ s_connected
-----------------------------------------------------------------------------
(***************************************************************************)
(* Sequences.                                                               *)
(***************************************************************************)
LEMMA Appended ==
    ASSUME NEW S, NEW q \in Seq(S), NEW x \in S
    PROVE  /\ Append(q, x) \in Seq(S) /\ Append(q, x) # <<>>
           /\ DOMAIN Append(q, x) = DOMAIN q \cup {Len(q) + 1}
           /\ Len(q) \in Nat
           /\ \A i \in DOMAIN q : Append(q, x)[i] = q[i]
           /\ Append(q, x)[Len(q) + 1] = x
  OBVIOUS

LEMMA Shortened ==
    ASSUME NEW S, NEW q \in Seq(S), q # <<>>
    PROVE  /\ Head(q) \in S /\ Tail(q) \in Seq(S)
           /\ Len(Tail(q)) = Len(q) - 1 /\ Len(q) \in Nat \ {0}
           /\ \A i \in DOMAIN Tail(q) : i + 1 \in DOMAIN q /\ i + 1 # 1 /\ Tail(q)[i] = q[i + 1]
           /\ Head(q) = q[1] /\ 1 \in DOMAIN q
  OBVIOUS

LEMMA EmptySeq == ASSUME NEW S PROVE <<>> \in Seq(S)
  OBVIOUS

LEMMA ElementOf ==
    ASSUME NEW S, NEW q \in Seq(S), NEW i \in 1..Len(q) PROVE q[i] \in S
  OBVIOUS

LEMMA TailOfFour ==
    ASSUME NEW a, NEW b, NEW c, NEW d PROVE Tail(<<a, b, c, d>>) = <<b, c, d>>
  OBVIOUS

LEMMA EmptyLen == ASSUME NEW q, q = <<>> PROVE DOMAIN q = {} /\ Len(q) = 0
  OBVIOUS
-----------------------------------------------------------------------------
(***************************************************************************)
(* What the handler does to its list.                                       *)
(***************************************************************************)
LEMMA OnConnectedSteps ==
    /\ OnConnected \in Seq(Steps) /\ OnConnected # <<>>
    /\ OnConnected[1] = "connected" /\ Head(OnConnected) = "connected"
    /\ \A i \in 1..Len(Tail(OnConnected)) : Tail(OnConnected)[i] \in Sent
<1>1. OnConnected \in Seq(Steps)
  BY DEF OnConnected, Steps, Packets, Commands
<1>2. OnConnected # <<>> /\ OnConnected[1] = "connected"
  <2>1. Len(OnConnected) = 4 /\ OnConnected[1] = "connected"
    BY DEF OnConnected
  <2> QED
    BY <2>1, EmptyLen
<1>3. Head(OnConnected) = "connected"
  BY <1>1, <1>2, Shortened
<1>4. Tail(OnConnected) = <<"online", "sub node cmd/+", "sub broadcast cmd/+">>
  BY TailOfFour DEF OnConnected
<1>5. <<"online", "sub node cmd/+", "sub broadcast cmd/+">> \in Seq(Sent)
  BY DEF Sent, Packets, Commands
<1>6. Tail(OnConnected) \in Seq(Sent)
  BY <1>4, <1>5
<1>7. \A i \in 1..Len(Tail(OnConnected)) : Tail(OnConnected)[i] \in Sent
  BY <1>6, ElementOf
<1> QED
  BY <1>1, <1>2, <1>3, <1>7

\* A list of packets followed by the report of the loss.
LEMMA Abandoned ==
    ASSUME NEW rest \in Seq(Steps), \A i \in 1..Len(rest) : rest[i] \in Sent
    PROVE  LET t == rest \o OnDisconnected IN
              /\ t \in Seq(Steps) /\ t # <<>> /\ t[Len(t)] = "disconnected"
              /\ \A i \in 1..(Len(t) - 1) : t[i] \in Sent
<1>1. <<"disconnected">> \in Seq(Steps)
  BY DEF Steps
<1> QED
  BY <1>1 DEF OnDisconnected

\* With a packet next, the handler of CONNECTED is past its flag.
LEMMA PacketNext ==
    ASSUME TypeOK, Handling, todo # <<>>, Head(todo) \in Packets
    PROVE  /\ client \in {"idle", "open"}
           /\ Head(todo) \in Sent
           /\ Tail(todo) \in Seq(Steps)
           /\ client = "open" => /\ s_connected
                                 /\ \A i \in 1..Len(Tail(todo)) : Tail(todo)[i] \in Sent
           /\ client = "idle" =>
                 /\ Tail(todo) # <<>> /\ Tail(todo)[Len(Tail(todo))] = "disconnected"
                 /\ \A i \in 1..(Len(Tail(todo)) - 1) : Tail(todo)[i] \in Sent
<1>1. todo \in Seq(Steps) /\ client \in {"off", "idle", "connecting", "open"}
  BY DEF TypeOK, Steps
<1>2. "connected" \notin Packets /\ "disconnected" \notin Packets /\ Sent \subseteq Packets
  BY DEF Sent, Packets, Commands
<1>3. Head(todo) = todo[1] /\ Tail(todo) \in Seq(Steps) /\ Len(Tail(todo)) = Len(todo) - 1
      /\ Len(todo) \in Nat \ {0}
      /\ \A i \in 1..Len(Tail(todo)) : Tail(todo)[i] = todo[i + 1]
  BY <1>1, Shortened
<1>4. CASE client = "open"
  <2>1. todo # OnConnected
    BY <1>2, <1>3, OnConnectedSteps
  <2>2. s_connected /\ \A i \in 1..Len(todo) : todo[i] \in Sent
    BY <1>4, <2>1 DEF Handling
  <2>3. Head(todo) \in Sent
    BY <1>3, <2>2
  <2>4. \A i \in 1..Len(Tail(todo)) : Tail(todo)[i] \in Sent
    BY <1>3, <2>2
  <2> QED
    BY <1>3, <1>4, <2>2, <2>3, <2>4
<1>5. CASE client = "idle"
  <2>1. todo[Len(todo)] = "disconnected" /\ \A i \in 1..(Len(todo) - 1) : todo[i] \in Sent
    BY <1>5 DEF Handling
  <2>2. Len(todo) # 1
    BY <1>2, <1>3, <2>1
  <2>3. Len(Tail(todo)) \in Nat \ {0} /\ Tail(todo) # <<>>
    BY <1>3, <2>2, EmptyLen
  <2>4. Tail(todo)[Len(Tail(todo))] = todo[Len(todo)]
    <3>1. /\ Len(Tail(todo)) \in 1..Len(Tail(todo))
          /\ Len(Tail(todo)) + 1 = Len(todo)
      BY <1>3, <2>3
    <3> QED
      BY <1>3, <3>1
  <2>5. \A i \in 1..(Len(Tail(todo)) - 1) : Tail(todo)[i] \in Sent
    BY <1>3, <2>1
  <2>6. Tail(todo)[Len(Tail(todo))] = "disconnected"
    BY <2>1, <2>4
  <2>7. Head(todo) \in Sent
    BY <1>3, <2>1, <2>2
  <2> QED
    BY <1>3, <1>5, <2>3, <2>5, <2>6, <2>7
<1>6. client \notin {"off", "connecting"}
  BY DEF Handling
<1> QED
  BY <1>1, <1>3, <1>4, <1>5, <1>6

\* With a flag step next: CONNECTED begins, or the loss is reported at last.
LEMMA FlagNext ==
    ASSUME TypeOK, Handling, SetFlag
    PROVE  \/ /\ client = "open" /\ ~s_connected /\ s_connected'
              /\ todo' = Tail(OnConnected)
           \/ client = "idle" /\ ~s_connected' /\ todo' = <<>>
<1>1. todo \in Seq(Steps) /\ client \in {"off", "idle", "connecting", "open"} /\ todo # <<>>
      /\ todo' = Tail(todo) /\ s_connected' = (Head(todo) = "connected")
      /\ Head(todo) \in {"connected", "disconnected"}
  BY DEF TypeOK, Steps, SetFlag
<1>2. "connected" \notin Packets /\ "disconnected" \notin Packets /\ Sent \subseteq Packets
  BY DEF Sent, Packets, Commands
<1>3. Head(todo) = todo[1] /\ Len(Tail(todo)) = Len(todo) - 1 /\ Len(todo) \in Nat \ {0}
  BY <1>1, Shortened
<1>4. CASE client = "open"
  <2>1. todo = OnConnected /\ ~s_connected
    <3>1. 1 \in 1..Len(todo) /\ todo[1] \notin Sent
      BY <1>1, <1>2, <1>3
    <3> QED
      BY <1>4, <3>1 DEF Handling
  <2>2. Head(OnConnected) = "connected"
    BY DEF OnConnected
  <2> QED
    BY <1>1, <1>4, <2>1, <2>2
<1>5. CASE client = "idle"
  <2>1. todo[Len(todo)] = "disconnected" /\ \A i \in 1..(Len(todo) - 1) : todo[i] \in Sent
    BY <1>1, <1>5 DEF Handling
  <2>2. Len(todo) = 1
    BY <1>1, <1>2, <1>3, <2>1
  <2>3. Tail(todo) = <<>> /\ Head(todo) = "disconnected"
    BY <1>1, <1>3, <2>1, <2>2
  <2> QED
    BY <1>1, <1>5, <2>3
<1> QED
  BY <1>1, <1>4, <1>5 DEF Handling
-----------------------------------------------------------------------------
(***************************************************************************)
(* The handler's part of the invariant, action by action.                   *)
(***************************************************************************)
HandlerType ==
    /\ client \in {"off", "idle", "connecting", "open"}
    /\ s_connected \in BOOLEAN
    /\ todo \in Seq(Steps)

LEMMA FlagHandling == TypeOK /\ Handling /\ SetFlag => HandlerType' /\ Handling'
<1> SUFFICES ASSUME TypeOK, Handling, SetFlag PROVE HandlerType' /\ Handling'
  OBVIOUS
<1>1. client' = client /\ client \in {"off", "idle", "connecting", "open"}
      /\ s_connected' \in BOOLEAN
  BY DEF SetFlag, TypeOK
<1>2. /\ Tail(OnConnected) \in Seq(Steps)
      /\ \A i \in 1..Len(Tail(OnConnected)) : Tail(OnConnected)[i] \in Sent
  BY OnConnectedSteps, Shortened
<1> QED
  BY <1>1, <1>2, FlagNext, EmptySeq DEF Handling, HandlerType

LEMMA SendHandling == TypeOK /\ Handling /\ (Send \/ Refuse) => HandlerType' /\ Handling'
<1> SUFFICES ASSUME TypeOK, Handling, Send \/ Refuse PROVE HandlerType' /\ Handling'
  OBVIOUS
<1>1. todo # <<>> /\ Head(todo) \in Packets /\ s_connected' = s_connected
      /\ s_connected \in BOOLEAN
  BY DEF Send, Refuse, TypeOK
<1>2. CASE todo' = Tail(todo) /\ client' = client
  BY <1>1, <1>2, PacketNext DEF Handling, HandlerType
<1>3. CASE client = "open" /\ Abandon(Tail(todo))
  <2>1. todo' = Tail(todo) \o OnDisconnected /\ client' = "idle"
    BY <1>3 DEF Abandon
  <2>2. Tail(todo) \in Seq(Steps) /\ \A i \in 1..Len(Tail(todo)) : Tail(todo)[i] \in Sent
    BY <1>1, <1>3, PacketNext
  <2> QED
    BY <1>1, <2>1, <2>2, Abandoned DEF Handling, HandlerType
<1> QED
  BY <1>2, <1>3 DEF Send, Refuse

LEMMA ClientHandling ==
    TypeOK /\ Handling /\ (Start \/ Dial \/ Accepted \/ Lost \/ Restart)
        => HandlerType' /\ Handling'
<1> SUFFICES ASSUME TypeOK, Handling, Start \/ Dial \/ Accepted \/ Lost \/ Restart
             PROVE  HandlerType' /\ Handling'
  OBVIOUS
<1>1. s_connected \in BOOLEAN /\ todo \in Seq(Steps)
  BY DEF TypeOK, Steps
<1>2. CASE Start
  BY <1>1, <1>2, EmptySeq DEF Start, Handling, HandlerType
<1>3. CASE Dial
  BY <1>1, <1>3 DEF Dial, Handling, HandlerType
<1>4. CASE Accepted
  BY <1>1, <1>4, OnConnectedSteps DEF Accepted, Handling, HandlerType
<1>5. CASE Lost
  <2>1. todo' = <<>> \o OnDisconnected /\ client' = "idle" /\ s_connected' = s_connected
    BY <1>5 DEF Lost, Abandon
  <2>2. <<>> \in Seq(Steps) /\ \A i \in 1..Len(<<>>) : <<>>[i] \in Sent
    BY EmptySeq
  <2> QED
    BY <1>1, <2>1, <2>2, Abandoned DEF Handling, HandlerType
<1>6. CASE Restart
  BY <1>6, EmptySeq DEF Restart, Handling, HandlerType
<1> QED
  BY <1>2, <1>3, <1>4, <1>5, <1>6
-----------------------------------------------------------------------------
(***************************************************************************)
(* The connections' part: types, links and presence, action by action.      *)
(***************************************************************************)
LinkType ==
    /\ conn \in {None} \cup Conns /\ conns \in 0..MaxConns
    /\ net \in [Conns -> Seq(Packets)]
    /\ dead \subseteq Conns /\ acked \subseteq Conns
    /\ broker_conn \in {None} \cup Conns
    /\ subs \subseteq Commands
    /\ retained \in {"none", "online", "offline"}
    /\ shown \in {None} \cup Conns
    /\ refused \subseteq Packets /\ faults \in 0..MaxFaults

LEMMA TypeParts == TypeOK <=> HandlerType /\ LinkType
  BY DEF TypeOK, HandlerType, LinkType, Steps

ConnInv == TypeOK /\ Handling /\ Links /\ PresenceIsExact
Goal == LinkType /\ Links /\ PresenceIsExact

LEMMA ConnFacts == None \notin Conns /\ Conns = 1..MaxConns /\ MaxConns \in Nat /\ MaxFaults \in Nat
  BY MqttAssumption DEF None, Conns

\* Steps that touch neither the connections nor the broker.
LEMMA QuietLinks ==
    ASSUME ConnInv, UNCHANGED <<conns, net, dead, acked, broker>>,
           conn' = conn \/ conn' = None,
           client' \in {"off", "idle"} <=> conn' = None,
           client' = "open" => conn' \in acked,
           refused' \subseteq Packets, faults' \in 0..MaxFaults
    PROVE  Goal'
  BY DEF ConnInv, Goal, TypeOK, LinkType, Links, PresenceIsExact, broker, None

LEMMA ClientLinks ==
    ASSUME ConnInv, Start \/ Accepted \/ Lost \/ Restart \/ SetFlag
    PROVE  Goal'
<1>0. /\ refused \subseteq Packets /\ faults \in 0..MaxFaults
      /\ client \in {"off", "idle"} <=> conn = None
      /\ client = "open" => conn \in acked
      /\ faults < MaxFaults => faults + 1 \in 0..MaxFaults
  BY MqttAssumption DEF ConnInv, TypeOK, Links
<1>1. CASE Start
  BY <1>0, <1>1, QuietLinks DEF Start, wire
<1>2. CASE Accepted
  BY <1>0, <1>2, QuietLinks DEF Accepted, wire
<1>3. CASE Lost
  BY <1>0, <1>3, QuietLinks DEF Lost, Abandon, wire
<1>4. CASE Restart
  BY <1>0, <1>4, QuietLinks DEF Restart, Fault, wire
<1>5. CASE SetFlag
  BY <1>0, <1>5, QuietLinks DEF SetFlag, wire
<1> QED
  BY <1>1, <1>2, <1>3, <1>4, <1>5

LEMMA SendLinks ==
    ASSUME ConnInv, Send \/ Refuse
    PROVE  Goal'
<1>0. /\ refused \subseteq Packets /\ faults \in 0..MaxFaults
      /\ client \in {"off", "idle"} <=> conn = None
      /\ client = "open" => conn \in acked
      /\ faults < MaxFaults => faults + 1 \in 0..MaxFaults
      /\ todo # <<>> /\ Head(todo) \in Packets
  BY MqttAssumption DEF ConnInv, TypeOK, Links, Send, Refuse
<1>1. CASE Refuse
  BY <1>0, <1>1, QuietLinks DEF Refuse, Fault, wire
<1>2. CASE Send /\ net' = net
  BY <1>0, <1>2, QuietLinks DEF Send, Abandon
<1>3. CASE Send /\ net' # net
  <2> DEFINE p == Head(todo)
  <2>1. /\ client = "open" /\ conn \in acked /\ conn \in Conns /\ net[conn] \in Seq(Packets)
        /\ net' = [net EXCEPT ![conn] = Append(@, p)]
        /\ UNCHANGED <<client, conn, conns, dead, acked, broker, refused, faults>>
    BY <1>0, <1>3 DEF Send, ConnInv, TypeOK
  <2>2. p \in Packets /\ p # "connect"
    BY <1>0, PacketNext DEF ConnInv, Sent
  <2> HIDE DEF p
  <2>3. /\ net' \in [Conns -> Seq(Packets)]
        /\ net'[conn] = Append(net[conn], p)
        /\ \A c \in Conns : c # conn => net'[c] = net[c]
    BY <2>1, <2>2 DEF ConnInv, TypeOK
  <2>4. \A i \in DOMAIN net'[conn] : net'[conn][i] # "connect"
    <3>1. \A i \in DOMAIN net[conn] : net[conn][i] # "connect"
      BY <2>1 DEF ConnInv, Links
    <3> QED
      BY <2>1, <2>2, <2>3, <3>1, Appended
  <2>5. \A c \in Conns : net'[c] # <<>> => c <= conns'
    BY <2>1, <2>3, ConnFacts DEF ConnInv, Links, TypeOK
  <2>6. Links'
    BY <2>1, <2>3, <2>4, <2>5 DEF ConnInv, Links, broker
  <2> QED
    BY <2>1, <2>3, <2>6, <1>0 DEF ConnInv, Goal, TypeOK, LinkType, PresenceIsExact, broker
<1> QED
  BY <1>1, <1>2, <1>3

\* A connection dialled is new to everybody.
LEMMA DialLinks == ASSUME ConnInv, Dial PROVE Goal'
<1> DEFINE n == conns + 1
<1>1. /\ n \in Conns /\ n # None /\ conns' = n /\ conn' = n /\ client' = "connecting"
      /\ net' = [net EXCEPT ![n] = <<"connect">>]
      /\ UNCHANGED <<dead, acked, broker, refused, faults>>
  BY ConnFacts DEF ConnInv, TypeOK, Dial, None
<1>2. n \notin acked /\ acked \subseteq 1..n /\ conns <= n /\ n \in 0..n
  BY <1>1, ConnFacts DEF ConnInv, TypeOK, Links
<1> HIDE DEF n
<1>3. /\ <<"connect">> \in Seq(Packets)
      /\ \A i \in DOMAIN <<"connect">> : i = 1 /\ <<"connect">>[i] = "connect"
  BY DEF Packets
<1>4. /\ net' \in [Conns -> Seq(Packets)]
      /\ net'[n] = <<"connect">>
      /\ \A c \in Conns : c # n => net'[c] = net[c]
  BY <1>1, <1>3 DEF ConnInv, TypeOK
<1>5. \A c \in Conns : \A i \in DOMAIN net'[c] :
         net'[c][i] = "connect" <=> i = 1 /\ c \notin acked
  BY <1>2, <1>3, <1>4 DEF ConnInv, Links
<1>6. \A c \in Conns : net'[c] # <<>> => c <= n
  BY <1>1, <1>2, <1>4, ConnFacts DEF ConnInv, Links, TypeOK
<1>7. Links'
  BY <1>1, <1>2, <1>5, <1>6 DEF ConnInv, Links, broker
<1> QED
  BY <1>1, <1>4, <1>7, ConnFacts
     DEF ConnInv, Goal, TypeOK, LinkType, PresenceIsExact, broker

\* A connection that breaks, or that the broker drops, loses what is in flight.
LEMMA LossLinks == ASSUME ConnInv, Break \/ BrokerDrops PROVE Goal'
<1>1. PICK c \in Conns : /\ dead' = dead \cup {c}
                         /\ net' = [net EXCEPT ![c] = <<>>]
                         /\ UNCHANGED <<node, acked, shown>>
                         /\ faults' \in 0..MaxFaults
                         /\ subs' \subseteq Commands
                         /\ \/ UNCHANGED <<broker_conn, retained>>
                            \/ c = broker_conn /\ broker_conn' = None /\ retained' = "offline"
  <2>1. faults \in 0..MaxFaults /\ (faults < MaxFaults => faults + 1 \in 0..MaxFaults)
        /\ subs \subseteq Commands
    BY ConnFacts DEF ConnInv, TypeOK
  <2>2. CASE Break
    <3>1. conn \in Conns
      BY <2>2 DEF Break, ConnInv, TypeOK
    <3> QED
      BY <2>1, <2>2, <3>1 DEF Break, Fault, broker
  <2>3. CASE BrokerDrops
    <3>1. broker_conn \in Conns
      BY <2>3 DEF BrokerDrops, ConnInv, TypeOK
    <3> QED
      BY <2>1, <2>3, <3>1, ConnFacts DEF BrokerDrops, Closed, LastWill
  <2> QED
    BY <2>2, <2>3
<1>2. /\ net' \in [Conns -> Seq(Packets)]
      /\ net'[c] = <<>> /\ DOMAIN net'[c] = {}
      /\ \A d \in Conns : d # c => net'[d] = net[d]
  BY <1>1, EmptyLen, EmptySeq DEF ConnInv, TypeOK
<1>3. Links'
  BY <1>1, <1>2 DEF ConnInv, Links, node
<1>4. PresenceIsExact'
  BY <1>1, ConnFacts DEF ConnInv, PresenceIsExact
<1> QED
  BY <1>1, <1>2, <1>3, <1>4, ConnFacts DEF ConnInv, Goal, TypeOK, LinkType, node

\* What the broker reads first from a connection: its CONNECT if it has not
\* accepted it yet, and then it serves no other.
LEMMA ReadFacts ==
    ASSUME ConnInv, NEW c \in Conns, BrokerReads(c)
    PROVE  /\ c \notin dead /\ net[c] # <<>> /\ net[c] \in Seq(Packets) /\ c <= conns
           /\ Head(net[c]) = "connect" <=> c \notin acked
           /\ Head(net[c]) # "connect" => c = broker_conn
           /\ net' = [net EXCEPT ![c] = Tail(@)]
           /\ UNCHANGED <<client, conn, conns, s_connected, todo, refused, faults>>
<1>1. c \notin dead /\ net[c] # <<>> /\ net[c] \in Seq(Packets)
      /\ net' = [net EXCEPT ![c] = Tail(@)]
      /\ UNCHANGED <<client, conn, conns, s_connected, todo, refused, faults>>
  BY DEF BrokerReads, ConnInv, TypeOK, node
<1>2. Head(net[c]) = net[c][1] /\ 1 \in DOMAIN net[c]
  BY <1>1, Shortened
<1>3. Head(net[c]) = "connect" <=> c \notin acked
  BY <1>2 DEF ConnInv, Links
<1> QED
  BY <1>1, <1>3 DEF ConnInv, Links

LEMMA ReadLinks ==
    ASSUME ConnInv, NEW c \in Conns, BrokerReads(c)
    PROVE  Goal'
<1>1. /\ c \notin dead /\ net[c] # <<>> /\ net[c] \in Seq(Packets) /\ c <= conns
      /\ net' = [net EXCEPT ![c] = Tail(@)]
      /\ UNCHANGED <<client, conn, conns, refused, faults>>
  BY ReadFacts
<1>2. /\ net' \in [Conns -> Seq(Packets)]
      /\ net'[c] = Tail(net[c])
      /\ \A d \in Conns : d # c => net'[d] = net[d]
  BY <1>1, Shortened DEF ConnInv, TypeOK
<1>3. \A i \in DOMAIN net'[c] : net'[c][i] # "connect"
  BY <1>1, <1>2, Shortened DEF ConnInv, Links
<1>4. CASE Head(net[c]) = "connect"
  <2>1. c \notin acked
    BY <1>4, ReadFacts
  <2>2. BrokerConnects(c)
    BY <1>4 DEF BrokerReads, Commands
  <2>3. /\ dead' = dead \cup ({broker_conn} \ {None}) /\ subs' = {}
        /\ retained' = IF broker_conn = None THEN retained ELSE "offline"
        /\ broker_conn' = c /\ acked' = acked \cup {c} /\ shown' = shown
    BY <2>2 DEF BrokerConnects, Closed, LastWill
  <2>4. acked' \subseteq 1..conns /\ dead' \subseteq Conns /\ acked' \subseteq Conns
    BY <1>1, <2>3, ConnFacts DEF ConnInv, TypeOK, Links
  <2>5. \A d \in acked' : d \in dead' \/ d = broker_conn'
    <3>1. \A d \in acked : d # None /\ (d \in dead \/ d = broker_conn)
      BY ConnFacts DEF ConnInv, Links, TypeOK
    <3> QED
      BY <2>3, <3>1
  <2>6. \A d \in Conns : \A i \in DOMAIN net'[d] :
           net'[d][i] = "connect" <=> i = 1 /\ d \notin acked'
    <3> SUFFICES ASSUME NEW d \in Conns, NEW i \in DOMAIN net'[d]
                 PROVE  net'[d][i] = "connect" <=> i = 1 /\ d \notin acked'
      OBVIOUS
    <3>1. CASE d = c
      BY <1>3, <2>3, <3>1
    <3>2. CASE d # c
      BY <1>2, <2>3, <3>2 DEF ConnInv, Links
    <3> QED
      BY <3>1, <3>2
  <2>7. Links'
    BY <1>1, <1>2, <2>3, <2>4, <2>5, <2>6 DEF ConnInv, Links
  <2>8. PresenceIsExact'
    BY <2>1, <2>3, ConnFacts DEF ConnInv, PresenceIsExact, Links
  <2> QED
    BY <1>1, <1>2, <2>3, <2>4, <2>7, <2>8 DEF ConnInv, Goal, TypeOK, LinkType
<1>5. CASE Head(net[c]) # "connect"
  <2>1. c \in acked /\ c = broker_conn
    BY <1>5, ReadFacts
  <2>2. /\ UNCHANGED <<dead, acked, broker_conn>>
        /\ \/ retained' = "online" /\ shown' = c /\ subs' = subs
           \/ UNCHANGED <<retained, shown>> /\ subs' \subseteq Commands
    BY <1>5 DEF BrokerReads, BrokerPublishes, BrokerSubscribes, ConnInv, TypeOK
  <2>3. \A d \in Conns : \A i \in DOMAIN net'[d] :
           net'[d][i] = "connect" <=> i = 1 /\ d \notin acked'
    <3> SUFFICES ASSUME NEW d \in Conns, NEW i \in DOMAIN net'[d]
                 PROVE  net'[d][i] = "connect" <=> i = 1 /\ d \notin acked'
      OBVIOUS
    <3>1. CASE d = c
      BY <1>3, <2>1, <2>2, <3>1
    <3>2. CASE d # c
      BY <1>2, <2>1, <2>2, <3>2 DEF ConnInv, Links
    <3> QED
      BY <3>1, <3>2
  <2>4. Links'
    BY <1>1, <1>2, <2>1, <2>2, <2>3 DEF ConnInv, Links
  <2>5. PresenceIsExact'
    BY <2>1, <2>2, ConnFacts DEF ConnInv, PresenceIsExact
  <2> QED
    BY <1>1, <1>2, <2>1, <2>2, <2>4, <2>5 DEF ConnInv, Goal, TypeOK, LinkType
<1> QED
  BY <1>4, <1>5

\* These steps leave the handler's list alone.
LEMMA OtherHandling ==
    ASSUME ConnInv, Break \/ BrokerDrops \/ (\E c \in Conns : BrokerReads(c)) \/ UNCHANGED vars
    PROVE  HandlerType' /\ Handling'
<1>1. UNCHANGED <<client, s_connected, todo>>
  BY DEF Break, BrokerDrops, BrokerReads, vars, node
<1> QED
  BY <1>1, TypeParts DEF ConnInv, HandlerType, Handling
-----------------------------------------------------------------------------
LEMMA ConnStep == ConnInv /\ [Next]_vars => ConnInv'
<1> SUFFICES ASSUME ConnInv, [Next]_vars PROVE HandlerType' /\ Handling' /\ Goal'
  BY TypeParts DEF ConnInv, Goal, TypeOK, HandlerType, LinkType, Steps
<1>0. TypeOK /\ Handling
  BY DEF ConnInv
<1>1. CASE Start \/ Accepted \/ Lost \/ Restart
  BY <1>0, <1>1, ClientHandling, ClientLinks
<1>2. CASE Dial
  BY <1>0, <1>2, ClientHandling, DialLinks
<1>3. CASE SetFlag
  BY <1>0, <1>3, FlagHandling, ClientLinks
<1>4. CASE Send \/ Refuse
  BY <1>0, <1>4, SendHandling, SendLinks
<1>5. CASE Break \/ BrokerDrops
  BY <1>5, OtherHandling, LossLinks
<1>6. CASE \E c \in Conns : BrokerReads(c)
  BY <1>6, OtherHandling, ReadLinks
<1>7. CASE UNCHANGED vars
  BY <1>7, OtherHandling DEF vars, ConnInv, Goal, TypeOK, LinkType, Links, PresenceIsExact
<1> QED
  BY <1>1, <1>2, <1>3, <1>4, <1>5, <1>6, <1>7 DEF Next, Handler

LEMMA ConnInit == Init => ConnInv
<1> SUFFICES ASSUME Init PROVE ConnInv
  OBVIOUS
<1>1. todo = <<>> /\ todo \in Seq(Steps) /\ client = "off" /\ s_connected = FALSE
  BY EmptySeq DEF Init
<1>2. net = [c \in Conns |-> <<>>] /\ net \in [Conns -> Seq(Packets)]
  BY EmptySeq DEF Init
<1>3. \A c \in Conns : net[c] = <<>> /\ DOMAIN net[c] = {}
  BY <1>2, EmptyLen
<1>4. s_connected \in BOOLEAN
  BY <1>1, Zenon
<1>5. HandlerType /\ Handling
  BY <1>1, <1>4 DEF HandlerType, Handling
<1>6. LinkType
  BY <1>2, MqttAssumption DEF Init, LinkType
<1>7. Links /\ PresenceIsExact
  BY <1>3, MqttAssumption DEF Init, Links, PresenceIsExact, None
<1> QED
  BY <1>5, <1>6, <1>7, TypeParts DEF ConnInv

LEMMA SessionInvariant == Spec => []ConnInv
  BY ConnInit, ConnStep, PTL DEF Spec

\* The retained presence is that of the connection the broker serves, through
\* any number of broken connections, late CONNECTs, takeovers and restarts.
THEOREM PresenceExact == Spec => []PresenceIsExact
<1>1. ConnInv => PresenceIsExact
  BY DEF ConnInv
<1> QED
  BY <1>1, SessionInvariant, PTL

-----------------------------------------------------------------------------
(***************************************************************************)
(* The accounts of a session: everything the handler owes the broker is in  *)
(* exactly one place, which is still to be sent, in flight, refused by the  *)
(* client or done, from the moment the connection opens.                    *)
(***************************************************************************)
Alive == conn # None /\ conn \notin dead

Has(q, p) == \E i \in DOMAIN q : q[i] = p
Once(q) == \A i, j \in DOMAIN q : q[i] = q[j] => i = j

InTodo(p) == Has(todo, p)
Flying(p) == Has(net[conn], p)
Done(p) == IF p = "online" THEN retained = "online" ELSE p \in subs

OnePlace(p) ==
    /\ InTodo(p) \/ Flying(p) \/ p \in refused \/ Done(p)
    /\ InTodo(p) => ~Flying(p) /\ p \notin refused /\ ~Done(p)
    /\ Flying(p) => p \notin refused /\ ~Done(p)
    /\ p \in refused => ~Done(p)

\* A connection being made starts with nothing at the broker.
Fresh ==
    IF conn \in acked THEN net[conn] = <<>> /\ subs = {} /\ retained # "online"
                      ELSE net[conn] = <<"connect">>

Accounts ==
    /\ client = "connecting" /\ Alive => Fresh
    /\ client = "open" /\ Alive =>
          Once(todo) /\ Once(net[conn]) /\ \A p \in Sent : OnePlace(p)

\* An element of a sequence without repetitions is first in it or further on.
LEMMA FirstOrLater ==
    ASSUME NEW S, NEW q \in Seq(S), q # <<>>, Once(q)
    PROVE  /\ Once(Tail(q))
           /\ \A x : Has(q, x) <=> x = Head(q) \/ Has(Tail(q), x)
           /\ ~Has(Tail(q), Head(q))
<1>1. /\ DOMAIN q = 1..Len(q) /\ Len(q) \in Nat \ {0} /\ Head(q) = q[1]
      /\ Tail(q) \in Seq(S) /\ DOMAIN Tail(q) = 1..(Len(q) - 1)
      /\ \A i \in 1..(Len(q) - 1) : Tail(q)[i] = q[i + 1]
  OBVIOUS
<1>2. Once(Tail(q))
  BY <1>1 DEF Once
<1>3. ASSUME NEW x, NEW i \in DOMAIN q, q[i] = x, x # Head(q)
      PROVE  \E j \in DOMAIN Tail(q) : Tail(q)[j] = x
  <2>1. i - 1 \in 1..(Len(q) - 1) /\ q[(i - 1) + 1] = x
    BY <1>1, <1>3
  <2> QED
    BY <1>1, <2>1
<1>4. ASSUME NEW j \in DOMAIN Tail(q)
      PROVE  j + 1 \in DOMAIN q /\ Tail(q)[j] = q[j + 1] /\ j + 1 # 1
  BY <1>1, <1>4
<1>5. 1 \in DOMAIN q
  BY <1>1
<1> QED
  BY <1>1, <1>2, <1>3, <1>4, <1>5 DEF Once, Has

\* Appending a new element keeps a sequence without repetitions.
LEMMA AppendedOnce ==
    ASSUME NEW S, NEW q \in Seq(S), NEW x \in S, Once(q),
           ~Has(q, x)
    PROVE  /\ Once(Append(q, x))
           /\ \A y : Has(Append(q, x), y) <=> y = x \/ Has(q, y)
<1>1. /\ DOMAIN Append(q, x) = DOMAIN q \cup {Len(q) + 1}
      /\ \A i \in DOMAIN q : Append(q, x)[i] = q[i]
      /\ Append(q, x)[Len(q) + 1] = x
  BY Appended
<1> QED
  BY <1>1 DEF Once, Has

\* What CONNECTED is to send, each once.
LEMMA OnConnectedOwes ==
    /\ Once(OnConnected) /\ OnConnected \in Seq(Steps) /\ OnConnected # <<>>
    /\ \A p \in Sent : Has(OnConnected, p)
<1>1. /\ OnConnected[1] = "connected" /\ OnConnected[2] = "online"
      /\ OnConnected[3] = "sub node cmd/+" /\ OnConnected[4] = "sub broadcast cmd/+"
      /\ DOMAIN OnConnected = {1, 2, 3, 4}
  <2>1. DOMAIN OnConnected = 1..4
    BY DEF OnConnected
  <2>2. 1..4 = {1, 2, 3, 4}
    OBVIOUS
  <2> QED
    BY <2>1, <2>2 DEF OnConnected
<1>2. Once(OnConnected)
  BY <1>1 DEF Once
<1>3. \A p \in Sent : Has(OnConnected, p)
  BY <1>1 DEF Has, Sent, Packets, Commands
<1> QED
  BY <1>2, <1>3, OnConnectedSteps

\* In a session that lasts, the broker serves the node's connection.
LEMMA Served ==
    ASSUME ConnInv, Alive, conn \in acked
    PROVE  broker_conn = conn /\ conn \in Conns
BY DEF ConnInv, TypeOK, Links, Alive

\* The broker knows nothing yet of a connection just dialled.
LEMMA AccountsDial == ASSUME ConnInv, Dial PROVE Accounts'
<1> DEFINE n == conns + 1
<1>1. /\ n \in Conns /\ conn' = n /\ client' = "connecting"
      /\ net' = [net EXCEPT ![n] = <<"connect">>] /\ acked' = acked
  BY ConnFacts DEF ConnInv, TypeOK, Dial, wire
<1>2. n \notin acked
  BY ConnFacts DEF ConnInv, TypeOK, Links
<1> HIDE DEF n
<1>3. net'[n] = <<"connect">>
  BY <1>1 DEF ConnInv, TypeOK
<1> QED
  BY <1>1, <1>2, <1>3 DEF Accounts, Fresh

\* The session opens with everything still to be sent.
LEMMA AccountsAccepted == ASSUME ConnInv, Accounts, Accepted PROVE Accounts'
<1>1. /\ client = "connecting" /\ conn \in acked /\ client' = "open"
      /\ todo' = OnConnected /\ refused' = {}
      /\ UNCHANGED <<conn, net, dead, acked, broker_conn, subs, retained, shown>>
  BY DEF Accepted, wire, broker
<1>2. ASSUME Alive
      PROVE  net[conn] = <<>> /\ subs = {} /\ retained # "online"
  BY <1>1, <1>2 DEF Accounts, Fresh
<1>3. ASSUME Alive, NEW p \in Sent
      PROVE  OnePlace(p)'
  <2>1. InTodo(p)'
    BY <1>1, OnConnectedOwes DEF InTodo
  <2>2. ~Flying(p)'
    BY <1>1, <1>2, <1>3, EmptyLen DEF Flying, Has
  <2>3. ~Done(p)'
    BY <1>1, <1>2, <1>3 DEF Done
  <2> QED
    BY <1>1, <2>1, <2>2, <2>3 DEF OnePlace
<1>4. Alive' => Alive
  BY <1>1 DEF Alive
<1>5. Once(todo')
  BY <1>1, OnConnectedOwes
<1>6. Alive => Once(net'[conn'])
  BY <1>1, <1>2, EmptyLen DEF Once
<1> QED
  BY <1>1, <1>3, <1>4, <1>5, <1>6 DEF Accounts

\* The flag is no packet.
LEMMA AccountsFlag == ASSUME ConnInv, Accounts, SetFlag PROVE Accounts'
<1>1. /\ todo # <<>> /\ Head(todo) \in {"connected", "disconnected"} /\ todo' = Tail(todo)
      /\ UNCHANGED <<client, conn, net, dead, acked, broker_conn, subs, retained, shown, refused>>
  BY DEF SetFlag, wire, broker
<1>2. Alive' <=> Alive
  BY <1>1 DEF Alive
<1>3. ASSUME client = "connecting", Alive PROVE Fresh'
  BY <1>1, <1>3 DEF Accounts, Fresh
<1>4. ASSUME client = "open", Alive
      PROVE  (Once(todo) /\ Once(net[conn]) /\ \A p \in Sent : OnePlace(p))'
  <2>1. Once(todo) /\ Once(net[conn]) /\ \A p \in Sent : OnePlace(p)
    BY <1>4 DEF Accounts
  <2>2. todo \in Seq(Steps)
    BY DEF ConnInv, TypeOK, Steps
  <2>3. Once(todo') /\ \A p \in Sent : InTodo(p)' <=> InTodo(p)
    <3>1. Head(todo) \notin Sent
      BY <1>1 DEF Sent, Packets, Commands
    <3> QED
      BY <1>1, <2>1, <2>2, <3>1, FirstOrLater DEF InTodo
  <2>4. Once(net'[conn'])
    BY <1>1, <2>1
  <2>5. \A p \in Sent : (Flying(p)' <=> Flying(p)) /\ (Done(p)' <=> Done(p)) /\ refused' = refused
    BY <1>1 DEF Flying, Done
  <2> QED
    BY <2>1, <2>3, <2>4, <2>5 DEF OnePlace
<1> QED
  BY <1>1, <1>2, <1>3, <1>4 DEF Accounts

\* A call moves a packet from the list to the wire, or to the refused ones.
LEMMA AccountsSend == ASSUME ConnInv, Accounts, Send \/ Refuse PROVE Accounts'
<1>0. PICK h \in Sent :
         /\ h = Head(todo) /\ h \in Packets /\ todo # <<>> /\ todo \in Seq(Steps)
         /\ client \in {"idle", "open"}
         /\ UNCHANGED <<dead, acked, broker_conn, subs, retained, shown>>
  BY PacketNext DEF Send, Refuse, ConnInv, TypeOK, Steps, wire, broker
<1>1. CASE client' # "open"
  BY <1>0, <1>1 DEF Accounts, Send, Refuse, Abandon
<1>2. CASE client' = "open" /\ Alive'
  <2>1. client = "open" /\ conn' = conn /\ todo' = Tail(todo) /\ Alive
    BY <1>0, <1>2 DEF Send, Refuse, Abandon, Alive
  <2>2. Once(todo) /\ Once(net[conn]) /\ \A p \in Sent : OnePlace(p)
    BY <2>1 DEF Accounts
  <2>3. /\ Once(todo') /\ ~InTodo(h)'
        /\ \A p \in Sent : InTodo(p) <=> p = h \/ InTodo(p)'
    BY <1>0, <2>1, <2>2, FirstOrLater DEF InTodo
  <2>4. InTodo(h) /\ ~Flying(h) /\ h \notin refused /\ ~Done(h)
    BY <1>0, <2>2, <2>3 DEF OnePlace
  <2>5. \A p \in Sent : Done(p)' <=> Done(p)
    BY <1>0 DEF Done
  <2>6. CASE Send
    <3>1. /\ refused' = refused /\ conn \in Conns /\ net[conn] \in Seq(Packets)
          /\ net' = [net EXCEPT ![conn] = Append(@, h)]
      BY <1>0, <1>2, <2>1, <2>6 DEF Send, Abandon, Alive, ConnInv, TypeOK
    <3>2. net'[conn'] = Append(net[conn], h)
      BY <2>1, <3>1 DEF ConnInv, TypeOK
    <3>3. /\ Once(net'[conn'])
          /\ \A p \in Sent : Flying(p)' <=> p = h \/ Flying(p)
      <4>1. Once(net[conn]) /\ ~Has(net[conn], h)
        BY <2>2, <2>4 DEF Flying
      <4>2. /\ Once(Append(net[conn], h))
            /\ \A y : Has(Append(net[conn], h), y) <=> y = h \/ Has(net[conn], y)
        BY <1>0, <3>1, <4>1, AppendedOnce
      <4> QED
        BY <3>2, <4>2 DEF Flying
    <3>4. ASSUME NEW p \in Sent PROVE OnePlace(p)'
      BY <2>2, <2>3, <2>4, <2>5, <3>1, <3>3 DEF OnePlace
    <3> QED
      BY <1>2, <2>3, <3>3, <3>4 DEF Accounts
  <2>7. CASE Refuse
    <3>1. refused' = refused \cup {h} /\ net' = net
      BY <1>0, <2>7 DEF Refuse, wire
    <3>2. /\ Once(net'[conn'])
          /\ \A p \in Sent : Flying(p)' <=> Flying(p)
      BY <2>1, <2>2, <3>1 DEF Flying
    <3>3. ASSUME NEW p \in Sent PROVE OnePlace(p)'
      BY <2>2, <2>3, <2>4, <2>5, <3>1, <3>2 DEF OnePlace
    <3> QED
      BY <1>2, <2>3, <3>2, <3>3 DEF Accounts
  <2> QED
    BY <2>6, <2>7
<1> QED
  BY <1>1, <1>2 DEF Accounts

\* What the broker reads it has done; a CONNECT that is not the node's puts an
\* end to the node's connection.
LEMMA AccountsRead ==
    ASSUME ConnInv, Accounts, NEW c \in Conns, BrokerReads(c)
    PROVE  Accounts'
<1>h. PICK h : h = Head(net[c])
  OBVIOUS
<1>0. /\ c \notin dead /\ net[c] # <<>> /\ net[c] \in Seq(Packets)
      /\ net' = [net EXCEPT ![c] = Tail(@)]
      /\ UNCHANGED <<client, conn, todo, refused>>
      /\ h = "connect" <=> c \notin acked
      /\ h # "connect" => c = broker_conn
      /\ h = Head(net[c])
  BY <1>h, ReadFacts
<1>1. /\ net'[c] = Tail(net[c])
      /\ \A d \in Conns : d # c => net'[d] = net[d]
  BY <1>0 DEF ConnInv, TypeOK
<1>2. conn # None => conn \in Conns
  BY DEF ConnInv, TypeOK
<1>3. CASE h = "connect"
  <2>1. BrokerConnects(c)
    BY <1>0, <1>3 DEF BrokerReads, Commands
  <2>2. /\ dead' = dead \cup ({broker_conn} \ {None}) /\ subs' = {}
        /\ retained' = IF broker_conn = None THEN retained ELSE "offline"
        /\ broker_conn' = c /\ acked' = acked \cup {c} /\ c \notin acked
    BY <1>0, <1>3, <2>1 DEF BrokerConnects, Closed, LastWill
  <2>3. CASE conn = c
    <3>1. client \notin {"open"}
      BY <2>2, <2>3 DEF ConnInv, Links
    <3>2. Alive' => Alive
      BY <1>0, <2>2 DEF Alive
    <3>3. ASSUME client = "connecting", Alive PROVE Fresh'
      <4>1. net[c] = <<"connect">>
        BY <2>2, <2>3, <3>3 DEF Accounts, Fresh
      <4>2. net'[c] = <<>>
        BY <1>1, <4>1
      <4>3. retained' # "online"
        BY <2>2 DEF ConnInv, PresenceIsExact
      <4> QED
        BY <1>0, <2>2, <2>3, <4>2, <4>3 DEF Fresh
    <3> QED
      BY <1>0, <3>1, <3>2, <3>3 DEF Accounts
  <2>4. CASE conn # c /\ Alive /\ conn \in acked
    <3>1. conn \in dead' /\ conn' = conn
      BY <1>0, <2>2, <2>4, Served DEF Alive
    <3> QED
      BY <3>1 DEF Accounts, Alive
  <2>5. CASE conn # c /\ Alive /\ conn \notin acked
    <3>1. client # "open" /\ conn' = conn /\ conn \notin acked' /\ net'[conn] = net[conn]
      BY <1>0, <1>1, <1>2, <2>2, <2>5 DEF ConnInv, Links, Alive
    <3> QED
      BY <1>0, <2>5, <3>1 DEF Accounts, Fresh
  <2>6. CASE ~Alive
    <3>1. ~Alive'
      BY <1>0, <2>2, <2>6 DEF Alive
    <3> QED
      BY <3>1 DEF Accounts
  <2> QED
    BY <2>3, <2>4, <2>5, <2>6
<1>4. CASE h # "connect"
  <2>1. /\ c = broker_conn /\ c \in acked /\ UNCHANGED <<dead, acked, broker_conn>>
        /\ h \in Sent
        /\ \/ h = "online" /\ retained' = "online" /\ subs' = subs
           \/ h \in Commands /\ retained' = retained /\ subs' = subs \cup {h}
    <3>1. h \in Packets
      BY <1>0, Shortened
    <3> QED
      BY <1>0, <1>4, <3>1
         DEF BrokerReads, BrokerPublishes, BrokerSubscribes, Sent, Packets
  <2>2. Alive' <=> Alive
    BY <1>0, <2>1 DEF Alive
  <2>3. CASE conn # c
    <3>1. Alive => conn \notin acked
      BY <2>1, <2>3, Served
    <3>2. Alive => client # "open"
      BY <3>1 DEF ConnInv, Links
    <3>3. Alive => net'[conn] = net[conn]
      BY <1>1, <1>2, <2>3 DEF Alive
    <3> QED
      BY <1>0, <2>1, <2>2, <3>1, <3>2, <3>3 DEF Accounts, Fresh
  <2>4. CASE conn = c /\ Alive
    <3>1. client # "connecting"
      BY <1>0, <2>1, <2>4 DEF Accounts, Fresh
    <3>2. ASSUME client = "open"
          PROVE  (Once(todo) /\ Once(net[conn]) /\ \A p \in Sent : OnePlace(p))'
      <4>1. Once(todo) /\ Once(net[c]) /\ \A p \in Sent : OnePlace(p)
        BY <2>4, <3>2 DEF Accounts
      <4>2. Once(todo') /\ \A p \in Sent : InTodo(p)' <=> InTodo(p)
        BY <1>0, <4>1 DEF InTodo
      <4>3. net'[conn'] = Tail(net[c])
        BY <1>0, <1>1, <2>4
      <4>4. /\ Once(Tail(net[c])) /\ ~Flying(h)'
            /\ \A p \in Sent : Flying(p) <=> p = h \/ Flying(p)'
        BY <1>0, <2>4, <4>1, <4>3, FirstOrLater DEF Flying
      <4>5. Flying(h) /\ h \in Sent
        BY <2>1, <4>4
      <4>6. \A p \in Sent : Done(p)' <=> p = h \/ Done(p)
        BY <2>1 DEF Done, Sent, Packets, Commands
      <4>7. ASSUME NEW p \in Sent PROVE OnePlace(p)'
        BY <1>0, <4>1, <4>2, <4>4, <4>5, <4>6 DEF OnePlace
      <4> QED
        BY <4>2, <4>3, <4>4, <4>7
    <3> QED
      BY <1>0, <3>1, <3>2 DEF Accounts
  <2>5. CASE ~Alive
    BY <2>2, <2>5 DEF Accounts
  <2> QED
    BY <2>3, <2>4, <2>5
<1> QED
  BY <1>3, <1>4

\* What the broker drops is not a session that lasts.
LEMMA AccountsDrop == ASSUME ConnInv, Accounts, BrokerDrops PROVE Accounts'
<1>1. /\ dead' = dead \cup {broker_conn} /\ broker_conn \in Conns
      /\ broker_conn \in dead \/ broker_conn # conn
      /\ net' = [net EXCEPT ![broker_conn] = <<>>]
      /\ UNCHANGED <<client, conn, todo, refused, acked>>
  BY ConnFacts DEF BrokerDrops, Closed, ConnInv, TypeOK, node
<1>2. CASE ~Alive
  BY <1>1, <1>2 DEF Accounts, Alive
<1>3. CASE Alive
  <2>1. conn # broker_conn /\ conn \in Conns
    BY <1>1, <1>3 DEF Alive, ConnInv, TypeOK
  <2>2. conn \notin acked /\ client # "open"
    <3>1. conn \notin acked
      BY <1>3, <2>1, Served
    <3> QED
      BY <3>1 DEF ConnInv, Links
  <2>3. net'[conn'] = net[conn]
    BY <1>1, <2>1 DEF ConnInv, TypeOK
  <2> QED
    BY <1>1, <1>3, <2>2, <2>3 DEF Accounts, Fresh
<1> QED
  BY <1>2, <1>3

\* Steps that end the session, or leave its accounts as they are.
LEMMA AccountsEnd ==
    ASSUME ConnInv, Accounts, Start \/ Lost \/ Break \/ Restart \/ UNCHANGED vars
    PROVE  Accounts'
<1>1. CASE Start \/ Lost \/ Restart
  BY <1>1 DEF Start, Lost, Abandon, Restart, Accounts
<1>2. CASE Break
  <2>1. conn' = conn /\ conn \in dead'
    BY <1>2 DEF Break, node
  <2> QED
    BY <2>1 DEF Accounts, Alive
<1>3. CASE UNCHANGED vars
  BY <1>3 DEF vars, Accounts, Alive, Fresh, OnePlace, InTodo, Flying, Done
<1> QED
  BY <1>1, <1>2, <1>3

LEMMA AccountsStep == ConnInv /\ Accounts /\ [Next]_vars => Accounts'
BY AccountsDial, AccountsAccepted, AccountsFlag, AccountsSend, AccountsRead,
   AccountsDrop, AccountsEnd DEF Next, Handler

\* Whatever breaks, in every session that lasts each packet the handler owes
\* the broker is still to be sent, in flight, refused or done, and only once.
THEOREM AccountsBalance == Spec => [](ConnInv /\ Accounts)
<1>1. Init => ConnInv /\ Accounts
  BY ConnInit DEF Init, Accounts
<1>2. ConnInv /\ Accounts /\ [Next]_vars => (ConnInv /\ Accounts)'
  BY ConnStep, AccountsStep
<1> QED
  BY <1>1, <1>2, PTL DEF Spec

\* A session that lasts is whole once its handler is through: the node is
\* shown online and subscribed to both of its command topics, but for what the
\* client refused in this very session.
THEOREM LastingSessionIsWhole == Spec => []SessionIsWhole
<1>1. ConnInv /\ Accounts => SessionIsWhole
  <2> SUFFICES ASSUME ConnInv, Accounts, client = "open", conn \notin dead,
                      todo = <<>>, net[conn] = <<>>
               PROVE  /\ s_connected /\ broker_conn = conn
                      /\ retained = "online" <=> "online" \notin refused
                      /\ subs = Commands \ refused
    BY DEF SessionIsWhole
  <2>1. Alive /\ conn \in acked
    BY DEF ConnInv, Links, Alive
  <2>2. broker_conn = conn
    BY <2>1, Served
  <2>3. s_connected
    <3>1. todo # OnConnected
      BY OnConnectedSteps
    <3> QED
      BY <3>1 DEF ConnInv, Handling
  <2>4. \A p \in Sent : ~InTodo(p) /\ ~Flying(p)
    BY EmptyLen DEF InTodo, Flying, Has
  <2>5. \A p \in Sent : p \in refused <=> ~Done(p)
    BY <2>1, <2>4 DEF Accounts, OnePlace
  <2>6. retained = "online" <=> "online" \notin refused
    BY <2>5 DEF Done, Sent, Packets, Commands
  <2>7. \A p \in Commands : p \in Sent /\ p # "online"
    BY DEF Sent, Packets, Commands
  <2>8. subs \subseteq Commands
    BY DEF ConnInv, TypeOK
  <2>9. subs = Commands \ refused
    BY <2>5, <2>7, <2>8 DEF Done
  <2> QED
    BY <2>2, <2>3, <2>6, <2>9
<1> QED
  BY <1>1, AccountsBalance, PTL
-----------------------------------------------------------------------------
\* Every step of the session is one of the flag's, or leaves it and the
\* session as they are.
LEMMA FlagStep == ConnInv /\ [Next]_vars => [Flag!Next]_(Flag!vars)
<1> SUFFICES ASSUME ConnInv, [Next]_vars
             PROVE  Flag!Next \/ (UNCHANGED s_connected /\ (client = "open") = (client' = "open"))
  BY DEF Flag!vars
<1>0. TypeOK /\ Handling
  BY DEF ConnInv
<1>1. CASE Start \/ Dial
  BY <1>1 DEF Start, Dial
<1>2. CASE Accepted
  BY <1>0, <1>2 DEF Accepted, Handling, Flag!Next, Flag!Opens
<1>3. CASE Lost
  BY <1>3 DEF Lost, Abandon, Flag!Next, Flag!Drops
<1>4. CASE SetFlag
  <2>1. client' = client
    BY <1>4 DEF SetFlag
  <2>2. CASE client = "open" /\ ~s_connected /\ s_connected'
    <3>1. s_connected' = TRUE
      BY <1>0, <1>4, <2>2, Zenon DEF TypeOK, SetFlag
    <3> QED
      BY <2>1, <2>2, <3>1 DEF Flag!Next, Flag!Raised
  <2>3. CASE client = "idle" /\ ~s_connected'
    <3>0. s_connected' = FALSE
      BY <1>0, <1>4, <2>3, Zenon DEF TypeOK, SetFlag
    <3>1. CASE s_connected
      BY <2>1, <2>3, <3>0, <3>1 DEF Flag!Next, Flag!Lowered
    <3>2. CASE ~s_connected
      <4>1. s_connected = FALSE
        BY <1>0, <3>2, Zenon DEF TypeOK
      <4> QED
        BY <2>1, <3>0, <4>1
    <3> QED
      BY <3>1, <3>2
  <2> QED
    BY <1>0, <1>4, <2>2, <2>3, FlagNext
<1>5. CASE Send \/ Refuse
  BY <1>5 DEF Send, Refuse, Abandon, Flag!Next, Flag!Drops
<1>6. CASE Break \/ BrokerDrops \/ \E c \in Conns : BrokerReads(c)
  BY <1>6 DEF Break, BrokerDrops, BrokerReads, node
<1>7. CASE Restart
  BY <1>7 DEF Restart, Flag!Next, Flag!Restart
<1>8. CASE UNCHANGED vars
  BY <1>8 DEF vars
<1> QED
  BY <1>1, <1>2, <1>3, <1>4, <1>5, <1>6, <1>7, <1>8 DEF Next, Handler

\* s_connected goes up only in a session and is down before the next one: the
\* session implements the flag that the publish queue is built on.
THEOREM ImplementsFlag == Spec => FlagSpec
<1>1. Init => Flag!Init
  BY DEF Init, Flag!Init
<1> QED
  BY <1>1, FlagStep, SessionInvariant, PTL DEF Spec, FlagSpec, Flag!Spec
=============================================================================
