------------------------ MODULE EthernetServiceProofs ------------------------
(***************************************************************************)
(* How the node finds its broker, for every set of gateways, every length   *)
(* of the event loop's queue and every behavior of the surroundings.        *)
(***************************************************************************)
EXTENDS EthernetService, TLAPS

\* The IP bit and its event stem from a lease of this boot, as does the address.
BitBacked ==
    /\ "GOT_IP" \in bits \/ Pending("GOT_IP") => leased # {}
    /\ addr \in leased \cup {NoAddress}

\* What the boot has come to is backed by a lease.
Invariant == TypeOK /\ AddressIsReported /\ BitBacked /\ StartedWithBroker
-----------------------------------------------------------------------------
(***************************************************************************)
(* The event loop's queue.                                                  *)
(***************************************************************************)
LEMMA Posted ==
    ASSUME NEW q \in Seq(Events), NEW x \in Events
    PROVE  /\ Append(q, x) \in Seq(Events)
           /\ DOMAIN Append(q, x) = DOMAIN q \cup {Len(q) + 1}
           /\ \A i \in DOMAIN q : Append(q, x)[i] = q[i]
           /\ Append(q, x)[Len(q) + 1] = x
  OBVIOUS

LEMMA Taken ==
    ASSUME NEW q \in Seq(Events), q # <<>>
    PROVE  /\ Head(q) \in Events /\ Tail(q) \in Seq(Events)
           /\ \A i \in DOMAIN Tail(q) : i + 1 \in DOMAIN q /\ Tail(q)[i] = q[i + 1]
           /\ \A i \in DOMAIN q : i = 1 \/ (i - 1 \in DOMAIN Tail(q) /\ Tail(q)[i - 1] = q[i])
           /\ Head(q) = q[1]
  OBVIOUS

\* Handling the head: what is pending afterwards was before, and the head was.
LEMMA PendingAfter ==
    ASSUME TypeOK, loop # <<>>, loop' = Tail(loop), NEW e \in Events
    PROVE  /\ Pending(e)' => Pending(e)
           /\ Pending(Head(loop))
           /\ Pending(e) => Pending(e)' \/ Head(loop) = e
<1>1. loop \in Seq(Events)
  BY DEF TypeOK
<1>2. Pending(e)' => Pending(e)
  BY <1>1, Taken DEF Pending
<1>3. 1 \in DOMAIN loop /\ loop[1] = Head(loop)
  BY <1>1
<1>4. Pending(e) => Pending(e)' \/ Head(loop) = e
  <2> SUFFICES ASSUME NEW i \in DOMAIN loop, loop[i] = e
               PROVE  Pending(e)' \/ Head(loop) = e
    BY DEF Pending
  <2>1. CASE i = 1
    BY <2>1, <1>3
  <2>2. CASE i # 1
    BY <2>2, <1>1, Taken DEF Pending
  <2> QED
    BY <2>1, <2>2
<1> QED
  BY <1>2, <1>3, <1>4 DEF Pending

\* Posting adds an event and nothing else.
LEMMA PendingPosted ==
    ASSUME TypeOK, NEW x \in Events, Post(x), NEW e \in Events
    PROVE  /\ loop' \in Seq(Events)
           /\ Pending(e) => Pending(e)'
           /\ Pending(x)'
           /\ Pending(e)' => Pending(e) \/ e = x
<1>1. loop \in Seq(Events) /\ loop' = Append(loop, x)
  BY DEF TypeOK, Post
<1>2. Len(loop) + 1 \in DOMAIN loop' /\ loop'[Len(loop) + 1] = x
  BY <1>1, Posted
<1>3. \A i \in DOMAIN loop : i \in DOMAIN loop' /\ loop'[i] = loop[i]
  BY <1>1, Posted
<1>4. \A i \in DOMAIN loop' : i \in DOMAIN loop \/ i = Len(loop) + 1
  BY <1>1, Posted
<1> QED
  BY <1>1, <1>2, <1>3, <1>4, Posted DEF Pending
-----------------------------------------------------------------------------
LEMMA NoEvents == <<>> \in Seq(Events) /\ DOMAIN <<>> = {}
  OBVIOUS

\* After a restart the invariant holds anew.
LEMMA RebootInv ==
    ASSUME Invariant, Reboot, cable' \in BOOLEAN, offer' \in Leases \cup {NoOffer},
           changes' \in 0..MaxChanges
    PROVE  Invariant'
<1>1. TypeOK'
  <2>1. loop' \in Seq(Events) /\ bits' \subseteq Bits /\ leased' \subseteq Leases
    BY NoEvents DEF Reboot
  <2> QED
    BY <2>1 DEF Reboot, TypeOK
<1>2. ~Pending("GOT_IP")'
  BY DEF Reboot, Pending
<1>3. AddressIsReported' /\ BitBacked' /\ StartedWithBroker'
  BY <1>2 DEF Reboot, AddressIsReported, BitBacked, StartedWithBroker
<1> QED
  BY <1>1, <1>3 DEF Invariant

LEMMA SurroundingsInv ==
    Invariant /\ (Plug \/ Reconfigure \/ LeaseLost \/ PowerCut) => Invariant'
<1> SUFFICES ASSUME Invariant, Plug \/ Reconfigure \/ LeaseLost \/ PowerCut
             PROVE  Invariant'
  OBVIOUS
<1>1. changes' \in 0..MaxChanges
  BY EthernetAssumption DEF Invariant, TypeOK, Plug, Reconfigure, LeaseLost, PowerCut, Change
<1>2. CASE Plug
  BY <1>1, <1>2 DEF Plug, Invariant, TypeOK, AddressIsReported, BitBacked,
                    StartedWithBroker, Pending, netif, main
<1>3. CASE Reconfigure
  BY <1>1, <1>3 DEF Reconfigure, Invariant, TypeOK, AddressIsReported, BitBacked,
                    StartedWithBroker, Pending, netif, main
<1>4. CASE LeaseLost
  BY <1>1, <1>4 DEF LeaseLost, Invariant, TypeOK, AddressIsReported, BitBacked,
                    StartedWithBroker, Pending, main
<1>5. CASE PowerCut
  BY <1>1, <1>5, RebootInv DEF PowerCut, Invariant, TypeOK
<1> QED
  BY <1>2, <1>3, <1>4, <1>5

LEMMA DriverInv == Invariant /\ (LinkNoticed \/ DhcpBinds) => Invariant'
<1> SUFFICES ASSUME Invariant, LinkNoticed \/ DhcpBinds PROVE Invariant'
  OBVIOUS
<1>1. TypeOK
  BY DEF Invariant
<1>2. CASE LinkNoticed
  <2> DEFINE e == IF cable THEN "CONNECTED" ELSE "DISCONNECTED"
  <2>1. e \in Events /\ e # "GOT_IP" /\ "GOT_IP" \in Events /\ Post(e)
    BY <1>2 DEF LinkNoticed, Events
  <2> HIDE DEF e
  <2>2. loop' \in Seq(Events) /\ (Pending("GOT_IP") <=> Pending("GOT_IP")')
    BY <1>1, <2>1, PendingPosted
  <2> QED
    BY <1>2, <2>2 DEF LinkNoticed, Invariant, TypeOK, AddressIsReported, BitBacked,
                      StartedWithBroker, world, main
<1>3. CASE DhcpBinds
  <2>1. "GOT_IP" \in Events /\ Post("GOT_IP")
    BY <1>3 DEF DhcpBinds, Events
  <2>2. loop' \in Seq(Events) /\ Pending("GOT_IP")'
    BY <1>1, <2>1, PendingPosted
  <2> QED
    BY <1>3, <2>2 DEF DhcpBinds, Invariant, TypeOK, AddressIsReported, BitBacked,
                      StartedWithBroker, world, main
<1> QED
  BY <1>2, <1>3

LEMMA HandleEventInv == Invariant /\ HandleEvent => Invariant'
<1> SUFFICES ASSUME Invariant, HandleEvent PROVE Invariant'
  OBVIOUS
<1> DEFINE e == Head(loop)
<1>1. loop # <<>> /\ loop' = Tail(loop) /\ loop \in Seq(Events) /\ TypeOK
  BY DEF HandleEvent, Invariant, TypeOK
<1>2. e \in Events /\ Tail(loop) \in Seq(Events)
  BY <1>1, Taken
<1>3. /\ Pending("GOT_IP")' => Pending("GOT_IP")
      /\ Pending("GOT_IP") => Pending("GOT_IP")' \/ e = "GOT_IP"
      /\ e = "GOT_IP" => Pending("GOT_IP")
  BY <1>1, PendingAfter DEF Events
<1>4. /\ bits' = (bits \ Of(Clears, e)) \cup Of(Sets, e)
      /\ dhcp' \in BOOLEAN
      /\ addr' = IF e = "DISCONNECTED" THEN NoAddress ELSE addr
      /\ UNCHANGED <<world, link, leased, main>>
  BY DEF HandleEvent
<1> HIDE DEF e
<1>5. /\ bits' \subseteq Bits
      /\ "GOT_IP" \in bits' => "GOT_IP" \in bits \/ e = "GOT_IP"
      /\ e = "GOT_IP" => "GOT_IP" \in bits'
      /\ "GOT_IP" \in bits /\ e # "DISCONNECTED" => "GOT_IP" \in bits'
  <2>1. bits \subseteq Bits /\ e \in {"START", "CONNECTED", "DISCONNECTED", "GOT_IP"}
    BY <1>1, <1>2 DEF TypeOK, Events
  <2>2. /\ Of(Clears, e) = IF e = "DISCONNECTED" THEN {"LINK_UP", "GOT_IP"} ELSE {}
        /\ Of(Sets, e) \subseteq Bits
        /\ "GOT_IP" \in Of(Sets, e) <=> e = "GOT_IP"
    BY <2>1 DEF Of, Sets, Clears, Bits
  <2> QED
    BY <2>1, <2>2, <1>4
<1>6. TypeOK'
  BY <1>1, <1>2, <1>4, <1>5 DEF TypeOK, world, main
<1>7. AddressIsReported' /\ BitBacked'
  BY <1>3, <1>4, <1>5 DEF Invariant, AddressIsReported, BitBacked
<1>8. StartedWithBroker'
  BY <1>4 DEF Invariant, StartedWithBroker, main
<1> QED
  BY <1>6, <1>7, <1>8 DEF Invariant

LEMMA AppMainInv == Invariant /\ AppMain => Invariant'
<1> SUFFICES ASSUME Invariant, AppMain PROVE Invariant'
  OBVIOUS
<1>1. CASE ServiceInit
  BY <1>1 DEF ServiceInit, Invariant, TypeOK, AddressIsReported, BitBacked,
              StartedWithBroker, Pending, world, netif
<1>2. CASE ServiceStart
  <2>1. "START" \in Events /\ "GOT_IP" \in Events /\ Post("START") /\ TypeOK
    BY <1>2 DEF ServiceStart, Events, Invariant
  <2>2. loop' \in Seq(Events) /\ (Pending("GOT_IP") <=> Pending("GOT_IP")')
    BY <2>1, PendingPosted
  <2> QED
    BY <1>2, <2>2 DEF ServiceStart, Invariant, TypeOK, AddressIsReported, BitBacked,
                      StartedWithBroker, world, netif
<1>3. CASE WaitForIp
  BY <1>3 DEF WaitForIp, WaitOver, Invariant, TypeOK, AddressIsReported, BitBacked,
              StartedWithBroker, Pending, world, netif
<1>4. CASE MqttInit
  <2>1. CASE Usable(addr)
    <3>1. addr \in leased \cap Brokers
      BY <2>1 DEF Usable, Invariant, BitBacked, TypeOK, Leases
    <3> QED
      BY <1>4, <2>1, <3>1 DEF MqttInit, Invariant, TypeOK, AddressIsReported, BitBacked,
                              StartedWithBroker, Pending, world, netif
  <2>2. CASE ~Usable(addr)
    BY <1>4, <2>2, RebootInv DEF MqttInit, Invariant, TypeOK, world
  <2> QED
    BY <2>1, <2>2
<1> QED
  BY <1>1, <1>2, <1>3, <1>4 DEF AppMain
-----------------------------------------------------------------------------
(***************************************************************************)
(* Every state is well typed; whoever waits for the IP bit learns of an     *)
(* address; MQTT is started only towards a gateway leased in this boot.     *)
(***************************************************************************)
THEOREM NetworkCorrect == Spec => []Invariant
<1>1. Init => Invariant
  <2> SUFFICES ASSUME Init PROVE Invariant
    OBVIOUS
  <2>1. loop \in Seq(Events) /\ bits \subseteq Bits /\ leased \subseteq Leases
    BY NoEvents DEF Init, Boot
  <2>2. /\ offer = NoOffer /\ changes = 0 /\ addr = NoAddress
        /\ boot = "init" /\ broker = NoAddress /\ leased = {}
    BY DEF Init, Boot
  <2>3. cable \in BOOLEAN /\ link \in BOOLEAN /\ dhcp \in BOOLEAN
    BY Zenon DEF Init, Boot
  <2>4. TypeOK
    BY <2>1, <2>2, <2>3, EthernetAssumption DEF TypeOK
  <2>5. "GOT_IP" \notin bits /\ ~Pending("GOT_IP")
    BY NoEvents DEF Init, Boot, Pending
  <2> QED
    BY <2>2, <2>4, <2>5 DEF Invariant, AddressIsReported, BitBacked, StartedWithBroker
<1>2. Invariant /\ [Next]_vars => Invariant'
  <2> SUFFICES ASSUME Invariant, [Next]_vars PROVE Invariant'
    OBVIOUS
  <2>1. CASE UNCHANGED vars
    BY <2>1 DEF vars, Invariant, TypeOK, AddressIsReported, BitBacked, StartedWithBroker,
                Pending
  <2>2. CASE Next
    BY <2>2, SurroundingsInv, DriverInv, HandleEventInv, AppMainInv DEF Next
  <2> QED
    BY <2>1, <2>2
<1> QED
  BY <1>1, <1>2, PTL DEF Spec

\* MQTT is started only towards a real gateway leased since the restart.
THEOREM BrokerIsLeased == Spec => []StartedWithBroker
<1>1. Invariant => StartedWithBroker
  BY DEF Invariant
<1> QED
  BY <1>1, NetworkCorrect, PTL

\* An address is in the IP bit or on its way there.
THEOREM AddressReported == Spec => []AddressIsReported
<1>1. Invariant => AddressIsReported
  BY DEF Invariant
<1> QED
  BY <1>1, NetworkCorrect, PTL
-----------------------------------------------------------------------------
(***************************************************************************)
(* The link bit: the last link event that waits says what the link is, and  *)
(* the bit does when none waits.                                            *)
(***************************************************************************)
LinkEvents == {"CONNECTED", "DISCONNECTED"}
NoneAfter(i) == \A j \in DOMAIN loop : j > i => loop[j] \notin LinkEvents

LinkInv ==
    /\ \A i \in DOMAIN loop :
          loop[i] \in LinkEvents /\ NoneAfter(i) => ((loop[i] = "CONNECTED") <=> link)
    /\ (\A i \in DOMAIN loop : loop[i] \notin LinkEvents) => (("LINK_UP" \in bits) <=> link)

\* Posting any other event changes nothing.
LEMMA LinkOther ==
    ASSUME TypeOK, LinkInv, NEW e \in Events \ LinkEvents, Post(e), UNCHANGED <<link, bits>>
    PROVE  LinkInv'
<1> DEFINE last == Len(loop) + 1
<1>1. /\ loop \in Seq(Events) /\ loop' = Append(loop, e)
  BY DEF TypeOK, Post
<1>2. /\ \A i \in DOMAIN loop : i \in DOMAIN loop' /\ loop'[i] = loop[i]
      /\ \A i \in DOMAIN loop' : i \in DOMAIN loop \/ i = last
      /\ loop'[last] = e
  BY <1>1, Posted
<1> HIDE DEF last
<1>3. ASSUME NEW i \in DOMAIN loop', loop'[i] \in LinkEvents,
             \A j \in DOMAIN loop' : j > i => loop'[j] \notin LinkEvents
      PROVE  (loop'[i] = "CONNECTED") <=> link
  BY <1>2, <1>3 DEF LinkInv, NoneAfter
<1>4. ASSUME \A i \in DOMAIN loop' : loop'[i] \notin LinkEvents
      PROVE  ("LINK_UP" \in bits) <=> link
  BY <1>2, <1>4 DEF LinkInv
<1> QED
  BY <1>3, <1>4 DEF LinkInv, NoneAfter

LEMMA LinkPosted ==
    ASSUME TypeOK, LinkInv, LinkNoticed
    PROVE  LinkInv'
<1> DEFINE e == IF cable THEN "CONNECTED" ELSE "DISCONNECTED"
           last == Len(loop) + 1
<1>1. /\ loop \in Seq(Events) /\ loop' = Append(loop, e) /\ link' = cable
      /\ cable \in BOOLEAN /\ e \in Events
  BY DEF TypeOK, LinkNoticed, Post, Events
<1>2. e \in LinkEvents /\ ((e = "CONNECTED") <=> link')
  BY <1>1 DEF LinkEvents
<1> HIDE DEF e
<1>3. /\ \A i \in DOMAIN loop' : i < last \/ i = last
      /\ last \in DOMAIN loop' /\ loop'[last] = e
  <2>1. /\ \A i \in DOMAIN loop' : i \in DOMAIN loop \/ i = last
        /\ last \in DOMAIN loop' /\ loop'[last] = e
    BY <1>1, Posted
  <2>2. \A i \in DOMAIN loop : i < last
    BY <1>1
  <2> QED
    BY <2>1, <2>2
<1> HIDE DEF last
<1>4. ASSUME NEW i \in DOMAIN loop', loop'[i] \in LinkEvents,
             \A j \in DOMAIN loop' : j > i => loop'[j] \notin LinkEvents
      PROVE  (loop'[i] = "CONNECTED") <=> link'
  <2>1. i = last
    BY <1>2, <1>3, <1>4
  <2> QED
    BY <1>2, <1>3, <2>1
<1> QED
  BY <1>2, <1>3, <1>4 DEF LinkInv, NoneAfter

LEMMA LinkHandled ==
    ASSUME TypeOK, LinkInv, HandleEvent
    PROVE  LinkInv'
<1> DEFINE e == Head(loop)
<1>1. /\ loop # <<>> /\ loop' = Tail(loop) /\ loop \in Seq(Events) /\ link' = link
      /\ bits' = (bits \ Of(Clears, e)) \cup Of(Sets, e)
  BY DEF HandleEvent, TypeOK
<1>2. /\ e \in Events /\ e = loop[1] /\ 1 \in DOMAIN loop
      /\ DOMAIN loop = 1..Len(loop) /\ Len(loop) \in Nat
      /\ DOMAIN loop' = 1..(Len(loop) - 1)
      /\ \A i \in DOMAIN loop' : i + 1 \in DOMAIN loop /\ loop'[i] = loop[i + 1]
  BY <1>1, Taken
<1> HIDE DEF e
<1>3. /\ e = "CONNECTED" => "LINK_UP" \in bits'
      /\ e = "DISCONNECTED" => "LINK_UP" \notin bits'
      /\ e \notin LinkEvents => (("LINK_UP" \in bits') <=> ("LINK_UP" \in bits))
  <2>1. e \in {"START", "CONNECTED", "DISCONNECTED", "GOT_IP"}
    BY <1>2 DEF Events
  <2>2. /\ Of(Clears, e) = IF e = "DISCONNECTED" THEN {"LINK_UP", "GOT_IP"} ELSE {}
        /\ "LINK_UP" \in Of(Sets, e) <=> e = "CONNECTED"
    BY <2>1 DEF Of, Sets, Clears
  <2> QED
    BY <1>1, <2>1, <2>2 DEF LinkEvents
<1>4. \A j \in DOMAIN loop : j = 1 \/ (j - 1 \in DOMAIN loop' /\ loop[j] = loop'[j - 1])
  <2> SUFFICES ASSUME NEW j \in DOMAIN loop, j # 1
               PROVE  j - 1 \in DOMAIN loop' /\ loop[j] = loop'[j - 1]
    OBVIOUS
  <2>1. j - 1 \in DOMAIN loop' /\ (j - 1) + 1 = j
    BY <1>2
  <2> QED
    BY <1>2, <2>1
<1>5. ASSUME NEW i \in DOMAIN loop', loop'[i] \in LinkEvents,
             \A j \in DOMAIN loop' : j > i => loop'[j] \notin LinkEvents
      PROVE  (loop'[i] = "CONNECTED") <=> link
  <2>1. i + 1 \in DOMAIN loop /\ loop'[i] = loop[i + 1] /\ i \in Nat /\ i >= 1
    BY <1>2
  <2>2. ASSUME NEW j \in DOMAIN loop, j > i + 1 PROVE loop[j] \notin LinkEvents
    <3>1. j \in Nat /\ j # 1 /\ j - 1 > i
      BY <1>2, <2>1, <2>2
    <3> QED
      BY <1>4, <1>5, <3>1
  <2>3. NoneAfter(i + 1)
    BY <2>2 DEF NoneAfter
  <2> QED
    BY <1>5, <2>1, <2>3 DEF LinkInv
<1>6. ASSUME \A i \in DOMAIN loop' : loop'[i] \notin LinkEvents
      PROVE  ("LINK_UP" \in bits') <=> link
  <2>1. \A j \in DOMAIN loop : j # 1 => loop[j] \notin LinkEvents
    BY <1>4, <1>6
  <2>2. CASE e \in LinkEvents
    <3>1. NoneAfter(1)
      BY <1>2, <2>1 DEF NoneAfter
    <3>2. (e = "CONNECTED") <=> link
      BY <1>2, <2>2, <3>1 DEF LinkInv
    <3> QED
      BY <1>3, <2>2, <3>2 DEF LinkEvents
  <2>3. CASE e \notin LinkEvents
    <3>1. ("LINK_UP" \in bits) <=> link
      BY <1>2, <2>1, <2>3 DEF LinkInv
    <3> QED
      BY <1>3, <2>3, <3>1
  <2> QED
    BY <2>2, <2>3
<1> QED
  BY <1>1, <1>5, <1>6 DEF LinkInv, NoneAfter

LEMMA LinkReboot == Reboot => LinkInv'
  BY NoEvents DEF Reboot, LinkInv

LEMMA LinkNext == TypeOK /\ LinkInv /\ [Next]_vars => LinkInv'
<1> SUFFICES ASSUME TypeOK, LinkInv, [Next]_vars PROVE LinkInv'
  OBVIOUS
<1>1. CASE UNCHANGED <<link, loop, bits>>
  BY <1>1 DEF LinkInv, NoneAfter
<1>2. CASE DhcpBinds \/ ServiceStart
  <2>1. {"GOT_IP", "START"} \subseteq Events \ LinkEvents
    BY DEF Events, LinkEvents
  <2> QED
    BY <1>2, <2>1, LinkOther DEF DhcpBinds, ServiceStart, netif
<1>3. CASE MqttInit
  BY <1>1, <1>3, LinkReboot DEF MqttInit, netif
<1>4. CASE PowerCut
  BY <1>4, LinkReboot DEF PowerCut
<1>5. CASE Plug \/ Reconfigure \/ LeaseLost \/ ServiceInit \/ WaitForIp \/ UNCHANGED vars
  BY <1>1, <1>5 DEF Plug, Reconfigure, LeaseLost, ServiceInit, WaitForIp, netif, vars
<1> QED
  BY <1>2, <1>3, <1>4, <1>5, LinkPosted, LinkHandled DEF Next, AppMain

\* Once the event loop has caught up, the link bit is the driver's link, after
\* any number of link changes queued behind one another.
THEOREM LinkSettles == Spec => []LinkBitSettles
<1>1. Init => LinkInv
  BY NoEvents DEF Init, Boot, LinkInv
<1>2. Invariant => TypeOK
  BY DEF Invariant
<1>3. TypeOK /\ LinkInv => LinkBitSettles
  <2> SUFFICES ASSUME TypeOK, LinkInv, loop = <<>> PROVE ("LINK_UP" \in bits) = link
    BY DEF LinkBitSettles
  <2>1. ("LINK_UP" \in bits) <=> link
    BY NoEvents DEF LinkInv
  <2>2. link \in BOOLEAN
    BY DEF TypeOK
  <2> QED
    BY <2>1, <2>2
<1> QED
  BY <1>1, <1>2, <1>3, LinkNext, NetworkCorrect, PTL DEF Spec
=============================================================================
