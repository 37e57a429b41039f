---------------------------- MODULE EthernetService ----------------------------
(***************************************************************************)
(* How the node finds its broker: the Ethernet driver and DHCP post events  *)
(* to the default event loop, ethernet_service.c mirrors them in its event  *)
(* group, and app_main waits for the IP bit, reads the gateway once and     *)
(* builds the broker address from it (mqtt_service_init), or restarts.      *)
(*                                                                          *)
(* The driver, DHCP and the netif glue are ESP-IDF's: the glue, on the      *)
(* event loop, starts DHCP on CONNECTED, and stops it and forgets the       *)
(* address on DISCONNECTED.  Nothing calls esp_eth_stop.                    *)
(***************************************************************************)
EXTENDS Naturals, Sequences

CONSTANTS
    Brokers,     \* the gateways DHCP may hand out, a broker behind each
    LoopLength,  \* bound: events the default event loop holds
    MaxChanges   \* bound: changes of the surroundings over a whole behavior

ASSUME EthernetAssumption == LoopLength \in Nat /\ MaxChanges \in Nat

NoAddress == "no address"
NoGateway == "address without gateway"
NoOffer == "no DHCP server"
ASSUME NamesAssumption == Brokers \cap {NoAddress, NoGateway, NoOffer} = {}

Leases == Brokers \cup {NoGateway}
Events == {"START", "CONNECTED", "DISCONNECTED", "GOT_IP"}
Bits == {"STARTED", "LINK_UP", "GOT_IP"}

VARIABLES
    cable,    \* is there a link on the wire?
    offer,    \* what the DHCP server hands out
    link,     \* the driver's view of the cable
    dhcp,     \* is the DHCP client running?
    addr,     \* what the netif holds: no address, or a lease's gateway
    loop,     \* the default event loop's queue
    bits,     \* s_state.event_group
    boot,     \* where app_main is
    broker,   \* s_broker_uri, as the gateway in it
    leased,   \* history: the leases DHCP got since the restart
    changes   \* changes of the surroundings so far

world == <<cable, offer, changes>>
netif == <<link, dhcp, addr, leased>>
main == <<boot, broker>>
vars == <<cable, offer, link, dhcp, addr, loop, bits, boot, broker, leased, changes>>

\* What a restart leaves of the node.
Boot ==
    /\ link = FALSE /\ dhcp = FALSE /\ addr = NoAddress /\ loop = <<>> /\ bits = {}
    /\ boot = "init" /\ broker = NoAddress /\ leased = {}

Init == cable = FALSE /\ offer = NoOffer /\ changes = 0 /\ Boot

Reboot ==
    /\ link' = FALSE /\ dhcp' = FALSE /\ addr' = NoAddress /\ loop' = <<>> /\ bits' = {}
    /\ boot' = "init" /\ broker' = NoAddress /\ leased' = {}
-----------------------------------------------------------------------------
\* Mutants of definitions below.
bug_Clears_ip_only == [DISCONNECTED |-> {"GOT_IP"}]
bug_Sets_no_ip == [START |-> {"STARTED"}, CONNECTED |-> {"LINK_UP"}]
bug_WaitOver == "LINK_UP" \in bits
-----------------------------------------------------------------------------
(***************************************************************************)
(* The surroundings: the cable, the DHCP server, the lease, the power.      *)
(***************************************************************************)
Change == changes < MaxChanges /\ changes' = changes + 1

Plug == /\ Change
        /\ cable' = ~cable
        /\ UNCHANGED <<offer, netif, loop, bits, main>>

Reconfigure == /\ Change
               /\ offer' \in (Leases \cup {NoOffer}) \ {offer}
               /\ UNCHANGED <<cable, netif, loop, bits, main>>

\* IP_EVENT_ETH_LOST_IP has no handler.
LeaseLost == /\ Change
             /\ addr # NoAddress
             /\ addr' = NoAddress
             /\ UNCHANGED <<cable, offer, link, dhcp, leased, loop, bits, main>>

PowerCut == Change /\ Reboot /\ UNCHANGED <<cable, offer>>
-----------------------------------------------------------------------------
(***************************************************************************)
(* The driver and the DHCP client, which post events.                       *)
(***************************************************************************)
Post(e) == Len(loop) < LoopLength /\ loop' = Append(loop, e)

LinkNoticed ==
    /\ boot \notin {"init", "start"}
    /\ link # cable
    /\ link' = cable
    /\ Post(IF cable THEN "CONNECTED" ELSE "DISCONNECTED")
    /\ UNCHANGED <<world, dhcp, addr, leased, bits, main>>

\* An answer that was under way may be taken in after the link went down.
DhcpBinds ==
    /\ dhcp
    /\ offer \in Leases /\ addr # offer
    /\ addr' = offer
    /\ leased' = leased \cup {offer}
    /\ Post("GOT_IP")
    /\ UNCHANGED <<world, link, dhcp, bits, main>>
-----------------------------------------------------------------------------
(***************************************************************************)
(* eth_event_handler and got_ip_event_handler, after the glue's handlers.   *)
(***************************************************************************)
Sets == [START |-> {"STARTED"}, CONNECTED |-> {"LINK_UP"}, GOT_IP |-> {"GOT_IP"}]
Clears == [DISCONNECTED |-> {"LINK_UP", "GOT_IP"}]

Of(table, e) == IF e \in DOMAIN table THEN table[e] ELSE {}

HandleEvent ==
    /\ loop # <<>>
    /\ loop' = Tail(loop)
    /\ LET e == Head(loop) IN
        /\ bits' = (bits \ Of(Clears, e)) \cup Of(Sets, e)
        /\ dhcp' = (e = "CONNECTED" \/ (dhcp /\ e # "DISCONNECTED"))
        /\ addr' = IF e = "DISCONNECTED" THEN NoAddress ELSE addr
    /\ UNCHANGED <<world, link, leased, main>>
-----------------------------------------------------------------------------
(***************************************************************************)
(* app_main; every error of these calls is an ESP_ERROR_CHECK: a restart.   *)
(***************************************************************************)
ServiceInit ==
    /\ boot = "init"
    /\ boot' = "start"
    /\ UNCHANGED <<world, netif, loop, bits, broker>>

ServiceStart ==
    /\ boot = "start"
    /\ Post("START")
    /\ boot' = "wait_for_ip"
    /\ UNCHANGED <<world, netif, bits, broker>>

WaitOver == "GOT_IP" \in bits

WaitForIp ==
    /\ boot = "wait_for_ip"
    /\ WaitOver
    /\ boot' = "mqtt_init"
    /\ UNCHANGED <<world, netif, loop, bits, broker>>

\* ethernet_service_get_gateway_string: a zero gateway is ESP_ERR_NOT_FOUND.
Usable(gw) == gw \notin {NoAddress, NoGateway}

MqttInit ==
    /\ boot = "mqtt_init"
    /\ IF Usable(addr) THEN /\ broker' = addr
                            /\ boot' = "running"
                            /\ UNCHANGED <<netif, loop, bits>>
                       ELSE Reboot
    /\ UNCHANGED world

AppMain == ServiceInit \/ ServiceStart \/ WaitForIp \/ MqttInit

Next == \/ Plug \/ Reconfigure \/ LeaseLost \/ PowerCut
        \/ LinkNoticed \/ DhcpBinds \/ HandleEvent
        \/ AppMain

Spec == Init /\ [][Next]_vars

(***************************************************************************)
(* The driver polls the link, the DHCP client asks until it is answered,    *)
(* and FreeRTOS schedules the event loop and app_main.                      *)
(***************************************************************************)
FairSpec == /\ Spec
            /\ WF_vars(LinkNoticed) /\ WF_vars(DhcpBinds)
            /\ WF_vars(HandleEvent) /\ WF_vars(AppMain)
-----------------------------------------------------------------------------
TypeOK ==
    /\ cable \in BOOLEAN /\ offer \in Leases \cup {NoOffer}
    /\ link \in BOOLEAN /\ dhcp \in BOOLEAN
    /\ addr \in Leases \cup {NoAddress}
    /\ loop \in Seq(Events) /\ bits \subseteq Bits
    /\ boot \in {"init", "start", "wait_for_ip", "mqtt_init", "running"}
    /\ broker \in Brokers \cup {NoAddress}
    /\ leased \subseteq Leases
    /\ changes \in 0..MaxChanges

Pending(e) == \E i \in DOMAIN loop : loop[i] = e

(***************************************************************************)
(* Whoever waits on the event group learns of an address: it is in the IP   *)
(* bit or its event is on the way, whatever the link does meanwhile, so     *)
(* that app_main does not sleep on a node that has one.                     *)
(***************************************************************************)
AddressIsReported == addr # NoAddress => "GOT_IP" \in bits \/ Pending("GOT_IP")

(***************************************************************************)
(* When the event loop has caught up, the link bit is the driver's link,    *)
(* after any number of link changes queued behind one another.              *)
(***************************************************************************)
LinkBitSettles == loop = <<>> => (("LINK_UP" \in bits) = link)

(***************************************************************************)
(* MQTT is started only towards a real gateway that DHCP leased since the   *)
(* restart, although the wait and the reading of the gateway are two steps  *)
(* and the address may be gone, or have no gateway, at the second.          *)
(***************************************************************************)
StartedWithBroker ==
    /\ boot \in {"mqtt_init", "running"} => leased # {}
    /\ boot = "running" => broker \in leased \cap Brokers

(***************************************************************************)
(* If from some point on the cable is in and DHCP offers a gateway, the     *)
(* node ends up running, for good, with every bit set and that address:     *)
(* restarts for want of a gateway come to an end.                           *)
(***************************************************************************)
NodeComesUp ==
    <>[](cable /\ offer \in Brokers)
        => <>[](boot = "running" /\ bits = Bits /\ addr = offer)
=============================================================================
