------------------------------- MODULE Ethcap -------------------------------
(***************************************************************************)
(* The capture module of the agent from its start to the facts it stores:  *)
(* main (main.c) initialises it, an interface is selected, ethcap_start    *)
(* (module/ethcap/ethcap.c) creates the thread, and ethcap_thread          *)
(* (ethcap_thread.c) opens the interface and hands every frame to the      *)
(* protocol handlers of module Capture.                                    *)
(*                                                                         *)
(* The network is part of the model: hosts on the link of an adapter send  *)
(* frames of their own, and its gateways, there may be several, forward    *)
(* packets of hosts that are elsewhere.  The interface is opened           *)
(* promiscuously, so any frame on the link may be captured.  ethcap_stop   *)
(* and ethcap_free are in module EthcapLife.                               *)
(***************************************************************************)
EXTENDS Capture

CONSTANTS
    Adapter, None,
    Addresses,      \* Addresses[a]: the addresses that adapter a may have
    Gateways,       \* Gateways[a]: the link-layer addresses of the gateways on the link of a
    IfMac,          \* IfMac[a]: that of the interface
    Host,           \* every host; Link[h] is the adapter on whose link it is, or None
    Link,
    HostMac,        \* HostMac[h]: the link-layer address of a host on a link
    HostIP,         \* HostIP[h]: the addresses that h uses
    MaxFrames       \* bound: frames that are captured

Near(a) == {h \in Host : Link[h] = a}
Far == {h \in Host : Link[h] = None}

(* A host on no link has addresses of its own. *)
ASSUME HostsType ==
    /\ Link \in [Host -> Adapter \cup {None}] /\ None \notin Adapter
    /\ HostIP \in [Host -> SUBSET (IP \ Unassigned)]
    /\ HostMac \in [Host -> Mac] /\ IfMac \in [Adapter -> Mac] /\ MAC_ADDR_ANY \notin Mac

(* Nothing is known yet of the links of an address; its network has one     *)
(* family and no far host.                                                   *)
ASSUME AddressesType ==
    /\ Gateways \in [Adapter -> SUBSET Mac]
    /\ \A a \in Adapter : \A net \in Addresses[a] :
          /\ net \in Net /\ net.if_mac = MAC_ADDR_ANY /\ net.gw_mac = MAC_ADDR_ANY
          /\ \A ip \in net.hosts : Family[ip] = net.family
          /\ \A h \in Far : HostIP[h] \cap net.hosts = {}

(* The agent is built for Linux or for Windows. *)
Platforms == {{4}, {4, 16}}

(* What may be found of an adapter: an address is left out when a query      *)
(* fails, and each address has a gateway of the link or none.  On Linux that *)
(* is the gateway of the first default route, whichever it is.               *)
Found(a, families) ==
    {nets \in SUBSET UNION {FillAddrs(net, families, IfMac[a], Gateways[a]) : net \in Addresses[a]} :
        \A m, n \in nets : m.hosts = n.hosts => m = n}

VARIABLES
    main,       \* "init", "select", "running", or "exited" with an error
    choices,    \* choices[a]: the networks of a; none if a is no choice
    netif,      \* the selected choice, or None
    tpc,        \* "none", "begin", "open", "loop", "ended"
    networks,   \* ethcap->networks
    opened,     \* the adapter that pcap captures on, or None
    facts,      \* what was given to devdb_put, which host it came from, and
                \* whether the frame was for the interface itself
    nframes

vars == <<main, choices, netif, tpc, networks, opened, facts, nframes>>

Init ==
    /\ main = "init"
    /\ choices = [a \in Adapter |-> {}] /\ netif = None
    /\ tpc = "none" /\ networks = {} /\ opened = None
    /\ facts = {} /\ nframes = 0

-----------------------------------------------------------------------------
(* ethcap_init *)
Initialize ==
    /\ main = "init"
    /\ \/ /\ main' = "select"
          /\ \E families \in Platforms :
                choices' \in {[a \in Adapter |-> Identify(found[a])] :
                                 found \in {f \in [Adapter -> UNION {Found(a, families) : a \in Adapter}] :
                                              \A a \in Adapter : f[a] \in Found(a, families)}}
       \/ main' = "exited" /\ UNCHANGED choices
    /\ UNCHANGED <<netif, tpc, networks, opened, facts, nframes>>

(* nf_cfg_option_set_single: a key without a choice deselects all. *)
Select(a) ==
    /\ main = "select"
    /\ netif' = IF choices[a] = {} THEN None ELSE a
    /\ UNCHANGED <<main, choices, tpc, networks, opened, facts, nframes>>

(* ethcap_start; an error ends the program. *)
Start ==
    /\ main = "select"
    /\ \/ netif # None /\ main' = "running" /\ tpc' = "begin"
       \/ main' = "exited" /\ UNCHANGED tpc
    /\ UNCHANGED <<choices, netif, networks, opened, facts, nframes>>

AssignNetworks ==
    /\ tpc = "begin" /\ tpc' = "open"
    /\ networks' = choices[netif]
    /\ UNCHANGED <<main, choices, netif, opened, facts, nframes>>

Open ==
    /\ tpc = "open"
    /\ \/ tpc' = "loop" /\ opened' = netif
       \/ tpc' = "ended" /\ UNCHANGED opened
    /\ UNCHANGED <<main, choices, netif, networks, facts, nframes>>

Captured(cap, from) ==
    /\ tpc = "loop" /\ nframes < MaxFrames
    /\ nframes' = nframes + 1
    /\ facts' = facts \cup {[fact |-> x, from |-> from, direct |-> cap.dst = IfMac[opened]] :
                             x \in Eth(cap, networks)}
    /\ UNCHANGED <<main, choices, netif, tpc, networks, opened>>

LoopEnds ==
    /\ tpc = "loop" /\ tpc' = "ended"
    /\ opened' = None
    /\ UNCHANGED <<main, choices, netif, networks, facts, nframes>>

-----------------------------------------------------------------------------
(* What a frame carries besides its addresses, if it came from host h. *)
Carried(src, dst, addresses) ==
    {cap \in [src : {src}, dst : {dst}, type : Type, whole : BOOLEAN, ip : addresses, payload : Payload] :
        cap.type = "arp" => Family[cap.ip] = 4}

(* A host on the link sends; before it has an address it uses none. *)
Send(h) ==
    /\ opened # None /\ h \in Near(opened)
    /\ \E dst \in Mac :
        \E cap \in Carried(HostMac[h], dst, HostIP[h] \cup Unassigned) : Captured(cap, h)

(* A gateway forwards a packet of a far host, to the interface or to others. *)
Forward(h) ==
    /\ opened # None /\ h \in Far
    /\ \E gw \in Gateways[opened], dst \in Mac :
        \E cap \in Carried(gw, dst, HostIP[h]) : cap.type \in {"ipv4", "ipv6"} /\ Captured(cap, h)

Thread == AssignNetworks \/ Open \/ LoopEnds

Next == Initialize \/ (\E a \in Adapter : Select(a)) \/ Start \/ Thread \/ (\E h \in Host : Send(h) \/ Forward(h))

Spec == Init /\ [][Next]_vars
-----------------------------------------------------------------------------
(* An adapter is a choice only with the interface and the gateway address of *)
(* all its networks known.                                                   *)
Identified == [family : {4, 16}, hosts : SUBSET IP, single : {FALSE}, if_mac : Mac, gw_mac : Mac]

TypeOK ==
    /\ main \in {"init", "select", "running", "exited"}
    /\ choices \in [Adapter -> SUBSET Identified]
    /\ netif \in Adapter \cup {None}
    /\ tpc \in {"none", "begin", "open", "loop", "ended"}
    /\ networks \subseteq Identified
    /\ opened \in Adapter \cup {None}
    /\ facts \subseteq [fact : Facts, from : Host, direct : BOOLEAN]
    /\ nframes \in Nat

(* The gateway is known by the address that any of the networks has of it. *)
IsGateway(mac) == \E net \in networks : net.gw_mac = mac

(* Of a packet of a far host that a gateway sends to the interface itself    *)
(* nothing is stored but the gateway's own link-layer address, if it is the  *)
(* gateway of any of the networks: the handlers "ignore packets from         *)
(* non-local IP addresses".  It takes one gateway for all the networks,      *)
(* since a packet that one of them accepts is stored.  Packets that a        *)
(* gateway sends to others, and those of a gateway that was not identified,  *)
(* pass.                                                                     *)
NothingOfFarHosts ==
    \A x \in facts :
        x.from \in Far /\ x.direct /\ IsGateway(x.fact.dev) => x.fact.key = "eth/addr"

(* A host on the link is found whoever it talks to: its packets pass the     *)
(* filter if the interface has a network of that address family; only of the *)
(* gateway, whose packets may be anyone's, the address has to be in a subnet.*)
NeighboursAreLocal ==
    opened # None =>
        \A h \in Near(opened), dst \in Mac : \A ip \in HostIP[h] :
            /\ \E net \in networks : net.family = Family[ip]
            /\ IsGateway(HostMac[h]) => \E net \in networks : ip \in net.hosts
            => IsCapLocal([src |-> HostMac[h], dst |-> dst, ip |-> ip], networks)
=============================================================================
