------------------------------- MODULE Capture -------------------------------
(***************************************************************************)
(* What the agent's packet capture makes of an adapter's addresses and of  *)
(* a captured frame: ethcap_networks_identify and                          *)
(* ethcap_networks_is_cap_local (module/ethcap/ethcap_network.c), and the  *)
(* protocol handlers of layers 2 to 5 (module/ethcap/layer2 ... layer5) up *)
(* to their calls of devdb_put.                                            *)
(*                                                                         *)
(* An address is a member of IP; a network is known by the set of          *)
(* addresses that its mask maps to the network address, and the list of an *)
(* adapter's networks is a set, as nothing depends on its order.  A frame  *)
(* is a record of what the handlers look at.  It has the headers it says   *)
(* it has: of an Ethernet frame without room for its VLAN tag, or an IPv4  *)
(* header longer than its packet, nothing is said; their remaining length  *)
(* is negative in an unsigned variable.  What is inside DHCP options and   *)
(* mDNS records is in modules Dhcp and Mdns.                               *)
(***************************************************************************)
EXTENDS Naturals

CONSTANTS
    Mac,          \* link-layer addresses, those of groups included
    MAC_ADDR_ANY, \* the address of all zeroes
    IP,
    Family,       \* Family[ip]: 4 or 16, the length of the address
    Unassigned,   \* 0.0.0.0 and ::
    Autoconf      \* 169.254.x.x

ASSUME FamilyType == Family \in [IP -> {4, 16}]
ASSUME SpecialAddresses == Unassigned \subseteq IP /\ Autoconf \subseteq IP

-----------------------------------------------------------------------------
(* ip_net_t as ethcap_network_fill_addrs leaves it, for an address that has *)
(* a mask.  The interface and gateway address are MAC_ADDR_ANY where the    *)
(* operating system had none.                                               *)
Net == [family : {4, 16}, hosts : SUBSET IP, single : BOOLEAN,
        if_mac : Mac \cup {MAC_ADDR_ANY}, gw_mac : Mac \cup {MAC_ADDR_ANY}]

(* What the operating system's tables add to an address: the interface       *)
(* address, if the interface has one, and the gateway, if its address is     *)
(* known.  On Linux that is done for IPv4 only.                              *)
FillAddrs(net, families, if_mac, gateways) ==
    {net} \cup {[net EXCEPT !.if_mac = if_mac, !.gw_mac = mac] :
                    mac \in IF net.family \in families THEN gateways \cup {MAC_ADDR_ANY} ELSE {}}

(* Masks of all ones are ignored. *)
Initialized(net) == ~net.single

Known(macs) == macs \ {MAC_ADDR_ANY}
IfMacs(nets) == Known({net.if_mac : net \in nets})

(* A network without interface address is skipped before its gateway. *)
GwMacs(nets) == Known({net.gw_mac : net \in {net \in nets : net.if_mac # MAC_ADDR_ANY}})

Single(macs) == \E mac \in macs : macs = {mac}

(* Mutant of Filled: nothing is copied. *)
Unfilled(mac, macs) == mac

Filled(mac, macs) == IF mac = MAC_ADDR_ANY THEN CHOOSE m \in macs : TRUE ELSE mac

FillAll(nets) ==
    {[net EXCEPT !.if_mac = Filled(@, IfMacs(nets)), !.gw_mac = Filled(@, GwMacs(nets))] : net \in nets}

(* Mutant of CopyMac: a second gateway is not noticed. *)
CopyAnyMac(nets) == IF Single(IfMacs(nets)) /\ GwMacs(nets) # {} THEN FillAll(nets) ELSE {}

(* The addresses found are copied to the networks that have none; an adapter *)
(* with none or more than one of either is ignored.                          *)
CopyMac(nets) == IF Single(IfMacs(nets)) /\ Single(GwMacs(nets)) THEN FillAll(nets) ELSE {}

(* The networks of an adapter with these addresses; none if it is ignored. *)
Identify(addresses) == CopyMac({net \in addresses : Initialized(net)})

-----------------------------------------------------------------------------
(* A captured frame: link-layer addresses, what its payload is, whether it   *)
(* was received completely, the source address, and what IP carries.         *)
Type == {"802.3", "arp", "ipv4", "ipv6", "other"}
Payload == {"igmp", "dhcp", "dhcp-server", "mdns", "other"}
Frame == [src : Mac, dst : Mac, type : Type, whole : BOOLEAN, ip : IP, payload : Payload]

(* What is stored in the device database. *)
Key == {"eth/addr", "ip/addr", "ip/igmp", "ip/udp/67/protocol", "ip/udp/68/protocol", "ip/udp/5353/protocol"}
Facts == [dev : Mac, key : Key, value : Mac \cup IP \cup Payload \cup {"group"}]
Fact(dev, key, value) == [dev |-> dev, key |-> key, value |-> value]

(* Mutant of IsCapLocal: only addresses of the subnets pass. *)
IsInSubnet(cap, networks) ==
    \E net \in networks : cap.ip \in net.hosts

(* The packet belongs to a subnet, or is not "gateway -> local interface". *)
IsCapLocal(cap, networks) ==
    \E net \in networks :
        /\ net.family = Family[cap.ip]
        /\ cap.ip \in net.hosts \/ cap.src # net.gw_mac \/ cap.dst # net.if_mac

Accepted(cap, networks) == cap.whole /\ (cap.ip \in Unassigned \/ IsCapLocal(cap, networks))

Igmp(cap) == {Fact(cap.src, "ip/igmp", "group") : p \in {cap.payload} \cap {"igmp"}}
Dhcp(cap) ==
    {Fact(cap.src, "ip/udp/67/protocol", p) : p \in {cap.payload} \cap {"dhcp-server"}}
        \cup {Fact(cap.src, "ip/udp/68/protocol", p) : p \in {cap.payload} \cap {"dhcp"}}
Mdns(cap) == {Fact(cap.src, "ip/udp/5353/protocol", p) : p \in {cap.payload} \cap {"mdns"}}

(* The handlers of layers 4 and 5. *)
Upper(cap) == Igmp(cap) \cup Dhcp(cap) \cup Mdns(cap)

Address(cap, ignored) == {Fact(cap.src, "ip/addr", a) : a \in {cap.ip} \ ignored}

Arp(cap) == IF cap.whole THEN Address(cap, Unassigned \cup Autoconf) ELSE {}

Ipv4(cap, networks) ==
    IF Accepted(cap, networks) THEN Address(cap, Unassigned \cup Autoconf) \cup Upper(cap) ELSE {}

Ipv6(cap, networks) ==
    IF Accepted(cap, networks) THEN Address(cap, Unassigned) \cup Upper(cap) ELSE {}

(* Frames of IEEE 802.3 are skipped; of all others the sender is stored. *)
Eth(cap, networks) ==
    CASE cap.type = "802.3" -> {}
      [] cap.type = "arp" -> {Fact(cap.src, "eth/addr", cap.src)} \cup Arp(cap)
      [] cap.type = "ipv4" -> {Fact(cap.src, "eth/addr", cap.src)} \cup Ipv4(cap, networks)
      [] cap.type = "ipv6" -> {Fact(cap.src, "eth/addr", cap.src)} \cup Ipv6(cap, networks)
      [] OTHER -> {Fact(cap.src, "eth/addr", cap.src)}
=============================================================================
