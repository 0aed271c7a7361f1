------------------------------ MODULE MCEthcap ------------------------------
(* Instances of Ethcap: two adapters on one link each, with one or two      *)
(* networks, two gateways and two hosts, one of them in no subnet of the     *)
(* interface; and a far host that the gateways forward packets of.           *)
(* Beside them are the functions that capturing uses: the look-ups in the    *)
(* tables of the operating system, addresses and their texts, and what is in *)
(* mDNS and DHCP messages.  They share no state here; a behaviour is about   *)
(* one part, and the others stay in their initial states.                    *)
EXTENDS Ethcap, Lookup

(* Addresses with a "6" are IPv6 addresses; "a4" and "a6" are those of the   *)
(* interface, "r4" and "r6" of the gateway, "h4" and "h6" of a host, "s4" of *)
(* a host in another subnet, "f4" and "f6" of the far host, "b4" of the       *)
(* other interface.                                                          *)
IPs == {"0.0.0.0", "::", "169.254.1.1", "a4", "a6", "r4", "r6", "h4", "h6", "s4", "f4", "f6", "b4"}
FamilyOf == [ip \in IPs |-> IF ip \in {"::", "a6", "r6", "h6", "f6"} THEN 16 ELSE 4]

Macs == {"if", "gw", "gw2", "host", "other"}

PcapAddress(family, hosts, single) ==
    [family |-> family, hosts |-> hosts, single |-> single, if_mac |-> "any", gw_mac |-> "any"]
V4 == PcapAddress(4, {"a4", "r4", "h4"}, FALSE)
V6 == PcapAddress(16, {"a6", "h6"}, FALSE)

Adapters == {"eth0", "eth1"}
AddressesOf == [a \in Adapters |-> IF a = "eth0" THEN {V4, V6, PcapAddress(4, {"s4"}, TRUE)} ELSE {V4}]
GatewaysOf == [a \in Adapters |-> IF a = "eth0" THEN {"gw", "gw2"} ELSE {"gw"}]
IfMacOf == [a \in Adapters |-> "if"]

Hosts == {"agent", "router", "host", "stray", "far"}
LinkOf == [h \in Hosts |-> IF h = "far" THEN "none" ELSE "eth0"]
HostMacOf == [agent |-> "if", router |-> "gw", host |-> "host", stray |-> "other", far |-> "gw"]
HostIPOf ==
    [agent |-> {"a4", "a6"}, router |-> {"r4", "r6"}, host |-> {"h4", "h6", "169.254.1.1"},
     stray |-> {"s4"}, far |-> {"f4", "f6"}]
NoAddress == {"0.0.0.0", "::"}

(* The default gateways of both interfaces have the same IPv4 address; "s4"  *)
(* is a second router on the link of the first.                              *)
AddressesAt == [i \in Adapters |-> IF i = "eth0" THEN {"a4", "a6"} ELSE {"b4"}]
HwAddrs == [i \in Adapters |-> IF i = "eth0" THEN "if" ELSE "host"]
LinkedTo == [eth0 |-> [r4 |-> "gw", s4 |-> "gw2", r6 |-> "other"], eth1 |-> [r4 |-> "other"]]

-----------------------------------------------------------------------------
VARIABLES
    part,                                                          \* whose behaviour it is
    address, words, lengths,                                       \* of MCNetTypes
    mdnsOctets, queries, records, known, mdnsMeant,                \* of MCMdns
    sport, options, given, refused, padding, dhcpMeant                    \* of MCDhcp

texts == <<address, words, lengths>>
mdns == <<mdnsOctets, queries, records, known, mdnsMeant>>
dhcp == <<sport, options, given, refused, padding, dhcpMeant>>

N == INSTANCE MCNetTypes WITH
    Width <- 65536, Octets <- {0, 129, 255}, Words <- {"0", "1", "a0"}, Lengths <- {9, 18, 43},
    MaxNets <- 5, ip <- address, nets <- lengths

M == INSTANCE MCMdns WITH
    NameSize <- 12, TargetSize <- 16, MaxQueries <- 1, MaxRecords <- 2,
    octets <- mdnsOctets, meant <- mdnsMeant

D == INSTANCE MCDhcp WITH MaxOptions <- 3, meant <- dhcpMeant

Parts == {"capture", "tables", "texts", "mdns", "dhcp"}

CaptureInit ==
    /\ part \in Parts
    /\ Init /\ TablesInit /\ N!Init /\ M!Init /\ D!Init
    /\ part # "dhcp" => sport = 68

CaptureNext ==
    /\ UNCHANGED part
    /\ \/ part = "capture" /\ Next /\ UNCHANGED <<tables, texts, mdns, dhcp>>
       \/ part = "tables" /\ TablesNext /\ UNCHANGED <<vars, texts, mdns, dhcp>>
       \/ part = "texts" /\ N!Next /\ UNCHANGED <<vars, tables, mdns, dhcp>>
       \/ part = "mdns" /\ M!Next /\ UNCHANGED <<vars, tables, texts, dhcp>>
       \/ part = "dhcp" /\ D!Next /\ UNCHANGED <<vars, tables, texts, mdns>>

CaptureSpec == CaptureInit /\ [][CaptureNext]_<<part, vars, tables, texts, mdns, dhcp>>

-----------------------------------------------------------------------------
(* NetTypes: a network has the prefix length of its mask, and contains the   *)
(* addresses with that prefix (ethcap_network.c, netfind_types.c).           *)
SubnetIsPrefix == part = "texts" => N!SubnetIsPrefix

(* NetTypes: the text of an IPv6 address is read as that address, and leaves *)
(* out the first of the longest runs of zeroes (netfind_types.c).            *)
TextIsCanonical == part = "texts" => N!TextIsRead /\ N!TextIsCanonical

(* NetTypes: the description of up to five networks fits its buffer.         *)
DescriptionFits == part = "texts" => N!DescriptionFits

(* Mdns: mdns reads from a message what it says (layer5/mdns.c).             *)
DecodesWhatWasSent == part = "mdns" => M!DecodesWhatWasSent

(* Mdns: of a message that is cut off it reads nothing else.                 *)
CutSaysNoMore == part = "mdns" => M!CutSaysNoMore

(* Dhcp: each option's value is stored once, in any order of the options;    *)
(* of a server's refusal only those are that come before its message type    *)
(* (layer5/dhcp.c).                                                          *)
DecodesOptions == part = "dhcp" => D!DecodesOptions
=============================================================================
