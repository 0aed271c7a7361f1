----------------------------- MODULE EthcapProofs -----------------------------
(* Theorems about Ethcap: the type invariant, and that nothing is stored of *)
(* the far hosts whose packets the identified gateway sends to the agent's   *)
(* own interface, but that neighbours are found whoever they talk to.  And   *)
(* about Lookup: what is found in the tables of the operating system is true *)
(* of the interface that was asked about.                                    *)
EXTENDS Ethcap, Lookup, FiniteSetTheorems, WellFoundedInduction, TLAPS

(* The networks an adapter is a choice with: complete, with one gateway of   *)
(* the link in all of them, and without far host.                            *)
Fits(a, nets) ==
    /\ nets \subseteq Identified
    /\ \A m, n \in nets : m.gw_mac = n.gw_mac
    /\ \A net \in nets :
          /\ net.if_mac = IfMac[a] /\ net.gw_mac \in Gateways[a]
          /\ \A ip \in net.hosts : Family[ip] = net.family
          /\ \A h \in Far : HostIP[h] \cap net.hosts = {}

(* What is found of an address on a link: nothing, or its interface and      *)
(* perhaps a gateway.                                                        *)
LEMMA FoundLinks ==
    ASSUME NEW a \in Adapter, NEW families, NEW nets \in Found(a, families), NEW net \in nets
    PROVE  /\ net \in Net
           /\ net.if_mac \in {IfMac[a], MAC_ADDR_ANY}
           /\ net.if_mac = MAC_ADDR_ANY => net.gw_mac = MAC_ADDR_ANY
           /\ net.gw_mac \in Gateways[a] \cup {MAC_ADDR_ANY}
           /\ \A ip \in net.hosts : Family[ip] = net.family
           /\ \A h \in Far : HostIP[h] \cap net.hosts = {}
<1>1. PICK n \in Addresses[a] : net \in FillAddrs(n, families, IfMac[a], Gateways[a])
    BY DEF Found
<1>2. /\ n \in Net /\ n.if_mac = MAC_ADDR_ANY /\ n.gw_mac = MAC_ADDR_ANY
      /\ \A ip \in n.hosts : Family[ip] = n.family
      /\ \A h \in Far : HostIP[h] \cap n.hosts = {}
    BY AddressesType
<1>3. CASE net = n
    BY <1>2, <1>3
<1>4. ASSUME NEW mac \in Gateways[a] \cup {MAC_ADDR_ANY},
             net = [n EXCEPT !.if_mac = IfMac[a], !.gw_mac = mac]
      PROVE  /\ net \in Net /\ net.if_mac = IfMac[a] /\ net.gw_mac = mac
             /\ net.hosts = n.hosts /\ net.family = n.family
    <2>1. mac \in Mac \cup {MAC_ADDR_ANY} /\ IfMac[a] \in Mac
        BY HostsType, AddressesType
    <2>2. QED
        BY <1>2, <1>4, <2>1 DEF Net
<1>5. CASE net # n
    <2>1. PICK mac \in Gateways[a] \cup {MAC_ADDR_ANY} :
              net = [n EXCEPT !.if_mac = IfMac[a], !.gw_mac = mac]
        BY <1>1, <1>5 DEF FillAddrs
    <2>2. /\ net \in Net /\ net.if_mac = IfMac[a] /\ net.gw_mac = mac
          /\ net.hosts = n.hosts /\ net.family = n.family
        BY <1>4, <2>1
    <2>3. IfMac[a] # MAC_ADDR_ANY
        BY HostsType
    <2>4. QED
        BY <1>2, <2>1, <2>2, <2>3
<1>6. QED
    BY <1>3, <1>5

(* Whatever is found of its addresses, an adapter becomes a choice only with *)
(* the addresses of its interface and its gateway in all its networks.       *)
LEMMA IdentifiedFits ==
    ASSUME NEW a \in Adapter, NEW families, NEW nets \in Found(a, families)
    PROVE  Fits(a, Identify(nets))
<1> DEFINE usable == {net \in nets : Initialized(net)}
           ifs == IfMacs(usable)
           gws == GwMacs(usable)
<1>1. CASE ~(Single(ifs) /\ Single(gws))
    BY <1>1 DEF Identify, CopyMac, Fits
<1>2. CASE Single(ifs) /\ Single(gws)
    <2>1. usable \subseteq Net /\ \A net \in usable :
              /\ net.single = FALSE
              /\ net.if_mac \in {IfMac[a], MAC_ADDR_ANY}
              /\ net.if_mac = MAC_ADDR_ANY => net.gw_mac = MAC_ADDR_ANY
              /\ net.gw_mac \in Gateways[a] \cup {MAC_ADDR_ANY}
              /\ \A ip \in net.hosts : Family[ip] = net.family
              /\ \A h \in Far : HostIP[h] \cap net.hosts = {}
        BY FoundLinks DEF Initialized, Net
    <2>2. PICK gw \in gws : gws = {gw}
        BY <1>2 DEF Single
    <2>10. gw \in Gateways[a] /\ gw \in Mac
        <3>1. gw # MAC_ADDR_ANY /\ \E net \in usable : net.gw_mac = gw
            BY <2>2 DEF GwMacs, Known
        <3>2. gw \in Gateways[a]
            BY <2>1, <3>1
        <3>3. QED
            BY <3>2, AddressesType
    <2>3. ifs = {IfMac[a]}
        <3>1. ifs \subseteq {IfMac[a]}
            BY <2>1 DEF IfMacs, Known
        <3>2. QED
            BY <1>2, <3>1 DEF Single
    <2>4. ASSUME NEW net \in usable
          PROVE  Filled(net.if_mac, ifs) = IfMac[a] /\ Filled(net.gw_mac, gws) = gw
        <3>1. Filled(net.if_mac, ifs) = IfMac[a]
            BY <2>1, <2>3, HostsType DEF Filled
        <3>2. net.gw_mac # MAC_ADDR_ANY => net.gw_mac \in gws
            BY <2>1 DEF GwMacs, Known
        <3>3. QED
            BY <2>2, <3>1, <3>2 DEF Filled
    <2>5. Identify(nets) = {[net EXCEPT !.if_mac = IfMac[a], !.gw_mac = gw] : net \in usable}
        <3>1. Identify(nets) = FillAll(usable)
            BY <1>2 DEF Identify, CopyMac
        <3>2. FillAll(usable) =
                {[net EXCEPT !.if_mac = Filled(@, ifs), !.gw_mac = Filled(@, gws)] : net \in usable}
            BY DEF FillAll
        <3> HIDE DEF usable, ifs, gws
        <3>3. QED
            BY <2>4, <3>1, <3>2
    <2>6. IfMac[a] \in Mac /\ gw \in Mac
        BY <2>10, HostsType
    <2> HIDE DEF usable
    <2>7. ASSUME NEW net \in usable
          PROVE  LET full == [net EXCEPT !.if_mac = IfMac[a], !.gw_mac = gw]
                 IN  /\ full \in Identified /\ full.hosts = net.hosts /\ full.family = net.family
                     /\ full.if_mac = IfMac[a] /\ full.gw_mac = gw
        <3>1. net \in Net /\ net.single = FALSE
            BY <2>1
        <3>2. QED
            BY <2>6, <3>1 DEF Net, Identified
    <2>8. ASSUME NEW full \in Identify(nets)
          PROVE  /\ full \in Identified
                 /\ full.if_mac = IfMac[a] /\ full.gw_mac = gw
                 /\ \A ip \in full.hosts : Family[ip] = full.family
                 /\ \A h \in Far : HostIP[h] \cap full.hosts = {}
        <3>1. PICK net \in usable : full = [net EXCEPT !.if_mac = IfMac[a], !.gw_mac = gw]
            BY <2>5
        <3>2. /\ full \in Identified /\ full.hosts = net.hosts /\ full.family = net.family
              /\ full.if_mac = IfMac[a] /\ full.gw_mac = gw
            BY <2>7, <3>1
        <3>3. QED
            BY <2>1, <3>2
    <2>9. QED
        BY <2>8, <2>10 DEF Fits
<1>3. QED
    BY <1>1, <1>2

-----------------------------------------------------------------------------
(* Every handler stores facts of the sender.                                 *)
LEMMA FactsType ==
    ASSUME NEW src \in Mac, NEW dst \in Mac, NEW type \in Type, NEW whole \in BOOLEAN,
           NEW ip \in IP, NEW payload \in Payload, NEW nets, NEW cap,
           cap = [src |-> src, dst |-> dst, type |-> type, whole |-> whole, ip |-> ip, payload |-> payload]
    PROVE  Eth(cap, nets) \subseteq Facts
<1>1. /\ Fact(src, "eth/addr", src) \in Facts /\ Fact(src, "ip/addr", ip) \in Facts
      /\ Fact(src, "ip/igmp", "group") \in Facts /\ Fact(src, "ip/udp/67/protocol", payload) \in Facts
      /\ Fact(src, "ip/udp/68/protocol", payload) \in Facts /\ Fact(src, "ip/udp/5353/protocol", payload) \in Facts
    BY DEF Fact, Facts, Key
<1>2. Upper(cap) \subseteq Facts
    BY <1>1 DEF Upper, Igmp, Dhcp, Mdns
<1>3. \A ignored : Address(cap, ignored) \subseteq Facts
    BY <1>1 DEF Address
<1>4. Arp(cap) \subseteq Facts /\ Ipv4(cap, nets) \subseteq Facts /\ Ipv6(cap, nets) \subseteq Facts
    BY <1>2, <1>3 DEF Arp, Ipv4, Ipv6
<1>5. Fact(cap.src, "eth/addr", cap.src) \in Facts
    BY <1>1
<1>6. QED
    BY <1>4, <1>5 DEF Eth

(* Only of a packet that the filter accepts more is stored than the sender.  *)
LEMMA RejectedLeavesSender ==
    ASSUME NEW cap, NEW nets, cap.type \in {"ipv4", "ipv6"}, ~Accepted(cap, nets)
    PROVE  \A x \in Eth(cap, nets) : x.key = "eth/addr"
    BY DEF Eth, Ipv4, Ipv6, Fact

-----------------------------------------------------------------------------
(* The filter only ever sees networks that fit the adapter it captures on.   *)
Fitting ==
    /\ \A a \in Adapter : Fits(a, choices[a])
    /\ netif \in Adapter \cup {None}
    /\ main = "init" => tpc = "none"
    /\ tpc # "none" => netif \in Adapter /\ main = "running"
    /\ tpc \in {"open", "loop"} => Fits(netif, networks)
    /\ tpc = "loop" => opened = netif
    /\ tpc # "loop" => opened = None

LEMMA InitFitting == Init => Fitting
    BY DEF Init, Fitting, Fits, Identified

LEMMA FittingStep == Fitting /\ [Next]_vars => Fitting'
<1> SUFFICES ASSUME Fitting, [Next]_vars PROVE Fitting'
    OBVIOUS
<1>1. CASE Initialize
    <2>1. CASE main' = "select"
        <3>1. \A a \in Adapter : Fits(a, choices'[a])
            <4>1. PICK families \in Platforms :
                      choices' \in {[a \in Adapter |-> Identify(found[a])] :
                                       found \in {f \in [Adapter -> UNION {Found(a, families) : a \in Adapter}] :
                                                    \A a \in Adapter : f[a] \in Found(a, families)}}
                BY <1>1, <2>1 DEF Initialize
            <4> DEFINE reports == {f \in [Adapter -> UNION {Found(a, families) : a \in Adapter}] :
                                     \A a \in Adapter : f[a] \in Found(a, families)}
            <4>2. PICK found \in reports : choices' = [a \in Adapter |-> Identify(found[a])]
                BY <4>1
            <4>3. \A a \in Adapter : Fits(a, Identify(found[a]))
                BY IdentifiedFits
            <4>4. QED
                BY <4>2, <4>3
        <3>2. QED
            BY <1>1, <2>1, <3>1 DEF Initialize, Fitting, Fits
    <2>2. CASE main' = "exited" /\ UNCHANGED choices
        BY <1>1, <2>2 DEF Initialize, Fitting, Fits
    <2>3. QED
        BY <1>1, <2>1, <2>2 DEF Initialize
<1>2. ASSUME NEW a \in Adapter, Select(a) PROVE Fitting'
    BY <1>2 DEF Select, Fitting, Fits
<1>3. CASE Start
    BY <1>3 DEF Start, Fitting, Fits
<1>4. CASE AssignNetworks
    BY <1>4 DEF AssignNetworks, Fitting, Fits
<1>5. CASE Open
    BY <1>5 DEF Open, Fitting, Fits
<1>6. CASE LoopEnds
    BY <1>6 DEF LoopEnds, Fitting, Fits
<1>7. ASSUME NEW h \in Host, Send(h) \/ Forward(h) PROVE Fitting'
    <2>1. UNCHANGED <<main, choices, netif, tpc, networks, opened>>
        BY <1>7 DEF Send, Forward, Captured
    <2>2. QED
        BY <2>1 DEF Fitting, Fits
<1>8. CASE UNCHANGED vars
    BY <1>8 DEF vars, Fitting, Fits
<1>9. QED
    BY <1>1, <1>2, <1>3, <1>4, <1>5, <1>6, <1>7, <1>8 DEF Next, Thread

LEMMA AlwaysFitting == Spec => []Fitting
    BY InitFitting, FittingStep, PTL DEF Spec

-----------------------------------------------------------------------------
(* What is stored is stored while the thread is in its loop, which it enters *)
(* once: the networks and the interface are those it is stored with.         *)
Settled == facts # {} => tpc \in {"loop", "ended"} /\ Fits(netif, networks)

LEMMA AlwaysSettled == Spec => []Settled
<1>1. Init => Settled
    BY DEF Init, Settled
<1>2. Fitting /\ Settled /\ [Next]_vars => Settled'
    <2> SUFFICES ASSUME Fitting, Settled, [Next]_vars PROVE Settled'
        OBVIOUS
    <2>1. ASSUME NEW h \in Host, Send(h) \/ Forward(h) PROVE Settled'
        <3>1. tpc = "loop" /\ UNCHANGED <<tpc, netif, networks>>
            BY <2>1 DEF Send, Forward, Captured
        <3>2. QED
            BY <3>1 DEF Fitting, Settled, Fits
    <2>2. ASSUME UNCHANGED facts, facts # {} => UNCHANGED <<netif, networks>> /\ tpc' \in {"loop", "ended"}
          PROVE  Settled'
        BY <2>2 DEF Settled, Fits
    <2>3. CASE Initialize \/ (\E a \in Adapter : Select(a)) \/ Start
        BY <2>2, <2>3 DEF Initialize, Select, Start, Fitting, Settled
    <2>4. CASE Thread
        BY <2>2, <2>4 DEF Thread, AssignNetworks, Open, LoopEnds, Settled
    <2>5. CASE UNCHANGED vars
        BY <2>2, <2>5 DEF vars, Settled
    <2>6. QED
        BY <2>1, <2>3, <2>4, <2>5 DEF Next
<1>3. QED
    BY <1>1, <1>2, AlwaysFitting, PTL DEF Spec

(* Of packets of far hosts that the identified gateway sends to the interface *)
(* itself, nothing but the gateway's own address is stored.                   *)
THEOREM FarHostsAreNotStored == Spec => []NothingOfFarHosts
<1>1. Init => NothingOfFarHosts
    BY DEF Init, NothingOfFarHosts
<1>2. Fitting /\ Settled /\ NothingOfFarHosts /\ [Next]_vars => NothingOfFarHosts'
    <2> SUFFICES ASSUME Fitting, Settled, NothingOfFarHosts, [Next]_vars PROVE NothingOfFarHosts'
        OBVIOUS
    <2>1. ASSUME NEW h \in Host, Send(h) PROVE NothingOfFarHosts'
        <3>1. h \notin Far
            BY <2>1, HostsType DEF Send, Near, Far
        <3>2. \A x \in facts' : x \in facts \/ x.from = h
            BY <2>1 DEF Send, Captured
        <3>3. networks' = networks
            BY <2>1 DEF Send, Captured
        <3>4. QED
            BY <3>1, <3>2, <3>3 DEF NothingOfFarHosts, IsGateway
    <2>2. ASSUME NEW h \in Host, Forward(h) PROVE NothingOfFarHosts'
        <3>1. PICK gw \in Gateways[opened], dst \in Mac :
                  \E cap \in Carried(gw, dst, HostIP[h]) :
                      cap.type \in {"ipv4", "ipv6"} /\ Captured(cap, h)
            BY <2>2 DEF Forward
        <3>2. PICK cap \in Carried(gw, dst, HostIP[h]) :
                  cap.type \in {"ipv4", "ipv6"} /\ Captured(cap, h)
            BY <3>1
        <3>3. h \in Far /\ cap.src = gw /\ cap.dst = dst /\ cap.ip \in HostIP[h]
            BY <2>2, <3>2 DEF Forward, Carried
        <3>4. opened \in Adapter /\ Fits(opened, networks)
            BY <3>2 DEF Captured, Fitting
        <3>5. cap.ip \notin Unassigned
            BY <3>3, HostsType DEF Far
        <3>6. cap.dst = IfMac[opened] /\ IsGateway(gw) => ~Accepted(cap, networks)
            BY <3>3, <3>4, <3>5 DEF Accepted, IsCapLocal, Fits, IsGateway
        <3>7. /\ networks' = networks
              /\ facts' = facts \cup {[fact |-> x, from |-> h, direct |-> cap.dst = IfMac[opened]] :
                                         x \in Eth(cap, networks)}
            BY <3>2 DEF Captured
        <3>8. \A x \in Eth(cap, networks) : x.dev = cap.src
            BY DEF Eth, Arp, Ipv4, Ipv6, Address, Upper, Igmp, Dhcp, Mdns, Fact
        <3>9. ASSUME NEW x \in facts', x \notin facts, x.direct, IsGateway(x.fact.dev)
              PROVE  x.fact.key = "eth/addr"
            <4> DEFINE direct == cap.dst = IfMac[opened]
            <4> HIDE DEF direct
            <4>0. PICK y \in Eth(cap, networks) : x = [fact |-> y, from |-> h, direct |-> direct]
                BY <3>7, <3>9, Zenon DEF direct
            <4>1. x.fact \in Eth(cap, networks) /\ cap.dst = IfMac[opened]
                <5>1. x.fact = y /\ x.direct = direct
                    BY <4>0
                <5>2. QED
                    BY <3>9, <5>1, Zenon DEF direct
            <4>2. x.fact.dev = gw
                BY <3>3, <3>8, <4>1
            <4>3. ~Accepted(cap, networks)
                BY <3>6, <3>9, <4>1, <4>2
            <4>4. QED
                BY <3>2, <4>1, <4>3, RejectedLeavesSender
        <3>10. QED
            BY <3>7, <3>9 DEF NothingOfFarHosts, IsGateway
    <2>3. CASE facts' = facts /\ (facts # {} => networks' = networks)
        BY <2>3 DEF NothingOfFarHosts, IsGateway
    <2>4. QED
        BY <2>1, <2>2, <2>3
        DEF Next, vars, Initialize, Select, Start, Thread, AssignNetworks, Open, LoopEnds, Settled
<1>3. QED
    BY <1>1, <1>2, AlwaysFitting, AlwaysSettled, PTL DEF Spec

(* Packets of a host on the link pass the filter, whoever they are for, if    *)
(* the interface has a network of their family; those of the gateway itself   *)
(* if they are sent from an address of a subnet.                              *)
THEOREM NeighboursPass == Spec => []NeighboursAreLocal
<1>1. Fitting => NeighboursAreLocal
    <2> SUFFICES ASSUME Fitting, opened # None,
                        NEW h \in Near(opened), NEW dst \in Mac, NEW ip \in HostIP[h],
                        NEW net \in networks, net.family = Family[ip],
                        IsGateway(HostMac[h]) => \E n \in networks : ip \in n.hosts
                 PROVE  IsCapLocal([src |-> HostMac[h], dst |-> dst, ip |-> ip], networks)
        BY DEF NeighboursAreLocal
    <2>1. Fits(opened, networks)
        BY DEF Fitting
    <2>2. CASE IsGateway(HostMac[h])
        BY <2>1, <2>2 DEF IsCapLocal, Fits
    <2>3. CASE ~IsGateway(HostMac[h])
        BY <2>1, <2>3 DEF IsCapLocal, IsGateway
    <2>4. QED
        BY <2>2, <2>3
<1>2. QED
    BY <1>1, AlwaysFitting, PTL

(* Every variable keeps its type, whatever is captured and reported: a choice *)
(* always has the interface and the gateway address in all its networks.      *)
THEOREM TypeCorrect == Spec => []TypeOK
<1>1. Init => TypeOK
    BY DEF Init, TypeOK
<1>2. Fitting /\ TypeOK /\ [Next]_vars => TypeOK'
    <2> SUFFICES ASSUME Fitting, TypeOK, [Next]_vars PROVE TypeOK'
        OBVIOUS
    <2>1. CASE Initialize
        <3>1. CASE main' = "select"
            <4>1. PICK families \in Platforms :
                      choices' \in {[a \in Adapter |-> Identify(found[a])] :
                                       found \in {f \in [Adapter -> UNION {Found(a, families) : a \in Adapter}] :
                                                    \A a \in Adapter : f[a] \in Found(a, families)}}
                BY <2>1, <3>1 DEF Initialize
            <4> DEFINE reports == {f \in [Adapter -> UNION {Found(a, families) : a \in Adapter}] :
                                     \A a \in Adapter : f[a] \in Found(a, families)}
            <4>2. PICK found \in reports : choices' = [a \in Adapter |-> Identify(found[a])]
                BY <4>1
            <4>3. \A a \in Adapter : Fits(a, Identify(found[a]))
                BY IdentifiedFits
            <4>4. choices' \in [Adapter -> SUBSET Identified]
                BY <4>2, <4>3 DEF Fits
            <4>5. QED
                BY <2>1, <3>1, <4>4 DEF Initialize, TypeOK
        <3>2. CASE main' = "exited" /\ UNCHANGED choices
            BY <2>1, <3>2 DEF Initialize, TypeOK
        <3>3. QED
            BY <2>1, <3>1, <3>2 DEF Initialize
    <2>2. ASSUME NEW a \in Adapter, Select(a) PROVE TypeOK'
        BY <2>2 DEF Select, TypeOK
    <2>3. CASE Start
        BY <2>3 DEF Start, TypeOK
    <2>4. CASE AssignNetworks
        BY <2>4 DEF AssignNetworks, TypeOK, Fitting
    <2>5. CASE Open
        BY <2>5 DEF Open, TypeOK
    <2>6. CASE LoopEnds
        BY <2>6 DEF LoopEnds, TypeOK
    <2>7. ASSUME NEW h \in Host, Send(h) \/ Forward(h) PROVE TypeOK'
        <3>1. PICK src \in Mac, dst \in Mac, addresses \in SUBSET IP :
                  \E cap \in Carried(src, dst, addresses) : Captured(cap, h)
            <4>1. opened \in Adapter
                BY <2>7 DEF Send, Forward, TypeOK
            <4>2. CASE Send(h)
                BY <4>2, HostsType, SpecialAddresses DEF Send
            <4>3. CASE Forward(h)
                <5>1. Gateways[opened] \subseteq Mac
                    BY <4>1, AddressesType
                <5>2. HostIP[h] \in SUBSET IP
                    BY HostsType
                <5>3. QED
                    BY <4>3, <5>1, <5>2 DEF Forward
            <4>4. QED
                BY <2>7, <4>2, <4>3
        <3>2. PICK cap \in Carried(src, dst, addresses) : Captured(cap, h)
            BY <3>1
        <3>3. PICK type \in Type, whole \in BOOLEAN, ip \in IP, payload \in Payload :
                  cap = [src |-> src, dst |-> dst, type |-> type, whole |-> whole, ip |-> ip, payload |-> payload]
            BY <3>2 DEF Carried
        <3>4. Eth(cap, networks) \subseteq Facts
            BY <3>3, FactsType
        <3>5. facts' \subseteq [fact : Facts, from : Host, direct : BOOLEAN]
            <4>1. facts' = facts \cup {[fact |-> x, from |-> h, direct |-> cap.dst = IfMac[opened]] :
                                         x \in Eth(cap, networks)}
                BY <3>2 DEF Captured
            <4> DEFINE direct == cap.dst = IfMac[opened]
            <4>2. direct \in BOOLEAN
                OBVIOUS
            <4> HIDE DEF direct
            <4>3. \A y \in Eth(cap, networks) :
                      [fact |-> y, from |-> h, direct |-> direct] \in [fact : Facts, from : Host, direct : BOOLEAN]
                BY <3>4, <4>2
            <4>4. facts' = facts \cup {[fact |-> y, from |-> h, direct |-> direct] : y \in Eth(cap, networks)}
                BY <4>1, Zenon DEF direct
            <4>5. QED
                BY <4>3, <4>4 DEF TypeOK
        <3>6. nframes' \in Nat
            BY <3>2 DEF Captured, TypeOK
        <3>7. QED
            BY <3>2, <3>5, <3>6 DEF Captured, TypeOK
    <2>8. CASE UNCHANGED vars
        BY <2>8 DEF vars, TypeOK
    <2>9. QED
        BY <2>1, <2>2, <2>3, <2>4, <2>5, <2>6, <2>7, <2>8 DEF Next, Thread
<1>3. QED
    BY <1>1, <1>2, AlwaysFitting, PTL DEF Spec

-----------------------------------------------------------------------------
(* The rows of the tables are what the links of the interfaces make true:    *)
(* an entry of a neighbour has its address or none yet, and there is one.    *)
TablesInv ==
    /\ routes \in Seq(RouteRow)
    /\ neighbours \in Seq(NeighbourRow)
    /\ \A n \in DOMAIN neighbours :
          /\ neighbours[n].ip \in DOMAIN Linked[neighbours[n].interface]
          /\ neighbours[n].mac \in {Linked[neighbours[n].interface][neighbours[n].ip], MAC_ADDR_ANY}
    /\ \A m, n \in DOMAIN neighbours :
          /\ neighbours[m].interface = neighbours[n].interface
          /\ neighbours[m].ip = neighbours[n].ip
          => m = n

LEMMA AppendedRows ==
    ASSUME NEW S, NEW s \in Seq(S), NEW x \in S
    PROVE  /\ Append(s, x) \in Seq(S)
           /\ \A n \in DOMAIN Append(s, x) :
                 \/ n \in DOMAIN s /\ Append(s, x)[n] = s[n]
                 \/ n = Len(s) + 1 /\ Append(s, x)[n] = x
<1>1. Append(s, x) \in Seq(S)
    OBVIOUS
<1>2. Len(Append(s, x)) = Len(s) + 1 /\ Len(s) \in Nat
    OBVIOUS
<1>3. DOMAIN s = 1 .. Len(s) /\ DOMAIN Append(s, x) = 1 .. Len(s) + 1
    BY <1>1, <1>2
<1>4. \A n \in 1 .. Len(s) + 1 : Append(s, x)[n] = IF n = Len(s) + 1 THEN x ELSE s[n]
    OBVIOUS
<1>5. QED
    BY <1>1, <1>2, <1>3, <1>4

LEMMA TablesNextInv ==
    ASSUME TablesInv, [TablesNext]_tables
    PROVE  TablesInv'
<1>1. ASSUME NEW i \in Interface, NEW ip \in DOMAIN Linked[i], NEW dest \in Destination, AddRoute(i, dest, ip)
      PROVE  TablesInv'
    <2>1. [interface |-> i, dest |-> dest, gw |-> ip] \in RouteRow
        BY TablesType DEF RouteRow
    <2>2. routes' \in Seq(RouteRow)
        BY <1>1, <2>1, AppendedRows DEF AddRoute, TablesInv
    <2>3. QED
        BY <1>1, <2>2 DEF AddRoute, TablesInv
<1>2. ASSUME NEW i \in Interface, NEW ip \in DOMAIN Linked[i], NEW mac \in {Linked[i][ip], MAC_ADDR_ANY},
             AddNeighbour(i, ip, mac)
      PROVE  TablesInv'
    <2> DEFINE row == [interface |-> i, ip |-> ip, mac |-> mac]
    <2>1. row \in NeighbourRow
        BY TablesType DEF NeighbourRow
    <2>2. neighbours' = Append(neighbours, row)
        BY <1>2 DEF AddNeighbour
    <2>3. /\ neighbours' \in Seq(NeighbourRow)
          /\ \A n \in DOMAIN neighbours' :
                \/ n \in DOMAIN neighbours /\ neighbours'[n] = neighbours[n]
                \/ n = Len(neighbours) + 1 /\ neighbours'[n] = row
        BY <2>1, <2>2, AppendedRows DEF TablesInv
    <2>4. \A n \in DOMAIN neighbours : neighbours[n].interface # i \/ neighbours[n].ip # ip
        BY <1>2 DEF AddNeighbour
    <2>5. ASSUME NEW n \in DOMAIN neighbours'
          PROVE  /\ neighbours'[n].ip \in DOMAIN Linked[neighbours'[n].interface]
                 /\ neighbours'[n].mac \in {Linked[neighbours'[n].interface][neighbours'[n].ip], MAC_ADDR_ANY}
        BY <2>3 DEF TablesInv
    <2>6. ASSUME NEW m \in DOMAIN neighbours', NEW n \in DOMAIN neighbours',
                 neighbours'[m].interface = neighbours'[n].interface, neighbours'[m].ip = neighbours'[n].ip
          PROVE  m = n
        BY <2>3, <2>4, <2>6 DEF TablesInv
    <2>7. QED
        BY <1>2, <2>3, <2>5, <2>6 DEF AddNeighbour, TablesInv
<1>3. CASE UNCHANGED tables
    BY <1>3 DEF tables, TablesInv
<1>4. QED
    BY <1>1, <1>2, <1>3 DEF TablesNext

LEMMA FirstOf ==
    ASSUME NEW S \in SUBSET Nat, S # {}
    PROVE  Min(S) \in S
<1> DEFINE Less == OpToRel(<, Nat)
<1>1. PICK n \in S : \A m \in S : ~ (<<m, n>> \in Less)
    BY NatLessThanWellFounded, WFMin
<1>2. \A m \in S : ~ m < n
    BY <1>1 DEF OpToRel
<1>3. n \in S /\ \A m \in S : n <= m
    BY <1>2
<1>4. QED
    BY <1>3 DEF Min

(* The gateway is one of the default routes of the interface. *)
LEMMA GatewayIsOfRoute ==
    ASSUME TablesInv, NEW i, NEW family
    PROVE  \/ Gateway(i, family) = NoGateway /\ DefaultGateways(i, family) = {}
           \/ \E gw \in DefaultGateways(i, family) : Gateway(i, family) = <<gw>>
<1> DEFINE I == {n \in 1 .. Len(routes) : IsDefaultRoute(routes[n], i, family)}
           first == SelectInSeq(routes, LAMBDA row : IsDefaultRoute(row, i, family))
<1>1. first = IF I # {} THEN Min(I) ELSE 0
    BY DEF SelectInSeq
<1>2. DefaultGateways(i, family) = {routes[n].gw : n \in I}
    BY DEF TablesInv, DefaultGateways
<1>3. Gateway(i, family) = IF first = 0 THEN NoGateway ELSE <<routes[first].gw>>
    BY DEF Gateway
<1>4. CASE I = {}
    <2>1. first = 0
        BY <1>1, <1>4
    <2>2. QED
        BY <1>2, <1>3, <1>4, <2>1
<1>5. CASE I # {}
    <2>1. first \in I
        <3>1. I \in SUBSET Nat
            OBVIOUS
        <3>2. Min(I) \in I
            BY <1>5, <3>1, FirstOf
        <3>3. QED
            BY <1>1, <1>5, <3>2
    <2>2. first # 0
        BY <2>1
    <2>3. QED
        BY <1>2, <1>3, <2>1, <2>2
<1>6. QED
    BY <1>4, <1>5

(* The gateway's address is that of the entry which its interface has of it. *)
LEMMA MacIsOfNeighbour ==
    ASSUME TablesInv, NEW i \in Interface, NEW gw
    PROVE  /\ GatewayMac(i, gw) # MAC_ADDR_ANY => gw \in DOMAIN Linked[i] /\ GatewayMac(i, gw) = Linked[i][gw]
           /\ \A n \in DOMAIN neighbours : IsNeighbour(neighbours[n], i, gw) => GatewayMac(i, gw) = neighbours[n].mac
<1> DEFINE I == {n \in 1 .. Len(neighbours) : IsNeighbour(neighbours[n], i, gw)}
           first == SelectInSeq(neighbours, LAMBDA row : IsNeighbour(row, i, gw))
<1>1. first = IF I # {} THEN Min(I) ELSE 0
    BY DEF SelectInSeq
<1>2. DOMAIN neighbours = 1 .. Len(neighbours)
    BY DEF TablesInv
<1>3. GatewayMac(i, gw) = IF first = 0 THEN MAC_ADDR_ANY ELSE neighbours[first].mac
    BY DEF GatewayMac
<1>4. CASE I = {}
    <2>1. first = 0
        BY <1>1, <1>4
    <2>2. \A n \in DOMAIN neighbours : ~ IsNeighbour(neighbours[n], i, gw)
        BY <1>2, <1>4
    <2>3. GatewayMac(i, gw) = MAC_ADDR_ANY
        BY <1>3, <2>1
    <2>4. QED
        BY <2>2, <2>3
<1>5. CASE I # {}
    <2>1. first \in I
        <3>1. I \in SUBSET Nat
            OBVIOUS
        <3>2. Min(I) \in I
            BY <1>5, <3>1, FirstOf
        <3>3. QED
            BY <1>1, <1>5, <3>2
    <2>2. GatewayMac(i, gw) = neighbours[first].mac
        BY <1>3, <2>1
    <2>3. neighbours[first].interface = i /\ neighbours[first].ip = gw
        BY <2>1 DEF IsNeighbour
    <2>4. \A n \in DOMAIN neighbours : IsNeighbour(neighbours[n], i, gw) => n = first
        BY <1>2, <2>1, <2>3 DEF TablesInv, IsNeighbour
    <2>5. first \in DOMAIN neighbours
        BY <1>2, <2>1
    <2>6. /\ gw \in DOMAIN Linked[i]
          /\ neighbours[first].mac \in {Linked[i][gw], MAC_ADDR_ANY}
        BY <2>3, <2>5 DEF TablesInv
    <2>7. \A n \in DOMAIN neighbours : IsNeighbour(neighbours[n], i, gw) => GatewayMac(i, gw) = neighbours[n].mac
        BY <2>2, <2>4
    <2>8. QED
        BY <2>2, <2>6, <2>7
<1>6. QED
    BY <1>4, <1>5

(* Windows' search comes to the interface that has the address. *)
LEMMA AdapterHasAddress ==
    ASSUME NEW i \in Interface, NEW ip \in HasAddresses[i], NEW adapters \in Listings
    PROVE  /\ AdapterOf(ip, adapters) \in DOMAIN adapters
           /\ AdapterOf(ip, adapters) # 0
           /\ adapters[AdapterOf(ip, adapters)] = i
<1> DEFINE I == {n \in 1 .. Len(adapters) : ip \in HasAddresses[adapters[n]]}
           first == SelectInSeq(adapters, LAMBDA j : ip \in HasAddresses[j])
<1>1. first = IF I # {} THEN Min(I) ELSE 0
    BY DEF SelectInSeq
<1>2. Cardinality(Interface) \in Nat
    BY TablesType, FS_CardinalityType
<1>3. /\ adapters \in Seq(Interface)
      /\ \E n \in DOMAIN adapters : adapters[n] = i
    BY <1>2 DEF Listings
<1>4. DOMAIN adapters = 1 .. Len(adapters)
    BY <1>3
<1>5. I # {}
    BY <1>3, <1>4
<1>6. first \in I
    <2>1. I \in SUBSET Nat
        OBVIOUS
    <2>2. Min(I) \in I
        BY <1>5, <2>1, FirstOf
    <2>3. QED
        BY <1>1, <1>5, <2>2
<1>7. adapters[first] \in Interface /\ ip \in HasAddresses[adapters[first]]
    BY <1>3, <1>6
<1>8. adapters[first] = i
    BY <1>7, TablesType
<1>9. first \in DOMAIN adapters /\ first # 0
    BY <1>4, <1>6
<1>10. QED
    BY <1>8, <1>9 DEF AdapterOf

LEMMA WindowsAsks ==
    ASSUME NEW i \in Interface, NEW ip \in HasAddresses[i], NEW adapters \in Listings
    PROVE  WindowsFill(ip, adapters) = {Links(i, Family[ip])}
<1>1. {AdapterOf(ip, adapters)} \ {0} = {AdapterOf(ip, adapters)}
    BY AdapterHasAddress
<1>2. WindowsFill(ip, adapters) = {Links(adapters[n], Family[ip]) : n \in {AdapterOf(ip, adapters)}}
    BY <1>1 DEF WindowsFill
<1>3. QED
    BY <1>2, AdapterHasAddress

LEMMA FillingOf ==
    ASSUME NEW ip, NEW links
    PROVE  Filling(ip, links) =
               [Filling(ip, NoLinks) EXCEPT !.if_mac = links.if_mac, !.gw_mac = links.gw_mac]
<1>1. PICK family, hosts, no, any, mac, if_mac, gw_mac :
          /\ family = Family[ip] /\ hosts = {ip} /\ no = FALSE
          /\ any = NoLinks.if_mac /\ mac = NoLinks.gw_mac
          /\ if_mac = links.if_mac /\ gw_mac = links.gw_mac
    OBVIOUS
<1>2. PICK net, half :
          /\ net = [family |-> family, hosts |-> hosts, single |-> no, if_mac |-> any, gw_mac |-> mac]
          /\ half = [family |-> family, hosts |-> hosts, single |-> no, if_mac |-> if_mac, gw_mac |-> mac]
    OBVIOUS
<1>3. [net EXCEPT !.if_mac = if_mac] = half
    BY <1>2
<1>4. [half EXCEPT !.gw_mac = gw_mac]
          = [family |-> family, hosts |-> hosts, single |-> no, if_mac |-> if_mac, gw_mac |-> gw_mac]
    BY <1>2
<1>5. [net EXCEPT !.if_mac = if_mac, !.gw_mac = gw_mac] = [[net EXCEPT !.if_mac = if_mac] EXCEPT !.gw_mac = gw_mac]
    OBVIOUS
<1>6. [net EXCEPT !.if_mac = if_mac, !.gw_mac = gw_mac]
          = [family |-> family, hosts |-> hosts, single |-> no, if_mac |-> if_mac, gw_mac |-> gw_mac]
    BY <1>3, <1>4, <1>5
<1>7. net = Filling(ip, NoLinks)
    BY <1>1, <1>2 DEF Filling
<1>8. Filling(ip, links) = [family |-> family, hosts |-> hosts, single |-> no, if_mac |-> if_mac, gw_mac |-> gw_mac]
    BY <1>1 DEF Filling
<1>9. QED
    BY <1>1, <1>6, <1>7, <1>8

(* One query, for the family of the address. *)
LEMMA LinksOfInterface ==
    ASSUME TablesInv, NEW i \in Interface, NEW ip \in IP, NEW families, Family[ip] \in families
    PROVE  Filling(ip, Links(i, Family[ip]))
               \in FillAddrs(Filling(ip, NoLinks), families, HwAddr[i],
                             {Linked[i][gw] : gw \in DefaultGateways(i, Family[ip])})
<1> DEFINE family == Family[ip]
           macs == {Linked[i][gw] : gw \in DefaultGateways(i, family)}
           net == Filling(ip, NoLinks)
           links == Links(i, family)
<1>1. links.if_mac = HwAddr[i]
    BY DEF Links
<1>2. links.gw_mac \in macs \cup {MAC_ADDR_ANY}
    <2>1. CASE Gateway(i, family) = NoGateway
        BY <2>1 DEF Links
    <2>2. ASSUME NEW gw \in DefaultGateways(i, family), Gateway(i, family) = <<gw>>
          PROVE  links.gw_mac \in macs \cup {MAC_ADDR_ANY}
        <3>1. links.gw_mac = GatewayMac(i, gw)
            BY <2>2 DEF Links, NoGateway
        <3>2. QED
            BY <3>1, MacIsOfNeighbour
    <2>3. QED
        BY <2>1, <2>2, GatewayIsOfRoute
<1>3. Filling(ip, links) = [net EXCEPT !.if_mac = HwAddr[i], !.gw_mac = links.gw_mac]
    BY <1>1, FillingOf
<1>4. net.family \in families
    BY DEF Filling
<1>5. QED
    BY <1>2, <1>3, <1>4 DEF FillAddrs

(* A gateway that is the only one, and known, is found. *)
LEMMA KnownLinks ==
    ASSUME TablesInv, NEW i \in Interface, NEW family, NEW gw \in DOMAIN Linked[i],
           DefaultGateways(i, family) = {gw},
           [interface |-> i, ip |-> gw, mac |-> Linked[i][gw]] \in Range(neighbours)
    PROVE  Links(i, family).gw_mac = Linked[i][gw]
<1>1. Gateway(i, family) = <<gw>>
    BY GatewayIsOfRoute
<1>2. PICK n \in DOMAIN neighbours : neighbours[n] = [interface |-> i, ip |-> gw, mac |-> Linked[i][gw]]
    BY DEF Range
<1>3. IsNeighbour(neighbours[n], i, gw) /\ neighbours[n].mac = Linked[i][gw]
    BY <1>2 DEF IsNeighbour
<1>4. GatewayMac(i, gw) = Linked[i][gw]
    BY <1>3, MacIsOfNeighbour
<1>5. QED
    BY <1>1, <1>4 DEF Links, NoGateway

LEMMA FoundInTables ==
    ASSUME TablesInv
    PROVE  FoundIsOfInterface
<1>1. ASSUME NEW i \in Interface, NEW ip \in HasAddresses[i]
      PROVE  ip \in IP /\ Family[ip] \in {4, 16}
    BY TablesType, FamilyType
<1>2. LinksAreOfInterface
    <2> SUFFICES ASSUME NEW i \in Interface, NEW ip \in HasAddresses[i]
                 PROVE  LET macs == {Linked[i][gw] : gw \in DefaultGateways(i, Family[ip])}
                            net == Filling(ip, NoLinks)
                        IN  /\ Filling(ip, LinuxFill(i, ip)) \in FillAddrs(net, {4}, HwAddr[i], macs)
                            /\ \A adapters \in Listings :
                                  /\ WindowsFill(ip, adapters) # {}
                                  /\ \A links \in WindowsFill(ip, adapters) :
                                        Filling(ip, links) \in FillAddrs(net, {4, 16}, HwAddr[i], macs)
        BY DEF LinksAreOfInterface
    <2> DEFINE macs == {Linked[i][gw] : gw \in DefaultGateways(i, Family[ip])}
               net == Filling(ip, NoLinks)
    <2>1. ASSUME Family[ip] = 4
          PROVE  Filling(ip, LinuxFill(i, ip)) \in FillAddrs(net, {4}, HwAddr[i], macs)
        <3>1. LinuxFill(i, ip) = Links(i, Family[ip])
            BY <2>1 DEF LinuxFill
        <3>2. Family[ip] \in {4}
            BY <2>1
        <3>3. Filling(ip, Links(i, Family[ip])) \in FillAddrs(net, {4}, HwAddr[i], macs)
            BY <1>1, <3>2, LinksOfInterface
        <3>4. QED
            BY <3>1, <3>3
    <2>2. ASSUME Family[ip] # 4
          PROVE  Filling(ip, LinuxFill(i, ip)) \in FillAddrs(net, {4}, HwAddr[i], macs)
        <3>1. LinuxFill(i, ip) = NoLinks
            BY <2>2 DEF LinuxFill
        <3>2. net \in FillAddrs(net, {4}, HwAddr[i], macs)
            BY DEF FillAddrs
        <3>3. QED
            BY <3>1, <3>2
    <2>3. Filling(ip, LinuxFill(i, ip)) \in FillAddrs(net, {4}, HwAddr[i], macs)
        BY <2>1, <2>2
    <2>4. ASSUME NEW adapters \in Listings
          PROVE  /\ WindowsFill(ip, adapters) # {}
                 /\ \A links \in WindowsFill(ip, adapters) :
                       Filling(ip, links) \in FillAddrs(net, {4, 16}, HwAddr[i], macs)
        <3>1. WindowsFill(ip, adapters) = {Links(i, Family[ip])}
            BY WindowsAsks
        <3>2. Filling(ip, Links(i, Family[ip])) \in FillAddrs(net, {4, 16}, HwAddr[i], macs)
            BY <1>1, LinksOfInterface
        <3>3. QED
            BY <3>1, <3>2
    <2>5. QED
        BY <2>3, <2>4
<1>3. KnownIsFound
    <2> SUFFICES ASSUME NEW i \in Interface, NEW ip \in HasAddresses[i], NEW gw \in DOMAIN Linked[i],
                        DefaultGateways(i, Family[ip]) = {gw},
                        [interface |-> i, ip |-> gw, mac |-> Linked[i][gw]] \in Range(neighbours)
                 PROVE  /\ Family[ip] = 4 => LinuxFill(i, ip).gw_mac = Linked[i][gw]
                        /\ \A adapters \in Listings :
                              \A links \in WindowsFill(ip, adapters) : links.gw_mac = Linked[i][gw]
        BY DEF KnownIsFound
    <2>1. Links(i, Family[ip]).gw_mac = Linked[i][gw]
        BY KnownLinks
    <2>2. Family[ip] = 4 => LinuxFill(i, ip).gw_mac = Linked[i][gw]
        BY <2>1 DEF LinuxFill
    <2>3. ASSUME NEW adapters \in Listings, NEW links \in WindowsFill(ip, adapters)
          PROVE  links.gw_mac = Linked[i][gw]
        BY <2>1, WindowsAsks
    <2>4. QED
        BY <2>2, <2>3
<1>4. QED
    BY <1>2, <1>3 DEF FoundIsOfInterface

(* Whatever rows the tables have of whatever interfaces, a query finds what  *)
(* is true of its own interface, and finds its gateway if that is known      *)
(* (ethcap_network_linux.c, ethcap_network_win32.c).                         *)
THEOREM FoundIsTrue == TablesSpec => []FoundIsOfInterface
<1>1. TablesInit => TablesInv
    BY DEF TablesInit, TablesInv
<1>2. TablesInv /\ [TablesNext]_tables => TablesInv'
    BY TablesNextInv
<1>3. TablesInv => FoundIsOfInterface
    BY FoundInTables
<1>4. QED
    BY <1>1, <1>2, <1>3, PTL DEF TablesSpec
=============================================================================
