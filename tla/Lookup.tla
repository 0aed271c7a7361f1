------------------------------- MODULE Lookup -------------------------------
(***************************************************************************)
(* How the agent finds an interface's link-layer address, its default      *)
(* gateway and the gateway's link-layer address in the tables of the       *)
(* operating system: ethcap_network_fill_addrs of Linux                    *)
(* (module/ethcap/ethcap_network_linux.c) and of Windows                   *)
(* (module/ethcap/ethcap_network_win32.c).                                 *)
(*                                                                         *)
(* A table is a sequence of rows.  One table of routes stands for          *)
(* /proc/net/route and for the gateways that Windows lists with an         *)
(* adapter, and one of neighbours for /proc/net/arp and GetIpNetTable2.    *)
(* A query that fails leaves the network out, which Ethcap models.         *)
(***************************************************************************)
EXTENDS Capture, FiniteSets, Sequences, SequencesExt

CONSTANTS
    Interface,
    HasAddresses,  \* HasAddresses[i]: the addresses of an interface
    HwAddr,        \* HwAddr[i]: its link-layer address, or MAC_ADDR_ANY without one
    Linked,        \* Linked[i][ip]: the link-layer address of ip on the link of i
    Destination,   \* of routes
    Default,       \* that of a default route, 0.0.0.0 or ::
    MaxRoutes, MaxNeighbours  \* bounds: rows of the tables

(* An address is that of one interface.  The same address may be on several *)
(* links, and then it is several hosts'.                                     *)
ASSUME TablesType ==
    /\ IsFiniteSet(Interface)
    /\ HasAddresses \in [Interface -> SUBSET IP]
    /\ \A i, j \in Interface : i # j => HasAddresses[i] \cap HasAddresses[j] = {}
    /\ HwAddr \in [Interface -> Mac \cup {MAC_ADDR_ANY}]
    /\ \A i \in Interface : DOMAIN Linked[i] \subseteq IP /\ \A ip \in DOMAIN Linked[i] : Linked[i][ip] \in Mac
    /\ Default \in Destination

(* What the operating system knows when it is asked. *)
VARIABLES routes, neighbours

tables == <<routes, neighbours>>

NoGateway == <<>>

(* Mutant of IsNeighbour: any interface's neighbour is taken. *)
IsAnyNeighbour(row, i, gw) == row.ip = gw

(* Mutant of IsNeighbour: whichever neighbour comes first is taken. *)
IsOfInterface(row, i, gw) == row.interface = i

(* A neighbour that has not answered has the address of all zeroes. *)
IsNeighbour(row, i, gw) == row.ip = gw /\ row.interface = i

GatewayMac(i, gw) ==
    LET n == SelectInSeq(neighbours, LAMBDA row : IsNeighbour(row, i, gw))
    IN  IF n = 0 THEN MAC_ADDR_ANY ELSE neighbours[n].mac

(* Linux lists IPv4 routes, and Windows those of the family it is asked for. *)
IsDefaultRoute(row, i, family) == row.interface = i /\ row.dest = Default /\ Family[row.gw] = family

Gateway(i, family) ==
    LET n == SelectInSeq(routes, LAMBDA row : IsDefaultRoute(row, i, family))
    IN  IF n = 0 THEN NoGateway ELSE <<routes[n].gw>>

(* What a query adds: the interface's address, and the gateway's if known.   *)
Links(i, family) ==
    LET gw == Gateway(i, family)
    IN  [if_mac |-> HwAddr[i],
         gw_mac |-> IF gw = NoGateway THEN MAC_ADDR_ANY ELSE GatewayMac(i, gw[1])]

NoLinks == [if_mac |-> MAC_ADDR_ANY, gw_mac |-> MAC_ADDR_ANY]

LinuxFill(i, ip) == IF Family[ip] = 4 THEN Links(i, 4) ELSE NoLinks

(* Windows is asked for the adapter with an address; without one the         *)
(* network is left out.                                                      *)
AdapterOf(ip, adapters) == SelectInSeq(adapters, LAMBDA i : ip \in HasAddresses[i])

WindowsFill(ip, adapters) ==
    {Links(adapters[n], Family[ip]) : n \in {AdapterOf(ip, adapters)} \ {0}}

-----------------------------------------------------------------------------
(* The tables are written row by row, in any order. *)
RouteRow == [interface : Interface, dest : Destination, gw : IP]
NeighbourRow == [interface : Interface, ip : IP, mac : Mac \cup {MAC_ADDR_ANY}]

TablesInit == routes = <<>> /\ neighbours = <<>>

AddRoute(i, dest, gw) ==
    /\ Len(routes) < MaxRoutes
    /\ routes' = Append(routes, [interface |-> i, dest |-> dest, gw |-> gw])
    /\ UNCHANGED neighbours

(* An interface has one entry of an address; it has answered, or not yet. *)
AddNeighbour(i, ip, mac) ==
    /\ Len(neighbours) < MaxNeighbours
    /\ \A n \in DOMAIN neighbours : <<i, ip>> # <<neighbours[n].interface, neighbours[n].ip>>
    /\ neighbours' = Append(neighbours, [interface |-> i, ip |-> ip, mac |-> mac])
    /\ UNCHANGED routes

TablesNext ==
    \E i \in Interface : \E ip \in DOMAIN Linked[i] :
        \/ \E dest \in Destination : AddRoute(i, dest, ip)
        \/ \E mac \in {Linked[i][ip], MAC_ADDR_ANY} : AddNeighbour(i, ip, mac)

TablesSpec == TablesInit /\ [][TablesNext]_tables

-----------------------------------------------------------------------------
(* What module Capture knows of an address after a query. *)
Filling(ip, links) ==
    [family |-> Family[ip], hosts |-> {ip}, single |-> FALSE, if_mac |-> links.if_mac, gw_mac |-> links.gw_mac]

DefaultGateways(i, family) ==
    {routes[n].gw : n \in {n \in DOMAIN routes : IsDefaultRoute(routes[n], i, family)}}

(* The orders in which Windows may list its adapters. *)
Listings ==
    {adapters \in [1 .. Cardinality(Interface) -> Interface] :
        \A i \in Interface : \E n \in DOMAIN adapters : adapters[n] = i}

(* What is found of an address is among what module Capture takes for       *)
(* possible: nothing, or the interface's own address with that of one of     *)
(* its default gateways on its own link, though another interface may have a *)
(* gateway of the same IP address.                                           *)
LinksAreOfInterface ==
    \A i \in Interface : \A ip \in HasAddresses[i] :
        LET macs == {Linked[i][gw] : gw \in DefaultGateways(i, Family[ip])}
            net == Filling(ip, NoLinks)
        IN  /\ Filling(ip, LinuxFill(i, ip)) \in FillAddrs(net, {4}, HwAddr[i], macs)
            /\ \A adapters \in Listings :
                  /\ WindowsFill(ip, adapters) # {}
                  /\ \A links \in WindowsFill(ip, adapters) :
                        Filling(ip, links) \in FillAddrs(net, {4, 16}, HwAddr[i], macs)

(* The only default gateway of an interface is found if its neighbours know  *)
(* it, wherever the rows are in the tables.                                  *)
KnownIsFound ==
    \A i \in Interface : \A ip \in HasAddresses[i] : \A gw \in DOMAIN Linked[i] :
        /\ DefaultGateways(i, Family[ip]) = {gw}
        /\ [interface |-> i, ip |-> gw, mac |-> Linked[i][gw]] \in Range(neighbours)
        => /\ Family[ip] = 4 => LinuxFill(i, ip).gw_mac = Linked[i][gw]
           /\ \A adapters \in Listings :
                \A links \in WindowsFill(ip, adapters) : links.gw_mac = Linked[i][gw]

(* A query finds what is true of its own interface, and all that is known    *)
(* (ethcap_network_linux.c, ethcap_network_win32.c).                         *)
FoundIsOfInterface == LinksAreOfInterface /\ KnownIsFound
=============================================================================
