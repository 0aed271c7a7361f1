-------------------------------- MODULE MCDhcp -------------------------------
(***************************************************************************)
(* Instances of Dhcp: a client asks or a server answers or refuses; its    *)
(* message has options of all kinds in any order, each at most once, the   *)
(* message type anywhere among them, then octets of padding.  "meant" is   *)
(* what the options say, those that follow a refusal left out.             *)
(***************************************************************************)
EXTENDS Dhcp

CONSTANT MaxOptions

VARIABLES sport, options, given, refused, padding, meant
vars == <<sport, options, given, refused, padding, meant>>

Ip(n) == <<10, 0, 0, n>>
Ipv4Options == DOMAIN AddressKeys
RapidCommit == 80

(* The data of an option and the values in it: one address or two, a text,  *)
(* a text with a NUL of its own at the end, a name after its flags.         *)
Menu ==
    [o \in Ipv4Options |-> [data |-> Ip(o), says |-> {<<AddressKeys[o], Ip(o)>>}]]
    @@ (HostName :> [data |-> <<104, 105, 0>>, says |-> {<<"hostname", <<104, 105>>>>}])
    @@ (VendorClass :> [data |-> <<118>>, says |-> {<<"vendor", <<118>>>>}])
    @@ (LeaseTime :> [data |-> <<0, 0, 14, 16>>, says |-> {<<"lease-time", <<0, 0, 14, 16>>>>}])
    @@ (ParameterRequestList :> [data |-> <<1, 3, 6, 255>>, says |-> {}])
    @@ (RapidCommit :> [data |-> <<>>, says |-> {}])
    @@ (Fqdn :> [data |-> <<1, 0, 0, 104, 46, 108>>, says |-> {<<"fqdn", <<104, 46, 108>>>>}])

(* A list of two servers. *)
Servers == (DnsServers :> [data |-> Ip(1) \o Ip(2), says |-> {<<"dns", Ip(1)>>, <<"dns", Ip(2)>>}]) @@ Menu

(* What a client sends, and the two answers of a server. *)
Types == IF sport = 67 THEN {5, NAK} ELSE {3}

Init ==
    /\ sport \in {67, 68}
    /\ options = <<>>
    /\ given = {} /\ refused = FALSE
    /\ padding = 0
    /\ meant = {}

AddType(type) ==
    /\ padding = 0 /\ MessageType \notin given
    /\ options' = options \o <<MessageType, 1, type>>
    /\ given' = given \cup {MessageType}
    /\ refused' = (type = NAK)
    /\ UNCHANGED <<sport, padding, meant>>

AddOption(o) ==
    /\ padding = 0
    /\ Cardinality(given \ {MessageType}) < MaxOptions
    /\ o \notin given
    /\ options' = options \o <<o, Len(Servers[o].data)>> \o Servers[o].data
    /\ given' = given \cup {o}
    /\ meant' = IF refused THEN meant ELSE meant \cup Servers[o].says
    /\ UNCHANGED <<sport, refused, padding>>

(* Padding before END; an octet of it has no length. *)
Pad ==
    /\ padding < 3
    /\ options' = Append(options, 0)
    /\ padding' = padding + 1
    /\ UNCHANGED <<sport, given, refused, meant>>

Next == Pad \/ (\E type \in Types : AddType(type)) \/ \E o \in DOMAIN Servers : AddOption(o)

Spec == Init /\ [][Next]_vars

-----------------------------------------------------------------------------
Told == Facts([src |-> "sender", sport |-> sport],
              [mac_addr |-> "client", options |-> Append(options, END) \o <<0, 0, 0>>])
AboutClient == {f \in Told : f.about = "client"}

(* Of an option list in any order, with padding before and after its end,   *)
(* each value is stored once under its key and for the client, also when    *)
(* the message is the server's; and nothing else is.  Of a refusal the      *)
(* values that precede its message type are stored, and no more.            *)
DecodesOptions == AboutClient = {Fact("client", s[1], s[2]) : s \in meant}
=============================================================================
