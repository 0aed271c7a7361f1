-------------------------------- MODULE Dhcp --------------------------------
(***************************************************************************)
(* What the agent stores of a DHCP message (module/ethcap/layer5/dhcp.c).  *)
(* The fixed part of the message is a record; the options are the octets   *)
(* after the cookie, and they end in END, as every client and server sends *)
(* them: the code reads the next option's code and length before it looks  *)
(* at the length that is left.  That is unsigned in the code; of lists     *)
(* without END, where it may wrap at 1, nothing is said here, as they lead *)
(* beyond the message.                                                     *)
(***************************************************************************)
EXTENDS Integers, Sequences, SequencesExt

END == 255

SubnetMask == 1
Router == 3
DnsServers == 6
HostName == 12
DomainName == 15
NtpServers == 42
RequestedIp == 50
LeaseTime == 51
MessageType == 53
ServerIdentifier == 54
ParameterRequestList == 55
VendorClass == 60
Fqdn == 81

NAK == 6

AddressKeys == (SubnetMask :> "subnet") @@ (Router :> "router") @@ (DnsServers :> "dns")
    @@ (NtpServers :> "ntp") @@ (RequestedIp :> "ipaddr") @@ (ServerIdentifier :> "server")
Strings == (HostName :> "hostname") @@ (DomainName :> "domain") @@ (VendorClass :> "vendor")

Fact(mac, key, value) == [about |-> mac, key |-> key, value |-> value]

(* devdb_put_ip_addrs: a fact per four octets, what is left over is ignored. *)
IpAddrs(data, len) == {SubSeq(data, i + 1, i + 4) : i \in {i \in 0..(len - 4) : i % 4 = 0}}

(* devdb_put_string: the C string that the octets make, up to their first NUL. *)
Text(data, len) ==
    LET nul == SelectInSeq(SubSeq(data, 1, len), LAMBDA x : x = 0)
    IN  SubSeq(data, 1, IF nul = 0 THEN len ELSE nul - 1)

(* Mutant of FlagsSize: the flags of a name stay in front of it. *)
NoFlags == 0

(* Flags and two more octets come before the name in option 81. *)
FlagsSize == 3

(* The values stored of one option, and their key. *)
Stored(type, data, len) ==
    CASE type \in DOMAIN AddressKeys -> {<<AddressKeys[type], address>> : address \in IpAddrs(data, len)}
      [] type \in DOMAIN Strings -> {<<Strings[type], Text(data, len)>>}
      [] type = LeaseTime -> {<<"lease-time", SubSeq(data, 1, 4)>>}
      [] type = Fqdn -> {<<"fqdn", Text(SubSeq(data, 1 + FlagsSize, Len(data)), len - FlagsSize)>>}
      [] OTHER -> {}

(* The loop's len after an option: that of a name is advanced by the whole  *)
(* option, but is reduced by what is left of it without its flags.          *)
Reduced(left, type, len) == left - (IF type = Fqdn THEN len - FlagsSize ELSE len)

(* Mutant of Aborts: a refusal is read like an answer. *)
Never(type, data) == FALSE

Aborts(type, data) == type = MessageType /\ data[1] = NAK

(* The loop over the options; left is the number of octets that it counts. *)
RECURSIVE Options(_, _)
Options(octets, counted) ==
    LET type == octets[1]
        len == octets[2]
        left == counted - 2
        data == SubSeq(octets, 3, Len(octets))
    IN  IF type = END THEN {}
        ELSE IF left = 0 \/ left < len \/ Aborts(type, data) THEN {}
        ELSE Stored(type, data, len)
             \cup Options(SubSeq(data, len + 1, Len(data)), Reduced(left, type, len))

(* dhcp: what is about the client is stored for its address in the message, *)
(* whoever sent the message.                                                *)
Facts(cap, dhcp) ==
    {IF cap.sport = 67 THEN Fact(cap.src, "67/protocol", "dhcp-server")
                       ELSE Fact(cap.src, "68/protocol", "dhcp")}
    \cup {Fact(dhcp.mac_addr, o[1], o[2]) : o \in Options(dhcp.options, Len(dhcp.options))}
=============================================================================
