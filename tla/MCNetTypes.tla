----------------------------- MODULE MCNetTypes -----------------------------
(* Addresses, IPv6 addresses and lists of networks, written item by item.   *)
EXTENDS NetTypes

CONSTANTS
    Octets,     \* of IPv4 addresses
    Words,      \* of IPv6 addresses, "0" among them
    Lengths,    \* of the texts of networks
    MaxNets     \* bound: networks of an adapter

VARIABLES ip, words, nets

vars == <<ip, words, nets>>

Init == ip = <<>> /\ words = <<>> /\ nets = <<>>

WriteOctet(b) ==
    /\ Len(ip) < 4 /\ words = <<>> /\ nets = <<>>
    /\ ip' = Append(ip, b) /\ UNCHANGED <<words, nets>>

WriteWord(w) ==
    /\ Len(words) < 8 /\ ip = <<>> /\ nets = <<>>
    /\ words' = Append(words, w) /\ UNCHANGED <<ip, nets>>

AddNetwork(n) ==
    /\ Len(nets) < MaxNets /\ ip = <<>> /\ words = <<>>
    /\ nets' = Append(nets, n) /\ UNCHANGED <<ip, words>>

Next ==
    \/ \E b \in Octets : WriteOctet(b)
    \/ \E w \in Words : WriteWord(w)
    \/ \E n \in Lengths : AddNetwork(n)

Spec == Init /\ [][Next]_vars

-----------------------------------------------------------------------------
Bit(addr, k) == (addr[((k - 1) \div 8) + 1] \div 2^(7 - ((k - 1) % 8))) % 2
PrefixMask(p) == [i \in 1..4 |-> 256 - 2^(Max({0, 8 - Max({0, p - 8 * (i - 1)})}))]
IP4 == [1..4 -> Octets]

(* A network of an interface has the prefix length of its mask, is used      *)
(* unless it has one address, and contains the addresses that share that     *)
(* prefix: only those pass the filter of local packets as its own.           *)
SubnetIsPrefix ==
    Len(ip) = 4 => \A p \in 0..32 :
        LET net == Network(ip, PrefixMask(p))
        IN  /\ net.cidr = p
            /\ Ignored(PrefixMask(p)) <=> p = 32
            /\ \A other \in IP4 : InSubnet(other, net) <=> \A k \in 1..p : Bit(other, k) = Bit(ip, k)

Groups(text) == SelectSeq(text, LAMBDA x : x # ":")
Doubles(text) == {i \in 1..(Len(text) - 1) : text[i] = ":" /\ text[i + 1] = ":"}

(* How RFC 4291 reads a text: "::" stands for the words that are missing. *)
ReadText(text) ==
    IF Doubles(text) = {} THEN Groups(text)
    ELSE LET d == Min(Doubles(text))
             left == Groups(SubSeq(text, 1, d - 1))
             right == Groups(SubSeq(text, d + 2, Len(text)))
         IN  left \o [i \in 1..(8 - Len(left) - Len(right)) |-> "0"] \o right

(* The text of an IPv6 address has one colon between words and "::" once at  *)
(* most, and it is read as that address: no two devices have one text.       *)
TextIsRead ==
    Len(words) = 8 =>
        LET text == nf_ip62str(words)
        IN  /\ ReadText(text) = words
            /\ Cardinality(Doubles(text)) <= 1
            /\ Len(SelectSeq(text, LAMBDA x : x = ":")) <= 7
            /\ text[1] = ":" => text[2] = ":"

Zeroes(lo, hi) == \A i \in (lo + 1)..hi : words[i] = "0"

(* The words left out are the first of the longest runs of zeroes, and more  *)
(* than one: an address has one text, so that a value which was written from *)
(* another packet is recognised in the database.                             *)
TextIsCanonical ==
    Len(words) = 8 =>
        LET lo == Compressed(words)[1]
            hi == Compressed(words)[2]
        IN  /\ Zeroes(lo, hi) /\ hi - lo # 1
            /\ \A l \in 0..7 : \A h \in (l + 2)..8 : Zeroes(l, h) =>
                  h - l < hi - lo \/ (h - l = hi - lo /\ lo <= l)

(* The description of an adapter's networks is written to a buffer of 255    *)
(* characters: up to MaxNets networks it stays inside and knows its room.    *)
DescriptionFits ==
    LET out == Described(nets, 255) IN out.pos + out.len = 255
=============================================================================
