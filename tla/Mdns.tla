-------------------------------- MODULE Mdns --------------------------------
(***************************************************************************)
(* The facts that the agent reads from the records of an mDNS response     *)
(* (module/ethcap/layer5/mdns.c).  A message is the sequence of its octets.*)
(* What is not text keeps its layout; of text one octet may stand for a    *)
(* whole word, "_tcp" for instance.                                        *)
(*                                                                         *)
(* A name pointer is followed by a recursive call, which ends for the      *)
(* messages that responders make: they point to names further ahead.  Of   *)
(* pointers beyond the message, whose remaining length is negative in an   *)
(* unsigned variable, nothing is said here.                                *)
(***************************************************************************)
EXTENDS Integers, Sequences, SequencesExt, Dcpy

CONSTANTS
    NameSize,    \* size of the buffer for a record's name; 128 in the code
    TargetSize   \* size of the buffer for the name in a PTR or SRV; 256 in the code

Nul == 0
Dot == 46
Colon == 58
Equals == 61
Tcp == <<201>>  \* the words "_tcp" and "_udp"
Udp == <<202>>

A == 1
PTR == 12
TXT == 16
AAAA == 28
SRV == 33

IsPointer(len) == len >= 64

RECURSIVE SkipName(_)
SkipName(src) ==
    LET len == Get8(src)
        rest == Skip(src, 1)
    IN  CASE len = 0 -> rest
          [] IsPointer(len) -> Skip(rest, 1)
          [] OTHER -> SkipName(Skip(rest, len))

(* Mutant of Separate: a name that is pointed to gets a separator of its own. *)
SeparateAll(dst, i) == Put(dst, <<Dot>>)

(* A separator before every label but the first. *)
Separate(dst, i) == IF i > 0 THEN Put(dst, <<Dot>>) ELSE dst

(* The octets of the message that a pointer of octets len and low leads to. *)
Pointed(pkt, len, low) == Src(SubSeq(pkt, 256 * (len % 64) + low + 1, Len(pkt)))

(* src and dst after mdns_read_name; i counts the labels of this call. *)
RECURSIVE ReadName(_, _, _, _)
ReadName(pkt, src, dst, i) ==
    LET len == Get8(src)
        rest == Skip(src, 1)
    IN  CASE len = 0 -> [src |-> rest, dst |-> Put(dst, <<Nul>>)]
          [] IsPointer(len) ->
                [src |-> Skip(rest, 1),
                 dst |-> ReadName(pkt, Pointed(pkt, len, Get8(rest)), Separate(dst, i), 0).dst]
          [] OTHER -> ReadName(pkt, Skip(rest, len), Cpy(Separate(dst, i), rest, len), i + 1)

(* The text of a zero-filled buffer, up to its first NUL. *)
Text(octets) ==
    LET end == SelectInSeq(octets, LAMBDA x : x = Nul)
    IN  IF end = 0 THEN octets ELSE SubSeq(octets, 1, end - 1)

(* strsplit: at most max parts, the last one takes what is left. *)
RECURSIVE Split(_, _, _)
Split(text, delim, max) ==
    LET at == SelectInSeq(text, LAMBDA x : x = delim)
    IN  IF max = 1 \/ at = 0 THEN <<text>>
        ELSE <<SubSeq(text, 1, at - 1)>> \o Split(SubSeq(text, at + 1, Len(text)), delim, max - 1)

-----------------------------------------------------------------------------
HostFact(name, addr) == [about |-> name, key |-> <<"addr">>, value |-> addr]
ServiceFact(service, key, value) == [about |-> service, key |-> key, value |-> value]

(* The parts of instance._service._tcp.local, from the end: at most five. *)
IsService(parts) == Len(parts) >= 3 /\ parts[Len(parts) - 1] \in {Tcp, Udp}
Service(parts) == parts[Len(parts) - 2]
Instances(parts) == IF Len(parts) > 3 THEN {parts[Len(parts) - 3]} ELSE {}

NameFacts(parts) ==
    {ServiceFact(Service(parts), <<"protocol">>, parts[Len(parts) - 1])}
        \cup {ServiceFact(Service(parts), <<"name">>, instance) : instance \in Instances(parts)}

(* Mutant of Unless: what could not be read is stored all the same. *)
Always(oob, facts) == facts

Unless(oob, facts) == IF oob THEN {} ELSE facts

(* devdb_put_a and devdb_put_aaaa *)
AddressFacts(name, src, size) == Unless(Skip(src, size).oob, {HostFact(name, Get(src, size))})

PtrFacts(pkt, src) ==
    LET target == ReadName(pkt, src, Dst(TargetSize), 0)
        parts == Split(Text(target.dst.out), Dot, 5)
    IN  IF IsService(parts) THEN Unless(target.src.oob, NameFacts(parts)) ELSE {}

(* Priority and weight are skipped; the target is stored with the port. *)
SrvFacts(pkt, parts, src) ==
    LET port == Skip(src, 4)
        target == ReadName(pkt, Skip(port, 2), Dst(TargetSize), 0)
        at == Text(target.dst.out) \o <<Colon, Get16b(port)>>
    IN  Unless(target.src.oob, NameFacts(parts) \cup {ServiceFact(Service(parts), <<"srv">>, at)})

(* The key=value pairs; a pair without "=" is skipped. *)
RECURSIVE Pairs(_)
Pairs(src) ==
    LET rest == Skip(src, 1)
        text == Get(rest, Get8(src))
        next == Skip(rest, Get8(src))
    IN  IF src.buf = <<>> THEN {}
        ELSE Unless(next.oob, {p \in {Split(Text(text), Equals, 2)} : Len(p) = 2} \cup Pairs(next))

TxtFacts(parts, src) ==
    NameFacts(parts) \cup {ServiceFact(Service(parts), <<"txt", p[1]>>, p[2]) : p \in Pairs(src)}

RecordFacts(pkt, name, type, src) ==
    LET parts == Split(name, Dot, 5) IN
    CASE type = A -> AddressFacts(name, src, 4)
      [] type = AAAA -> AddressFacts(name, src, 16)
      [] type = PTR -> PtrFacts(pkt, src)
      [] type = SRV /\ IsService(parts) -> SrvFacts(pkt, parts, src)
      [] type = TXT /\ IsService(parts) -> TxtFacts(parts, src)
      [] OTHER -> {}

(* The loop over n records: a name that is too long skips its record, and   *)
(* a record never reads more than its own length.                           *)
RECURSIVE Records(_, _, _)
Records(pkt, src, n) ==
    LET name == ReadName(pkt, src, Dst(NameSize), 0)
        header == Get(name.src, 10)
        body == Skip(name.src, 10)
        len == 256 * header[9] + header[10]
        own == Src(SubSeq(body.buf, 1, Min({len, Len(body.buf)})))
        next == Skip(body, len)
    IN  IF n = 0 \/ body.oob THEN {}
        ELSE (IF name.dst.oob THEN {}
              ELSE RecordFacts(pkt, Text(name.dst.out), 256 * header[1] + header[2], own))
             \cup Unless(next.oob, Records(pkt, next, n - 1))

RECURSIVE SkipQueries(_, _)
SkipQueries(src, n) == IF n = 0 \/ src.oob THEN src ELSE SkipQueries(Skip(SkipName(src), 4), n - 1)

(* mdns: only responses have facts. *)
Number(pkt, i) == 256 * pkt[i] + pkt[i + 1]
Facts(pkt) ==
    IF Len(pkt) < 12 THEN {}
    ELSE IF pkt[3] < 128 THEN {}
    ELSE LET src == SkipQueries(Src(SubSeq(pkt, 13, Len(pkt))), Number(pkt, 5))
         IN  Unless(src.oob, Records(pkt, src, Number(pkt, 7) + Number(pkt, 9) + Number(pkt, 11)))
=============================================================================
