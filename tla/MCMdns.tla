-------------------------------- MODULE MCMdns -------------------------------
(***************************************************************************)
(* Instances of Mdns: a responder builds a message of queries and records. *)
(* A name may end in a pointer to a name further ahead that ends alike.    *)
(* "meant" is what the message says, taken from its names as sequences of  *)
(* labels.                                                                 *)
(***************************************************************************)
EXTENDS Mdns

CONSTANTS MaxQueries, MaxRecords

VARIABLES octets, queries, records, known, meant
vars == <<octets, queries, records, known, meant>>

Station == <<1>>
Local == <<2>>
Http == <<3>>
Printer == <<4>>
Sub == <<5, 6>>

HostName == <<Station, Local>>
Plain == <<Http, Tcp, Local>>
Instance == <<Printer, Http, Udp, Local>>
SubInstance == <<Printer, Sub, Http, Tcp, Local>>
Deep == <<Station, Printer, Sub, Station, Http, Local>>

HeaderSize == 12
Header(q, r) == <<0, 0, 132, 0, 0, q, 0, r, 0, 0, 0, 0>>

(* The strings of a TXT record: a pair, a flag without a value, an empty    *)
(* string, and a value with an "=" of its own.                              *)
Strings == <<<<7, Equals, 8>>, <<9>>, <<>>, <<10, Equals, 11, Equals, 12>>>>
Meaning == {<<<<7>>, <<8>>>>, <<<<10>>, <<11, Equals, 12>>>>}

-----------------------------------------------------------------------------
From(name, i) == SubSeq(name, i, Len(name))
Labels(name, n) == FlattenSeq([i \in 1..n |-> <<Len(name[i])>> \o name[i]])

(* Where the first suffix that is known begins, when pointers are used. *)
Kept(name, short) ==
    IF short /\ \E i \in 1..Len(name) : From(name, i) \in DOMAIN known
    THEN (CHOOSE i \in 1..Len(name) : /\ From(name, i) \in DOMAIN known
                                      /\ \A j \in 1..(i - 1) : From(name, j) \notin DOMAIN known) - 1
    ELSE Len(name)

Encoded(name, short) ==
    LET n == Kept(name, short)
    IN  Labels(name, n) \o
        IF n = Len(name) THEN <<0>>
        ELSE LET at == known[From(name, n + 1)] IN <<192 + (at \div 256), at % 256>>

(* The suffixes that a name written at an offset makes known. *)
Pointable(name, short, at) ==
    [s \in {From(name, i) : i \in 1..Kept(name, short)} |-> at + Len(Labels(name, Len(name) - Len(s)))]

Merged(f, g) == [x \in DOMAIN f \cup DOMAIN g |-> IF x \in DOMAIN f THEN f[x] ELSE g[x]]

-----------------------------------------------------------------------------
Dotted(name) == FlattenSeq([i \in 1..Len(name) |-> IF i = 1 THEN name[i] ELSE <<Dot>> \o name[i]])
Fits(name) == Len(Dotted(name)) < NameSize

(* instance._service._tcp.local; the instance may be left out. *)
OfService(name) == Len(name) \in 3..5 /\ name[Len(name) - 1] \in {Tcp, Udp}
PartsOf(name) ==
    LET n == Len(name)
    IN  {ServiceFact(name[n - 2], <<"protocol">>, name[n - 1])}
        \cup {ServiceFact(name[n - 2], <<"name">>, name[i]) : i \in {n - 3} \ {0}}

Addr4 == <<10, 0, 0, 1>>
Addr6 == [i \in 1..16 |-> i]
Port == <<31, 144>>
Other == 47

(* What a record means; target is the name in it, if it has one. *)
MeaningOf(name, type, target) ==
    CASE ~Fits(name) -> {}
      [] type = A -> {HostFact(Dotted(name), Addr4)}
      [] type = AAAA -> {HostFact(Dotted(name), Addr6)}
      [] type = PTR -> IF OfService(target) THEN PartsOf(target) ELSE {}
      [] type = SRV /\ OfService(name) ->
            PartsOf(name) \cup {ServiceFact(name[Len(name) - 2], <<"srv">>, Dotted(target) \o <<Colon, 8080>>)}
      [] type = TXT /\ OfService(name) ->
            PartsOf(name) \cup {ServiceFact(name[Len(name) - 2], <<"txt", p[1]>>, p[2]) : p \in Meaning}
      [] OTHER -> {}

(* The data of a record before the name in it. *)
DataOf(type) ==
    CASE type = A -> Addr4
      [] type = AAAA -> Addr6
      [] type = SRV -> <<0, 0, 0, 0>> \o Port
      [] type = TXT -> FlattenSeq([i \in 1..Len(Strings) |-> <<Len(Strings[i])>> \o Strings[i]])
      [] type = Other -> [i \in 1..250 |-> 99]
      [] OTHER -> <<>>

(* What responders call the owners of their records, a host's SRV among     *)
(* them, and what they point to.                                            *)
Owners(type) ==
    CASE type \in {A, AAAA} -> {HostName, Deep}
      [] type = PTR -> {Plain}
      [] type = SRV -> {HostName, Instance, SubInstance}
      [] OTHER -> {Plain, Instance}

Targets(type) ==
    CASE type = PTR -> {HostName, Instance, SubInstance, Deep}
      [] type = SRV -> {HostName, Deep}
      [] OTHER -> {<<>>}

-----------------------------------------------------------------------------
Init ==
    /\ octets = <<>>
    /\ queries = 0
    /\ records = 0
    /\ known = <<>>
    /\ meant = {}

AddQuery(name, short) ==
    /\ queries < MaxQueries
    /\ records = 0
    /\ octets' = octets \o Encoded(name, short) \o <<0, 255, 0, 1>>
    /\ known' = Merged(known, Pointable(name, short, HeaderSize + Len(octets)))
    /\ queries' = queries + 1
    /\ UNCHANGED <<records, meant>>

AddRecord(name, type, target, short) ==
    /\ records < MaxRecords
    /\ LET owner == Encoded(name, short)
           at == HeaderSize + Len(octets) + Len(owner) + 10 + Len(DataOf(type))
           data == DataOf(type) \o IF target = <<>> THEN <<>> ELSE Encoded(target, short)
       IN  /\ octets' = octets \o owner \o <<0, type, 0, 1, 0, 0, 0, 120, 0, Len(data)>> \o data
           /\ known' = Merged(Merged(known, Pointable(name, short, HeaderSize + Len(octets))),
                              Pointable(target, short, at))
    /\ records' = records + 1
    /\ meant' = meant \cup MeaningOf(name, type, target)
    /\ UNCHANGED queries

Next ==
    \E short \in BOOLEAN :
        \/ \E name \in {Plain, Instance} : AddQuery(name, short)
        \/ \E type \in {A, AAAA, PTR, SRV, TXT, Other} :
               \E name \in Owners(type), target \in Targets(type) : AddRecord(name, type, target, short)

Spec == Init /\ [][Next]_vars

-----------------------------------------------------------------------------
Message == Header(queries, records) \o octets

(* However names are shortened, mdns reads from a message what it says: the *)
(* names with all their labels, the parts of service names, the pairs of a  *)
(* TXT record; and the records that it has no room or no use for cost it    *)
(* none of the others.                                                      *)
DecodesWhatWasSent == Facts(Message) = meant

(* Of a message that is cut off anywhere, mdns reads nothing that the whole *)
(* message does not say: the bounds of dcpy and of the record are enough.   *)
CutSaysNoMore ==
    \A n \in (Len(Message) - 40)..Len(Message) : Facts(SubSeq(Message, 1, n)) \subseteq Facts(Message)
=============================================================================
