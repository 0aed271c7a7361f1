------------------------------ MODULE PbStream ------------------------------
(***************************************************************************)
(* How the agent receives a frame (conn_ws_recv in conn/conn_ws.c): nanopb *)
(* decodes a list of messages while read_callback (conn/conn_pb_stream.c)  *)
(* fetches the octets from curl, as many as there are at the time.         *)
(*                                                                         *)
(* A message is encoded as its length and its octets, which nanopb reads   *)
(* with a call of the callback each.  The server sends binary frames only, *)
(* and one for every list that SendQueue.send has for a connection, which  *)
(* is empty where nothing matches a GET or SUB (broker.py).  Decoding may  *)
(* fail in the middle of a frame, for want of memory or because nanopb     *)
(* takes the octets for nothing that it knows.  The connection does not    *)
(* break here (AgentConn models that).                                     *)
(***************************************************************************)
EXTENDS Naturals, Sequences, SequencesExt, FiniteSetsExt

CONSTANTS
    Lists,      \* lists of messages that the server may send
    MaxFrames,  \* bound: frames sent
    MaxBad,     \* bound: frames that are not decoded although they could be
    Garbage     \* what an octet of a new buffer holds

(* Octets are numbers, and a message has a type and a topic at least.        *)
ASSUME MessagesHaveOctets ==
    /\ Lists \subseteq Seq(Seq(Nat) \ {<<>>})
    /\ Garbage \in Nat

VARIABLES
    sent,    \* the lists that the server has sent
    net,     \* what is on its way: units, see below
    inbox,   \* units that have arrived and were not read
    at,      \* where conn_thread is: "send", "recv" or, in pb_decode, "read"
    wanted,  \* what nanopb reads: the "length" or the "body" of a message
    size, count, buf,  \* of that read: octets asked for, those left to fetch, the buffer
    list,    \* the messages decoded so far
    took,    \* history: the frames that this pb_decode has taken octets of
    got,     \* history: the lists given to conn_msgs_dispatch, with their took
    bad      \* history: the frames in which a pb_decode has failed

decoder == <<wanted, size, count, buf, list>>
reception == <<sent, net, inbox, at, decoder, took, got, bad>>

(* A frame is its header, with the length, and octets that know how many    *)
(* follow in the frame (bytesleft in curl's curl_ws_frame).  The number of  *)
(* the frame is for the properties.                                         *)
IsHeader(unit) == unit.kind = "header"
Payload(msgs) == FlattenSeq([i \in DOMAIN msgs |-> <<Len(msgs[i])>> \o msgs[i]])
Units(n, msgs) ==
    LET octets == Payload(msgs)
        Unit(kind, value, left) == [kind |-> kind, value |-> value, left |-> left, frame |-> n]
    IN  <<Unit("header", 0, Len(octets))>> \o
        [i \in DOMAIN octets |-> Unit("octet", octets[i], Len(octets) - i)]

(* curl returns something: the rest of a frame, or a new one with at least  *)
(* an octet of its payload unless that is empty.                            *)
Ready ==
    inbox # <<>> /\ (IsHeader(inbox[1]) => inbox[1].left = 0 \/ Len(inbox) > 1)

Octets == IF IsHeader(inbox[1]) THEN Tail(inbox) ELSE inbox

(* The number of octets that are there of the current frame. *)
Available == Max({n \in 0..Len(Octets) : \A i \in 1..n : ~IsHeader(Octets[i])})

StreamInit ==
    /\ sent = <<>> /\ net = <<>> /\ inbox = <<>>
    /\ at = "send"
    /\ wanted = "length" /\ size = 1 /\ count = 1 /\ buf = <<>> /\ list = <<>>
    /\ took = {} /\ got = <<>> /\ bad = {}

ServerSend(msgs) ==
    /\ Len(sent) < MaxFrames
    /\ sent' = Append(sent, msgs)
    /\ net' = net \o Units(Len(sent'), msgs)
    /\ UNCHANGED <<inbox, at, decoder, took, got, bad>>

Arrive(n) ==
    /\ inbox' = inbox \o SubSeq(net, 1, n)
    /\ net' = SubSeq(net, n + 1, Len(net))
    /\ UNCHANGED <<sent, at, decoder, took, got, bad>>

(* conn_ws_send, whatever it does. *)
WsSend ==
    /\ at = "send" /\ at' = "recv"
    /\ UNCHANGED <<sent, net, inbox, decoder, took, got, bad>>

RecvNothing ==
    /\ at = "recv" /\ ~Ready
    /\ at' = "send"
    /\ UNCHANGED <<sent, net, inbox, decoder, took, got, bad>>

(* curl_ws_recv without a buffer takes the header, if it is the next thing; *)
(* after a failed decode it may be an octet.                                *)
RecvFrame ==
    /\ at = "recv" /\ Ready
    /\ at' = "read"
    /\ inbox' = Octets
    /\ wanted' = "length" /\ size' = 1 /\ count' = 1 /\ buf' = <<>> /\ list' = <<>>
    /\ took' = {}
    /\ UNCHANGED <<sent, net, got, bad>>

-----------------------------------------------------------------------------
(* buf is not advanced: every piece is written to its start. *)
Written(piece) == piece \o SubSeq(buf, Len(piece) + 1, Len(buf))

Finish(msgs) ==
    /\ at' = "send"
    /\ got' = Append(got, [took |-> took', msgs |-> msgs])
    /\ UNCHANGED <<decoder, bad>>

(* The early return: neither is the rest of the frame skipped nor is there   *)
(* an error that would close the connection.                                *)
Fail ==
    /\ at' = "send"
    /\ bad' = bad \cup took'
    /\ UNCHANGED <<decoder, got>>

ReadNext(next, n, msgs) ==
    /\ wanted' = next /\ size' = n /\ count' = n /\ buf' = <<>> /\ list' = msgs
    /\ UNCHANGED <<at, got, bad>>

(* Mutant of AtEnd: the end of the frame is not noticed. *)
NeverAtEnd(left) == FALSE

AtEnd(left) == left = 0

(* Mutant of Decoded: a message is the last one of its list. *)
DecodedAlone(octets, left) ==
    LET value == [i \in 1..size |-> IF i <= Len(octets) THEN octets[i] ELSE Garbage]
    IN  IF wanted = "length" THEN ReadNext("body", value[1], list) ELSE Finish(Append(list, value))

(* nanopb has its octets: it goes on with the message or the list, until a  *)
(* read after the end of the frame fails.  A message needs octets.          *)
Decoded(octets, left) ==
    LET value == [i \in 1..size |-> IF i <= Len(octets) THEN octets[i] ELSE Garbage]
        msgs == Append(list, value)
    IN  CASE wanted = "length" /\ (AtEnd(left) \/ value[1] = 0) -> Fail
          [] wanted = "length" /\ ~AtEnd(left) /\ value[1] # 0 -> ReadNext("body", value[1], list)
          [] wanted = "body" /\ ~AtEnd(left) -> ReadNext("length", 1, msgs)
          [] wanted = "body" /\ AtEnd(left) -> Finish(msgs)

(* The n octets that a call of curl_ws_recv puts into buf. *)
TakeOctets(n) ==
    /\ inbox' = SubSeq(Octets, n + 1, Len(Octets))
    /\ took' = took \cup {Octets[i].frame : i \in 1..n}
    /\ UNCHANGED <<sent, net>>

(* read_callback: a call of curl_ws_recv that does not return CURLE_AGAIN.  *)
(* Where it finds an empty frame the read fails, which ends the list; where *)
(* the frame ends before the read does, it ends in the middle of a message. *)
Read ==
    /\ at = "read" /\ Ready
    /\ LET n == Min({count, Available})
           piece == [i \in 1..n |-> Octets[i].value]
           left == IF n = 0 THEN 0 ELSE Octets[n].left
       IN  /\ TakeOctets(n)
           /\ CASE n = 0 -> Finish(list)
                [] n = count -> Decoded(Written(piece), left)
                [] n # 0 /\ n < count /\ AtEnd(left) -> Fail
                [] OTHER -> /\ count' = count - n /\ buf' = Written(piece)
                            /\ UNCHANGED <<at, wanted, size, list, got, bad>>

(* nanopb gives up after the n-th octet of a read, which stands for the      *)
(* reads of a message's fields.                                             *)
DecodeFails(n) ==
    /\ at = "read" /\ Ready /\ n <= Min({count, Available})
    /\ TakeOctets(n)
    /\ took' \subseteq bad \/ Cardinality(bad) < MaxBad
    /\ Fail

(* CURLE_AGAIN inside a frame: the callback asks again at once. *)
ReadNothing ==
    /\ at = "read" /\ ~Ready
    /\ UNCHANGED reception

Receiver ==
    \/ WsSend \/ RecvNothing \/ RecvFrame \/ Read \/ ReadNothing
    \/ \E n \in 1..Len(inbox) : DecodeFails(n)
Network == \E n \in 1..Len(net) : Arrive(n)

StreamNext == Receiver \/ Network \/ \E msgs \in Lists : ServerSend(msgs)

StreamSpec == StreamInit /\ [][StreamNext]_reception
FairStreamSpec == StreamSpec /\ WF_reception(Receiver) /\ WF_reception(Network)

-----------------------------------------------------------------------------
(* A list is not made of the octets of two frames, and the thread goes on in *)
(* the middle of a frame only where a decode has failed in that frame: what  *)
(* the early return of conn_ws.c:103 leaves unread is lost with its frame,   *)
(* and however the frames arrive in pieces the next one begins a new list.   *)
FramesStayApart ==
    /\ \A m, n \in took : m = n
    /\ at # "read" /\ inbox # <<>> => IsHeader(inbox[1]) \/ inbox[1].frame \in bad

(* What has been read, on its way to the reader or not yet sent, in frames. *)
NextFrame == LET rest == inbox \o net IN IF rest = <<>> THEN Len(sent) + 1 ELSE rest[1].frame

(* Every frame with messages that the thread is done with, and in which no   *)
(* decode has failed, was dispatched once, in the order of the frames, and   *)
(* as a list of the same number of messages of the same lengths.             *)
OneListPerFrame ==
    LET Good == {i \in DOMAIN got : got[i].took \cap bad = {} /\ got[i].took # {}}
        Of(i) == CHOOSE n \in got[i].took : TRUE
    IN  /\ \A i \in Good :
               /\ Len(got[i].msgs) = Len(sent[Of(i)])
               /\ \A j \in DOMAIN got[i].msgs : Len(got[i].msgs[j]) = Len(sent[Of(i)][j])
        /\ \A i, j \in Good : i < j => Of(i) < Of(j)
        /\ at # "read" =>
               \A n \in 1..(NextFrame - 1) : sent[n] # <<>> /\ n \notin bad => \E i \in Good : Of(i) = n

(* As long as anything is there or on its way, the thread comes back from    *)
(* reading to what it has to send.                                           *)
ThreadGoesOn == at = "read" /\ inbox \o net # <<>> ~> at = "send"

(* It comes back from every frame, since the end of a frame is noticed       *)
(* ("report EOF if there are no more bytes in a final frame").               *)
ThreadComesBack == at = "read" ~> at = "send"

(* What is dispatched is what the server sent.                               *)
ReceivedAsSent == \A i \in DOMAIN got : got[i].msgs = sent[CHOOSE n \in got[i].took : TRUE]
=============================================================================
