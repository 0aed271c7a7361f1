-------------------------------- MODULE Wire --------------------------------
(***************************************************************************)
(* Messages between agent and server: the calls that make them             *)
(* (conn/conn_msg.c), their Protobuf fields on the agent's side            *)
(* (conn/conn_pb_msg.c) and on the server's (proto/model.py and            *)
(* proto/connection.py).  On the wire a message is a function of the       *)
(* fields that are present; a list of messages is one frame.               *)
(***************************************************************************)
EXTENDS Naturals, Sequences, SequencesExt, Functions

CONSTANTS
    Pattern,  \* topics and patterns that the agent's modules use
    Wild,     \* those of them with wildcards
    Value,    \* that they publish
    Time,     \* of the agent's clock
    None,     \* NULL in the agent, Python's None in the server
    MaxFrame  \* bound: messages of a frame

Types == {"PUB", "LWT", "DEL", "GET", "SUB", "UNSUB"}
Modes == {"SEND", "RETAIN", "PERSIST", "APPEND"}

(* Topics, values, times and the members of an enumeration are not NULL. *)
ASSUME NoneIsNothing ==
    /\ None \notin Pattern /\ None \notin Value /\ None \notin Time
    /\ None \notin Types /\ None \notin Modes

Fields == {"type", "topic", "value", "created_at", "updated_at", "mode"}
Stamps == {"created_at", "updated_at", "mode"}

Fresh(type, topic, value, created_at, updated_at, mode) ==
    [type |-> type, topic |-> topic, value |-> value,
     created_at |-> created_at, updated_at |-> updated_at, mode |-> mode]

(* The public calls of conn_msg.c and the messages that they append. *)
Publication(topic, value, created_at, updated_at, mode) ==
    Fresh("PUB", topic, value, created_at, updated_at, mode)
Request(type, topic) == Fresh(type, topic, None, 0, 0, "SEND")
Will(topic, value) == Fresh("LWT", topic, value, 0, 0, "SEND")

Queued ==
    {Publication(t, v, from, to, mode) : t \in Pattern \ Wild, v \in Value,
                                         from \in Time, to \in Time, mode \in Modes}
        \cup {Request(type, t) : type \in {"GET", "SUB", "UNSUB", "DEL"}, t \in Pattern}
        \cup {Will(t, v) : t \in Pattern \ Wild, v \in Value}

(* Mutant of Sent: timestamps and mode are sent for wills alone. *)
SentForWills(msg, field) == field \in Stamps => msg.type = "LWT"

(* pb_encode_Message: a NULL string is left out, and so are the timestamps  *)
(* and the mode of what is not a publication.                               *)
Sent(msg, field) ==
    /\ field \in Stamps => msg.type = "PUB"
    /\ msg[field] # None

Encode(msg) == Restrict(msg, {field \in Fields : Sent(msg, field)})

-----------------------------------------------------------------------------
(* NetfindMessage.loads: a field that is absent is None. *)
Loads(wire) == [field \in Fields |-> IF field \in DOMAIN wire THEN wire[field] ELSE None]

Publishing == {"PUB", "LWT"}

(* NetfindMessage.is_valid for topics of the right form (Topics has these). *)
IsValid(msg) ==
    /\ IF msg.type \in Publishing THEN msg.value # None /\ msg.topic \notin Wild
                                  ELSE msg.value = None \/ msg.type = "DEL"
    /\ msg.type = "PUB" => \A field \in Stamps : msg[field] # None

(* The elements of s that are at some places of it, in their order: a list  *)
(* comprehension.  Unlike SelectSeq it can be reasoned about.               *)
At(s, places) ==
    LET taken[n \in 0 .. Len(s)] ==
            IF n = 0 THEN <<>>
            ELSE IF n \in places THEN Append(taken[n - 1], s[n])
            ELSE taken[n - 1]
    IN  taken[Len(s)]

(* Connection.recv *)
ServerRecv(wires) ==
    LET msgs == [i \in DOMAIN wires |-> Loads(wires[i])]
    IN  At(msgs, {i \in DOMAIN msgs : IsValid(msgs[i])})

(* Connection.send: what is not None is present. *)
Dumps(msg) == Restrict(msg, {field \in Fields : msg[field] # None})

-----------------------------------------------------------------------------
(* Mutant of Required: publications must have a value. *)
RequiredOfAll(wire) == {"type", "topic"} \cup Stamps

(* The fields without which pb_decode_Message fails. *)
Required(wire) ==
    {"type", "topic"} \cup IF "type" \in DOMAIN wire /\ wire.type = "PUB" THEN Stamps ELSE {}

(* An absent number is 0 and an absent mode CONN_PUB_SEND, the first one. *)
Default(field) == CASE field = "value" -> None [] field = "mode" -> "SEND" [] OTHER -> 0

DecodedMessage(wire) ==
    [field \in Fields |-> IF field \in DOMAIN wire THEN wire[field] ELSE Default(field)]

Accepted(wire) == Required(wire) \subseteq DOMAIN wire

(* How often the strings of a message are freed that is not accepted: by     *)
(* pb_decode_Message itself, and once more by its caller's conn_msg_free if  *)
(* it has found type and topic, since msg has the strings by then.           *)
Frees(wire) == IF {"type", "topic"} \subseteq DOMAIN wire THEN 2 ELSE 1

(* pb_decode_MessageList: the list, and how often the strings of each message *)
(* have been freed.  A message that cannot be decoded fails the frame; those  *)
(* before it are freed, and those after it are not looked at.                *)
Decode(wires) ==
    LET Refused == {i \in DOMAIN wires : ~Accepted(wires[i])}
        First(i) == i \in Refused /\ \A j \in Refused : i <= j
        Before(i) == \A j \in Refused : i < j
    IN  IF Refused = {}
        THEN [msgs |-> [i \in DOMAIN wires |-> DecodedMessage(wires[i])],
              freed |-> [i \in DOMAIN wires |-> 0]]
        ELSE [msgs |-> <<>>,
              freed |-> [i \in DOMAIN wires |->
                  CASE First(i) -> Frees(wires[i]) [] Before(i) -> 1 [] OTHER -> 0]]

-----------------------------------------------------------------------------
(* An agent queues messages by all the calls that there are, the server      *)
(* receives them in one frame and passes them on to another agent.           *)
VARIABLE frame   \* what the agent has queued and sends at once

WireInit == frame = <<>>
Enqueue(msg) == Len(frame) < MaxFrame /\ frame' = Append(frame, msg)
WireNext == \E msg \in Queued : Enqueue(msg)
WireSpec == WireInit /\ [][WireNext]_frame

AtServer == ServerRecv([i \in DOMAIN frame |-> Encode(frame[i])])

(* What the server passes on: publications and deletions. *)
Passed == At(AtServer, {i \in DOMAIN AtServer : AtServer[i].type \in {"PUB", "DEL"}})

(* The same messages but for fields that mean nothing to their type. *)
SameMessage(a, b) == \A field \in Fields : field \notin Stamps \/ a.type = "PUB" => a[field] = b[field]
SameAll(a, b) == Len(a) = Len(b) /\ \A i \in DOMAIN a : SameMessage(a[i], b[i])

(* Whatever an agent queues passes the server's checks and means there what  *)
(* it meant to the agent, none is filtered out (proto/model.py:38-82); and   *)
(* what the server passes on, publications and deletions, is decoded by an   *)
(* agent as it was queued by the first, no message spoils the frame and none *)
(* comes to the error path that frees its strings twice                      *)
(* (conn_pb_msg.c:51-86 and 112).                                            *)
BothUnderstand ==
    LET decoded == Decode([i \in DOMAIN Passed |-> Dumps(Passed[i])])
    IN  /\ SameAll(frame, AtServer)
        /\ SameAll(Passed, decoded.msgs)
        /\ \A i \in DOMAIN decoded.freed : decoded.freed[i] <= 1
=============================================================================
