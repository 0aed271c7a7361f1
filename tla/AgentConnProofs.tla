--------------------------- MODULE AgentConnProofs ---------------------------
(* Proofs about AgentConn, for any number of messages, failures and          *)
(* connections.  A message is behind the thread (handed), in its hand, or in  *)
(* the queue, and numbers grow in that direction: that is what makes putting  *)
(* messages back at the wrong end of the queue harmless.  What the messages   *)
(* say to their receivers is Wire's, and how their octets are received is     *)
(* PbStream's: the theorems of these two follow.                             *)
EXTENDS AgentConn, Wire, PbStream, SequenceTheorems, WellFoundedInduction, TLAPS

(* TypeOK, and the numbers of the messages. *)
PlaceOK ==
    /\ TypeOK
    /\ Ids(hand) \subseteq 1..made /\ Ids(queue) \subseteq 1..made

(* What sequence operations do to the numbers in a sequence. *)
LEMMA IdsAppend ==
    ASSUME NEW s \in Seq(Message), NEW m \in Message
    PROVE  Ids(Append(s, m)) = Ids(s) \cup {m.id}
<1>1. /\ DOMAIN Append(s, m) = 1..(Len(s) + 1) /\ DOMAIN s = 1..Len(s) /\ Len(s) \in Nat
      /\ Append(s, m)[Len(s) + 1] = m
      /\ \A i \in 1..Len(s) : Append(s, m)[i] = s[i]
    OBVIOUS
<1>2. QED
    BY <1>1 DEF Ids

LEMMA IdsConcat ==
    ASSUME NEW s \in Seq(Message), NEW t \in Seq(Message)
    PROVE  Ids(s \o t) = Ids(s) \cup Ids(t)
<1>1. /\ DOMAIN (s \o t) = 1..(Len(s) + Len(t))
      /\ DOMAIN s = 1..Len(s) /\ DOMAIN t = 1..Len(t) /\ Len(s) \in Nat /\ Len(t) \in Nat
      /\ \A i \in 1..(Len(s) + Len(t)) : (s \o t)[i] = IF i <= Len(s) THEN s[i] ELSE t[i - Len(s)]
    OBVIOUS
<1>2. Ids(s \o t) \subseteq Ids(s) \cup Ids(t)
    <2>1. SUFFICES ASSUME NEW i \in 1..(Len(s) + Len(t)) PROVE (s \o t)[i].id \in Ids(s) \cup Ids(t)
        BY <1>1 DEF Ids
    <2>2. CASE i <= Len(s)
        BY <1>1, <2>2 DEF Ids
    <2>3. CASE ~(i <= Len(s))
        <3>1. i - Len(s) \in 1..Len(t)
            BY <1>1, <2>3
        <3>2. QED
            BY <1>1, <2>3, <3>1 DEF Ids
    <2>4. QED
        BY <2>2, <2>3
<1>3. Ids(s) \subseteq Ids(s \o t)
    BY <1>1 DEF Ids
<1>4. Ids(t) \subseteq Ids(s \o t)
    <2>1. SUFFICES ASSUME NEW i \in 1..Len(t) PROVE t[i].id \in Ids(s \o t)
        BY <1>1 DEF Ids
    <2>2. Len(s) + i \in 1..(Len(s) + Len(t)) /\ (s \o t)[Len(s) + i] = t[i]
        BY <1>1
    <2>3. QED
        BY <1>1, <2>2 DEF Ids
<1>5. QED
    BY <1>2, <1>3, <1>4

LEMMA IdsTail ==
    ASSUME NEW s \in Seq(Message), s # <<>>
    PROVE  Ids(Tail(s)) \subseteq Ids(s)
<1>1. /\ DOMAIN Tail(s) = 1..(Len(s) - 1) /\ DOMAIN s = 1..Len(s) /\ Len(s) \in Nat
      /\ \A i \in 1..(Len(s) - 1) : Tail(s)[i] = s[i + 1]
    OBVIOUS
<1>2. QED
    BY <1>1 DEF Ids

LEMMA IdsEmpty == Ids(<<>>) = {}
BY DEF Ids

(* conn_msg_add appends one message with the next number, or none. *)
LEMMA AddStep ==
    ASSUME PlaceOK, NEW kind \in Kind, MsgAdd(kind)
    PROVE  /\ queue' \in Seq(Message) /\ made' \in Nat /\ made <= made'
           /\ Ids(queue') \subseteq 1..made'
           /\ short' \in BOOLEAN /\ (short => short')
           /\ \/ Ids(queue') = Ids(queue) \cup {made + 1} /\ made' = made + 1
              \/ UNCHANGED <<queue, made>>
<1>1. CASE short' = TRUE /\ UNCHANGED <<queue, made>>
    BY <1>1 DEF PlaceOK, TypeOK, Ids
<1>2. CASE queue' = Append(queue, [id |-> made + 1, kind |-> kind]) /\ made' = made + 1 /\ UNCHANGED short
    <2>1. [id |-> made + 1, kind |-> kind] \in Message
        BY DEF PlaceOK, TypeOK, Message
    <2>2. Ids(queue') = Ids(queue) \cup {made + 1}
        BY <1>2, <2>1, IdsAppend DEF PlaceOK, TypeOK
    <2>3. QED
        BY <1>2, <2>1, <2>2 DEF PlaceOK, TypeOK
<1>3. QED
    BY <1>1, <1>2 DEF MsgAdd

(* The end of conn_ws_send: the messages have left, one way or the other. *)
LEMMA LeaveStep ==
    ASSUME PlaceOK, Send \/ EncodeFails
    PROVE  /\ pc = "encode" /\ pc' = "recv"
           /\ hand' = <<>> /\ hand' \in Seq(Message) /\ Ids(hand') = {}
           /\ gone' = gone \cup Ids(hand)
           /\ handed' \subseteq 1..made /\ dropped' \subseteq 1..made
           /\ short' \in BOOLEAN /\ (short => short')
           /\ UNCHANGED <<queue, link, made, data, fails, epoch>>
<1>1. <<>> \in Seq(Message)
    OBVIOUS
<1>2. QED
    BY <1>1, IdsEmpty DEF PlaceOK, TypeOK, Send, EncodeFails, gone

LEMMA PlaceInvariant == Spec => []PlaceOK
<1>1. Init => PlaceOK
    <2> SUFFICES ASSUME Init PROVE PlaceOK
        OBVIOUS
    <2>1. queue \in Seq(Message) /\ hand \in Seq(Message) /\ frames \in Seq(Frame)
        BY DEF Init
    <2>2. made \in Nat /\ data \in Nat /\ fails \in Nat /\ epoch \in Nat
        BY DEF Init
    <2>3. handed \subseteq 1..made /\ dropped \subseteq 1..made
        BY DEF Init
    <2>4. short \in BOOLEAN
        BY DEF Init
    <2>5. TypeOK
        BY <2>1, <2>2, <2>3, <2>4 DEF Init, TypeOK
    <2>6. QED
        BY <2>5 DEF Init, PlaceOK, Ids
<1>2. PlaceOK /\ [Next]_vars => PlaceOK'
    <2> SUFFICES ASSUME PlaceOK, [Next]_vars PROVE PlaceOK'
        OBVIOUS
    <2>1. ASSUME Produce \/ PublishOnline \/ SetWill PROVE PlaceOK'
        <3>1. PICK kind \in Kind : MsgAdd(kind)
            BY <2>1 DEF Produce, PublishOnline, SetWill, Kind
        <3>2. UNCHANGED <<hand, fails, epoch, frames, handed, dropped, link>> /\ Ids(hand') = Ids(hand)
            BY <2>1 DEF Produce, PublishOnline, SetWill, sendings, Ids
        <3>3. data' \in Nat
            BY <2>1 DEF Produce, PublishOnline, SetWill, PlaceOK, TypeOK
        <3>4. pc' = pc \/ (pc \in {"online", "setwill"} /\ pc' \in {"setwill", "close", "send"})
            BY <2>1 DEF Produce, PublishOnline, SetWill
        <3>5. QED
            BY <3>1, <3>2, <3>3, <3>4, AddStep DEF PlaceOK, TypeOK
    <2>2. CASE Break \/ CurlInit \/ Connect
        <3>1. UNCHANGED <<queue, hand, made, data, frames, handed, dropped, short>>
            BY <2>2 DEF Break, CurlInit, Connect, sendings
        <3>2. link' \in {"down", "up", "dead"} /\ fails' \in Nat /\ epoch' \in Nat
            BY <2>2 DEF Break, CurlInit, Connect, PlaceOK, TypeOK
        <3>3. pc' = pc \/ (pc \in {"init", "connect"} /\ pc' \in {"connect", "ended", "online"})
            BY <2>2 DEF Break, CurlInit, Connect
        <3>4. QED
            BY <3>1, <3>2, <3>3 DEF PlaceOK, TypeOK, Ids
    <2>3. CASE Take
        BY <2>3, IdsEmpty DEF Take, sendings, PlaceOK, TypeOK, Ids
    <2>4. CASE TakeNothing \/ SendFails \/ Recv \/ RecvFails \/ Close
        BY <2>4 DEF TakeNothing, SendFails, Recv, RecvFails, Close, sendings, PlaceOK, TypeOK, Ids
    <2>5. CASE Send \/ EncodeFails
        <3>1. frames' \in Seq(Frame)
            <4>1. [epoch |-> epoch, msgs |-> hand] \in Frame
                BY DEF PlaceOK, TypeOK, Frame
            <4>2. frames \in Seq(Frame)
                BY DEF PlaceOK, TypeOK
            <4>3. frames' = frames \/ frames' = Append(frames, [epoch |-> epoch, msgs |-> hand])
                BY <2>5 DEF Send, EncodeFails
            <4>4. QED
                BY <4>1, <4>2, <4>3
        <3>2. Ids(queue') = Ids(queue)
            BY <2>5, LeaveStep DEF Ids
        <3>3. TypeOK'
            BY <2>5, <3>1, LeaveStep DEF PlaceOK, TypeOK
        <3>4. QED
            BY <2>5, <3>2, <3>3, LeaveStep DEF PlaceOK
    <2>7. CASE PutBack
        <3>1. Ids(queue') = Ids(queue) \cup Ids(hand) /\ Ids(hand') = {}
            BY <2>7, IdsConcat, IdsEmpty DEF PutBack, PlaceOK, TypeOK
        <3>2. QED
            BY <2>7, <3>1 DEF PutBack, sendings, PlaceOK, TypeOK
    <2>8. CASE UNCHANGED vars
        BY <2>8 DEF vars, sendings, PlaceOK, TypeOK, Ids
    <2>9. QED
        BY <2>1, <2>2, <2>3, <2>4, <2>5, <2>7, <2>8 DEF Next, Thread
<1>3. QED
    BY <1>1, <1>2, PTL DEF Spec

(* Every variable of the connection keeps its type; in particular only       *)
(* messages that exist are handed over.                                      *)
THEOREM TypeCorrect == Spec => []TypeOK
<1>1. PlaceOK => TypeOK
    BY DEF PlaceOK
<1>2. QED
    BY <1>1, PlaceInvariant, PTL

-----------------------------------------------------------------------------
(* The steps that concern the order of the messages. *)
LEMMA MessageSteps ==
    ASSUME [Next]_vars
    PROVE  \/ \E kind \in Kind : MsgAdd(kind) /\ UNCHANGED <<hand, sendings>>
           \/ Take \/ Send \/ EncodeFails \/ PutBack
           \/ UNCHANGED <<queue, hand, made, sendings, short>>
<1>1. CASE Produce \/ PublishOnline \/ SetWill
    BY <1>1 DEF Produce, PublishOnline, SetWill, Kind
<1>2. CASE Break \/ CurlInit \/ Connect
    BY <1>2 DEF Break, CurlInit, Connect
<1>3. CASE TakeNothing \/ SendFails \/ Recv \/ RecvFails \/ Close
    BY <1>3 DEF TakeNothing, SendFails, Recv, RecvFails, Close
<1>4. CASE Take \/ Send \/ EncodeFails \/ PutBack
    BY <1>4
<1>5. CASE UNCHANGED vars
    BY <1>5 DEF vars
<1>6. QED
    BY <1>1, <1>2, <1>3, <1>4, <1>5 DEF Next, Thread

(* Messages that have left, those in hand and the queued ones, in that order. *)
Ordered ==
    /\ \A a \in gone, b \in Ids(hand) \cup Ids(queue) : a < b
    /\ \A a \in Ids(hand), b \in Ids(queue) : a < b
    /\ \A i \in DOMAIN frames : Ids(frames[i].msgs) \subseteq gone

LEMMA OrderStep ==
    ASSUME PlaceOK, PlaceOK', Ordered, NothingOvertakes, [Next]_vars
    PROVE  Ordered' /\ NothingOvertakes'
<1>1. ASSUME NEW kind \in Kind, MsgAdd(kind), UNCHANGED <<hand, sendings>>
      PROVE  Ordered' /\ NothingOvertakes'
    <2>1. /\ Ids(hand') = Ids(hand) /\ Ids(hand) \subseteq 1..made /\ made \in Nat
          /\ gone \subseteq 1..made /\ gone' = gone /\ frames' = frames
        BY <1>1 DEF Ids, PlaceOK, TypeOK, sendings, gone
    <2>2. Ids(queue') \subseteq Ids(queue) \cup {made + 1}
        BY <1>1, AddStep DEF Ids
    <2>3. \A i \in DOMAIN frames : frames'[i] = frames[i] /\ Ids(frames'[i].msgs) = Ids(frames[i].msgs)
        BY <2>1 DEF Ids
    <2>4. \A a \in 1..made : a < made + 1
        BY <2>1
    <2>5. Ordered'
        BY <1>1, <2>1, <2>2, <2>3, <2>4 DEF Ordered
    <2>6. QED
        BY <2>1, <2>3, <2>5 DEF NothingOvertakes
<1>2. CASE Take
    <2>1. Ids(hand') = Ids(queue) /\ Ids(queue') = {} /\ gone' = gone /\ frames' = frames
        BY <1>2, IdsEmpty DEF Take, Ids, sendings, gone
    <2>2. QED
        BY <2>1 DEF Ordered, NothingOvertakes
<1>3. CASE Send \/ EncodeFails
    <2>1. /\ Ids(hand') = {} /\ gone' = gone \cup Ids(hand) /\ Ids(queue') = Ids(queue)
          /\ UNCHANGED queue
        BY <1>3, LeaveStep DEF Ids
    <2>2. CASE frames' = frames
        BY <2>1, <2>2 DEF Ordered, NothingOvertakes
    <2>3. CASE frames' = Append(frames, [epoch |-> epoch, msgs |-> hand])
        <3>1. /\ DOMAIN frames = 1..Len(frames) /\ Len(frames) \in Nat
              /\ DOMAIN frames' = 1..(Len(frames) + 1)
              /\ \A i \in 1..Len(frames) : frames'[i] = frames[i]
              /\ frames'[Len(frames) + 1].msgs = hand
            BY <2>3 DEF PlaceOK, TypeOK
        <3>2. Ordered'
            BY <2>1, <3>1 DEF Ordered
        <3>3. ASSUME NEW i \in 1..(Len(frames) + 1), NEW j \in 1..(Len(frames) + 1), i < j,
                     NEW a \in Ids(frames'[i].msgs), NEW b \in Ids(frames'[j].msgs)
              PROVE  a < b
            <4>1. i \in 1..Len(frames) /\ a \in Ids(frames[i].msgs)
                BY <3>1, <3>3
            <4>2. CASE j = Len(frames) + 1
                BY <3>1, <3>3, <4>1, <4>2 DEF Ordered
            <4>3. CASE j # Len(frames) + 1
                <5>1. j \in 1..Len(frames) /\ b \in Ids(frames[j].msgs)
                    BY <3>1, <3>3, <4>3
                <5>2. QED
                    BY <3>1, <3>3, <4>1, <5>1 DEF NothingOvertakes
            <4>4. QED
                BY <4>2, <4>3
        <3>4. QED
            BY <3>1, <3>2, <3>3 DEF NothingOvertakes
    <2>4. QED
        BY <1>3, <2>2, <2>3 DEF Send, EncodeFails
<1>4. CASE PutBack
    <2>1. Ids(queue') = Ids(queue) \cup Ids(hand) /\ Ids(hand') = {} /\ gone' = gone /\ frames' = frames
        BY <1>4, IdsConcat, IdsEmpty DEF PutBack, PlaceOK, TypeOK, sendings, gone
    <2>2. QED
        BY <2>1 DEF Ordered, NothingOvertakes
<1>5. CASE UNCHANGED <<queue, hand, made, sendings, short>>
    BY <1>5 DEF Ordered, NothingOvertakes, Ids, sendings, gone
<1>6. QED
    BY <1>1, <1>2, <1>3, <1>4, <1>5, MessageSteps

LEMMA OrderInvariant == Spec => [](Ordered /\ NothingOvertakes)
<1>1. Init => Ordered /\ NothingOvertakes
    BY IdsEmpty DEF Init, Ordered, NothingOvertakes, gone
<1>2. PlaceOK /\ PlaceOK' /\ (Ordered /\ NothingOvertakes) /\ [Next]_vars => (Ordered /\ NothingOvertakes)'
    BY OrderStep
<1>3. QED
    BY <1>1, <1>2, PlaceInvariant, PTL DEF Spec

(* The server never receives a message twice, nor before one that was queued *)
(* earlier, although conn_ws_send puts failed messages back behind newer     *)
(* ones: it always takes the whole queue.                                    *)
THEOREM MessagesKeepTheirOrder == Spec => []NothingOvertakes
BY OrderInvariant, PTL

(* No message vanishes between conn_msg_add and curl, or is there twice: it is *)
(* queued, in hand, given to curl, or lost for want of memory.               *)
THEOREM MessagesAreKept == Spec => []KeptUntilSent
<1>1. Init => KeptUntilSent
    BY IdsEmpty DEF Init, KeptUntilSent
<1>2. PlaceOK /\ PlaceOK' /\ Ordered' /\ Ordered /\ KeptUntilSent /\ [Next]_vars => KeptUntilSent'
    <2> SUFFICES ASSUME PlaceOK, PlaceOK', Ordered, Ordered', KeptUntilSent, [Next]_vars PROVE KeptUntilSent'
        OBVIOUS
    <2>8. /\ Ids(queue') \cap (Ids(hand') \cup handed' \cup dropped') = {}
          /\ Ids(hand') \cap (handed' \cup dropped') = {}
        <3>1. Ids(queue') \subseteq 1..made' /\ Ids(hand') \subseteq 1..made' /\ made' \in Nat
            BY DEF PlaceOK, TypeOK
        <3>2. \A a \in 1..made' : ~ a < a
            BY <3>1
        <3>3. QED
            BY <3>1, <3>2 DEF Ordered, gone
    <2>1. ASSUME NEW kind \in Kind, MsgAdd(kind), UNCHANGED <<hand, sendings>> PROVE KeptUntilSent'
        <3>1. Ids(hand') = Ids(hand) /\ handed' = handed /\ dropped' = dropped /\ (short => short')
            BY <2>1, AddStep DEF Ids, sendings
        <3>2. CASE Ids(queue') = Ids(queue) \cup {made + 1} /\ made' = made + 1
            <4>1. 1..(made + 1) = (1..made) \cup {made + 1}
                BY DEF PlaceOK, TypeOK
            <4>2. 1..made' = Ids(queue') \cup Ids(hand') \cup handed' \cup dropped'
                BY <3>1, <3>2, <4>1 DEF KeptUntilSent
            <4>3. QED
                BY <2>8, <3>1, <4>2 DEF KeptUntilSent
        <3>3. CASE UNCHANGED <<queue, made>>
            <4>1. 1..made' = Ids(queue') \cup Ids(hand') \cup handed' \cup dropped'
                BY <3>1, <3>3 DEF KeptUntilSent, Ids
            <4>2. QED
                BY <2>8, <3>1, <4>1 DEF KeptUntilSent
        <3>4. QED
            BY <2>1, <3>2, <3>3, AddStep
    <2>2. CASE Take
        <3>1. /\ Ids(hand') = Ids(queue) /\ Ids(queue') = {} /\ Ids(hand) = {}
              /\ UNCHANGED <<made, handed, dropped, short>>
            BY <2>2, IdsEmpty DEF Take, Ids, PlaceOK, TypeOK, sendings
        <3>2. QED
            BY <2>8, <3>1 DEF KeptUntilSent
    <2>3. CASE Send \/ EncodeFails
        <3>1. /\ Ids(hand') = {} /\ Ids(queue') = Ids(queue) /\ UNCHANGED made
              /\ short => short'
            BY <2>3, LeaveStep DEF Ids
        <3>2. \/ handed' = handed \cup Ids(hand) /\ dropped' = dropped
              \/ dropped' = dropped \cup Ids(hand) /\ handed' = handed /\ short' = TRUE
            BY <2>3 DEF Send, EncodeFails
        <3>3. QED
            BY <2>8, <3>1, <3>2 DEF KeptUntilSent
    <2>4. CASE PutBack
        <3>1. /\ Ids(queue') = Ids(queue) \cup Ids(hand) /\ Ids(hand') = {}
              /\ UNCHANGED <<made, handed, dropped, short>>
            BY <2>4, IdsConcat, IdsEmpty DEF PutBack, PlaceOK, TypeOK, sendings
        <3>2. QED
            BY <2>8, <3>1 DEF KeptUntilSent
    <2>5. CASE UNCHANGED <<queue, hand, made, sendings, short>>
        BY <2>5 DEF KeptUntilSent, Ids, sendings
    <2>6. QED
        BY <2>1, <2>2, <2>3, <2>4, <2>5, MessageSteps
<1>3. QED
    BY <1>1, <1>2, PlaceInvariant, OrderInvariant, PTL DEF Spec

-----------------------------------------------------------------------------
Kinds(s) == {s[i].kind : i \in DOMAIN s}
Announcement == {"online", "will"}

NoFrameYet == frames # <<>> => frames[Len(frames)].epoch # epoch

(* Until the first frame of a connection, the announcement is on its way.    *)
Armed ==
    /\ pc \in {"init", "connect"} => link = "down"
    /\ pc = "putback" => link = "dead"
    /\ pc = "setwill" => "online" \in Kinds(queue)
    /\ pc \in {"send", "recv"} /\ link = "up" /\ NoFrameYet => Announcement \subseteq Kinds(queue)
    /\ pc = "encode" /\ link = "up" /\ NoFrameYet => Announcement \subseteq Kinds(hand)

LEMMA KindsAppend ==
    ASSUME NEW s \in Seq(Message), NEW n, NEW kind
    PROVE  Kinds(Append(s, [id |-> n, kind |-> kind])) = Kinds(s) \cup {kind}
<1>1. /\ DOMAIN Append(s, [id |-> n, kind |-> kind]) = 1..(Len(s) + 1) /\ DOMAIN s = 1..Len(s) /\ Len(s) \in Nat
      /\ Append(s, [id |-> n, kind |-> kind])[Len(s) + 1] = [id |-> n, kind |-> kind]
      /\ \A i \in 1..Len(s) : Append(s, [id |-> n, kind |-> kind])[i] = s[i]
    OBVIOUS
<1>2. QED
    BY <1>1 DEF Kinds

(* As long as memory suffices, a message that is added is queued. *)
LEMMA KindsAdd ==
    ASSUME TypeOK, ~short', NEW kind, MsgAdd(kind)
    PROVE  Kinds(queue') = Kinds(queue) \cup {kind}
<1>1. queue' = Append(queue, [id |-> made + 1, kind |-> kind])
    BY DEF MsgAdd
<1>2. queue \in Seq(Message)
    BY DEF TypeOK
<1>3. Kinds(Append(queue, [id |-> made + 1, kind |-> kind])) = Kinds(queue) \cup {kind}
    BY <1>2, KindsAppend
<1>4. QED
    BY <1>1, <1>3 DEF Kinds

(* What FirstFrameHasWill says of the frames. *)
Announced ==
    \A i \in DOMAIN frames :
        (i > 1 => frames[i - 1].epoch # frames[i].epoch) => Announcement \subseteq Kinds(frames[i].msgs)

LEMMA ShortStays ==
    ASSUME [Next]_vars, short
    PROVE  short'
<1>1. CASE Produce \/ PublishOnline \/ SetWill
    BY <1>1 DEF Produce, PublishOnline, SetWill, MsgAdd
<1>2. CASE Break \/ CurlInit \/ Connect
    BY <1>2 DEF Break, CurlInit, Connect
<1>3. CASE TakeNothing \/ SendFails \/ Recv \/ RecvFails \/ Close
    BY <1>3 DEF TakeNothing, SendFails, Recv, RecvFails, Close
<1>4. CASE Take \/ Send \/ EncodeFails \/ PutBack
    BY <1>4 DEF Take, Send, EncodeFails, PutBack
<1>5. CASE UNCHANGED vars
    BY <1>5 DEF vars
<1>6. QED
    BY <1>1, <1>2, <1>3, <1>4, <1>5 DEF Next, Thread

LEMMA ArmedStep ==
    ASSUME TypeOK, ~short', Armed, Announced, [Next]_vars
    PROVE  Armed' /\ Announced'
<1>1. CASE Produce
    <2>1. Kinds(queue') = Kinds(queue) \cup {"data"} /\ Kinds(hand') = Kinds(hand) /\ (NoFrameYet' <=> NoFrameYet)
        BY <1>1, KindsAdd DEF Produce, Kinds, NoFrameYet, sendings
    <2>2. QED
        BY <1>1, <2>1 DEF Produce, Armed, Announced, sendings
<1>2. CASE Break
    BY <1>2 DEF Break, Armed, Announced, TypeOK, Kinds, sendings
<1>3. CASE CurlInit \/ Connect \/ Close
    BY <1>3 DEF CurlInit, Connect, Close, Armed, Announced, sendings
<1>4. CASE PublishOnline
    <2>1. Kinds(queue') = Kinds(queue) \cup {"online"}
        BY <1>4, KindsAdd DEF PublishOnline
    <2>2. QED
        BY <1>4, <2>1 DEF PublishOnline, Armed, Announced, sendings
<1>5. CASE SetWill
    <2>1. Kinds(queue') = Kinds(queue) \cup {"will"} /\ "online" \in Kinds(queue)
        BY <1>5, KindsAdd DEF SetWill, Armed
    <2>2. QED
        BY <1>5, <2>1 DEF SetWill, Armed, Announced, Announcement, sendings
<1>6. CASE Take
    <2>1. Kinds(hand') = Kinds(queue) /\ (NoFrameYet' <=> NoFrameYet)
        BY <1>6 DEF Take, Kinds, NoFrameYet, sendings
    <2>2. QED
        BY <1>6, <2>1 DEF Take, Armed, Announced, sendings
<1>7. CASE TakeNothing \/ SendFails \/ Recv \/ RecvFails
    <2>1. Kinds(queue') = Kinds(queue) /\ Kinds(hand') = Kinds(hand) /\ (NoFrameYet' <=> NoFrameYet)
        BY <1>7 DEF TakeNothing, SendFails, Recv, RecvFails, Kinds, NoFrameYet, sendings
    <2>2. QED
        BY <1>7, <2>1 DEF TakeNothing, SendFails, Recv, RecvFails, Armed, Announced, sendings
<1>8. CASE Send /\ link = "up"
    <2>1. /\ frames' = Append(frames, [epoch |-> epoch, msgs |-> hand])
          /\ pc = "encode" /\ pc' = "recv" /\ epoch' = epoch
        BY <1>8 DEF Send
    <2>2. /\ DOMAIN frames = 1..Len(frames) /\ Len(frames) \in Nat
          /\ DOMAIN frames' = 1..(Len(frames) + 1) /\ Len(frames') = Len(frames) + 1 /\ frames' # <<>>
          /\ \A i \in 1..Len(frames) : frames'[i] = frames[i]
          /\ frames'[Len(frames) + 1].msgs = hand /\ frames'[Len(frames) + 1].epoch = epoch
        <3>1. frames \in Seq(Frame)
            BY DEF TypeOK
        <3>2. [epoch |-> epoch, msgs |-> hand] \in Frame
            BY DEF TypeOK, Frame
        <3> DEFINE f == [epoch |-> epoch, msgs |-> hand]
        <3>3. f.msgs = hand /\ f.epoch = epoch
            OBVIOUS
        <3>4. frames' = Append(frames, f) /\ f \in Frame
            BY <2>1, <3>2
        <3> HIDE DEF f
        <3>5. QED
            BY <3>1, <3>3, <3>4
    <2>3. ~NoFrameYet'
        BY <2>1, <2>2 DEF NoFrameYet
    <2>4. ASSUME NEW i \in 1..(Len(frames) + 1), i > 1 => frames'[i - 1].epoch # frames'[i].epoch
          PROVE  Announcement \subseteq Kinds(frames'[i].msgs)
        <3>1. CASE i = Len(frames) + 1
            <4>1. NoFrameYet
                BY <2>2, <2>4, <3>1 DEF NoFrameYet, TypeOK
            <4>2. QED
                BY <1>8, <2>1, <2>2, <3>1, <4>1 DEF Armed
        <3>2. CASE i # Len(frames) + 1
            <4>1. /\ i \in 1..Len(frames) /\ frames'[i] = frames[i]
                  /\ i > 1 => i - 1 \in 1..Len(frames) /\ frames'[i - 1] = frames[i - 1]
                BY <2>2, <3>2
            <4>2. QED
                BY <2>2, <2>4, <4>1 DEF Announced
        <3>3. QED
            BY <3>1, <3>2
    <2>5. Announced'
        BY <2>2, <2>4 DEF Announced
    <2>6. QED
        BY <2>1, <2>3, <2>5 DEF Armed
<1>9. CASE Send /\ link # "up"
    BY <1>9 DEF Send, Armed, Announced
<1>10. CASE EncodeFails
    BY <1>10 DEF EncodeFails
<1>11. CASE PutBack
    BY <1>11 DEF PutBack, Armed, Announced, sendings
<1>12. CASE UNCHANGED vars
    BY <1>12 DEF vars, Armed, Announced, Kinds, NoFrameYet, sendings
<1>13. QED
    BY <1>1, <1>2, <1>3, <1>4, <1>5, <1>6, <1>7, <1>8, <1>9, <1>10, <1>11, <1>12 DEF Next, Thread

(* As long as no allocation and no encoding fails, the server learns that    *)
(* the agent is online, and its will, before anything else or together with  *)
(* it.                                                                       *)
THEOREM AgentIsAnnounced == Spec => []FirstFrameHasWill
<1> DEFINE Inv == ~short => Armed /\ Announced
<1>1. Init => Inv
    BY DEF Init, Armed, Announced
<1>2. TypeOK /\ Inv /\ [Next]_vars => Inv'
    BY ArmedStep, ShortStays
<1>3. Inv => FirstFrameHasWill
    BY DEF FirstFrameHasWill, Announced, Announcement, Kinds
<1>4. QED
    BY <1>1, <1>2, <1>3, TypeCorrect, PTL DEF Spec

-----------------------------------------------------------------------------
(* A frame that leaves is a batch of the channel: what is in hand is older   *)
(* than what is queued, and nothing else waits.                              *)
LEMMA HandIsBatch ==
    ASSUME PlaceOK, Ordered, KeptUntilSent, pc = "encode"
    PROVE  Ids(hand) \in SUBSET (1..made) /\ Ch!Batch(Ids(hand))
<1>1. Ids(hand) # {}
    <2>1. hand \in Seq(Message) /\ hand # <<>>
        BY DEF PlaceOK, TypeOK
    <2>2. 1 \in DOMAIN hand
        BY <2>1
    <2>3. QED
        BY <2>2 DEF Ids
<1>2. Ids(hand) \subseteq 1..made /\ gone \subseteq 1..made /\ made \in Nat
    BY DEF PlaceOK, TypeOK, gone
<1>3. \A a \in gone : a \notin Ids(hand)
    BY <1>2 DEF Ordered
<1>4. (1..made) \ (gone \cup Ids(hand)) \subseteq Ids(queue)
    BY DEF KeptUntilSent, gone
<1>5. \A m \in Ids(hand), n \in (1..made) \ (gone \cup Ids(hand)) : m < n
    BY <1>4 DEF Ordered
<1>6. QED
    BY <1>1, <1>2, <1>3, <1>5 DEF Ch!Batch

LEMMA IdsAreNumbers ==
    ASSUME NEW s \in Seq(Message)
    PROVE  Ids(s) \in SUBSET Nat
<1>1. \A i \in DOMAIN s : s[i] \in Message
    OBVIOUS
<1>2. QED
    BY <1>1 DEF Ids, Message

(* The batches that frames carry are a sequence of sets of numbers. *)
LEMMA BatchesType ==
    ASSUME NEW fs \in Seq(Frame)
    PROVE  /\ Batches(fs) \in Seq(SUBSET Nat) /\ Len(Batches(fs)) = Len(fs)
           /\ \A i \in 1..Len(fs) : Batches(fs)[i] = Ids(fs[i].msgs)
<1>1. DOMAIN fs = 1..Len(fs) /\ Len(fs) \in Nat /\ \A i \in 1..Len(fs) : fs[i] \in Frame
    OBVIOUS
<1>2. \A i \in 1..Len(fs) : Ids(fs[i].msgs) \in SUBSET Nat
    BY <1>1, IdsAreNumbers DEF Frame
<1>3. Batches(fs) = [i \in 1..Len(fs) |-> Ids(fs[i].msgs)]
    BY <1>1 DEF Batches
<1>4. Batches(fs) \in [1..Len(fs) -> SUBSET Nat]
    BY <1>2, <1>3
<1>5. QED
    BY <1>1, <1>3, <1>4

LEMMA BatchesAppend ==
    ASSUME NEW fs \in Seq(Frame), NEW f \in Frame
    PROVE  Batches(Append(fs, f)) = Append(Batches(fs), Ids(f.msgs))
<1> DEFINE longer == Append(fs, f)
           numbers == Ids(f.msgs)
           appended == Append(Batches(fs), numbers)
<1>1. /\ longer \in Seq(Frame) /\ Len(fs) \in Nat /\ Len(longer) = Len(fs) + 1
      /\ \A i \in 1..Len(fs) : longer[i] = fs[i]
      /\ longer[Len(fs) + 1] = f
    OBVIOUS
<1>2. numbers \in SUBSET Nat
    BY IdsAreNumbers DEF Frame
<1> HIDE DEF numbers, longer
<1>3. /\ appended \in Seq(SUBSET Nat) /\ Len(appended) = Len(fs) + 1
      /\ \A i \in 1..Len(fs) : appended[i] = Ids(fs[i].msgs)
      /\ appended[Len(fs) + 1] = numbers
    BY <1>2, BatchesType, AppendProperties
<1> HIDE DEF appended
<1>4. /\ Batches(longer) \in Seq(SUBSET Nat) /\ Len(Batches(longer)) = Len(longer)
      /\ \A i \in 1..Len(longer) : Batches(longer)[i] = Ids(longer[i].msgs)
    BY <1>1, BatchesType
<1>5. ASSUME NEW i \in 1..(Len(fs) + 1) PROVE Ids(longer[i].msgs) = appended[i]
    <2>1. CASE i = Len(fs) + 1
        BY <1>1, <1>3, <2>1 DEF numbers
    <2>2. CASE i # Len(fs) + 1
        <3>1. i \in 1..Len(fs)
            BY <1>1, <2>2
        <3>2. QED
            BY <1>1, <1>3, <3>1
    <2>3. QED
        BY <2>1, <2>2
<1>6. Batches(longer) = appended
    BY <1>1, <1>3, <1>4, <1>5, SeqEqual
<1>7. QED
    BY <1>6 DEF appended, numbers, longer

LEMMA ChannelStep ==
    ASSUME PlaceOK, Ordered, KeptUntilSent, [Next]_vars
    PROVE  [Ch!Next]_(Ch!vars)
<1>1. ASSUME NEW kind \in Kind, MsgAdd(kind), UNCHANGED <<hand, sendings>>
      PROVE  [Ch!Next]_(Ch!vars)
    BY <1>1 DEF MsgAdd, Ch!Next, Ch!Accept, Ch!vars, Batches, sendings, gone
<1>2. CASE Take \/ PutBack
    BY <1>2 DEF Take, PutBack, Ch!vars, Batches, sendings, gone
<1>3. CASE Send \/ EncodeFails
    <2>1. pc = "encode" /\ gone' = gone \cup Ids(hand) /\ made' = made
        BY <1>3, LeaveStep
    <2>2. Batches(frames)' = Batches(frames) \/ Batches(frames)' = Append(Batches(frames), Ids(hand))
        <3>1. CASE frames' = frames
            BY <3>1 DEF Batches
        <3>2. CASE frames' = Append(frames, [epoch |-> epoch, msgs |-> hand])
            <4> DEFINE f == [epoch |-> epoch, msgs |-> hand]
            <4>1. f \in Frame /\ f.msgs = hand /\ frames \in Seq(Frame) /\ frames' = Append(frames, f)
                BY <3>2 DEF PlaceOK, TypeOK, Frame
            <4> HIDE DEF f
            <4>2. QED
                BY <4>1, BatchesAppend
        <3>3. QED
            BY <1>3, <3>1, <3>2 DEF Send, EncodeFails
    <2>3. Ch!Leave
        BY <2>1, <2>2, HandIsBatch DEF Ch!Leave
    <2>4. QED
        BY <2>3 DEF Ch!Next
<1>4. CASE UNCHANGED <<queue, hand, made, sendings, short>>
    BY <1>4 DEF Ch!vars, Batches, sendings, gone
<1>5. QED
    BY <1>1, <1>2, <1>3, <1>4, MessageSteps

(* The connection implements the channel, for any number of messages,        *)
(* failures and connections, failing allocations included.                   *)
THEOREM ConnectionIsChannel == Spec => ImplementsChannel
<1>1. Init => Ch!Init
    BY DEF Init, Ch!Init, Batches, gone
<1>2. PlaceOK /\ KeptUntilSent /\ Ordered /\ [Next]_vars => [Ch!Next]_(Ch!vars)
    BY ChannelStep
<1>3. QED
    BY <1>1, <1>2, PlaceInvariant, OrderInvariant, MessagesAreKept, PTL DEF Spec, ImplementsChannel, Ch!Spec

-----------------------------------------------------------------------------
(* The function of At that is built up along s. *)
Builds(f, s, places, n) ==
    f = [i \in 0 .. n |->
            IF i = 0 THEN <<>>
            ELSE IF i \in places THEN Append(f[i - 1], s[i]) ELSE f[i - 1]]

LEMMA LeastOf ==
    ASSUME NEW S \in SUBSET Nat, S # {}
    PROVE  \E n \in S : \A m \in S : n <= m
<1> DEFINE Less == OpToRel(<, Nat)
<1>1. PICK n \in S : \A m \in S : ~ (<<m, n>> \in Less)
    BY NatLessThanWellFounded, WFMin
<1>2. \A m \in S : ~ m < n
    BY <1>1 DEF OpToRel
<1>3. n \in S /\ \A m \in S : n <= m
    BY <1>2
<1>4. QED
    BY <1>3

LEMMA SomethingBuilds ==
    ASSUME NEW s, NEW places, NEW n \in Nat
    PROVE  \E f : Builds(f, s, places, n)
<1> DEFINE Bad == {m \in Nat : ~ \E f : Builds(f, s, places, m)}
<1>1. SUFFICES ASSUME Bad # {} PROVE FALSE
    OBVIOUS
<1>2. PICK m \in Bad : \A k \in Bad : m <= k
    BY <1>1, LeastOf
<1>3. CASE m = 0
    <2>1. Builds([i \in 0 .. 0 |-> <<>>], s, places, 0)
        BY DEF Builds
    <2>2. QED
        BY <1>2, <1>3, <2>1
<1>4. CASE m > 0
    <2>1. m - 1 \in Nat /\ m - 1 \notin Bad
        BY <1>2, <1>4
    <2>2. PICK f : Builds(f, s, places, m - 1)
        BY <2>1
    <2> DEFINE g == [i \in 0 .. m |->
                        IF i < m THEN f[i]
                        ELSE IF i \in places THEN Append(f[i - 1], s[i]) ELSE f[i - 1]]
    <2>3. \A i \in 0 .. (m - 1) :
              f[i] = IF i = 0 THEN <<>>
                     ELSE IF i \in places THEN Append(f[i - 1], s[i]) ELSE f[i - 1]
        BY <2>2 DEF Builds
    <2>4. \A i \in 0 .. m :
              g[i] = IF i = 0 THEN <<>>
                     ELSE IF i \in places THEN Append(g[i - 1], s[i]) ELSE g[i - 1]
        BY <2>3, <1>4
    <2>5. Builds(g, s, places, m)
        BY <2>4 DEF Builds
    <2>6. QED
        BY <2>5, <1>2
<1>5. QED
    BY <1>2, <1>3, <1>4

LEMMA AtIs ==
    ASSUME NEW T, NEW s \in Seq(T), NEW places
    PROVE  \E f : Builds(f, s, places, Len(s)) /\ At(s, places) = f[Len(s)]
<1> DEFINE f == CHOOSE f : Builds(f, s, places, Len(s))
<1>1. Builds(f, s, places, Len(s))
    BY SomethingBuilds
<1>2. At(s, places) = f[Len(s)]
    BY DEF At, Builds
<1>3. QED
    BY <1>1, <1>2

Taken(s, places) == {s[i] : i \in places}

(* At keeps what it takes, and with all places it takes everything. *)
LEMMA BuiltUp ==
    ASSUME NEW T, NEW s \in Seq(T), NEW places \in SUBSET (1 .. Len(s)), NEW f,
           Builds(f, s, places, Len(s))
    PROVE  \A n \in 0 .. Len(s) :
               /\ f[n] \in Seq(Taken(s, places))
               /\ places = 1 .. Len(s) => f[n] = [i \in 1 .. n |-> s[i]]
<1> DEFINE S == Taken(s, places)
           Good(n) == f[n] \in Seq(S) /\ (places = 1 .. Len(s) => f[n] = [i \in 1 .. n |-> s[i]])
           Bad == {n \in 0 .. Len(s) : ~ Good(n)}
<1>1. SUFFICES ASSUME Bad # {} PROVE FALSE
    OBVIOUS
<1>2. Len(s) \in Nat
    OBVIOUS
<1>3. \A n \in 0 .. Len(s) :
          f[n] = IF n = 0 THEN <<>>
                 ELSE IF n \in places THEN Append(f[n - 1], s[n]) ELSE f[n - 1]
    BY DEF Builds
<1>4. PICK n \in Bad : \A k \in Bad : n <= k
    <2>1. Bad \in SUBSET Nat
        BY <1>2
    <2>2. QED
        BY <1>1, <2>1, LeastOf
<1>5. CASE n = 0
    <2>1. f[0] = <<>>
        BY <1>3, <1>2
    <2>2. <<>> \in Seq(S) /\ <<>> = [i \in 1 .. 0 |-> s[i]]
        OBVIOUS
    <2>3. QED
        BY <1>4, <1>5, <2>1, <2>2
<1>6. CASE n > 0
    <2> HIDE DEF Good
    <2>1. n - 1 \in 0 .. Len(s) /\ n \in 1 .. Len(s) /\ n - 1 \notin Bad
        BY <1>2, <1>4, <1>6
    <2> USE DEF Good
    <2>2. f[n - 1] \in Seq(S) /\ (places = 1 .. Len(s) => f[n - 1] = [i \in 1 .. (n - 1) |-> s[i]])
        BY <2>1
    <2>3. f[n] = IF n \in places THEN Append(f[n - 1], s[n]) ELSE f[n - 1]
        BY <1>3, <2>1
    <2>4. f[n] \in Seq(S)
        <3>1. CASE n \in places
            <4>1. s[n] \in S
                BY <3>1 DEF Taken
            <4>2. QED
                BY <3>1, <4>1, <2>2, <2>3
        <3>2. QED
            BY <3>1, <2>2, <2>3
    <2>5. ASSUME places = 1 .. Len(s) PROVE f[n] = [i \in 1 .. n |-> s[i]]
        <3> DEFINE g == [i \in 1 .. (n - 1) |-> s[i]]
        <3>1. f[n] = Append(g, s[n])
            BY <2>1, <2>2, <2>3, <2>5
        <3>2. n - 1 \in Nat /\ s[n] \in T /\ \A i \in 1 .. (n - 1) : s[i] \in T
            BY <1>2, <2>1
        <3>3. g \in Seq(T) /\ Len(g) = n - 1
            BY <3>2
        <3>4. Append(g, s[n]) = [i \in 1 .. n |-> s[i]]
            BY <3>2, <3>3, <2>1, <1>2
        <3>5. QED
            BY <3>1, <3>4
    <2>6. QED
        BY <1>4, <2>4, <2>5
<1>7. QED
    BY <1>2, <1>4, <1>5, <1>6

LEMMA AtKeeps ==
    ASSUME NEW T, NEW s \in Seq(T), NEW places \in SUBSET (1 .. Len(s))
    PROVE  /\ At(s, places) \in Seq(Taken(s, places))
           /\ places = 1 .. Len(s) => At(s, places) = s
<1>1. PICK f : Builds(f, s, places, Len(s)) /\ At(s, places) = f[Len(s)]
    BY AtIs
<1>2. Len(s) \in 0 .. Len(s)
    OBVIOUS
<1>3. /\ f[Len(s)] \in Seq(Taken(s, places))
      /\ places = 1 .. Len(s) => f[Len(s)] = [i \in 1 .. Len(s) |-> s[i]]
    BY <1>1, <1>2, BuiltUp
<1>4. s = [i \in 1 .. Len(s) |-> s[i]]
    OBVIOUS
<1>5. QED
    BY <1>1, <1>3, <1>4

-----------------------------------------------------------------------------
(* One message on its way. *)
LEMMA FieldsOfQueued ==
    ASSUME NEW msg \in Queued
    PROVE  /\ msg = [field \in Fields |-> msg[field]]
           /\ msg.type \in Types /\ msg.type # None /\ msg.topic # None
           /\ msg.type \in Publishing <=> msg.value # None
           /\ msg.type \in Publishing => msg.topic \notin Wild
           /\ msg.type = "PUB" => \A field \in Stamps : msg[field] # None
<1>1. CASE \E t \in Pattern \ Wild, v \in Value, from \in Time, to \in Time, mode \in Modes :
              msg = Publication(t, v, from, to, mode)
    <2>1. PICK t \in Pattern \ Wild, v \in Value, from \in Time, to \in Time, mode \in Modes :
              msg = Publication(t, v, from, to, mode)
        BY <1>1
    <2>2. /\ msg.type = "PUB" /\ msg.topic = t /\ msg.value = v
          /\ msg.created_at = from /\ msg.updated_at = to /\ msg.mode = mode
        BY <2>1 DEF Publication, Fresh
    <2>3. msg = [field \in Fields |-> msg[field]]
        BY <2>1 DEF Publication, Fresh, Fields
    <2>4. QED
        BY <2>2, <2>3, NoneIsNothing DEF Types, Publishing, Stamps
<1>2. CASE \E type \in {"GET", "SUB", "UNSUB", "DEL"}, t \in Pattern : msg = Request(type, t)
    <2>1. PICK type \in {"GET", "SUB", "UNSUB", "DEL"}, t \in Pattern : msg = Request(type, t)
        BY <1>2
    <2>2. msg.type = type /\ msg.topic = t /\ msg.value = None
        BY <2>1 DEF Request, Fresh
    <2>3. msg = [field \in Fields |-> msg[field]]
        BY <2>1 DEF Request, Fresh, Fields
    <2>4. QED
        BY <2>2, <2>3, NoneIsNothing DEF Types, Publishing
<1>3. CASE \E t \in Pattern \ Wild, v \in Value : msg = Will(t, v)
    <2>1. PICK t \in Pattern \ Wild, v \in Value : msg = Will(t, v)
        BY <1>3
    <2>2. msg.type = "LWT" /\ msg.topic = t /\ msg.value = v
        BY <2>1 DEF Will, Fresh
    <2>3. msg = [field \in Fields |-> msg[field]]
        BY <2>1 DEF Will, Fresh, Fields
    <2>4. QED
        BY <2>2, <2>3, NoneIsNothing DEF Types, Publishing
<1>4. QED
    BY <1>1, <1>2, <1>3 DEF Queued

LEMMA LoadedIs ==
    ASSUME NEW msg \in Queued
    PROVE  /\ Loads(Encode(msg)) =
                  [field \in Fields |-> IF field \in Stamps /\ msg.type # "PUB" THEN None ELSE msg[field]]
           /\ SameMessage(msg, Loads(Encode(msg)))
           /\ IsValid(Loads(Encode(msg)))
<1> DEFINE wire == Encode(msg)
           loaded == Loads(wire)
<1>1. /\ DOMAIN wire = {field \in Fields : Sent(msg, field)}
      /\ \A field \in DOMAIN wire : wire[field] = msg[field]
    BY DEF Encode, Restrict
<1>2. loaded = [field \in Fields |-> IF field \in Stamps /\ msg.type # "PUB" THEN None ELSE msg[field]]
    BY <1>1, FieldsOfQueued DEF Loads, Sent
<1>3. SameMessage(msg, loaded)
    BY <1>2 DEF SameMessage
<1>4. /\ loaded.type = msg.type /\ loaded.topic = msg.topic /\ loaded.value = msg.value
      /\ loaded.type = "PUB" => \A field \in Stamps : loaded[field] = msg[field]
    BY <1>2 DEF Fields, Stamps
<1>5. IsValid(loaded)
    BY <1>4, FieldsOfQueued DEF IsValid
<1>6. QED
    BY <1>2, <1>3, <1>5

(* What the server has of a publication or deletion is decoded as it is.     *)
LEMMA PassedIsDecoded ==
    ASSUME NEW msg \in Queued, msg.type \in {"PUB", "DEL"}
    PROVE  LET loaded == Loads(Encode(msg))
               wire == Dumps(loaded)
           IN  Accepted(wire) /\ SameMessage(loaded, DecodedMessage(wire))
<1> DEFINE loaded == Loads(Encode(msg))
           wire == Dumps(loaded)
<1>1. loaded = [field \in Fields |-> IF field \in Stamps /\ msg.type # "PUB" THEN None ELSE msg[field]]
    BY LoadedIs
<1>2. /\ loaded.type = msg.type /\ loaded.topic = msg.topic /\ loaded.value = msg.value
      /\ loaded.type = "PUB" => \A field \in Stamps : loaded[field] = msg[field]
    BY <1>1 DEF Fields, Stamps
<1>3. /\ DOMAIN wire = {field \in Fields : loaded[field] # None}
      /\ \A field \in DOMAIN wire : wire[field] = loaded[field]
    BY DEF Dumps, Restrict
<1>4. "type" \in DOMAIN wire /\ "topic" \in DOMAIN wire
    BY <1>2, <1>3, FieldsOfQueued DEF Fields
<1>5. wire.type = "PUB" => Stamps \subseteq DOMAIN wire
    BY <1>2, <1>3, <1>4, FieldsOfQueued DEF Fields, Stamps
<1>6. Required(wire) \subseteq DOMAIN wire
    BY <1>4, <1>5 DEF Required
<1>7. ASSUME NEW field \in Fields, field \notin Stamps \/ loaded.type = "PUB"
      PROVE  loaded[field] = DecodedMessage(wire)[field]
    <2>1. CASE field \in DOMAIN wire
        BY <2>1, <1>3 DEF DecodedMessage
    <2>2. CASE field \notin DOMAIN wire
        <3>1. field = "value"
            BY <2>2, <1>4, <1>5, <1>3, <1>7 DEF Fields, Stamps
        <3>2. loaded[field] = None
            BY <2>2, <1>3
        <3>3. DecodedMessage(wire)[field] = None
            BY <2>2, <3>1 DEF DecodedMessage, Default, Fields
        <3>4. QED
            BY <3>2, <3>3
    <2>3. QED
        BY <2>1, <2>2
<1>8. SameMessage(loaded, DecodedMessage(wire))
    BY <1>7 DEF SameMessage
<1>9. QED
    BY <1>6, <1>8 DEF Accepted

-----------------------------------------------------------------------------
FrameType == frame \in Seq(Queued)

LEMMA FrameOK == WireSpec => []FrameType
<1>1. WireInit => FrameType
    BY DEF WireInit, FrameType
<1>2. FrameType /\ [WireNext]_frame => FrameType'
    BY DEF WireNext, Enqueue, FrameType
<1>3. QED
    BY <1>1, <1>2, PTL DEF WireSpec

LEMMA FrameIsUnderstood ==
    ASSUME FrameType
    PROVE  BothUnderstand
<1> DEFINE msgs == [i \in DOMAIN frame |-> Loads(Encode(frame[i]))]
           T == {Loads(Encode(msg)) : msg \in Queued}
           passed == {i \in DOMAIN msgs : msgs[i].type \in {"PUB", "DEL"}}
           P == {Loads(Encode(msg)) : msg \in {m \in Queued : m.type \in {"PUB", "DEL"}}}
           wires == [i \in DOMAIN Passed |-> Dumps(Passed[i])]
<1>1. /\ DOMAIN frame = 1 .. Len(frame) /\ Len(frame) \in Nat
      /\ \A i \in 1 .. Len(frame) : frame[i] \in Queued
    BY DEF FrameType
<1>2. /\ msgs \in Seq(T) /\ Len(msgs) = Len(frame) /\ DOMAIN msgs = 1 .. Len(msgs)
      /\ \A i \in 1 .. Len(frame) : msgs[i] = Loads(Encode(frame[i]))
    BY <1>1
<1>3. AtServer = msgs
    <2> DEFINE e == [i \in DOMAIN frame |-> Encode(frame[i])]
    <2>1. [i \in DOMAIN e |-> Loads(e[i])] = msgs
        OBVIOUS
    <2>2. {i \in DOMAIN msgs : IsValid(msgs[i])} = 1 .. Len(msgs)
        BY <1>1, <1>2, LoadedIs
    <2>3. AtServer = At(msgs, 1 .. Len(msgs))
        BY <2>1, <2>2 DEF AtServer, ServerRecv
    <2> HIDE DEF msgs, T
    <2>4. QED
        BY <1>2, <2>3, AtKeeps
<1>4. SameAll(frame, AtServer)
    BY <1>1, <1>2, <1>3, LoadedIs DEF SameAll
<1>5. Passed \in Seq(P)
    <2>1. Passed = At(msgs, passed)
        BY <1>3 DEF Passed
    <2>2. passed \in SUBSET (1 .. Len(msgs))
        BY <1>2
    <2>3. Taken(msgs, passed) \subseteq P
        <3>1. ASSUME NEW i \in passed PROVE msgs[i] \in P
            <4>1. i \in 1 .. Len(frame) /\ msgs[i] = Loads(Encode(frame[i])) /\ msgs[i].type \in {"PUB", "DEL"}
                BY <1>1, <1>2
            <4>2. frame[i] \in Queued /\ msgs[i].type = frame[i].type
                BY <4>1, <1>1, LoadedIs DEF Fields, Stamps
            <4>3. QED
                BY <4>1, <4>2
        <3>2. QED
            BY <3>1 DEF Taken
    <2> HIDE DEF msgs, T, passed, P
    <2>4. Passed \in Seq(Taken(msgs, passed))
        BY <1>2, <2>1, <2>2, AtKeeps
    <2>5. QED
        BY <2>3, <2>4
<1>6. /\ DOMAIN Passed = 1 .. Len(Passed) /\ Len(Passed) \in Nat
      /\ \A i \in 1 .. Len(Passed) : Passed[i] \in P
    BY <1>5
<1>7. \A i \in 1 .. Len(Passed) :
          /\ Accepted(Dumps(Passed[i]))
          /\ SameMessage(Passed[i], DecodedMessage(Dumps(Passed[i])))
    BY <1>6, PassedIsDecoded
<1>8. /\ Decode(wires).msgs = [i \in 1 .. Len(Passed) |-> DecodedMessage(Dumps(Passed[i]))]
      /\ Decode(wires).freed = [i \in 1 .. Len(Passed) |-> 0]
    BY <1>6, <1>7 DEF Decode
<1>9. SameAll(Passed, Decode(wires).msgs)
    <2>1. Len(Decode(wires).msgs) = Len(Passed)
        BY <1>6, <1>8
    <2>2. QED
        BY <2>1, <1>6, <1>7, <1>8 DEF SameAll
<1>10. \A i \in DOMAIN Decode(wires).freed : Decode(wires).freed[i] <= 1
    BY <1>6, <1>8
<1>11. QED
    BY <1>4, <1>9, <1>10 DEF BothUnderstand

(* Whatever the agent queues, the server understands, and what the server    *)
(* passes on the next agent understands (conn_msg.c, conn_pb_msg.c,          *)
(* proto/model.py): for frames of any length, any patterns, values and times. *)
THEOREM EverythingIsUnderstood == WireSpec => []BothUnderstand
<1>1. FrameType => BothUnderstand
    BY FrameIsUnderstood
<1>2. QED
    BY <1>1, FrameOK, PTL

-----------------------------------------------------------------------------
(* PbStream: lists of any number of messages of any length, in any pieces.   *)
LEMMA GreatestOf ==
    ASSUME NEW m \in Nat, NEW S \in SUBSET (0 .. m), S # {}
    PROVE  Max(S) \in S /\ \A n \in S : n <= Max(S)
<1> DEFINE Below == {m - n : n \in S}
<1>1. Below \in SUBSET Nat /\ Below # {}
    <2>1. \A n \in S : m - n \in Nat
        OBVIOUS
    <2>2. QED
        BY <2>1
<1>2. PICK d \in Below : \A e \in Below : d <= e
    BY <1>1, LeastOf
<1>3. PICK n \in S : d = m - n
    OBVIOUS
<1>4. \A k \in S : k <= n
    BY <1>2, <1>3
<1>5. n \in S /\ \A k \in S : n >= k
    BY <1>4
<1>6. QED
    BY <1>5 DEF Max

(* The function by which FlattenSeq concatenates the first n sequences. *)
Flattens(f, seqs, n) ==
    f = [i \in 1 .. n |-> IF i = 1 THEN seqs[i] ELSE f[i - 1] \o seqs[i]]

LEMMA SomethingFlattens ==
    ASSUME NEW seqs, NEW n \in Nat
    PROVE  \E f : Flattens(f, seqs, n)
<1> DEFINE Bad == {m \in Nat : ~ \E f : Flattens(f, seqs, m)}
<1>1. SUFFICES ASSUME Bad # {} PROVE FALSE
    OBVIOUS
<1>2. PICK m \in Bad : \A k \in Bad : m <= k
    BY <1>1, LeastOf
<1>3. CASE m = 0
    <2>1. Flattens([i \in 1 .. 0 |-> seqs], seqs, 0)
        BY DEF Flattens
    <2>2. QED
        BY <1>2, <1>3, <2>1
<1>4. CASE m > 0
    <2>1. m - 1 \in Nat /\ m - 1 \notin Bad
        BY <1>2, <1>4
    <2>2. PICK f : Flattens(f, seqs, m - 1)
        BY <2>1
    <2> DEFINE g == [i \in 1 .. m |->
                        IF i < m THEN f[i] ELSE IF i = 1 THEN seqs[i] ELSE f[i - 1] \o seqs[i]]
    <2>3. \A i \in 1 .. (m - 1) : f[i] = IF i = 1 THEN seqs[i] ELSE f[i - 1] \o seqs[i]
        BY <2>2 DEF Flattens
    <2>4. \A i \in 1 .. m : g[i] = IF i = 1 THEN seqs[i] ELSE g[i - 1] \o seqs[i]
        BY <2>3, <1>4
    <2>5. Flattens(g, seqs, m)
        BY <2>4 DEF Flattens
    <2>6. QED
        BY <2>5, <1>2
<1>5. QED
    BY <1>2, <1>3, <1>4

LEMMA FlattenSeqIs ==
    ASSUME NEW T, NEW seqs \in Seq(T), seqs # <<>>
    PROVE  \E f : Flattens(f, seqs, Len(seqs)) /\ FlattenSeq(seqs) = f[Len(seqs)]
<1> DEFINE f == CHOOSE f : Flattens(f, seqs, Len(seqs))
<1>2. Len(seqs) # 0 /\ Len(seqs) \in Nat
    OBVIOUS
<1>1. Flattens(f, seqs, Len(seqs))
    BY <1>2, SomethingFlattens
<1>3. FlattenSeq(seqs) = f[Len(seqs)]
    BY <1>2 DEF FlattenSeq, Flattens
<1>4. QED
    BY <1>1, <1>3

LEMMA PayloadIs ==
    ASSUME NEW msgs \in Lists
    PROVE  Payload(msgs) \in Seq(Nat)
<1> DEFINE seqs == [i \in DOMAIN msgs |-> <<Len(msgs[i])>> \o msgs[i]]
<1>1. /\ msgs \in Seq(Seq(Nat)) /\ Len(msgs) \in Nat /\ DOMAIN msgs = 1 .. Len(msgs)
      /\ \A j \in 1 .. Len(msgs) : msgs[j] \in Seq(Nat) /\ Len(msgs[j]) \in Nat
    <2>1. msgs \in Seq(Seq(Nat) \ {<<>>})
        BY MessagesHaveOctets
    <2>2. msgs \in Seq(Seq(Nat)) /\ \A j \in 1 .. Len(msgs) : msgs[j] \in Seq(Nat)
        BY <2>1
    <2>3. QED
        BY <2>2
<1>2. \A j \in 1 .. Len(msgs) : <<Len(msgs[j])>> \o msgs[j] \in Seq(Nat)
    BY <1>1
<1>3. seqs \in Seq(Seq(Nat)) /\ \A j \in 1 .. Len(seqs) : seqs[j] \in Seq(Nat)
    BY <1>1, <1>2
<1>4. Payload(msgs) = FlattenSeq(seqs)
    BY DEF Payload
<1> HIDE DEF seqs
<1>5. CASE seqs = <<>>
    <2>1. FlattenSeq(seqs) = <<>>
        BY <1>5 DEF FlattenSeq
    <2>2. QED
        BY <1>4, <2>1
<1>6. CASE seqs # <<>>
    <2>1. PICK f : Flattens(f, seqs, Len(seqs)) /\ FlattenSeq(seqs) = f[Len(seqs)]
        BY <1>3, <1>6, FlattenSeqIs
    <2>2. Len(seqs) \in Nat /\ Len(seqs) \in 1 .. Len(seqs)
        BY <1>3, <1>6
    <2>3. \A j \in 1 .. Len(seqs) : f[j] = IF j = 1 THEN seqs[j] ELSE f[j - 1] \o seqs[j]
        BY <2>1 DEF Flattens
    <2> DEFINE Bad == {j \in 1 .. Len(seqs) : f[j] \notin Seq(Nat)}
    <2>4. SUFFICES ASSUME Bad # {} PROVE FALSE
        BY <1>4, <2>1, <2>2
    <2>5. Bad \in SUBSET Nat
        BY <2>2
    <2>6. PICK j \in Bad : \A k \in Bad : j <= k
        BY <2>4, <2>5, LeastOf
    <2>7. j \in 1 .. Len(seqs) /\ seqs[j] \in Seq(Nat) /\ f[j] \notin Seq(Nat)
        BY <2>6, <1>3
    <2>8. j # 1
        BY <2>3, <2>7
    <2>9. j - 1 \in 1 .. Len(seqs) /\ ~ j <= j - 1
        BY <2>2, <2>7, <2>8
    <2>10. f[j - 1] \in Seq(Nat)
        BY <2>6, <2>9
    <2>11. f[j - 1] \o seqs[j] \in Seq(Nat)
        BY <2>7, <2>10
    <2>12. QED
        BY <2>3, <2>7, <2>8, <2>11
<1>7. QED
    BY <1>5, <1>6

Unit == [kind : {"header", "octet"}, value : Nat, left : Nat, frame : Nat]

(* What follows what on the way: a header the last octet of a frame, and an  *)
(* octet another or the header of its frame.                                 *)
Follows(a, b) == IF IsHeader(b) THEN a.left = 0 ELSE a.left # 0 /\ a.frame = b.frame
Flow(s) ==
    \A i \in 1 .. Len(s) : IF i = Len(s) THEN s[i].left = 0 ELSE Follows(s[i], s[i + 1])

LEMMA UnitsFlow ==
    ASSUME NEW msgs \in Lists, NEW k \in Nat
    PROVE  LET s == Units(k, msgs)
           IN  s \in Seq(Unit) /\ s # <<>> /\ IsHeader(s[1]) /\ Flow(s)
<1> DEFINE p == Payload(msgs)
           n == Len(p)
           h == [kind |-> "header", value |-> 0, left |-> n, frame |-> k]
           t == [i \in DOMAIN p |-> [kind |-> "octet", value |-> p[i], left |-> n - i, frame |-> k]]
           s == <<h>> \o t
<1>1. p \in Seq(Nat)
    BY PayloadIs
<1> HIDE DEF p
<1>2. n \in Nat /\ DOMAIN p = 1 .. n /\ \A i \in 1 .. n : p[i] \in Nat
    BY <1>1
<1>3. h \in Unit /\ <<h>> \in Seq(Unit)
    BY <1>2 DEF Unit
<1>4. \A i \in 1 .. n : t[i] \in Unit
    BY <1>2 DEF Unit
<1>5. t \in Seq(Unit) /\ Len(t) = n
    BY <1>2, <1>4
<1>6. Units(k, msgs) = s
    BY DEF Units, p
<1>7. \A i \in 1 .. n : t[i].kind = "octet" /\ t[i].left = n - i /\ t[i].frame = k
    BY <1>2
<1>8. h.kind = "header" /\ h.left = n /\ h.frame = k
    OBVIOUS
<1> HIDE DEF h, t
<1>9. /\ s \in Seq(Unit) /\ Len(s) = n + 1 /\ s[1] = h
      /\ \A o \in 1 .. n : s[o + 1] = t[o]
    BY <1>2, <1>3, <1>5
<1> HIDE DEF s
<1>10. \A i \in 1 .. (n + 1) : s[i].left = (n + 1) - i /\ s[i].frame = k /\ (i # 1 => s[i].kind = "octet")
    <2>1. TAKE i \in 1 .. (n + 1)
    <2>2. CASE i = 1
        BY <2>2, <1>2, <1>8, <1>9
    <2>3. CASE i # 1
        <3>1. i - 1 \in 1 .. n /\ i - 1 + 1 = i /\ n - (i - 1) = (n + 1) - i
            BY <2>3, <1>2
        <3>2. s[i] = t[i - 1]
            BY <3>1, <1>9
        <3>3. QED
            BY <3>1, <3>2, <1>7
    <2>4. QED
        BY <2>2, <2>3
<1>11. ASSUME NEW i \in 1 .. Len(s)
       PROVE  IF i = Len(s) THEN s[i].left = 0 ELSE Follows(s[i], s[i + 1])
    <2>1. i \in 1 .. (n + 1) /\ Len(s) = n + 1 /\ s[i].left = (n + 1) - i /\ s[i].frame = k
        BY <1>9, <1>10
    <2>2. CASE i = n + 1
        BY <2>1, <2>2, <1>2
    <2>3. CASE i # n + 1
        <3>1. i + 1 \in 1 .. (n + 1) /\ i + 1 # 1 /\ (n + 1) - i # 0
            BY <2>1, <2>3, <1>2
        <3>2. s[i + 1].frame = k /\ s[i + 1].kind = "octet"
            BY <3>1, <1>10
        <3>3. QED
            BY <2>1, <2>3, <3>1, <3>2 DEF Follows, IsHeader
    <2>4. QED
        BY <2>2, <2>3
<1>12. Flow(s)
    BY <1>11 DEF Flow
<1>13. IsHeader(s[1]) /\ s # <<>>
    BY <1>2, <1>8, <1>9 DEF IsHeader
<1>14. QED
    BY <1>6, <1>9, <1>12, <1>13

(* A flow is one wherever its reading has come to, and it goes on with the   *)
(* frames that are sent.                                                     *)
LEMMA FlowOn ==
    ASSUME NEW s \in Seq(Unit), Flow(s), NEW n \in 0 .. Len(s)
    PROVE  LET r == SubSeq(s, n + 1, Len(s))
           IN  /\ r \in Seq(Unit) /\ Flow(r) /\ Len(r) = Len(s) - n
               /\ n < Len(s) => r # <<>> /\ r[1] = s[n + 1]
<1> DEFINE r == SubSeq(s, n + 1, Len(s))
<1>1. /\ Len(s) \in Nat /\ n \in Nat /\ n <= Len(s) /\ r \in Seq(Unit) /\ Len(r) = Len(s) - n
      /\ \A i \in 1 .. (Len(s) - n) : r[i] = s[i + n]
    OBVIOUS
<1> HIDE DEF r
<1>2. ASSUME NEW i \in 1 .. Len(r)
      PROVE  IF i = Len(r) THEN r[i].left = 0 ELSE Follows(r[i], r[i + 1])
    <2>1. i \in 1 .. (Len(s) - n) /\ i + n \in 1 .. Len(s) /\ (i = Len(r) <=> i + n = Len(s))
        BY <1>1
    <2>2. r[i] = s[i + n] /\ IF i + n = Len(s) THEN s[i + n].left = 0 ELSE Follows(s[i + n], s[i + n + 1])
        BY <2>1, <1>1 DEF Flow
    <2>3. CASE i = Len(r)
        BY <2>1, <2>2, <2>3
    <2>4. CASE i # Len(r)
        <3>1. i + 1 \in 1 .. (Len(s) - n) /\ i + 1 + n = i + n + 1
            BY <2>1, <2>4, <1>1
        <3>2. r[i + 1] = s[i + n + 1]
            BY <3>1, <1>1
        <3>3. QED
            BY <2>1, <2>2, <2>4, <3>2
    <2>5. QED
        BY <2>3, <2>4
<1>3. Flow(r)
    BY <1>2 DEF Flow
<1>4. ASSUME n < Len(s) PROVE r # <<>> /\ r[1] = s[n + 1]
    <2>1. 1 \in 1 .. (Len(s) - n) /\ 1 + n = n + 1 /\ Len(r) # 0
        BY <1>1, <1>4
    <2>2. QED
        BY <2>1, <1>1
<1>5. QED
    BY <1>1, <1>3, <1>4 DEF r

LEMMA FlowJoins ==
    ASSUME NEW s \in Seq(Unit), NEW t \in Seq(Unit), Flow(s), Flow(t), t # <<>>, IsHeader(t[1])
    PROVE  Flow(s \o t)
<1> DEFINE u == s \o t
           m == Len(s)
<1>1. /\ m \in Nat /\ Len(t) \in Nat /\ Len(t) >= 1 /\ Len(u) = m + Len(t)
      /\ \A i \in 1 .. m : u[i] = s[i]
      /\ \A i \in 1 .. Len(t) : u[m + i] = t[i]
    OBVIOUS
<1> HIDE DEF u
<1>2. ASSUME NEW i \in 1 .. Len(u)
      PROVE  IF i = Len(u) THEN u[i].left = 0 ELSE Follows(u[i], u[i + 1])
    <2>1. CASE i < m
        <3>1. i \in 1 .. m /\ i + 1 \in 1 .. m /\ i # m /\ i # Len(u)
            BY <2>1, <1>1
        <3>2. u[i] = s[i] /\ u[i + 1] = s[i + 1] /\ Follows(s[i], s[i + 1])
            BY <3>1, <1>1 DEF Flow
        <3>3. QED
            BY <3>1, <3>2
    <2>2. CASE i = m
        <3>1. i \in 1 .. m /\ 1 \in 1 .. Len(t) /\ i # Len(u)
            BY <2>2, <1>1
        <3>2. u[i] = s[i] /\ s[i].left = 0
            BY <3>1, <2>2, <1>1 DEF Flow
        <3>3. u[i + 1] = t[1]
            BY <3>1, <2>2, <1>1
        <3>4. QED
            BY <3>1, <3>2, <3>3 DEF Follows
    <2>3. CASE i > m
        <3> DEFINE j == i - m
        <3>4. i \in Nat /\ i <= Len(u) /\ j \in Nat /\ j >= 1 /\ m + j = i
            BY <2>3, <1>1
        <3>5. j <= Len(t) /\ (i = Len(u) <=> j = Len(t)) /\ m + (j + 1) = i + 1
            BY <3>4, <1>1
        <3>6. j # Len(t) => j + 1 \in 1 .. Len(t)
            BY <3>4, <3>5, <1>1
        <3>1. /\ j \in 1 .. Len(t) /\ m + j = i /\ (i = Len(u) <=> j = Len(t))
              /\ (j # Len(t) => j + 1 \in 1 .. Len(t) /\ m + (j + 1) = i + 1)
            BY <3>4, <3>5, <3>6, <1>1
        <3> HIDE DEF j
        <3>2. u[i] = t[j] /\ IF j = Len(t) THEN t[j].left = 0 ELSE Follows(t[j], t[j + 1])
            BY <3>1, <1>1 DEF Flow
        <3>3. j # Len(t) => u[i + 1] = t[j + 1]
            BY <3>1, <1>1
        <3>7. QED
            BY <3>1, <3>2, <3>3
    <2>4. QED
        BY <2>1, <2>2, <2>3, <1>1
<1>3. QED
    BY <1>2 DEF Flow, u

(* Octets without a header between them belong to one frame.                 *)
LEMMA OneFrame ==
    ASSUME NEW s \in Seq(Unit), Flow(s), NEW n \in 1 .. Len(s), \A i \in 1 .. n : ~ IsHeader(s[i])
    PROVE  \A i \in 1 .. n : s[i].frame = s[1].frame
<1> DEFINE Bad == {i \in 1 .. n : s[i].frame # s[1].frame}
<1>1. SUFFICES ASSUME Bad # {} PROVE FALSE
    OBVIOUS
<1>2. Len(s) \in Nat /\ n \in Nat /\ n <= Len(s) /\ Bad \in SUBSET Nat
    OBVIOUS
<1>3. PICK i \in Bad : \A j \in Bad : i <= j
    BY <1>1, <1>2, LeastOf
<1>4. i \in 1 .. n /\ i # 1 /\ s[i].frame # s[1].frame
    BY <1>3
<1>5. i - 1 \in 1 .. n /\ i - 1 \in 1 .. Len(s) /\ i - 1 # Len(s) /\ i - 1 + 1 = i /\ ~ i <= i - 1
    BY <1>2, <1>4
<1>6. s[i - 1].frame = s[1].frame
    BY <1>3, <1>5
<1>7. Follows(s[i - 1], s[i])
    BY <1>5 DEF Flow
<1>8. ~ IsHeader(s[i])
    BY <1>4
<1>9. QED
    BY <1>4, <1>6, <1>7, <1>8 DEF Follows

LEMMA ReadFromFront ==
    ASSUME NEW T, NEW a \in Seq(T), NEW b \in Seq(T), NEW n \in 0 .. Len(a)
    PROVE  SubSeq(a, n + 1, Len(a)) \o b = SubSeq(a \o b, n + 1, Len(a \o b))
<1> DEFINE l == SubSeq(a, n + 1, Len(a))
           ab == a \o b
           r == SubSeq(ab, n + 1, Len(ab))
<1>1. /\ Len(a) \in Nat /\ Len(b) \in Nat /\ ab \in Seq(T) /\ Len(ab) = Len(a) + Len(b) /\ n \in Nat /\ n <= Len(a)
      /\ l \in Seq(T) /\ Len(l) = Len(a) - n /\ \A i \in 1 .. (Len(a) - n) : l[i] = a[i + n]
    OBVIOUS
<1>2. \A i \in 1 .. (Len(a) + Len(b)) : ab[i] = IF i <= Len(a) THEN a[i] ELSE b[i - Len(a)]
    OBVIOUS
<1> HIDE DEF l, ab
<1>3. r \in Seq(T) /\ Len(r) = Len(ab) - n /\ \A i \in 1 .. (Len(ab) - n) : r[i] = ab[i + n]
    BY <1>1
<1>4. l \o b \in Seq(T) /\ Len(l \o b) = Len(ab) - n
    <2>1. l \o b \in Seq(T) /\ Len(l \o b) = Len(l) + Len(b)
        <3>1. l \in Seq(T)
            BY <1>1
        <3>2. QED
            BY <3>1, ConcatProperties
    <2>2. Len(l) + Len(b) = Len(ab) - n
        BY <1>1
    <2>3. QED
        BY <2>1, <2>2
<1> HIDE DEF r
<1>5. ASSUME NEW i \in 1 .. (Len(ab) - n) PROVE (l \o b)[i] = r[i]
    <2>1. (l \o b)[i] = IF i <= Len(l) THEN l[i] ELSE b[i - Len(l)]
        BY <1>1
    <2>2. i + n \in 1 .. (Len(a) + Len(b)) /\ r[i] = ab[i + n]
        BY <1>1, <1>3
    <2>3. CASE i <= Len(a) - n
        <3>1. i \in 1 .. (Len(a) - n) /\ i + n <= Len(a) /\ i <= Len(l)
            BY <2>3, <1>1
        <3>2. QED
            BY <2>1, <2>2, <3>1, <1>1, <1>2
    <2>4. CASE i > Len(a) - n
        <3>1. ~ i + n <= Len(a) /\ ~ i <= Len(l) /\ (i + n) - Len(a) = i - Len(l)
            BY <2>4, <1>1
        <3>2. QED
            BY <2>1, <2>2, <3>1, <1>2
    <2>5. QED
        BY <2>3, <2>4, <1>1
<1>6. l \o b = r
    BY <1>3, <1>4, <1>5, SeqEqual
<1>7. QED
    BY <1>6 DEF l, r, ab

LEMMA ConcatAssociates ==
    ASSUME NEW T, NEW a \in Seq(T), NEW b \in Seq(T), NEW c \in Seq(T)
    PROVE  a \o (b \o c) = (a \o b) \o c
OBVIOUS

LEMMA ArrivedInOrder ==
    ASSUME NEW T, NEW a \in Seq(T), NEW b \in Seq(T), NEW n \in 1 .. Len(b)
    PROVE  (a \o SubSeq(b, 1, n)) \o SubSeq(b, n + 1, Len(b)) = a \o b
<1> DEFINE c == SubSeq(b, 1, n)
           d == SubSeq(b, n + 1, Len(b))
<1>1. 1 \in 1 .. (Len(b) + 1) /\ n \in 0 .. Len(b) /\ Len(b) \in n .. Len(b)
    OBVIOUS
<1>2. c \o d = b
    BY <1>1, ConcatAdjacentSubSeq, SubSeqFull
<1>3. c \in Seq(T) /\ d \in Seq(T)
    OBVIOUS
<1> HIDE DEF c, d
<1>4. (a \o c) \o d = a \o (c \o d)
    BY <1>3, ConcatAssociates
<1>5. QED
    BY <1>2, <1>4 DEF c, d

LEMMA TheLesser ==
    ASSUME NEW x \in Nat, NEW y \in Nat
    PROVE  Min({x, y}) \in Nat /\ Min({x, y}) <= x /\ Min({x, y}) <= y /\ (Min({x, y}) = x \/ Min({x, y}) = y)
<1>1. \E m \in {x, y} : \A n \in {x, y} : m <= n
    OBVIOUS
<1>2. Min({x, y}) \in {x, y} /\ \A n \in {x, y} : Min({x, y}) <= n
    BY <1>1 DEF Min
<1>3. QED
    BY <1>2
LEMMA WrittenIs ==
    ASSUME buf \in Seq(Nat), NEW piece \in Seq(Nat)
    PROVE  /\ Written(piece) \in Seq(Nat) /\ Len(Written(piece)) >= Len(piece)
           /\ \A i \in 1 .. Len(piece) : Written(piece)[i] = piece[i]
<1> DEFINE tail == SubSeq(buf, Len(piece) + 1, Len(buf))
<1>1. tail \in Seq(Nat)
    OBVIOUS
<1> HIDE DEF tail
<1>2. /\ piece \o tail \in Seq(Nat) /\ Len(piece \o tail) >= Len(piece)
      /\ \A i \in 1 .. Len(piece) : (piece \o tail)[i] = piece[i]
    BY <1>1
<1>3. QED
    BY <1>2 DEF Written, tail

-----------------------------------------------------------------------------
(* What was sent and has not been read, wherever it is. *)
Rest == inbox \o net

StreamType ==
    /\ sent \in Seq(Lists) /\ net \in Seq(Unit) /\ inbox \in Seq(Unit)
    /\ at \in {"send", "recv", "read"} /\ wanted \in {"length", "body"}
    /\ size \in Nat /\ count \in Nat /\ size >= 1 /\ count >= 1 /\ buf \in Seq(Nat)

(* Octets were taken of one frame, more of it follow while it is read, and a *)
(* frame is left unread only where its decode has failed.                    *)
StreamInv ==
    /\ StreamType
    /\ Flow(Rest)
    /\ \A m, n \in took : m = n
    /\ at = "read" /\ took # {} => Rest # <<>> /\ ~ IsHeader(Rest[1]) /\ Rest[1].frame \in took
    /\ at # "read" /\ Rest # <<>> => IsHeader(Rest[1]) \/ Rest[1].frame \in bad

LEMMA StreamStarts == StreamInit => StreamInv
<1>1. SUFFICES ASSUME StreamInit PROVE StreamInv
    OBVIOUS
<1>2. StreamType
    BY <1>1 DEF StreamInit, StreamType
<1>3. Rest = <<>> /\ Len(Rest) = 0 /\ took = {} /\ at = "send"
    BY <1>1 DEF StreamInit, Rest
<1>4. QED
    BY <1>2, <1>3 DEF StreamInv, Flow

LEMMA SendingKeepsApart ==
    ASSUME StreamInv, NEW msgs \in Lists, ServerSend(msgs)
    PROVE  StreamInv'
<1> DEFINE new == Units(Len(sent'), msgs)
<1>1. /\ sent' = Append(sent, msgs) /\ net' = net \o new
      /\ inbox' = inbox /\ at' = at /\ wanted' = wanted /\ size' = size /\ count' = count /\ buf' = buf
      /\ took' = took /\ bad' = bad
    BY DEF ServerSend, decoder
<1>2. /\ StreamType
      /\ sent \in Seq(Lists) /\ inbox \in Seq(Unit) /\ net \in Seq(Unit)
    BY DEF StreamInv, StreamType
<1>3. sent' \in Seq(Lists) /\ Len(sent') \in Nat
    BY <1>1, <1>2
<1>4. new \in Seq(Unit) /\ new # <<>> /\ IsHeader(new[1]) /\ Flow(new)
    BY <1>3, UnitsFlow
<1> HIDE DEF new
<1>5. StreamType'
    <2>1. net' \in Seq(Unit)
        BY <1>1, <1>2, <1>4
    <2>2. QED
        BY <1>1, <1>2, <1>3, <2>1 DEF StreamType
<1>6. Rest \in Seq(Unit) /\ Rest' = Rest \o new
    <2>1. Rest' = inbox \o (net \o new)
        BY <1>1 DEF Rest
    <2>2. inbox \o (net \o new) = (inbox \o net) \o new
        BY <1>2, <1>4, ConcatAssociates
    <2>3. QED
        BY <2>1, <2>2, <1>2 DEF Rest
<1>7. Flow(Rest')
    BY <1>4, <1>6, FlowJoins DEF StreamInv
<1>8. Rest' # <<>> /\ Rest'[1] = IF Rest = <<>> THEN new[1] ELSE Rest[1]
    BY <1>4, <1>6
<1>9. Flow(Rest)'
    BY <1>7 DEF Flow, Follows, IsHeader
<1>10. QED
    BY <1>1, <1>4, <1>5, <1>8, <1>9 DEF StreamInv, IsHeader

LEMMA ArrivingKeepsApart ==
    ASSUME StreamInv, NEW n \in 1 .. Len(net), Arrive(n)
    PROVE  StreamInv'
<1>1. /\ inbox' = inbox \o SubSeq(net, 1, n) /\ net' = SubSeq(net, n + 1, Len(net))
      /\ sent' = sent /\ at' = at /\ wanted' = wanted /\ size' = size /\ count' = count /\ buf' = buf
      /\ took' = took /\ bad' = bad
    BY DEF Arrive, decoder
<1>2. StreamType /\ inbox \in Seq(Unit) /\ net \in Seq(Unit)
    BY DEF StreamInv, StreamType
<1>3. SubSeq(net, 1, n) \in Seq(Unit) /\ SubSeq(net, n + 1, Len(net)) \in Seq(Unit)
    BY <1>2
<1>4. inbox' \in Seq(Unit) /\ net' \in Seq(Unit)
    BY <1>1, <1>2, <1>3
<1>5. StreamType'
    BY <1>1, <1>2, <1>4 DEF StreamType
<1>6. Rest' = Rest
    BY <1>1, <1>2, ArrivedInOrder DEF Rest
<1>7. Flow(Rest)'
    BY <1>6 DEF Flow, Follows, IsHeader, StreamInv
<1>8. QED
    BY <1>1, <1>5, <1>6, <1>7 DEF StreamInv, IsHeader

LEMMA IdlingKeepsApart ==
    ASSUME StreamInv, WsSend \/ RecvNothing
    PROVE  StreamInv'
<1>1. /\ sent' = sent /\ net' = net /\ inbox' = inbox /\ wanted' = wanted /\ size' = size /\ count' = count
      /\ buf' = buf /\ took' = took /\ bad' = bad
      /\ at \in {"send", "recv"} /\ at' \in {"send", "recv"}
    BY DEF WsSend, RecvNothing, decoder
<1>2. StreamType'
    BY <1>1 DEF StreamType, StreamInv
<1>3. Rest' = Rest
    BY <1>1 DEF Rest
<1>4. Flow(Rest)'
    BY <1>3 DEF Flow, Follows, IsHeader, StreamInv
<1>5. QED
    BY <1>1, <1>2, <1>3, <1>4 DEF StreamInv, IsHeader

(* What curl has after the header, if that is the next thing.                *)
LEMMA OctetsAre ==
    ASSUME StreamInv, inbox # <<>>
    PROVE  LET r == Octets \o net
           IN  /\ Octets \in Seq(Unit) /\ r \in Seq(Unit) /\ Flow(r)
               /\ IsHeader(inbox[1]) => r = <<>> \/ Follows(inbox[1], r[1])
               /\ IsHeader(inbox[1]) => Len(Octets) = Len(inbox) - 1
               /\ ~ IsHeader(inbox[1]) => Octets = inbox /\ r = Rest
               /\ Rest # <<>> /\ Rest[1] = inbox[1]
<1>1. inbox \in Seq(Unit) /\ net \in Seq(Unit) /\ Flow(Rest) /\ Rest \in Seq(Unit)
    BY DEF StreamInv, StreamType, Rest
<1>2. Len(inbox) \in Nat /\ Len(inbox) >= 1 /\ Rest # <<>> /\ Rest[1] = inbox[1] /\ Len(Rest) >= 1 /\ Len(Rest) \in Nat
    BY <1>1 DEF Rest
<1>3. CASE ~ IsHeader(inbox[1])
    <2>1. Octets = inbox
        BY <1>3 DEF Octets
    <2>2. QED
        BY <2>1, <1>1, <1>2, <1>3 DEF Rest
<1>4. CASE IsHeader(inbox[1])
    <2>1. Octets = SubSeq(inbox, 2, Len(inbox))
        BY <1>1, <1>2, <1>4 DEF Octets
    <2>2. 1 \in 0 .. Len(inbox) /\ 1 \in 0 .. Len(Rest) /\ 1 + 1 = 2
        BY <1>2
    <2>3. Octets \o net = SubSeq(Rest, 2, Len(Rest))
        BY <2>1, <2>2, <1>1, ReadFromFront DEF Rest
    <2>9. SubSeq(inbox, 2, Len(inbox)) \in Seq(Unit) /\ Len(SubSeq(inbox, 2, Len(inbox))) = Len(inbox) - 1
        <3>1. inbox \in Seq(Unit) /\ inbox # <<>>
            BY <1>1, <1>2
        <3>2. Tail(inbox) = SubSeq(inbox, 2, Len(inbox)) /\ Tail(inbox) \in Seq(Unit) /\ Len(Tail(inbox)) = Len(inbox) - 1
            BY <3>1
        <3>3. QED
            BY <3>2
    <2>4. Octets \in Seq(Unit) /\ Len(Octets) = Len(inbox) - 1
        BY <2>1, <2>9
    <2> DEFINE r == SubSeq(Rest, 2, Len(Rest))
    <2>5. r \in Seq(Unit) /\ Flow(r) /\ Len(r) = Len(Rest) - 1 /\ (1 < Len(Rest) => r # <<>> /\ r[1] = Rest[2])
        BY <2>2, <1>1, FlowOn
    <2> HIDE DEF r
    <2>6. CASE 1 < Len(Rest)
        <3>4. 1 \in 1 .. Len(Rest) /\ 1 + 1 = 2
            BY <1>2
        <3>5. 1 # Len(Rest)
            <4>1. PICK l : l = Len(Rest)
                OBVIOUS
            <4>2. 1 < l /\ l \in Nat
                BY <4>1, <2>6, <1>2
            <4>3. QED
                BY <4>1, <4>2
        <3>1. 1 \in 1 .. Len(Rest) /\ 1 # Len(Rest) /\ 1 + 1 = 2
            BY <3>4, <3>5
        <3>2. Follows(Rest[1], Rest[2])
            BY <3>1, <1>1 DEF Flow
        <3>3. QED
            BY <3>2, <2>3, <2>4, <2>5, <2>6, <1>2, <1>4 DEF r
    <2>7. CASE ~ 1 < Len(Rest)
        <3>1. Len(r) = 0
            BY <2>5, <2>7, <1>2
        <3>2. r = <<>>
            BY <3>1, <2>5
        <3>3. QED
            BY <3>2, <2>3, <2>4, <2>5, <1>2, <1>4 DEF r
    <2>8. QED
        BY <2>6, <2>7
<1>5. QED
    BY <1>3, <1>4

LEMMA AvailableIs ==
    ASSUME Octets \in Seq(Unit)
    PROVE  /\ Available \in Nat /\ Available <= Len(Octets)
           /\ \A i \in 1 .. Available : ~ IsHeader(Octets[i])
           /\ Octets # <<>> /\ ~ IsHeader(Octets[1]) => Available >= 1
<1> DEFINE S == {n \in 0 .. Len(Octets) : \A i \in 1 .. n : ~ IsHeader(Octets[i])}
<1>1. Len(Octets) \in Nat /\ 0 \in S
    OBVIOUS
<1>2. S \in SUBSET (0 .. Len(Octets)) /\ S # {}
    BY <1>1
<1>3. Max(S) \in S /\ \A n \in S : n <= Max(S)
    BY <1>1, <1>2, GreatestOf
<1>4. Available = Max(S)
    BY DEF Available
<1>5. ASSUME Octets # <<>>, ~ IsHeader(Octets[1]) PROVE Max(S) >= 1
    <2>1. Len(Octets) >= 1
        BY <1>1, <1>5
    <2>2. 1 \in 0 .. Len(Octets) /\ \A i \in 1 .. 1 : i = 1
        BY <2>1, <1>1
    <2>3. 1 \in S
        BY <2>2, <1>5
    <2>4. QED
        BY <2>3, <1>3
<1>6. Max(S) \in Nat /\ Max(S) <= Len(Octets) /\ \A i \in 1 .. Max(S) : ~ IsHeader(Octets[i])
    BY <1>1, <1>3
<1> HIDE DEF S
<1>7. QED
    BY <1>4, <1>5, <1>6

(* What n octets of a read are, and what follows them.                       *)
LEMMA TakenIs ==
    ASSUME StreamInv, at = "read", inbox # <<>>, NEW n \in Nat, n >= 1, n <= Available
    PROVE  LET left == SubSeq(Octets, n + 1, Len(Octets))
               r == left \o net
           IN  /\ left \in Seq(Unit) /\ r \in Seq(Unit) /\ Flow(r) /\ Octets \in Seq(Unit)
               /\ \A i \in 1 .. n : Octets[i] \in Unit
               /\ \A i, j \in took \cup {Octets[k].frame : k \in 1 .. n} : i = j
               /\ Octets[n].frame \in {Octets[k].frame : k \in 1 .. n}
               /\ IF Octets[n].left = 0 THEN r = <<>> \/ IsHeader(r[1])
                                        ELSE r # <<>> /\ ~ IsHeader(r[1]) /\ r[1].frame = Octets[n].frame
<1> DEFINE s == Octets \o net
<1>1. /\ Octets \in Seq(Unit) /\ s \in Seq(Unit) /\ Flow(s) /\ net \in Seq(Unit)
      /\ ~ IsHeader(inbox[1]) => Octets = inbox
      /\ IsHeader(inbox[1]) => IsHeader(Rest[1])
      /\ Rest[1] = inbox[1]
    BY OctetsAre DEF StreamInv, StreamType
<1>2. /\ n \in 0 .. Len(Octets) /\ n \in 1 .. Len(s) /\ n \in 0 .. Len(s) /\ Len(s) \in Nat /\ Len(s) >= 1
      /\ \A i \in 1 .. n : i \in 1 .. Len(Octets) /\ ~ IsHeader(Octets[i]) /\ s[i] = Octets[i]
    BY <1>1, AvailableIs
<1>3. 1 \in 1 .. n /\ n \in 1 .. n
    OBVIOUS
<1>4. \A i \in 1 .. n : Octets[i] \in Unit
    BY <1>1, <1>2
<1> DEFINE left == SubSeq(Octets, n + 1, Len(Octets))
<1>5. left \in Seq(Unit)
    BY <1>1, <1>2
<1>6. left \o net = SubSeq(s, n + 1, Len(s))
    BY <1>1, <1>2, ReadFromFront
<1> DEFINE r == SubSeq(s, n + 1, Len(s))
<1>7. r \in Seq(Unit) /\ Flow(r) /\ Len(r) = Len(s) - n /\ (n < Len(s) => r # <<>> /\ r[1] = s[n + 1])
    BY <1>1, <1>2, FlowOn
<1>8. \A i \in 1 .. n : s[i].frame = s[1].frame
    BY <1>1, <1>2, OneFrame
<1> HIDE DEF s, r, left
<1>9. \A i \in 1 .. n : Octets[i].frame = Octets[1].frame
    BY <1>2, <1>3, <1>8
<1>10. ASSUME took # {} PROVE \A i \in took : i = Octets[1].frame
    <2>1. ~ IsHeader(Rest[1]) /\ Rest[1].frame \in took
        BY <1>10 DEF StreamInv
    <2>2. Octets = inbox /\ Octets[1].frame \in took
        BY <2>1, <1>1
    <2>3. QED
        BY <2>2 DEF StreamInv
<1>11. \A i \in took \cup {Octets[k].frame : k \in 1 .. n} : i = Octets[1].frame
    BY <1>9, <1>10
<1>12. IF n = Len(s) THEN s[n].left = 0 ELSE Follows(s[n], s[n + 1])
    BY <1>1, <1>2 DEF Flow
<1>13. s[n] = Octets[n]
    BY <1>2, <1>3
<1>14. IF Octets[n].left = 0 THEN r = <<>> \/ IsHeader(r[1])
                             ELSE r # <<>> /\ ~ IsHeader(r[1]) /\ r[1].frame = Octets[n].frame
    <2>1. CASE n = Len(s)
        <3>1. Len(r) = 0
            BY <2>1, <1>2, <1>7
        <3>2. r = <<>> /\ Octets[n].left = 0
            BY <3>1, <2>1, <1>7, <1>12, <1>13
        <3>3. QED
            BY <3>2
    <2>2. CASE n # Len(s)
        <3>1. n < Len(s)
            BY <2>2, <1>2
        <3>2. r # <<>> /\ r[1] = s[n + 1] /\ Follows(Octets[n], s[n + 1])
            BY <3>1, <2>2, <1>7, <1>12, <1>13
        <3>3. QED
            BY <3>2 DEF Follows
    <2>3. QED
        BY <2>1, <2>2
<1>15. QED
    BY <1>1, <1>3, <1>4, <1>5, <1>6, <1>7, <1>11, <1>14 DEF left, r

(* Whatever comes of the octets that were taken.                             *)
LEMMA TakingKeepsApart ==
    ASSUME StreamInv, at = "read", inbox # <<>>, NEW n \in Nat, n >= 1, n <= Available,
           TakeOctets(n),
           wanted' \in {"length", "body"}, size' \in Nat, size' >= 1, count' \in Nat, count' >= 1, buf' \in Seq(Nat),
           \/ at' = "send" /\ bad' = bad \cup took'
           \/ at' = "send" /\ bad' = bad /\ Octets[n].left = 0
           \/ at' = "read" /\ bad' = bad /\ Octets[n].left # 0
    PROVE  StreamInv'
<1> DEFINE left == SubSeq(Octets, n + 1, Len(Octets))
           r == left \o net
<1>1. /\ left \in Seq(Unit) /\ r \in Seq(Unit) /\ Flow(r)
      /\ \A i, j \in took \cup {Octets[k].frame : k \in 1 .. n} : i = j
      /\ Octets[n].frame \in {Octets[k].frame : k \in 1 .. n}
      /\ IF Octets[n].left = 0 THEN r = <<>> \/ IsHeader(r[1])
                               ELSE r # <<>> /\ ~ IsHeader(r[1]) /\ r[1].frame = Octets[n].frame
    BY TakenIs
<1>2. /\ sent' = sent /\ net' = net /\ inbox' = left
      /\ took' = took \cup {Octets[k].frame : k \in 1 .. n}
    BY DEF TakeOctets
<1>3. Rest' = r
    BY <1>2 DEF Rest
<1> HIDE DEF left, r
<1>4. StreamType'
    BY <1>1, <1>2 DEF StreamInv, StreamType
<1>5. Flow(Rest)'
    BY <1>1, <1>3 DEF Flow, Follows, IsHeader
<1>6. Octets[n].frame \in took' /\ \A i, j \in took' : i = j
    BY <1>1, <1>2
<1>7. at' = "read" => Rest' # <<>> /\ ~ IsHeader(Rest'[1]) /\ Rest'[1].frame \in took'
    BY <1>1, <1>3, <1>6
<1>8. at' # "read" /\ Rest' # <<>> => IsHeader(Rest'[1]) \/ Rest'[1].frame \in bad'
    BY <1>1, <1>3, <1>6
<1>9. QED
    BY <1>4, <1>5, <1>6, <1>7, <1>8 DEF StreamInv, IsHeader

LEMMA TakingAFrameKeepsApart ==
    ASSUME StreamInv, RecvFrame
    PROVE  StreamInv'
<1>1. /\ inbox # <<>> /\ at' = "read" /\ took' = {} /\ inbox' = Octets /\ net' = net /\ sent' = sent /\ bad' = bad
      /\ wanted' = "length" /\ size' = 1 /\ count' = 1 /\ buf' = <<>>
    BY DEF RecvFrame, Ready
<1>2. Octets \in Seq(Unit) /\ Flow(Octets \o net)
    BY <1>1, OctetsAre
<1>3. StreamType'
    BY <1>1, <1>2 DEF StreamInv, StreamType
<1>4. Rest' = Octets \o net
    BY <1>1 DEF Rest
<1>5. Flow(Rest)'
    BY <1>2, <1>4 DEF Flow, Follows, IsHeader
<1>6. QED
    BY <1>1, <1>3, <1>5 DEF StreamInv

(* A read finds nothing only where it begins with the header of an empty     *)
(* frame.                                                                    *)
LEMMA ReadingNothingKeepsApart ==
    ASSUME StreamInv, Ready, Available = 0, TakeOctets(0), at' = "send", bad' = bad, UNCHANGED decoder
    PROVE  StreamInv'
<1> DEFINE r == Octets \o net
<1>1. inbox # <<>> /\ (IsHeader(inbox[1]) => inbox[1].left = 0 \/ Len(inbox) > 1)
    BY DEF Ready
<1>2. /\ Octets \in Seq(Unit) /\ r \in Seq(Unit) /\ Flow(r)
      /\ IsHeader(inbox[1]) => r = <<>> \/ Follows(inbox[1], r[1])
      /\ IsHeader(inbox[1]) => Len(Octets) = Len(inbox) - 1
      /\ ~ IsHeader(inbox[1]) => Octets = inbox
    BY <1>1, OctetsAre
<1>3. inbox \in Seq(Unit) /\ net \in Seq(Unit)
    BY DEF StreamInv, StreamType
<1>4. ~ (Octets # <<>> /\ ~ IsHeader(Octets[1]))
    <2>1. Octets # <<>> /\ ~ IsHeader(Octets[1]) => Available >= 1
        BY <1>2, AvailableIs
    <2>2. QED
        BY <2>1
<1>5. IsHeader(inbox[1])
    BY <1>1, <1>2, <1>4
<1>6. r = <<>> \/ IsHeader(r[1])
    <2>1. CASE Octets = <<>>
        <3>4. Len(Octets) = 0 /\ Len(Octets) = Len(inbox) - 1 /\ Len(inbox) \in Nat
            BY <2>1, <1>2, <1>3, <1>5
        <3>5. PICK l : l = Len(inbox)
            OBVIOUS
        <3>6. l \in Nat /\ 0 = l - 1
            BY <3>4, <3>5
        <3>7. ~ l > 1
            BY <3>6
        <3>1. ~ Len(inbox) > 1
            BY <3>5, <3>7
        <3>2. inbox[1].left = 0
            BY <3>1, <1>1, <1>5
        <3>3. QED
            BY <3>2, <1>2, <1>5 DEF Follows
    <2>2. CASE Octets # <<>>
        <3>1. r[1] = Octets[1]
            BY <2>2, <1>2, <1>3
        <3>2. QED
            BY <3>1, <2>2, <1>4
    <2>3. QED
        BY <2>1, <2>2
<1>7. sent' = sent /\ net' = net /\ inbox' = SubSeq(Octets, 1, Len(Octets)) /\ took' = took \cup {Octets[i].frame : i \in 1 .. 0}
    BY DEF TakeOctets
<1>8. inbox' = Octets /\ took' = took
    BY <1>2, <1>7, SubSeqFull
<1>9. Rest' = r
    BY <1>7, <1>8 DEF Rest
<1>10. StreamType'
    BY <1>2, <1>7, <1>8 DEF StreamInv, StreamType, decoder
<1> HIDE DEF r
<1>11. Flow(Rest)'
    BY <1>2, <1>9 DEF Flow, Follows, IsHeader
<1>12. QED
    BY <1>6, <1>8, <1>9, <1>10, <1>11 DEF StreamInv, IsHeader

LEMMA ReadingKeepsApart ==
    ASSUME StreamInv, Read
    PROVE  StreamInv'
<1> DEFINE n == Min({count, Available})
           piece == [i \in 1 .. n |-> Octets[i].value]
           left == IF n = 0 THEN 0 ELSE Octets[n].left
<1>1. /\ at = "read" /\ Ready /\ TakeOctets(n)
      /\ CASE n = 0 -> Finish(list)
           [] n = count -> Decoded(Written(piece), left)
           [] n # 0 /\ n < count /\ AtEnd(left) -> Fail
           [] OTHER -> /\ count' = count - n /\ buf' = Written(piece)
                       /\ UNCHANGED <<at, wanted, size, list, got, bad>>
    BY DEF Read
<1>2. inbox # <<>>
    BY <1>1 DEF Ready
<1>3. Octets \in Seq(Unit)
    BY <1>2, OctetsAre
<1>4. Available \in Nat
    BY <1>3, AvailableIs
<1>5. /\ count \in Nat /\ count >= 1 /\ size \in Nat /\ size >= 1 /\ wanted \in {"length", "body"} /\ buf \in Seq(Nat)
    BY DEF StreamInv, StreamType
<1>6. n \in Nat /\ n <= count /\ n <= Available /\ (n = count \/ n = Available)
    BY <1>4, <1>5, TheLesser
<1> HIDE DEF n
<1>7. CASE n = 0
    <2>1. Available = 0 /\ TakeOctets(0) /\ Finish(list)
        BY <1>1, <1>5, <1>6, <1>7
    <2>2. at' = "send" /\ bad' = bad /\ UNCHANGED decoder
        BY <2>1 DEF Finish
    <2>3. QED
        BY <2>1, <2>2, <1>1, ReadingNothingKeepsApart
<1>8. CASE n # 0
    <2>1. n >= 1
        BY <1>6, <1>8
    <2>2. \A i \in 1 .. n : Octets[i] \in Unit
        BY <2>1, <1>1, <1>2, <1>6, TakenIs
    <2>3. \A i \in 1 .. n : Octets[i].value \in Nat
        BY <2>2 DEF Unit
    <2>4. piece \in Seq(Nat)
        BY <2>3, <1>6
    <2> HIDE DEF piece
    <2>5. Written(piece) \in Seq(Nat)
        BY <2>4, <1>5, WrittenIs
    <2>6. left = Octets[n].left
        BY <1>8
    <2> HIDE DEF left
    <2>7. /\ wanted' \in {"length", "body"} /\ size' \in Nat /\ size' >= 1 /\ count' \in Nat /\ count' >= 1
          /\ buf' \in Seq(Nat)
          /\ \/ at' = "send" /\ bad' = bad \cup took'
             \/ at' = "send" /\ bad' = bad /\ left = 0
             \/ at' = "read" /\ bad' = bad /\ left # 0
        <3>1. CASE n = count
            <4> DEFINE o == Written(piece)
                       value == [i \in 1 .. size |-> IF i <= Len(o) THEN o[i] ELSE Garbage]
            <4>12. n # 0 /\ n = count /\ ~ n < count
                BY <3>1, <1>5, <1>8
            <4>1. Decoded(o, left)
                BY <4>12, <1>1
            <4>2. o \in Seq(Nat)
                BY <2>5
            <4> HIDE DEF o
            <4>3. 1 \in 1 .. size /\ value[1] = IF 1 <= Len(o) THEN o[1] ELSE Garbage
                BY <1>5
            <4>4. value[1] \in Nat
                BY <4>2, <4>3, MessagesHaveOctets
            <4> DEFINE v == value[1]
            <4>5. \/ Fail
                  \/ left # 0 /\ v # 0 /\ ReadNext("body", v, list)
                  \/ left # 0 /\ ReadNext("length", 1, Append(list, value))
                  \/ left = 0 /\ Finish(Append(list, value))
                <5>1. CASE wanted = "length"
                    BY <5>1, <4>1 DEF Decoded, AtEnd
                <5>2. CASE wanted = "body"
                    BY <5>2, <4>1 DEF Decoded, AtEnd
                <5>3. QED
                    BY <5>1, <5>2, <1>5
            <4>6. v \in Nat
                BY <4>4
            <4> HIDE DEF value, v
            <4>7. CASE Fail
                BY <4>7, <1>5 DEF Fail, decoder
            <4>8. CASE left # 0 /\ v # 0 /\ ReadNext("body", v, list)
                BY <4>6, <4>8, <1>1 DEF ReadNext
            <4>9. CASE left # 0 /\ ReadNext("length", 1, Append(list, value))
                BY <4>9, <1>1 DEF ReadNext
            <4>10. CASE left = 0 /\ Finish(Append(list, value))
                BY <4>10, <1>5 DEF Finish, decoder
            <4>11. QED
                BY <4>5, <4>7, <4>8, <4>9, <4>10
        <3>2. CASE n # count /\ left = 0
            <4>1. n < count /\ AtEnd(left)
                BY <3>2, <1>5, <1>6 DEF AtEnd
            <4>2. Fail
                BY <4>1, <3>2, <1>1, <1>8
            <4>3. QED
                BY <4>2, <1>5 DEF Fail, decoder
        <3>3. CASE n # count /\ left # 0
            <4>1. ~ AtEnd(left)
                BY <3>3 DEF AtEnd
            <4>2. count' = count - n /\ buf' = Written(piece) /\ UNCHANGED <<at, wanted, size, list, got, bad>>
                BY <4>1, <3>3, <1>1, <1>8
            <4>3. count - n \in Nat /\ count - n >= 1
                BY <3>3, <1>5, <1>6
            <4>4. QED
                BY <4>2, <4>3, <3>3, <2>5, <1>1, <1>5
        <3>4. QED
            BY <3>1, <3>2, <3>3
    <2>8. QED
        BY <2>1, <2>6, <2>7, <1>1, <1>2, <1>6, TakingKeepsApart
<1>9. QED
    BY <1>7, <1>8

LEMMA FailingKeepsApart ==
    ASSUME StreamInv, NEW n \in 1 .. Len(inbox), DecodeFails(n)
    PROVE  StreamInv'
<1>1. /\ at = "read" /\ Ready /\ n <= Min({count, Available}) /\ TakeOctets(n) /\ Fail
    BY DEF DecodeFails
<1>2. inbox # <<>> /\ inbox \in Seq(Unit)
    BY <1>1 DEF Ready, StreamInv, StreamType
<1>3. Available \in Nat /\ count \in Nat /\ n \in Nat /\ n >= 1
    BY <1>2, OctetsAre, AvailableIs DEF StreamInv, StreamType
<1>4. n <= Available
    BY <1>1, <1>3, TheLesser
<1>5. /\ wanted' = wanted /\ size' = size /\ count' = count /\ buf' = buf
      /\ at' = "send" /\ bad' = bad \cup took'
    BY <1>1 DEF Fail, decoder
<1>6. /\ wanted' \in {"length", "body"} /\ size' \in Nat /\ size' >= 1 /\ count' \in Nat /\ count' >= 1 /\ buf' \in Seq(Nat)
    BY <1>5 DEF StreamInv, StreamType
<1>7. QED
    BY <1>1, <1>2, <1>3, <1>4, <1>5, <1>6, TakingKeepsApart

LEMMA StreamStep ==
    ASSUME StreamInv, [StreamNext]_reception
    PROVE  StreamInv'
<1>1. CASE UNCHANGED reception
    <2>1. /\ sent' = sent /\ net' = net /\ inbox' = inbox /\ at' = at /\ wanted' = wanted /\ size' = size
          /\ count' = count /\ buf' = buf /\ took' = took /\ bad' = bad
        BY <1>1 DEF reception, decoder
    <2>2. StreamType' /\ Rest' = Rest
        BY <2>1 DEF StreamInv, StreamType, Rest
    <2>3. Flow(Rest)'
        BY <2>2 DEF Flow, Follows, IsHeader, StreamInv
    <2>4. QED
        BY <2>1, <2>2, <2>3 DEF StreamInv, IsHeader
<1>2. ASSUME NEW msgs \in Lists, ServerSend(msgs) PROVE StreamInv'
    BY <1>2, SendingKeepsApart
<1>3. CASE Network
    BY <1>3, ArrivingKeepsApart DEF Network
<1>4. CASE WsSend \/ RecvNothing
    BY <1>4, IdlingKeepsApart
<1>5. CASE RecvFrame
    BY <1>5, TakingAFrameKeepsApart
<1>6. CASE Read
    BY <1>6, ReadingKeepsApart
<1>7. CASE ReadNothing
    BY <1>1, <1>7 DEF ReadNothing
<1>8. ASSUME NEW n \in 1 .. Len(inbox), DecodeFails(n) PROVE StreamInv'
    BY <1>8, FailingKeepsApart
<1>9. QED
    BY <1>1, <1>2, <1>3, <1>4, <1>5, <1>6, <1>7, <1>8 DEF StreamNext, Receiver

(* The octets of two frames never make one list, and the thread is in the    *)
(* middle of a frame only where it gave that frame up (conn_pb_stream.c and  *)
(* conn_ws.c:91-109): for lists of any length, empty ones too, messages of   *)
(* any length, all pieces in which they may arrive, and decodes that fail    *)
(* anywhere.                                                                 *)
THEOREM FramesAreKeptApart == StreamSpec => []FramesStayApart
<1>1. StreamInv => FramesStayApart
    <2>1. SUFFICES ASSUME StreamInv, at # "read", inbox # <<>>
                   PROVE  IsHeader(inbox[1]) \/ inbox[1].frame \in bad
        BY DEF FramesStayApart, StreamInv
    <2>2. Rest # <<>> /\ Rest[1] = inbox[1]
        BY <2>1, OctetsAre
    <2>3. QED
        BY <2>1, <2>2 DEF StreamInv
<1>2. QED
    BY <1>1, StreamStarts, StreamStep, PTL DEF StreamSpec
=============================================================================
