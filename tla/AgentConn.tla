------------------------------ MODULE AgentConn ------------------------------
(***************************************************************************)
(* The agent's connection to the server: conn_thread (conn/conn.c) connects *)
(* again and again and alternates conn_ws_send with conn_ws_recv            *)
(* (conn/conn_ws.c), other threads append messages to conn->send_msgs       *)
(* (conn/conn_msg.c), and conn_online (main.c) is the online callback.      *)
(*                                                                         *)
(* conn_msg_add appends under send_msgs_mutex, so one action stands for all *)
(* the threads that call it.  curl and the network are outside: a link may  *)
(* die at any time; what is written to a dead link is lost without an error *)
(* until curl reports one.  Received frames are only logged.                *)
(***************************************************************************)
EXTENDS Integers, Sequences

CONSTANTS
    MaxData,    \* bound: messages of other threads
    MaxFails,   \* bound: failed connects and broken links
    Faults      \* whether allocations and the encoder may fail

ASSUME FaultsType == Faults \in BOOLEAN

VARIABLES
    queue,      \* conn->send_msgs
    hand,       \* msgs in conn_ws_send: what it took from the queue
    pc,         \* where conn_thread is
    link,       \* what is left of the connection: "down", "up", "dead"
    made,       \* messages appended so far; they are numbered in that order
    data, fails,
    epoch,      \* connections made so far
    frames,     \* what the server received: sequence of [epoch, msgs]
    handed,     \* numbers of the messages that curl took
    dropped,    \* numbers of the messages whose list was not encoded
    short       \* history: whether an allocation or the encoder has failed

sendings == <<frames, handed, dropped>>
vars == <<queue, hand, pc, link, made, data, fails, epoch, sendings, short>>

Kind == {"data", "online", "will"}
Message == [id : Nat, kind : Kind]
Frame == [epoch : Nat, msgs : Seq(Message)]
Ids(s) == {s[i].id : i \in DOMAIN s}

Init ==
    /\ queue = <<>> /\ hand = <<>>
    /\ pc = "init" /\ link = "down"
    /\ made = 0 /\ data = 0 /\ fails = 0 /\ epoch = 0
    /\ frames = <<>> /\ handed = {} /\ dropped = {}
    /\ short = FALSE

(* conn_msg_add; without memory for it, a message is silently not added. *)
MsgAdd(kind) ==
    \/ queue' = Append(queue, [id |-> made + 1, kind |-> kind]) /\ made' = made + 1 /\ UNCHANGED short
    \/ Faults /\ short' = TRUE /\ UNCHANGED <<queue, made>>

Produce ==
    /\ data < MaxData /\ data' = data + 1
    /\ MsgAdd("data")
    /\ UNCHANGED <<hand, pc, link, fails, epoch, sendings>>

Break ==
    /\ link = "up" /\ fails < MaxFails
    /\ link' = "dead" /\ fails' = fails + 1
    /\ UNCHANGED <<queue, hand, pc, made, data, epoch, sendings, short>>

-----------------------------------------------------------------------------
CurlInit ==
    /\ pc = "init"
    /\ \/ pc' = "connect"
       \/ Faults /\ pc' = "ended"
    /\ UNCHANGED <<queue, hand, link, made, data, fails, epoch, sendings, short>>

Connect ==
    /\ pc = "connect" /\ pc' = "online"
    /\ \/ link' = "up" /\ epoch' = epoch + 1 /\ UNCHANGED fails
       \/ fails < MaxFails /\ fails' = fails + 1 /\ UNCHANGED <<link, epoch>>
    /\ UNCHANGED <<queue, hand, made, data, sendings, short>>

(* Mutant of PublishOnline: only the first connection is announced. *)
PublishFirst ==
    /\ pc = "online"
    /\ IF epoch <= 1
       THEN pc' = "setwill" /\ MsgAdd("online")
       ELSE pc' = "send" /\ UNCHANGED <<queue, made, short>>
    /\ UNCHANGED <<hand, link, data, fails, epoch, sendings>>

(* The callback runs whether or not the connect succeeded. *)
PublishOnline ==
    /\ pc = "online" /\ pc' = "setwill"
    /\ MsgAdd("online")
    /\ UNCHANGED <<hand, link, data, fails, epoch, sendings>>

SetWill ==
    /\ pc = "setwill" /\ pc' = IF link = "down" THEN "close" ELSE "send"
    /\ MsgAdd("will")
    /\ UNCHANGED <<hand, link, data, fails, epoch, sendings>>

(* Mutant of Take: one message at a time. *)
TakeHead ==
    /\ pc = "send" /\ queue # <<>>
    /\ hand' = <<Head(queue)>> /\ queue' = Tail(queue)
    /\ pc' = "encode"
    /\ UNCHANGED <<link, made, data, fails, epoch, sendings, short>>

Take ==
    /\ pc = "send" /\ queue # <<>>
    /\ hand' = queue /\ queue' = <<>>
    /\ pc' = "encode"
    /\ UNCHANGED <<link, made, data, fails, epoch, sendings, short>>

(* Mutant of TakeNothing: an empty list is sent as well. *)
TakeEmpty ==
    /\ pc = "send" /\ queue = <<>>
    /\ pc' = "encode"
    /\ UNCHANGED <<queue, hand, link, made, data, fails, epoch, sendings, short>>

TakeNothing ==
    /\ pc = "send" /\ queue = <<>>
    /\ pc' = "recv"
    /\ UNCHANGED <<queue, hand, link, made, data, fails, epoch, sendings, short>>

(* What conn_ws_send frees of the list is ConnApi's. *)
Send ==
    /\ pc = "encode" /\ link \in {"up", "dead"} /\ pc' = "recv"
    /\ frames' = IF link = "up" THEN Append(frames, [epoch |-> epoch, msgs |-> hand]) ELSE frames
    /\ hand' = <<>> /\ handed' = handed \cup Ids(hand)
    /\ UNCHANGED <<queue, link, made, data, fails, epoch, dropped, short>>

(* No room for the frame, or its encoding fails: err is still CURLE_OK, so   *)
(* the messages are freed and not put back.                                 *)
EncodeFails ==
    /\ pc = "encode" /\ Faults /\ pc' = "recv"
    /\ hand' = <<>> /\ dropped' = dropped \cup Ids(hand) /\ short' = TRUE
    /\ UNCHANGED <<queue, link, made, data, fails, epoch, frames, handed>>

SendFails ==
    /\ pc = "encode" /\ link = "dead"
    /\ pc' = "putback"
    /\ UNCHANGED <<queue, hand, link, made, data, fails, epoch, sendings, short>>

(* Mutants of PutBack: the messages are forgotten; the error is ignored. *)
PutNothingBack ==
    /\ pc = "putback" /\ pc' = "close"
    /\ hand' = <<>>
    /\ UNCHANGED <<queue, link, made, data, fails, epoch, sendings, short>>

PutBackAndGoOn ==
    /\ pc = "putback" /\ pc' = "recv"
    /\ queue' = queue \o hand /\ hand' = <<>>
    /\ UNCHANGED <<link, made, data, fails, epoch, sendings, short>>

(* DL_CONCAT appends them to what was queued in the meantime. *)
PutBack ==
    /\ pc = "putback" /\ pc' = "close"
    /\ queue' = queue \o hand /\ hand' = <<>>
    /\ UNCHANGED <<link, made, data, fails, epoch, sendings, short>>

(* Nothing to read, or a frame that is decoded and logged. *)
Recv ==
    /\ pc = "recv" /\ pc' = "send"
    /\ UNCHANGED <<queue, hand, link, made, data, fails, epoch, sendings, short>>

RecvFails ==
    /\ pc = "recv" /\ link = "dead"
    /\ pc' = "close"
    /\ UNCHANGED <<queue, hand, link, made, data, fails, epoch, sendings, short>>

Close ==
    /\ pc = "close" /\ pc' = "init"
    /\ link' = "down"
    /\ UNCHANGED <<queue, hand, made, data, fails, epoch, sendings, short>>

-----------------------------------------------------------------------------
Thread ==
    \/ CurlInit \/ Connect \/ PublishOnline \/ SetWill
    \/ Take \/ TakeNothing \/ Send \/ EncodeFails \/ SendFails \/ PutBack
    \/ Recv \/ RecvFails \/ Close

Next == Produce \/ Break \/ Thread

Spec == Init /\ [][Next]_vars
FairSpec == Spec /\ WF_vars(Thread)

-----------------------------------------------------------------------------
TypeOK ==
    /\ queue \in Seq(Message) /\ hand \in Seq(Message)
    /\ pc \in {"init", "connect", "online", "setwill", "send", "encode", "putback", "recv", "close", "ended"}
    /\ link \in {"down", "up", "dead"}
    /\ made \in Nat /\ data \in Nat /\ fails \in Nat /\ epoch \in Nat
    /\ frames \in Seq(Frame)
    /\ handed \subseteq 1..made /\ dropped \subseteq 1..made
    /\ short \in BOOLEAN
    /\ hand # <<>> <=> pc \in {"encode", "putback"}

(* No message is received twice or before one that was queued earlier, no    *)
(* matter that failed messages are put back behind newer ones.               *)
NothingOvertakes ==
    \A i, j \in DOMAIN frames : i < j =>
        \A a \in Ids(frames[i].msgs), b \in Ids(frames[j].msgs) : a < b

(* As long as memory suffices, the first frame that the server receives on a *)
(* connection announces the agent and carries its will, so nothing of the    *)
(* agent reaches the server before it can tell that the agent is gone.       *)
FirstFrameHasWill ==
    ~short =>
        \A i \in DOMAIN frames :
            (i > 1 => frames[i - 1].epoch # frames[i].epoch) =>
                {"online", "will"} \subseteq {frames[i].msgs[k].kind : k \in DOMAIN frames[i].msgs}

(* A message is in exactly one place: queued, being sent, given to curl, or   *)
(* dropped, with whatever was to be sent with it, because the list was not    *)
(* encoded (conn_ws.c:25-31 and 60-71) - which is a loss, that only a lack of *)
(* memory or a failing encoder explains.                                     *)
KeptUntilSent ==
    /\ 1..made = Ids(queue) \cup Ids(hand) \cup handed \cup dropped
    /\ Ids(queue) \cap (Ids(hand) \cup handed \cup dropped) = {}
    /\ Ids(hand) \cap (handed \cup dropped) = {} /\ handed \cap dropped = {}
    /\ dropped # {} => short

(* Publishing threads see the channel that module Channel describes: queue,  *)
(* frame, failed sends and putting back are steps that it does not show.     *)
Batches(fs) == [i \in DOMAIN fs |-> Ids(fs[i].msgs)]
gone == handed \cup dropped
Ch == INSTANCE Channel WITH gone <- gone, received <- Batches(frames)
ImplementsChannel == Ch!Spec

(* When the network fails finitely often, every message is given to curl, or  *)
(* dropped for want of memory, unless the thread has ended because curl could *)
(* not be initialised (conn.c:63).                                           *)
AllHandedOver ==
    \A n \in 1..(MaxData + 2 * (MaxFails + 1)) :
        made >= n ~> n \in handed \/ (n \in dropped /\ short) \/ pc = "ended"
=============================================================================
