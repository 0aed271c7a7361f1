------------------------------- MODULE ConnApi -------------------------------
(***************************************************************************)
(* What the agent's connection object owns: conn_init and conn_free        *)
(* (conn/conn.c), messages and callbacks made by conn_pub, conn_sub and    *)
(* conn_unsub (conn/conn_msg.c), and what conn_ws_send frees               *)
(* (conn/conn_ws.c, conn/conn_util.c).  AgentConn models when frames are   *)
(* sent and what the server receives; here a send succeeds or fails.       *)
(***************************************************************************)
EXTENDS Naturals, Sequences, SequencesExt, FiniteSetsExt

CONSTANTS
    Topic,
    Func,      \* functions that a module may subscribe with
    MaxCalls   \* bound: calls of the API

VARIABLES
    state,     \* of the connection object: "none", "starting", "running", "freed"
    held,      \* what of it was allocated or initialised and not given back
    calls,     \* number of calls
    asked,     \* messages of calls that have not come to conn_msg_add yet
    heap,      \* the conn_msg_t that are allocated, as the numbers of their calls
    send_msgs, \* conn->send_msgs
    taken,     \* msgs in conn_ws_send
    cbs,       \* conn->recv_cbs: topic and function
    told,      \* history: the messages that were made
    missed     \* history: those for which there was no memory

object == <<state, held, calls, asked, heap, send_msgs, taken, cbs, told, missed>>

(* The steps of conn_init in their order; each of the later ones may fail.  *)
Steps == <<"conn", "curl", "send_mutex", "recv_mutex", "thread">>

ObjectInit ==
    /\ state = "none" /\ held = {}
    /\ calls = 0 /\ asked = {} /\ heap = {} /\ send_msgs = <<>> /\ taken = <<>>
    /\ cbs = <<>> /\ told = {} /\ missed = {}

(* conn_free, apart from the thread that it cancels and joins. *)
Freed ==
    /\ held' = {} /\ heap' = heap \ ToSet(send_msgs) /\ send_msgs' = <<>>
    /\ cbs' = <<>>

ConnInit ==
    /\ state \in {"none", "starting"}
    /\ LET step == Steps[Cardinality(held) + 1]
       IN  \/ /\ held' = held \cup {step}
              /\ state' = IF step = "thread" THEN "running" ELSE "starting"
              /\ UNCHANGED <<heap, send_msgs, cbs>>
           \/ state' = "freed" /\ Freed
    /\ UNCHANGED <<calls, asked, taken, told, missed>>

(* The thread is cancelled where it sleeps or waits for the network; what   *)
(* it had in hand is nobody's then.  The caller sees to it that no call is  *)
(* under way.                                                               *)
ConnFree ==
    /\ state = "running" /\ state' = "freed"
    /\ asked = {}
    /\ Freed
    /\ taken' = <<>>
    /\ UNCHANGED <<calls, asked, told, missed>>

-----------------------------------------------------------------------------
(* A call of the API begins, in any thread. *)
Call == state = "running" /\ calls < MaxCalls /\ calls' = calls + 1

Asks(type, topic) == asked' = asked \cup {[id |-> calls', type |-> type, topic |-> topic]}

conn_pub(topic) ==
    /\ Call
    /\ Asks("PUB", topic)
    /\ UNCHANGED <<state, held, heap, send_msgs, taken, cbs, told, missed>>

(* The callback is added under recv_cbs_mutex, or there is no memory for it. *)
conn_sub(topic, func) ==
    /\ Call
    /\ \/ cbs' = Append(cbs, <<topic, func>>) /\ Asks("SUB", topic)
       \/ UNCHANGED <<cbs, asked>>
    /\ UNCHANGED <<state, held, heap, send_msgs, taken, told, missed>>

(* Mutant of conn_unsub: the server is told of callbacks that there are not. *)
UnsubAlways(topic, func) ==
    /\ Call
    /\ cbs' = RemoveFirst(cbs, <<topic, func>>)
    /\ Asks("UNSUB", topic)
    /\ UNCHANGED <<state, held, heap, send_msgs, taken, told, missed>>

(* The first callback with this topic and function is deleted under          *)
(* recv_cbs_mutex; without one there is no message either.                   *)
conn_unsub(topic, func) ==
    /\ Call
    /\ cbs' = RemoveFirst(cbs, <<topic, func>>)
    /\ IF Contains(cbs, <<topic, func>>) THEN Asks("UNSUB", topic) ELSE UNCHANGED asked
    /\ UNCHANGED <<state, held, heap, send_msgs, taken, told, missed>>

(* The message is allocated, or not, and appended under send_msgs_mutex, in  *)
(* whatever order the threads come to it.                                    *)
conn_msg_add(msg) ==
    /\ asked' = asked \ {msg}
    /\ \/ /\ heap' = heap \cup {msg.id} /\ send_msgs' = Append(send_msgs, msg.id)
          /\ told' = told \cup {msg} /\ UNCHANGED missed
       \/ missed' = missed \cup {msg} /\ UNCHANGED <<heap, send_msgs, told>>
    /\ UNCHANGED <<state, held, calls, taken, cbs>>

-----------------------------------------------------------------------------
TakeList ==
    /\ state = "running" /\ taken = <<>> /\ send_msgs # <<>>
    /\ taken' = send_msgs /\ send_msgs' = <<>>
    /\ UNCHANGED <<state, held, calls, asked, heap, cbs, told, missed>>

(* Mutant of PutListBack: the messages are freed as after a send. *)
FreeAndPutBack ==
    /\ state = "running" /\ taken # <<>>
    /\ send_msgs' = send_msgs \o taken /\ taken' = <<>>
    /\ heap' = heap \ ToSet(taken)
    /\ UNCHANGED <<state, held, calls, asked, cbs, told, missed>>

(* DL_CONCAT after a failed send. *)
PutListBack ==
    /\ state = "running" /\ taken # <<>>
    /\ send_msgs' = send_msgs \o taken /\ taken' = <<>>
    /\ UNCHANGED <<state, held, calls, asked, heap, cbs, told, missed>>

(* conn_msg_free of the list, which is its first message. *)
FreeList ==
    /\ state = "running" /\ taken # <<>>
    /\ heap' = heap \ {Head(taken)} /\ taken' = <<>>
    /\ UNCHANGED <<state, held, calls, asked, send_msgs, cbs, told, missed>>

ObjectNext ==
    \/ ConnInit \/ ConnFree
    \/ \E topic \in Topic : conn_pub(topic)
    \/ \E topic \in Topic, func \in Func : conn_sub(topic, func) \/ conn_unsub(topic, func)
    \/ \E msg \in asked : conn_msg_add(msg)
    \/ TakeList \/ PutListBack \/ FreeList

ObjectSpec == ObjectInit /\ [][ObjectNext]_object

-----------------------------------------------------------------------------
(* Every message in a list is allocated and in one place only, so none is   *)
(* used after it was freed or freed twice.                                  *)
ListedIsAllocated ==
    /\ ToSet(send_msgs) \cup ToSet(taken) \subseteq heap
    /\ Cardinality(ToSet(send_msgs) \cup ToSet(taken)) = Len(send_msgs) + Len(taken)

(* The messages of a kind that calls have asked for: made, to be made, or    *)
(* given up for want of memory.                                             *)
Requests(type, topic) == {m \in told \cup asked \cup missed : m.type = type /\ m.topic = topic}

(* One SUB is asked for with every callback that is added and one UNSUB with *)
(* every callback that is taken back, none for one that there was not.       *)
UnsubTakesOneBack ==
    state = "running" =>
        \A topic \in Topic :
            Cardinality(Requests("SUB", topic)) - Cardinality(Requests("UNSUB", topic))
                = Cardinality({i \in DOMAIN cbs : cbs[i][1] = topic})

(* Nothing is given back twice: no message is used after it was freed or     *)
(* freed twice (conn_ws.c, conn_util.c), and the server is told of the       *)
(* callbacks that are taken back and of no others, unless memory is short,   *)
(* whatever happens in other threads between the two mutexes of conn_sub and *)
(* conn_unsub (conn_msg.c).  What is never given back is another question.   *)
NeverGivenBackTwice == ListedIsAllocated /\ UnsubTakesOneBack

(* A list that was sent leaves nothing behind ("free all messages"): what is *)
(* allocated waits to be sent or is being sent.                              *)
SentIsFreed == state = "running" => heap = ToSet(send_msgs) \cup ToSet(taken)
=============================================================================
