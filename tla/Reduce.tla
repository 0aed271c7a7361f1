------------------------------- MODULE Reduce -------------------------------
(***************************************************************************)
(* What the server makes of the messages of one frame before the broker    *)
(* sees them: reduce_msgs (proto/util.py) sorts and merges them, and       *)
(* root() (blueprints/websocket.py) splits them into three groups.  The    *)
(* same reduction is applied to every outgoing frame by SendQueue.send.    *)
(*                                                                         *)
(* Topics and values are numbers because their order decides which message *)
(* comes first; message types and modes are numbers in the code as well.   *)
(***************************************************************************)
EXTENDS Integers, Sequences, SequencesExt

CONSTANTS Topic, Value, NoValue    \* numbers; NoValue is not in Value

PUB == 0
SUB == 1
GET == 2
DEL == 3
UNSUB == 4
LWT == 5
SEND == 0
RETAIN == 1
PERSIST == 2
APPEND == 3

(* get_group_key: the value only tells publications and wills apart. *)
GroupKey(m) ==
    <<m.type, m.topic, IF m.type \in {PUB, LWT} THEN m.value ELSE NoValue>>

KeyLess(a, b) ==
    \/ a[1] < b[1]
    \/ a[1] = b[1] /\ a[2] < b[2]
    \/ a[1] = b[1] /\ a[2] = b[2] /\ a[3] < b[3]

(* Mutant of Strongest: the mode of the first message of the group is kept. *)
FirstMode(msgs, g) == msgs[Min(g)].mode

Strongest(msgs, g) == Max({msgs[i].mode : i \in g})

(* The message that stands for a group: the first, with its timestamps and *)
(* mode merged with those of the others if it is a publication.            *)
Merged(msgs, key) ==
    LET g == {i \in DOMAIN msgs : GroupKey(msgs[i]) = key}
        first == msgs[Min(g)]
    IN  IF key[1] # PUB THEN first
        ELSE [first EXCEPT !.created_at = Min({msgs[i].created_at : i \in g}),
                           !.updated_at = Max({msgs[i].updated_at : i \in g}),
                           !.mode = Strongest(msgs, g)]

reduce_msgs(msgs) ==
    LET keys == SetToSortSeq({GroupKey(msgs[i]) : i \in DOMAIN msgs}, KeyLess)
    IN  [i \in DOMAIN keys |-> Merged(msgs, keys[i])]

(* root() hands the groups to the broker in this order. *)
Grouped(msgs) ==
    LET Of(types) == SelectSeq(msgs, LAMBDA m : m.type \in types)
    IN  Of({PUB, DEL}) \o Of({GET, SUB, UNSUB}) \o Of({LWT})

-----------------------------------------------------------------------------
(* What one message does to the broker when nothing else runs: the retain   *)
(* cache, the rows of the database, and the sender's subscriptions and will *)
(* (Broker models the same handlers step by step).                          *)
Apply(b, m) ==
    CASE m.type = PUB /\ m.mode = SEND -> b
      [] m.type = PUB /\ m.mode = RETAIN -> [b EXCEPT !.cache[m.topic] = m.value]
      [] m.type = PUB /\ m.mode = PERSIST ->
            [b EXCEPT !.cache[m.topic] = NoValue,
                      !.rows = {r \in @ : r[1] # m.topic} \cup {<<m.topic, m.value>>}]
      [] m.type = PUB /\ m.mode = APPEND ->
            [b EXCEPT !.cache[m.topic] = NoValue, !.rows = @ \cup {<<m.topic, m.value>>}]
      [] m.type = DEL ->
            [b EXCEPT !.cache[m.topic] = NoValue,
                      !.rows = {r \in @ : r[1] # m.topic \/ m.value \notin {NoValue, r[2]}}]
      [] m.type = SUB -> [b EXCEPT !.sub = @ \cup {m.topic}]
      [] m.type = UNSUB -> [b EXCEPT !.sub = @ \ {m.topic}]
      [] m.type = LWT -> [b EXCEPT !.lwt = <<m.topic, m.value>>]
      [] OTHER -> b

ApplyAll(b, msgs) == FoldLeft(Apply, b, msgs)

(* What a client can see of a broker: the rows it would load, whom it tells. *)
Visible(b) ==
    <<b.rows \cup {r \in Topic \X Value : b.cache[r[1]] = r[2]}, b.sub, b.lwt>>
=============================================================================
