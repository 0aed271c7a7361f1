------------------------------ MODULE MCReduce ------------------------------
(* Every frame of up to MaxLen messages out of a menu, built message by     *)
(* message, reduced and applied to brokers with different contents.         *)
EXTENDS Reduce

CONSTANT MaxLen

VARIABLE msgs

Pub(t, v, mode, at) ==
    [type |-> PUB, topic |-> t, value |-> v, created_at |-> at, updated_at |-> at, mode |-> mode]
Other(type, t, v) ==
    [type |-> type, topic |-> t, value |-> v, created_at |-> 0, updated_at |-> 0, mode |-> SEND]

Menu(at) ==
    {Pub(t, v, mode, at) : t \in Topic, v \in Value, mode \in {SEND, RETAIN, PERSIST, APPEND}}
        \cup {Other(DEL, t, v) : t \in Topic, v \in Value \cup {NoValue}}
        \cup {Other(type, t, NoValue) : type \in {GET, SUB, UNSUB}, t \in Topic}
        \cup {Other(LWT, t, v) : t \in Topic, v \in Value}

Init == msgs = <<>>
Queue == Len(msgs) < MaxLen /\ \E m \in Menu(Len(msgs)) : msgs' = Append(msgs, m)
Spec == Init /\ [][Queue]_msgs

(* Brokers with and without a retained value, rows, subscriptions. *)
Brokers(stored) ==
    [cache : [Topic -> {NoValue, Min(Value)}], rows : SUBSET (stored \X Value), sub : {{}, Topic}, lwt : {<<>>}]

(* Reducing a frame that holds m before n leaves the effect of the two as it *)
(* is.  It puts the smaller value first and a PUB before a DEL, makes one    *)
(* message of two with one key, puts SUBs before UNSUBs, and leaves the will *)
(* with the greatest key.                                                    *)
KeepsPair(m, n) ==
    /\ m.type = LWT /\ n.type = LWT => ~KeyLess(GroupKey(n), GroupKey(m))
    /\ m.topic = n.topic =>
          /\ m.type = PUB /\ n.type = PUB =>
                IF m.value = n.value THEN {m.mode, n.mode} # {PERSIST, APPEND}
                ELSE m.value < n.value \/ SEND \in {m.mode, n.mode} \/ {m.mode, n.mode} = {APPEND}
          /\ m.type = DEL /\ n.type = DEL => m.value \in {NoValue, n.value}
          /\ m.type = DEL /\ n.type = PUB =>
                n.mode = SEND \/ (n.mode # RETAIN /\ m.value \notin {NoValue, n.value})
          /\ ~(m.type = UNSUB /\ n.type = SUB)

KeepsPairs(s) == \A i, j \in DOMAIN s : i < j => KeepsPair(s[i], s[j])

SameEffect(s, stored) ==
    \A b \in Brokers(stored) : Visible(ApplyAll(b, Grouped(reduce_msgs(s)))) = Visible(ApplyAll(b, s))

(* Whether reducing, sorting and grouping a frame changes what the broker    *)
(* ends up with is a matter of its pairs: KeepsPair says exactly which two   *)
(* messages may stand in one frame, in which order, and no longer frame all  *)
(* of whose pairs may is changed by it.  (What a GET in the frame is         *)
(* answered, after the whole frame is saved, is not compared.)               *)
ReduceKeepsEffect ==
    /\ KeepsPairs(msgs) => SameEffect(msgs, {Min(Topic)})
    /\ Len(msgs) = 2 => (KeepsPairs(msgs) <=> SameEffect(msgs, Topic))
=============================================================================
