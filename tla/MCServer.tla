------------------------------ MODULE MCServer ------------------------------
(* The parts of the server beside one another: the broker with two          *)
(* connections, the messages that are stored, the reduction of frames and    *)
(* the patterns.  They share no state here; a behaviour is about one part,   *)
(* and the others stay in their initial states.                              *)
EXTENDS MCBroker

VARIABLES
    part,                                                           \* whose behaviour it is
    objects, retained, lock, table, holder, work, at, received,     \* of Store
    pos, prev, refs, hand, count, since,
    msgs,                                                           \* of MCReduce
    pattern                                                         \* of MCTopics

stored == <<objects, retained, lock, table, holder, work, at, received, pos, prev, refs, hand, count, since>>

(* The underscore is a wildcard of LIKE: '/a_b' also selects '/axb'. *)
LikeTopics == {"/a_b", "/axb"}
LikeWildcard == [t \in LikeTopics |-> IF t = "/a_b" THEN LikeTopics ELSE {t}]

(* Frames of one message or two, and a database with a row or without.       *)
Pb(m, t, v, n) == [type |-> "PUB", mode |-> m, topic |-> t, value |-> v, created_at |-> n]
Dl(t, v) == [type |-> "DEL", topic |-> t, value |-> v]
StoreFrames ==
    {<<Pb(m, "/a_b", v1, n)>> : m \in {"RETAIN", "PERSIST"}, n \in {1, 2}}
        \cup {<<Pb("PERSIST", "/a_b", v1, 2), Pb("APPEND", "/a_b", v2, 2)>>,
              <<Pb("APPEND", "/axb", v1, 1), Pb("RETAIN", "/axb", v2, 2)>>,
              <<Pb("APPEND", "/a_b", v2, 1)>>, <<Pb("RETAIN", "/a_b", v1, 2), Dl("/a_b", v2)>>,
              <<Dl("/a_b", None)>>}
StoreTables == {{}, {[topic |-> "/a_b", value |-> v1, created_at |-> 1]}}

S == INSTANCE Store WITH
    Thread <- Conn, Topic <- LikeTopics, Like <- LikeWildcard, Stamp <- {1, 2},
    Frames <- StoreFrames, Tables <- StoreTables, MaxFrames <- 4,
    cache <- retained, rows <- table, writer <- holder, pc <- at, frame <- received, nframes <- count

R == INSTANCE MCReduce WITH Topic <- {1, 2}, Value <- {1, 2}, NoValue <- 0, MaxLen <- 3

T == INSTANCE MCTopics WITH
    Char <- {"/", "+", "#", "[", "]", ".", "a", "b"}, Letter <- {"/", "a", "b"},
    MaxLen <- 6, MaxTopic <- 5

ASSUME StoreConstants == S!FramesType /\ S!TablesType

Parts == {"broker", "store", "frames", "patterns"}

ServerInit ==
    /\ part \in Parts
    /\ Init /\ S!Init /\ R!Init /\ T!Init
    /\ part # "store" => table = {}

ServerNext ==
    /\ UNCHANGED part
    /\ \/ part = "broker" /\ Next /\ UNCHANGED <<stored, msgs, pattern>>
       \/ part = "store" /\ S!Next /\ UNCHANGED <<vars, msgs, pattern>>
       \/ part = "frames" /\ R!Queue /\ UNCHANGED <<vars, stored, pattern>>
       \/ part = "patterns" /\ T!Next /\ UNCHANGED <<vars, stored, msgs>>

ServerSpec == ServerInit /\ [][ServerNext]_<<part, vars, stored, msgs, pattern>>

-----------------------------------------------------------------------------
(* Store: created_at of a retained topic is never later than the one it      *)
(* became retained with, whoever replaces or loads the message (broker.py,   *)
(* proto/util.py), and a row keeps its created_at for as long as no PERSIST  *)
(* replaces it (db.py).                                                      *)
AgesAreKept == []S!RetainedNoYounger /\ S!RowCreatedStable

(* Reduce: which frames have the same effect before and after reduce_msgs    *)
(* and root() sorted and merged them: those whose pairs of messages have it, *)
(* and of the pairs the ones that KeepsPair names.                           *)
ReduceKeepsEffect == part = "frames" => R!ReduceKeepsEffect

(* Topics: an accepted pattern matches the topics that its wildcards stand   *)
(* for, segment by segment (proto/pattern.py), and the query for its rows    *)
(* leaves out none of them (db.py).                                          *)
WildcardsAreSegments == part = "patterns" => T!WildcardsAreSegments /\ T!RowsAreFound
=============================================================================
