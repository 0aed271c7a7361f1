------------------------------ MODULE MCBroker ------------------------------
(* Small instances of Broker: one or two topics, and menus of frames.      *)
EXTENDS Broker, TLC

CONSTANTS c1, c2, v1, v2

Pub(t, v, m) == [type |-> "PUB", pat |-> t, value |-> v, mode |-> m]
Del(p, v) == [type |-> "DEL", pat |-> p, value |-> v, mode |-> None]
Rq(type, p) == [type |-> type, pat |-> p]
PubFrame(msgs) == [pubdel |-> msgs, gsu |-> <<>>, lwt |-> <<>>]
GsuFrame(msgs) == [pubdel |-> <<>>, gsu |-> msgs, lwt |-> <<>>]

ConnTwo == {c1, c2}
SymmetryTwo == Permutations(ConnTwo)

OneTopic == {"/a"}
OneTopicCovers == [p \in OneTopic |-> OneTopic]
TwoTopics == {"/a", "/b"}
TwoTopicPatterns == {"/a", "/b", "/#", "/["}
TwoTopicCovers == [p \in TwoTopicPatterns |-> CASE p = "/#" -> TwoTopics [] p = "/[" -> {} [] OTHER -> {p}]

(* Frames of several messages, deletions, and every kind of request, in the *)
(* order that reduce_msgs sorts them to: type, then topic, then value.      *)
MixedFrames ==
    {PubFrame(<<Pub("/a", v1, "RETAIN"), Pub("/b", v1, "APPEND")>>),
     PubFrame(<<Pub("/a", v2, "SEND"), Pub("/b", v2, "PERSIST")>>),
     PubFrame(<<Del("/#", None), Del("/[", None)>>), PubFrame(<<Pub("/b", v1, "PERSIST"), Del("/b", v1)>>),
     GsuFrame(<<Rq("SUB", "/#"), Rq("UNSUB", "/a")>>), GsuFrame(<<Rq("SUB", "/a"), Rq("GET", "/b")>>)}
MixedMenus == [c \in Conn |-> MixedFrames]
=============================================================================
