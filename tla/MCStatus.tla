------------------------------ MODULE MCStatus ------------------------------
(* Small instances of Status: two connections that may both be of one agent, *)
(* or of an observer that subscribes to its status.                          *)
EXTENDS Status, MCBroker

(* What an agent says when it gets online (main.c). *)
OnlineFrame(t) ==
    [pubdel |-> <<Pub(t, Online, "RETAIN")>>, gsu |-> <<>>, lwt |-> <<OfflineWill(t)>>]
StatusFrames == {OnlineFrame("/a"), GsuFrame(<<Rq("SUB", "/a")>>)}
StatusMenus == [c \in Conn |-> StatusFrames]

(* A pattern that is no regular expression fails whoever matches it. *)
BrokenPatterns == {"/a", "/["}
BrokenCovers == [p \in BrokenPatterns |-> IF p = "/[" THEN {} ELSE {p}]

(* Either may be the agent; one deletes, the other subscribes and requests. *)
Deletes ==
    [pubdel |-> <<Pub("/a", v2, "PERSIST"), Del("/[", None), Del("/a", None)>>, gsu |-> <<>>, lwt |-> <<>>]
Requests ==
    [pubdel |-> <<Pub("/a", v1, "SEND"), Pub("/a", v2, "PERSIST")>>,
     gsu |-> <<Rq("GET", "/a"), Rq("UNSUB", "/a")>>, lwt |-> <<>>]
PersistMenus == [c \in Conn |-> IF c = c1 THEN {OnlineFrame("/a"), Deletes} ELSE StatusFrames \cup {Requests}]
=============================================================================
