---------------------------- MODULE BrokerProofs ----------------------------
(* Theorems about Broker: type correctness, what a handler that has ended  *)
(* leaves behind, that no publication is missed by a subscriber, that      *)
(* PERSIST leaves one value in its topic, and that the broker implements   *)
(* the service of module PubSub.                                           *)
EXTENDS Broker, TLAPS

(* A handler that is inside the treatment of one message has its index on  *)
(* a message of the right kind.                                            *)
PlaceOK ==
    \A c \in Conn :
        /\ pc[c] \in {"store", "scan", "delete"} => k[c] \in DOMAIN frame[c].pubdel
        /\ pc[c] = "store" => Msg(c).type = "PUB"
        /\ pc[c] \in {"scan", "delete"} => Msg(c).type = "DEL"
        /\ pc[c] \in {"cache", "rows"} => k[c] \in DOMAIN frame[c].gsu

TypeInv == TypeOK /\ PlaceOK

LEMMA MsgType ==
    ASSUME TypeOK, NEW c \in Conn, k[c] \in DOMAIN frame[c].pubdel
    PROVE  /\ Msg(c) \in PubDel
           /\ Msg(c).pat \in Pattern
           /\ Msg(c).type = "PUB" => Msg(c).pat \in Topic /\ Msg(c).value \in Value
           /\ Msg(c).mode \in Mode => Msg(c).type = "PUB"
<1>1. frame[c].pubdel \in Seq(PubDel)
  BY DEF TypeOK, Frame
<1>2. Msg(c) \in PubDel
  BY <1>1 DEF Msg
<1> QED
  BY <1>2, TopicsArePatterns, NoneIsNothing DEF PubDel

LEMMA ReqType ==
    ASSUME TypeOK, NEW c \in Conn, k[c] \in DOMAIN frame[c].gsu
    PROVE  Req(c) \in Request
<1>1. frame[c].gsu \in Seq(Request)
  BY DEF TypeOK, Frame
<1> QED
  BY <1>1 DEF Req

LEMMA PubsType ==
    ASSUME NEW s \in Seq(PubDel), NEW i \in Nat
    PROVE  PubsFrom(s, i) \subseteq Row
<1> SUFFICES ASSUME NEW j \in DOMAIN s, s[j].type = "PUB"
             PROVE  <<s[j].pat, s[j].value>> \in Row
  BY DEF PubsFrom
<1>1. s[j] \in PubDel
  OBVIOUS
<1> QED
  BY <1>1 DEF PubDel, Row

LEMMA FrameTypes ==
    /\ NoFrame \in Frame
    /\ NoQueue \in [Conn -> SUBSET Row]
    /\ \A w \in Will : WillFrame(w) \in Frame
<1>1. NoFrame \in Frame
  BY DEF NoFrame, Frame
<1>2. ASSUME NEW w \in Will PROVE WillFrame(w) \in Frame
  <2>1. [type |-> "PUB", pat |-> w.topic, value |-> w.value, mode |-> "RETAIN"] \in PubDel
    BY DEF Will, PubDel, Mode
  <2>2. <<[type |-> "PUB", pat |-> w.topic, value |-> w.value, mode |-> "RETAIN"]>> \in Seq(PubDel)
    BY <2>1
  <2> QED
    BY <2>2 DEF WillFrame, Frame
<1> QED
  BY <1>1, <1>2 DEF NoQueue

LEMMA UnsentType ==
    ASSUME TypeOK, NEW c \in Conn, NEW d \in Conn
    PROVE  Unsent(c, d) \subseteq Row
<1>1. frame[c].pubdel \in Seq(PubDel) /\ k[c] \in Nat /\ queue[c][d] \subseteq Row
  BY DEF TypeOK, Frame
<1>2. PubsFrom(frame[c].pubdel, 1) \subseteq Row /\ PubsFrom(frame[c].pubdel, k[c]) \subseteq Row
  BY <1>1, PubsType
<1> QED
  BY <1>1, <1>2 DEF Unsent, Pubs

(* An exception keeps the types, whatever it leaves in the transaction. *)
LEMMA AbortType ==
    ASSUME TypeInv, NEW c \in Conn, Abort(c), writer' \in Conn \cup {None}, wdb' \subseteq Row
    PROVE  TypeInv'
<1>1. lost' \in [Conn -> SUBSET Row]
  BY UnsentType DEF Abort, TypeInv, TypeOK
<1>2. queue' \in [Conn -> [Conn -> SUBSET Row]]
  BY FrameTypes DEF Abort, TypeInv, TypeOK
<1>3. pc' \in [Conn -> PC]
  BY DEF Abort, Goto, TypeInv, TypeOK, PC, Teardown
<1>4. TypeOK'
  BY <1>1, <1>2, <1>3 DEF Abort, TypeInv, TypeOK, shared
<1>5. PlaceOK'
  BY DEF Abort, Goto, TypeInv, TypeOK, PlaceOK, Msg, shared
<1> QED
  BY <1>4, <1>5 DEF TypeInv

-----------------------------------------------------------------------------
(* One step per action; the conjuncts that the provers do not see through   *)
(* the definitions get a step of their own.                                 *)
LEMMA TypeNext ==
    ASSUME TypeInv, NEW c \in Conn, Handler(c) \/ Environment(c)
    PROVE  TypeInv'
<1> USE DEF Msg, Req
<1>1. CASE Close(c)
  <2>1. TypeOK'
    BY <1>1 DEF Close, TypeInv, PlaceOK, TypeOK, Goto, NextAt, StartAt, local, shared, sqlite, history, PC, Publishing, Saving, Requesting, Teardown
  <2>2. PlaceOK'
    BY <1>1 DEF Close, TypeInv, PlaceOK, TypeOK, Goto, NextAt, StartAt, local, shared, sqlite, history, PC, Publishing, Saving, Requesting, Teardown
  <2> QED
    BY <2>1, <2>2 DEF TypeInv
<1>2. CASE AddConnection(c)
  <2>1. TypeOK'
    BY <1>2 DEF AddConnection, TypeInv, PlaceOK, TypeOK, Goto, NextAt, StartAt, local, shared, sqlite, history, PC, Publishing, Saving, Requesting, Teardown
  <2>2. PlaceOK'
    BY <1>2 DEF AddConnection, TypeInv, PlaceOK, TypeOK, Goto, NextAt, StartAt, local, shared, sqlite, history, PC, Publishing, Saving, Requesting, Teardown
  <2> QED
    BY <2>1, <2>2 DEF TypeInv
<1>3. CASE \E f \in Frames[c] : Receive(c, f)
  <2>1. PICK f \in Frames[c] : Receive(c, f)
    BY <1>3
  <2>2. f \in Frame /\ Pubs(f.pubdel) \subseteq Row
    BY FramesType, PubsType DEF Frame, Pubs
  <2>3. TypeOK'
    BY <1>3, <2>1, <2>2 DEF Receive, TypeInv, PlaceOK, TypeOK, Goto, NextAt, StartAt, local, shared, sqlite, history, PC, Publishing, Saving, Requesting, Teardown
  <2>4. PlaceOK'
    BY <1>3, <2>1, <2>2 DEF Receive, TypeInv, PlaceOK, TypeOK, Goto, NextAt, StartAt, local, shared, sqlite, history, PC, Publishing, Saving, Requesting, Teardown
  <2> QED
    BY <2>3, <2>4 DEF TypeInv
<1>4. CASE ReceiveFails(c)
  BY <1>4, AbortType DEF ReceiveFails, TypeInv, TypeOK
<1>5. CASE SaveSend(c)
  <2>1. TypeOK'
    BY <1>5 DEF SaveSend, TypeInv, PlaceOK, TypeOK, Goto, NextAt, StartAt, local, shared, sqlite, history, PC, Publishing, Saving, Requesting, Teardown
  <2>2. PlaceOK'
    BY <1>5 DEF SaveSend, TypeInv, PlaceOK, TypeOK, Goto, NextAt, StartAt, local, shared, sqlite, history, PC, Publishing, Saving, Requesting, Teardown
  <2> QED
    BY <2>1, <2>2 DEF TypeInv
<1>6. CASE SaveRetain(c)
  <2>1. TypeOK'
    BY <1>6, MsgType DEF SaveRetain, TypeInv, PlaceOK, TypeOK, Goto, NextAt, StartAt, local, shared, sqlite, history, PC, Publishing, Saving, Requesting, Teardown, Mode
  <2>2. PlaceOK'
    BY <1>6, MsgType DEF SaveRetain, TypeInv, PlaceOK, TypeOK, Goto, NextAt, StartAt, local, shared, sqlite, history, PC, Publishing, Saving, Requesting, Teardown, Mode
  <2> QED
    BY <2>1, <2>2 DEF TypeInv
<1>7. CASE SavePersistent(c)
  <2>1. TypeOK'
    BY <1>7, MsgType DEF SavePersistent, TypeInv, PlaceOK, TypeOK, Goto, NextAt, StartAt, local, shared, sqlite, history, PC, Publishing, Saving, Requesting, Teardown, Mode
  <2>2. PlaceOK'
    BY <1>7, MsgType DEF SavePersistent, TypeInv, PlaceOK, TypeOK, Goto, NextAt, StartAt, local, shared, sqlite, history, PC, Publishing, Saving, Requesting, Teardown, Mode
  <2> QED
    BY <2>1, <2>2 DEF TypeInv
<1>8. CASE Store(c)
  <2>1. View(c) \subseteq Row /\ KeepOnly(View(c), Msg(c)) \subseteq Row
    BY DEF View, KeepOnly, TypeInv, TypeOK
  <2>2. <<Msg(c).pat, Msg(c).value>> \in Row
    BY <1>8, MsgType DEF Store, TypeInv, PlaceOK, Row
  <2>3. wdb' \subseteq Row
    BY <1>8, <2>1, <2>2 DEF Store
  <2>4. TypeOK'
    BY <1>8, <2>1, <2>2, <2>3 DEF Store, TypeInv, PlaceOK, TypeOK, Goto, NextAt, StartAt, local, shared, sqlite, history, PC, Publishing, Saving, Requesting, Teardown
  <2>5. PlaceOK'
    BY <1>8, <2>1, <2>2, <2>3 DEF Store, TypeInv, PlaceOK, TypeOK, Goto, NextAt, StartAt, local, shared, sqlite, history, PC, Publishing, Saving, Requesting, Teardown
  <2> QED
    BY <2>4, <2>5 DEF TypeInv
<1>9. CASE StoreFails(c)
  <2>1. KeepOnly(View(c), Msg(c)) \subseteq Row
    BY DEF View, KeepOnly, TypeInv, TypeOK
  <2> QED
    BY <1>9, <2>1, AbortType DEF StoreFails, TypeInv, TypeOK
<1>10. CASE SaveDel(c)
  <2>1. TypeOK'
    BY <1>10, MsgType DEF SaveDel, TypeInv, PlaceOK, TypeOK, Goto, NextAt, StartAt, local, shared, sqlite, history, PC, Publishing, Saving, Requesting, Teardown
  <2>2. PlaceOK'
    BY <1>10, MsgType DEF SaveDel, TypeInv, PlaceOK, TypeOK, Goto, NextAt, StartAt, local, shared, sqlite, history, PC, Publishing, Saving, Requesting, Teardown
  <2> QED
    BY <2>1, <2>2 DEF TypeInv
<1>11. CASE Scan(c)
  <2>1. {r \in View(c) : r[1] \in Covers[Msg(c).pat]} \subseteq Row
    BY DEF View, TypeInv, TypeOK
  <2>2. TypeOK'
    BY <1>11, <2>1 DEF Scan, TypeInv, PlaceOK, TypeOK, Goto, NextAt, StartAt, local, shared, sqlite, history, PC, Publishing, Saving, Requesting, Teardown
  <2>3. PlaceOK'
    BY <1>11, <2>1 DEF Scan, TypeInv, PlaceOK, TypeOK, Goto, NextAt, StartAt, local, shared, sqlite, history, PC, Publishing, Saving, Requesting, Teardown
  <2> QED
    BY <2>2, <2>3 DEF TypeInv
<1>12. CASE Delete(c)
  <2>1. wdb' \subseteq Row /\ writer' \in Conn \cup {None}
    BY <1>12 DEF Delete, View, TypeInv, TypeOK
  <2>2. TypeOK'
    BY <1>12, <2>1 DEF Delete, TypeInv, PlaceOK, TypeOK, Goto, NextAt, StartAt, local, shared, sqlite, history, PC, Publishing, Saving, Requesting, Teardown
  <2>3. PlaceOK'
    BY <1>12, <2>1 DEF Delete, TypeInv, PlaceOK, TypeOK, Goto, NextAt, StartAt, local, shared, sqlite, history, PC, Publishing, Saving, Requesting, Teardown
  <2> QED
    BY <2>2, <2>3 DEF TypeInv
<1>13. CASE BusyTimeout(c)
  BY <1>13, AbortType DEF BusyTimeout, TypeInv, TypeOK
<1>14. CASE Commit(c)
  <2>1. TypeOK'
    BY <1>14 DEF Commit, TypeInv, PlaceOK, TypeOK, Goto, NextAt, StartAt, local, shared, sqlite, history, PC, Publishing, Saving, Requesting, Teardown
  <2>2. PlaceOK'
    BY <1>14 DEF Commit, TypeInv, PlaceOK, TypeOK, Goto, NextAt, StartAt, local, shared, sqlite, history, PC, Publishing, Saving, Requesting, Teardown
  <2> QED
    BY <2>1, <2>2 DEF TypeInv
<1>15. CASE MatchPub(c)
  <2>1. <<Msg(c).pat, Msg(c).value>> \in Row
    BY <1>15, MsgType DEF MatchPub, TypeInv, Row
  <2>2. queue' \in [Conn -> [Conn -> SUBSET Row]]
    <3> DEFINE more == [d \in Conn |-> IF d \in Subscribers(Msg(c).pat)
                            THEN queue[c][d] \cup {<<Msg(c).pat, Msg(c).value>>} ELSE queue[c][d]]
    <3>1. more \in [Conn -> SUBSET Row]
      <4> SUFFICES ASSUME NEW d \in Conn PROVE more[d] \in SUBSET Row
        OBVIOUS
      <4>1. queue[c][d] \subseteq Row
        BY DEF TypeInv, TypeOK
      <4> QED
        BY <4>1, <2>1
    <3>2. queue' = [queue EXCEPT ![c] = more]
      BY <1>15 DEF MatchPub
    <3> QED
      BY <3>1, <3>2 DEF TypeInv, TypeOK
  <2>3. TypeOK'
    BY <1>15, <2>1, <2>2 DEF MatchPub, TypeInv, PlaceOK, TypeOK, Goto, NextAt, StartAt, local, shared, sqlite, history, PC, Publishing, Saving, Requesting, Teardown
  <2>4. PlaceOK'
    BY <1>15, <2>1, <2>2 DEF MatchPub, TypeInv, PlaceOK, TypeOK, Goto, NextAt, StartAt, local, shared, sqlite, history, PC, Publishing, Saving, Requesting, Teardown
  <2> QED
    BY <2>3, <2>4 DEF TypeInv
<1>16. CASE MatchDel(c)
  <2>1. TypeOK'
    BY <1>16 DEF MatchDel, TypeInv, PlaceOK, TypeOK, Goto, NextAt, StartAt, local, shared, sqlite, history, PC, Publishing, Saving, Requesting, Teardown
  <2>2. PlaceOK'
    BY <1>16 DEF MatchDel, TypeInv, PlaceOK, TypeOK, Goto, NextAt, StartAt, local, shared, sqlite, history, PC, Publishing, Saving, Requesting, Teardown
  <2> QED
    BY <2>1, <2>2 DEF TypeInv
<1>17. CASE Discard(c)
  <2>1. TypeOK'
    BY <1>17 DEF Discard, TypeInv, PlaceOK, TypeOK, Goto, NextAt, StartAt, local, shared, sqlite, history, PC, Publishing, Saving, Requesting, Teardown
  <2>2. PlaceOK'
    BY <1>17 DEF Discard, TypeInv, PlaceOK, TypeOK, Goto, NextAt, StartAt, local, shared, sqlite, history, PC, Publishing, Saving, Requesting, Teardown
  <2> QED
    BY <2>1, <2>2 DEF TypeInv
<1>18. CASE \E d \in Conn : Send(c, d)
  <2>1. PICK d \in Conn : Send(c, d)
    BY <1>18
  <2>2. TypeOK'
    BY <1>18, <2>1 DEF Send, TypeInv, PlaceOK, TypeOK, Goto, NextAt, StartAt, local, shared, sqlite, history, PC, Publishing, Saving, Requesting, Teardown
  <2>3. PlaceOK'
    BY <1>18, <2>1 DEF Send, TypeInv, PlaceOK, TypeOK, Goto, NextAt, StartAt, local, shared, sqlite, history, PC, Publishing, Saving, Requesting, Teardown
  <2> QED
    BY <2>2, <2>3 DEF TypeInv
<1>19. CASE \E d \in Conn : SendFails(c, d)
  BY <1>19, AbortType DEF SendFails, TypeInv, TypeOK
<1>20. CASE Sent(c)
  <2>0. pc' \in [Conn -> PC] /\ k' \in [Conn -> Nat \ {0}]
    <3>1. CASE final[c]
      BY <1>20, <3>1 DEF Sent, Goto, TypeInv, TypeOK, PC
    <3>2. CASE ~final[c]
      BY <1>20, <3>2 DEF Sent, Goto, StartAt, TypeInv, TypeOK, PC, Requesting
    <3> QED
      BY <3>1, <3>2
  <2>1. TypeOK'
    BY <1>20, <2>0 DEF Sent, TypeInv, PlaceOK, TypeOK, Goto, NextAt, StartAt, local, shared, sqlite, history, PC, Publishing, Saving, Requesting, Teardown
  <2>2. PlaceOK'
    BY <1>20, <2>0 DEF Sent, TypeInv, PlaceOK, TypeOK, Goto, NextAt, StartAt, local, shared, sqlite, history, PC, Publishing, Saving, Requesting, Teardown
  <2> QED
    BY <2>1, <2>2 DEF TypeInv
<1>21. CASE Get(c)
  <2>1. TypeOK'
    BY <1>21 DEF Get, TypeInv, PlaceOK, TypeOK, Goto, NextAt, StartAt, local, shared, sqlite, history, PC, Publishing, Saving, Requesting, Teardown
  <2>2. PlaceOK'
    BY <1>21 DEF Get, TypeInv, PlaceOK, TypeOK, Goto, NextAt, StartAt, local, shared, sqlite, history, PC, Publishing, Saving, Requesting, Teardown
  <2> QED
    BY <2>1, <2>2 DEF TypeInv
<1>22. CASE Sub(c)
  <2>1. TypeOK'
    BY <1>22, ReqType DEF Sub, TypeInv, PlaceOK, TypeOK, Goto, NextAt, StartAt, local, shared, sqlite, history, PC, Publishing, Saving, Requesting, Teardown, Request
  <2>2. PlaceOK'
    BY <1>22, ReqType DEF Sub, TypeInv, PlaceOK, TypeOK, Goto, NextAt, StartAt, local, shared, sqlite, history, PC, Publishing, Saving, Requesting, Teardown, Request
  <2> QED
    BY <2>1, <2>2 DEF TypeInv
<1>23. CASE Unsub(c)
  <2>1. sub' \in [Pattern -> SUBSET Conn]
    BY <1>23 DEF Unsub, TypeInv, TypeOK
  <2>2. TypeOK'
    BY <1>23, <2>1 DEF Unsub, TypeInv, PlaceOK, TypeOK, Goto, NextAt, StartAt, local, shared, sqlite, history, PC, Publishing, Saving, Requesting, Teardown
  <2>3. PlaceOK'
    BY <1>23, <2>1 DEF Unsub, TypeInv, PlaceOK, TypeOK, Goto, NextAt, StartAt, local, shared, sqlite, history, PC, Publishing, Saving, Requesting, Teardown
  <2> QED
    BY <2>2, <2>3 DEF TypeInv
<1>24. CASE LoadCache(c)
  <2>1. Req(c).pat \in Pattern
    BY <1>24, ReqType DEF LoadCache, TypeInv, PlaceOK, Request
  <2>2. {<<t, cache[t]>> : t \in {t \in Covers[Req(c).pat] : cache[t] # None}} \subseteq Row
    BY <2>1, CoversType DEF TypeInv, TypeOK, Row
  <2>3. queue' \in [Conn -> [Conn -> SUBSET Row]]
    BY <1>24, <2>2 DEF LoadCache, TypeInv, TypeOK
  <2>4. TypeOK'
    BY <1>24, <2>1, <2>2, <2>3 DEF LoadCache, TypeInv, PlaceOK, TypeOK, Goto, NextAt, StartAt, local, shared, sqlite, history, PC, Publishing, Saving, Requesting, Teardown
  <2>5. PlaceOK'
    BY <1>24, <2>1, <2>2, <2>3 DEF LoadCache, TypeInv, PlaceOK, TypeOK, Goto, NextAt, StartAt, local, shared, sqlite, history, PC, Publishing, Saving, Requesting, Teardown
  <2> QED
    BY <2>4, <2>5 DEF TypeInv
<1>25. CASE LoadRows(c)
  <2>1. {r \in View(c) : r[1] \in Covers[Req(c).pat]} \subseteq Row
    BY DEF View, TypeInv, TypeOK
  <2>2. queue' \in [Conn -> [Conn -> SUBSET Row]]
    BY <1>25, <2>1 DEF LoadRows, TypeInv, TypeOK
  <2>3. TypeOK'
    BY <1>25, <2>1, <2>2 DEF LoadRows, TypeInv, PlaceOK, TypeOK, Goto, NextAt, StartAt, local, shared, sqlite, history, PC, Publishing, Saving, Requesting, Teardown
  <2>4. PlaceOK'
    BY <1>25, <2>1, <2>2 DEF LoadRows, TypeInv, PlaceOK, TypeOK, Goto, NextAt, StartAt, local, shared, sqlite, history, PC, Publishing, Saving, Requesting, Teardown
  <2> QED
    BY <2>3, <2>4 DEF TypeInv
<1>26. CASE Reply(c)
  <2>1. TypeOK'
    BY <1>26 DEF Reply, TypeInv, PlaceOK, TypeOK, Goto, NextAt, StartAt, local, shared, sqlite, history, PC, Publishing, Saving, Requesting, Teardown
  <2>2. PlaceOK'
    BY <1>26 DEF Reply, TypeInv, PlaceOK, TypeOK, Goto, NextAt, StartAt, local, shared, sqlite, history, PC, Publishing, Saving, Requesting, Teardown
  <2> QED
    BY <2>1, <2>2 DEF TypeInv
<1>27. CASE ReplyFails(c)
  BY <1>27, AbortType DEF ReplyFails, TypeInv, TypeOK
<1>28. CASE SetWill(c)
  <2>1. lwt' \in [Conn -> Will \cup {None}]
    BY <1>28 DEF SetWill, TypeInv, TypeOK, Frame
  <2>2. frame' \in [Conn -> Frame]
    BY <1>28, FrameTypes DEF SetWill, TypeInv, TypeOK
  <2>3. TypeOK'
    BY <1>28, <2>1, <2>2 DEF SetWill, TypeInv, PlaceOK, TypeOK, Goto, NextAt, StartAt, local, shared, sqlite, history, PC, Publishing, Saving, Requesting, Teardown
  <2>4. PlaceOK'
    BY <1>28, <2>1, <2>2 DEF SetWill, TypeInv, PlaceOK, TypeOK, Goto, NextAt, StartAt, local, shared, sqlite, history, PC, Publishing, Saving, Requesting, Teardown
  <2> QED
    BY <2>3, <2>4 DEF TypeInv
<1>29. CASE DelConn(c)
  <2>1. TypeOK'
    BY <1>29 DEF DelConn, TypeInv, PlaceOK, TypeOK, Goto, NextAt, StartAt, local, shared, sqlite, history, PC, Publishing, Saving, Requesting, Teardown
  <2>2. PlaceOK'
    BY <1>29 DEF DelConn, TypeInv, PlaceOK, TypeOK, Goto, NextAt, StartAt, local, shared, sqlite, history, PC, Publishing, Saving, Requesting, Teardown
  <2> QED
    BY <2>1, <2>2 DEF TypeInv
<1>30. CASE DelSub(c)
  <2>1. TypeOK'
    BY <1>30 DEF DelSub, TypeInv, PlaceOK, TypeOK, Goto, NextAt, StartAt, local, shared, sqlite, history, PC, Publishing, Saving, Requesting, Teardown
  <2>2. PlaceOK'
    BY <1>30 DEF DelSub, TypeInv, PlaceOK, TypeOK, Goto, NextAt, StartAt, local, shared, sqlite, history, PC, Publishing, Saving, Requesting, Teardown
  <2> QED
    BY <2>1, <2>2 DEF TypeInv
<1>31. CASE DelWill(c)
  <2>1. lwt[c] = None \/ WillFrame(lwt[c]) \in Frame
    BY FrameTypes DEF TypeInv, TypeOK
  <2>2. frame' \in [Conn -> Frame]
    BY <1>31, <2>1 DEF DelWill, TypeInv, TypeOK
  <2>3. known' \in [Conn -> SUBSET Row]
    BY <1>31 DEF DelWill, TypeInv, TypeOK
  <2>4. CASE lwt[c] = None
    BY <1>31, <2>4 DEF DelWill, TypeInv, TypeOK, PlaceOK, Goto, sqlite, PC
  <2>5. CASE lwt[c] # None
    <3>1. pc' = [pc EXCEPT ![c] = "save"] /\ k' = [k EXCEPT ![c] = 1] /\ final' = [final EXCEPT ![c] = TRUE]
      BY <1>31, <2>5 DEF DelWill, StartAt, Goto
    <3>2. TypeOK'
      BY <1>31, <2>2, <2>3, <3>1 DEF DelWill, TypeInv, TypeOK, sqlite, PC, Publishing, Saving
    <3>3. frame' = [frame EXCEPT ![c] = WillFrame(lwt[c])]
      BY <1>31, <2>5 DEF DelWill
    <3>4. PlaceOK'
      BY <3>1, <3>3 DEF TypeInv, TypeOK, PlaceOK
    <3> QED
      BY <3>2, <3>4 DEF TypeInv
  <2> QED
    BY <2>4, <2>5
<1>32. CASE End(c)
  <2>1. frame' \in [Conn -> Frame]
    BY <1>32, FrameTypes DEF End, TypeInv, TypeOK
  <2>2. TypeOK'
    BY <1>32, <2>1 DEF End, TypeInv, PlaceOK, TypeOK, Goto, NextAt, StartAt, local, shared, sqlite, history, PC, Publishing, Saving, Requesting, Teardown
  <2>3. PlaceOK'
    BY <1>32, <2>1 DEF End, TypeInv, PlaceOK, TypeOK, Goto, NextAt, StartAt, local, shared, sqlite, history, PC, Publishing, Saving, Requesting, Teardown
  <2> QED
    BY <2>2, <2>3 DEF TypeInv
<1>33. CASE MatchFails(c)
  BY <1>33, AbortType DEF MatchFails, TypeInv, TypeOK
<1>34. CASE SaveDelFails(c)
  BY <1>34, AbortType DEF SaveDelFails, TypeInv, TypeOK
<1> QED
  BY <1>1, <1>2, <1>3, <1>4, <1>5, <1>6, <1>7, <1>8, <1>9, <1>10, <1>11, <1>12, <1>13, <1>14, <1>15, <1>16, <1>17, <1>18, <1>19, <1>20, <1>21, <1>22, <1>23, <1>24, <1>25, <1>26, <1>27, <1>28, <1>29, <1>30, <1>31, <1>32, <1>33, <1>34 DEF Handler, Environment

THEOREM TypeInvariant == Spec => []TypeInv
<1>1. Init => TypeInv
  BY FrameTypes DEF Init, TypeInv, TypeOK, PlaceOK, PC
<1>2. TypeInv /\ [Next]_vars => TypeInv'
  <2>1. CASE Next
    BY <2>1, TypeNext DEF Next
  <2>2. CASE UNCHANGED vars
    BY <2>2 DEF vars, local, shared, sqlite, history, TypeInv, TypeOK, PlaceOK, Msg
  <2> QED
    BY <2>1, <2>2
<1> QED
  BY <1>1, <1>2, PTL DEF Spec

(* Every variable of the broker and its handlers keeps its type. *)
THEOREM TypeCorrect == Spec => []TypeOK
<1>1. TypeInv => TypeOK
  BY DEF TypeInv
<1> QED
  BY <1>1, TypeInvariant, PTL

-----------------------------------------------------------------------------
(* What a handler has given back by the time it is at a given place.       *)
LeavingOK ==
    \A c \in Conn :
        /\ final[c] => pc[c] \in Publishing \cup {"end", "done"}
        /\ final[c] \/ pc[c] \in {"dellwt", "end", "done"} => \A p \in Pattern : c \notin sub[p]
        /\ final[c] \/ pc[c] \in {"delsub", "dellwt", "end", "done"} => c \notin conn
        /\ final[c] \/ pc[c] \in {"end", "done"} => lwt[c] = None
        /\ writer = c => pc[c] \in Saving \cup Teardown \cup {"end"}

(* The send queue is filled by get_subs or by load_msgs, and empty elsewhere. *)
QueueOK ==
    \A c \in Conn :
        /\ pc[c] \notin {"match", "send"} \cup Requesting => queue[c] = NoQueue
        /\ pc[c] \in Requesting => \A d \in Conn : d # c => queue[c][d] = {}

CleanInv == TypeInv /\ LeavingOK /\ QueueOK

LEMMA AbortClean ==
    ASSUME CleanInv, NEW c \in Conn, Abort(c),
           \/ writer' = writer
           \/ writer' = c /\ writer = None
    PROVE  LeavingOK' /\ QueueOK'
<1>1. LeavingOK'
  BY NoneIsNothing DEF CleanInv, TypeInv, TypeOK, LeavingOK, Abort, Goto, shared, Saving, Publishing, Teardown
<1>2. QueueOK'
  BY DEF CleanInv, TypeInv, TypeOK, QueueOK, Abort, Goto, NoQueue, Requesting
<1> QED
  BY <1>1, <1>2

LEMMA CleanNext ==
    ASSUME CleanInv, NEW c \in Conn, Handler(c) \/ Environment(c)
    PROVE  LeavingOK' /\ QueueOK'
<1> USE NoneIsNothing DEF CleanInv, TypeInv, TypeOK
<1>1. CASE Close(c)
  <2>1. LeavingOK'
    BY <1>1 DEF Close, LeavingOK, Goto, NextAt, StartAt, local, shared, sqlite, history, Saving, Publishing, Requesting, Teardown
  <2>2. QueueOK'
    BY <1>1 DEF Close, QueueOK, NoQueue, Goto, NextAt, StartAt, local, shared, sqlite, history, Saving, Publishing, Requesting, Teardown
  <2> QED
    BY <2>1, <2>2
<1>2. CASE AddConnection(c)
  <2>1. LeavingOK'
    BY <1>2 DEF AddConnection, LeavingOK, Goto, NextAt, StartAt, local, shared, sqlite, history, Saving, Publishing, Requesting, Teardown
  <2>2. QueueOK'
    BY <1>2 DEF AddConnection, QueueOK, NoQueue, Goto, NextAt, StartAt, local, shared, sqlite, history, Saving, Publishing, Requesting, Teardown
  <2> QED
    BY <2>1, <2>2
<1>3. CASE \E f \in Frames[c] : Receive(c, f)
  <2>1. LeavingOK'
    BY <1>3 DEF Receive, LeavingOK, Goto, NextAt, StartAt, local, shared, sqlite, history, Saving, Publishing, Requesting, Teardown
  <2>2. QueueOK'
    BY <1>3 DEF Receive, QueueOK, NoQueue, Goto, NextAt, StartAt, local, shared, sqlite, history, Saving, Publishing, Requesting, Teardown
  <2> QED
    BY <2>1, <2>2
<1>4. CASE ReceiveFails(c)
  BY <1>4, AbortClean DEF ReceiveFails
<1>5. CASE SaveSend(c)
  <2>1. LeavingOK'
    BY <1>5 DEF SaveSend, LeavingOK, Goto, NextAt, StartAt, local, shared, sqlite, history, Saving, Publishing, Requesting, Teardown
  <2>2. QueueOK'
    BY <1>5 DEF SaveSend, QueueOK, NoQueue, Goto, NextAt, StartAt, local, shared, sqlite, history, Saving, Publishing, Requesting, Teardown
  <2> QED
    BY <2>1, <2>2
<1>6. CASE SaveRetain(c)
  <2>1. LeavingOK'
    BY <1>6 DEF SaveRetain, LeavingOK, Goto, NextAt, StartAt, local, shared, sqlite, history, Saving, Publishing, Requesting, Teardown
  <2>2. QueueOK'
    BY <1>6 DEF SaveRetain, QueueOK, NoQueue, Goto, NextAt, StartAt, local, shared, sqlite, history, Saving, Publishing, Requesting, Teardown
  <2> QED
    BY <2>1, <2>2
<1>7. CASE SavePersistent(c)
  <2>1. LeavingOK'
    BY <1>7 DEF SavePersistent, LeavingOK, Goto, NextAt, StartAt, local, shared, sqlite, history, Saving, Publishing, Requesting, Teardown
  <2>2. QueueOK'
    BY <1>7 DEF SavePersistent, QueueOK, NoQueue, Goto, NextAt, StartAt, local, shared, sqlite, history, Saving, Publishing, Requesting, Teardown
  <2> QED
    BY <2>1, <2>2
<1>8. CASE Store(c)
  <2>1. LeavingOK'
    BY <1>8 DEF Store, LeavingOK, Goto, NextAt, StartAt, local, shared, sqlite, history, Saving, Publishing, Requesting, Teardown
  <2>2. QueueOK'
    BY <1>8 DEF Store, QueueOK, NoQueue, Goto, NextAt, StartAt, local, shared, sqlite, history, Saving, Publishing, Requesting, Teardown
  <2> QED
    BY <2>1, <2>2
<1>9. CASE StoreFails(c)
  BY <1>9, AbortClean DEF StoreFails
<1>10. CASE SaveDel(c)
  <2>1. LeavingOK'
    BY <1>10 DEF SaveDel, LeavingOK, Goto, NextAt, StartAt, local, shared, sqlite, history, Saving, Publishing, Requesting, Teardown
  <2>2. QueueOK'
    BY <1>10 DEF SaveDel, QueueOK, NoQueue, Goto, NextAt, StartAt, local, shared, sqlite, history, Saving, Publishing, Requesting, Teardown
  <2> QED
    BY <2>1, <2>2
<1>11. CASE Scan(c)
  <2>1. LeavingOK'
    BY <1>11 DEF Scan, LeavingOK, Goto, NextAt, StartAt, local, shared, sqlite, history, Saving, Publishing, Requesting, Teardown
  <2>2. QueueOK'
    BY <1>11 DEF Scan, QueueOK, NoQueue, Goto, NextAt, StartAt, local, shared, sqlite, history, Saving, Publishing, Requesting, Teardown
  <2> QED
    BY <2>1, <2>2
<1>12. CASE Delete(c)
  <2>1. LeavingOK'
    BY <1>12 DEF Delete, LeavingOK, Goto, NextAt, StartAt, local, shared, sqlite, history, Saving, Publishing, Requesting, Teardown
  <2>2. QueueOK'
    BY <1>12 DEF Delete, QueueOK, NoQueue, Goto, NextAt, StartAt, local, shared, sqlite, history, Saving, Publishing, Requesting, Teardown
  <2> QED
    BY <2>1, <2>2
<1>13. CASE BusyTimeout(c)
  BY <1>13, AbortClean DEF BusyTimeout
<1>14. CASE Commit(c)
  <2>1. LeavingOK'
    BY <1>14 DEF Commit, LeavingOK, Goto, NextAt, StartAt, local, shared, sqlite, history, Saving, Publishing, Requesting, Teardown
  <2>2. QueueOK'
    BY <1>14 DEF Commit, QueueOK, NoQueue, Goto, NextAt, StartAt, local, shared, sqlite, history, Saving, Publishing, Requesting, Teardown
  <2> QED
    BY <2>1, <2>2
<1>15. CASE MatchPub(c)
  <2>1. LeavingOK'
    BY <1>15 DEF MatchPub, LeavingOK, Goto, NextAt, StartAt, local, shared, sqlite, history, Saving, Publishing, Requesting, Teardown
  <2>2. QueueOK'
    BY <1>15 DEF MatchPub, QueueOK, NoQueue, Goto, NextAt, StartAt, local, shared, sqlite, history, Saving, Publishing, Requesting, Teardown
  <2> QED
    BY <2>1, <2>2
<1>16. CASE MatchDel(c)
  <2>1. LeavingOK'
    BY <1>16 DEF MatchDel, LeavingOK, Goto, NextAt, StartAt, local, shared, sqlite, history, Saving, Publishing, Requesting, Teardown
  <2>2. QueueOK'
    BY <1>16 DEF MatchDel, QueueOK, NoQueue, Goto, NextAt, StartAt, local, shared, sqlite, history, Saving, Publishing, Requesting, Teardown
  <2> QED
    BY <2>1, <2>2
<1>17. CASE Discard(c)
  <2>1. LeavingOK'
    BY <1>17 DEF Discard, LeavingOK, Goto, NextAt, StartAt, local, shared, sqlite, history, Saving, Publishing, Requesting, Teardown
  <2>2. QueueOK'
    BY <1>17 DEF Discard, QueueOK, NoQueue, Goto, NextAt, StartAt, local, shared, sqlite, history, Saving, Publishing, Requesting, Teardown
  <2> QED
    BY <2>1, <2>2
<1>18. CASE \E d \in Conn : Send(c, d)
  <2>1. LeavingOK'
    BY <1>18 DEF Send, LeavingOK, Goto, NextAt, StartAt, local, shared, sqlite, history, Saving, Publishing, Requesting, Teardown
  <2>2. QueueOK'
    BY <1>18 DEF Send, QueueOK, NoQueue, Goto, NextAt, StartAt, local, shared, sqlite, history, Saving, Publishing, Requesting, Teardown
  <2> QED
    BY <2>1, <2>2
<1>19. CASE \E d \in Conn : SendFails(c, d)
  BY <1>19, AbortClean DEF SendFails
<1>20. CASE Sent(c)
  <2>1. LeavingOK'
    BY <1>20 DEF Sent, LeavingOK, Goto, NextAt, StartAt, local, shared, sqlite, history, Saving, Publishing, Requesting, Teardown
  <2>2. QueueOK'
    BY <1>20 DEF Sent, QueueOK, NoQueue, Goto, NextAt, StartAt, local, shared, sqlite, history, Saving, Publishing, Requesting, Teardown
  <2> QED
    BY <2>1, <2>2
<1>21. CASE Get(c)
  <2>1. LeavingOK'
    BY <1>21 DEF Get, LeavingOK, Goto, NextAt, StartAt, local, shared, sqlite, history, Saving, Publishing, Requesting, Teardown
  <2>2. QueueOK'
    BY <1>21 DEF Get, QueueOK, NoQueue, Goto, NextAt, StartAt, local, shared, sqlite, history, Saving, Publishing, Requesting, Teardown
  <2> QED
    BY <2>1, <2>2
<1>22. CASE Sub(c)
  <2>1. LeavingOK'
    BY <1>22 DEF Sub, LeavingOK, Goto, NextAt, StartAt, local, shared, sqlite, history, Saving, Publishing, Requesting, Teardown
  <2>2. QueueOK'
    BY <1>22 DEF Sub, QueueOK, NoQueue, Goto, NextAt, StartAt, local, shared, sqlite, history, Saving, Publishing, Requesting, Teardown
  <2> QED
    BY <2>1, <2>2
<1>23. CASE Unsub(c)
  <2>1. LeavingOK'
    BY <1>23 DEF Unsub, LeavingOK, Goto, NextAt, StartAt, local, shared, sqlite, history, Saving, Publishing, Requesting, Teardown
  <2>2. QueueOK'
    BY <1>23 DEF Unsub, QueueOK, NoQueue, Goto, NextAt, StartAt, local, shared, sqlite, history, Saving, Publishing, Requesting, Teardown
  <2> QED
    BY <2>1, <2>2
<1>24. CASE LoadCache(c)
  <2>1. LeavingOK'
    BY <1>24 DEF LoadCache, LeavingOK, Goto, NextAt, StartAt, local, shared, sqlite, history, Saving, Publishing, Requesting, Teardown
  <2>2. QueueOK'
    BY <1>24 DEF LoadCache, QueueOK, NoQueue, Goto, NextAt, StartAt, local, shared, sqlite, history, Saving, Publishing, Requesting, Teardown
  <2> QED
    BY <2>1, <2>2
<1>25. CASE LoadRows(c)
  <2>1. LeavingOK'
    BY <1>25 DEF LoadRows, LeavingOK, Goto, NextAt, StartAt, local, shared, sqlite, history, Saving, Publishing, Requesting, Teardown
  <2>2. QueueOK'
    BY <1>25 DEF LoadRows, QueueOK, NoQueue, Goto, NextAt, StartAt, local, shared, sqlite, history, Saving, Publishing, Requesting, Teardown
  <2> QED
    BY <2>1, <2>2
<1>26. CASE Reply(c)
  <2>1. LeavingOK'
    BY <1>26 DEF Reply, LeavingOK, Goto, NextAt, StartAt, local, shared, sqlite, history, Saving, Publishing, Requesting, Teardown
  <2>2. QueueOK'
    BY <1>26 DEF Reply, QueueOK, NoQueue, Goto, NextAt, StartAt, local, shared, sqlite, history, Saving, Publishing, Requesting, Teardown
  <2> QED
    BY <2>1, <2>2
<1>27. CASE ReplyFails(c)
  BY <1>27, AbortClean DEF ReplyFails
<1>28. CASE SetWill(c)
  <2>1. LeavingOK'
    BY <1>28 DEF SetWill, LeavingOK, Goto, NextAt, StartAt, local, shared, sqlite, history, Saving, Publishing, Requesting, Teardown
  <2>2. QueueOK'
    BY <1>28 DEF SetWill, QueueOK, NoQueue, Goto, NextAt, StartAt, local, shared, sqlite, history, Saving, Publishing, Requesting, Teardown
  <2> QED
    BY <2>1, <2>2
<1>29. CASE DelConn(c)
  <2>1. LeavingOK'
    BY <1>29 DEF DelConn, LeavingOK, Goto, NextAt, StartAt, local, shared, sqlite, history, Saving, Publishing, Requesting, Teardown
  <2>2. QueueOK'
    BY <1>29 DEF DelConn, QueueOK, NoQueue, Goto, NextAt, StartAt, local, shared, sqlite, history, Saving, Publishing, Requesting, Teardown
  <2> QED
    BY <2>1, <2>2
<1>30. CASE DelSub(c)
  <2>1. LeavingOK'
    BY <1>30 DEF DelSub, LeavingOK, Goto, NextAt, StartAt, local, shared, sqlite, history, Saving, Publishing, Requesting, Teardown
  <2>2. QueueOK'
    BY <1>30 DEF DelSub, QueueOK, NoQueue, Goto, NextAt, StartAt, local, shared, sqlite, history, Saving, Publishing, Requesting, Teardown
  <2> QED
    BY <2>1, <2>2
<1>31. CASE DelWill(c)
  <2>1. LeavingOK'
    BY <1>31 DEF DelWill, LeavingOK, Goto, NextAt, StartAt, local, shared, sqlite, history, Saving, Publishing, Requesting, Teardown
  <2>2. QueueOK'
    BY <1>31 DEF DelWill, QueueOK, NoQueue, Goto, NextAt, StartAt, local, shared, sqlite, history, Saving, Publishing, Requesting, Teardown
  <2> QED
    BY <2>1, <2>2
<1>32. CASE End(c)
  <2>1. LeavingOK'
    BY <1>32 DEF End, LeavingOK, Goto, NextAt, StartAt, local, shared, sqlite, history, Saving, Publishing, Requesting, Teardown
  <2>2. QueueOK'
    BY <1>32 DEF End, QueueOK, NoQueue, Goto, NextAt, StartAt, local, shared, sqlite, history, Saving, Publishing, Requesting, Teardown
  <2> QED
    BY <2>1, <2>2
<1>33. CASE MatchFails(c)
  BY <1>33, AbortClean DEF MatchFails
<1>34. CASE SaveDelFails(c)
  BY <1>34, AbortClean DEF SaveDelFails
<1> QED
  BY <1>1, <1>2, <1>3, <1>4, <1>5, <1>6, <1>7, <1>8, <1>9, <1>10, <1>11, <1>12, <1>13, <1>14, <1>15, <1>16, <1>17, <1>18, <1>19, <1>20, <1>21, <1>22, <1>23, <1>24, <1>25, <1>26, <1>27, <1>28, <1>29, <1>30, <1>31, <1>32, <1>33, <1>34 DEF Handler, Environment

THEOREM CleanInvariant == Spec => []CleanInv
<1>1. Init => LeavingOK /\ QueueOK
  BY NoneIsNothing DEF Init, LeavingOK, QueueOK, NoQueue, Requesting
<1>2. LeavingOK /\ QueueOK /\ TypeInv /\ TypeInv' /\ [Next]_vars => (LeavingOK /\ QueueOK)'
  <2> SUFFICES ASSUME LeavingOK, QueueOK, TypeInv, [Next]_vars
               PROVE  (LeavingOK /\ QueueOK)'
    OBVIOUS
  <2>1. CASE Next
    BY <2>1, CleanNext DEF Next, CleanInv
  <2>2. CASE UNCHANGED vars
    BY <2>2 DEF vars, local, shared, sqlite, history, LeavingOK, QueueOK, NoQueue
  <2> QED
    BY <2>1, <2>2
<1>3. LeavingOK /\ QueueOK /\ TypeInv => CleanInv
  BY DEF CleanInv
<1> QED
  BY <1>1, <1>2, <1>3, TypeInvariant, PTL DEF Spec

(* A handler that has ended is in no table of the broker, has no row left   *)
(* to send and does not hold SQLite's write lock.                           *)
THEOREM EndedHandlerIsClean == Spec => []DoneIsClean
<1>1. CleanInv => DoneIsClean
  BY DEF CleanInv, LeavingOK, QueueOK, DoneIsClean, Saving, Teardown, Requesting
<1> QED
  BY <1>1, CleanInvariant, PTL

-----------------------------------------------------------------------------
(* No publication is missed.  The argument follows a row: once it is        *)
(* accounted for at a subscriber it stays so (AccountedKept), and whoever    *)
(* makes a row visible in the cache or in the database still has it to send. *)

(* A step of c changes the local state of no other handler. *)
LEMMA LocalStep ==
    ASSUME CleanInv, NEW c \in Conn, Handler(c) \/ Environment(c),
           NEW a \in Conn, a # c
    PROVE  /\ pc'[a] = pc[a] /\ frame'[a] = frame[a] /\ k'[a] = k[a] /\ queue'[a] = queue[a]
           /\ \A d \in Conn : Pending(a, d)' = Pending(a, d)
<1>1. pc'[a] = pc[a] /\ frame'[a] = frame[a] /\ k'[a] = k[a] /\ queue'[a] = queue[a]
  <2> USE DEF CleanInv, TypeInv, TypeOK, Goto, NextAt, StartAt, local, shared, sqlite, history, Abort
  <2>1. CASE Close(c)
    BY <2>1 DEF Close
  <2>2. CASE AddConnection(c)
    BY <2>2 DEF AddConnection
  <2>3. CASE \E f \in Frames[c] : Receive(c, f)
    BY <2>3 DEF Receive
  <2>4. CASE ReceiveFails(c)
    BY <2>4 DEF ReceiveFails
  <2>5. CASE SaveSend(c)
    BY <2>5 DEF SaveSend
  <2>6. CASE SaveRetain(c)
    BY <2>6 DEF SaveRetain
  <2>7. CASE SavePersistent(c)
    BY <2>7 DEF SavePersistent
  <2>8. CASE Store(c)
    BY <2>8 DEF Store
  <2>9. CASE StoreFails(c)
    BY <2>9 DEF StoreFails
  <2>10. CASE SaveDel(c)
    BY <2>10 DEF SaveDel
  <2>11. CASE Scan(c)
    BY <2>11 DEF Scan
  <2>12. CASE Delete(c)
    BY <2>12 DEF Delete
  <2>13. CASE BusyTimeout(c)
    BY <2>13 DEF BusyTimeout
  <2>14. CASE Commit(c)
    BY <2>14 DEF Commit
  <2>15. CASE MatchPub(c)
    BY <2>15 DEF MatchPub
  <2>16. CASE MatchDel(c)
    BY <2>16 DEF MatchDel
  <2>17. CASE Discard(c)
    BY <2>17 DEF Discard
  <2>18. CASE \E d \in Conn : Send(c, d)
    BY <2>18 DEF Send
  <2>19. CASE \E d \in Conn : SendFails(c, d)
    BY <2>19 DEF SendFails
  <2>20. CASE Sent(c)
    BY <2>20 DEF Sent
  <2>21. CASE Get(c)
    BY <2>21 DEF Get
  <2>22. CASE Sub(c)
    BY <2>22 DEF Sub
  <2>23. CASE Unsub(c)
    BY <2>23 DEF Unsub
  <2>24. CASE LoadCache(c)
    BY <2>24 DEF LoadCache
  <2>25. CASE LoadRows(c)
    BY <2>25 DEF LoadRows
  <2>26. CASE Reply(c)
    BY <2>26 DEF Reply
  <2>27. CASE ReplyFails(c)
    BY <2>27 DEF ReplyFails
  <2>28. CASE SetWill(c)
    BY <2>28 DEF SetWill
  <2>29. CASE DelConn(c)
    BY <2>29 DEF DelConn
  <2>30. CASE DelSub(c)
    BY <2>30 DEF DelSub
  <2>31. CASE DelWill(c)
    BY <2>31 DEF DelWill
  <2>32. CASE End(c)
    BY <2>32 DEF End
  <2>33. CASE MatchFails(c)
    BY <2>33 DEF MatchFails
  <2>34. CASE SaveDelFails(c)
    BY <2>34 DEF SaveDelFails
  <2> QED
    BY <2>1, <2>2, <2>3, <2>4, <2>5, <2>6, <2>7, <2>8, <2>9, <2>10, <2>11, <2>12, <2>13, <2>14, <2>15, <2>16, <2>17, <2>18, <2>19, <2>20, <2>21, <2>22, <2>23, <2>24, <2>25, <2>26, <2>27, <2>28, <2>29, <2>30, <2>31, <2>32, <2>33, <2>34 DEF Handler, Environment
<1>2. ASSUME NEW d \in Conn PROVE Pending(a, d)' = Pending(a, d)
  BY <1>1 DEF Pending, Unsent, Pubs
<1> QED
  BY <1>1, <1>2

(* What an exception takes out of a handler's hands is lost, not forgotten. *)
LEMMA AbortKept ==
    ASSUME CleanInv, NEW c \in Conn, Abort(c), NEW d \in Conn
    PROVE  /\ known'[d] = known[d]
           /\ lost[d] \subseteq lost'[d]
           /\ Pending(c, d) \subseteq lost'[d]
<1>1. lost'[d] = lost[d] \cup Unsent(c, d)
  BY DEF Abort
<1> QED
  BY <1>1 DEF Abort, Pending

(* The rows still to be matched shrink by the message that is matched. *)
LEMMA PubsFromStep ==
    ASSUME NEW s \in Seq(PubDel), NEW i \in Nat \ {0}
    PROVE  /\ i \notin DOMAIN s => PubsFrom(s, i) = {}
           /\ i \in DOMAIN s => PubsFrom(s, i) \subseteq
                  PubsFrom(s, i + 1) \cup {r \in {<<s[i].pat, s[i].value>>} : s[i].type = "PUB"}
<1>1. DOMAIN s = 1 .. Len(s)
  OBVIOUS
<1>2. ASSUME i \notin DOMAIN s PROVE PubsFrom(s, i) = {}
  BY <1>1, <1>2 DEF PubsFrom
<1>3. ASSUME i \in DOMAIN s, NEW r \in PubsFrom(s, i)
      PROVE  r \in PubsFrom(s, i + 1) \/ (s[i].type = "PUB" /\ r = <<s[i].pat, s[i].value>>)
  <2>1. PICK j \in DOMAIN s : j >= i /\ s[j].type = "PUB" /\ r = <<s[j].pat, s[j].value>>
    BY <1>3 DEF PubsFrom
  <2>2. CASE j = i
    BY <2>1, <2>2
  <2>3. CASE j # i
    <3>1. j >= i + 1
      BY <1>1, <2>1, <2>3
    <3> QED
      BY <2>1, <3>1 DEF PubsFrom
  <2> QED
    BY <2>2, <2>3
<1> QED
  BY <1>2, <1>3

(* What a step of c does with a row that concerns a subscriber. *)
LEMMA RowKept ==
    ASSUME CleanInv, NEW c \in Conn, Handler(c) \/ Environment(c),
           NEW p \in Pattern, NEW d \in sub[p], NEW r, r[1] \in Covers[p]
    PROVE  /\ r \in known[d] => r \in known'[d] \/ r \in Pending(c, d)'
           /\ lost[d] \subseteq lost'[d]
           /\ r \in Pending(c, d) => r \in Pending(c, d)' \/ r \in known'[d] \/ r \in lost'[d]
<1>0. d \in Conn
  BY DEF CleanInv, TypeInv, TypeOK
<1> USE <1>0 DEF CleanInv, TypeInv, TypeOK, Goto, NextAt, StartAt, local, shared, sqlite, history
<1>1. CASE Close(c)
  BY <1>1 DEF Close, Pending, Unsent, Pubs, QueueOK, NoQueue, Saving, Publishing, Requesting
<1>2. CASE AddConnection(c)
  BY <1>2 DEF AddConnection, Pending, Unsent, Pubs, QueueOK, NoQueue, Saving, Publishing, Requesting
<1>3. CASE \E f \in Frames[c] : Receive(c, f)
  <2>1. PICK f \in Frames[c] : Receive(c, f)
    BY <1>3
  <2>2. pc[c] = "recv" /\ Pending(c, d) = {} /\ lost' = lost
    BY <2>1 DEF Receive, Pending, Unsent, QueueOK, NoQueue, Saving, Publishing, Requesting
  <2>3. CASE f.pubdel = <<>>
    <3>1. Pubs(f.pubdel) = {}
      BY <2>3 DEF Pubs, PubsFrom
    <3> QED
      BY <2>1, <2>2, <3>1 DEF Receive
  <2>4. CASE f.pubdel # <<>> /\ d # c
    <3>1. Pending(c, d)' = Pubs(f.pubdel)
      BY <2>1, <2>4 DEF Receive, Pending, Unsent, Pubs, Saving
    <3> QED
      BY <2>1, <2>2, <3>1 DEF Receive
  <2>5. CASE d = c
    BY <2>1, <2>2, <2>5 DEF Receive
  <2> QED
    BY <2>3, <2>4, <2>5
<1>4. CASE ReceiveFails(c)
  BY <1>4, AbortKept DEF ReceiveFails
<1>5. CASE SaveSend(c)
  BY <1>5 DEF SaveSend, Pending, Unsent, Pubs, QueueOK, NoQueue, Saving, Publishing, Requesting
<1>6. CASE SaveRetain(c)
  BY <1>6 DEF SaveRetain, Pending, Unsent, Pubs, QueueOK, NoQueue, Saving, Publishing, Requesting
<1>7. CASE SavePersistent(c)
  BY <1>7 DEF SavePersistent, Pending, Unsent, Pubs, QueueOK, NoQueue, Saving, Publishing, Requesting
<1>8. CASE Store(c)
  BY <1>8 DEF Store, Pending, Unsent, Pubs, QueueOK, NoQueue, Saving, Publishing, Requesting
<1>9. CASE StoreFails(c)
  BY <1>9, AbortKept DEF StoreFails
<1>10. CASE SaveDel(c)
  BY <1>10 DEF SaveDel, Pending, Unsent, Pubs, QueueOK, NoQueue, Saving, Publishing, Requesting
<1>11. CASE Scan(c)
  BY <1>11 DEF Scan, Pending, Unsent, Pubs, QueueOK, NoQueue, Saving, Publishing, Requesting
<1>12. CASE Delete(c)
  BY <1>12 DEF Delete, Pending, Unsent, Pubs, QueueOK, NoQueue, Saving, Publishing, Requesting
<1>13. CASE BusyTimeout(c)
  BY <1>13, AbortKept DEF BusyTimeout
<1>14. CASE Commit(c)
  BY <1>14 DEF Commit, Pending, Unsent, Pubs, QueueOK, NoQueue, Saving, Publishing, Requesting
<1>15. CASE MatchPub(c)
  <2>1. frame[c].pubdel \in Seq(PubDel) /\ k[c] \in Nat \ {0}
    BY DEF Frame
  <2>2. PubsFrom(frame[c].pubdel, k[c])
            \subseteq PubsFrom(frame[c].pubdel, k[c] + 1) \cup {<<Msg(c).pat, Msg(c).value>>}
    BY <1>15, <2>1, PubsFromStep DEF MatchPub, Msg
  <2>3. r = <<Msg(c).pat, Msg(c).value>> => d \in Subscribers(Msg(c).pat)
    BY DEF Subscribers
  <2>4. /\ queue[c][d] \subseteq queue'[c][d]
        /\ d \in Subscribers(Msg(c).pat) => <<Msg(c).pat, Msg(c).value>> \in queue'[c][d]
    BY <1>15 DEF MatchPub
  <2> QED
    BY <1>15, <2>2, <2>3, <2>4 DEF MatchPub, Pending, Unsent, Saving, Publishing
<1>16. CASE MatchDel(c)
  <2>1. frame[c].pubdel \in Seq(PubDel) /\ k[c] \in Nat \ {0}
    BY DEF Frame
  <2>2. PubsFrom(frame[c].pubdel, k[c]) \subseteq PubsFrom(frame[c].pubdel, k[c] + 1)
    BY <1>16, <2>1, PubsFromStep DEF MatchDel, Msg
  <2> QED
    BY <1>16, <2>2 DEF MatchDel, Pending, Unsent, Saving, Publishing
<1>17. CASE Discard(c)
  <2>1. frame[c].pubdel \in Seq(PubDel) /\ k[c] \in Nat \ {0}
    BY DEF Frame
  <2>2. PubsFrom(frame[c].pubdel, k[c]) = {}
    BY <1>17, <2>1, PubsFromStep DEF Discard
  <2> QED
    BY <1>17, <2>2 DEF Discard, Pending, Unsent, Saving, Publishing
<1>18. CASE \E e \in Conn : Send(c, e)
  BY <1>18 DEF Send, Pending, Unsent, Pubs, QueueOK, NoQueue, Saving, Publishing, Requesting
<1>19. CASE \E e \in Conn : SendFails(c, e)
  BY <1>19, AbortKept DEF SendFails
<1>20. CASE Sent(c)
  BY <1>20 DEF Sent, Pending, Unsent, Pubs, QueueOK, NoQueue, Saving, Publishing, Requesting
<1>21. CASE Get(c)
  BY <1>21 DEF Get, Pending, Unsent, Pubs, QueueOK, NoQueue, Saving, Publishing, Requesting
<1>22. CASE Sub(c)
  BY <1>22 DEF Sub, Pending, Unsent, Pubs, QueueOK, NoQueue, Saving, Publishing, Requesting
<1>23. CASE Unsub(c)
  BY <1>23 DEF Unsub, Pending, Unsent, Pubs, QueueOK, NoQueue, Saving, Publishing, Requesting
<1>24. CASE LoadCache(c)
  BY <1>24 DEF LoadCache, Pending, Unsent, Pubs, QueueOK, NoQueue, Saving, Publishing, Requesting
<1>25. CASE LoadRows(c)
  BY <1>25 DEF LoadRows, Pending, Unsent, Pubs, QueueOK, NoQueue, Saving, Publishing, Requesting
<1>26. CASE Reply(c)
  BY <1>26 DEF Reply, Pending, Unsent, Pubs, QueueOK, NoQueue, Saving, Publishing, Requesting
<1>27. CASE ReplyFails(c)
  BY <1>27, AbortKept DEF ReplyFails
<1>28. CASE SetWill(c)
  BY <1>28 DEF SetWill, Pending, Unsent, Pubs, QueueOK, NoQueue, Saving, Publishing, Requesting
<1>29. CASE DelConn(c)
  BY <1>29 DEF DelConn, Pending, Unsent, Pubs, QueueOK, NoQueue, Saving, Publishing, Requesting
<1>30. CASE DelSub(c)
  BY <1>30 DEF DelSub, Pending, Unsent, Pubs, QueueOK, NoQueue, Saving, Publishing, Requesting
<1>31. CASE DelWill(c)
  <2>1. pc[c] = "dellwt" /\ queue[c] = NoQueue /\ queue' = queue /\ lost' = lost
    BY <1>31 DEF DelWill, QueueOK, Requesting
  <2>2. Pending(c, d) = {}
    BY <2>1 DEF Pending, Unsent, NoQueue, Saving
  <2>3. CASE lwt[c] = None
    BY <1>31, <2>1, <2>2, <2>3 DEF DelWill
  <2>4. CASE lwt[c] # None
    <3>1. d # c
      BY <2>1 DEF LeavingOK
    <3>2. /\ known'[d] = known[d] \ {<<lwt[c].topic, lwt[c].value>>}
          /\ pc'[c] = "save" /\ frame'[c] = WillFrame(lwt[c])
      BY <1>31, <2>4 DEF DelWill
    <3>3. <<lwt[c].topic, lwt[c].value>> \in Pubs(WillFrame(lwt[c]).pubdel)
      BY DEF WillFrame, Pubs, PubsFrom
    <3>4. <<lwt[c].topic, lwt[c].value>> \in Pending(c, d)'
      BY <3>1, <3>2, <3>3 DEF Pending, Unsent, Saving
    <3> QED
      BY <2>1, <2>2, <3>2, <3>4
  <2> QED
    BY <2>3, <2>4
<1>32. CASE End(c)
  BY <1>32 DEF End, Pending, Unsent, Pubs, QueueOK, NoQueue, Saving, Publishing, Requesting
<1>33. CASE MatchFails(c)
  BY <1>33, AbortKept DEF MatchFails
<1>34. CASE SaveDelFails(c)
  BY <1>34, AbortKept DEF SaveDelFails
<1> QED
  BY <1>1, <1>2, <1>3, <1>4, <1>5, <1>6, <1>7, <1>8, <1>9, <1>10, <1>11, <1>12, <1>13, <1>14, <1>15, <1>16, <1>17, <1>18, <1>19, <1>20, <1>21, <1>22, <1>23, <1>24, <1>25, <1>26, <1>27, <1>28, <1>29, <1>30, <1>31, <1>32, <1>33, <1>34 DEF Handler, Environment

LEMMA AccountedKept ==
    ASSUME CleanInv, NEW c \in Conn, Handler(c) \/ Environment(c),
           NEW p \in Pattern, NEW d \in sub[p], NEW r \in Accounted(d), r[1] \in Covers[p]
    PROVE  r \in Accounted(d)'
<1>0. d \in Conn
  BY DEF CleanInv, TypeInv, TypeOK
<1>1. CASE r \in known[d]
  BY <1>0, <1>1, RowKept DEF Accounted
<1>2. CASE r \in lost[d]
  BY <1>2, RowKept DEF Accounted
<1>3. CASE r \in Pending(c, d)
  BY <1>0, <1>3, RowKept DEF Accounted
<1>4. ASSUME NEW a \in Conn, a # c, r \in Pending(a, d) PROVE r \in Accounted(d)'
  BY <1>0, <1>4, LocalStep DEF Accounted
<1> QED
  BY <1>1, <1>2, <1>3, <1>4 DEF Accounted

(* Until its commit, a publisher that subscribes to its own topics has its  *)
(* rows accounted for like everybody else's.                                *)
OwnRows ==
    \A c \in Conn, p \in Pattern : pc[c] \in Saving /\ c \in sub[p] =>
        \A r \in Pubs(frame[c].pubdel) : r[1] \in Covers[p] => r \in Accounted(c)

(* A row that only the open transaction has is of the frame being saved, or *)
(* of one that an exception ended.                                          *)
WorkingRows ==
    \A c \in Conn : writer = c =>
        \A r \in wdb : \/ r \in db
                       \/ pc[c] \in Saving /\ r \in Pubs(frame[c].pubdel)
                       \/ \A d \in Conn : r \in lost[d]

DeliveryInv == CleanInv /\ OwnRows /\ WorkingRows /\ NoMissedUpdate

LEMMA WorkingRowsNext ==
    ASSUME CleanInv, WorkingRows, NEW c \in Conn, Handler(c) \/ Environment(c)
    PROVE  WorkingRows'
<1> SUFFICES ASSUME NEW w \in Conn, writer' = w, NEW r \in wdb'
             PROVE  \/ r \in db'
                    \/ pc'[w] \in Saving /\ r \in Pubs(frame'[w].pubdel)
                    \/ \A d \in Conn : r \in lost'[d]
  BY DEF WorkingRows, Pubs, PubsFrom
<1> USE NoneIsNothing DEF CleanInv, TypeInv, TypeOK, Goto, NextAt, StartAt, local, shared, sqlite, history, Abort, WorkingRows
<1>1. CASE Close(c)
  BY <1>1 DEF Close, Saving, Teardown, Publishing, Requesting, LeavingOK, Unsent
<1>2. CASE AddConnection(c)
  BY <1>2 DEF AddConnection, Saving, Teardown, Publishing, Requesting, LeavingOK, Unsent
<1>3. CASE \E f \in Frames[c] : Receive(c, f)
  BY <1>3 DEF Receive, Saving, Teardown, Publishing, Requesting, LeavingOK, Unsent
<1>4. CASE ReceiveFails(c)
  BY <1>4 DEF ReceiveFails, Saving, Teardown, Publishing, Requesting, LeavingOK, Unsent
<1>5. CASE SaveSend(c)
  BY <1>5 DEF SaveSend, Saving, Teardown, Publishing, Requesting, LeavingOK, Unsent
<1>6. CASE SaveRetain(c)
  BY <1>6 DEF SaveRetain, Saving, Teardown, Publishing, Requesting, LeavingOK, Unsent
<1>7. CASE SavePersistent(c)
  BY <1>7 DEF SavePersistent, Saving, Teardown, Publishing, Requesting, LeavingOK, Unsent
<1>8. CASE Store(c)
  <2>1. ASSUME writer = None \/ writer = c, NEW q \in View(c)
        PROVE  \/ q \in db
               \/ pc[c] \in Saving /\ q \in Pubs(frame[c].pubdel)
               \/ \A d \in Conn : q \in lost[d]
    BY <2>1 DEF View
  <2>2. w = c /\ db' = db /\ lost' = lost /\ frame' = frame /\ pc'[c] = "save" /\ writer \in {None, c}
    BY <1>8 DEF Store
  <2>3. r \in View(c) \/ r = <<Msg(c).pat, Msg(c).value>>
    BY <1>8 DEF Store, KeepOnly
  <2>4. <<Msg(c).pat, Msg(c).value>> \in Pubs(frame[c].pubdel)
    <3>1. k[c] \in DOMAIN frame[c].pubdel /\ k[c] >= 1 /\ Msg(c).type = "PUB"
      BY <1>8 DEF Store, PlaceOK
    <3> QED
      BY <3>1 DEF Pubs, PubsFrom, Msg
  <2> QED
    BY <2>1, <2>2, <2>3, <2>4 DEF Saving
<1>9. CASE StoreFails(c)
  <2>1. ASSUME writer = None \/ writer = c, NEW q \in View(c)
        PROVE  \/ q \in db
               \/ pc[c] \in Saving /\ q \in Pubs(frame[c].pubdel)
               \/ \A d \in Conn : q \in lost[d]
    BY <2>1 DEF View
  <2>2. db' = db /\ frame' = frame /\ \A d \in Conn : lost'[d] = lost[d] \cup Unsent(c, d)
    BY <1>9 DEF StoreFails
  <2>3. pc[c] \in Saving /\ \A d \in Conn : Unsent(c, d) = Pubs(frame[c].pubdel)
    BY <1>9 DEF StoreFails, Saving, Unsent
  <2>4. CASE Msg(c).mode = "PERSIST"
    <3>1. w = c /\ writer \in {None, c} /\ r \in View(c)
      BY <1>9, <2>4 DEF StoreFails, KeepOnly
    <3> QED
      BY <2>1, <2>2, <2>3, <3>1
  <2>5. CASE Msg(c).mode # "PERSIST"
    <3>1. writer = w /\ r \in wdb /\ (w # c => pc'[w] = pc[w])
      BY <1>9, <2>5 DEF StoreFails
    <3> QED
      BY <2>2, <2>3, <3>1
  <2> QED
    BY <2>4, <2>5
<1>10. CASE SaveDel(c)
  BY <1>10 DEF SaveDel, Saving, Teardown, Publishing, Requesting, LeavingOK, Unsent
<1>11. CASE Scan(c)
  BY <1>11 DEF Scan, Saving, Teardown, Publishing, Requesting, LeavingOK, Unsent
<1>12. CASE Delete(c)
  <2>1. ASSUME writer = None \/ writer = c, NEW q \in View(c)
        PROVE  \/ q \in db
               \/ pc[c] \in Saving /\ q \in Pubs(frame[c].pubdel)
               \/ \A d \in Conn : q \in lost[d]
    BY <2>1 DEF View
  <2>2. db' = db /\ lost' = lost /\ frame' = frame /\ pc'[c] = "save" /\ (w # c => pc'[w] = pc[w])
    BY <1>12 DEF Delete
  <2>3. CASE found[c] = {}
    BY <1>12, <2>2, <2>3 DEF Delete, Saving
  <2>4. CASE found[c] # {}
    <3>1. w = c /\ writer \in {None, c} /\ r \in View(c)
      BY <1>12, <2>4 DEF Delete
    <3> QED
      BY <2>1, <2>2, <3>1 DEF Saving
  <2> QED
    BY <2>3, <2>4
<1>13. CASE BusyTimeout(c)
  BY <1>13 DEF BusyTimeout, Saving, Teardown, Publishing, Requesting, LeavingOK, Unsent
<1>14. CASE Commit(c)
  BY <1>14 DEF Commit, Saving, Teardown, Publishing, Requesting, LeavingOK, Unsent
<1>15. CASE MatchPub(c)
  BY <1>15 DEF MatchPub, Saving, Teardown, Publishing, Requesting, LeavingOK, Unsent
<1>16. CASE MatchDel(c)
  BY <1>16 DEF MatchDel, Saving, Teardown, Publishing, Requesting, LeavingOK, Unsent
<1>17. CASE Discard(c)
  BY <1>17 DEF Discard, Saving, Teardown, Publishing, Requesting, LeavingOK, Unsent
<1>18. CASE \E e \in Conn : Send(c, e)
  BY <1>18 DEF Send, Saving, Teardown, Publishing, Requesting, LeavingOK, Unsent
<1>19. CASE \E e \in Conn : SendFails(c, e)
  BY <1>19 DEF SendFails, Saving, Teardown, Publishing, Requesting, LeavingOK, Unsent
<1>20. CASE Sent(c)
  BY <1>20 DEF Sent, Saving, Teardown, Publishing, Requesting, LeavingOK, Unsent
<1>21. CASE Get(c)
  BY <1>21 DEF Get, Saving, Teardown, Publishing, Requesting, LeavingOK, Unsent
<1>22. CASE Sub(c)
  BY <1>22 DEF Sub, Saving, Teardown, Publishing, Requesting, LeavingOK, Unsent
<1>23. CASE Unsub(c)
  BY <1>23 DEF Unsub, Saving, Teardown, Publishing, Requesting, LeavingOK, Unsent
<1>24. CASE LoadCache(c)
  BY <1>24 DEF LoadCache, Saving, Teardown, Publishing, Requesting, LeavingOK, Unsent
<1>25. CASE LoadRows(c)
  BY <1>25 DEF LoadRows, Saving, Teardown, Publishing, Requesting, LeavingOK, Unsent
<1>26. CASE Reply(c)
  BY <1>26 DEF Reply, Saving, Teardown, Publishing, Requesting, LeavingOK, Unsent
<1>27. CASE ReplyFails(c)
  BY <1>27 DEF ReplyFails, Saving, Teardown, Publishing, Requesting, LeavingOK, Unsent
<1>28. CASE SetWill(c)
  BY <1>28 DEF SetWill, Saving, Teardown, Publishing, Requesting, LeavingOK, Unsent
<1>29. CASE DelConn(c)
  BY <1>29 DEF DelConn, Saving, Teardown, Publishing, Requesting, LeavingOK, Unsent
<1>30. CASE DelSub(c)
  BY <1>30 DEF DelSub, Saving, Teardown, Publishing, Requesting, LeavingOK, Unsent
<1>31. CASE DelWill(c)
  BY <1>31 DEF DelWill, Saving, Teardown, Publishing, Requesting, LeavingOK, Unsent
<1>32. CASE End(c)
  BY <1>32 DEF End, Saving, Teardown, Publishing, Requesting, LeavingOK, Unsent
<1>33. CASE MatchFails(c)
  BY <1>33 DEF MatchFails, Saving, Teardown, Publishing, Requesting, LeavingOK, Unsent
<1>34. CASE SaveDelFails(c)
  BY <1>34 DEF SaveDelFails, Saving, Teardown, Publishing, Requesting, LeavingOK, Unsent
<1> QED
  BY <1>1, <1>2, <1>3, <1>4, <1>5, <1>6, <1>7, <1>8, <1>9, <1>10, <1>11, <1>12, <1>13, <1>14, <1>15, <1>16, <1>17, <1>18, <1>19, <1>20, <1>21, <1>22, <1>23, <1>24, <1>25, <1>26, <1>27, <1>28, <1>29, <1>30, <1>31, <1>32, <1>33, <1>34 DEF Handler, Environment

(* How a step of c changes what the delivery of rows depends on. *)

LEMMA SubStep ==
    ASSUME CleanInv, NEW c \in Conn, Handler(c) \/ Environment(c),
           NEW p \in Pattern, NEW d \in sub'[p]
    PROVE  d \in sub[p] \/ (d = c /\ Sub(c) /\ Req(c).pat = p)
<1> USE NoneIsNothing DEF CleanInv, TypeInv, TypeOK, Goto, NextAt, StartAt, local, shared, sqlite, history, Abort
<1>1. CASE Close(c)
  BY <1>1 DEF Close
<1>2. CASE AddConnection(c)
  BY <1>2 DEF AddConnection
<1>3. CASE \E f \in Frames[c] : Receive(c, f)
  BY <1>3 DEF Receive
<1>4. CASE ReceiveFails(c)
  BY <1>4 DEF ReceiveFails
<1>5. CASE SaveSend(c)
  BY <1>5 DEF SaveSend
<1>6. CASE SaveRetain(c)
  BY <1>6 DEF SaveRetain
<1>7. CASE SavePersistent(c)
  BY <1>7 DEF SavePersistent
<1>8. CASE Store(c)
  BY <1>8 DEF Store
<1>9. CASE StoreFails(c)
  BY <1>9 DEF StoreFails
<1>10. CASE SaveDel(c)
  BY <1>10 DEF SaveDel
<1>11. CASE Scan(c)
  BY <1>11 DEF Scan
<1>12. CASE Delete(c)
  BY <1>12 DEF Delete
<1>13. CASE BusyTimeout(c)
  BY <1>13 DEF BusyTimeout
<1>14. CASE Commit(c)
  BY <1>14 DEF Commit
<1>15. CASE MatchPub(c)
  BY <1>15 DEF MatchPub
<1>16. CASE MatchDel(c)
  BY <1>16 DEF MatchDel
<1>17. CASE Discard(c)
  BY <1>17 DEF Discard
<1>18. CASE \E e \in Conn : Send(c, e)
  BY <1>18 DEF Send
<1>19. CASE \E e \in Conn : SendFails(c, e)
  BY <1>19 DEF SendFails
<1>20. CASE Sent(c)
  BY <1>20 DEF Sent
<1>21. CASE Get(c)
  BY <1>21 DEF Get
<1>22. CASE Sub(c)
  BY <1>22 DEF Sub
<1>23. CASE Unsub(c)
  BY <1>23 DEF Unsub
<1>24. CASE LoadCache(c)
  BY <1>24 DEF LoadCache
<1>25. CASE LoadRows(c)
  BY <1>25 DEF LoadRows
<1>26. CASE Reply(c)
  BY <1>26 DEF Reply
<1>27. CASE ReplyFails(c)
  BY <1>27 DEF ReplyFails
<1>28. CASE SetWill(c)
  BY <1>28 DEF SetWill
<1>29. CASE DelConn(c)
  BY <1>29 DEF DelConn
<1>30. CASE DelSub(c)
  BY <1>30 DEF DelSub
<1>31. CASE DelWill(c)
  BY <1>31 DEF DelWill
<1>32. CASE End(c)
  BY <1>32 DEF End
<1>33. CASE MatchFails(c)
  BY <1>33 DEF MatchFails
<1>34. CASE SaveDelFails(c)
  BY <1>34 DEF SaveDelFails
<1> QED
  BY <1>1, <1>2, <1>3, <1>4, <1>5, <1>6, <1>7, <1>8, <1>9, <1>10, <1>11, <1>12, <1>13, <1>14, <1>15, <1>16, <1>17, <1>18, <1>19, <1>20, <1>21, <1>22, <1>23, <1>24, <1>25, <1>26, <1>27, <1>28, <1>29, <1>30, <1>31, <1>32, <1>33, <1>34 DEF Handler, Environment

LEMMA SavingStep ==
    ASSUME CleanInv, NEW c \in Conn, Handler(c) \/ Environment(c), pc'[c] \in Saving
    PROVE  \/ pc[c] \in Saving /\ frame'[c] = frame[c] /\ sub' = sub
           \/ \E f \in Frames[c] : Receive(c, f)
           \/ \A p \in Pattern : c \notin sub'[p]
<1> USE NoneIsNothing DEF CleanInv, TypeInv, TypeOK, Goto, NextAt, StartAt, local, shared, sqlite, history, Abort
<1>1. CASE Close(c)
  BY <1>1 DEF Close, Saving, LeavingOK
<1>2. CASE AddConnection(c)
  BY <1>2 DEF AddConnection, Saving, LeavingOK
<1>3. CASE \E f \in Frames[c] : Receive(c, f)
  BY <1>3 DEF Receive, Saving, LeavingOK
<1>4. CASE ReceiveFails(c)
  BY <1>4 DEF ReceiveFails, Saving, LeavingOK
<1>5. CASE SaveSend(c)
  BY <1>5 DEF SaveSend, Saving, LeavingOK
<1>6. CASE SaveRetain(c)
  BY <1>6 DEF SaveRetain, Saving, LeavingOK
<1>7. CASE SavePersistent(c)
  BY <1>7 DEF SavePersistent, Saving, LeavingOK
<1>8. CASE Store(c)
  BY <1>8 DEF Store, Saving, LeavingOK
<1>9. CASE StoreFails(c)
  BY <1>9 DEF StoreFails, Saving, LeavingOK
<1>10. CASE SaveDel(c)
  BY <1>10 DEF SaveDel, Saving, LeavingOK
<1>11. CASE Scan(c)
  BY <1>11 DEF Scan, Saving, LeavingOK
<1>12. CASE Delete(c)
  BY <1>12 DEF Delete, Saving, LeavingOK
<1>13. CASE BusyTimeout(c)
  BY <1>13 DEF BusyTimeout, Saving, LeavingOK
<1>14. CASE Commit(c)
  BY <1>14 DEF Commit, Saving, LeavingOK
<1>15. CASE MatchPub(c)
  BY <1>15 DEF MatchPub, Saving, LeavingOK
<1>16. CASE MatchDel(c)
  BY <1>16 DEF MatchDel, Saving, LeavingOK
<1>17. CASE Discard(c)
  BY <1>17 DEF Discard, Saving, LeavingOK
<1>18. CASE \E e \in Conn : Send(c, e)
  BY <1>18 DEF Send, Saving, LeavingOK
<1>19. CASE \E e \in Conn : SendFails(c, e)
  BY <1>19 DEF SendFails, Saving, LeavingOK
<1>20. CASE Sent(c)
  BY <1>20 DEF Sent, Saving, LeavingOK
<1>21. CASE Get(c)
  BY <1>21 DEF Get, Saving, LeavingOK
<1>22. CASE Sub(c)
  BY <1>22 DEF Sub, Saving, LeavingOK
<1>23. CASE Unsub(c)
  BY <1>23 DEF Unsub, Saving, LeavingOK
<1>24. CASE LoadCache(c)
  BY <1>24 DEF LoadCache, Saving, LeavingOK
<1>25. CASE LoadRows(c)
  BY <1>25 DEF LoadRows, Saving, LeavingOK
<1>26. CASE Reply(c)
  BY <1>26 DEF Reply, Saving, LeavingOK
<1>27. CASE ReplyFails(c)
  BY <1>27 DEF ReplyFails, Saving, LeavingOK
<1>28. CASE SetWill(c)
  BY <1>28 DEF SetWill, Saving, LeavingOK
<1>29. CASE DelConn(c)
  BY <1>29 DEF DelConn, Saving, LeavingOK
<1>30. CASE DelSub(c)
  BY <1>30 DEF DelSub, Saving, LeavingOK
<1>31. CASE DelWill(c)
  BY <1>31 DEF DelWill, Saving, LeavingOK
<1>32. CASE End(c)
  BY <1>32 DEF End, Saving, LeavingOK
<1>33. CASE MatchFails(c)
  BY <1>33 DEF MatchFails, Saving, LeavingOK
<1>34. CASE SaveDelFails(c)
  BY <1>34 DEF SaveDelFails, Saving, LeavingOK
<1> QED
  BY <1>1, <1>2, <1>3, <1>4, <1>5, <1>6, <1>7, <1>8, <1>9, <1>10, <1>11, <1>12, <1>13, <1>14, <1>15, <1>16, <1>17, <1>18, <1>19, <1>20, <1>21, <1>22, <1>23, <1>24, <1>25, <1>26, <1>27, <1>28, <1>29, <1>30, <1>31, <1>32, <1>33, <1>34 DEF Handler, Environment

LEMMA CacheStep ==
    ASSUME CleanInv, NEW c \in Conn, Handler(c) \/ Environment(c),
           NEW t \in Topic, cache'[t] # None
    PROVE  cache'[t] = cache[t] \/ (SaveRetain(c) /\ t = Msg(c).pat /\ cache'[t] = Msg(c).value)
<1> USE NoneIsNothing DEF CleanInv, TypeInv, TypeOK, Goto, NextAt, StartAt, local, shared, sqlite, history, Abort
<1>1. CASE Close(c)
  BY <1>1 DEF Close
<1>2. CASE AddConnection(c)
  BY <1>2 DEF AddConnection
<1>3. CASE \E f \in Frames[c] : Receive(c, f)
  BY <1>3 DEF Receive
<1>4. CASE ReceiveFails(c)
  BY <1>4 DEF ReceiveFails
<1>5. CASE SaveSend(c)
  BY <1>5 DEF SaveSend
<1>6. CASE SaveRetain(c)
  BY <1>6 DEF SaveRetain
<1>7. CASE SavePersistent(c)
  BY <1>7 DEF SavePersistent
<1>8. CASE Store(c)
  BY <1>8 DEF Store
<1>9. CASE StoreFails(c)
  BY <1>9 DEF StoreFails
<1>10. CASE SaveDel(c)
  BY <1>10 DEF SaveDel
<1>11. CASE Scan(c)
  BY <1>11 DEF Scan
<1>12. CASE Delete(c)
  BY <1>12 DEF Delete
<1>13. CASE BusyTimeout(c)
  BY <1>13 DEF BusyTimeout
<1>14. CASE Commit(c)
  BY <1>14 DEF Commit
<1>15. CASE MatchPub(c)
  BY <1>15 DEF MatchPub
<1>16. CASE MatchDel(c)
  BY <1>16 DEF MatchDel
<1>17. CASE Discard(c)
  BY <1>17 DEF Discard
<1>18. CASE \E e \in Conn : Send(c, e)
  BY <1>18 DEF Send
<1>19. CASE \E e \in Conn : SendFails(c, e)
  BY <1>19 DEF SendFails
<1>20. CASE Sent(c)
  BY <1>20 DEF Sent
<1>21. CASE Get(c)
  BY <1>21 DEF Get
<1>22. CASE Sub(c)
  BY <1>22 DEF Sub
<1>23. CASE Unsub(c)
  BY <1>23 DEF Unsub
<1>24. CASE LoadCache(c)
  BY <1>24 DEF LoadCache
<1>25. CASE LoadRows(c)
  BY <1>25 DEF LoadRows
<1>26. CASE Reply(c)
  BY <1>26 DEF Reply
<1>27. CASE ReplyFails(c)
  BY <1>27 DEF ReplyFails
<1>28. CASE SetWill(c)
  BY <1>28 DEF SetWill
<1>29. CASE DelConn(c)
  BY <1>29 DEF DelConn
<1>30. CASE DelSub(c)
  BY <1>30 DEF DelSub
<1>31. CASE DelWill(c)
  BY <1>31 DEF DelWill
<1>32. CASE End(c)
  BY <1>32 DEF End
<1>33. CASE MatchFails(c)
  BY <1>33 DEF MatchFails
<1>34. CASE SaveDelFails(c)
  BY <1>34 DEF SaveDelFails
<1> QED
  BY <1>1, <1>2, <1>3, <1>4, <1>5, <1>6, <1>7, <1>8, <1>9, <1>10, <1>11, <1>12, <1>13, <1>14, <1>15, <1>16, <1>17, <1>18, <1>19, <1>20, <1>21, <1>22, <1>23, <1>24, <1>25, <1>26, <1>27, <1>28, <1>29, <1>30, <1>31, <1>32, <1>33, <1>34 DEF Handler, Environment

LEMMA CommittedStep ==
    ASSUME CleanInv, NEW c \in Conn, Handler(c) \/ Environment(c), NEW r \in db'
    PROVE  r \in db \/ (Commit(c) /\ writer = c /\ r \in wdb)
<1> USE NoneIsNothing DEF CleanInv, TypeInv, TypeOK, Goto, NextAt, StartAt, local, shared, sqlite, history, Abort
<1>1. CASE Close(c)
  BY <1>1 DEF Close
<1>2. CASE AddConnection(c)
  BY <1>2 DEF AddConnection
<1>3. CASE \E f \in Frames[c] : Receive(c, f)
  BY <1>3 DEF Receive
<1>4. CASE ReceiveFails(c)
  BY <1>4 DEF ReceiveFails
<1>5. CASE SaveSend(c)
  BY <1>5 DEF SaveSend
<1>6. CASE SaveRetain(c)
  BY <1>6 DEF SaveRetain
<1>7. CASE SavePersistent(c)
  BY <1>7 DEF SavePersistent
<1>8. CASE Store(c)
  BY <1>8 DEF Store
<1>9. CASE StoreFails(c)
  BY <1>9 DEF StoreFails
<1>10. CASE SaveDel(c)
  BY <1>10 DEF SaveDel
<1>11. CASE Scan(c)
  BY <1>11 DEF Scan
<1>12. CASE Delete(c)
  BY <1>12 DEF Delete
<1>13. CASE BusyTimeout(c)
  BY <1>13 DEF BusyTimeout
<1>14. CASE Commit(c)
  BY <1>14 DEF Commit
<1>15. CASE MatchPub(c)
  BY <1>15 DEF MatchPub
<1>16. CASE MatchDel(c)
  BY <1>16 DEF MatchDel
<1>17. CASE Discard(c)
  BY <1>17 DEF Discard
<1>18. CASE \E e \in Conn : Send(c, e)
  BY <1>18 DEF Send
<1>19. CASE \E e \in Conn : SendFails(c, e)
  BY <1>19 DEF SendFails
<1>20. CASE Sent(c)
  BY <1>20 DEF Sent
<1>21. CASE Get(c)
  BY <1>21 DEF Get
<1>22. CASE Sub(c)
  BY <1>22 DEF Sub
<1>23. CASE Unsub(c)
  BY <1>23 DEF Unsub
<1>24. CASE LoadCache(c)
  BY <1>24 DEF LoadCache
<1>25. CASE LoadRows(c)
  BY <1>25 DEF LoadRows
<1>26. CASE Reply(c)
  BY <1>26 DEF Reply
<1>27. CASE ReplyFails(c)
  BY <1>27 DEF ReplyFails
<1>28. CASE SetWill(c)
  BY <1>28 DEF SetWill
<1>29. CASE DelConn(c)
  BY <1>29 DEF DelConn
<1>30. CASE DelSub(c)
  BY <1>30 DEF DelSub
<1>31. CASE DelWill(c)
  BY <1>31 DEF DelWill
<1>32. CASE End(c)
  BY <1>32 DEF End
<1>33. CASE MatchFails(c)
  BY <1>33 DEF MatchFails
<1>34. CASE SaveDelFails(c)
  BY <1>34 DEF SaveDelFails
<1> QED
  BY <1>1, <1>2, <1>3, <1>4, <1>5, <1>6, <1>7, <1>8, <1>9, <1>10, <1>11, <1>12, <1>13, <1>14, <1>15, <1>16, <1>17, <1>18, <1>19, <1>20, <1>21, <1>22, <1>23, <1>24, <1>25, <1>26, <1>27, <1>28, <1>29, <1>30, <1>31, <1>32, <1>33, <1>34 DEF Handler, Environment

LEMMA LoadingStep ==
    ASSUME CleanInv, NEW c \in Conn, Handler(c) \/ Environment(c), pc[c] \in {"cache", "rows"}
    PROVE  \/ pc'[c] = pc[c] /\ frame'[c] = frame[c] /\ k'[c] = k[c]
           \/ LoadCache(c)
           \/ LoadRows(c)
<1> USE NoneIsNothing DEF CleanInv, TypeInv, TypeOK, Goto, NextAt, StartAt, local, shared, sqlite, history, Abort
<1>1. CASE Close(c)
  BY <1>1 DEF Close
<1>2. CASE AddConnection(c)
  BY <1>2 DEF AddConnection
<1>3. CASE \E f \in Frames[c] : Receive(c, f)
  BY <1>3 DEF Receive
<1>4. CASE ReceiveFails(c)
  BY <1>4 DEF ReceiveFails
<1>5. CASE SaveSend(c)
  BY <1>5 DEF SaveSend
<1>6. CASE SaveRetain(c)
  BY <1>6 DEF SaveRetain
<1>7. CASE SavePersistent(c)
  BY <1>7 DEF SavePersistent
<1>8. CASE Store(c)
  BY <1>8 DEF Store
<1>9. CASE StoreFails(c)
  BY <1>9 DEF StoreFails
<1>10. CASE SaveDel(c)
  BY <1>10 DEF SaveDel
<1>11. CASE Scan(c)
  BY <1>11 DEF Scan
<1>12. CASE Delete(c)
  BY <1>12 DEF Delete
<1>13. CASE BusyTimeout(c)
  BY <1>13 DEF BusyTimeout
<1>14. CASE Commit(c)
  BY <1>14 DEF Commit
<1>15. CASE MatchPub(c)
  BY <1>15 DEF MatchPub
<1>16. CASE MatchDel(c)
  BY <1>16 DEF MatchDel
<1>17. CASE Discard(c)
  BY <1>17 DEF Discard
<1>18. CASE \E e \in Conn : Send(c, e)
  BY <1>18 DEF Send
<1>19. CASE \E e \in Conn : SendFails(c, e)
  BY <1>19 DEF SendFails
<1>20. CASE Sent(c)
  BY <1>20 DEF Sent
<1>21. CASE Get(c)
  BY <1>21 DEF Get
<1>22. CASE Sub(c)
  BY <1>22 DEF Sub
<1>23. CASE Unsub(c)
  BY <1>23 DEF Unsub
<1>24. CASE LoadCache(c)
  BY <1>24 DEF LoadCache
<1>25. CASE LoadRows(c)
  BY <1>25 DEF LoadRows
<1>26. CASE Reply(c)
  BY <1>26 DEF Reply
<1>27. CASE ReplyFails(c)
  BY <1>27 DEF ReplyFails
<1>28. CASE SetWill(c)
  BY <1>28 DEF SetWill
<1>29. CASE DelConn(c)
  BY <1>29 DEF DelConn
<1>30. CASE DelSub(c)
  BY <1>30 DEF DelSub
<1>31. CASE DelWill(c)
  BY <1>31 DEF DelWill
<1>32. CASE End(c)
  BY <1>32 DEF End
<1>33. CASE MatchFails(c)
  BY <1>33 DEF MatchFails
<1>34. CASE SaveDelFails(c)
  BY <1>34 DEF SaveDelFails
<1> QED
  BY <1>1, <1>2, <1>3, <1>4, <1>5, <1>6, <1>7, <1>8, <1>9, <1>10, <1>11, <1>12, <1>13, <1>14, <1>15, <1>16, <1>17, <1>18, <1>19, <1>20, <1>21, <1>22, <1>23, <1>24, <1>25, <1>26, <1>27, <1>28, <1>29, <1>30, <1>31, <1>32, <1>33, <1>34 DEF Handler, Environment

-----------------------------------------------------------------------------
LEMMA OwnRowsNext ==
    ASSUME DeliveryInv, NEW c \in Conn, Handler(c) \/ Environment(c)
    PROVE  OwnRows'
<1> USE DEF DeliveryInv
<1> SUFFICES ASSUME NEW a \in Conn, NEW p \in Pattern, pc'[a] \in Saving, a \in sub'[p],
                    NEW r \in Pubs(frame'[a].pubdel), r[1] \in Covers[p]
             PROVE  r \in Accounted(a)'
  BY DEF OwnRows, Pubs, PubsFrom
<1>1. CASE a # c
  <2>1. pc[a] \in Saving /\ r \in Pubs(frame[a].pubdel)
    BY <1>1, LocalStep
  <2>2. a \in sub[p]
    BY <1>1, SubStep
  <2>3. r \in Accounted(a)
    BY <2>1, <2>2 DEF OwnRows
  <2> QED
    BY <2>2, <2>3, AccountedKept
<1>2. CASE a = c
  <2>1. CASE pc[c] \in Saving /\ frame'[c] = frame[c] /\ sub' = sub
    <3>1. r \in Accounted(c) /\ c \in sub[p]
      BY <1>2, <2>1 DEF OwnRows
    <3> QED
      BY <1>2, <3>1, AccountedKept
  <2>2. CASE \E f \in Frames[c] : Receive(c, f)
    <3>1. r \in known'[c]
      BY <1>2, <2>2 DEF Receive, CleanInv, TypeInv, TypeOK
    <3> QED
      BY <1>2, <3>1 DEF Accounted
  <2>3. CASE \A q \in Pattern : c \notin sub'[q]
    BY <1>2, <2>3
  <2> QED
    BY <1>2, <2>1, <2>2, <2>3, SavingStep
<1> QED
  BY <1>1, <1>2

LEMMA CachedNext ==
    ASSUME DeliveryInv, NEW c \in Conn, Handler(c) \/ Environment(c)
    PROVE  CachedReachesSubscriber'
<1> USE DEF DeliveryInv
<1> SUFFICES ASSUME NEW p \in Pattern, NEW d \in sub'[p], NEW t \in Covers[p],
                    cache'[t] # None, ~Loading(d, p, {"cache"})'
             PROVE  <<t, cache'[t]>> \in Accounted(d)'
  BY DEF CachedReachesSubscriber
<1>0. d \in Conn /\ t \in Topic
  BY SubStep, CoversType DEF CleanInv, TypeInv, TypeOK
<1>1. CASE ~(d \in sub[p])
  <2>1. d = c /\ Sub(c) /\ Req(c).pat = p
    BY <1>1, SubStep
  <2>2. Req(c) = [type |-> "SUB", pat |-> p]
    BY <2>1, ReqType DEF Sub, CleanInv, TypeInv, Request
  <2>3. pc'[c] = "cache" /\ Req(c)' = Req(c)
    BY <2>1 DEF Sub, Goto, CleanInv, TypeInv, TypeOK, Req
  <2> QED
    BY <2>1, <2>2, <2>3 DEF Loading
<1>2. CASE d \in sub[p] /\ cache'[t] = cache[t]
  <2>1. CASE ~Loading(d, p, {"cache"})
    <3>1. <<t, cache[t]>> \in Accounted(d)
      BY <1>2, <2>1 DEF NoMissedUpdate, CachedReachesSubscriber
    <3> QED
      BY <1>2, <3>1, AccountedKept
  <2>2. CASE Loading(d, p, {"cache"})
    <3>1. d = c
      BY <1>0, <2>2, LocalStep DEF Loading, Req
    <3>2. LoadCache(c)
      BY <2>2, <3>1, LoadingStep DEF Loading, Req, LoadRows
    <3>3. Req(c).pat = p /\ <<t, cache[t]>> \in queue'[c][c] /\ pc'[c] = "rows"
      BY <1>2, <2>2, <3>1, <3>2 DEF LoadCache, Loading, Goto, CleanInv, TypeInv, TypeOK
    <3>4. <<t, cache[t]>> \in Pending(c, c)'
      BY <3>3 DEF Pending, Unsent, Publishing, Saving
    <3> QED
      BY <1>2, <3>1, <3>4 DEF Accounted
  <2> QED
    BY <2>1, <2>2
<1>3. CASE d \in sub[p] /\ SaveRetain(c) /\ t = Msg(c).pat /\ cache'[t] = Msg(c).value
  <2>1. k[c] \in DOMAIN frame[c].pubdel /\ k[c] >= 1 /\ Msg(c).type = "PUB"
    BY <1>3, MsgType DEF SaveRetain, Mode, CleanInv, TypeInv, TypeOK
  <2>2. <<t, cache'[t]>> \in Pubs(frame[c].pubdel)
    BY <1>3, <2>1 DEF Pubs, PubsFrom, Msg
  <2>3. pc[c] \in Saving /\ pc'[c] \in Saving /\ frame'[c] = frame[c]
    BY <1>3 DEF SaveRetain, NextAt, Goto, Saving, CleanInv, TypeInv, TypeOK
  <2>4. CASE d = c
    <3>1. <<t, cache'[t]>> \in Accounted(c)
      BY <1>3, <2>2, <2>3, <2>4 DEF OwnRows
    <3> QED
      BY <1>3, <2>4, <3>1, AccountedKept
  <2>5. CASE d # c
    <3>1. <<t, cache'[t]>> \in Pending(c, d)'
      BY <2>2, <2>3, <2>5 DEF Pending, Unsent, Pubs
    <3> QED
      BY <3>1 DEF Accounted
  <2> QED
    BY <2>4, <2>5
<1> QED
  BY <1>0, <1>1, <1>2, <1>3, CacheStep

LEMMA CommittedNext ==
    ASSUME DeliveryInv, NEW c \in Conn, Handler(c) \/ Environment(c)
    PROVE  CommittedReachesSubscriber'
<1> USE DEF DeliveryInv
<1> SUFFICES ASSUME NEW p \in Pattern, NEW d \in sub'[p], NEW r \in db', r[1] \in Covers[p],
                    ~Loading(d, p, {"cache", "rows"})'
             PROVE  r \in Accounted(d)'
  BY DEF CommittedReachesSubscriber
<1>0. d \in Conn
  BY SubStep DEF CleanInv, TypeInv, TypeOK
<1>1. CASE ~(d \in sub[p])
  <2>1. d = c /\ Sub(c) /\ Req(c).pat = p
    BY <1>1, SubStep
  <2>2. Req(c) = [type |-> "SUB", pat |-> p]
    BY <2>1, ReqType DEF Sub, CleanInv, TypeInv, Request
  <2>3. pc'[c] = "cache" /\ Req(c)' = Req(c)
    BY <2>1 DEF Sub, Goto, CleanInv, TypeInv, TypeOK, Req
  <2> QED
    BY <2>1, <2>2, <2>3 DEF Loading
<1>2. CASE d \in sub[p] /\ r \in db
  <2>1. CASE ~Loading(d, p, {"cache", "rows"})
    <3>1. r \in Accounted(d)
      BY <1>2, <2>1 DEF NoMissedUpdate, CommittedReachesSubscriber
    <3> QED
      BY <1>2, <3>1, AccountedKept
  <2>2. CASE Loading(d, p, {"cache", "rows"})
    <3>1. d = c
      BY <1>0, <2>2, LocalStep DEF Loading, Req
    <3>2. ~LoadCache(c)
      BY <2>2, <3>1 DEF LoadCache, Goto, Loading, Req, CleanInv, TypeInv, TypeOK
    <3>3. LoadRows(c)
      BY <2>2, <3>1, <3>2, LoadingStep DEF Loading, Req
    <3>4. View(c) = db
      BY <3>3 DEF View, LoadRows, CleanInv, LeavingOK, Saving, Teardown
    <3>5. r \in queue'[c][c] /\ pc'[c] = "gsu"
      BY <1>2, <2>2, <3>1, <3>3, <3>4 DEF LoadRows, NextAt, Loading, Goto, CleanInv, TypeInv, TypeOK
    <3>6. r \in Pending(c, c)'
      BY <3>5 DEF Pending, Unsent, Publishing, Saving
    <3> QED
      BY <3>1, <3>6 DEF Accounted
  <2> QED
    BY <2>1, <2>2
<1>3. CASE d \in sub[p] /\ r \notin db /\ Commit(c) /\ writer = c /\ r \in wdb
  <2>1. CASE r \in lost[d]
    BY <1>3, <2>1, AccountedKept DEF Accounted
  <2>2. CASE pc[c] \in Saving /\ r \in Pubs(frame[c].pubdel) /\ d = c
    <3>1. r \in Accounted(c)
      BY <1>3, <2>2 DEF OwnRows
    <3> QED
      BY <1>3, <2>2, <3>1, AccountedKept
  <2>3. CASE pc[c] \in Saving /\ r \in Pubs(frame[c].pubdel) /\ d # c
    <3>1. pc'[c] = "match" /\ k'[c] = 1 /\ frame'[c] = frame[c]
      BY <1>3 DEF Commit, StartAt, Goto, CleanInv, TypeInv, TypeOK
    <3>2. r \in Pending(c, d)'
      BY <2>3, <3>1 DEF Pending, Unsent, Pubs, Saving
    <3> QED
      BY <3>2 DEF Accounted
  <2> QED
    BY <1>0, <1>3, <2>1, <2>2, <2>3 DEF WorkingRows
<1> QED
  BY <1>1, <1>2, <1>3, CommittedStep

(* What delivery rests on: a publisher's own rows, the rows that an open     *)
(* transaction adds, and the rows that are visible are all accounted for.    *)
THEOREM DeliveryInvariant == Spec => []DeliveryInv
<1> DEFINE Rest == OwnRows /\ WorkingRows /\ NoMissedUpdate
<1>1. Init => Rest
  BY NoneIsNothing, CoversType DEF Init, OwnRows, WorkingRows, NoMissedUpdate,
     CachedReachesSubscriber, CommittedReachesSubscriber, Saving
<1>2. Rest /\ CleanInv /\ CleanInv' /\ [Next]_vars => Rest'
  <2> SUFFICES ASSUME Rest, CleanInv, [Next]_vars PROVE Rest'
    OBVIOUS
  <2>1. DeliveryInv
    BY DEF DeliveryInv
  <2>2. CASE Next
    BY <2>1, <2>2, OwnRowsNext, WorkingRowsNext, CachedNext, CommittedNext DEF Next, NoMissedUpdate
  <2>3. CASE UNCHANGED vars
    <3>1. /\ pc' = pc /\ frame' = frame /\ k' = k /\ queue' = queue /\ sub' = sub /\ cache' = cache
          /\ db' = db /\ writer' = writer /\ wdb' = wdb /\ known' = known /\ lost' = lost
      BY <2>3 DEF vars, local, shared, sqlite, history
    <3>2. \A d \in Conn : Accounted(d)' = Accounted(d)
      BY <3>1 DEF Accounted, Pending, Unsent, Pubs
    <3>3. \A d, p, l : Loading(d, p, l)' = Loading(d, p, l)
      BY <3>1 DEF Loading, Req
    <3>4. \A p \in Pattern : sub[p] \subseteq Conn
      BY DEF CleanInv, TypeInv, TypeOK
    <3>5. OwnRows'
      BY <3>1, <3>2 DEF OwnRows, Pubs
    <3>6. WorkingRows'
      BY <3>1 DEF WorkingRows, Pubs
    <3>7. CachedReachesSubscriber'
      BY <3>1, <3>2, <3>3, <3>4 DEF NoMissedUpdate, CachedReachesSubscriber
    <3>8. CommittedReachesSubscriber'
      BY <3>1, <3>2, <3>3, <3>4 DEF NoMissedUpdate, CommittedReachesSubscriber
    <3> QED
      BY <3>5, <3>6, <3>7, <3>8 DEF NoMissedUpdate
  <2> QED
    BY <2>2, <2>3
<1>3. Rest /\ CleanInv => DeliveryInv
  BY DEF DeliveryInv
<1> QED
  BY <1>1, <1>2, <1>3, CleanInvariant, PTL DEF Spec

(* Whatever a subscriber would be told by subscribing now has been sent to   *)
(* it, is on its way, or was lost to an exception in the publisher's thread. *)
THEOREM NoUpdateIsMissed == Spec => []NoMissedUpdate
<1>1. DeliveryInv => NoMissedUpdate
  BY DEF DeliveryInv
<1> QED
  BY <1>1, DeliveryInvariant, PTL

-----------------------------------------------------------------------------
(* PERSIST replaces.  The transaction of a handler that has gone past the    *)
(* last word on a topic holds one row of it, and until the commit nobody     *)
(* else gets at the transaction.                                             *)

Alone(rows, m) == {r \in rows : r[1] = m.pat} = {<<m.pat, m.value>>}

SavedAlone ==
    \A c \in Conn : pc[c] \in Saving =>
        \A i \in DOMAIN frame[c].pubdel :
            i < k[c] /\ LastWord(frame[c].pubdel, i) => writer = c /\ Alone(wdb, frame[c].pubdel[i])

(* A transaction is left alone by the steps of the other handlers. *)
LEMMA HeldStep ==
    ASSUME CleanInv, NEW c \in Conn, Handler(c) \/ Environment(c), NEW a \in Conn, a # c, writer = a
    PROVE  writer' = a /\ wdb' = wdb
<1> USE NoneIsNothing DEF CleanInv, TypeInv, TypeOK, Goto, NextAt, StartAt, Abort, local, shared, sqlite, history
<1>1. CASE Close(c)
  BY <1>1 DEF Close
<1>2. CASE AddConnection(c)
  BY <1>2 DEF AddConnection
<1>3. CASE \E f \in Frames[c] : Receive(c, f)
  BY <1>3 DEF Receive
<1>4. CASE ReceiveFails(c)
  BY <1>4 DEF ReceiveFails
<1>5. CASE SaveSend(c)
  BY <1>5 DEF SaveSend
<1>6. CASE SaveRetain(c)
  BY <1>6 DEF SaveRetain
<1>7. CASE SavePersistent(c)
  BY <1>7 DEF SavePersistent
<1>8. CASE Store(c)
  BY <1>8 DEF Store
<1>9. CASE StoreFails(c)
  BY <1>9 DEF StoreFails
<1>10. CASE SaveDel(c)
  BY <1>10 DEF SaveDel
<1>11. CASE Scan(c)
  BY <1>11 DEF Scan
<1>12. CASE Delete(c)
  BY <1>12 DEF Delete
<1>13. CASE BusyTimeout(c)
  BY <1>13 DEF BusyTimeout
<1>14. CASE Commit(c)
  BY <1>14 DEF Commit
<1>15. CASE MatchPub(c)
  BY <1>15 DEF MatchPub
<1>16. CASE MatchDel(c)
  BY <1>16 DEF MatchDel
<1>17. CASE Discard(c)
  BY <1>17 DEF Discard
<1>18. CASE \E d \in Conn : Send(c, d)
  BY <1>18 DEF Send
<1>19. CASE \E d \in Conn : SendFails(c, d)
  BY <1>19 DEF SendFails
<1>20. CASE Sent(c)
  BY <1>20 DEF Sent
<1>21. CASE Get(c)
  BY <1>21 DEF Get
<1>22. CASE Sub(c)
  BY <1>22 DEF Sub
<1>23. CASE Unsub(c)
  BY <1>23 DEF Unsub
<1>24. CASE LoadCache(c)
  BY <1>24 DEF LoadCache
<1>25. CASE LoadRows(c)
  BY <1>25 DEF LoadRows
<1>26. CASE Reply(c)
  BY <1>26 DEF Reply
<1>27. CASE ReplyFails(c)
  BY <1>27 DEF ReplyFails
<1>28. CASE SetWill(c)
  BY <1>28 DEF SetWill
<1>29. CASE DelConn(c)
  BY <1>29 DEF DelConn
<1>30. CASE DelSub(c)
  BY <1>30 DEF DelSub
<1>31. CASE DelWill(c)
  BY <1>31 DEF DelWill
<1>32. CASE End(c)
  BY <1>32 DEF End
<1>33. CASE MatchFails(c)
  BY <1>33 DEF MatchFails
<1>34. CASE SaveDelFails(c)
  BY <1>34 DEF SaveDelFails
<1> QED
  BY <1>1, <1>2, <1>3, <1>4, <1>5, <1>6, <1>7, <1>8, <1>9, <1>10, <1>11, <1>12, <1>13, <1>14, <1>15, <1>16, <1>17, <1>18, <1>19, <1>20, <1>21, <1>22, <1>23, <1>24, <1>25, <1>26, <1>27, <1>28, <1>29, <1>30, <1>31, <1>32, <1>33, <1>34 DEF Handler, Environment

(* Until the commit, the steps of the handler itself keep what a last word   *)
(* has stored: after it come only publications to other topics.              *)
LEMMA SavedStep ==
    ASSUME CleanInv, SavedAlone, NEW c \in Conn, Handler(c) \/ Environment(c), pc'[c] \in Saving,
           NEW i \in DOMAIN frame'[c].pubdel, i < k'[c], LastWord(frame'[c].pubdel, i)
    PROVE  writer' = c /\ Alone(wdb', frame'[c].pubdel[i])
<1> USE NoneIsNothing DEF CleanInv, TypeInv, TypeOK, LeavingOK, SavedAlone, Saving, Teardown, Goto, NextAt, StartAt, Abort, local, shared, sqlite, history
<1>a. \A f \in Frame : DOMAIN f.pubdel \subseteq Nat \ {0}
  BY DEF Frame
<1>b. i \in Nat \ {0} /\ k[c] \in Nat
  <2>1. frame'[c] \in Frame
    BY TypeNext
  <2> QED
    BY <1>a, <2>1
<1>c. ASSUME k'[c] = k[c] + 1 PROVE i < k[c] \/ i = k[c]
  <2> HIDE DEF CleanInv, SavedAlone
  <2> QED
    BY <1>b, <1>c
<1>1. CASE Close(c)
  BY <1>1 DEF Close, LastWord, Msg
<1>2. CASE AddConnection(c)
  BY <1>2 DEF AddConnection, LastWord, Msg
<1>3. CASE \E f \in Frames[c] : Receive(c, f)
  <2>1. k'[c] = 1
    BY <1>3 DEF Receive
  <2> QED
    BY <1>b, <2>1
<1>4. CASE ReceiveFails(c)
  BY <1>4 DEF ReceiveFails, LastWord, Msg
<1>5. CASE SaveSend(c)
  <2>1. frame' = frame /\ pc[c] = "save" /\ k'[c] = k[c] + 1 /\ writer' = writer /\ wdb' = wdb
    BY <1>5 DEF SaveSend
  <2>2. frame[c].pubdel[k[c]].mode # "PERSIST"
    BY <1>5 DEF SaveSend, Msg
  <2>3. i < k[c]
    BY <1>c, <2>1, <2>2 DEF LastWord
  <2> QED
    BY <2>1, <2>3
<1>6. CASE SaveRetain(c)
  <2>1. frame' = frame /\ pc[c] = "save" /\ k'[c] = k[c] + 1 /\ writer' = writer /\ wdb' = wdb
    BY <1>6 DEF SaveRetain
  <2>2. frame[c].pubdel[k[c]].mode # "PERSIST"
    BY <1>6 DEF SaveRetain, Msg
  <2>3. i < k[c]
    BY <1>c, <2>1, <2>2 DEF LastWord
  <2> QED
    BY <2>1, <2>3
<1>7. CASE SavePersistent(c)
  BY <1>7 DEF SavePersistent, LastWord, Msg
<1>8. CASE Store(c)
  <2>1. frame' = frame /\ pc[c] = "store" /\ k'[c] = k[c] + 1 /\ writer' = c /\ writer \in {None, c}
    BY <1>8 DEF Store
  <2>2. wdb' = {<<Msg(c).pat, Msg(c).value>>}
                 \cup (IF Msg(c).mode = "PERSIST" THEN KeepOnly(View(c), Msg(c)) ELSE View(c))
    BY <1>8 DEF Store
  <2>3. CASE i < k[c]
    <3>1. writer = c /\ Alone(wdb, frame[c].pubdel[i])
      BY <2>1, <2>3
    <3>2. View(c) = wdb
      BY <3>1 DEF View
    <3>3. Msg(c).pat # frame[c].pubdel[i].pat
      BY <1>b, <2>1, <2>3 DEF LastWord, Msg, PlaceOK
    <3>4. {r \in wdb' : r[1] = frame[c].pubdel[i].pat} = {r \in wdb : r[1] = frame[c].pubdel[i].pat}
      BY <2>2, <3>2, <3>3 DEF KeepOnly
    <3> QED
      BY <2>1, <3>1, <3>4 DEF Alone
  <2>4. CASE i = k[c]
    <3>1. Msg(c) = frame[c].pubdel[i] /\ Msg(c).mode = "PERSIST"
      BY <2>1, <2>4 DEF LastWord, Msg
    <3>2. View(c) \subseteq Row
      BY DEF View
    <3>3. {r \in KeepOnly(View(c), Msg(c)) : r[1] = Msg(c).pat} \subseteq {<<Msg(c).pat, Msg(c).value>>}
      BY <3>2 DEF KeepOnly, Row
    <3>4. {r \in wdb' : r[1] = Msg(c).pat} = {<<Msg(c).pat, Msg(c).value>>}
      BY <2>2, <3>1, <3>3
    <3> QED
      BY <2>1, <3>1, <3>4 DEF Alone
  <2> QED
    BY <1>c, <2>1, <2>3, <2>4
<1>9. CASE StoreFails(c)
  BY <1>9 DEF StoreFails, LastWord, Msg
<1>10. CASE SaveDel(c)
  BY <1>10 DEF SaveDel, LastWord, Msg
<1>11. CASE Scan(c)
  BY <1>11 DEF Scan, LastWord, Msg
<1>12. CASE Delete(c)
  <2>1. frame' = frame /\ pc[c] = "delete" /\ k'[c] = k[c] + 1
    BY <1>12 DEF Delete
  <2>2. k[c] \in DOMAIN frame[c].pubdel /\ Msg(c).type = "DEL" /\ Msg(c).mode # "PERSIST"
    BY <2>1, MsgType DEF PlaceOK, Mode
  <2>3. ~ i < k[c]
    BY <1>b, <2>1, <2>2 DEF LastWord, Msg
  <2>4. i = k[c]
    BY <1>c, <2>1, <2>3
  <2> QED
    BY <2>1, <2>2, <2>4 DEF LastWord, Msg
<1>13. CASE BusyTimeout(c)
  BY <1>13 DEF BusyTimeout, LastWord, Msg
<1>14. CASE Commit(c)
  BY <1>14 DEF Commit, LastWord, Msg
<1>15. CASE MatchPub(c)
  BY <1>15 DEF MatchPub, LastWord, Msg
<1>16. CASE MatchDel(c)
  BY <1>16 DEF MatchDel, LastWord, Msg
<1>17. CASE Discard(c)
  BY <1>17 DEF Discard, LastWord, Msg
<1>18. CASE \E d \in Conn : Send(c, d)
  BY <1>18 DEF Send, LastWord, Msg
<1>19. CASE \E d \in Conn : SendFails(c, d)
  BY <1>19 DEF SendFails, LastWord, Msg
<1>20. CASE Sent(c)
  BY <1>20 DEF Sent, LastWord, Msg
<1>21. CASE Get(c)
  BY <1>21 DEF Get, LastWord, Msg
<1>22. CASE Sub(c)
  BY <1>22 DEF Sub, LastWord, Msg
<1>23. CASE Unsub(c)
  BY <1>23 DEF Unsub, LastWord, Msg
<1>24. CASE LoadCache(c)
  BY <1>24 DEF LoadCache, LastWord, Msg
<1>25. CASE LoadRows(c)
  BY <1>25 DEF LoadRows, LastWord, Msg
<1>26. CASE Reply(c)
  BY <1>26 DEF Reply, LastWord, Msg
<1>27. CASE ReplyFails(c)
  BY <1>27 DEF ReplyFails, LastWord, Msg
<1>28. CASE SetWill(c)
  BY <1>28 DEF SetWill, LastWord, Msg
<1>29. CASE DelConn(c)
  BY <1>29 DEF DelConn, LastWord, Msg
<1>30. CASE DelSub(c)
  BY <1>30 DEF DelSub, LastWord, Msg
<1>31. CASE DelWill(c)
  <2>1. k'[c] = 1 /\ \E w \in Will : frame'[c] = WillFrame(w)
    BY <1>31 DEF DelWill
  <2>2. \A w \in Will : DOMAIN WillFrame(w).pubdel = {1}
    BY DEF WillFrame
  <2> QED
    BY <2>1, <2>2
<1>32. CASE End(c)
  BY <1>32 DEF End, LastWord, Msg
<1>33. CASE MatchFails(c)
  BY <1>33 DEF MatchFails, LastWord, Msg
<1>34. CASE SaveDelFails(c)
  BY <1>34 DEF SaveDelFails, LastWord, Msg
<1> QED
  BY <1>1, <1>2, <1>3, <1>4, <1>5, <1>6, <1>7, <1>8, <1>9, <1>10, <1>11, <1>12, <1>13, <1>14, <1>15, <1>16, <1>17, <1>18, <1>19, <1>20, <1>21, <1>22, <1>23, <1>24, <1>25, <1>26, <1>27, <1>28, <1>29, <1>30, <1>31, <1>32, <1>33, <1>34 DEF Handler, Environment

LEMMA SavedNext ==
    ASSUME CleanInv, SavedAlone, NEW c \in Conn, Handler(c) \/ Environment(c)
    PROVE  SavedAlone'
<1> SUFFICES ASSUME NEW a \in Conn, pc'[a] \in Saving,
                    NEW i \in DOMAIN frame'[a].pubdel, i < k'[a], LastWord(frame'[a].pubdel, i)
             PROVE  writer' = a /\ Alone(wdb', frame'[a].pubdel[i])
  BY DEF SavedAlone, Alone, LastWord
<1>1. CASE a = c
  BY <1>1, SavedStep
<1>2. CASE a # c
  <2>1. pc'[a] = pc[a] /\ frame'[a] = frame[a] /\ k'[a] = k[a]
    BY <1>2, LocalStep
  <2>2. writer = a /\ Alone(wdb, frame[a].pubdel[i])
    BY <2>1 DEF SavedAlone
  <2> QED
    BY <1>2, <2>1, <2>2, HeldStep
<1> QED
  BY <1>1, <1>2

(* A commit that ends a frame whose last word on a topic is a PERSIST leaves *)
(* that value alone in the topic, whatever other handlers do before it.      *)
THEOREM PersistReplacesTheTopic == Spec => PersistReplaces
<1> DEFINE Replaces ==
        \A c \in Conn : Commit(c) =>
            \A i \in DOMAIN frame[c].pubdel : LastWord(frame[c].pubdel, i) =>
                {r \in db' : r[1] = frame[c].pubdel[i].pat}
                    = {<<frame[c].pubdel[i].pat, frame[c].pubdel[i].value>>}
<1>1. Init => SavedAlone
  BY DEF Init, SavedAlone, Saving
<1>2. SavedAlone /\ CleanInv /\ [Next]_vars => SavedAlone'
  <2> SUFFICES ASSUME SavedAlone, CleanInv, [Next]_vars PROVE SavedAlone'
    OBVIOUS
  <2>1. CASE Next
    BY <2>1, SavedNext DEF Next
  <2>2. CASE UNCHANGED vars
    BY <2>2 DEF vars, local, sqlite, SavedAlone, Alone, LastWord
  <2> QED
    BY <2>1, <2>2
<1>3. SavedAlone /\ CleanInv => [Replaces]_vars
  <2> SUFFICES ASSUME SavedAlone, CleanInv, NEW c \in Conn, Commit(c),
                      NEW i \in DOMAIN frame[c].pubdel, LastWord(frame[c].pubdel, i)
               PROVE  {r \in db' : r[1] = frame[c].pubdel[i].pat}
                          = {<<frame[c].pubdel[i].pat, frame[c].pubdel[i].value>>}
    OBVIOUS
  <2>1. frame[c].pubdel \in Seq(PubDel) /\ k[c] \in Nat \ {0} /\ k[c] \notin DOMAIN frame[c].pubdel
    BY DEF CleanInv, TypeInv, TypeOK, Frame, Commit
  <2>2. i < k[c]
    BY <2>1
  <2>3. writer = c /\ Alone(wdb, frame[c].pubdel[i])
    BY <2>2 DEF SavedAlone, Commit, Saving
  <2>4. db' = wdb
    BY <2>3 DEF Commit
  <2> QED
    BY <2>3, <2>4 DEF Alone
<1> QED
  BY <1>1, <1>2, <1>3, CleanInvariant, PTL DEF Spec, PersistReplaces

-----------------------------------------------------------------------------
(* The broker is the service of module PubSub.  A handler's own queue is    *)
(* empty when it sends what its publication has matched, so that the rows of *)
(* a handler to itself are those of its own requests.                        *)

OwnQueue ==
    \A c \in Conn : pc[c] = "send" \/ (final[c] /\ pc[c] \in Publishing) => queue[c][c] = {}

LEMMA OwnQueueNext ==
    ASSUME CleanInv, OwnQueue, NEW c \in Conn, Handler(c) \/ Environment(c)
    PROVE  OwnQueue'
<1> USE NoneIsNothing DEF CleanInv, TypeInv, TypeOK, OwnQueue, Abort, Goto, NextAt, StartAt, local, shared, sqlite, history
<1>1. CASE Close(c)
  BY <1>1 DEF Close, QueueOK, NoQueue, Saving, Publishing, Requesting, Teardown, LeavingOK
<1>2. CASE AddConnection(c)
  BY <1>2 DEF AddConnection, QueueOK, NoQueue, Saving, Publishing, Requesting, Teardown, LeavingOK
<1>3. CASE \E f \in Frames[c] : Receive(c, f)
  <2>1. queue[c] = NoQueue /\ queue' = queue
    BY <1>3 DEF Receive, QueueOK, Requesting
  <2>2. queue'[c][c] = {}
    BY <2>1 DEF NoQueue
  <2>3. ASSUME NEW a \in Conn, a # c PROVE pc'[a] = pc[a] /\ final'[a] = final[a]
    BY <1>3, <2>3 DEF Receive
  <2> QED
    BY <2>1, <2>2, <2>3
<1>4. CASE ReceiveFails(c)
  BY <1>4 DEF ReceiveFails, QueueOK, NoQueue, Saving, Publishing, Requesting, Teardown, LeavingOK
<1>5. CASE SaveSend(c)
  BY <1>5 DEF SaveSend, QueueOK, NoQueue, Saving, Publishing, Requesting, Teardown, LeavingOK
<1>6. CASE SaveRetain(c)
  BY <1>6 DEF SaveRetain, QueueOK, NoQueue, Saving, Publishing, Requesting, Teardown, LeavingOK
<1>7. CASE SavePersistent(c)
  BY <1>7 DEF SavePersistent, QueueOK, NoQueue, Saving, Publishing, Requesting, Teardown, LeavingOK
<1>8. CASE Store(c)
  BY <1>8 DEF Store, QueueOK, NoQueue, Saving, Publishing, Requesting, Teardown, LeavingOK
<1>9. CASE StoreFails(c)
  BY <1>9 DEF StoreFails, QueueOK, NoQueue, Saving, Publishing, Requesting, Teardown, LeavingOK
<1>10. CASE SaveDel(c)
  BY <1>10 DEF SaveDel, QueueOK, NoQueue, Saving, Publishing, Requesting, Teardown, LeavingOK
<1>11. CASE Scan(c)
  BY <1>11 DEF Scan, QueueOK, NoQueue, Saving, Publishing, Requesting, Teardown, LeavingOK
<1>12. CASE Delete(c)
  BY <1>12 DEF Delete, QueueOK, NoQueue, Saving, Publishing, Requesting, Teardown, LeavingOK
<1>13. CASE BusyTimeout(c)
  BY <1>13 DEF BusyTimeout, QueueOK, NoQueue, Saving, Publishing, Requesting, Teardown, LeavingOK
<1>14. CASE Commit(c)
  BY <1>14 DEF Commit, QueueOK, NoQueue, Saving, Publishing, Requesting, Teardown, LeavingOK
<1>15. CASE MatchPub(c)
  <2> SUFFICES ASSUME NEW a \in Conn, pc'[a] = "send" \/ (final'[a] /\ pc'[a] \in Publishing)
               PROVE  queue'[a][a] = {}
    OBVIOUS
  <2>1. CASE a # c
    BY <1>15, <2>1 DEF MatchPub
  <2>2. CASE a = c
    <3>1. final[c] /\ pc[c] \in Publishing /\ queue[c][c] = {}
      BY <1>15, <2>2 DEF MatchPub, Publishing
    <3>2. c \notin Subscribers(Msg(c).pat)
      BY <3>1 DEF LeavingOK, Subscribers
    <3> QED
      BY <1>15, <2>2, <3>1, <3>2 DEF MatchPub
  <2> QED
    BY <2>1, <2>2
<1>16. CASE MatchDel(c)
  BY <1>16 DEF MatchDel, QueueOK, NoQueue, Saving, Publishing, Requesting, Teardown, LeavingOK
<1>17. CASE Discard(c)
  BY <1>17 DEF Discard, QueueOK, NoQueue, Saving, Publishing, Requesting, Teardown, LeavingOK
<1>18. CASE \E d \in Conn : Send(c, d)
  BY <1>18 DEF Send, QueueOK, NoQueue, Saving, Publishing, Requesting, Teardown, LeavingOK
<1>19. CASE \E d \in Conn : SendFails(c, d)
  BY <1>19 DEF SendFails, QueueOK, NoQueue, Saving, Publishing, Requesting, Teardown, LeavingOK
<1>20. CASE Sent(c)
  BY <1>20 DEF Sent, QueueOK, NoQueue, Saving, Publishing, Requesting, Teardown, LeavingOK
<1>21. CASE Get(c)
  BY <1>21 DEF Get, QueueOK, NoQueue, Saving, Publishing, Requesting, Teardown, LeavingOK
<1>22. CASE Sub(c)
  BY <1>22 DEF Sub, QueueOK, NoQueue, Saving, Publishing, Requesting, Teardown, LeavingOK
<1>23. CASE Unsub(c)
  BY <1>23 DEF Unsub, QueueOK, NoQueue, Saving, Publishing, Requesting, Teardown, LeavingOK
<1>24. CASE LoadCache(c)
  BY <1>24 DEF LoadCache, QueueOK, NoQueue, Saving, Publishing, Requesting, Teardown, LeavingOK
<1>25. CASE LoadRows(c)
  BY <1>25 DEF LoadRows, QueueOK, NoQueue, Saving, Publishing, Requesting, Teardown, LeavingOK
<1>26. CASE Reply(c)
  BY <1>26 DEF Reply, QueueOK, NoQueue, Saving, Publishing, Requesting, Teardown, LeavingOK
<1>27. CASE ReplyFails(c)
  BY <1>27 DEF ReplyFails, QueueOK, NoQueue, Saving, Publishing, Requesting, Teardown, LeavingOK
<1>28. CASE SetWill(c)
  BY <1>28 DEF SetWill, QueueOK, NoQueue, Saving, Publishing, Requesting, Teardown, LeavingOK
<1>29. CASE DelConn(c)
  BY <1>29 DEF DelConn, QueueOK, NoQueue, Saving, Publishing, Requesting, Teardown, LeavingOK
<1>30. CASE DelSub(c)
  BY <1>30 DEF DelSub, QueueOK, NoQueue, Saving, Publishing, Requesting, Teardown, LeavingOK
<1>31. CASE DelWill(c)
  <2>1. queue[c] = NoQueue /\ queue' = queue
    BY <1>31 DEF DelWill, QueueOK, Requesting
  <2>2. queue'[c][c] = {}
    BY <2>1 DEF NoQueue
  <2>3. ASSUME NEW a \in Conn, a # c PROVE pc'[a] = pc[a] /\ final'[a] = final[a]
    BY <1>31, <2>3 DEF DelWill
  <2> QED
    BY <2>1, <2>2, <2>3
<1>32. CASE End(c)
  BY <1>32 DEF End, QueueOK, NoQueue, Saving, Publishing, Requesting, Teardown, LeavingOK
<1>33. CASE MatchFails(c)
  BY <1>33 DEF MatchFails, QueueOK, NoQueue, Saving, Publishing, Requesting, Teardown, LeavingOK
<1>34. CASE SaveDelFails(c)
  BY <1>34 DEF SaveDelFails, QueueOK, NoQueue, Saving, Publishing, Requesting, Teardown, LeavingOK
<1> QED
  BY <1>1, <1>2, <1>3, <1>4, <1>5, <1>6, <1>7, <1>8, <1>9, <1>10, <1>11, <1>12, <1>13, <1>14, <1>15, <1>16, <1>17, <1>18, <1>19, <1>20, <1>21, <1>22, <1>23, <1>24, <1>25, <1>26, <1>27, <1>28, <1>29, <1>30, <1>31, <1>32, <1>33, <1>34 DEF Handler, Environment

THEOREM OwnQueueInvariant == Spec => []OwnQueue
<1>1. Init => OwnQueue
  BY DEF Init, OwnQueue, Publishing, Saving
<1>2. OwnQueue /\ CleanInv /\ [Next]_vars => OwnQueue'
  <2> SUFFICES ASSUME OwnQueue, CleanInv, [Next]_vars PROVE OwnQueue'
    OBVIOUS
  <2>1. CASE Next
    BY <2>1, OwnQueueNext DEF Next
  <2>2. CASE UNCHANGED vars
    BY <2>2 DEF vars, local, OwnQueue
  <2> QED
    BY <2>1, <2>2
<1> QED
  BY <1>1, <1>2, CleanInvariant, PTL DEF Spec

LEMMA OneChanges ==
    ASSUME NEW f, NEW g, NEW c \in Conn, f = [a \in Conn |-> f[a]], g = [a \in Conn |-> g[a]],
           \A a \in Conn : a # c => g[a] = f[a]
    PROVE  g = [f EXCEPT ![c] = g[c]]
<1> DEFINE h == [f EXCEPT ![c] = g[c]]
<1>1. h = [a \in Conn |-> g[a]]
  OBVIOUS
<1> QED
  BY <1>1

(* The rows of the other handlers stay where they are. *)
LEMMA OneHandlerMoves ==
    ASSUME CleanInv, NEW c \in Conn, Handler(c) \/ Environment(c)
    PROVE  /\ Unmatched' = [Unmatched EXCEPT ![c] = Unmatched'[c]]
           /\ Queued' = [Queued EXCEPT ![c] = Queued'[c]]
<1>1. \A a \in Conn : a # c => Unmatched'[a] = Unmatched[a] /\ Queued'[a] = Queued[a]
  BY LocalStep DEF Unmatched, Queued, Pubs
<1>2. /\ Unmatched = [a \in Conn |-> Unmatched[a]] /\ Unmatched' = [a \in Conn |-> Unmatched'[a]]
      /\ Queued = [a \in Conn |-> Queued[a]] /\ Queued' = [a \in Conn |-> Queued'[a]]
  BY DEF Unmatched, Queued
<1>3. Unmatched' = [Unmatched EXCEPT ![c] = Unmatched'[c]]
  BY <1>1, <1>2, OneChanges
<1>4. Queued' = [Queued EXCEPT ![c] = Queued'[c]]
  BY <1>1, <1>2, OneChanges
<1> QED
  BY <1>3, <1>4

(* A handler joins and leaves by what it does about its own requests. *)
LEMMA JoinedStep ==
    ASSUME CleanInv, NEW c \in Conn, Handler(c) \/ Environment(c)
    PROVE  \A p \in Pattern, d \in Conn : d # c =>
               (Loading(d, p, {"cache", "rows"})' <=> Loading(d, p, {"cache", "rows"}))
<1>1. \A d \in Conn : d # c => pc'[d] = pc[d] /\ frame'[d] = frame[d] /\ k'[d] = k[d]
  BY LocalStep
<1> QED
  BY <1>1 DEF Loading, Req

LEMMA JoinedKept ==
    ASSUME CleanInv, NEW c \in Conn, Handler(c) \/ Environment(c), sub' = sub,
           \A p \in Pattern : Loading(c, p, {"cache", "rows"})' <=> Loading(c, p, {"cache", "rows"})
    PROVE  Joined' = Joined
<1>1. \A p \in Pattern, d \in Conn : Loading(d, p, {"cache", "rows"})' <=> Loading(d, p, {"cache", "rows"})
  BY JoinedStep
<1>2. \A p \in Pattern : sub[p] \subseteq Conn
  BY DEF CleanInv, TypeInv, TypeOK
<1>3. \A p \in Pattern : {d \in sub'[p] : ~Loading(d, p, {"cache", "rows"})'} = {d \in sub[p] : ~Loading(d, p, {"cache", "rows"})}
  BY <1>1, <1>2
<1> QED
  BY <1>3 DEF Joined

(* A handler that does not wait for a load and does not come to wait for one. *)
LEMMA NotLoading ==
    ASSUME CleanInv, NEW c \in Conn, Handler(c) \/ Environment(c), sub' = sub,
           pc[c] \notin {"cache", "rows"}, pc'[c] \notin {"cache", "rows"}
    PROVE  Joined' = Joined
<1>1. \A p \in Pattern : Loading(c, p, {"cache", "rows"})' <=> Loading(c, p, {"cache", "rows"})
  BY DEF Loading
<1> QED
  BY <1>1, JoinedKept

LEMMA VisibleKept ==
    ASSUME cache' = cache, db' = db
    PROVE  Visible' = Visible
BY DEF Visible

(* A step that the clients do not see. *)
LEMMA Unseen ==
    ASSUME CleanInv, NEW c \in Conn, Handler(c) \/ Environment(c), sub' = sub, Joined' = Joined,
           cache' = cache, db' = db, known' = known, lost' = lost,
           Unmatched'[c] = Unmatched[c], Queued'[c] = Queued[c]
    PROVE  UNCHANGED PS!vars
<1>1. Unmatched' = [Unmatched EXCEPT ![c] = Unmatched[c]] /\ Queued' = [Queued EXCEPT ![c] = Queued[c]]
  BY OneHandlerMoves
<1>2. [Unmatched EXCEPT ![c] = Unmatched[c]] = Unmatched
  BY DEF Unmatched
<1>3. [Queued EXCEPT ![c] = Queued[c]] = Queued
  BY DEF Queued
<1> QED
  BY <1>1, <1>2, <1>3, VisibleKept DEF PS!vars

LEMMA PubsFromNext ==
    ASSUME NEW s \in Seq(PubDel), NEW i \in Nat \ {0}, i \in DOMAIN s
    PROVE  /\ s[i].type = "PUB" => PubsFrom(s, i) = PubsFrom(s, i + 1) \cup {<<s[i].pat, s[i].value>>}
           /\ s[i].type # "PUB" => PubsFrom(s, i) = PubsFrom(s, i + 1)
<1>1. DOMAIN s = 1 .. Len(s)
  OBVIOUS
<1>2. PubsFrom(s, i + 1) \subseteq PubsFrom(s, i)
  <2> SUFFICES ASSUME NEW r \in PubsFrom(s, i + 1) PROVE r \in PubsFrom(s, i)
    OBVIOUS
  <2>1. PICK j \in DOMAIN s : j >= i + 1 /\ s[j].type = "PUB" /\ r = <<s[j].pat, s[j].value>>
    BY DEF PubsFrom
  <2>2. j >= i
    BY <1>1, <2>1
  <2> QED
    BY <2>1, <2>2 DEF PubsFrom
<1>3. s[i].type = "PUB" => <<s[i].pat, s[i].value>> \in PubsFrom(s, i)
  BY DEF PubsFrom
<1> QED
  BY <1>2, <1>3, PubsFromStep

(* Steps that the clients do not see: they only move a handler on. *)
LEMMA QuietStep ==
    ASSUME CleanInv, OwnQueue, NEW c \in Conn,
           \/ Close(c) \/ AddConnection(c) \/ SaveSend(c) \/ Store(c) \/ Scan(c) \/ Delete(c)
           \/ MatchDel(c) \/ Discard(c) \/ Sent(c) \/ Get(c) \/ SetWill(c) \/ DelConn(c) \/ End(c)
    PROVE  UNCHANGED PS!vars
<1> USE NoneIsNothing DEF CleanInv, TypeInv, TypeOK, Goto, NextAt, StartAt, local, shared, sqlite, history
<1>1. CASE Close(c)
  <2>1. /\ sub' = sub /\ cache' = cache /\ db' = db /\ known' = known /\ lost' = lost
        /\ pc' = pc /\ frame' = frame /\ k' = k /\ queue' = queue
    BY <1>1 DEF Close
  <2>2. Unmatched'[c] = Unmatched[c]
    BY <2>1 DEF Unmatched, Pubs
  <2>3. Queued'[c] = Queued[c]
    BY <2>1 DEF Queued
  <2>4. \A p \in Pattern : Loading(c, p, {"cache", "rows"})' <=> Loading(c, p, {"cache", "rows"})
    BY <2>1 DEF Loading, Req
  <2>5. Joined' = Joined
    BY <1>1, <2>1, <2>4, JoinedKept DEF Handler, Environment
  <2> QED
    BY <1>1, <2>1, <2>2, <2>3, <2>5, Unseen DEF Handler, Environment
<1>2. CASE AddConnection(c)
  <2>1. /\ sub' = sub /\ cache' = cache /\ db' = db /\ known' = known /\ lost' = lost
        /\ pc[c] \notin {"cache", "rows"} /\ pc'[c] \notin {"cache", "rows"}
    BY <1>2 DEF AddConnection, Saving
  <2>2. Unmatched'[c] = Unmatched[c]
    BY <1>2 DEF AddConnection, Unmatched, Pubs, Saving
  <2>3. Queued'[c] = Queued[c]
    BY <1>2 DEF AddConnection, Queued, Saving, Publishing
  <2>4. Joined' = Joined
    BY <1>2, <2>1, NotLoading DEF Handler, Environment
  <2> QED
    BY <1>2, <2>1, <2>2, <2>3, <2>4, Unseen DEF Handler, Environment
<1>3. CASE SaveSend(c)
  <2>1. /\ sub' = sub /\ cache' = cache /\ db' = db /\ known' = known /\ lost' = lost
        /\ pc[c] \notin {"cache", "rows"} /\ pc'[c] \notin {"cache", "rows"}
    BY <1>3 DEF SaveSend, Saving
  <2>2. Unmatched'[c] = Unmatched[c]
    BY <1>3 DEF SaveSend, Unmatched, Pubs, Saving
  <2>3. Queued'[c] = Queued[c]
    BY <1>3 DEF SaveSend, Queued, Saving, Publishing
  <2>4. Joined' = Joined
    BY <1>3, <2>1, NotLoading DEF Handler, Environment
  <2> QED
    BY <1>3, <2>1, <2>2, <2>3, <2>4, Unseen DEF Handler, Environment
<1>4. CASE Store(c)
  <2>1. /\ sub' = sub /\ cache' = cache /\ db' = db /\ known' = known /\ lost' = lost
        /\ pc[c] \notin {"cache", "rows"} /\ pc'[c] \notin {"cache", "rows"}
    BY <1>4 DEF Store, Saving
  <2>2. Unmatched'[c] = Unmatched[c]
    BY <1>4 DEF Store, Unmatched, Pubs, Saving
  <2>3. Queued'[c] = Queued[c]
    BY <1>4 DEF Store, Queued, Saving, Publishing
  <2>4. Joined' = Joined
    BY <1>4, <2>1, NotLoading DEF Handler, Environment
  <2> QED
    BY <1>4, <2>1, <2>2, <2>3, <2>4, Unseen DEF Handler, Environment
<1>5. CASE Scan(c)
  <2>1. /\ sub' = sub /\ cache' = cache /\ db' = db /\ known' = known /\ lost' = lost
        /\ pc[c] \notin {"cache", "rows"} /\ pc'[c] \notin {"cache", "rows"}
    BY <1>5 DEF Scan, Saving
  <2>2. Unmatched'[c] = Unmatched[c]
    BY <1>5 DEF Scan, Unmatched, Pubs, Saving
  <2>3. Queued'[c] = Queued[c]
    BY <1>5 DEF Scan, Queued, Saving, Publishing
  <2>4. Joined' = Joined
    BY <1>5, <2>1, NotLoading DEF Handler, Environment
  <2> QED
    BY <1>5, <2>1, <2>2, <2>3, <2>4, Unseen DEF Handler, Environment
<1>6. CASE Delete(c)
  <2>1. /\ sub' = sub /\ cache' = cache /\ db' = db /\ known' = known /\ lost' = lost
        /\ pc[c] \notin {"cache", "rows"} /\ pc'[c] \notin {"cache", "rows"}
    BY <1>6 DEF Delete, Saving
  <2>2. Unmatched'[c] = Unmatched[c]
    BY <1>6 DEF Delete, Unmatched, Pubs, Saving
  <2>3. Queued'[c] = Queued[c]
    BY <1>6 DEF Delete, Queued, Saving, Publishing
  <2>4. Joined' = Joined
    BY <1>6, <2>1, NotLoading DEF Handler, Environment
  <2> QED
    BY <1>6, <2>1, <2>2, <2>3, <2>4, Unseen DEF Handler, Environment
<1>7. CASE MatchDel(c)
  <2>1. /\ sub' = sub /\ cache' = cache /\ db' = db /\ known' = known /\ lost' = lost
        /\ pc[c] = "match" /\ pc'[c] = "match" /\ frame' = frame /\ k'[c] = k[c] + 1 /\ queue' = queue
    BY <1>7 DEF MatchDel
  <2>2. PubsFrom(frame[c].pubdel, k[c]) = PubsFrom(frame[c].pubdel, k[c] + 1)
    <3>1. frame[c].pubdel \in Seq(PubDel) /\ frame[c].pubdel[k[c]].type # "PUB" /\ k[c] \in DOMAIN frame[c].pubdel
      BY <1>7 DEF MatchDel, Msg, Frame
    <3>2. k[c] \in Nat \ {0}
      OBVIOUS
    <3> QED
      BY <3>1, <3>2, PubsFromNext
  <2>3. Unmatched'[c] = Unmatched[c]
    BY <2>1, <2>2 DEF Unmatched, Saving
  <2>4. Queued'[c] = Queued[c]
    BY <2>1 DEF Queued
  <2>5. Joined' = Joined
    BY <1>7, <2>1, NotLoading DEF Handler, Environment
  <2> QED
    BY <1>7, <2>1, <2>3, <2>4, <2>5, Unseen DEF Handler, Environment
<1>8. CASE Discard(c)
  <2>1. /\ sub' = sub /\ cache' = cache /\ db' = db /\ known' = known /\ lost' = lost
        /\ pc[c] = "match" /\ pc'[c] = "send" /\ k[c] \notin DOMAIN frame[c].pubdel
    BY <1>8 DEF Discard
  <2>2. PubsFrom(frame[c].pubdel, k[c]) = {}
    <3>1. frame[c].pubdel \in Seq(PubDel) /\ k[c] \in Nat \ {0}
      BY DEF Frame
    <3> QED
      BY <2>1, <3>1, PubsFromStep
  <2>3. Unmatched'[c] = Unmatched[c]
    BY <2>1, <2>2 DEF Unmatched, Saving
  <2>4. Queued'[c] = Queued[c]
    BY <1>8, <2>1 DEF Discard, Queued, Publishing
  <2>5. Joined' = Joined
    BY <1>8, <2>1, NotLoading DEF Handler, Environment
  <2> QED
    BY <1>8, <2>1, <2>3, <2>4, <2>5, Unseen DEF Handler, Environment
<1>9. CASE Sent(c)
  <2>1. /\ sub' = sub /\ cache' = cache /\ db' = db /\ known' = known /\ lost' = lost
        /\ pc[c] = "send" /\ pc'[c] \in {"end", "gsu"} /\ queue' = queue /\ queue[c] = NoQueue
    BY <1>9 DEF Sent
  <2>2. Unmatched'[c] = Unmatched[c]
    BY <2>1 DEF Unmatched, Saving
  <2>3. Queued'[c] = Queued[c]
    BY <2>1 DEF Queued, NoQueue
  <2>4. Joined' = Joined
    BY <1>9, <2>1, NotLoading DEF Handler, Environment
  <2> QED
    BY <1>9, <2>1, <2>2, <2>3, <2>4, Unseen DEF Handler, Environment
<1>10. CASE SetWill(c)
  <2>1. /\ sub' = sub /\ cache' = cache /\ db' = db /\ known' = known /\ lost' = lost
        /\ pc[c] \notin {"cache", "rows"} /\ pc'[c] \notin {"cache", "rows"}
    BY <1>10 DEF SetWill, Saving
  <2>2. Unmatched'[c] = Unmatched[c]
    BY <1>10 DEF SetWill, Unmatched, Pubs, Saving
  <2>3. Queued'[c] = Queued[c]
    BY <1>10 DEF SetWill, Queued, Saving, Publishing
  <2>4. Joined' = Joined
    BY <1>10, <2>1, NotLoading DEF Handler, Environment
  <2> QED
    BY <1>10, <2>1, <2>2, <2>3, <2>4, Unseen DEF Handler, Environment
<1>11. CASE DelConn(c)
  <2>1. /\ sub' = sub /\ cache' = cache /\ db' = db /\ known' = known /\ lost' = lost
        /\ pc[c] \notin {"cache", "rows"} /\ pc'[c] \notin {"cache", "rows"}
    BY <1>11 DEF DelConn, Saving
  <2>2. Unmatched'[c] = Unmatched[c]
    BY <1>11 DEF DelConn, Unmatched, Pubs, Saving
  <2>3. Queued'[c] = Queued[c]
    BY <1>11 DEF DelConn, Queued, Saving, Publishing
  <2>4. Joined' = Joined
    BY <1>11, <2>1, NotLoading DEF Handler, Environment
  <2> QED
    BY <1>11, <2>1, <2>2, <2>3, <2>4, Unseen DEF Handler, Environment
<1>12. CASE End(c)
  <2>1. /\ sub' = sub /\ cache' = cache /\ db' = db /\ known' = known /\ lost' = lost
        /\ pc[c] \notin {"cache", "rows"} /\ pc'[c] \notin {"cache", "rows"}
    BY <1>12 DEF End, Saving
  <2>2. Unmatched'[c] = Unmatched[c]
    BY <1>12 DEF End, Unmatched, Pubs, Saving
  <2>3. Queued'[c] = Queued[c]
    BY <1>12 DEF End, Queued, Saving, Publishing
  <2>4. Joined' = Joined
    BY <1>12, <2>1, NotLoading DEF Handler, Environment
  <2> QED
    BY <1>12, <2>1, <2>2, <2>3, <2>4, Unseen DEF Handler, Environment
<1>13. CASE Get(c)
  <2>1. /\ sub' = sub /\ cache' = cache /\ db' = db /\ known' = known /\ lost' = lost
        /\ pc[c] = "gsu" /\ pc'[c] = "cache" /\ queue' = queue /\ Req(c)' = Req(c) /\ Req(c).type = "GET"
    BY <1>13 DEF Get, Req
  <2>2. Unmatched'[c] = Unmatched[c]
    BY <2>1 DEF Unmatched, Saving
  <2>3. Queued'[c] = Queued[c]
    BY <2>1 DEF Queued, Publishing, Saving
  <2>4. \A p \in Pattern : ~Loading(c, p, {"cache", "rows"})' /\ ~Loading(c, p, {"cache", "rows"})
    BY <2>1 DEF Loading
  <2>5. Joined' = Joined
    BY <1>13, <2>1, <2>4, JoinedKept DEF Handler, Environment
  <2> QED
    BY <1>13, <2>1, <2>2, <2>3, <2>5, Unseen DEF Handler, Environment
<1> QED
  BY <1>1, <1>2, <1>3, <1>4, <1>5, <1>6, <1>7, <1>8, <1>9, <1>10, <1>11, <1>12, <1>13

(* What a step makes visible is being published, or lost to everybody. *)
LEMMA Appears ==
    ASSUME CleanInv, WorkingRows, NEW c \in Conn, Handler(c) \/ Environment(c)
    PROVE  Visible' \subseteq Visible \cup Unmatched[c] \cup {r \in Row : \A d \in Conn : r \in lost[d]}
<1>1. ASSUME NEW t \in Topic, cache'[t] # None
      PROVE  <<t, cache'[t]>> \in Visible \cup Unmatched[c]
  <2>1. CASE cache'[t] = cache[t]
    BY <1>1, <2>1 DEF Visible
  <2>2. CASE SaveRetain(c) /\ t = Msg(c).pat /\ cache'[t] = Msg(c).value
    <3>1. k[c] \in DOMAIN frame[c].pubdel /\ k[c] >= 1 /\ Msg(c).type = "PUB" /\ pc[c] = "save"
      BY <2>2, MsgType DEF SaveRetain, Mode, CleanInv, TypeInv, TypeOK
    <3>2. <<t, cache'[t]>> \in Pubs(frame[c].pubdel)
      BY <2>2, <3>1 DEF Pubs, PubsFrom, Msg
    <3> QED
      BY <3>1, <3>2 DEF Unmatched, Saving
  <2> QED
    BY <1>1, <2>1, <2>2, CacheStep
<1>2. ASSUME NEW r \in db'
      PROVE  r \in Visible \cup Unmatched[c] \cup {q \in Row : \A d \in Conn : q \in lost[d]}
  <2>1. CASE r \in db
    BY <2>1 DEF Visible
  <2>2. CASE Commit(c) /\ writer = c /\ r \in wdb
    <3>1. \/ r \in db
          \/ pc[c] \in Saving /\ r \in Pubs(frame[c].pubdel)
          \/ \A d \in Conn : r \in lost[d]
      BY <2>2 DEF WorkingRows
    <3>2. r \in Row
      BY <2>2 DEF CleanInv, TypeInv, TypeOK
    <3> QED
      BY <3>1, <3>2 DEF Visible, Unmatched
  <2> QED
    BY <2>1, <2>2, CommittedStep
<1> QED
  BY <1>1, <1>2 DEF Visible

(* Saving and committing change what is visible, and nothing else. *)
LEMMA ChangeStep ==
    ASSUME CleanInv, WorkingRows, NEW c \in Conn,
           SaveRetain(c) \/ SavePersistent(c) \/ SaveDel(c) \/ Commit(c)
    PROVE  PS!Change(c)
<1>1. Handler(c)
  BY DEF Handler
<1>2. /\ sub' = sub /\ known' = known /\ lost' = lost /\ frame' = frame /\ queue' = queue
      /\ pc[c] \in Saving /\ (pc'[c] \in Saving \/ (pc'[c] = "match" /\ k'[c] = 1))
  <2> USE DEF NextAt, StartAt, Goto, history, shared, Saving, CleanInv, TypeInv, TypeOK
  <2>1. CASE SaveRetain(c)
    BY <2>1 DEF SaveRetain
  <2>2. CASE SavePersistent(c)
    BY <2>2 DEF SavePersistent
  <2>3. CASE SaveDel(c)
    BY <2>3 DEF SaveDel
  <2>4. CASE Commit(c)
    BY <2>4 DEF Commit
  <2> QED
    BY <2>1, <2>2, <2>3, <2>4
<1>3. Joined' = Joined
  <2>1. pc[c] \notin {"cache", "rows"} /\ pc'[c] \notin {"cache", "rows"}
    BY <1>2 DEF Saving
  <2> QED
    BY <1>1, <1>2, <2>1, NotLoading
<1>4. Unmatched' = Unmatched
  <2>1. Unmatched'[c] = Unmatched[c]
    BY <1>2 DEF Unmatched, Pubs, Saving
  <2>2. Unmatched' = [Unmatched EXCEPT ![c] = Unmatched[c]]
    BY <1>1, <2>1, OneHandlerMoves
  <2> QED
    BY <2>2 DEF Unmatched
<1>5. Queued' = Queued
  <2>1. Queued'[c] = Queued[c]
    BY <1>2 DEF Queued, Publishing, Saving
  <2>2. Queued' = [Queued EXCEPT ![c] = Queued[c]]
    BY <1>1, <2>1, OneHandlerMoves
  <2> QED
    BY <2>2 DEF Queued
<1> QED
  BY <1>1, <1>2, <1>3, <1>4, <1>5, Appears DEF PS!Change, PS!Row, Row

(* An exception loses what the handler had to publish or to reply. *)
LEMMA FailStep ==
    ASSUME CleanInv, OwnQueue, NEW c \in Conn,
           \/ ReceiveFails(c) \/ StoreFails(c) \/ BusyTimeout(c) \/ ReplyFails(c)
           \/ MatchFails(c) \/ SaveDelFails(c)
           \/ \E d \in Conn : SendFails(c, d)
    PROVE  PS!Fail(c)
<1>1. Handler(c) \/ Environment(c)
  BY DEF Handler, Environment
<1>2. Abort(c) /\ pc[c] \in {"recv", "save", "store", "delete", "match", "send", "gsu"}
  BY DEF ReceiveFails, StoreFails, BusyTimeout, ReplyFails, SendFails, MatchFails, SaveDelFails
<1>3. /\ sub' = sub /\ known' = known /\ cache' = cache /\ db' = db
      /\ queue' = [queue EXCEPT ![c] = NoQueue] /\ pc'[c] \in {"end", "delconn"}
      /\ lost' = [d \in Conn |-> lost[d] \cup Unsent(c, d)]
  BY <1>2 DEF Abort, Goto, shared, CleanInv, TypeInv, TypeOK
<1>4. Joined' = Joined
  <2>1. pc[c] \notin {"cache", "rows"} /\ pc'[c] \notin {"cache", "rows"}
    BY <1>2, <1>3
  <2> QED
    BY <1>1, <1>3, <2>1, NotLoading
<1>5. ASSUME NEW d \in Conn PROVE Unsent(c, d) = Unmatched[c] \cup Queued[c][d]
  <2>1. CASE pc[c] \in {"save", "store", "delete"}
    <3>1. queue[c][d] = {} /\ Unsent(c, d) = Unmatched[c] /\ (c = d => Queued[c][d] = {})
      BY <2>1 DEF CleanInv, QueueOK, NoQueue, Requesting, Unsent, Unmatched, Queued, Saving, Publishing
    <3> QED
      BY <3>1 DEF Queued
  <2>2. CASE pc[c] = "send"
    <3>1. Unsent(c, d) = queue[c][d] /\ Unmatched[c] = {} /\ queue[c][c] = {}
      BY <2>2 DEF OwnQueue, Unsent, Unmatched, Saving
    <3> QED
      BY <2>2, <3>1 DEF Queued
  <2>3. CASE pc[c] \in {"recv", "gsu"}
    BY <2>3 DEF Unsent, Unmatched, Queued, Saving, Publishing
  <2>4. CASE pc[c] = "match"
    BY <2>4 DEF Unsent, Unmatched, Queued, Saving, Publishing
  <2> QED
    BY <1>2, <2>1, <2>2, <2>3, <2>4
<1>6. lost' = [d \in Conn |-> lost[d] \cup Unmatched[c] \cup Queued[c][d]]
  BY <1>3, <1>5
<1>7. Unmatched' = [Unmatched EXCEPT ![c] = {}]
  <2>1. Unmatched'[c] = {}
    BY <1>3 DEF Unmatched, Saving
  <2> QED
    BY <1>1, <2>1, OneHandlerMoves
<1>8. Queued' = [Queued EXCEPT ![c] = [d \in Conn |-> {}]]
  <2>1. queue'[c] = NoQueue
    BY <1>3 DEF CleanInv, TypeInv, TypeOK
  <2>2. Queued'[c] = [d \in Conn |-> {}]
    BY <1>3, <2>1 DEF Queued, NoQueue
  <2> QED
    BY <1>1, <2>2, OneHandlerMoves
<1> QED
  BY <1>3, <1>4, <1>6, <1>7, <1>8, VisibleKept DEF PS!Fail

(* Who waits for the load of a SUB has subscribed, and is unsubscribed by    *)
(* nobody but its own handler.                                               *)
Subscribed ==
    \A c \in Conn : pc[c] \in {"cache", "rows"} /\ Req(c).type = "SUB" => c \in sub[Req(c).pat]

LEMMA SubscribedNext ==
    ASSUME CleanInv, Subscribed, NEW c \in Conn, Handler(c) \/ Environment(c)
    PROVE  Subscribed'
<1> USE NoneIsNothing DEF CleanInv, TypeInv, TypeOK, Subscribed, Abort, Req, Goto, NextAt, StartAt, local, shared, sqlite, history
<1> SUFFICES ASSUME NEW a \in Conn, pc'[a] \in {"cache", "rows"}, Req(a)'.type = "SUB"
             PROVE  a \in sub'[Req(a)'.pat]
  OBVIOUS
<1>0. a # c => pc'[a] = pc[a] /\ frame'[a] = frame[a] /\ k'[a] = k[a]
  BY LocalStep
<1>1. CASE Close(c)
  BY <1>0, <1>1 DEF Close
<1>2. CASE AddConnection(c)
  BY <1>0, <1>2 DEF AddConnection
<1>3. CASE \E f \in Frames[c] : Receive(c, f)
  BY <1>0, <1>3 DEF Receive
<1>4. CASE ReceiveFails(c)
  BY <1>0, <1>4 DEF ReceiveFails
<1>5. CASE SaveSend(c)
  BY <1>0, <1>5 DEF SaveSend
<1>6. CASE SaveRetain(c)
  BY <1>0, <1>6 DEF SaveRetain
<1>7. CASE SavePersistent(c)
  BY <1>0, <1>7 DEF SavePersistent
<1>8. CASE Store(c)
  BY <1>0, <1>8 DEF Store
<1>9. CASE StoreFails(c)
  BY <1>0, <1>9 DEF StoreFails
<1>10. CASE SaveDel(c)
  BY <1>0, <1>10 DEF SaveDel
<1>11. CASE Scan(c)
  BY <1>0, <1>11 DEF Scan
<1>12. CASE Delete(c)
  BY <1>0, <1>12 DEF Delete
<1>13. CASE BusyTimeout(c)
  BY <1>0, <1>13 DEF BusyTimeout
<1>14. CASE Commit(c)
  BY <1>0, <1>14 DEF Commit
<1>15. CASE MatchPub(c)
  BY <1>0, <1>15 DEF MatchPub
<1>16. CASE MatchDel(c)
  BY <1>0, <1>16 DEF MatchDel
<1>17. CASE Discard(c)
  BY <1>0, <1>17 DEF Discard
<1>18. CASE \E d \in Conn : Send(c, d)
  BY <1>0, <1>18 DEF Send
<1>19. CASE \E d \in Conn : SendFails(c, d)
  BY <1>0, <1>19 DEF SendFails
<1>20. CASE Sent(c)
  BY <1>0, <1>20 DEF Sent
<1>21. CASE Get(c)
  BY <1>0, <1>21 DEF Get
<1>22. CASE Sub(c)
  <2>1. Req(c) \in Request
    BY <1>0, <1>22, ReqType DEF Sub
  <2>2. Req(c).pat \in Pattern
    BY <2>1 DEF Request
  <2>3. CASE a = c
    <3>1. Req(a)' = Req(c) /\ sub' = [sub EXCEPT ![Req(c).pat] = sub[Req(c).pat] \cup {c}]
      BY <1>0, <1>22, <2>3 DEF Sub
    <3> QED
      BY <2>2, <2>3, <3>1
  <2>4. CASE a # c
    <3>1. Req(a)' = Req(a) /\ sub' = [sub EXCEPT ![Req(c).pat] = sub[Req(c).pat] \cup {c}] /\ a \in sub[Req(a).pat]
      BY <1>0, <1>22, <1>0, <2>4 DEF Sub
    <3>2. Req(a) \in Request
      BY <1>0, <2>4, ReqType DEF PlaceOK
    <3>3. Req(a).pat \in Pattern
      BY <3>2 DEF Request
    <3> QED
      BY <2>2, <3>1, <3>3
  <2> QED
    BY <2>3, <2>4
<1>23. CASE Unsub(c)
  <2>1. a # c
    BY <1>0, <1>23 DEF Unsub
  <2>2. Req(a)' = Req(a) /\ sub' = [sub EXCEPT ![Req(c).pat] = sub[Req(c).pat] \ {c}] /\ a \in sub[Req(a).pat]
    BY <1>0, <1>23, <1>0, <2>1 DEF Unsub
  <2>3. Req(a) \in Request
    BY <1>0, <2>1, ReqType DEF PlaceOK
  <2>4. Req(a).pat \in Pattern
    BY <2>3 DEF Request
  <2> QED
    BY <2>1, <2>2, <2>4
<1>24. CASE LoadCache(c)
  BY <1>0, <1>24 DEF LoadCache
<1>25. CASE LoadRows(c)
  BY <1>0, <1>25 DEF LoadRows
<1>26. CASE Reply(c)
  BY <1>0, <1>26 DEF Reply
<1>27. CASE ReplyFails(c)
  BY <1>0, <1>27 DEF ReplyFails
<1>28. CASE SetWill(c)
  BY <1>0, <1>28 DEF SetWill
<1>29. CASE DelConn(c)
  BY <1>0, <1>29 DEF DelConn
<1>30. CASE DelSub(c)
  <2>1. a # c
    BY <1>0, <1>30 DEF DelSub
  <2>2. Req(a)' = Req(a) /\ sub' = [p \in Pattern |-> sub[p] \ {c}] /\ a \in sub[Req(a).pat]
    BY <1>0, <1>30, <1>0, <2>1 DEF DelSub
  <2>3. Req(a) \in Request
    BY <1>0, <2>1, ReqType DEF PlaceOK
  <2>4. Req(a).pat \in Pattern
    BY <2>3 DEF Request
  <2> QED
    BY <2>1, <2>2, <2>4
<1>31. CASE DelWill(c)
  BY <1>0, <1>31 DEF DelWill
<1>32. CASE End(c)
  BY <1>0, <1>32 DEF End
<1>33. CASE MatchFails(c)
  BY <1>0, <1>33 DEF MatchFails
<1>34. CASE SaveDelFails(c)
  BY <1>0, <1>34 DEF SaveDelFails
<1> QED
  BY <1>1, <1>2, <1>3, <1>4, <1>5, <1>6, <1>7, <1>8, <1>9, <1>10, <1>11, <1>12, <1>13, <1>14, <1>15, <1>16, <1>17, <1>18, <1>19, <1>20, <1>21, <1>22, <1>23, <1>24, <1>25, <1>26, <1>27, <1>28, <1>29, <1>30, <1>31, <1>32, <1>33, <1>34 DEF Handler, Environment

THEOREM SubscribedInvariant == Spec => []Subscribed
<1>1. Init => Subscribed
  BY DEF Init, Subscribed
<1>2. Subscribed /\ CleanInv /\ [Next]_vars => Subscribed'
  <2> SUFFICES ASSUME Subscribed, CleanInv, [Next]_vars PROVE Subscribed'
    OBVIOUS
  <2>1. CASE Next
    BY <2>1, SubscribedNext DEF Next
  <2>2. CASE UNCHANGED vars
    BY <2>2 DEF vars, local, shared, Subscribed, Req
  <2> QED
    BY <2>1, <2>2
<1> QED
  BY <1>1, <1>2, CleanInvariant, PTL DEF Spec

(* Matching a publication notifies everybody who asked for its topic. *)
LEMMA MatchStep ==
    ASSUME CleanInv, NEW c \in Conn, MatchPub(c)
    PROVE  \E r \in Unmatched[c] : PS!Notify(c, r)
<1> DEFINE r == <<Msg(c).pat, Msg(c).value>>
<1>1. Handler(c)
  BY DEF Handler
<1>2. /\ sub' = sub /\ known' = known /\ lost' = lost /\ cache' = cache /\ db' = db /\ frame' = frame
      /\ pc[c] = "match" /\ pc'[c] = "match" /\ k'[c] = k[c] + 1
      /\ k[c] \in DOMAIN frame[c].pubdel /\ Msg(c).type = "PUB"
  BY DEF MatchPub, NextAt, Goto, shared, sqlite, history, CleanInv, TypeInv, TypeOK
<1>3. Joined' = Joined
  BY <1>1, <1>2, NotLoading
<1>4. Unmatched[c] = Unmatched'[c] \cup {r}
  <2>1. frame[c].pubdel \in Seq(PubDel) /\ k[c] \in Nat \ {0}
    BY DEF CleanInv, TypeInv, TypeOK, Frame
  <2>2. PubsFrom(frame[c].pubdel, k[c]) = PubsFrom(frame[c].pubdel, k[c] + 1) \cup {r}
    BY <1>2, <2>1, PubsFromNext DEF Msg
  <2> QED
    BY <1>2, <2>2 DEF Unmatched, Saving
<1>5. Unmatched' \in {Unmatched, [Unmatched EXCEPT ![c] = @ \ {r}]}
  <2>1. Unmatched'[c] = Unmatched[c] \/ Unmatched'[c] = Unmatched[c] \ {r}
    BY <1>4
  <2>2. Unmatched' = [Unmatched EXCEPT ![c] = Unmatched'[c]]
    BY <1>1, OneHandlerMoves
  <2>3. [Unmatched EXCEPT ![c] = Unmatched[c]] = Unmatched
    BY DEF Unmatched
  <2> QED
    BY <2>1, <2>2, <2>3
<1>6. PS!Asking(r) = Subscribers(Msg(c).pat)
  BY DEF PS!Asking, Subscribers
<1>7. Queued'[c] = [d \in Conn |-> IF d \in PS!Asking(r) \ {c} THEN Queued[c][d] \cup {r} ELSE Queued[c][d]]
  <2>1. queue'[c] = [d \in Conn |-> IF d \in Subscribers(Msg(c).pat) THEN queue[c][d] \cup {r} ELSE queue[c][d]]
    BY DEF MatchPub, CleanInv, TypeInv, TypeOK
  <2>2. Queued'[c] = [d \in Conn |-> IF c = d THEN {} ELSE queue'[c][d]]
    BY <1>2 DEF Queued, Publishing
  <2>3. Queued[c] = [d \in Conn |-> IF c = d THEN {} ELSE queue[c][d]]
    BY <1>2 DEF Queued, Publishing
  <2> HIDE DEF r
  <2> QED
    BY <1>6, <2>1, <2>2, <2>3
<1>8. Queued' = [Queued EXCEPT ![c] = [d \in Conn |-> IF d \in PS!Asking(r) \ {c} THEN @[d] \cup {r} ELSE @[d]]]
  <2>1. Queued' = [Queued EXCEPT ![c] = Queued'[c]]
    BY <1>1, OneHandlerMoves
  <2> HIDE DEF r
  <2> QED
    BY <1>7, <2>1 DEF Queued
<1>9. r \in Unmatched[c]
  BY <1>4
<1>10. PS!Notify(c, r)
  <2> HIDE DEF r
  <2> QED
    BY <1>2, <1>3, <1>5, <1>8, <1>9, VisibleKept DEF PS!Notify
<1> QED
  BY <1>9, <1>10

(* Sending takes the rows of one pair of handlers out of the queue. *)
LEMMA DeliverStep ==
    ASSUME CleanInv, OwnQueue, NEW c \in Conn, NEW d \in Conn, Send(c, d) \/ (Reply(c) /\ d = c)
    PROVE  PS!Deliver(c, d)
<1>1. Handler(c)
  BY DEF Handler
<1>2. /\ sub' = sub /\ lost' = lost /\ cache' = cache /\ db' = db /\ frame' = frame /\ k' = k
      /\ known' = [known EXCEPT ![d] = @ \cup queue[c][d]] /\ queue' = [queue EXCEPT ![c][d] = {}]
      /\ \/ pc[c] = "send" /\ pc'[c] = "send" /\ queue[c][d] # {}
         \/ pc[c] = "gsu" /\ pc'[c] = "lwt"
  <2> USE DEF Goto, shared, sqlite, CleanInv, TypeInv, TypeOK
  <2>1. CASE Send(c, d)
    BY <2>1 DEF Send
  <2>2. CASE Reply(c) /\ d = c
    BY <2>2 DEF Reply
  <2> QED
    BY <2>1, <2>2
<1>3. Joined' = Joined
  BY <1>1, <1>2, NotLoading
<1>4. Unmatched' = Unmatched
  <2>1. Unmatched'[c] = Unmatched[c]
    BY <1>2 DEF Unmatched, Saving
  <2>2. Unmatched' = [Unmatched EXCEPT ![c] = Unmatched[c]]
    BY <1>1, <2>1, OneHandlerMoves
  <2> QED
    BY <2>2 DEF Unmatched
<1>5. Queued[c][d] = queue[c][d]
  BY <1>2 DEF OwnQueue, Queued, Publishing, Saving
<1>6. Queued'[c] = [Queued[c] EXCEPT ![d] = {}]
  <2>1. queue'[c] = [queue[c] EXCEPT ![d] = {}]
    BY <1>2 DEF CleanInv, TypeInv, TypeOK
  <2>2. \A e \in Conn : queue'[c][e] = IF e = d THEN {} ELSE queue[c][e]
    BY <2>1 DEF CleanInv, TypeInv, TypeOK
  <2>3. pc[c] \in Publishing <=> pc'[c] \in Publishing
    BY <1>2 DEF Publishing, Saving
  <2> QED
    BY <2>2, <2>3 DEF Queued
<1>7. Queued' = [Queued EXCEPT ![c][d] = {}]
  <2>1. Queued' = [Queued EXCEPT ![c] = Queued'[c]]
    BY <1>1, OneHandlerMoves
  <2> QED
    BY <1>6, <2>1
<1> QED
  BY <1>2, <1>3, <1>4, <1>5, <1>7, VisibleKept DEF PS!Deliver

(* A SUB asks first, and stops being joined until its load is over. *)
LEMMA AskStep ==
    ASSUME CleanInv, NEW c \in Conn, Sub(c)
    PROVE  \E p \in Pattern : PS!Ask(c, p)
<1> DEFINE p == Req(c).pat
<1>1. Handler(c)
  BY DEF Handler
<1>2. /\ known' = known /\ lost' = lost /\ cache' = cache /\ db' = db /\ queue' = queue
      /\ pc[c] = "gsu" /\ pc'[c] = "cache" /\ Req(c)' = Req(c)
      /\ k[c] \in DOMAIN frame[c].gsu /\ Req(c).type = "SUB"
      /\ sub' = [sub EXCEPT ![p] = @ \cup {c}]
  BY DEF Sub, Goto, sqlite, history, CleanInv, TypeInv, TypeOK, Req
<1>3. Req(c) = [type |-> "SUB", pat |-> p] /\ p \in Pattern
  <2>1. Req(c) \in Request
    BY <1>2, ReqType DEF CleanInv, TypeInv
  <2> QED
    BY <1>2, <2>1 DEF Request
<1>4. Unmatched[c] = {} /\ Unmatched' = Unmatched
  <2>1. Unmatched[c] = {} /\ Unmatched'[c] = Unmatched[c]
    BY <1>2 DEF Unmatched, Saving
  <2>2. Unmatched' = [Unmatched EXCEPT ![c] = Unmatched[c]]
    BY <1>1, <2>1, OneHandlerMoves
  <2> QED
    BY <2>1, <2>2 DEF Unmatched
<1>5. Queued' = Queued
  <2>1. Queued'[c] = Queued[c]
    BY <1>2 DEF Queued, Publishing, Saving
  <2>2. Queued' = [Queued EXCEPT ![c] = Queued[c]]
    BY <1>1, <2>1, OneHandlerMoves
  <2> QED
    BY <2>2 DEF Queued
<1>6. Joined' = [Joined EXCEPT ![p] = @ \ {c}]
  <2> SUFFICES ASSUME NEW q \in Pattern
               PROVE  {d \in sub'[q] : ~Loading(d, q, {"cache", "rows"})'}
                          = IF q = p THEN Joined[q] \ {c} ELSE Joined[q]
    BY <1>3 DEF Joined
  <2>1. sub[q] \subseteq Conn
    BY DEF CleanInv, TypeInv, TypeOK
  <2>2. \A d \in Conn : d # c => (Loading(d, q, {"cache", "rows"})' <=> Loading(d, q, {"cache", "rows"}))
    BY <1>1, JoinedStep
  <2>3. ~Loading(c, q, {"cache", "rows"})
    BY <1>2 DEF Loading
  <2>4. Loading(c, q, {"cache", "rows"})' <=> q = p
    <3>1. Loading(c, q, {"cache", "rows"})' <=> [type |-> "SUB", pat |-> p] = [type |-> "SUB", pat |-> q]
      <4> HIDE DEF p
      <4> QED
        BY <1>2, <1>3 DEF Loading
    <3> HIDE DEF p
    <3>2. [type |-> "SUB", pat |-> p] = [type |-> "SUB", pat |-> q] => p = q
      <4> DEFINE e(x) == [type |-> "SUB", pat |-> x]
      <4>1. e(p).pat = p /\ e(q).pat = q
        OBVIOUS
      <4> QED
        BY <4>1
    <3> QED
      BY <3>1, <3>2
  <2>5. sub'[q] = IF q = p THEN sub[q] \cup {c} ELSE sub[q]
    <3> HIDE DEF p
    <3> QED
      BY <1>2, <1>3 DEF CleanInv, TypeInv, TypeOK
  <2> HIDE DEF p
  <2>6. Joined[q] = {d \in sub[q] : ~Loading(d, q, {"cache", "rows"})}
    BY DEF Joined
  <2>7. CASE q = p
    BY <2>1, <2>2, <2>4, <2>5, <2>6, <2>7
  <2>8. CASE q # p
    BY <2>1, <2>2, <2>3, <2>4, <2>5, <2>6, <2>8
  <2> QED
    BY <2>7, <2>8
<1>7. PS!Ask(c, p)
  <2> HIDE DEF p
  <2> QED
    BY <1>2, <1>4, <1>5, <1>6, VisibleKept DEF PS!Ask
<1> QED
  BY <1>3, <1>7

(* What a load puts into the handler's own queue. *)
LEMMA LoadedRows ==
    ASSUME CleanInv, NEW c \in Conn, LoadCache(c) \/ LoadRows(c)
    PROVE  /\ Req(c) \in Request /\ Req(c).pat \in Pattern
           /\ \E rows \in SUBSET PS!Of(Visible, Req(c).pat) : Queued' = [Queued EXCEPT ![c][c] = @ \cup rows]
           /\ Unmatched' = Unmatched
           /\ sub' = sub /\ known' = known /\ lost' = lost /\ cache' = cache /\ db' = db
<1>1. Handler(c)
  BY DEF Handler
<1>2. Req(c) \in Request /\ Req(c).pat \in Pattern
  <2>1. Req(c) \in Request
    BY ReqType DEF CleanInv, TypeInv, PlaceOK, LoadCache, LoadRows
  <2> QED
    BY <2>1 DEF Request
<1>3. /\ sub' = sub /\ known' = known /\ lost' = lost /\ cache' = cache /\ db' = db
      /\ pc[c] \in {"cache", "rows"} /\ pc'[c] \in {"rows", "gsu"}
  <2> USE DEF NextAt, Goto, shared, sqlite, history, CleanInv, TypeInv, TypeOK
  <2>1. CASE LoadCache(c)
    BY <2>1 DEF LoadCache
  <2>2. CASE LoadRows(c)
    BY <2>2 DEF LoadRows
  <2> QED
    BY <2>1, <2>2
<1>4. PICK rows \in SUBSET PS!Of(Visible, Req(c).pat) : queue' = [queue EXCEPT ![c][c] = @ \cup rows]
  <2>1. CASE LoadCache(c)
    <3> DEFINE kept == {<<t, cache[t]>> : t \in {t \in Covers[Req(c).pat] : cache[t] # None}}
    <3>1. kept \subseteq PS!Of(Visible, Req(c).pat)
      BY <1>2, CoversType DEF PS!Of, Visible
    <3>2. queue' = [queue EXCEPT ![c][c] = @ \cup kept]
      BY <2>1 DEF LoadCache
    <3> QED
      BY <3>1, <3>2
  <2>2. CASE LoadRows(c)
    <3> DEFINE stored == {r \in View(c) : r[1] \in Covers[Req(c).pat]}
    <3>1. View(c) = db
      BY <2>2 DEF View, LoadRows, CleanInv, LeavingOK, Saving, Teardown
    <3>2. stored \subseteq PS!Of(Visible, Req(c).pat)
      BY <3>1 DEF PS!Of, Visible
    <3>3. queue' = [queue EXCEPT ![c][c] = @ \cup stored]
      BY <2>2 DEF LoadRows
    <3> QED
      BY <3>2, <3>3
  <2> QED
    BY <2>1, <2>2
<1>5. Unmatched' = Unmatched
  <2>1. Unmatched'[c] = Unmatched[c]
    BY <1>3 DEF Unmatched, Saving
  <2>2. Unmatched' = [Unmatched EXCEPT ![c] = Unmatched[c]]
    BY <1>1, <2>1, OneHandlerMoves
  <2> QED
    BY <2>2 DEF Unmatched
<1>6. Queued' = [Queued EXCEPT ![c][c] = @ \cup rows]
  <2>1. Queued[c] = queue[c] /\ Queued'[c] = queue'[c]
    BY <1>3, <1>4 DEF Queued, Publishing, Saving, CleanInv, TypeInv, TypeOK
  <2>2. queue'[c] = [queue[c] EXCEPT ![c] = @ \cup rows]
    BY <1>4 DEF CleanInv, TypeInv, TypeOK
  <2>3. Queued' = [Queued EXCEPT ![c] = Queued'[c]]
    BY <1>1, OneHandlerMoves
  <2> QED
    BY <2>1, <2>2, <2>3
<1> QED
  BY <1>2, <1>3, <1>5, <1>6

(* A GET, and the first read of a SUB, promise nothing yet. *)
LEMMA LoadStep ==
    ASSUME CleanInv, NEW c \in Conn, LoadCache(c) \/ (LoadRows(c) /\ Req(c).type # "SUB")
    PROVE  \E p \in Pattern : PS!Load(c, p)
<1>1. Handler(c)
  BY DEF Handler
<1>2. \A p \in Pattern : Loading(c, p, {"cache", "rows"})' <=> Loading(c, p, {"cache", "rows"})
  <2>1. CASE LoadCache(c)
    <3>1. pc[c] = "cache" /\ pc'[c] = "rows" /\ Req(c)' = Req(c)
      BY <2>1 DEF LoadCache, Goto, Req, CleanInv, TypeInv, TypeOK
    <3> QED
      BY <3>1 DEF Loading
  <2>2. CASE LoadRows(c) /\ Req(c).type # "SUB"
    <3>1. pc'[c] = "gsu"
      BY <2>2 DEF LoadRows, NextAt, Goto, CleanInv, TypeInv, TypeOK
    <3> QED
      BY <2>2, <3>1 DEF Loading
  <2> QED
    BY <2>1, <2>2
<1>3. Joined' = Joined
  BY <1>1, <1>2, LoadedRows, JoinedKept
<1>4. PS!Load(c, Req(c).pat)
  BY <1>3, LoadedRows, VisibleKept DEF PS!Load, PS!Read
<1> QED
  BY <1>4, LoadedRows

(* With the last read of a SUB all that is visible is accounted for. *)
LEMMA JoinStep ==
    ASSUME CleanInv, Subscribed, NoMissedUpdate', NEW c \in Conn, LoadRows(c), Req(c).type = "SUB"
    PROVE  \E p \in Pattern : PS!Join(c, p)
<1>1. Handler(c)
  BY DEF Handler
<1>2. PICK p \in Pattern : Req(c) = [type |-> "SUB", pat |-> p]
  <2>1. Req(c) \in Request
    BY LoadedRows
  <2> QED
    BY <2>1 DEF Request
<1>3. pc[c] = "rows" /\ pc'[c] = "gsu" /\ c \in sub[p] /\ sub' = sub /\ cache' = cache /\ db' = db
  <2>1. pc \in [Conn -> PC]
    BY DEF CleanInv, TypeInv, TypeOK
  <2>2. pc[c] = "rows" /\ pc' = [pc EXCEPT ![c] = "gsu"]
    BY DEF LoadRows, NextAt, Goto
  <2>3. sub' = sub /\ cache' = cache /\ db' = db
    BY DEF LoadRows, shared, sqlite
  <2>4. c \in sub[p]
    BY <1>2, <2>2 DEF Subscribed
  <2> QED
    BY <2>1, <2>2, <2>3, <2>4
<1>4. Joined' = [Joined EXCEPT ![p] = @ \cup {c}]
  <2> SUFFICES ASSUME NEW q \in Pattern
               PROVE  {d \in sub'[q] : ~Loading(d, q, {"cache", "rows"})'}
                          = IF q = p THEN Joined[q] \cup {c} ELSE Joined[q]
    BY DEF Joined
  <2>1. sub[q] \subseteq Conn
    BY DEF CleanInv, TypeInv, TypeOK
  <2>2. \A d \in Conn : d # c => (Loading(d, q, {"cache", "rows"})' <=> Loading(d, q, {"cache", "rows"}))
    BY <1>1, JoinedStep
  <2>3. ~Loading(c, q, {"cache", "rows"})'
    BY <1>3 DEF Loading
  <2>4. Loading(c, q, {"cache", "rows"}) => q = p
    <3>1. Loading(c, q, {"cache", "rows"}) => Req(c).pat = q
      BY DEF Loading
    <3> QED
      BY <1>2, <3>1
  <2>5. Joined[q] = {d \in sub[q] : ~Loading(d, q, {"cache", "rows"})}
    BY DEF Joined
  <2>6. CASE q = p
    BY <1>3, <2>1, <2>2, <2>3, <2>5, <2>6
  <2>7. CASE q # p
    BY <1>3, <2>1, <2>2, <2>3, <2>4, <2>5, <2>7
  <2> QED
    BY <2>6, <2>7
<1>5. ASSUME NEW r \in PS!Of(Visible, p) PROVE r \in Accounted(c)'
  <2>1. r[1] \in Covers[p] /\ c \in sub'[p]
    BY <1>3 DEF PS!Of
  <2>2. ~Loading(c, p, {"cache"})' /\ ~Loading(c, p, {"cache", "rows"})'
    BY <1>3 DEF Loading
  <2>3. CASE r \in db
    BY <1>2, <1>3, <2>1, <2>2, <2>3 DEF NoMissedUpdate, CommittedReachesSubscriber
  <2>4. ASSUME NEW t \in Topic, cache[t] # None, r = <<t, cache[t]>> PROVE r \in Accounted(c)'
    <3>1. t \in Covers[p] /\ cache'[t] # None
      BY <1>3, <2>1, <2>4
    <3>2. <<t, cache'[t]>> \in Accounted(c)'
      BY <1>2, <2>1, <2>2, <3>1 DEF NoMissedUpdate, CachedReachesSubscriber
    <3> QED
      BY <1>3, <2>4, <3>2
  <2> QED
    BY <2>3, <2>4 DEF PS!Of, Visible
<1>6. Accounted(c)' \subseteq PS!Has(c)'
  <2>1. ASSUME NEW a \in Conn PROVE Pending(a, c)' \subseteq PS!Has(c)'
    <3>1. CASE a = c
      <4>1. Pending(a, c)' \subseteq Queued'[a][c]
        BY <1>3, <3>1 DEF Pending, Unsent, Queued, Publishing, Saving
      <4> QED
        BY <4>1 DEF PS!Has
    <3>2. CASE a # c
      <4>1. Pending(a, c)' \subseteq Queued'[a][c] \cup Unmatched'[a]
        BY <3>2 DEF Pending, Unsent, Queued, Unmatched, Pubs, Saving
      <4>2. Queued'[a][c] \subseteq PS!Has(c)'
        BY DEF PS!Has
      <4>3. a \in Conn \ {c}
        BY <3>2
      <4>4. Unmatched'[a] \subseteq PS!Has(c)'
        BY <4>3 DEF PS!Has
      <4> QED
        BY <4>1, <4>2, <4>4
    <3> QED
      BY <3>1, <3>2
  <2> QED
    BY <2>1 DEF Accounted, PS!Has
<1>7. PS!Join(c, p)
  <2>1. PS!Read(c, p)
    <3>1. Req(c).pat = p
      BY <1>2
    <3> QED
      BY <3>1, LoadedRows, VisibleKept DEF PS!Read
  <2>2. PS!Of(Visible, p) \subseteq PS!Has(c)'
    BY <1>5, <1>6
  <2> QED
    BY <1>3, <1>4, <2>1, <2>2 DEF PS!Join
<1> QED
  BY <1>2, <1>7

(* An UNSUB takes one pattern from a client, the end of a connection all. *)
LEMMA LeaveStep ==
    ASSUME CleanInv, NEW c \in Conn, Unsub(c) \/ DelSub(c)
    PROVE  PS!Leave(c, Pattern) \/ \E p \in Pattern : PS!Leave(c, {p})
<1>1. Handler(c)
  BY DEF Handler
<1>2. PICK ps \in SUBSET Pattern :
         /\ ps = Pattern \/ \E p \in Pattern : ps = {p}
         /\ sub' = [p \in Pattern |-> IF p \in ps THEN sub[p] \ {c} ELSE sub[p]]
  <2>1. CASE Unsub(c)
    <3>1. Req(c) \in Request
      BY <2>1, ReqType DEF Unsub, CleanInv, TypeInv
    <3>2. Req(c).pat \in Pattern
      BY <3>1 DEF Request
    <3>3. sub' = [p \in Pattern |-> IF p \in {Req(c).pat} THEN sub[p] \ {c} ELSE sub[p]]
      BY <2>1, <3>2 DEF Unsub, CleanInv, TypeInv, TypeOK
    <3> QED
      BY <3>2, <3>3
  <2>2. CASE DelSub(c)
    <3>1. sub' = [p \in Pattern |-> IF p \in Pattern THEN sub[p] \ {c} ELSE sub[p]]
      BY <2>2 DEF DelSub
    <3> QED
      BY <3>1
  <2> QED
    BY <2>1, <2>2
<1>3. /\ known' = known /\ lost' = lost /\ cache' = cache /\ db' = db /\ queue' = queue
      /\ pc[c] \in {"gsu", "delsub"} /\ pc'[c] \in {"gsu", "dellwt"}
  <2> USE DEF NextAt, Goto, sqlite, history, CleanInv, TypeInv, TypeOK
  <2>1. CASE Unsub(c)
    BY <2>1 DEF Unsub
  <2>2. CASE DelSub(c)
    BY <2>2 DEF DelSub
  <2> QED
    BY <2>1, <2>2
<1>4. Unmatched' = Unmatched
  <2>1. Unmatched'[c] = Unmatched[c]
    BY <1>3 DEF Unmatched, Saving
  <2>2. Unmatched' = [Unmatched EXCEPT ![c] = Unmatched[c]]
    BY <1>1, <2>1, OneHandlerMoves
  <2> QED
    BY <2>2 DEF Unmatched
<1>5. Queued' = Queued
  <2>1. Queued'[c] = Queued[c]
    BY <1>3 DEF Queued, Publishing, Saving
  <2>2. Queued' = [Queued EXCEPT ![c] = Queued[c]]
    BY <1>1, <2>1, OneHandlerMoves
  <2> QED
    BY <2>2 DEF Queued
<1>6. Joined' = [p \in Pattern |-> IF p \in ps THEN Joined[p] \ {c} ELSE Joined[p]]
  <2> SUFFICES ASSUME NEW q \in Pattern
               PROVE  {d \in sub'[q] : ~Loading(d, q, {"cache", "rows"})'}
                          = IF q \in ps THEN Joined[q] \ {c} ELSE Joined[q]
    BY DEF Joined
  <2>1. sub[q] \subseteq Conn
    BY DEF CleanInv, TypeInv, TypeOK
  <2>2. \A d \in Conn : Loading(d, q, {"cache", "rows"})' <=> Loading(d, q, {"cache", "rows"})
    <3>1. ~Loading(c, q, {"cache", "rows"})' /\ ~Loading(c, q, {"cache", "rows"})
      BY <1>3 DEF Loading
    <3> QED
      BY <1>1, <3>1, JoinedStep
  <2>3. sub'[q] = IF q \in ps THEN sub[q] \ {c} ELSE sub[q]
    BY <1>2
  <2>4. Joined[q] = {d \in sub[q] : ~Loading(d, q, {"cache", "rows"})}
    BY DEF Joined
  <2> QED
    BY <2>1, <2>2, <2>3, <2>4
<1>7. PS!Leave(c, ps)
  BY <1>2, <1>3, <1>4, <1>5, <1>6, VisibleKept DEF PS!Leave
<1> QED
  BY <1>2, <1>7

(* A frame, and a last will, begin a publication. *)
LEMMA PublishStep ==
    ASSUME CleanInv, NEW c \in Conn,
           \/ \E f \in Frames[c] : Receive(c, f)
           \/ DelWill(c) /\ lwt[c] # None
    PROVE  \E rows \in SUBSET Row : PS!Publish(c, rows) \/ PS!PublishWill(c, rows)
<1>1. Handler(c)
  BY DEF Handler
<1>2. PICK f \in Frame :
         /\ \/ /\ known' = [d \in Conn |-> IF d = c THEN known[d] \cup Pubs(f.pubdel) ELSE known[d] \ Pubs(f.pubdel)]
            \/ /\ known' = [d \in Conn |-> known[d] \ Pubs(f.pubdel)]
               /\ \A p \in Pattern : c \notin sub[p]
         /\ frame' = [frame EXCEPT ![c] = f] /\ queue' = queue
         /\ sub' = sub /\ lost' = lost /\ cache' = cache /\ db' = db
         /\ pc[c] \in {"recv", "dellwt"} /\ pc'[c] \in {"save", "gsu"}
         /\ pc'[c] = "gsu" => f.pubdel = <<>>
  <2> USE DEF StartAt, Goto, shared, sqlite, CleanInv, TypeInv, TypeOK
  <2>1. CASE \E f \in Frames[c] : Receive(c, f)
    <3>1. PICK f \in Frames[c] : Receive(c, f)
      BY <2>1
    <3>2. f \in Frame
      BY FramesType
    <3> QED
      BY <3>1, <3>2 DEF Receive
  <2>2. CASE DelWill(c) /\ lwt[c] # None
    <3> DEFINE f == WillFrame(lwt[c])
    <3>1. f \in Frame
      BY <2>2, FrameTypes
    <3>2. Pubs(f.pubdel) = {<<lwt[c].topic, lwt[c].value>>}
      BY DEF Pubs, PubsFrom, WillFrame
    <3>3. \A p \in Pattern : c \notin sub[p]
      BY <2>2 DEF DelWill, LeavingOK
    <3>4. known' = [d \in Conn |-> known[d] \ Pubs(f.pubdel)]
      BY <2>2, <3>2 DEF DelWill
    <3>5. /\ frame' = [frame EXCEPT ![c] = f] /\ queue' = queue
          /\ sub' = sub /\ lost' = lost /\ cache' = cache /\ db' = db
          /\ pc[c] = "dellwt" /\ pc'[c] = "save"
      BY <2>2 DEF DelWill
    <3> HIDE DEF f
    <3> QED
      BY <3>1, <3>3, <3>4, <3>5
  <2> QED
    BY <2>1, <2>2
<1> DEFINE rows == Pubs(f.pubdel)
<1>3. rows \in SUBSET Row
  BY PubsType DEF Frame, Pubs
<1>4. Unmatched[c] = {} /\ Unmatched' = [Unmatched EXCEPT ![c] = rows]
  <2>1. Unmatched[c] = {}
    BY <1>2 DEF Unmatched, Saving
  <2>2. frame'[c] = f
    BY <1>2 DEF CleanInv, TypeInv, TypeOK
  <2>3. f.pubdel = <<>> => rows = {}
    BY DEF Pubs, PubsFrom
  <2>4. Unmatched'[c] = rows
    BY <1>2, <2>2, <2>3 DEF Unmatched, Pubs, Saving
  <2> QED
    BY <1>1, <2>1, <2>4, OneHandlerMoves
<1>5. Queued' = Queued
  <2>1. queue[c] = NoQueue
    BY <1>2 DEF CleanInv, QueueOK, Requesting
  <2>2. Queued'[c] = Queued[c]
    BY <1>2, <2>1 DEF Queued, NoQueue
  <2>3. Queued' = [Queued EXCEPT ![c] = Queued[c]]
    BY <1>1, <2>2, OneHandlerMoves
  <2> QED
    BY <2>3 DEF Queued
<1>6. Joined' = Joined
  <2>1. pc[c] \notin {"cache", "rows"} /\ pc'[c] \notin {"cache", "rows"}
    BY <1>2
  <2> QED
    BY <1>1, <1>2, <2>1, NotLoading
<1>7. PS!Publish(c, rows) \/ PS!PublishWill(c, rows)
  <2> HIDE DEF rows
  <2> SUFFICES ASSUME \/ known' = [d \in Conn |-> IF d = c THEN known[d] \cup rows ELSE known[d] \ rows]
                      \/ /\ known' = [d \in Conn |-> known[d] \ rows]
                         /\ \A p \in Pattern : c \notin sub[p]
               PROVE  PS!Publish(c, rows) \/ PS!PublishWill(c, rows)
    BY <1>2 DEF rows
  <2> QED
    BY <1>2, <1>4, <1>5, <1>6, VisibleKept DEF PS!Publish, PS!PublishWill
<1> QED
  BY <1>3, <1>7

(* Without a will there is nothing to publish. *)
LEMMA NoWillStep ==
    ASSUME CleanInv, NEW c \in Conn, DelWill(c), lwt[c] = None
    PROVE  UNCHANGED PS!vars
<1>1. Handler(c)
  BY DEF Handler
<1>2. /\ sub' = sub /\ cache' = cache /\ db' = db /\ known' = known /\ lost' = lost /\ queue' = queue
      /\ pc[c] = "dellwt" /\ pc'[c] = "end"
  BY DEF DelWill, Goto, sqlite, CleanInv, TypeInv, TypeOK
<1>3. Unmatched'[c] = Unmatched[c]
  BY <1>2 DEF Unmatched, Saving
<1>4. Queued'[c] = Queued[c]
  BY <1>2 DEF Queued, Publishing, Saving
<1>5. Joined' = Joined
  BY <1>1, <1>2, NotLoading
<1> QED
  BY <1>1, <1>2, <1>3, <1>4, <1>5, Unseen

(* Every step of a handler is a step of the service or is not seen at all. *)
LEMMA StepIsPubSub ==
    ASSUME DeliveryInv, OwnQueue, Subscribed, NoMissedUpdate', NEW c \in Conn, Handler(c) \/ Environment(c)
    PROVE  PS!Next \/ UNCHANGED PS!vars
<1> USE DEF DeliveryInv
<1>1. CASE \/ Close(c) \/ AddConnection(c) \/ SaveSend(c) \/ Store(c) \/ Scan(c) \/ Delete(c)
           \/ MatchDel(c) \/ Discard(c) \/ Sent(c) \/ Get(c) \/ SetWill(c) \/ DelConn(c) \/ End(c)
  BY <1>1, QuietStep
<1>2. CASE SaveRetain(c) \/ SavePersistent(c) \/ SaveDel(c) \/ Commit(c)
  <2>1. PS!Change(c)
    BY <1>2, ChangeStep
  <2> QED
    BY <2>1 DEF PS!Next
<1>3. CASE \/ ReceiveFails(c) \/ StoreFails(c) \/ BusyTimeout(c) \/ ReplyFails(c)
           \/ MatchFails(c) \/ SaveDelFails(c)
           \/ \E d \in Conn : SendFails(c, d)
  <2>1. PS!Fail(c)
    BY <1>3, FailStep
  <2> QED
    BY <2>1 DEF PS!Next
<1>4. CASE MatchPub(c)
  <2>1. \E r \in Unmatched[c] : PS!Notify(c, r)
    BY <1>4, MatchStep
  <2> QED
    BY <2>1 DEF PS!Next
<1>5. CASE Reply(c) \/ \E d \in Conn : Send(c, d)
  <2>1. \E d \in Conn : PS!Deliver(c, d)
    BY <1>5, DeliverStep
  <2> QED
    BY <2>1 DEF PS!Next
<1>6. CASE Sub(c)
  <2>1. \E p \in Pattern : PS!Ask(c, p)
    BY <1>6, AskStep
  <2> QED
    BY <2>1 DEF PS!Next
<1>7. CASE LoadCache(c) \/ LoadRows(c)
  <2>1. \E p \in Pattern : PS!Load(c, p) \/ PS!Join(c, p)
    BY <1>7, LoadStep, JoinStep
  <2> QED
    BY <2>1 DEF PS!Next
<1>8. CASE Unsub(c) \/ DelSub(c)
  <2>1. PS!Leave(c, Pattern) \/ \E p \in Pattern : PS!Leave(c, {p})
    BY <1>8, LeaveStep
  <2> QED
    BY <2>1 DEF PS!Next
<1>9. CASE (\E f \in Frames[c] : Receive(c, f)) \/ (DelWill(c) /\ lwt[c] # None)
  <2>1. \E rows \in SUBSET Row : PS!Publish(c, rows) \/ PS!PublishWill(c, rows)
    BY <1>9, PublishStep
  <2> QED
    BY <2>1 DEF PS!Next, PS!Row, Row
<1>10. CASE DelWill(c) /\ lwt[c] = None
  BY <1>10, NoWillStep
<1> QED
  BY <1>1, <1>2, <1>3, <1>4, <1>5, <1>6, <1>7, <1>8, <1>9, <1>10 DEF Handler, Environment

(* The broker implements the service of module PubSub: whatever the handlers *)
(* interleave, a client is told what it asked for and nothing else, once it  *)
(* has joined all that is visible and all that is published is told to it,   *)
(* on its way to it, or lost to an exception; and only what somebody is      *)
(* publishing becomes visible.                                               *)
THEOREM BrokerIsPubSub == Spec => ImplementsPubSub
<1>1. Init => PS!Init
  <2> SUFFICES ASSUME Init PROVE PS!Init
    OBVIOUS
  <2>1. Joined = [p \in Pattern |-> {}]
    BY DEF Init, Joined
  <2>2. Visible = {}
    BY DEF Init, Visible
  <2>3. Unmatched = [c \in Conn |-> {}]
    BY DEF Init, Unmatched, Saving
  <2>4. Queued = [c \in Conn |-> [d \in Conn |-> {}]]
    BY DEF Init, Queued, NoQueue
  <2> QED
    BY <2>1, <2>2, <2>3, <2>4 DEF Init, PS!Init
<1>2. DeliveryInv /\ OwnQueue /\ Subscribed /\ DeliveryInv' /\ [Next]_vars => [PS!Next]_(PS!vars)
  <2> SUFFICES ASSUME DeliveryInv, OwnQueue, Subscribed, NoMissedUpdate', [Next]_vars
               PROVE  PS!Next \/ UNCHANGED PS!vars
    BY DEF DeliveryInv
  <2>1. CASE Next
    BY <2>1, StepIsPubSub DEF Next
  <2>2. CASE UNCHANGED vars
    <3>1. /\ pc' = pc /\ frame' = frame /\ k' = k /\ queue' = queue /\ sub' = sub /\ cache' = cache
          /\ db' = db /\ known' = known /\ lost' = lost
      BY <2>2 DEF vars, local, shared, sqlite, history
    <3>2. Joined' = Joined
      BY <3>1 DEF Joined, Loading, Req
    <3>3. Unmatched' = Unmatched
      BY <3>1 DEF Unmatched, Pubs
    <3>4. Queued' = Queued
      BY <3>1 DEF Queued
    <3> QED
      BY <3>1, <3>2, <3>3, <3>4, VisibleKept DEF PS!vars
  <2> QED
    BY <2>1, <2>2
<1> QED
  BY <1>1, <1>2, DeliveryInvariant, OwnQueueInvariant, SubscribedInvariant, PTL DEF Spec, PS!Spec, ImplementsPubSub

-----------------------------------------------------------------------------
(* The service by itself, without the broker's definitions: of the rows that *)
(* its actions move, none that a client is owed gets lost on the way.        *)

PubSubInv ==
    /\ sub \in [Pattern -> SUBSET Conn] /\ Joined \in [Pattern -> SUBSET Conn]
    /\ Visible \subseteq Row
    /\ Unmatched \in [Conn -> SUBSET Row] /\ Queued \in [Conn -> [Conn -> SUBSET Row]]
    /\ known \in [Conn -> SUBSET Row] /\ lost \in [Conn -> SUBSET Row]
    /\ \A p \in Pattern : Joined[p] \subseteq sub[p]
    /\ \A p \in Pattern : \A a \in sub[p] : PS!Of(Unmatched[a], p) \subseteq PS!Has(a)
    /\ PS!NothingMissed

(* One step of the service, its actions side by side. *)
PubSubStep(a) ==
    \/ PS!Change(a)
    \/ \E r \in Unmatched[a] : PS!Notify(a, r)
    \/ \E d \in Conn : PS!Deliver(a, d)
    \/ PS!Fail(a)
    \/ \E p \in Pattern : PS!Ask(a, p)
    \/ \E p \in Pattern : PS!Load(a, p)
    \/ \E p \in Pattern : PS!Join(a, p)
    \/ \E ps \in SUBSET Pattern : PS!Leave(a, ps)
    \/ \E rows \in SUBSET Row : PS!Publish(a, rows)
    \/ \E rows \in SUBSET Row : PS!PublishWill(a, rows)

LEMMA PubSubCases == PS!Next => \E a \in Conn : PubSubStep(a)
<1>1. \A p \in Pattern : {p} \in SUBSET Pattern
  OBVIOUS
<1>2. Pattern \in SUBSET Pattern
  OBVIOUS
<1> QED
  BY <1>1, <1>2 DEF PS!Next, PS!Row, Row, PubSubStep

LEMMA PubSubTypes ==
    ASSUME PubSubInv, PS!Next
    PROVE  /\ sub' \in [Pattern -> SUBSET Conn] /\ Joined' \in [Pattern -> SUBSET Conn]
           /\ Visible' \subseteq Row
           /\ Unmatched' \in [Conn -> SUBSET Row] /\ Queued' \in [Conn -> [Conn -> SUBSET Row]]
           /\ known' \in [Conn -> SUBSET Row] /\ lost' \in [Conn -> SUBSET Row]
           /\ \A p \in Pattern : Joined'[p] \subseteq sub'[p]
<1> USE DEF PubSubInv
<1>0. PICK a \in Conn : PubSubStep(a)
  BY PubSubCases
<1>1. CASE PS!Change(a)
  BY <1>1 DEF PS!Change, PS!Row, Row
<1>2. CASE \E r \in Unmatched[a] : PS!Notify(a, r)
  <2>1. PICK r \in Unmatched[a] : PS!Notify(a, r)
    BY <1>2
  <2>2. Unmatched' \in [Conn -> SUBSET Row]
    BY <2>1 DEF PS!Notify
  <2>3. Queued' \in [Conn -> [Conn -> SUBSET Row]]
    <3> DEFINE more == [d \in Conn |-> IF d \in PS!Asking(r) \ {a} THEN Queued[a][d] \cup {r} ELSE Queued[a][d]]
    <3>1. more \in [Conn -> SUBSET Row]
      <4> SUFFICES ASSUME NEW d \in Conn PROVE more[d] \in SUBSET Row
        OBVIOUS
      <4>1. Queued[a][d] \subseteq Row /\ r \in Row
        OBVIOUS
      <4> QED
        BY <4>1
    <3>2. Queued' = [Queued EXCEPT ![a] = more]
      BY <2>1 DEF PS!Notify
    <3> QED
      BY <3>1, <3>2
  <2> QED
    BY <2>1, <2>2, <2>3 DEF PS!Notify
<1>3. CASE \E d \in Conn : PS!Deliver(a, d)
  <2>1. PICK d \in Conn : PS!Deliver(a, d)
    BY <1>3
  <2>2. Queued[a][d] \subseteq Row
    OBVIOUS
  <2>3. Queued' \in [Conn -> [Conn -> SUBSET Row]]
    BY <2>1 DEF PS!Deliver
  <2> QED
    BY <2>1, <2>2, <2>3 DEF PS!Deliver
<1>4. CASE PS!Fail(a)
  <2>1. \A d \in Conn : Queued[a][d] \subseteq Row /\ Unmatched[a] \subseteq Row
    OBVIOUS
  <2>2. lost' \in [Conn -> SUBSET Row]
    BY <1>4, <2>1 DEF PS!Fail
  <2> QED
    BY <1>4, <2>2 DEF PS!Fail
<1>5. CASE \E p \in Pattern : PS!Ask(a, p)
  BY <1>5 DEF PS!Ask
<1>6. ASSUME NEW p \in Pattern, PS!Read(a, p)
      PROVE  /\ Queued' \in [Conn -> [Conn -> SUBSET Row]]
             /\ Visible' = Visible /\ Unmatched' = Unmatched /\ known' = known /\ lost' = lost /\ sub' = sub
  <2>1. PICK rows \in SUBSET PS!Of(Visible, p) : Queued' = [Queued EXCEPT ![a][a] = @ \cup rows]
    BY <1>6 DEF PS!Read
  <2>2. rows \subseteq Row /\ Queued[a][a] \subseteq Row
    BY DEF PS!Of
  <2> QED
    BY <1>6, <2>1, <2>2 DEF PS!Read
<1>7. CASE \E p \in Pattern : PS!Load(a, p)
  BY <1>6, <1>7 DEF PS!Load
<1>8. CASE \E p \in Pattern : PS!Join(a, p)
  <2>1. PICK p \in Pattern : PS!Join(a, p)
    BY <1>8
  <2>2. a \in sub[p] /\ PS!Read(a, p) /\ Joined' = [Joined EXCEPT ![p] = @ \cup {a}]
    BY <2>1 DEF PS!Join
  <2> QED
    BY <1>6, <2>2
<1>9. CASE \E ps \in SUBSET Pattern : PS!Leave(a, ps)
  BY <1>9 DEF PS!Leave
<1>10. CASE \E rows \in SUBSET Row : PS!Publish(a, rows)
  BY <1>10 DEF PS!Publish
<1>11. CASE \E rows \in SUBSET Row : PS!PublishWill(a, rows)
  BY <1>11 DEF PS!PublishWill
<1> QED
  BY <1>0, <1>1, <1>2, <1>3, <1>4, <1>5, <1>7, <1>8, <1>9, <1>10, <1>11 DEF PubSubStep

(* What a client has of the topics it asked for, it keeps. *)
LEMMA HasKept ==
    ASSUME PubSubInv, PS!Next, NEW p \in Pattern, NEW d \in sub[p],
           NEW r \in PS!Has(d), r[1] \in Covers[p]
    PROVE  r \in PS!Has(d)'
<1> USE DEF PubSubInv
<1>d. d \in Conn
  OBVIOUS
<1>0. PICK a \in Conn : PubSubStep(a)
  BY PubSubCases
<1>h. /\ known'[d] \subseteq PS!Has(d)' /\ lost'[d] \subseteq PS!Has(d)'
      /\ \A b \in Conn : Queued'[b][d] \subseteq PS!Has(d)'
      /\ \A b \in Conn \ {d} : Unmatched'[b] \subseteq PS!Has(d)'
  BY DEF PS!Has
<1>p. \/ r \in known[d] \/ r \in lost[d]
      \/ \E b \in Conn : r \in Queued[b][d]
      \/ \E b \in Conn \ {d} : r \in Unmatched[b]
  BY DEF PS!Has
<1>1. CASE /\ known'[d] = known[d] /\ lost'[d] = lost[d] /\ Unmatched' = Unmatched
           /\ \A b \in Conn : Queued[b][d] \subseteq Queued'[b][d]
  BY <1>1, <1>h, <1>p
<1>2. CASE \E q \in Unmatched[a] : PS!Notify(a, q)
  <2>1. PICK q \in Unmatched[a] : PS!Notify(a, q)
    BY <1>2
  <2>2. known' = known /\ lost' = lost /\ \A b \in Conn : Queued[b][d] \subseteq Queued'[b][d]
    BY <1>d, <2>1 DEF PS!Notify
  <2>3. ASSUME NEW b \in Conn \ {d}, r \in Unmatched[b] PROVE r \in PS!Has(d)'
    <3>1. CASE r \in Unmatched'[b]
      BY <1>h, <3>1
    <3>2. CASE r \notin Unmatched'[b]
      <4>1. b = a /\ r = q
        BY <2>1, <2>3, <3>2 DEF PS!Notify
      <4>2. d \in PS!Asking(q) \ {a}
        BY <2>3, <4>1 DEF PS!Asking
      <4>3. r \in Queued'[a][d]
        BY <1>d, <2>1, <4>1, <4>2 DEF PS!Notify
      <4> QED
        BY <1>h, <4>3
    <3> QED
      BY <3>1, <3>2
  <2> QED
    BY <1>h, <1>p, <2>2, <2>3
<1>3. CASE \E e \in Conn : PS!Deliver(a, e)
  <2>1. PICK e \in Conn : PS!Deliver(a, e)
    BY <1>3
  <2>2. known[d] \subseteq known'[d] /\ lost' = lost /\ Unmatched' = Unmatched
    BY <1>d, <2>1 DEF PS!Deliver
  <2>3. \A b \in Conn : Queued[b][d] \subseteq Queued'[b][d] \cup known'[d]
    BY <1>d, <2>1 DEF PS!Deliver
  <2> QED
    BY <1>h, <1>p, <2>2, <2>3
<1>4. CASE PS!Fail(a)
  <2>1. known' = known /\ lost'[d] = lost[d] \cup Unmatched[a] \cup Queued[a][d]
    BY <1>d, <1>4 DEF PS!Fail
  <2>2. \A b \in Conn : Queued[b][d] \subseteq Queued'[b][d] \cup lost'[d]
    BY <1>d, <1>4, <2>1 DEF PS!Fail
  <2>3. \A b \in Conn : Unmatched[b] \subseteq Unmatched'[b] \cup lost'[d]
    BY <1>4, <2>1 DEF PS!Fail
  <2> QED
    BY <1>h, <1>p, <2>1, <2>2, <2>3
<1>5. CASE \E rows \in SUBSET Row : PS!Publish(a, rows) \/ (PS!PublishWill(a, rows) /\ d # a)
  <2>1. PICK rows \in SUBSET Row : PS!Publish(a, rows) \/ (PS!PublishWill(a, rows) /\ d # a)
    BY <1>5
  <2>2. /\ lost' = lost /\ Queued' = Queued /\ \A b \in Conn : Unmatched[b] \subseteq Unmatched'[b]
        /\ Unmatched'[a] = rows
    BY <2>1 DEF PS!Publish, PS!PublishWill
  <2>3. known[d] \subseteq known'[d] \/ (d # a /\ known[d] \subseteq known'[d] \cup rows)
    BY <1>d, <2>1 DEF PS!Publish, PS!PublishWill
  <2> QED
    BY <1>h, <1>p, <2>2, <2>3
<1>6. CASE \E q \in Pattern : PS!Load(a, q) \/ PS!Join(a, q)
  <2>1. PICK q \in Pattern : PS!Read(a, q)
    BY <1>6 DEF PS!Load, PS!Join
  <2>2. PICK rows \in SUBSET PS!Of(Visible, q) : Queued' = [Queued EXCEPT ![a][a] = @ \cup rows]
    BY <2>1 DEF PS!Read
  <2>3. known' = known /\ lost' = lost /\ Unmatched' = Unmatched
    BY <2>1 DEF PS!Read
  <2>4. \A b \in Conn : Queued[b][d] \subseteq Queued'[b][d]
    BY <1>d, <2>2
  <2> QED
    BY <1>h, <1>p, <2>3, <2>4
<1>7. CASE PS!Change(a) \/ (\E q \in Pattern : PS!Ask(a, q)) \/ (\E ps \in SUBSET Pattern : PS!Leave(a, ps))
  <2>1. known' = known /\ lost' = lost /\ Unmatched' = Unmatched /\ Queued' = Queued
    BY <1>7 DEF PS!Change, PS!Ask, PS!Leave
  <2> QED
    BY <1>1, <2>1
<1>8. ASSUME NEW rows \in SUBSET Row, PS!PublishWill(a, rows) PROVE d # a
  BY <1>8 DEF PS!PublishWill
<1> QED
  BY <1>0, <1>2, <1>3, <1>4, <1>5, <1>6, <1>7, <1>8 DEF PubSubStep

LEMMA PubSubNext ==
    ASSUME PubSubInv, PS!Next
    PROVE  PubSubInv'
<1> USE DEF PubSubInv
<1>0. PICK a \in Conn : PubSubStep(a)
  BY PubSubCases
<1>1. ASSUME NEW p \in Pattern, NEW b \in sub'[p], NEW r \in Unmatched'[b], r[1] \in Covers[p]
      PROVE  r \in PS!Has(b)'
  <2>0. b \in Conn
    BY PubSubTypes
  <2>1. CASE b \in sub[p] /\ r \in Unmatched[b]
    <3>1. r \in PS!Has(b)
      BY <1>1, <2>1 DEF PS!Of
    <3> QED
      BY <1>1, <2>1, <3>1, HasKept
  <2>2. CASE b \notin sub[p]
    <3>1. \E q \in Pattern : PS!Ask(a, q)
      BY <1>0, <2>2 DEF PubSubStep, PS!Change, PS!Notify, PS!Deliver, PS!Fail, PS!Load, PS!Join, PS!Read, PS!Leave, PS!Publish, PS!PublishWill
    <3>2. b = a /\ Unmatched'[b] = {}
      BY <2>2, <3>1 DEF PS!Ask
    <3> QED
      BY <1>1, <3>2
  <2>3. CASE r \notin Unmatched[b]
    <3>1. PICK rows \in SUBSET Row : PS!Publish(a, rows) \/ PS!PublishWill(a, rows)
      <4>1. ~PS!Fail(a) /\ \A q \in Unmatched[a] : ~PS!Notify(a, q)
        BY <1>1, <2>0, <2>3 DEF PS!Fail, PS!Notify
      <4> QED
        BY <1>0, <1>1, <2>3, <4>1 DEF PubSubStep, PS!Change, PS!Deliver, PS!Ask, PS!Load, PS!Join, PS!Read, PS!Leave
    <3>2. b = a /\ r \in rows
      BY <1>1, <2>0, <2>3, <3>1 DEF PS!Publish, PS!PublishWill
    <3>3. ~PS!PublishWill(a, rows)
      BY <3>2 DEF PS!PublishWill
    <3>4. r \in known'[b]
      BY <3>1, <3>2, <3>3 DEF PS!Publish
    <3> QED
      BY <3>4 DEF PS!Has
  <2> QED
    BY <2>1, <2>2, <2>3
<1>2. ASSUME NEW p \in Pattern, NEW d \in Joined'[p], NEW r \in Visible', r[1] \in Covers[p]
      PROVE  r \in PS!Has(d)'
  <2>0. d \in Conn
    BY PubSubTypes
  <2>1. CASE d \in Joined[p] /\ r \in Visible
    <3>1. r \in PS!Has(d) /\ d \in sub[p]
      BY <1>2, <2>1 DEF PS!NothingMissed, PS!Of
    <3> QED
      BY <1>2, <3>1, HasKept
  <2>2. CASE d \in Joined[p] /\ r \notin Visible
    <3>1. PS!Change(a)
      BY <1>0, <1>2, <2>2 DEF PubSubStep, PS!Ask, PS!Notify, PS!Deliver, PS!Fail, PS!Load, PS!Join, PS!Read, PS!Leave, PS!Publish, PS!PublishWill
    <3>2. r \in Unmatched[a] \/ r \in lost[d]
      BY <1>2, <2>0, <2>2, <3>1 DEF PS!Change
    <3>3. r \in PS!Has(d)
      <4>1. CASE r \in lost[d]
        BY <4>1 DEF PS!Has
      <4>2. CASE r \in Unmatched[a] /\ a = d
        BY <1>2, <2>2, <4>2 DEF PS!Of
      <4>3. CASE r \in Unmatched[a] /\ a # d
        <5>1. a \in Conn \ {d}
          BY <4>3
        <5> QED
          BY <4>3, <5>1 DEF PS!Has
      <4> QED
        BY <3>2, <4>1, <4>2, <4>3
    <3> QED
      BY <1>2, <2>2, <3>3, HasKept
  <2>3. CASE d \notin Joined[p]
    <3>1. PICK q \in Pattern : PS!Join(a, q)
      BY <1>0, <1>2, <2>3 DEF PubSubStep, PS!Change, PS!Notify, PS!Deliver, PS!Fail, PS!Ask, PS!Load, PS!Leave, PS!Publish, PS!PublishWill
    <3>2. d = a /\ p = q /\ Visible' = Visible
      BY <1>2, <2>3, <3>1 DEF PS!Join, PS!Read
    <3>3. PS!Of(Visible, p) \subseteq PS!Has(d)'
      BY <3>1, <3>2 DEF PS!Join
    <3> QED
      BY <1>2, <3>2, <3>3 DEF PS!Of
  <2> QED
    BY <2>1, <2>2, <2>3
<1>3. PS!NothingMissed'
  BY <1>2 DEF PS!NothingMissed, PS!Of
<1>4. \A p \in Pattern : \A b \in sub'[p] : PS!Of(Unmatched'[b], p) \subseteq PS!Has(b)'
  BY <1>1 DEF PS!Of
<1> QED
  BY <1>3, <1>4, PubSubTypes DEF PS!Of

(* Any broker that implements the service keeps its promise: a client that   *)
(* has joined misses nothing of what is visible for its pattern.             *)
THEOREM PubSubMissesNothing == PS!Spec => []PS!NothingMissed
<1>1. PS!Init => PubSubInv
  BY DEF PS!Init, PubSubInv, PS!NothingMissed, PS!Of
<1>2. PubSubInv /\ [PS!Next]_(PS!vars) => PubSubInv'
  <2> SUFFICES ASSUME PubSubInv, [PS!Next]_(PS!vars) PROVE PubSubInv'
    OBVIOUS
  <2>1. CASE PS!Next
    BY <2>1, PubSubNext
  <2>2. CASE UNCHANGED PS!vars
    <3>1. /\ sub' = sub /\ Joined' = Joined /\ Visible' = Visible /\ Unmatched' = Unmatched
          /\ Queued' = Queued /\ known' = known /\ lost' = lost
      BY <2>2 DEF PS!vars
    <3>2. \A d \in Conn : PS!Has(d)' = PS!Has(d)
      BY <3>1 DEF PS!Has
    <3> QED
      BY <3>1, <3>2 DEF PubSubInv, PS!NothingMissed, PS!Of
  <2> QED
    BY <2>1, <2>2
<1>3. PubSubInv => PS!NothingMissed
  BY DEF PubSubInv
<1> QED
  BY <1>1, <1>2, <1>3, PTL DEF PS!Spec
=============================================================================
