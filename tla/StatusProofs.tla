---------------------------- MODULE StatusProofs ----------------------------
(***************************************************************************)
(* OnlineIsGuarded, for any agents, observers and other clients.  The      *)
(* invariant says where the frame and the will of a handler come from; the  *)
(* rest is that a handler which stands for a status hands it on from the    *)
(* publication to the will, and from the will to its publication.          *)
(***************************************************************************)
EXTENDS Status, BrokerProofs

(* A handler works on a frame of its client, then on a will, which is not    *)
(* Online; the will that is set is the one of its client.                    *)
FromClient ==
    \A c \in Conn :
        /\ ~final[c] => frame[c] \in Frames[c] \cup {NoFrame}
        /\ lwt[c] # None => \E f \in Frames[c] : f.lwt # <<>> /\ lwt[c] = LastWill(f)
        /\ final[c] => \E f \in Frames[c] : f.lwt # <<>> /\ frame[c] = WillFrame(LastWill(f))

StatusInv == CleanInv /\ FromClient /\ OnlineIsGuarded

(* A step of c changes the will and the stage of no other handler. *)
LEMMA OtherStep ==
    ASSUME CleanInv, NEW c \in Conn, Handler(c) \/ Environment(c), NEW a \in Conn, a # c
    PROVE  lwt'[a] = lwt[a] /\ final'[a] = final[a]
<1> USE DEF CleanInv, TypeInv, TypeOK, Goto, NextAt, StartAt, Abort, local, shared, sqlite, history
<1>1. CASE Close(c)
  BY <1>1 DEF Close
<1>2. CASE AddConnection(c)
  BY <1>2 DEF AddConnection
<1>3. CASE \E f \in Frames[c] : Receive(c, f)
  BY <1>3 DEF Receive
<1>4. CASE ReceiveFails(c)
  BY <1>4 DEF ReceiveFails
<1>5. CASE SaveSend(c)
  BY <1>5 DEF SaveSend
<1>6. CASE SaveRetain(c)
  BY <1>6 DEF SaveRetain
<1>7. CASE SavePersistent(c)
  BY <1>7 DEF SavePersistent
<1>8. CASE Store(c)
  BY <1>8 DEF Store
<1>9. CASE StoreFails(c)
  BY <1>9 DEF StoreFails
<1>10. CASE SaveDel(c)
  BY <1>10 DEF SaveDel
<1>11. CASE Scan(c)
  BY <1>11 DEF Scan
<1>12. CASE Delete(c)
  BY <1>12 DEF Delete
<1>13. CASE BusyTimeout(c)
  BY <1>13 DEF BusyTimeout
<1>14. CASE Commit(c)
  BY <1>14 DEF Commit
<1>15. CASE MatchPub(c)
  BY <1>15 DEF MatchPub
<1>16. CASE MatchDel(c)
  BY <1>16 DEF MatchDel
<1>17. CASE Discard(c)
  BY <1>17 DEF Discard
<1>18. CASE \E d \in Conn : Send(c, d)
  BY <1>18 DEF Send
<1>19. CASE \E d \in Conn : SendFails(c, d)
  BY <1>19 DEF SendFails
<1>20. CASE Sent(c)
  BY <1>20 DEF Sent
<1>21. CASE Get(c)
  BY <1>21 DEF Get
<1>22. CASE Sub(c)
  BY <1>22 DEF Sub
<1>23. CASE Unsub(c)
  BY <1>23 DEF Unsub
<1>24. CASE LoadCache(c)
  BY <1>24 DEF LoadCache
<1>25. CASE LoadRows(c)
  BY <1>25 DEF LoadRows
<1>26. CASE Reply(c)
  BY <1>26 DEF Reply
<1>27. CASE ReplyFails(c)
  BY <1>27 DEF ReplyFails
<1>28. CASE SetWill(c)
  BY <1>28 DEF SetWill
<1>29. CASE DelConn(c)
  BY <1>29 DEF DelConn
<1>30. CASE DelSub(c)
  BY <1>30 DEF DelSub
<1>31. CASE DelWill(c)
  BY <1>31 DEF DelWill
<1>32. CASE End(c)
  BY <1>32 DEF End
<1>33. CASE MatchFails(c)
  BY <1>33 DEF MatchFails
<1>34. CASE SaveDelFails(c)
  BY <1>34 DEF SaveDelFails
<1> QED
  BY <1>1, <1>2, <1>3, <1>4, <1>5, <1>6, <1>7, <1>8, <1>9, <1>10, <1>11, <1>12, <1>13, <1>14, <1>15, <1>16, <1>17, <1>18, <1>19, <1>20, <1>21, <1>22, <1>23, <1>24, <1>25, <1>26, <1>27, <1>28, <1>29, <1>30, <1>31, <1>32, <1>33, <1>34 DEF Handler, Environment

(* And what it does to those of c. *)
LEMMA OwnStep ==
    ASSUME CleanInv, FromClient, NEW c \in Conn, Handler(c) \/ Environment(c)
    PROVE  /\ ~final'[c] => frame'[c] \in Frames[c] \cup {NoFrame}
           /\ lwt'[c] # None => \E f \in Frames[c] : f.lwt # <<>> /\ lwt'[c] = LastWill(f)
           /\ final'[c] => \E f \in Frames[c] : f.lwt # <<>> /\ frame'[c] = WillFrame(LastWill(f))
<1> USE DEF CleanInv, TypeInv, TypeOK, FromClient, Goto, NextAt, StartAt, Abort, local, shared, sqlite, history
<1>1. CASE Close(c)
  BY <1>1 DEF Close
<1>2. CASE AddConnection(c)
  BY <1>2 DEF AddConnection
<1>3. CASE \E f \in Frames[c] : Receive(c, f)
  <2>1. PICK f \in Frames[c] : Receive(c, f)
    BY <1>3
  <2>2. ~final[c]
    BY <2>1 DEF Receive, LeavingOK, Publishing, Saving
  <2>3. frame'[c] = f /\ final'[c] = final[c] /\ lwt'[c] = lwt[c]
    BY <2>1 DEF Receive
  <2> QED
    BY <2>2, <2>3
<1>4. CASE ReceiveFails(c)
  BY <1>4 DEF ReceiveFails
<1>5. CASE SaveSend(c)
  BY <1>5 DEF SaveSend
<1>6. CASE SaveRetain(c)
  BY <1>6 DEF SaveRetain
<1>7. CASE SavePersistent(c)
  BY <1>7 DEF SavePersistent
<1>8. CASE Store(c)
  BY <1>8 DEF Store
<1>9. CASE StoreFails(c)
  BY <1>9 DEF StoreFails
<1>10. CASE SaveDel(c)
  BY <1>10 DEF SaveDel
<1>11. CASE Scan(c)
  BY <1>11 DEF Scan
<1>12. CASE Delete(c)
  BY <1>12 DEF Delete
<1>13. CASE BusyTimeout(c)
  BY <1>13 DEF BusyTimeout
<1>14. CASE Commit(c)
  BY <1>14 DEF Commit
<1>15. CASE MatchPub(c)
  BY <1>15 DEF MatchPub
<1>16. CASE MatchDel(c)
  BY <1>16 DEF MatchDel
<1>17. CASE Discard(c)
  BY <1>17 DEF Discard
<1>18. CASE \E d \in Conn : Send(c, d)
  BY <1>18 DEF Send
<1>19. CASE \E d \in Conn : SendFails(c, d)
  BY <1>19 DEF SendFails
<1>20. CASE Sent(c)
  BY <1>20 DEF Sent
<1>21. CASE Get(c)
  BY <1>21 DEF Get
<1>22. CASE Sub(c)
  BY <1>22 DEF Sub
<1>23. CASE Unsub(c)
  BY <1>23 DEF Unsub
<1>24. CASE LoadCache(c)
  BY <1>24 DEF LoadCache
<1>25. CASE LoadRows(c)
  BY <1>25 DEF LoadRows
<1>26. CASE Reply(c)
  BY <1>26 DEF Reply
<1>27. CASE ReplyFails(c)
  BY <1>27 DEF ReplyFails
<1>28. CASE SetWill(c)
  <2>1. ~final[c]
    BY <1>28 DEF SetWill, LeavingOK, Publishing, Saving
  <2>2. frame'[c] = NoFrame /\ final'[c] = final[c]
    BY <1>28 DEF SetWill
  <2>3. CASE frame[c].lwt = <<>>
    BY <1>28, <2>1, <2>2, <2>3 DEF SetWill
  <2>4. CASE frame[c].lwt # <<>>
    <3>1. frame[c] \in Frames[c]
      BY <2>1, <2>4 DEF NoFrame
    <3>2. lwt'[c] = LastWill(frame[c])
      BY <1>28, <2>4 DEF SetWill, LastWill
    <3> QED
      BY <2>1, <2>2, <2>4, <3>1, <3>2
  <2> QED
    BY <2>3, <2>4
<1>29. CASE DelConn(c)
  BY <1>29 DEF DelConn
<1>30. CASE DelSub(c)
  BY <1>30 DEF DelSub
<1>31. CASE DelWill(c)
  BY <1>31 DEF DelWill
<1>32. CASE End(c)
  BY <1>32 DEF End
<1>33. CASE MatchFails(c)
  BY <1>33 DEF MatchFails
<1>34. CASE SaveDelFails(c)
  BY <1>34 DEF SaveDelFails
<1> QED
  BY <1>1, <1>2, <1>3, <1>4, <1>5, <1>6, <1>7, <1>8, <1>9, <1>10, <1>11, <1>12, <1>13, <1>14, <1>15, <1>16, <1>17, <1>18, <1>19, <1>20, <1>21, <1>22, <1>23, <1>24, <1>25, <1>26, <1>27, <1>28, <1>29, <1>30, <1>31, <1>32, <1>33, <1>34 DEF Handler, Environment

(* A status gets Online by a publication only. *)
LEMMA OnlineStep ==
    ASSUME CleanInv, NEW c \in Conn, Handler(c) \/ Environment(c), NEW t \in Topic,
           cache'[t] = Online, cache[t] # Online, Online # None
    PROVE  SaveRetain(c) /\ Msg(c).pat = t /\ Msg(c).value = Online
<1> USE DEF CleanInv, TypeInv, TypeOK, Goto, NextAt, StartAt, Abort, local, shared, sqlite, history
<1>1. CASE Close(c)
  BY <1>1 DEF Close
<1>2. CASE AddConnection(c)
  BY <1>2 DEF AddConnection
<1>3. CASE \E f \in Frames[c] : Receive(c, f)
  BY <1>3 DEF Receive
<1>4. CASE ReceiveFails(c)
  BY <1>4 DEF ReceiveFails
<1>5. CASE SaveSend(c)
  BY <1>5 DEF SaveSend
<1>6. CASE SaveRetain(c)
  BY <1>6 DEF SaveRetain
<1>7. CASE SavePersistent(c)
  BY <1>7 DEF SavePersistent
<1>8. CASE Store(c)
  BY <1>8 DEF Store
<1>9. CASE StoreFails(c)
  BY <1>9 DEF StoreFails
<1>10. CASE SaveDel(c)
  BY <1>10 DEF SaveDel
<1>11. CASE Scan(c)
  BY <1>11 DEF Scan
<1>12. CASE Delete(c)
  BY <1>12 DEF Delete
<1>13. CASE BusyTimeout(c)
  BY <1>13 DEF BusyTimeout
<1>14. CASE Commit(c)
  BY <1>14 DEF Commit
<1>15. CASE MatchPub(c)
  BY <1>15 DEF MatchPub
<1>16. CASE MatchDel(c)
  BY <1>16 DEF MatchDel
<1>17. CASE Discard(c)
  BY <1>17 DEF Discard
<1>18. CASE \E d \in Conn : Send(c, d)
  BY <1>18 DEF Send
<1>19. CASE \E d \in Conn : SendFails(c, d)
  BY <1>19 DEF SendFails
<1>20. CASE Sent(c)
  BY <1>20 DEF Sent
<1>21. CASE Get(c)
  BY <1>21 DEF Get
<1>22. CASE Sub(c)
  BY <1>22 DEF Sub
<1>23. CASE Unsub(c)
  BY <1>23 DEF Unsub
<1>24. CASE LoadCache(c)
  BY <1>24 DEF LoadCache
<1>25. CASE LoadRows(c)
  BY <1>25 DEF LoadRows
<1>26. CASE Reply(c)
  BY <1>26 DEF Reply
<1>27. CASE ReplyFails(c)
  BY <1>27 DEF ReplyFails
<1>28. CASE SetWill(c)
  BY <1>28 DEF SetWill
<1>29. CASE DelConn(c)
  BY <1>29 DEF DelConn
<1>30. CASE DelSub(c)
  BY <1>30 DEF DelSub
<1>31. CASE DelWill(c)
  BY <1>31 DEF DelWill
<1>32. CASE End(c)
  BY <1>32 DEF End
<1>33. CASE MatchFails(c)
  BY <1>33 DEF MatchFails
<1>34. CASE SaveDelFails(c)
  BY <1>34 DEF SaveDelFails
<1> QED
  BY <1>1, <1>2, <1>3, <1>4, <1>5, <1>6, <1>7, <1>8, <1>9, <1>10, <1>11, <1>12, <1>13, <1>14, <1>15, <1>16, <1>17, <1>18, <1>19, <1>20, <1>21, <1>22, <1>23, <1>24, <1>25, <1>26, <1>27, <1>28, <1>29, <1>30, <1>31, <1>32, <1>33, <1>34 DEF Handler, Environment

(* The handler that stands for a status goes on doing so, or is ended by an  *)
(* exception before it gets to the will of its frame.                        *)
LEMMA GuardStep ==
    ASSUME CleanInv, FromClient, NEW c \in Conn, Handler(c) \/ Environment(c), NEW t \in StatusTopic,
           Guards(c, t) \/ GaveUp(c, t), cache'[t] = Online
    PROVE  Guards(c, t)' \/ GaveUp(c, t)'
<1> USE DEF CleanInv, TypeInv, TypeOK, LeavingOK, Guards, GaveUp, Publishing, Saving, Requesting, Teardown, Goto, NextAt, StartAt, Abort, local, shared, sqlite, history
<1>a. final[c] => ~Announces(frame[c], t)
  BY DEF FromClient, Announces, WillFrame
<1>b. frame[c] = WillFrame(OfflineWill(t)) /\ k[c] = 1 =>
        1 \in DOMAIN frame[c].pubdel /\ Msg(c).mode = "RETAIN" /\ Msg(c).pat = t /\ Msg(c).value = Offline
          /\ Msg(c).type = "PUB"
  BY DEF WillFrame, OfflineWill, Msg
<1>c. Announces(frame[c], t) => frame[c] \in Frames[c] /\ (lwt[c] # None => lwt[c] = OfflineWill(t))
  <2> SUFFICES ASSUME Announces(frame[c], t) PROVE frame[c] \in Frames[c] /\ (lwt[c] # None => lwt[c] = OfflineWill(t))
    OBVIOUS
  <2>1. frame[c] \in Frames[c]
    BY <1>a DEF FromClient, Announces, NoFrame
  <2>2. ASSUME lwt[c] # None PROVE lwt[c] = LastWill(frame[c])
    BY <2>1, <2>2, OneWill DEF FromClient, Announces
  <2> QED
    BY <2>1, <2>2 DEF Announces
<1>1. CASE Close(c)
  BY <1>1 DEF Close
<1>2. CASE AddConnection(c)
  BY <1>2 DEF AddConnection
<1>3. CASE \E f \in Frames[c] : Receive(c, f)
  BY <1>3 DEF Receive
<1>4. CASE ReceiveFails(c)
  BY <1>4 DEF ReceiveFails
<1>5. CASE SaveSend(c)
  BY <1>5, <1>b DEF SaveSend
<1>6. CASE SaveRetain(c)
  BY <1>6, <1>b, StatusType DEF SaveRetain
<1>7. CASE SavePersistent(c)
  BY <1>7, <1>b DEF SavePersistent
<1>8. CASE Store(c)
  BY <1>8 DEF Store
<1>9. CASE StoreFails(c)
  BY <1>9, <1>a, <1>b DEF StoreFails
<1>10. CASE SaveDel(c)
  BY <1>10, <1>b DEF SaveDel
<1>11. CASE Scan(c)
  BY <1>11 DEF Scan
<1>12. CASE Delete(c)
  BY <1>12 DEF Delete
<1>13. CASE BusyTimeout(c)
  BY <1>13, <1>a, <1>b DEF BusyTimeout
<1>14. CASE Commit(c)
  BY <1>14, <1>b DEF Commit
<1>15. CASE MatchPub(c)
  BY <1>15 DEF MatchPub
<1>16. CASE MatchDel(c)
  BY <1>16 DEF MatchDel
<1>17. CASE Discard(c)
  BY <1>17 DEF Discard
<1>18. CASE \E d \in Conn : Send(c, d)
  BY <1>18 DEF Send
<1>19. CASE \E d \in Conn : SendFails(c, d)
  BY <1>19, <1>a, <1>b DEF SendFails
<1>20. CASE Sent(c)
  BY <1>20, <1>a, <1>b DEF Sent
<1>21. CASE Get(c)
  BY <1>21 DEF Get
<1>22. CASE Sub(c)
  BY <1>22 DEF Sub
<1>23. CASE Unsub(c)
  BY <1>23 DEF Unsub
<1>24. CASE LoadCache(c)
  BY <1>24 DEF LoadCache
<1>25. CASE LoadRows(c)
  BY <1>25 DEF LoadRows
<1>26. CASE Reply(c)
  BY <1>26 DEF Reply
<1>27. CASE ReplyFails(c)
  BY <1>27 DEF ReplyFails
<1>28. CASE SetWill(c)
  <2>1. CASE frame[c].lwt = <<>>
    BY <1>28, <2>1 DEF SetWill, Announces
  <2>2. CASE frame[c].lwt # <<>>
    <3>1. lwt'[c] = LastWill(frame[c])
      BY <1>28, <2>2 DEF SetWill, LastWill
    <3>2. CASE Announces(frame[c], t)
      BY <3>1, <3>2 DEF Announces
    <3>3. CASE lwt[c] = OfflineWill(t)
      <4>1. ~final[c]
        BY <1>28 DEF SetWill
      <4>2. frame[c] \in Frames[c]
        BY <2>2, <4>1 DEF FromClient, NoFrame
      <4>3. lwt[c] # None
        BY <3>3, NoneIsNothing, StatusType DEF OfflineWill, Will
      <4> QED
        BY <2>2, <3>1, <3>3, <4>2, <4>3, OneWill DEF FromClient
    <3> QED
      BY <1>28, <3>2, <3>3 DEF SetWill
  <2> QED
    BY <2>1, <2>2
<1>29. CASE DelConn(c)
  BY <1>29 DEF DelConn
<1>30. CASE DelSub(c)
  BY <1>30 DEF DelSub
<1>31. CASE DelWill(c)
  <2>1. CASE lwt[c] = OfflineWill(t)
    <3>1. lwt[c] # None
      BY <2>1, NoneIsNothing, StatusType DEF OfflineWill, Will
    <3> QED
      BY <1>31, <2>1, <3>1 DEF DelWill
  <2>2. CASE GaveUp(c, t) /\ lwt[c] = None
    BY <1>31, <2>2 DEF DelWill
  <2> QED
    BY <1>31, <2>1, <2>2, <1>c DEF DelWill
<1>32. CASE End(c)
  BY <1>32 DEF End
<1>33. CASE MatchFails(c)
  BY <1>33, <1>a, <1>b DEF MatchFails
<1>34. CASE SaveDelFails(c)
  BY <1>34, <1>a, <1>b DEF SaveDelFails
<1> QED
  BY <1>1, <1>2, <1>3, <1>4, <1>5, <1>6, <1>7, <1>8, <1>9, <1>10, <1>11, <1>12, <1>13, <1>14, <1>15, <1>16, <1>17, <1>18, <1>19, <1>20, <1>21, <1>22, <1>23, <1>24, <1>25, <1>26, <1>27, <1>28, <1>29, <1>30, <1>31, <1>32, <1>33, <1>34 DEF Handler, Environment

-----------------------------------------------------------------------------
LEMMA FromClientNext ==
    ASSUME CleanInv, FromClient, NEW c \in Conn, Handler(c) \/ Environment(c)
    PROVE  FromClient'
<1> SUFFICES ASSUME NEW a \in Conn
             PROVE  /\ ~final'[a] => frame'[a] \in Frames[a] \cup {NoFrame}
                    /\ lwt'[a] # None => \E f \in Frames[a] : f.lwt # <<>> /\ lwt'[a] = LastWill(f)
                    /\ final'[a] => \E f \in Frames[a] : f.lwt # <<>> /\ frame'[a] = WillFrame(LastWill(f))
  BY DEF FromClient
<1>1. CASE a = c
  BY <1>1, OwnStep
<1>2. CASE a # c
  <2>1. lwt'[a] = lwt[a] /\ final'[a] = final[a] /\ frame'[a] = frame[a]
    BY <1>2, OtherStep, LocalStep
  <2> QED
    BY <2>1 DEF FromClient
<1> QED
  BY <1>1, <1>2

(* Who retains Online has the frame with the will, unless it retains a will  *)
(* itself, which is not Online.                                              *)
LEMMA RetainStep ==
    ASSUME CleanInv, FromClient, NEW c \in Conn, SaveRetain(c), NEW t \in StatusTopic,
           Msg(c).pat = t, Msg(c).value = Online
    PROVE  Guards(c, t)'
<1>1. k[c] \in DOMAIN frame[c].pubdel /\ Msg(c).mode = "RETAIN" /\ Msg(c).type = "PUB"
  BY MsgType DEF SaveRetain, Mode, CleanInv, TypeInv
<1>2. ~final[c]
  <2> SUFFICES ASSUME NEW f \in Frames[c], f.lwt # <<>>, frame[c] = WillFrame(LastWill(f)) PROVE FALSE
    BY DEF FromClient
  <2>1. f \in Frame
    BY FramesType
  <2>2. Len(f.lwt) \in DOMAIN f.lwt /\ LastWill(f) \in Will
    BY <2>1 DEF Frame, LastWill
  <2>3. Msg(c).pat = LastWill(f).topic /\ Msg(c).value = LastWill(f).value
    BY <1>1 DEF WillFrame, Msg, CleanInv, TypeInv, TypeOK
  <2>4. LastWill(f) = [topic |-> t, value |-> Online]
    BY <2>2, <2>3 DEF Will
  <2> QED
    BY <2>2, <2>4, NoOnlineWill DEF LastWill
<1>3. frame[c] \in Frames[c]
  BY <1>1, <1>2 DEF FromClient, NoFrame
<1>4. Announces(frame[c], t)
  BY <1>1, <1>3, OnlineHasWill DEF RetainsOnline, Msg
<1> QED
  BY <1>4 DEF SaveRetain, Guards, NextAt, Goto, Publishing, Saving, CleanInv, TypeInv, TypeOK

LEMMA GuardedNext ==
    ASSUME StatusInv, NEW c \in Conn, Handler(c) \/ Environment(c)
    PROVE  OnlineIsGuarded'
<1> SUFFICES ASSUME NEW t \in StatusTopic, cache'[t] = Online
             PROVE  \E a \in Conn : Guards(a, t)' \/ GaveUp(a, t)'
  BY DEF OnlineIsGuarded
<1>a. CleanInv /\ FromClient /\ OnlineIsGuarded /\ t \in Topic
  BY StatusType DEF StatusInv
<1>1. CASE cache[t] = Online
  <2>1. PICK a \in Conn : Guards(a, t) \/ GaveUp(a, t)
    BY <1>a, <1>1 DEF OnlineIsGuarded
  <2>2. CASE a = c
    BY <1>a, <2>1, <2>2, GuardStep
  <2>3. CASE a # c
    <3>1. /\ lwt'[a] = lwt[a] /\ final'[a] = final[a]
          /\ pc'[a] = pc[a] /\ frame'[a] = frame[a] /\ k'[a] = k[a]
      BY <1>a, <2>3, OtherStep, LocalStep
    <3>2. Guards(a, t) => Guards(a, t)'
      BY <3>1 DEF Guards
    <3>3. GaveUp(a, t) => GaveUp(a, t)'
      BY <3>1 DEF GaveUp
    <3> QED
      BY <2>1, <3>2, <3>3
  <2> QED
    BY <2>2, <2>3
<1>2. CASE cache[t] # Online
  <2>1. Online # None
    BY StatusType, NoneIsNothing
  <2>2. SaveRetain(c) /\ Msg(c).pat = t /\ Msg(c).value = Online
    BY <1>a, <1>2, <2>1, OnlineStep
  <2> QED
    BY <1>a, <2>2, RetainStep
<1> QED
  BY <1>1, <1>2

(* For any number of agents, observers and other clients: as long as the     *)
(* broker retains "online" for an agent, some handler has the agent's will    *)
(* or is on the way to it, unless an exception ended it before it got there.  *)
THEOREM OnlineKeepsItsGuard == Spec => []OnlineIsGuarded
<1>1. Init => FromClient /\ OnlineIsGuarded
  <2>1. ASSUME Init PROVE FromClient
    BY <2>1 DEF Init, FromClient
  <2>2. ASSUME Init PROVE OnlineIsGuarded
    BY <2>2, StatusType, NoneIsNothing DEF Init, OnlineIsGuarded
  <2> QED
    BY <2>1, <2>2
<1>2. FromClient /\ OnlineIsGuarded /\ CleanInv /\ [Next]_vars => (FromClient /\ OnlineIsGuarded)'
  <2> SUFFICES ASSUME FromClient, OnlineIsGuarded, CleanInv, [Next]_vars
               PROVE  (FromClient /\ OnlineIsGuarded)'
    OBVIOUS
  <2>1. CASE Next
    BY <2>1, FromClientNext, GuardedNext DEF Next, StatusInv
  <2>2. CASE UNCHANGED vars
    <3>1. /\ pc' = pc /\ frame' = frame /\ k' = k /\ final' = final /\ lwt' = lwt /\ cache' = cache
      BY <2>2 DEF vars, local, shared
    <3> QED
      BY <3>1 DEF FromClient, OnlineIsGuarded, Guards, GaveUp
  <2> QED
    BY <2>1, <2>2
<1> QED
  BY <1>1, <1>2, CleanInvariant, PTL DEF Spec
=============================================================================
