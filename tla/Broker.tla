------------------------------- MODULE Broker -------------------------------
(***************************************************************************)
(* The publish/subscribe broker of netfind-server.  Every WebSocket        *)
(* connection is served by a thread of its own (blueprints/websocket.py),  *)
(* which receives a frame of messages and calls the shared Broker object   *)
(* (broker.py).  The threads share the retain cache, the subscription      *)
(* table, the table of last wills and one SQLite file; each shared         *)
(* structure has a lock, no two locks are ever held together, and SQLite   *)
(* lets one transaction write at a time.  A step of this module is one     *)
(* critical section, one statement on the database, or one send.           *)
(*                                                                         *)
(* A connection is used once: a client that comes back is another member   *)
(* of Conn.  What a frame carries is already reduced and grouped           *)
(* (Reduce models how), so a frame is three sequences.  Timestamps are     *)
(* left out here; a stored message is its topic and its value.             *)
(***************************************************************************)
EXTENDS Naturals, Sequences

CONSTANTS
    Conn,        \* the Connection objects, one handler thread each
    Topic,       \* topics that messages are published to
    Pattern,     \* subscription patterns; a topic is also a pattern
    Value,       \* values that are published
    None,        \* Python's None
    Covers,      \* Covers[p] is the set of topics that Pattern.matches accepts
    Broken,      \* patterns with an unterminated "[": re raises when they are matched
    Frames,      \* Frames[c]: the frames that the client of c may send, reduced and grouped
    MaxFrames    \* bound: frames received over a whole behaviour

Mode == {"SEND", "RETAIN", "PERSIST", "APPEND"}

(* A PUB names one topic; a DEL names a pattern and may name a value. *)
PubDel ==
    [type : {"PUB"}, pat : Topic, value : Value, mode : Mode]
        \cup [type : {"DEL"}, pat : Pattern, value : Value \cup {None}, mode : {None}]
Request == [type : {"GET", "SUB", "UNSUB"}, pat : Pattern]
Will == [topic : Topic, value : Value]
Frame == [pubdel : Seq(PubDel), gsu : Seq(Request), lwt : Seq(Will)]

ASSUME TopicsArePatterns == Topic \subseteq Pattern
ASSUME CoversType == Covers \in [Pattern -> SUBSET Topic]
ASSUME BrokenType == Broken \subseteq Pattern \ Topic /\ \A p \in Broken : Covers[p] = {}
ASSUME FramesType == Frames \in [Conn -> SUBSET Frame]
ASSUME NoneIsNothing == None \notin Conn \cup Value \cup Will \cup Mode
ASSUME MaxFramesType == MaxFrames \in Nat

Row == Topic \X Value

VARIABLES
    ws,       \* ws[c]: the WebSocket under connection c, "open" or "closed"
    pc,       \* pc[c]: where the handler thread of c is
    frame,    \* frame[c]: the frame being processed
    k,        \* k[c]: index of the message being processed in its group
    final,    \* final[c]: the handler is publishing its will, with conn=None
    queue,    \* queue[c][d]: the SendQueue of c, rows to be sent to d
    found,    \* found[c]: what db.get returned to a DEL
    conn,     \* Broker.conn
    sub,      \* Broker.sub
    lwt,      \* Broker.lwt
    cache,    \* Broker.msgs, the retain cache
    db,       \* the committed rows of table topic
    writer,   \* the handler whose transaction holds SQLite's write lock
    wdb,      \* the rows as the writer sees them
    nframes,  \* number of frames received so far
    known,    \* history: rows sent to c, or published by c, since last published
    lost      \* history: rows whose dispatch to c was given up by an exception

local == <<pc, frame, k, final, queue, found>>
shared == <<conn, sub, lwt, cache>>
sqlite == <<db, writer, wdb>>
history == <<nframes, known, lost>>
vars == <<ws, local, shared, sqlite, history>>

Saving == {"save", "store", "scan", "delete"}
Publishing == Saving \cup {"match", "send"}
Requesting == {"gsu", "cache", "rows"}
Teardown == {"delconn", "delsub", "dellwt"}
PC == {"new", "recv", "lwt", "end", "done"} \cup Publishing \cup Requesting \cup Teardown

NoFrame == [pubdel |-> <<>>, gsu |-> <<>>, lwt |-> <<>>]
NoQueue == [d \in Conn |-> {}]

(* The rows that the PUB messages of a sequence publish, from index i on. *)
PubsFrom(msgs, i) ==
    {<<msgs[j].pat, msgs[j].value>> : j \in {j \in DOMAIN msgs : j >= i /\ msgs[j].type = "PUB"}}
Pubs(msgs) == PubsFrom(msgs, 1)

Msg(c) == frame[c].pubdel[k[c]]
Req(c) == frame[c].gsu[k[c]]

Subscribers(t) == UNION {sub[p] : p \in {p \in Pattern : t \in Covers[p]}}

(* What a SELECT of handler c sees: its own transaction, or what is committed. *)
View(c) == IF writer = c THEN wdb ELSE db

-----------------------------------------------------------------------------
Init ==
    /\ ws = [c \in Conn |-> "open"]
    /\ pc = [c \in Conn |-> "new"]
    /\ frame = [c \in Conn |-> NoFrame]
    /\ k = [c \in Conn |-> 1]
    /\ final = [c \in Conn |-> FALSE]
    /\ queue = [c \in Conn |-> NoQueue]
    /\ found = [c \in Conn |-> {}]
    /\ conn = {}
    /\ sub = [p \in Pattern |-> {}]
    /\ lwt = [c \in Conn |-> None]
    /\ cache = [t \in Topic |-> None]
    /\ db = {} /\ writer = None /\ wdb = {}
    /\ nframes = 0
    /\ known = [c \in Conn |-> {}]
    /\ lost = [c \in Conn |-> {}]

Goto(c, label) == pc' = [pc EXCEPT ![c] = label]

(* Go on with the next message of the group, or start a group at label. *)
NextAt(c, label) == Goto(c, label) /\ k' = [k EXCEPT ![c] = @ + 1]
StartAt(c, label) == Goto(c, label) /\ k' = [k EXCEPT ![c] = 1]

(* Rows of the frame that an exception now would keep from reaching d. *)
Unsent(c, d) ==
    IF pc[c] \in Saving THEN Pubs(frame[c].pubdel)
    ELSE IF pc[c] = "match"
    THEN (IF c = d THEN {} ELSE queue[c][d]) \cup PubsFrom(frame[c].pubdel, k[c])
    ELSE queue[c][d]

(* An exception leaves the loop of root() for its finally clause; raised    *)
(* while the will is published it leaves the finally clause itself.         *)
Abort(c) ==
    /\ Goto(c, IF final[c] THEN "end" ELSE "delconn")
    /\ lost' = [d \in Conn |-> lost[d] \cup Unsent(c, d)]
    /\ queue' = [queue EXCEPT ![c] = NoQueue]
    /\ found' = [found EXCEPT ![c] = {}]
    /\ UNCHANGED <<ws, frame, k, final, shared, db, nframes, known>>

-----------------------------------------------------------------------------
(* The peer goes away, or the ping of simple_websocket times out. *)
Close(c) ==
    /\ ws[c] = "open"
    /\ pc[c] # "new"
    /\ ws' = [ws EXCEPT ![c] = "closed"]
    /\ UNCHANGED <<local, shared, sqlite, history>>

AddConnection(c) ==
    /\ pc[c] = "new"
    /\ conn' = conn \cup {c}
    /\ Goto(c, "recv")
    /\ UNCHANGED <<ws, frame, k, final, queue, found, sub, lwt, cache, sqlite, history>>

(* Frames that were buffered before the socket closed are still returned. *)
Receive(c, f) ==
    /\ pc[c] = "recv"
    /\ nframes < MaxFrames
    /\ nframes' = nframes + 1
    /\ frame' = [frame EXCEPT ![c] = f]
    /\ StartAt(c, IF f.pubdel # <<>> THEN "save" ELSE "gsu")
    /\ known' = [d \in Conn |-> IF d = c THEN known[d] \cup Pubs(f.pubdel)
                                         ELSE known[d] \ Pubs(f.pubdel)]
    /\ UNCHANGED <<ws, final, queue, found, shared, sqlite, lost>>

(* receive() raises ConnectionClosed, or the frame cannot be decoded. *)
ReceiveFails(c) ==
    /\ pc[c] = "recv"
    /\ Abort(c)
    /\ UNCHANGED <<writer, wdb>>

-----------------------------------------------------------------------------
(* Broker.save_msgs, one message after the other. *)

SaveSend(c) ==
    /\ pc[c] = "save" /\ k[c] \in DOMAIN frame[c].pubdel
    /\ Msg(c).mode = "SEND"
    /\ NextAt(c, "save")
    /\ UNCHANGED <<ws, frame, final, queue, found, shared, sqlite, history>>

SaveRetain(c) ==
    /\ pc[c] = "save" /\ k[c] \in DOMAIN frame[c].pubdel
    /\ Msg(c).mode = "RETAIN"
    /\ cache' = [cache EXCEPT ![Msg(c).pat] = Msg(c).value]
    /\ NextAt(c, "save")
    /\ UNCHANGED <<ws, frame, final, queue, found, conn, sub, lwt, sqlite, history>>

SavePersistent(c) ==
    /\ pc[c] = "save" /\ k[c] \in DOMAIN frame[c].pubdel
    /\ Msg(c).mode \in {"PERSIST", "APPEND"}
    /\ cache' = [cache EXCEPT ![Msg(c).pat] = None]
    /\ Goto(c, "store")
    /\ UNCHANGED <<ws, frame, k, final, queue, found, conn, sub, lwt, sqlite, history>>

(* Mutant of KeepOnly: the other values of the topic stay. *)
KeepAll(rows, m) == rows

(* db.delete_other for PERSIST: the rows of the topic with another value. *)
KeepOnly(rows, m) == {r \in rows : r[1] = m.pat => r[2] = m.value}

(* delete_other and store; the first of them takes SQLite's write lock and *)
(* the transaction keeps it, so the two make one step for everybody else.  *)
Store(c) ==
    /\ pc[c] = "store"
    /\ writer \in {None, c}
    /\ writer' = c
    /\ wdb' = {<<Msg(c).pat, Msg(c).value>>}
                \cup (IF Msg(c).mode = "PERSIST" THEN KeepOnly(View(c), Msg(c)) ELSE View(c))
    /\ NextAt(c, "save")
    /\ UNCHANGED <<ws, frame, final, queue, found, shared, db, history>>

(* store raises, for instance on an integer that SQLite cannot hold, after *)
(* delete_other has already run.                                           *)
StoreFails(c) ==
    /\ pc[c] = "store"
    /\ IF Msg(c).mode = "PERSIST"
       THEN /\ writer \in {None, c}
            /\ writer' = c
            /\ wdb' = KeepOnly(View(c), Msg(c))
       ELSE UNCHANGED <<writer, wdb>>
    /\ Abort(c)

(* A broken pattern raises as soon as there is a topic to compare it with. *)
DelRaises(c) == Msg(c).pat \in Broken /\ \E t \in Topic : cache[t] # None

SaveDel(c) ==
    /\ pc[c] = "save" /\ k[c] \in DOMAIN frame[c].pubdel
    /\ Msg(c).type = "DEL" /\ ~DelRaises(c)
    /\ cache' = [t \in Topic |-> IF t \in Covers[Msg(c).pat] THEN None ELSE cache[t]]
    /\ Goto(c, "scan")
    /\ UNCHANGED <<ws, frame, k, final, queue, found, conn, sub, lwt, sqlite, history>>

SaveDelFails(c) ==
    /\ pc[c] = "save" /\ k[c] \in DOMAIN frame[c].pubdel
    /\ Msg(c).type = "DEL" /\ DelRaises(c)
    /\ Abort(c)
    /\ UNCHANGED <<writer, wdb>>

(* db.get(pattern), outside any transaction unless one is already open. *)
Scan(c) ==
    /\ pc[c] = "scan"
    /\ found' = [found EXCEPT ![c] = {r \in View(c) : r[1] \in Covers[Msg(c).pat]}]
    /\ Goto(c, "delete")
    /\ UNCHANGED <<ws, frame, k, final, queue, shared, sqlite, history>>

(* delete_value or delete_topic for the topic of every row that was found;  *)
(* without rows there is no statement and no transaction.                   *)
Delete(c) ==
    /\ pc[c] = "delete"
    /\ IF found[c] = {}
       THEN UNCHANGED <<writer, wdb>>
       ELSE /\ writer \in {None, c}
            /\ writer' = c
            /\ wdb' = {r \in View(c) :
                         \/ r[1] \notin {s[1] : s \in found[c]}
                         \/ Msg(c).value \notin {None, r[2]}}
    /\ found' = [found EXCEPT ![c] = {}]
    /\ NextAt(c, "save")
    /\ UNCHANGED <<ws, frame, final, queue, shared, db, history>>

(* Another transaction kept the write lock for the ten seconds of timeout. *)
BusyTimeout(c) ==
    /\ pc[c] = "store" \/ (pc[c] = "delete" /\ found[c] # {})
    /\ writer \notin {None, c}
    /\ Abort(c)
    /\ UNCHANGED <<writer, wdb>>

(* db.commit at the end of save_msgs commits whatever the connection's     *)
(* transaction holds, also what an aborted frame left in it.               *)
Commit(c) ==
    /\ pc[c] = "save" /\ k[c] \notin DOMAIN frame[c].pubdel
    /\ IF writer = c
       THEN db' = wdb /\ writer' = None /\ wdb' = {}
       ELSE UNCHANGED sqlite
    /\ StartAt(c, "match")
    /\ UNCHANGED <<ws, frame, final, queue, found, shared, history>>

-----------------------------------------------------------------------------
(* The rest of Broker.accept_pub_del. *)

(* get_subs and queue.append for one PUB. *)
MatchPub(c) ==
    /\ pc[c] = "match" /\ k[c] \in DOMAIN frame[c].pubdel
    /\ Msg(c).type = "PUB"
    /\ queue' = [queue EXCEPT ![c] =
           [d \in Conn |-> IF d \in Subscribers(Msg(c).pat)
                           THEN @[d] \cup {<<Msg(c).pat, Msg(c).value>>} ELSE @[d]]]
    /\ NextAt(c, "match")
    /\ UNCHANGED <<ws, frame, final, found, shared, sqlite, history>>

(* get_subs gets a Pattern for a DEL, and no pattern matches a Pattern. *)
MatchDel(c) ==
    /\ pc[c] = "match" /\ k[c] \in DOMAIN frame[c].pubdel
    /\ Msg(c).type = "DEL"
    /\ NextAt(c, "match")
    /\ UNCHANGED <<ws, frame, final, queue, found, shared, sqlite, history>>

(* Once somebody has subscribed to a broken pattern, it stays a key of       *)
(* Broker.sub, and get_subs raises in every handler that publishes.  Who has *)
(* subscribed to one, and when, is not followed.                             *)
MatchFails(c) ==
    /\ pc[c] = "match" /\ k[c] \in DOMAIN frame[c].pubdel
    /\ Msg(c).type = "PUB" /\ Broken # {}
    /\ Abort(c)
    /\ UNCHANGED <<writer, wdb>>

(* queue.discard(conn); the will is published with conn=None. *)
Discard(c) ==
    /\ pc[c] = "match" /\ k[c] \notin DOMAIN frame[c].pubdel
    /\ queue' = IF final[c] THEN queue ELSE [queue EXCEPT ![c][c] = {}]
    /\ Goto(c, "send")
    /\ UNCHANGED <<ws, frame, k, final, found, shared, sqlite, history>>

(* One turn of the loop of SendQueue.send. *)
Send(c, d) ==
    /\ pc[c] = "send" /\ queue[c][d] # {}
    /\ ws[d] = "open"
    /\ known' = [known EXCEPT ![d] = @ \cup queue[c][d]]
    /\ queue' = [queue EXCEPT ![c][d] = {}]
    /\ UNCHANGED <<ws, pc, frame, k, final, found, shared, sqlite, nframes, lost>>

(* Mutant of SendFails: the exception is swallowed and the send repeated. *)
SendRetries(c, d) ==
    /\ pc[c] = "send" /\ queue[c][d] # {}
    /\ ws[d] = "closed"
    /\ UNCHANGED vars

(* Sending to a connection whose socket is closed raises in the sender. *)
SendFails(c, d) ==
    /\ pc[c] = "send" /\ queue[c][d] # {}
    /\ ws[d] = "closed"
    /\ Abort(c)
    /\ UNCHANGED <<writer, wdb>>

Sent(c) ==
    /\ pc[c] = "send" /\ queue[c] = NoQueue
    /\ IF final[c] THEN Goto(c, "end") /\ UNCHANGED k ELSE StartAt(c, "gsu")
    /\ UNCHANGED <<ws, frame, final, queue, found, shared, sqlite, history>>

-----------------------------------------------------------------------------
(* Broker.accept_get_sub_unsub and load_msgs. *)

Get(c) ==
    /\ pc[c] = "gsu" /\ k[c] \in DOMAIN frame[c].gsu
    /\ Req(c).type = "GET"
    /\ Goto(c, "cache")
    /\ UNCHANGED <<ws, frame, k, final, queue, found, shared, sqlite, history>>

(* Mutant of Sub: a subscriber is only told of what comes later. *)
SubWithoutLoad(c) ==
    /\ pc[c] = "gsu" /\ k[c] \in DOMAIN frame[c].gsu
    /\ Req(c).type = "SUB"
    /\ sub' = [sub EXCEPT ![Req(c).pat] = @ \cup {c}]
    /\ NextAt(c, "gsu")
    /\ UNCHANGED <<ws, frame, final, queue, found, conn, lwt, cache, sqlite, history>>

Sub(c) ==
    /\ pc[c] = "gsu" /\ k[c] \in DOMAIN frame[c].gsu
    /\ Req(c).type = "SUB"
    /\ sub' = [sub EXCEPT ![Req(c).pat] = @ \cup {c}]
    /\ Goto(c, "cache")
    /\ UNCHANGED <<ws, frame, k, final, queue, found, conn, lwt, cache, sqlite, history>>

Unsub(c) ==
    /\ pc[c] = "gsu" /\ k[c] \in DOMAIN frame[c].gsu
    /\ Req(c).type = "UNSUB"
    /\ sub' = [sub EXCEPT ![Req(c).pat] = @ \ {c}]
    /\ NextAt(c, "gsu")
    /\ UNCHANGED <<ws, frame, final, queue, found, conn, lwt, cache, sqlite, history>>

(* Mutant of LoadCache: a topic without a retained value is not skipped. *)
LoadCacheAll(c) ==
    /\ pc[c] = "cache"
    /\ queue' = [queue EXCEPT ![c][c] = @ \cup {<<t, cache[t]>> : t \in Covers[Req(c).pat]}]
    /\ Goto(c, "rows")
    /\ UNCHANGED <<ws, frame, k, final, found, shared, sqlite, history>>

LoadCache(c) ==
    /\ pc[c] = "cache"
    /\ queue' = [queue EXCEPT ![c][c] = @ \cup {<<t, cache[t]>> : t \in {t \in Covers[Req(c).pat] : cache[t] # None}}]
    /\ Goto(c, "rows")
    /\ UNCHANGED <<ws, frame, k, final, found, shared, sqlite, history>>

(* Mutant of LoadRows: the query is made without the pattern. *)
LoadAllRows(c) ==
    /\ pc[c] = "rows"
    /\ queue' = [queue EXCEPT ![c][c] = @ \cup View(c)]
    /\ NextAt(c, "gsu")
    /\ UNCHANGED <<ws, frame, final, found, shared, sqlite, history>>

LoadRows(c) ==
    /\ pc[c] = "rows"
    /\ queue' = [queue EXCEPT ![c][c] = @ \cup {r \in View(c) : r[1] \in Covers[Req(c).pat]}]
    /\ NextAt(c, "gsu")
    /\ UNCHANGED <<ws, frame, final, found, shared, sqlite, history>>

(* A GET or SUB makes an entry in the queue even when nothing was loaded. *)
WantsReply(c) == \E i \in DOMAIN frame[c].gsu : frame[c].gsu[i].type \in {"GET", "SUB"}

Reply(c) ==
    /\ pc[c] = "gsu" /\ k[c] \notin DOMAIN frame[c].gsu
    /\ WantsReply(c) => ws[c] = "open"
    /\ known' = [known EXCEPT ![c] = @ \cup queue[c][c]]
    /\ queue' = [queue EXCEPT ![c][c] = {}]
    /\ Goto(c, "lwt")
    /\ UNCHANGED <<ws, frame, k, final, found, shared, sqlite, nframes, lost>>

ReplyFails(c) ==
    /\ pc[c] = "gsu" /\ k[c] \notin DOMAIN frame[c].gsu
    /\ WantsReply(c) /\ ws[c] = "closed"
    /\ Abort(c)
    /\ UNCHANGED <<writer, wdb>>

(* accept_lwt: only this handler reads or writes lwt[c], so the assignments *)
(* of several wills in a frame are one step and the last one stays.         *)
SetWill(c) ==
    /\ pc[c] = "lwt"
    /\ LET wills == frame[c].lwt IN
       lwt' = IF wills = <<>> THEN lwt ELSE [lwt EXCEPT ![c] = wills[Len(wills)]]
    /\ Goto(c, "recv")
    /\ frame' = [frame EXCEPT ![c] = NoFrame]
    /\ UNCHANGED <<ws, k, final, queue, found, conn, sub, cache, sqlite, history>>

-----------------------------------------------------------------------------
(* Broker.del_connection, then the teardown of the application context. *)

DelConn(c) ==
    /\ pc[c] = "delconn"
    /\ conn' = conn \ {c}
    /\ Goto(c, "delsub")
    /\ UNCHANGED <<ws, frame, k, final, queue, found, sub, lwt, cache, sqlite, history>>

DelSub(c) ==
    /\ pc[c] = "delsub"
    /\ sub' = [p \in Pattern |-> sub[p] \ {c}]
    /\ Goto(c, "dellwt")
    /\ UNCHANGED <<ws, frame, k, final, queue, found, conn, lwt, cache, sqlite, history>>

(* Mutant of WillFrame: the will is sent but not retained. *)
SentWill(w) ==
    [pubdel |-> <<[type |-> "PUB", pat |-> w.topic, value |-> w.value, mode |-> "SEND"]>>,
     gsu |-> <<>>, lwt |-> <<>>]

(* The will goes through accept_pub_del as a PUB of mode RETAIN. *)
WillFrame(w) ==
    [pubdel |-> <<[type |-> "PUB", pat |-> w.topic, value |-> w.value, mode |-> "RETAIN"]>>,
     gsu |-> <<>>, lwt |-> <<>>]

(* Mutant of DelWill: the will is dropped with the connection. *)
DelWillSilently(c) ==
    /\ pc[c] = "dellwt"
    /\ lwt' = [lwt EXCEPT ![c] = None]
    /\ Goto(c, "end")
    /\ UNCHANGED <<ws, frame, k, final, queue, found, conn, sub, cache, sqlite, history>>

DelWill(c) ==
    /\ pc[c] = "dellwt"
    /\ lwt' = [lwt EXCEPT ![c] = None]
    /\ IF lwt[c] = None
       THEN /\ Goto(c, "end")
            /\ UNCHANGED <<frame, k, final, known>>
       ELSE /\ frame' = [frame EXCEPT ![c] = WillFrame(lwt[c])]
            /\ StartAt(c, "save")
            /\ final' = [final EXCEPT ![c] = TRUE]
            /\ known' = [d \in Conn |-> known[d] \ {<<lwt[c].topic, lwt[c].value>>}]
    /\ UNCHANGED <<ws, queue, found, conn, sub, cache, sqlite, nframes, lost>>

(* Mutant of End: the connection to SQLite is left to the garbage collector. *)
EndWithoutRollback(c) ==
    /\ pc[c] = "end"
    /\ ws' = [ws EXCEPT ![c] = "closed"]
    /\ Goto(c, "done")
    /\ UNCHANGED <<frame, k, final, queue, found, shared, sqlite, history>>

(* close_db closes the connection to SQLite, which rolls an open transaction *)
(* back, and flask_sock closes the socket.                                   *)
End(c) ==
    /\ pc[c] = "end"
    /\ IF writer = c THEN writer' = None /\ wdb' = {} ELSE UNCHANGED <<writer, wdb>>
    /\ ws' = [ws EXCEPT ![c] = "closed"]
    /\ Goto(c, "done")
    /\ UNCHANGED <<frame, k, final, queue, found, shared, db, history>>

-----------------------------------------------------------------------------
(* One step of the handler thread of c. *)
Handler(c) ==
    \/ AddConnection(c)
    \/ \E f \in Frames[c] : Receive(c, f)
    \/ SaveSend(c) \/ SaveRetain(c) \/ SavePersistent(c) \/ Store(c)
    \/ SaveDel(c) \/ SaveDelFails(c) \/ Scan(c) \/ Delete(c) \/ BusyTimeout(c) \/ Commit(c)
    \/ MatchPub(c) \/ MatchDel(c) \/ Discard(c)
    \/ \E d \in Conn : Send(c, d) \/ SendFails(c, d)
    \/ Sent(c)
    \/ Get(c) \/ Sub(c) \/ Unsub(c) \/ LoadCache(c) \/ LoadRows(c)
    \/ Reply(c) \/ ReplyFails(c) \/ SetWill(c)
    \/ DelConn(c) \/ DelSub(c) \/ DelWill(c) \/ End(c)

(* What the outside does: peers that leave, frames, values and patterns that *)
(* raise.                                                                    *)
Environment(c) == Close(c) \/ StoreFails(c) \/ ReceiveFails(c) \/ MatchFails(c)

Next == \E c \in Conn : Handler(c) \/ Environment(c)

(* Threads are scheduled by the operating system, and receive() raises      *)
(* sooner or later once its socket is closed.                               *)
Fairness ==
    \A c \in Conn : WF_vars(Handler(c)) /\ WF_vars(ws[c] = "closed" /\ ReceiveFails(c))

Spec == Init /\ [][Next]_vars
FairSpec == Spec /\ Fairness

-----------------------------------------------------------------------------
TypeOK ==
    /\ ws \in [Conn -> {"open", "closed"}]
    /\ pc \in [Conn -> PC]
    /\ frame \in [Conn -> Frame]
    /\ k \in [Conn -> Nat \ {0}]
    /\ final \in [Conn -> BOOLEAN]
    /\ queue \in [Conn -> [Conn -> SUBSET Row]]
    /\ found \in [Conn -> SUBSET Row]
    /\ conn \subseteq Conn
    /\ sub \in [Pattern -> SUBSET Conn]
    /\ lwt \in [Conn -> Will \cup {None}]
    /\ cache \in [Topic -> Value \cup {None}]
    /\ db \subseteq Row /\ wdb \subseteq Row
    /\ writer \in Conn \cup {None}
    /\ nframes \in Nat
    /\ known \in [Conn -> SUBSET Row]
    /\ lost \in [Conn -> SUBSET Row]
-----------------------------------------------------------------------------
(* What the clients may rely on. *)

(* Rows on their way from handler a to subscriber d.  A sender's own rows   *)
(* are no dispatch to itself: queue.discard takes them out.                 *)
Pending(a, d) == IF a = d /\ pc[a] \in Publishing THEN {} ELSE Unsent(a, d)

Accounted(d) == known[d] \cup lost[d] \cup UNION {Pending(a, d) : a \in Conn}

(* Handler d is between adding itself to the subscribers of p and the read  *)
(* of the cache (labels {"cache"}) or of the database ({"cache", "rows"}).  *)
Loading(d, p, labels) == pc[d] \in labels /\ Req(d) = [type |-> "SUB", pat |-> p]

(* Every row a subscriber would be told by subscribing now, it was told, is *)
(* being told, or lost to an exception in the handler that published it:    *)
(* broker.py subscribes before it loads and saves before it looks for the   *)
(* subscribers, so no publication falls between a load and a subscription.  *)
CachedReachesSubscriber ==
    \A p \in Pattern : \A d \in sub[p] : \A t \in Covers[p] :
        cache[t] # None /\ ~Loading(d, p, {"cache"}) => <<t, cache[t]>> \in Accounted(d)
CommittedReachesSubscriber ==
    \A p \in Pattern : \A d \in sub[p] : \A r \in db :
        r[1] \in Covers[p] /\ ~Loading(d, p, {"cache", "rows"}) => r \in Accounted(d)
NoMissedUpdate == CachedReachesSubscriber /\ CommittedReachesSubscriber

(* The clients see the service that module PubSub describes.  Who has       *)
(* subscribed has joined once its load is over; a handler's own rows are no *)
(* dispatch to itself.                                                      *)
Joined == [p \in Pattern |-> {d \in sub[p] : ~Loading(d, p, {"cache", "rows"})}]
Visible == {<<t, cache[t]>> : t \in {t \in Topic : cache[t] # None}} \cup db
Unmatched == [c \in Conn |->
    IF pc[c] \in Saving THEN Pubs(frame[c].pubdel)
    ELSE IF pc[c] = "match" THEN PubsFrom(frame[c].pubdel, k[c]) ELSE {}]
Queued == [c \in Conn |-> [d \in Conn |->
    IF c = d /\ pc[c] \in Publishing THEN {} ELSE queue[c][d]]]

PS == INSTANCE PubSub WITH
    Client <- Conn, asked <- sub, joined <- Joined, visible <- Visible,
    publishing <- Unmatched, due <- Queued, told <- known
ImplementsPubSub == PS!Spec

(* A handler that has ended left nothing behind in the broker or in SQLite: *)
(* no connection, no subscription, no will, no queued row, no write lock.   *)
DoneIsClean ==
    \A c \in Conn : pc[c] = "done" =>
        /\ c \notin conn /\ lwt[c] = None /\ queue[c] = NoQueue /\ writer # c
        /\ \A p \in Pattern : c \notin sub[p]

(* A commit that ends a frame whose last word on a topic is a PERSIST       *)
(* leaves that value alone in the topic, whatever other handlers stored     *)
(* between this frame's db.get and its commit.                              *)
LastWord(msgs, i) ==
    /\ msgs[i].mode = "PERSIST"
    /\ \A j \in DOMAIN msgs : j > i => msgs[j].type = "PUB" /\ msgs[j].pat # msgs[i].pat
PersistReplaces ==
    [][\A c \in Conn : Commit(c) =>
          \A i \in DOMAIN frame[c].pubdel : LastWord(frame[c].pubdel, i) =>
              {r \in db' : r[1] = frame[c].pubdel[i].pat}
                  = {<<frame[c].pubdel[i].pat, frame[c].pubdel[i].value>>}]_vars

(* A handler whose socket is closed ends, whatever the others hold. *)
HandlerEnds == \A c \in Conn : ws[c] = "closed" ~> pc[c] = "done"

(* The wills that the client of c may set. *)
ClientWills(c) == UNION {{f.lwt[i] : i \in DOMAIN f.lwt} : f \in Frames[c]}

(* A will that was set when the socket closed gets into the retain cache,   *)
(* unless a frame that was still buffered replaces the will.                *)
WillIsPublished ==
    \A c \in Conn : \A w \in ClientWills(c) :
        lwt[c] = w /\ ws[c] = "closed"
            ~> cache[w.topic] = w.value \/ lwt[c] \notin {w, None}
=============================================================================
