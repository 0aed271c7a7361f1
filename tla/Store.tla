-------------------------------- MODULE Store --------------------------------
(***************************************************************************)
(* When a stored message was created: the created_at of rows and of        *)
(* retained messages, through Broker.save_msgs and Broker.load_msgs        *)
(* (broker.py) and the statements of db.py.  Broker follows which rows are *)
(* stored; this module follows their timestamps.  updated_at and mode of   *)
(* what is stored, which decide nothing, are left out, and publications    *)
(* that are not stored at all.                                             *)
(*                                                                         *)
(* The retain cache holds references to message objects.  load_msgs hands  *)
(* the same objects out, and reduce_msgs merges into them when the reply   *)
(* is sent, without msgs_lock; so objects are numbered, and the cache      *)
(* refers to them.  Rows are fresh objects every time they are read.       *)
(***************************************************************************)
EXTENDS Naturals, Sequences, FiniteSetsExt

CONSTANTS
    Thread,     \* handler threads
    Topic, Value,
    None,
    Like,       \* Like[t]: the topics that "topic LIKE t" selects in SQLite, t itself among them
    Stamp,      \* timestamps that clients put into messages
    Frames,     \* the PUB and DEL messages that a frame may have
    Tables,     \* rows that the database may have when the server starts
    MaxFrames   \* bound: frames received over a whole behaviour

Stored == [topic : Topic, value : Value, created_at : Stamp]
Pub == [type : {"PUB"}, mode : {"RETAIN", "PERSIST", "APPEND"}, topic : Topic, value : Value, created_at : Stamp]
Del == [type : {"DEL"}, topic : Topic, value : Value \cup {None}]

SameKey(r, m) == r.topic = m.topic /\ r.value = m.value

(* reduce_msgs puts PUB before DEL and leaves one PUB of a topic and value; a *)
(* topic's publications are in any order, as '/@' may stand for their names. *)
FramesType ==
    /\ Frames \subseteq Seq(Pub \cup Del)
    /\ \A s \in Frames : \A i, j \in DOMAIN s : i < j /\ s[j].type = "PUB" =>
          s[i].type = "PUB" /\ ~SameKey(s[i], s[j])

(* A topic and value has one row. *)
TablesType ==
    Tables \subseteq SUBSET Stored /\ \A table \in Tables : \A r, s \in table : SameKey(r, s) => r = s

VARIABLES
    objects,  \* retained messages, in the order they were cached
    cache,    \* Broker.msgs: 0, or the index in objects of the retained message
    lock,     \* the handler that holds msgs_lock, or None
    rows,     \* committed rows of table topic
    writer,   \* the handler that has SQLite's write lock, or None
    work,     \* the rows as the writer sees them
    pc,
    frame,    \* frame[h]: what h received
    pos,      \* pos[h]: the message of it that h processes
    prev,     \* prev[h]: prev_msgs, or the rows that a DEL or a load found
    refs,     \* refs[h]: cached objects that h loaded and merges rows into
    hand,     \* hand[h]: the message, or the timestamp of an object, that h is about to write
    nframes,
    since     \* history: since[i] is the created_at with which the topic of object i became retained

vars == <<objects, cache, lock, rows, writer, work, pc, frame, pos, prev, refs, hand, nframes, since>>
database == <<rows, writer, work>>
memory == <<objects, cache, lock, since>>

Init ==
    /\ objects = <<>> /\ since = <<>>
    /\ cache = [t \in Topic |-> 0] /\ lock = None
    /\ rows \in Tables /\ writer = None /\ work = {}
    /\ pc = [h \in Thread |-> "idle"]
    /\ frame = [h \in Thread |-> <<>>] /\ pos = [h \in Thread |-> 1]
    /\ prev = [h \in Thread |-> {}] /\ refs = [h \in Thread |-> {}]
    /\ hand = [h \in Thread |-> None]
    /\ nframes = 0

-----------------------------------------------------------------------------
Goto(h, label) == pc' = [pc EXCEPT ![h] = label]

(* Where save_msgs goes on with message n of a frame. *)
Branch(s, n) ==
    IF n > Len(s) THEN "commit"
    ELSE IF s[n].type = "DEL" THEN "delcache"
    ELSE IF s[n].mode = "RETAIN" THEN "retain" ELSE "pop"

cur(h) == frame[h][pos[h]]

NextMessage(h) ==
    /\ pos' = [pos EXCEPT ![h] = pos[h] + 1]
    /\ Goto(h, Branch(frame[h], pos[h] + 1))
    /\ prev' = [prev EXCEPT ![h] = {}] /\ hand' = [hand EXCEPT ![h] = None]
    /\ UNCHANGED <<frame, refs, nframes>>

(* The frame is over; what the handler still refers to is garbage. *)
Finish(h) ==
    /\ Goto(h, "idle")
    /\ frame' = [frame EXCEPT ![h] = <<>>] /\ pos' = [pos EXCEPT ![h] = 1]
    /\ prev' = [prev EXCEPT ![h] = {}] /\ refs' = [refs EXCEPT ![h] = {}]
    /\ hand' = [hand EXCEPT ![h] = None]
    /\ UNCHANGED nframes

Receive(h, s) ==
    /\ pc[h] = "idle" /\ nframes < MaxFrames
    /\ nframes' = nframes + 1
    /\ frame' = [frame EXCEPT ![h] = s]
    /\ Goto(h, Branch(s, 1))
    /\ UNCHANGED <<memory, database, pos, prev, refs, hand>>

(* A statement sees what its own transaction has written; without one, what  *)
(* was committed last.                                                       *)
View(h) == IF writer = h THEN work ELSE rows

(* The first statement that writes begins the transaction. *)
Execute(h, table) ==
    /\ writer \in {None, h} /\ writer' = h
    /\ work' = table
    /\ UNCHANGED rows

Commit(h) ==
    /\ pc[h] = "commit"
    /\ rows' = View(h)
    /\ IF writer = h THEN writer' = None /\ work' = {} ELSE UNCHANGED <<writer, work>>
    /\ Finish(h)
    /\ UNCHANGED memory

(* SQLite fails, or the write lock is not to be had in time: the frame, and  *)
(* its handler, are over, and an open transaction is rolled back.  What was  *)
(* retained stays retained.                                                  *)
StoreFails(h) ==
    /\ pc[h] \in {"write", "delete", "commit"}
    /\ IF writer = h THEN writer' = None /\ work' = {} ELSE UNCHANGED <<writer, work>>
    /\ Finish(h)
    /\ UNCHANGED <<memory, rows>>

-----------------------------------------------------------------------------
(* Mutant of Retained: the message is cached as it came. *)
RetainedAsIs(m) == [topic |-> m.topic, value |-> m.value, created_at |-> m.created_at]

(* "set created_at from the cache, if present" *)
Retained(m) ==
    [topic |-> m.topic, value |-> m.value,
     created_at |-> IF cache[m.topic] = 0 THEN m.created_at ELSE objects[cache[m.topic]].created_at]

(* A publication with mode RETAIN, under msgs_lock: the cached message is    *)
(* read, then replaced.                                                      *)
RetainRead(h) ==
    /\ pc[h] = "retain" /\ lock = None
    /\ lock' = h
    /\ hand' = [hand EXCEPT ![h] = Retained(cur(h))]
    /\ Goto(h, "install")
    /\ UNCHANGED <<objects, cache, since, database, frame, pos, prev, refs, nframes>>

Install(h) ==
    /\ pc[h] = "install"
    /\ objects' = Append(objects, hand[h])
    /\ cache' = [cache EXCEPT ![cur(h).topic] = Len(objects) + 1]
    /\ since' = Append(since, IF cache[cur(h).topic] = 0 THEN hand[h].created_at ELSE since[cache[cur(h).topic]])
    /\ lock' = None
    /\ NextMessage(h)
    /\ UNCHANGED database

(* One with another mode empties the cache first. *)
Pop(h) ==
    /\ pc[h] = "pop" /\ lock = None
    /\ cache' = [cache EXCEPT ![cur(h).topic] = 0]
    /\ Goto(h, "read")
    /\ UNCHANGED <<objects, lock, since, database, frame, pos, prev, refs, hand, nframes>>

(* db.get(topic) runs before the transaction of the frame, or within it. *)
Read(h) ==
    /\ pc[h] = "read"
    /\ prev' = [prev EXCEPT ![h] = {r \in View(h) : r.topic \in Like[cur(h).topic]}]
    /\ Goto(h, "write")
    /\ UNCHANGED <<memory, database, frame, pos, refs, hand, nframes>>

OldestCreated(m, found) ==
    IF found = {} THEN m.created_at ELSE Min({r.created_at : r \in found})

(* created_at of the message that is given to db.store. *)
StoredCreated(m, found) ==
    IF m.mode = "PERSIST" THEN OldestCreated(m, found)
    ELSE LET same == {r \in found : r.value = m.value}
         IN  IF same = {} THEN m.created_at ELSE (CHOOSE r \in same : TRUE).created_at

(* delete_other *)
Others(table, m) == {r \in table : m.mode = "PERSIST" /\ r.topic = m.topic /\ r.value # m.value}

(* Mutant of Upsert: INSERT OR REPLACE. *)
Replace(table, r) == {x \in table : ~SameKey(x, r)} \cup {r}

(* INSERT ... ON CONFLICT (topic, value) DO UPDATE SET updated_at, mode. *)
Upsert(table, r) == IF \E x \in table : SameKey(x, r) THEN table ELSE table \cup {r}

Row(m, found) == [topic |-> m.topic, value |-> m.value, created_at |-> StoredCreated(m, found)]

Write(h) ==
    /\ pc[h] = "write"
    /\ Execute(h, Upsert(View(h) \ Others(View(h), cur(h)), Row(cur(h), prev[h])))
    /\ NextMessage(h)
    /\ UNCHANGED memory

-----------------------------------------------------------------------------
(* A DEL of one topic; a deletion of a value empties the cache as well. *)
DelCache(h) ==
    /\ pc[h] = "delcache" /\ lock = None
    /\ cache' = [cache EXCEPT ![cur(h).topic] = 0]
    /\ Goto(h, "scan")
    /\ UNCHANGED <<objects, lock, since, database, frame, pos, prev, refs, hand, nframes>>

Scan(h) ==
    /\ pc[h] = "scan"
    /\ prev' = [prev EXCEPT ![h] = {r \in View(h) : r.topic = cur(h).topic}]
    /\ Goto(h, "delete")
    /\ UNCHANGED <<memory, database, frame, pos, refs, hand, nframes>>

Delete(h) ==
    /\ pc[h] = "delete"
    /\ IF prev[h] = {} THEN UNCHANGED database
       ELSE Execute(h, {r \in View(h) : r.topic # cur(h).topic \/ cur(h).value \notin {None, r.value}})
    /\ NextMessage(h)
    /\ UNCHANGED memory

-----------------------------------------------------------------------------
(* A GET of every topic: load_msgs, then reduce_msgs in SendQueue.send. *)
Load(h) ==
    /\ pc[h] = "idle" /\ nframes < MaxFrames /\ lock = None
    /\ nframes' = nframes + 1
    /\ refs' = [refs EXCEPT ![h] = {cache[t] : t \in {t \in Topic : cache[t] # 0}}]
    /\ Goto(h, "rows")
    /\ UNCHANGED <<memory, database, frame, pos, prev, hand>>

(* Of two messages with one topic and value the cached one comes first in    *)
(* the list, so reduce_msgs merges the row into the cached object; one       *)
(* without such a row is sent as it is.                                      *)
LoadRows(h) ==
    /\ pc[h] = "rows"
    /\ prev' = [prev EXCEPT ![h] = rows]
    /\ refs' = [refs EXCEPT ![h] = {i \in @ : \E r \in rows : SameKey(r, objects[i])}]
    /\ Goto(h, "reply")
    /\ UNCHANGED <<memory, database, frame, pos, hand, nframes>>

Merged(m, found) == Min({m.created_at} \cup {r.created_at : r \in {r \in found : SameKey(r, m)}})

(* msg.created_at = min(msg.created_at, other.created_at), read and written  *)
(* without a lock.                                                           *)
MergeRead(h) ==
    /\ pc[h] = "reply"
    /\ \E i \in refs[h] : hand' = [hand EXCEPT ![h] = [object |-> i, created_at |-> Merged(objects[i], prev[h])]]
    /\ Goto(h, "merge")
    /\ UNCHANGED <<memory, database, frame, pos, prev, refs, nframes>>

MergeWrite(h) ==
    /\ pc[h] = "merge"
    /\ objects' = [objects EXCEPT ![hand[h].object].created_at = hand[h].created_at]
    /\ refs' = [refs EXCEPT ![h] = @ \ {hand[h].object}]
    /\ hand' = [hand EXCEPT ![h] = None]
    /\ Goto(h, "reply")
    /\ UNCHANGED <<cache, lock, since, database, frame, pos, prev, nframes>>

Reply(h) ==
    /\ pc[h] = "reply" /\ refs[h] = {}
    /\ Finish(h)
    /\ UNCHANGED <<memory, database>>

-----------------------------------------------------------------------------
Step(h) ==
    \/ \E s \in Frames : Receive(h, s)
    \/ RetainRead(h) \/ Install(h) \/ Pop(h) \/ Read(h) \/ Write(h)
    \/ DelCache(h) \/ Scan(h) \/ Delete(h) \/ Commit(h) \/ StoreFails(h)
    \/ Load(h) \/ LoadRows(h) \/ MergeRead(h) \/ MergeWrite(h) \/ Reply(h)

Next == \E h \in Thread : Step(h)

Spec == Init /\ [][Next]_vars

-----------------------------------------------------------------------------
(* As long as a topic is retained, its created_at is never later than the    *)
(* one it became retained with, although replies read and write the object   *)
(* while it is replaced and while other replies do.  It may go back to a     *)
(* time that is later than what a reply has just merged.                     *)
RetainedNoYounger ==
    \A t \in Topic : cache[t] # 0 => objects[cache[t]].created_at <= since[cache[t]]

(* A row keeps its created_at, and a topic and value has one row, whichever  *)
(* handlers store it at the same time, unless the frame that is committed    *)
(* replaced the rows of the topic by a PERSIST of another value.             *)
IsPersist(m, t) == m.type = "PUB" /\ m.mode = "PERSIST" /\ m.topic = t
Replaces(s, r) == \E i \in DOMAIN s : IsPersist(s[i], r.topic) /\ s[i].value # r.value

RowCreatedStable ==
    [][\A r \in rows, s \in rows' : SameKey(r, s) =>
          s.created_at = r.created_at \/ \E h \in Thread : writer = h /\ Replaces(frame[h], r)]_vars

Oldest(table, t) == Min({r.created_at : r \in {r \in table : r.topic = t}})

(* broker.py takes created_at of a PERSIST "from this topic's oldest         *)
(* timestamp": a topic that is stored before and after the commit of one     *)
(* does not look younger afterwards.                                         *)
PersistKeepsOldest ==
    [][\A h \in Thread, t \in Topic :
          /\ Commit(h) /\ \E i \in DOMAIN frame[h] : IsPersist(frame[h][i], t)
          /\ \E r \in rows : r.topic = t
          => Oldest(rows', t) <= Oldest(rows, t)]_vars
=============================================================================
