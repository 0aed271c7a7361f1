----------------------------- MODULE StoreProofs -----------------------------
(* Theorems about Store, for any handlers, topics, values, frames and        *)
(* tables: the creation times of rows and of retained messages.              *)
EXTENDS Store, WellFoundedInduction, TLAPS

(* Timestamps are milliseconds, and no thread is Python's None. *)
Constants == Stamp \subseteq Nat /\ None \notin Thread /\ FramesType /\ TablesType

PubLabels == {"retain", "install", "pop", "read", "write"}
DelLabels == {"delcache", "scan", "delete"}
LoadLabels == {"rows", "reply", "merge"}
Labels == PubLabels \cup DelLabels \cup LoadLabels \cup {"idle", "commit"}

Pending == [object : Nat, created_at : Stamp]

Types ==
    /\ objects \in Seq(Stored) /\ since \in Seq(Stamp) /\ Len(since) = Len(objects)
    /\ cache \in [Topic -> Nat] /\ \A t \in Topic : cache[t] <= Len(objects)
    /\ rows \subseteq Stored /\ work \subseteq Stored
    /\ lock \in Thread \cup {None} /\ writer \in Thread \cup {None}
    /\ pc \in [Thread -> Labels]
    /\ frame \in [Thread -> Frames \cup {<<>>}] /\ pos \in [Thread -> Nat \ {0}]
    /\ prev \in [Thread -> SUBSET Stored]
    /\ refs \in [Thread -> SUBSET Nat]
    /\ hand \in [Thread -> Stored \cup Pending \cup {None}]

(* What a handler is at work on, and what it has in its hand between a read  *)
(* and a write: the message it retains under the lock, or an object's time.  *)
Placed ==
    \A h \in Thread :
        /\ pc[h] \in PubLabels => pos[h] \in DOMAIN frame[h] /\ cur(h) \in Pub
        /\ pc[h] \in DelLabels => pos[h] \in DOMAIN frame[h] /\ cur(h) \in Del
        /\ pc[h] = "install" => lock = h /\ hand[h] \in Stored
        /\ pc[h] = "merge" => hand[h] \in Pending /\ hand[h].object \in 1..Len(objects)
        /\ refs[h] \subseteq 1..Len(objects)
        /\ writer = h => pc[h] \in PubLabels \cup DelLabels \cup {"commit"}
        /\ pc[h] \in LoadLabels \cup {"idle"} => pos[h] = 1

TypeInv == Types /\ Placed

-----------------------------------------------------------------------------
LEMMA MinType ==
    ASSUME NEW S \in SUBSET Nat, S # {}
    PROVE  Min(S) \in S /\ \A n \in S : Min(S) <= n
<1> DEFINE Less == OpToRel(<, Nat)
<1>1. PICK n \in S : \A m \in S : ~ (<<m, n>> \in Less)
  BY NatLessThanWellFounded, WFMin
<1>2. \A m \in S : ~ m < n
  BY <1>1 DEF OpToRel
<1>3. n \in S /\ \A m \in S : n <= m
  BY <1>2
<1> QED
  BY <1>3 DEF Min


(* What a message is stored with was the time of some message. *)
LEMMA RowType ==
    ASSUME Constants, NEW m \in Pub, NEW found \in SUBSET Stored
    PROVE  Row(m, found) \in Stored
<1>1. m.topic \in Topic /\ m.value \in Value /\ m.created_at \in Stamp
  BY DEF Pub
<1>2. \A r \in found : r.created_at \in Stamp
  BY DEF Stored
<1>3. ASSUME found # {} PROVE Min({r.created_at : r \in found}) \in Stamp
  <2>1. {r.created_at : r \in found} \subseteq Stamp /\ {r.created_at : r \in found} # {}
    BY <1>2, <1>3
  <2> QED
    BY <2>1, MinType DEF Constants
<1>4. OldestCreated(m, found) \in Stamp
  BY <1>1, <1>3 DEF OldestCreated
<1>5. StoredCreated(m, found) \in Stamp
  BY <1>1, <1>2, <1>4 DEF StoredCreated
<1> QED
  BY <1>1, <1>5 DEF Row, Stored

(* Merging with rows makes a cached message no younger. *)
LEMMA MergedType ==
    ASSUME Constants, NEW m \in Stored, NEW found \in SUBSET Stored
    PROVE  Merged(m, found) \in Stamp /\ Merged(m, found) <= m.created_at
<1> DEFINE times == {m.created_at} \cup {r.created_at : r \in {r \in found : SameKey(r, m)}}
<1>1. times \subseteq Stamp /\ m.created_at \in times
  BY DEF Stored
<1>2. times \in SUBSET Nat /\ times # {}
  BY <1>1 DEF Constants
<1>3. Min(times) \in times /\ \A n \in times : Min(times) <= n
  BY <1>2, MinType
<1>4. Merged(m, found) = Min(times)
  BY DEF Merged
<1> HIDE DEF times
<1> QED
  BY <1>1, <1>3, <1>4

(* Rows that Upsert leaves are those of the table, or the row, if the table  *)
(* has none with its key.                                                    *)
LEMMA UpsertRows ==
    ASSUME NEW table, NEW r
    PROVE  \A s \in Upsert(table, r) : s \in table \/ (s = r /\ \A x \in table : ~SameKey(x, r))
  BY DEF Upsert

(* A frame's next message decides where the handler goes on. *)
LEMMA BranchPlaces ==
    ASSUME Constants, NEW s \in Frames \cup {<<>>}, NEW n \in Nat \ {0}
    PROVE  /\ Branch(s, n) \in {"retain", "pop", "delcache", "commit"}
           /\ Branch(s, n) \in {"retain", "pop"} => n \in DOMAIN s /\ s[n] \in Pub
           /\ Branch(s, n) = "delcache" => n \in DOMAIN s /\ s[n] \in Del
<1>1. s \in Seq(Pub \cup Del)
  <2>1. Frames \subseteq Seq(Pub \cup Del)
    BY DEF Constants, FramesType
  <2>2. <<>> \in Seq(Pub \cup Del)
    OBVIOUS
  <2> QED
    BY <2>1, <2>2
<1>2. Len(s) \in Nat /\ DOMAIN s = 1..Len(s)
  BY <1>1
<1>3. CASE n > Len(s)
  BY <1>3 DEF Branch
<1>4. CASE n <= Len(s)
  <2>1. n \in DOMAIN s /\ s[n] \in Pub \cup Del
    BY <1>1, <1>2, <1>4
  <2>2. Branch(s, n) = IF s[n].type = "DEL" THEN "delcache" ELSE IF s[n].mode = "RETAIN" THEN "retain" ELSE "pop"
    BY <1>2, <1>4 DEF Branch
  <2>3. s[n].type = "DEL" <=> s[n] \in Del
    BY <2>1 DEF Pub, Del
  <2> QED
    BY <2>1, <2>2, <2>3
<1> QED
  BY <1>2, <1>3, <1>4

LEMMA EmptiedCache ==
    ASSUME Types, NEW x, cache' = [cache EXCEPT ![x] = 0]
    PROVE  cache' \in [Topic -> Nat] /\ \A t \in Topic : cache'[t] <= Len(objects)
<1>1. Len(objects) \in Nat
  BY DEF Types
<1>2. \A t \in Topic : cache'[t] = cache[t] \/ cache'[t] = 0
  BY DEF Types
<1>3. \A t \in Topic : cache[t] \in Nat /\ cache[t] <= Len(objects)
  BY DEF Types
<1>4. cache' \in [Topic -> Nat]
  BY DEF Types
<1> QED
  BY <1>1, <1>2, <1>3, <1>4

-----------------------------------------------------------------------------
(* A step of h changes nothing of what other handlers are at work on. *)
LEMMA NextMessageType ==
    ASSUME Constants, TypeInv, NEW h \in Thread, NextMessage(h),
           pc[h] \in PubLabels \cup DelLabels,
           \A g \in Thread \ {h} : pc[g] = "install" => lock' = lock,
           objects' \in Seq(Stored), Len(objects') >= Len(objects),
           \A g \in Thread : writer' = g => writer = g \/ g = h
    PROVE  /\ pc' \in [Thread -> Labels] /\ frame' \in [Thread -> Frames \cup {<<>>}]
           /\ pos' \in [Thread -> Nat \ {0}] /\ prev' \in [Thread -> SUBSET Stored]
           /\ refs' \in [Thread -> SUBSET Nat] /\ hand' \in [Thread -> Stored \cup Pending \cup {None}]
           /\ Placed'
<1>1. /\ frame[h] \in Frames \cup {<<>>} /\ pos[h] + 1 \in Nat \ {0}
      /\ frame' = frame /\ refs' = refs
      /\ pos' = [pos EXCEPT ![h] = pos[h] + 1]
      /\ pc' = [pc EXCEPT ![h] = Branch(frame[h], pos[h] + 1)]
      /\ hand' = [hand EXCEPT ![h] = None] /\ prev' = [prev EXCEPT ![h] = {}]
  BY DEF NextMessage, Goto, TypeInv, Types
<1>2. /\ Branch(frame[h], pos[h] + 1) \in {"retain", "pop", "delcache", "commit"}
      /\ Branch(frame[h], pos[h] + 1) \in {"retain", "pop"} =>
            pos[h] + 1 \in DOMAIN frame[h] /\ frame[h][pos[h] + 1] \in Pub
      /\ Branch(frame[h], pos[h] + 1) = "delcache" =>
            pos[h] + 1 \in DOMAIN frame[h] /\ frame[h][pos[h] + 1] \in Del
  BY <1>1, BranchPlaces
<1>3. /\ pc'[h] = Branch(frame[h], pos[h] + 1) /\ pos'[h] = pos[h] + 1
      /\ \A g \in Thread \ {h} : pc'[g] = pc[g] /\ pos'[g] = pos[g] /\ hand'[g] = hand[g]
  BY <1>1 DEF TypeInv, Types
<1>4. Len(objects) \in Nat /\ Len(objects') \in Nat
  BY DEF TypeInv, Types
<1>5. ASSUME NEW g \in Thread
      PROVE  /\ pc'[g] \in PubLabels => pos'[g] \in DOMAIN frame'[g] /\ cur(g)' \in Pub
             /\ pc'[g] \in DelLabels => pos'[g] \in DOMAIN frame'[g] /\ cur(g)' \in Del
             /\ pc'[g] = "install" => lock' = g /\ hand'[g] \in Stored
             /\ pc'[g] = "merge" => hand'[g] \in Pending /\ hand'[g].object \in 1..Len(objects')
             /\ refs'[g] \subseteq 1..Len(objects')
             /\ writer' = g => pc'[g] \in PubLabels \cup DelLabels \cup {"commit"}
             /\ pc'[g] \in LoadLabels \cup {"idle"} => pos'[g] = 1
  <2>1. refs'[g] \subseteq 1..Len(objects')
    BY <1>1, <1>4 DEF TypeInv, Placed
  <2>2. CASE g = h
    BY <1>1, <1>2, <1>3, <2>1, <2>2 DEF PubLabels, DelLabels, LoadLabels, cur
  <2>3. CASE g # h
    <3>1. pc'[g] = "merge" => hand'[g] \in Pending /\ hand'[g].object \in 1..Len(objects')
      BY <1>3, <1>4, <2>3 DEF TypeInv, Placed
    <3> QED
      BY <1>1, <1>3, <2>1, <2>3, <3>1 DEF TypeInv, Placed, cur
  <2> QED
    BY <2>2, <2>3
<1>6. Placed'
  BY <1>5 DEF Placed
<1> QED
  BY <1>1, <1>2, <1>6 DEF TypeInv, Types, Labels, PubLabels, DelLabels

LEMMA FinishType ==
    ASSUME Constants, TypeInv, NEW h \in Thread, Finish(h),
           pc[h] # "install", UNCHANGED <<objects, lock>>,
           \A g \in Thread : writer' = g => writer = g /\ g # h
    PROVE  /\ pc' \in [Thread -> Labels] /\ frame' \in [Thread -> Frames \cup {<<>>}]
           /\ pos' \in [Thread -> Nat \ {0}] /\ prev' \in [Thread -> SUBSET Stored]
           /\ refs' \in [Thread -> SUBSET Nat] /\ hand' \in [Thread -> Stored \cup Pending \cup {None}]
           /\ Placed'
<1>1. /\ pc' = [pc EXCEPT ![h] = "idle"] /\ frame' = [frame EXCEPT ![h] = <<>>]
      /\ pos' = [pos EXCEPT ![h] = 1] /\ prev' = [prev EXCEPT ![h] = {}]
      /\ refs' = [refs EXCEPT ![h] = {}] /\ hand' = [hand EXCEPT ![h] = None]
  BY DEF Finish, Goto
<1>2. /\ pc'[h] = "idle" /\ refs'[h] = {} /\ pos'[h] = 1
      /\ \A g \in Thread \ {h} : /\ pc'[g] = pc[g] /\ pos'[g] = pos[g] /\ hand'[g] = hand[g]
                                 /\ frame'[g] = frame[g] /\ refs'[g] = refs[g]
  BY <1>1 DEF TypeInv, Types
<1>3. Placed'
  BY <1>2 DEF TypeInv, Placed, PubLabels, DelLabels, cur
<1> QED
  BY <1>1, <1>3 DEF TypeInv, Types, Labels

(* A step of h to another label, with the same message. *)
LEMMA LabelType ==
    ASSUME Constants, TypeInv, NEW h \in Thread, NEW label \in Labels, Goto(h, label),
           UNCHANGED <<frame, pos, objects, writer>>,
           label \in PubLabels => pc[h] \in PubLabels,
           label \in DelLabels => pc[h] \in DelLabels,
           label \in LoadLabels \cup {"idle"} => pc[h] \in LoadLabels \cup {"idle"},
           label = "install" => lock' = h /\ hand'[h] \in Stored,
           label = "merge" => hand'[h] \in Pending /\ hand'[h].object \in 1..Len(objects),
           refs'[h] \subseteq 1..Len(objects),
           writer = h => label \in PubLabels \cup DelLabels,
           \A g \in Thread \ {h} : /\ pc[g] = "install" => lock' = lock
                                  /\ hand'[g] = hand[g] /\ refs'[g] = refs[g]
    PROVE  pc' \in [Thread -> Labels] /\ Placed'
<1>1. pc' = [pc EXCEPT ![h] = label]
  BY DEF Goto
<1>2. pc'[h] = label /\ \A g \in Thread \ {h} : pc'[g] = pc[g]
  BY <1>1 DEF TypeInv, Types
<1>3. pc' \in [Thread -> Labels]
  BY <1>1 DEF TypeInv, Types
<1>4. ASSUME NEW g \in Thread
      PROVE  /\ pc'[g] \in PubLabels => pos'[g] \in DOMAIN frame'[g] /\ cur(g)' \in Pub
             /\ pc'[g] \in DelLabels => pos'[g] \in DOMAIN frame'[g] /\ cur(g)' \in Del
             /\ pc'[g] = "install" => lock' = g /\ hand'[g] \in Stored
             /\ pc'[g] = "merge" => hand'[g] \in Pending /\ hand'[g].object \in 1..Len(objects')
             /\ refs'[g] \subseteq 1..Len(objects')
             /\ writer' = g => pc'[g] \in PubLabels \cup DelLabels \cup {"commit"}
             /\ pc'[g] \in LoadLabels \cup {"idle"} => pos'[g] = 1
  <2>1. CASE g = h
    BY <1>2, <2>1 DEF TypeInv, Placed, cur
  <2>2. CASE g # h
    BY <1>2, <2>2 DEF TypeInv, Placed, cur
  <2> QED
    BY <2>1, <2>2
<1> QED
  BY <1>3, <1>4 DEF Placed

LEMMA WriteType ==
    ASSUME Constants, TypeInv, NEW h \in Thread, Write(h)
    PROVE  work' \subseteq Stored
<1>1. cur(h) \in Pub /\ View(h) \subseteq Stored /\ prev[h] \subseteq Stored
  BY DEF Write, TypeInv, Types, Placed, View, PubLabels
<1>2. Row(cur(h), prev[h]) \in Stored
  BY <1>1, RowType
<1>3. work' = Upsert(View(h) \ Others(View(h), cur(h)), Row(cur(h), prev[h]))
  BY DEF Write, Execute
<1> QED
  BY <1>1, <1>2, <1>3, UpsertRows

LEMMA InstallType ==
    ASSUME Constants, TypeInv, NEW h \in Thread, Install(h)
    PROVE  /\ objects' \in Seq(Stored) /\ since' \in Seq(Stamp)
           /\ Len(objects') = Len(objects) + 1 /\ Len(since') = Len(objects')
           /\ cache' \in [Topic -> Nat] /\ \A t \in Topic : cache'[t] <= Len(objects')
<1>1. hand[h] \in Stored /\ cur(h) \in Pub
  BY DEF Install, TypeInv, Placed, PubLabels
<1>2. Len(objects) \in Nat /\ objects \in Seq(Stored) /\ since \in Seq(Stamp) /\ Len(since) = Len(objects)
  BY DEF TypeInv, Types
<1>3. cur(h).topic \in Topic
  BY <1>1 DEF Pub
<1>4. hand[h].created_at \in Stamp
  BY <1>1 DEF Stored
<1>5. ASSUME cache[cur(h).topic] # 0 PROVE since[cache[cur(h).topic]] \in Stamp
  <2>1. cache[cur(h).topic] \in 1..Len(since)
    BY <1>2, <1>3, <1>5 DEF TypeInv, Types
  <2> QED
    BY <1>2, <2>1
<1>6. PICK age \in Stamp : since' = Append(since, age)
  BY <1>4, <1>5 DEF Install
<1>7. since' \in Seq(Stamp) /\ Len(since') = Len(objects) + 1
  BY <1>2, <1>6
<1>8. objects' \in Seq(Stored) /\ Len(objects') = Len(objects) + 1
  BY <1>1, <1>2 DEF Install
<1>9. cache' = [cache EXCEPT ![cur(h).topic] = Len(objects) + 1]
  BY DEF Install
<1>10. \A t \in Topic : cache'[t] = cache[t] \/ cache'[t] = Len(objects) + 1
  BY <1>9 DEF TypeInv, Types
<1>11. \A t \in Topic : cache[t] \in Nat /\ cache[t] <= Len(objects)
  BY DEF TypeInv, Types
<1>12. cache' \in [Topic -> Nat]
  <2>1. cache \in [Topic -> Nat] /\ Len(objects) + 1 \in Nat
    BY <1>2 DEF TypeInv, Types
  <2> QED
    BY <1>9, <2>1
<1> QED
  BY <1>2, <1>7, <1>8, <1>10, <1>11, <1>12

LEMMA RetainReadType ==
    ASSUME Constants, TypeInv, NEW h \in Thread, RetainRead(h)
    PROVE  Retained(cur(h)) \in Stored
<1>1. cur(h) \in Pub
  BY DEF RetainRead, TypeInv, Placed, PubLabels
<1>2. cur(h).topic \in Topic /\ cur(h).value \in Value /\ cur(h).created_at \in Stamp
  BY <1>1 DEF Pub
<1>3. ASSUME cache[cur(h).topic] # 0 PROVE objects[cache[cur(h).topic]].created_at \in Stamp
  <2>1. cache[cur(h).topic] \in 1..Len(objects)
    BY <1>2, <1>3 DEF TypeInv, Types
  <2>2. objects[cache[cur(h).topic]] \in Stored
    BY <2>1 DEF TypeInv, Types
  <2> QED
    BY <2>2 DEF Stored
<1> QED
  BY <1>2, <1>3 DEF Retained, Stored

LEMMA MergeReadType ==
    ASSUME Constants, TypeInv, NEW h \in Thread, MergeRead(h)
    PROVE  \E i \in 1..Len(objects) :
              LET c == Merged(objects[i], prev[h])
              IN  /\ hand' = [hand EXCEPT ![h] = [object |-> i, created_at |-> c]]
                  /\ c \in Stamp /\ c <= objects[i].created_at
<1>1. PICK i \in refs[h] : hand' = [hand EXCEPT ![h] = [object |-> i, created_at |-> Merged(objects[i], prev[h])]]
  BY DEF MergeRead
<1>2. i \in 1..Len(objects)
  BY DEF TypeInv, Placed
<1>3. objects[i] \in Stored /\ prev[h] \subseteq Stored
  BY <1>2 DEF TypeInv, Types
<1>4. Merged(objects[i], prev[h]) \in Stamp /\ Merged(objects[i], prev[h]) <= objects[i].created_at
  BY <1>3, MergedType
<1> QED
  BY <1>1, <1>2, <1>4

LEMMA MergeWriteType ==
    ASSUME Constants, TypeInv, NEW h \in Thread, MergeWrite(h)
    PROVE  /\ objects' \in Seq(Stored) /\ Len(objects') = Len(objects)
           /\ hand[h].object \in 1..Len(objects) /\ hand[h].created_at \in Stamp
           /\ \A i \in 1..Len(objects) :
                 objects'[i].created_at = IF i = hand[h].object THEN hand[h].created_at ELSE objects[i].created_at
<1> DEFINE i == hand[h].object
           c == hand[h].created_at
<1>1. i \in 1..Len(objects) /\ c \in Stamp
  BY DEF MergeWrite, TypeInv, Placed, Pending
<1>2. objects' = [objects EXCEPT ![i].created_at = c]
  BY DEF MergeWrite
<1> HIDE DEF i, c
<1>3. objects[i] \in Stored /\ [objects[i] EXCEPT !.created_at = c] \in Stored
  <2>1. objects[i] \in Stored
    BY <1>1 DEF TypeInv, Types
  <2> QED
    BY <1>1, <2>1 DEF Stored
<1>4. [objects[i] EXCEPT !.created_at = c].created_at = c
  BY <1>3 DEF Stored
<1>5. objects' = [objects EXCEPT ![i] = [objects[i] EXCEPT !.created_at = c]]
  BY <1>2
<1>6. PICK o \in Stored : o.created_at = c /\ objects' = [objects EXCEPT ![i] = o]
  BY <1>3, <1>4, <1>5
<1>7. objects \in Seq(Stored)
  BY DEF TypeInv, Types
<1>8. objects' \in Seq(Stored) /\ Len(objects') = Len(objects)
  BY <1>1, <1>6, <1>7
<1>9. \A n \in 1..Len(objects) : objects'[n] = IF n = i THEN o ELSE objects[n]
  BY <1>1, <1>6, <1>7
<1> QED
  BY <1>1, <1>6, <1>8, <1>9 DEF i, c

LEMMA TypeNext ==
    ASSUME Constants, TypeInv, NEW h \in Thread, Step(h)
    PROVE  TypeInv'
<1> USE DEF PubLabels, DelLabels, LoadLabels, Labels
<1>1. ASSUME NEW s \in Frames, Receive(h, s) PROVE TypeInv'
  <2>1. /\ pc[h] = "idle" /\ writer # h /\ pos[h] = 1
        /\ frame' = [frame EXCEPT ![h] = s] /\ pc' = [pc EXCEPT ![h] = Branch(s, 1)]
        /\ UNCHANGED <<memory, database, pos, prev, refs, hand>>
    BY <1>1 DEF Receive, Goto, TypeInv, Placed
  <2>2. /\ Branch(s, 1) \in {"retain", "pop", "delcache", "commit"}
        /\ Branch(s, 1) \in {"retain", "pop"} => 1 \in DOMAIN s /\ s[1] \in Pub
        /\ Branch(s, 1) = "delcache" => 1 \in DOMAIN s /\ s[1] \in Del
    BY BranchPlaces
  <2>3. /\ pc'[h] = Branch(s, 1) /\ frame'[h] = s
        /\ \A g \in Thread \ {h} : pc'[g] = pc[g] /\ frame'[g] = frame[g]
    BY <2>1 DEF TypeInv, Types
  <2>4. Types'
    BY <2>1, <2>2 DEF TypeInv, Types, memory, database
  <2>5. ASSUME NEW g \in Thread
        PROVE  /\ pc'[g] \in PubLabels => pos'[g] \in DOMAIN frame'[g] /\ cur(g)' \in Pub
               /\ pc'[g] \in DelLabels => pos'[g] \in DOMAIN frame'[g] /\ cur(g)' \in Del
               /\ pc'[g] = "install" => lock' = g /\ hand'[g] \in Stored
               /\ pc'[g] = "merge" => hand'[g] \in Pending /\ hand'[g].object \in 1..Len(objects')
               /\ refs'[g] \subseteq 1..Len(objects')
               /\ writer' = g => pc'[g] \in PubLabels \cup DelLabels \cup {"commit"}
               /\ pc'[g] \in LoadLabels \cup {"idle"} => pos'[g] = 1
    <3>1. CASE g = h
      BY <2>1, <2>2, <2>3, <3>1 DEF TypeInv, Placed, memory, database, cur
    <3>2. CASE g # h
      BY <2>1, <2>3, <3>2 DEF TypeInv, Placed, memory, database, cur
    <3> QED
      BY <3>1, <3>2
  <2> QED
    BY <2>4, <2>5 DEF TypeInv, Placed
<1>2. CASE RetainRead(h)
  <2>1. Retained(cur(h)) \in Stored
    BY <1>2, RetainReadType
  <2>2. /\ lock' = h /\ lock = None /\ pc[h] = "retain" /\ Goto(h, "install")
        /\ hand' = [hand EXCEPT ![h] = Retained(cur(h))]
        /\ UNCHANGED <<objects, cache, since, database, frame, pos, prev, refs>>
    BY <1>2 DEF RetainRead
  <2>3. \A g \in Thread \ {h} : pc[g] # "install" /\ hand'[g] = hand[g]
    BY <2>2 DEF TypeInv, Types, Placed, Constants
  <2>4. hand'[h] \in Stored /\ hand' \in [Thread -> Stored \cup Pending \cup {None}]
    BY <2>1, <2>2 DEF TypeInv, Types
  <2>5. pc' \in [Thread -> Labels] /\ Placed'
    BY <2>2, <2>3, <2>4, LabelType DEF database, TypeInv, Placed
  <2> QED
    BY <2>2, <2>4, <2>5 DEF TypeInv, Types, database
<1>3. CASE Install(h)
  <2>1. /\ objects' \in Seq(Stored) /\ since' \in Seq(Stamp)
        /\ Len(objects') = Len(objects) + 1 /\ Len(since') = Len(objects')
        /\ cache' \in [Topic -> Nat] /\ \A t \in Topic : cache'[t] <= Len(objects')
    BY <1>3, InstallType
  <2>2. pc[h] = "install" /\ lock = h /\ lock' = None /\ NextMessage(h) /\ UNCHANGED database
    BY <1>3 DEF Install, TypeInv, Placed
  <2>3. \A g \in Thread \ {h} : pc[g] # "install"
    BY <2>2 DEF TypeInv, Placed
  <2>4. Len(objects') >= Len(objects)
    BY <2>1 DEF TypeInv, Types
  <2>5. /\ pc' \in [Thread -> Labels] /\ frame' \in [Thread -> Frames \cup {<<>>}]
        /\ pos' \in [Thread -> Nat \ {0}] /\ prev' \in [Thread -> SUBSET Stored]
        /\ refs' \in [Thread -> SUBSET Nat] /\ hand' \in [Thread -> Stored \cup Pending \cup {None}]
        /\ Placed'
    BY <2>1, <2>2, <2>3, <2>4, NextMessageType DEF database
  <2> QED
    BY <2>1, <2>2, <2>5 DEF TypeInv, Types, database
<1>4. CASE Pop(h)
  <2>1. cache' \in [Topic -> Nat] /\ \A t \in Topic : cache'[t] <= Len(objects)
    BY <1>4, EmptiedCache DEF Pop, TypeInv
  <2>2. /\ pc[h] = "pop" /\ Goto(h, "read")
        /\ UNCHANGED <<objects, lock, since, database, frame, pos, prev, refs, hand>>
    BY <1>4 DEF Pop
  <2>3. refs[h] \subseteq 1..Len(objects)
    BY DEF TypeInv, Placed
  <2>4. pc' \in [Thread -> Labels] /\ Placed'
    BY <2>2, <2>3, LabelType DEF database
  <2> QED
    BY <2>1, <2>2, <2>4 DEF TypeInv, Types, database
<1>5. CASE Read(h)
  <2>1. /\ pc[h] = "read" /\ Goto(h, "write") /\ UNCHANGED <<memory, database, frame, pos, refs, hand>>
        /\ \E found \in SUBSET View(h) : prev' = [prev EXCEPT ![h] = found]
    BY <1>5 DEF Read
  <2>2. refs[h] \subseteq 1..Len(objects)
    BY DEF TypeInv, Placed
  <2>3. pc' \in [Thread -> Labels] /\ Placed'
    BY <2>1, <2>2, LabelType DEF memory, database
  <2>4. prev' \in [Thread -> SUBSET Stored]
    <3>1. View(h) \subseteq Stored
      BY DEF View, TypeInv, Types
    <3> QED
      BY <2>1, <3>1 DEF TypeInv, Types
  <2> QED
    BY <2>1, <2>3, <2>4 DEF TypeInv, Types, memory, database
<1>12. CASE DelCache(h)
  <2>1. cache' \in [Topic -> Nat] /\ \A t \in Topic : cache'[t] <= Len(objects)
    BY <1>12, EmptiedCache DEF DelCache, TypeInv
  <2>2. /\ pc[h] = "delcache" /\ Goto(h, "scan")
        /\ UNCHANGED <<objects, lock, since, database, frame, pos, prev, refs, hand>>
    BY <1>12 DEF DelCache
  <2>3. refs[h] \subseteq 1..Len(objects)
    BY DEF TypeInv, Placed
  <2>4. pc' \in [Thread -> Labels] /\ Placed'
    BY <2>2, <2>3, LabelType DEF database
  <2> QED
    BY <2>1, <2>2, <2>4 DEF TypeInv, Types, database
<1>13. CASE Scan(h)
  <2>1. /\ pc[h] = "scan" /\ Goto(h, "delete") /\ UNCHANGED <<memory, database, frame, pos, refs, hand>>
        /\ \E found \in SUBSET View(h) : prev' = [prev EXCEPT ![h] = found]
    BY <1>13 DEF Scan
  <2>2. refs[h] \subseteq 1..Len(objects)
    BY DEF TypeInv, Placed
  <2>3. pc' \in [Thread -> Labels] /\ Placed'
    BY <2>1, <2>2, LabelType DEF memory, database
  <2>4. prev' \in [Thread -> SUBSET Stored]
    <3>1. View(h) \subseteq Stored
      BY DEF View, TypeInv, Types
    <3> QED
      BY <2>1, <3>1 DEF TypeInv, Types
  <2> QED
    BY <2>1, <2>3, <2>4 DEF TypeInv, Types, memory, database
<1>6. CASE Write(h) \/ Delete(h)
  <2>1. work' \subseteq Stored
    <3>1. View(h) \subseteq Stored /\ work \subseteq Stored
      BY DEF View, TypeInv, Types
    <3>2. CASE Delete(h)
      BY <3>1, <3>2 DEF Delete, Execute, database
    <3> QED
      BY <1>6, <3>2, WriteType
  <2>2. /\ NextMessage(h) /\ UNCHANGED <<memory, rows>> /\ writer' \in {writer, h}
        /\ pc[h] \in PubLabels \cup DelLabels
    BY <1>6 DEF Write, Delete, Execute, database
  <2>3. Len(objects') >= Len(objects) /\ objects' \in Seq(Stored)
    BY <2>2 DEF TypeInv, Types, memory
  <2>4. /\ pc' \in [Thread -> Labels] /\ frame' \in [Thread -> Frames \cup {<<>>}]
        /\ pos' \in [Thread -> Nat \ {0}] /\ prev' \in [Thread -> SUBSET Stored]
        /\ refs' \in [Thread -> SUBSET Nat] /\ hand' \in [Thread -> Stored \cup Pending \cup {None}]
        /\ Placed'
    BY <2>2, <2>3, NextMessageType DEF memory
  <2> QED
    BY <2>1, <2>2, <2>4 DEF TypeInv, Types, memory
<1>7. CASE Commit(h) \/ StoreFails(h) \/ Reply(h)
  <2>1. /\ Finish(h) /\ UNCHANGED memory /\ pc[h] # "install"
        /\ work' \in {work, {}} /\ rows' \in {rows, work}
        /\ writer' = writer \/ writer' = None
    BY <1>7 DEF Commit, StoreFails, Reply, View, database
  <2>2. writer' # h
    BY <1>7 DEF Commit, StoreFails, Reply, View, database, TypeInv, Types, Placed, Constants
  <2>3. /\ pc' \in [Thread -> Labels] /\ frame' \in [Thread -> Frames \cup {<<>>}]
        /\ pos' \in [Thread -> Nat \ {0}] /\ prev' \in [Thread -> SUBSET Stored]
        /\ refs' \in [Thread -> SUBSET Nat] /\ hand' \in [Thread -> Stored \cup Pending \cup {None}]
        /\ Placed'
    BY <2>1, <2>2, FinishType DEF memory, Constants
  <2> QED
    BY <2>1, <2>3 DEF TypeInv, Types, memory
<1>8. CASE Load(h)
  <2>1. /\ pc[h] = "idle" /\ Goto(h, "rows") /\ UNCHANGED <<memory, database, frame, pos, prev, hand>>
        /\ refs' = [refs EXCEPT ![h] = {cache[t] : t \in {t \in Topic : cache[t] # 0}}]
    BY <1>8 DEF Load
  <2>2. {cache[t] : t \in {t \in Topic : cache[t] # 0}} \subseteq 1..Len(objects)
    BY DEF TypeInv, Types
  <2>3. /\ refs' \in [Thread -> SUBSET Nat] /\ refs'[h] \subseteq 1..Len(objects)
        /\ \A g \in Thread \ {h} : refs'[g] = refs[g]
    BY <2>1, <2>2 DEF TypeInv, Types
  <2>4. writer # h
    BY <2>1 DEF TypeInv, Placed
  <2>5. pc' \in [Thread -> Labels] /\ Placed'
    BY <2>1, <2>3, <2>4, LabelType DEF memory, database
  <2> QED
    BY <2>1, <2>3, <2>5 DEF TypeInv, Types, memory, database
<1>9. CASE LoadRows(h)
  <2>1. /\ pc[h] = "rows" /\ Goto(h, "reply") /\ UNCHANGED <<memory, database, frame, pos, hand>>
        /\ prev' = [prev EXCEPT ![h] = rows]
        /\ refs' = [refs EXCEPT ![h] = {i \in refs[h] : \E r \in rows : SameKey(r, objects[i])}]
    BY <1>9 DEF LoadRows
  <2>2. refs[h] \subseteq 1..Len(objects) /\ writer # h
    BY <2>1 DEF TypeInv, Placed
  <2>3. /\ refs' \in [Thread -> SUBSET Nat] /\ refs'[h] \subseteq 1..Len(objects)
        /\ \A g \in Thread \ {h} : refs'[g] = refs[g]
    BY <2>1, <2>2 DEF TypeInv, Types
  <2>4. pc' \in [Thread -> Labels] /\ Placed'
    BY <2>1, <2>2, <2>3, LabelType DEF memory, database
  <2>5. prev' \in [Thread -> SUBSET Stored]
    BY <2>1 DEF TypeInv, Types
  <2> QED
    BY <2>1, <2>3, <2>4, <2>5 DEF TypeInv, Types, memory, database
<1>10. CASE MergeRead(h)
  <2>1. PICK i \in 1..Len(objects), c \in Stamp :
            hand' = [hand EXCEPT ![h] = [object |-> i, created_at |-> c]]
    BY <1>10, MergeReadType
  <2>2. pc[h] = "reply" /\ Goto(h, "merge") /\ UNCHANGED <<memory, database, frame, pos, prev, refs>>
    BY <1>10 DEF MergeRead
  <2>3. [object |-> i, created_at |-> c] \in Pending
    BY DEF Pending
  <2>4. /\ hand'[h] = [object |-> i, created_at |-> c]
        /\ hand' \in [Thread -> Stored \cup Pending \cup {None}]
        /\ \A g \in Thread \ {h} : hand'[g] = hand[g]
    BY <2>1, <2>3 DEF TypeInv, Types
  <2>5. hand'[h] \in Pending /\ hand'[h].object \in 1..Len(objects) /\ writer # h /\ refs[h] \subseteq 1..Len(objects)
    BY <2>2, <2>3, <2>4 DEF TypeInv, Placed
  <2>6. pc' \in [Thread -> Labels] /\ Placed'
    BY <2>2, <2>4, <2>5, LabelType DEF memory, database
  <2> QED
    BY <2>2, <2>4, <2>6 DEF TypeInv, Types, memory, database
<1>11. CASE MergeWrite(h)
  <2>1. objects' \in Seq(Stored) /\ Len(objects') = Len(objects)
    BY <1>11, MergeWriteType
  <2>2. /\ pc[h] = "merge" /\ pc' = [pc EXCEPT ![h] = "reply"]
        /\ UNCHANGED <<cache, lock, since, database, frame, pos, prev>>
        /\ refs' = [refs EXCEPT ![h] = refs[h] \ {hand[h].object}]
        /\ hand' = [hand EXCEPT ![h] = None]
    BY <1>11 DEF MergeWrite, Goto
  <2>3. /\ pc'[h] = "reply" /\ refs'[h] \subseteq refs[h]
        /\ \A g \in Thread \ {h} : pc'[g] = pc[g] /\ refs'[g] = refs[g] /\ hand'[g] = hand[g]
    BY <2>2 DEF TypeInv, Types
  <2>4. Types'
    <3>1. refs' \in [Thread -> SUBSET Nat] /\ hand' \in [Thread -> Stored \cup Pending \cup {None}]
      BY <2>2 DEF TypeInv, Types
    <3> QED
      BY <2>1, <2>2, <3>1 DEF TypeInv, Types, database
  <2>5. Placed'
    BY <2>1, <2>2, <2>3 DEF TypeInv, Placed, database, cur
  <2> QED
    BY <2>4, <2>5 DEF TypeInv
<1> QED
  BY <1>1, <1>2, <1>3, <1>4, <1>5, <1>6, <1>7, <1>8, <1>9, <1>10, <1>11, <1>12, <1>13 DEF Step

(* Threads, cache and rows keep their types. *)
THEOREM TypeCorrect == Constants => (Spec => []TypeInv)
<1> SUFFICES ASSUME Constants PROVE Spec => []TypeInv
  OBVIOUS
<1>1. Init => TypeInv
  BY DEF Init, TypeInv, Types, Placed, Labels, PubLabels, DelLabels, LoadLabels, Constants, TablesType
<1>2. TypeInv /\ [Next]_vars => TypeInv'
  <2> SUFFICES ASSUME TypeInv, [Next]_vars PROVE TypeInv'
    OBVIOUS
  <2>1. CASE Next
    BY <2>1, TypeNext DEF Next
  <2>2. CASE UNCHANGED vars
    BY <2>2 DEF vars, TypeInv, Types, Placed, cur
  <2> QED
    BY <2>1, <2>2
<1> QED
  BY <1>1, <1>2, PTL DEF Spec

-----------------------------------------------------------------------------
(* Retained messages.  No object is younger than its topic was when it       *)
(* became retained, and nothing that a handler is about to write is: neither *)
(* what it has read under the lock nor what it has read without.             *)
Ages ==
    /\ \A i \in 1..Len(objects) : objects[i].created_at <= since[i]
    /\ \A h \in Thread :
          /\ pc[h] = "install" /\ cache[cur(h).topic] # 0 =>
                hand[h].created_at <= since[cache[cur(h).topic]]
          /\ pc[h] = "merge" => hand[h].created_at <= since[hand[h].object]

LEMMA SinceType ==
    ASSUME Constants, Types, NEW i \in 1..Len(objects)
    PROVE  since[i] \in Nat /\ objects[i].created_at \in Nat
<1>1. since[i] \in Stamp /\ objects[i] \in Stored
  BY DEF Types
<1> QED
  BY <1>1 DEF Stored, Constants

LEMMA InstallAges ==
    ASSUME Constants, TypeInv, Ages, NEW h \in Thread, Install(h)
    PROVE  Ages'
<1> DEFINE t == cur(h).topic
           n == Len(objects)
           age == IF cache[t] = 0 THEN hand[h].created_at ELSE since[cache[t]]
<1>1. /\ pc[h] = "install" /\ lock = h /\ hand[h] \in Stored /\ t \in Topic /\ n \in Nat
      /\ objects \in Seq(Stored) /\ since \in Seq(Stamp) /\ Len(since) = n
  BY DEF Install, TypeInv, Types, Placed, PubLabels, Pub
<1>2. hand[h].created_at \in Stamp /\ hand[h].created_at \in Nat
  BY <1>1 DEF Stored, Constants
<1>3. age \in Stamp /\ hand[h].created_at <= age
  <2>1. CASE cache[t] = 0
    BY <1>2, <2>1
  <2>2. CASE cache[t] # 0
    <3>1. cache[t] \in 1..Len(objects)
      BY <1>1, <2>2 DEF TypeInv, Types
    <3>2. since[cache[t]] \in Stamp
      BY <1>1, <3>1
    <3> QED
      BY <1>1, <2>2, <3>2 DEF Ages
  <2> QED
    BY <2>1, <2>2
<1>4. objects' = Append(objects, hand[h]) /\ since' = Append(since, age)
  BY DEF Install
<1> HIDE DEF age
<1>5. /\ Len(objects') = n + 1 /\ objects'[n + 1] = hand[h] /\ since'[n + 1] = age
      /\ \A i \in 1..n : objects'[i] = objects[i] /\ since'[i] = since[i]
  BY <1>1, <1>3, <1>4
<1>6. \A i \in 1..Len(objects') : objects'[i].created_at <= since'[i]
  <2>1. \A i \in 1..(n + 1) : i \in 1..n \/ i = n + 1
    BY <1>1
  <2> QED
    BY <1>3, <1>5, <2>1 DEF Ages
<1>7. ASSUME NEW g \in Thread
      PROVE  pc'[g] \notin {"install", "merge"} \/ (g # h /\ pc[g] = "merge" /\ pc'[g] = "merge" /\ hand'[g] = hand[g])
  <2>1. pc' = [pc EXCEPT ![h] = Branch(frame[h], pos[h] + 1)] /\ hand' = [hand EXCEPT ![h] = None]
    BY DEF Install, NextMessage, Goto
  <2>2. Branch(frame[h], pos[h] + 1) \notin {"install", "merge"}
    BY DEF Branch
  <2>3. g # h => pc[g] # "install"
    BY <1>1 DEF TypeInv, Placed
  <2> QED
    BY <2>1, <2>2, <2>3 DEF TypeInv, Types
<1>8. ASSUME NEW g \in Thread, pc'[g] = "merge"
      PROVE  hand'[g].created_at <= since'[hand'[g].object]
  <2>1. pc[g] = "merge" /\ hand'[g] = hand[g]
    BY <1>7, <1>8
  <2>2. hand[g].object \in 1..n
    BY <2>1 DEF TypeInv, Placed
  <2> QED
    BY <1>5, <2>1, <2>2 DEF Ages
<1> QED
  BY <1>6, <1>7, <1>8 DEF Ages

LEMMA AgesNext ==
    ASSUME Constants, TypeInv, Ages, NEW h \in Thread, Step(h)
    PROVE  Ages'
<1>1. CASE RetainRead(h)
  <2> DEFINE t == cur(h).topic
  <2>1. /\ pc[h] = "retain" /\ lock = None /\ pc' = [pc EXCEPT ![h] = "install"]
        /\ hand' = [hand EXCEPT ![h] = Retained(cur(h))]
        /\ UNCHANGED <<objects, cache, since, frame, pos>>
    BY <1>1 DEF RetainRead, Goto
  <2>2. /\ hand'[h] = Retained(cur(h)) /\ pc'[h] = "install"
        /\ \A g \in Thread \ {h} : pc'[g] = pc[g] /\ hand'[g] = hand[g]
    BY <2>1 DEF TypeInv, Types
  <2>3. cache[t] # 0 => hand'[h].created_at <= since[cache[t]]
    <3>1. ASSUME cache[t] # 0 PROVE hand'[h].created_at = objects[cache[t]].created_at
      BY <2>2, <3>1 DEF Retained
    <3>2. t \in Topic
      BY <2>1 DEF TypeInv, Placed, PubLabels, Pub
    <3>3. ASSUME cache[t] # 0 PROVE cache[t] \in 1..Len(objects)
      BY <3>2, <3>3 DEF TypeInv, Types
    <3> QED
      BY <3>1, <3>3 DEF Ages
  <2> QED
    BY <2>1, <2>2, <2>3 DEF Ages, cur
<1>2. CASE Install(h)
  BY <1>2, InstallAges
<1>3. CASE MergeRead(h)
  <2>1. PICK i \in 1..Len(objects), c \in Stamp :
            /\ hand' = [hand EXCEPT ![h] = [object |-> i, created_at |-> c]]
            /\ c <= objects[i].created_at
    BY <1>3, MergeReadType
  <2>2. pc' = [pc EXCEPT ![h] = "merge"] /\ UNCHANGED <<objects, cache, since, frame, pos>>
    BY <1>3 DEF MergeRead, Goto, memory
  <2>3. /\ hand'[h].object = i /\ hand'[h].created_at = c /\ pc'[h] = "merge"
        /\ \A g \in Thread \ {h} : pc'[g] = pc[g] /\ hand'[g] = hand[g]
    BY <2>1, <2>2 DEF TypeInv, Types
  <2>4. c <= since[i]
    <3>1. since[i] \in Nat /\ objects[i].created_at \in Nat /\ c \in Nat
      BY SinceType DEF TypeInv, Constants
    <3>2. objects[i].created_at <= since[i]
      BY DEF Ages
    <3> QED
      BY <2>1, <3>1, <3>2
  <2> QED
    BY <2>2, <2>3, <2>4 DEF Ages, cur
<1>4. CASE MergeWrite(h)
  <2>1. /\ Len(objects') = Len(objects) /\ hand[h].object \in 1..Len(objects)
        /\ \A i \in 1..Len(objects) :
              objects'[i].created_at = IF i = hand[h].object THEN hand[h].created_at ELSE objects[i].created_at
    BY <1>4, MergeWriteType
  <2>2. /\ pc[h] = "merge" /\ pc' = [pc EXCEPT ![h] = "reply"] /\ hand' = [hand EXCEPT ![h] = None]
        /\ UNCHANGED <<cache, since, frame, pos>>
    BY <1>4 DEF MergeWrite, Goto, database
  <2>3. pc'[h] = "reply" /\ \A g \in Thread \ {h} : pc'[g] = pc[g] /\ hand'[g] = hand[g]
    BY <2>2 DEF TypeInv, Types
  <2>4. hand[h].created_at <= since[hand[h].object]
    BY <2>2 DEF Ages
  <2> QED
    BY <2>1, <2>2, <2>3, <2>4 DEF Ages, cur
<1>5. ASSUME UNCHANGED <<objects, since>>,
             \A t \in Topic : cache'[t] \in {cache[t], 0},
             pc'[h] \notin {"install", "merge"},
             \A g \in Thread \ {h} : pc'[g] = pc[g] /\ hand'[g] = hand[g] /\ cur(g)' = cur(g)
      PROVE  Ages'
  <2>1. \A i \in 1..Len(objects') : objects'[i].created_at <= since'[i]
    BY <1>5 DEF Ages
  <2>2. ASSUME NEW g \in Thread
        PROVE  /\ pc'[g] = "install" /\ cache'[cur(g)'.topic] # 0 =>
                     hand'[g].created_at <= since'[cache'[cur(g)'.topic]]
               /\ pc'[g] = "merge" => hand'[g].created_at <= since'[hand'[g].object]
    <3>1. CASE g = h
      BY <1>5, <3>1
    <3>2. CASE g # h
      <4>1. pc[g] = "install" => cur(g).topic \in Topic
        BY DEF TypeInv, Placed, PubLabels, Pub
      <4> QED
        BY <1>5, <3>2, <4>1 DEF Ages
    <3> QED
      BY <3>1, <3>2
  <2> QED
    BY <2>1, <2>2 DEF Ages
<1>6. CASE (\E s \in Frames : Receive(h, s)) \/ Load(h)
  <2>1. PICK label \in Labels \ {"install", "merge"}, s \in Frames \cup {<<>>, frame[h]} :
            /\ pc' = [pc EXCEPT ![h] = label] /\ frame' = [frame EXCEPT ![h] = s]
            /\ UNCHANGED <<memory, pos, hand>>
    <3>1. CASE Load(h)
      BY <3>1 DEF Load, Goto, Labels, LoadLabels, TypeInv, Types
    <3>2. CASE \E s \in Frames : Receive(h, s)
      <4>1. PICK s \in Frames : Receive(h, s)
        BY <3>2
      <4>2. Branch(s, 1) \in Labels \ {"install", "merge"}
        BY DEF Branch, Labels, PubLabels, DelLabels
      <4> QED
        BY <4>1, <4>2 DEF Receive, Goto
    <3> QED
      BY <1>6, <3>1, <3>2
  <2>2. pc'[h] = label /\ \A g \in Thread \ {h} : pc'[g] = pc[g] /\ hand'[g] = hand[g] /\ cur(g)' = cur(g)
    BY <2>1 DEF TypeInv, Types, cur
  <2> QED
    BY <1>5, <2>1, <2>2 DEF memory
<1>7. CASE Pop(h) \/ DelCache(h)
  <2>1. PICK label \in {"read", "scan"} :
            pc' = [pc EXCEPT ![h] = label] /\ UNCHANGED <<objects, since, frame, pos, hand>>
    BY <1>7 DEF Pop, DelCache, Goto
  <2>2. pc'[h] = label /\ \A g \in Thread \ {h} : pc'[g] = pc[g] /\ hand'[g] = hand[g] /\ cur(g)' = cur(g)
    BY <2>1 DEF TypeInv, Types, cur
  <2>3. \A t \in Topic : cache'[t] \in {cache[t], 0}
    BY <1>7 DEF Pop, DelCache, TypeInv, Types
  <2> QED
    BY <1>5, <2>1, <2>2, <2>3
<1>8. CASE Read(h) \/ Scan(h) \/ LoadRows(h)
  <2>1. PICK label \in {"write", "delete", "reply"} :
            pc' = [pc EXCEPT ![h] = label] /\ UNCHANGED <<memory, frame, pos, hand>>
    BY <1>8 DEF Read, Scan, LoadRows, Goto
  <2>2. pc'[h] = label /\ \A g \in Thread \ {h} : pc'[g] = pc[g] /\ hand'[g] = hand[g] /\ cur(g)' = cur(g)
    BY <2>1 DEF TypeInv, Types, cur
  <2> QED
    BY <1>5, <2>1, <2>2 DEF memory
<1>9. CASE Write(h) \/ Delete(h)
  <2>1. NextMessage(h) /\ UNCHANGED memory
    BY <1>9 DEF Write, Delete
  <2>2. Branch(frame[h], pos[h] + 1) \notin {"install", "merge"}
    BY DEF Branch
  <2>3. /\ pc'[h] \notin {"install", "merge"}
        /\ \A g \in Thread \ {h} : pc'[g] = pc[g] /\ hand'[g] = hand[g] /\ cur(g)' = cur(g)
    BY <2>1, <2>2 DEF NextMessage, Goto, TypeInv, Types, cur
  <2> QED
    BY <1>5, <2>1, <2>3 DEF memory
<1>10. CASE Commit(h) \/ StoreFails(h) \/ Reply(h)
  <2>1. Finish(h) /\ UNCHANGED memory
    BY <1>10 DEF Commit, StoreFails, Reply
  <2>2. /\ pc'[h] \notin {"install", "merge"}
        /\ \A g \in Thread \ {h} : pc'[g] = pc[g] /\ hand'[g] = hand[g] /\ cur(g)' = cur(g)
    BY <2>1 DEF Finish, Goto, TypeInv, Types, cur
  <2> QED
    BY <1>5, <2>1, <2>2 DEF memory
<1> QED
  BY <1>1, <1>2, <1>3, <1>4, <1>6, <1>7, <1>8, <1>9, <1>10 DEF Step

(* As long as a topic is retained, its created_at is never later than the    *)
(* one it became retained with, whoever replaces, loads and merges it at the *)
(* same time.                                                                *)
THEOREM RetainedKeepsSince == Constants => (Spec => []RetainedNoYounger)
<1> SUFFICES ASSUME Constants PROVE Spec => []RetainedNoYounger
  OBVIOUS
<1>1. Init => Ages
  BY DEF Init, Ages
<1>2. TypeInv /\ Ages /\ [Next]_vars => Ages'
  <2> SUFFICES ASSUME TypeInv, Ages, [Next]_vars PROVE Ages'
    OBVIOUS
  <2>1. CASE Next
    BY <2>1, AgesNext DEF Next
  <2>2. CASE UNCHANGED vars
    BY <2>2 DEF vars, Ages, cur
  <2> QED
    BY <2>1, <2>2
<1>3. TypeInv /\ Ages => RetainedNoYounger
  BY DEF TypeInv, Types, Ages, RetainedNoYounger
<1> QED
  BY <1>1, <1>2, <1>3, TypeCorrect, PTL DEF Spec

-----------------------------------------------------------------------------
(* Rows.  What the writer sees follows the committed rows: a row of its has  *)
(* the created_at of the committed one with its key, and one that it has no  *)
(* more was deleted, unless a PERSIST of the frame has replaced it.          *)
UniqueKeys(table) == \A r, s \in table : SameKey(r, s) => r = s

Follows(h, table, n) ==
    /\ \A r \in rows, s \in table : SameKey(r, s) => s.created_at = r.created_at \/ Replaces(frame[h], r)
    /\ \A r \in rows : \/ \E s \in table : SameKey(r, s)
                       \/ Replaces(frame[h], r)
                       \/ \E j \in 1..(n - 1) : frame[h][j].type = "DEL"

Keys ==
    /\ UniqueKeys(rows) /\ UniqueKeys(work)
    /\ \A h \in Thread : writer = h => Follows(h, work, pos[h])

LEMMA ViewFollows ==
    ASSUME Keys, NEW h \in Thread, writer \in {None, h}
    PROVE  UniqueKeys(View(h)) /\ Follows(h, View(h), pos[h])
<1>1. CASE writer = h
  BY <1>1 DEF Keys, View
<1>2. CASE writer # h
  <2>1. View(h) = rows /\ UniqueKeys(rows)
    BY <1>2 DEF Keys, View
  <2>2. \A r, s \in rows : SameKey(r, s) => s.created_at = r.created_at
    BY <2>1 DEF UniqueKeys
  <2>3. \A r \in rows : SameKey(r, r)
    BY DEF SameKey
  <2> QED
    BY <2>1, <2>2, <2>3 DEF Follows
<1> QED
  BY <1>1, <1>2

(* A PUB follows no DEL in its frame. *)
LEMMA PubsComeFirst ==
    ASSUME Constants, TypeInv, NEW h \in Thread, pc[h] \in PubLabels, NEW j \in 1..(pos[h] - 1)
    PROVE  frame[h][j].type # "DEL"
<1>1. pos[h] \in DOMAIN frame[h] /\ frame[h][pos[h]] \in Pub /\ pos[h] \in Nat \ {0}
  BY DEF TypeInv, Types, Placed, cur
<1>2. frame[h] \in Frames
  <2>1. frame[h] # <<>>
    BY <1>1
  <2> QED
    BY <2>1 DEF TypeInv, Types
<1>3. frame[h] \in Seq(Pub \cup Del)
  BY <1>2 DEF Constants, FramesType
<1>4. DOMAIN frame[h] = 1..Len(frame[h]) /\ Len(frame[h]) \in Nat
  BY <1>3
<1>5. j \in DOMAIN frame[h] /\ j < pos[h]
  BY <1>1, <1>4
<1>6. frame[h][pos[h]].type = "PUB"
  BY <1>1 DEF Pub
<1>7. frame[h][j].type = "PUB"
  BY <1>1, <1>2, <1>5, <1>6 DEF Constants, FramesType
<1> QED
  BY <1>7

LEMMA WriteKeys ==
    ASSUME Constants, TypeInv, Keys, NEW h \in Thread, Write(h)
    PROVE  UniqueKeys(work') /\ Follows(h, work', pos[h] + 1)
<1> DEFINE m == cur(h)
           row == Row(m, prev[h])
           left == View(h) \ Others(View(h), m)
<1>1. /\ pc[h] = "write" /\ writer \in {None, h} /\ work' = Upsert(left, row)
      /\ m = frame[h][pos[h]]
  BY DEF Write, Execute, cur
<1>2. UniqueKeys(View(h)) /\ Follows(h, View(h), pos[h])
  BY <1>1, ViewFollows
<1>3. \A s \in Upsert(left, row) : s \in left \/ (s = row /\ \A x \in left : ~SameKey(x, row))
  BY UpsertRows
<1>4. left \subseteq Upsert(left, row)
  BY DEF Upsert
<1>5. row.topic = m.topic /\ row.value = m.value
  BY DEF Row
<1>6. /\ pos[h] \in DOMAIN frame[h] /\ m.type = "PUB" /\ pos[h] \in Nat \ {0}
      /\ \A j \in 1..(pos[h] - 1) : frame[h][j].type # "DEL"
  BY <1>1, PubsComeFirst DEF TypeInv, Types, Placed, PubLabels, Pub
<1> HIDE DEF row, m
<1>7. \A x \in View(h) : x \in left \/ (m.mode = "PERSIST" /\ x.topic = m.topic /\ x.value # m.value)
  BY DEF Others
<1> HIDE DEF left
<1>8. UniqueKeys(work')
  BY <1>1, <1>2, <1>3 DEF UniqueKeys, SameKey, left
<1>9. ASSUME NEW r \in rows, NEW x \in View(h), SameKey(r, x), x \notin left
      PROVE  Replaces(frame[h], r)
  BY <1>1, <1>6, <1>7, <1>9 DEF Replaces, IsPersist, SameKey
<1>10. ASSUME NEW r \in rows, NEW s \in work', SameKey(r, s)
       PROVE  s.created_at = r.created_at \/ Replaces(frame[h], r)
  <2>1. CASE s \in left
    <3>1. s \in View(h)
      BY <2>1 DEF left
    <3> QED
      BY <1>2, <1>10, <3>1 DEF Follows
  <2>2. CASE s = row /\ \A x \in left : ~SameKey(x, row)
    <3>1. ASSUME NEW x \in View(h), SameKey(r, x) PROVE FALSE
      <4>1. x.topic = m.topic /\ x.value = m.value /\ SameKey(x, row)
        BY <1>5, <1>10, <2>2, <3>1 DEF SameKey
      <4> QED
        BY <1>7, <2>2, <4>1
    <3> QED
      BY <1>2, <1>6, <3>1 DEF Follows
  <2> QED
    BY <1>1, <1>3, <2>1, <2>2
<1>11. ASSUME NEW r \in rows
       PROVE  \/ \E s \in work' : SameKey(r, s)
              \/ Replaces(frame[h], r)
              \/ \E j \in 1..pos[h] : frame[h][j].type = "DEL"
  BY <1>1, <1>2, <1>4, <1>6, <1>9 DEF Follows
<1>12. PICK table : table = work'
  OBVIOUS
<1>13. PICK n : n = pos[h] + 1
  OBVIOUS
<1>14. \A r \in rows, s \in table : SameKey(r, s) => s.created_at = r.created_at \/ Replaces(frame[h], r)
  BY <1>10, <1>12
<1>15. \A r \in rows : \/ \E s \in table : SameKey(r, s)
                       \/ Replaces(frame[h], r)
                       \/ \E j \in 1..(n - 1) : frame[h][j].type = "DEL"
  <2>1. n - 1 = pos[h]
    BY <1>6, <1>13
  <2> QED
    BY <1>11, <1>12, <2>1
<1>16. Follows(h, table, n)
  BY <1>14, <1>15 DEF Follows
<1> QED
  BY <1>8, <1>12, <1>13, <1>16

LEMMA DeleteKeys ==
    ASSUME Constants, TypeInv, Keys, NEW h \in Thread, Delete(h), prev[h] # {}
    PROVE  UniqueKeys(work') /\ Follows(h, work', pos[h] + 1)
<1>1. /\ writer \in {None, h} /\ work' \subseteq View(h)
      /\ UNCHANGED <<rows, frame>>
  BY DEF Delete, Execute, NextMessage
<1>2. UniqueKeys(View(h)) /\ Follows(h, View(h), pos[h])
  BY <1>1, ViewFollows
<1>3. pos[h] \in Nat \ {0} /\ pos[h] \in 1..(pos[h] + 1 - 1) /\ frame[h][pos[h]].type = "DEL"
  BY DEF Delete, TypeInv, Types, Placed, DelLabels, Del, cur
<1>4. UniqueKeys(work')
  BY <1>1, <1>2 DEF UniqueKeys
<1> QED
  BY <1>1, <1>2, <1>3, <1>4 DEF Follows

(* A step of h that begins or ends no transaction and writes no row. *)
LEMMA SameKeys ==
    ASSUME TypeInv, Keys, NEW h \in Thread, UNCHANGED database,
           writer = h => frame'[h] = frame[h] /\ pos'[h] \in {pos[h], pos[h] + 1},
           \A g \in Thread \ {h} : frame'[g] = frame[g] /\ pos'[g] = pos[g]
    PROVE  Keys'
<1>1. ASSUME NEW g \in Thread, writer = g PROVE Follows(g, work, pos'[g])
  <2>1. Follows(g, work, pos[g]) /\ pos[g] \in Nat /\ pos'[g] \in {pos[g], pos[g] + 1}
    BY <1>1 DEF Keys, TypeInv, Types
  <2>2. 1..(pos[g] - 1) \subseteq 1..(pos'[g] - 1)
    BY <2>1
  <2> QED
    BY <2>1, <2>2 DEF Follows
<1>2. \A g \in Thread : writer = g => frame'[g] = frame[g]
  OBVIOUS
<1>3. ASSUME NEW g \in Thread, writer' = g PROVE Follows(g, work, pos[g])'
  BY <1>1, <1>2, <1>3 DEF Follows, database
<1> QED
  BY <1>3 DEF Keys, UniqueKeys, database

LEMMA KeysNext ==
    ASSUME Constants, TypeInv, Keys, NEW h \in Thread, Step(h)
    PROVE  /\ Keys'
           /\ \A r \in rows, s \in rows' : SameKey(r, s) =>
                 s.created_at = r.created_at \/ \E g \in Thread : writer = g /\ Replaces(frame[g], r)
<1>1. ASSUME UNCHANGED rows
      PROVE  \A r \in rows, s \in rows' : SameKey(r, s) => s.created_at = r.created_at
  BY <1>1 DEF Keys, UniqueKeys
<1>2. CASE Write(h) \/ (Delete(h) /\ prev[h] # {})
  <2>1. /\ UniqueKeys(work') /\ Follows(h, work', pos[h] + 1)
        /\ writer' = h /\ UNCHANGED rows /\ NextMessage(h)
    BY <1>2, WriteKeys, DeleteKeys DEF Write, Delete, Execute
  <2>2. pos'[h] = pos[h] + 1 /\ frame' = frame
    BY <2>1 DEF NextMessage, TypeInv, Types
  <2>3. Follows(h, work, pos[h])'
    BY <2>1, <2>2 DEF Follows
  <2>4. Keys'
    BY <2>1, <2>3 DEF Keys, UniqueKeys
  <2> QED
    BY <1>1, <2>1, <2>4
<1>3. CASE Commit(h)
  <2>1. CASE writer = h
    <3>1. rows' = work /\ work' = {} /\ writer' = None
      BY <1>3, <2>1 DEF Commit, View
    <3>2. UniqueKeys(work) /\ Follows(h, work, pos[h])
      BY <2>1 DEF Keys
    <3>3. Keys'
      BY <3>1, <3>2 DEF Keys, UniqueKeys, Constants
    <3> QED
      BY <2>1, <3>1, <3>2, <3>3 DEF Follows
  <2>2. CASE writer # h
    <3>1. UNCHANGED database /\ Finish(h)
      BY <1>3, <2>2 DEF Commit, View, database
    <3>2. \A g \in Thread \ {h} : frame'[g] = frame[g] /\ pos'[g] = pos[g]
      BY <3>1 DEF Finish, TypeInv, Types
    <3>3. Keys'
      BY <2>2, <3>1, <3>2, SameKeys
    <3> QED
      BY <1>1, <3>1, <3>3 DEF database
  <2> QED
    BY <2>1, <2>2
<1>4. CASE StoreFails(h)
  <2>1. UNCHANGED rows /\ Finish(h)
    BY <1>4 DEF StoreFails
  <2>2. CASE writer = h
    <3>1. work' = {} /\ writer' = None
      BY <1>4, <2>2 DEF StoreFails
    <3>2. Keys'
      BY <2>1, <3>1 DEF Keys, UniqueKeys, Constants
    <3> QED
      BY <1>1, <2>1, <3>2
  <2>3. CASE writer # h
    <3>1. UNCHANGED database
      BY <1>4, <2>3 DEF StoreFails, database
    <3>2. \A g \in Thread \ {h} : frame'[g] = frame[g] /\ pos'[g] = pos[g]
      BY <2>1 DEF Finish, TypeInv, Types
    <3>3. Keys'
      BY <2>3, <3>1, <3>2, SameKeys
    <3> QED
      BY <1>1, <2>1, <3>3
  <2> QED
    BY <2>2, <2>3
<1>5. CASE (\E s \in Frames : Receive(h, s)) \/ Reply(h)
  <2>1. pc[h] \in {"idle", "reply"} /\ UNCHANGED database
    BY <1>5 DEF Receive, Reply
  <2>2. writer # h
    BY <2>1 DEF TypeInv, Placed, PubLabels, DelLabels
  <2>3. \A g \in Thread \ {h} : frame'[g] = frame[g] /\ pos'[g] = pos[g]
    BY <1>5 DEF Receive, Reply, Finish, TypeInv, Types
  <2>4. Keys'
    BY <2>1, <2>2, <2>3, SameKeys
  <2> QED
    BY <1>1, <2>1, <2>4 DEF database
<1>6. CASE \/ RetainRead(h) \/ Install(h) \/ Pop(h) \/ Read(h) \/ DelCache(h) \/ Scan(h)
           \/ Load(h) \/ LoadRows(h) \/ MergeRead(h) \/ MergeWrite(h)
           \/ (Delete(h) /\ prev[h] = {})
  <2>1. UNCHANGED <<database, frame>> /\ pos' \in {pos, [pos EXCEPT ![h] = pos[h] + 1]}
    BY <1>6 DEF RetainRead, Install, Pop, Read, DelCache, Scan, Load, LoadRows, MergeRead, MergeWrite, Delete,
                NextMessage
  <2>2. pos'[h] \in {pos[h], pos[h] + 1} /\ \A g \in Thread \ {h} : pos'[g] = pos[g]
    BY <2>1 DEF TypeInv, Types
  <2>3. Keys'
    BY <2>1, <2>2, SameKeys
  <2> QED
    BY <1>1, <2>1, <2>3 DEF database
<1> QED
  BY <1>2, <1>3, <1>4, <1>5, <1>6 DEF Step

(* A row keeps its created_at through every commit, whoever stores it at the *)
(* same time, unless the frame replaced the rows of its topic; and a topic   *)
(* and value has one row.                                                    *)
THEOREM RowsKeepCreated == Constants => (Spec => RowCreatedStable)
<1> SUFFICES ASSUME Constants PROVE Spec => RowCreatedStable
  OBVIOUS
<1>1. Init => Keys
  BY DEF Init, Keys, UniqueKeys, Constants, TablesType
<1>2. TypeInv /\ Keys /\ [Next]_vars => Keys'
  <2> SUFFICES ASSUME TypeInv, Keys, [Next]_vars PROVE Keys'
    OBVIOUS
  <2>1. CASE Next
    BY <2>1, KeysNext DEF Next
  <2>2. CASE UNCHANGED vars
    BY <2>2 DEF vars, Keys, UniqueKeys, Follows
  <2> QED
    BY <2>1, <2>2
<1>3. TypeInv /\ Keys /\ [Next]_vars =>
        [\A r \in rows, s \in rows' : SameKey(r, s) =>
            s.created_at = r.created_at \/ \E h \in Thread : writer = h /\ Replaces(frame[h], r)]_vars
  BY KeysNext DEF Next
<1> QED
  BY <1>1, <1>2, <1>3, TypeCorrect, PTL DEF Spec, RowCreatedStable
=============================================================================
