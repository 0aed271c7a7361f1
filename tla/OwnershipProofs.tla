--------------------------- MODULE OwnershipProofs ---------------------------
(* Proofs about what the agent allocates and gives back: the messages and    *)
(* callbacks of ConnApi and the options of Options, for any number of calls, *)
(* topics, functions, options and buffers.                                   *)
EXTENDS ConnApi, Options, FiniteSetTheorems, TLAPS

-----------------------------------------------------------------------------
(* Sequences and the places in them: what is counted is how many elements    *)
(* belong to a set.                                                          *)
Places(s, S) == {i \in DOMAIN s : s[i] \in S}

LEMMA PlacesFinite ==
    ASSUME NEW T, NEW s \in Seq(T), NEW S
    PROVE  IsFiniteSet(Places(s, S)) /\ Cardinality(Places(s, S)) \in Nat
<1>1. Places(s, S) \in SUBSET (1..Len(s)) /\ Len(s) \in Int
    BY DEF Places
<1>2. IsFiniteSet(1..Len(s))
    BY <1>1, FS_Interval
<1>3. IsFiniteSet(Places(s, S))
    BY <1>1, <1>2, FS_Subset
<1>4. QED
    BY <1>3, FS_CardinalityType

LEMMA AppendCount ==
    ASSUME NEW T, NEW s \in Seq(T), NEW e \in T, NEW S
    PROVE  Cardinality(Places(Append(s, e), S))
               = Cardinality(Places(s, S)) + (IF e \in S THEN 1 ELSE 0)
<1>1. /\ DOMAIN Append(s, e) = 1..(Len(s) + 1) /\ DOMAIN s = 1..Len(s) /\ Len(s) \in Nat
      /\ Append(s, e)[Len(s) + 1] = e
      /\ \A i \in 1..Len(s) : Append(s, e)[i] = s[i]
    OBVIOUS
<1>2. IsFiniteSet(Places(s, S)) /\ Cardinality(Places(s, S)) \in Nat
    BY PlacesFinite
<1>3. CASE e \in S
    <2>1. Places(Append(s, e), S) = Places(s, S) \cup {Len(s) + 1} /\ Len(s) + 1 \notin Places(s, S)
        BY <1>1, <1>3 DEF Places
    <2>2. QED
        BY <2>1, <1>2, <1>3, FS_AddElement
<1>4. CASE e \notin S
    <2>1. Places(Append(s, e), S) = Places(s, S)
        BY <1>1, <1>4 DEF Places
    <2>2. QED
        BY <2>1, <1>2, <1>4
<1>5. QED
    BY <1>3, <1>4

LEMMA ConcatIs ==
    ASSUME NEW T, NEW a \in Seq(T), NEW b \in Seq(T)
    PROVE  /\ a \o b \in Seq(T) /\ Len(a \o b) = Len(a) + Len(b)
           /\ \A i \in 1..(Len(a) + Len(b)) :
                  (a \o b)[i] = IF i <= Len(a) THEN a[i] ELSE b[i - Len(a)]
OBVIOUS

(* What is behind the element that is taken out moves up by one place. *)
LEMMA RemoveAtIs ==
    ASSUME NEW T, NEW s \in Seq(T), NEW k \in 1..Len(s)
    PROVE  /\ RemoveAt(s, k) \in Seq(T) /\ Len(RemoveAt(s, k)) = Len(s) - 1
           /\ \A i \in 1..(Len(s) - 1) :
                  RemoveAt(s, k)[i] = IF i < k THEN s[i] ELSE s[i + 1]
<1> DEFINE a == SubSeq(s, 1, k - 1)
           b == SubSeq(s, k + 1, Len(s))
<1>1. /\ Len(s) \in Nat /\ k \in Nat /\ 1 <= k /\ k <= Len(s)
    OBVIOUS
<1>2. /\ a \in Seq(T) /\ Len(a) = k - 1
      /\ \A i \in 1..(k - 1) : a[i] = s[i]
    BY <1>1
<1>3. /\ b \in Seq(T) /\ Len(b) = Len(s) - k
      /\ \A i \in 1..(Len(s) - k) : b[i] = s[k + i]
    BY <1>1
<1>4. RemoveAt(s, k) = a \o b
    BY DEF RemoveAt
<1> HIDE DEF a, b
<1>5. /\ a \o b \in Seq(T) /\ Len(a \o b) = Len(s) - 1
      /\ \A i \in 1..(Len(s) - 1) : (a \o b)[i] = IF i <= k - 1 THEN a[i] ELSE b[i - (k - 1)]
    <2>1. /\ a \o b \in Seq(T) /\ Len(a \o b) = Len(a) + Len(b)
          /\ \A i \in 1..(Len(a) + Len(b)) : (a \o b)[i] = IF i <= Len(a) THEN a[i] ELSE b[i - Len(a)]
        BY <1>2, <1>3, ConcatIs
    <2>2. Len(a) + Len(b) = Len(s) - 1
        BY <1>1, <1>2, <1>3
    <2>3. QED
        BY <2>1, <2>2, <1>2
<1>6. ASSUME NEW i \in 1..(Len(s) - 1)
      PROVE  (a \o b)[i] = IF i < k THEN s[i] ELSE s[i + 1]
    <2>1. CASE i < k
        BY <2>1, <1>1, <1>2, <1>5
    <2>2. CASE ~(i < k)
        <3>1. i - (k - 1) \in 1..(Len(s) - k) /\ k + (i - (k - 1)) = i + 1
            BY <2>2, <1>1
        <3>2. QED
            BY <2>2, <3>1, <1>1, <1>3, <1>5
    <2>3. QED
        BY <2>1, <2>2
<1>7. QED
    BY <1>4, <1>5, <1>6

LEMMA ElementsOf ==
    ASSUME NEW T, NEW s \in Seq(T)
    PROVE  DOMAIN s = 1..Len(s) /\ Len(s) \in Nat /\ \A i \in DOMAIN s : s[i] \in T
OBVIOUS

LEMMA FunctionIsSeq ==
    ASSUME NEW T, NEW n \in Nat, NEW f \in [1..n -> T]
    PROVE  f \in Seq(T)
OBVIOUS

LEMMA RemoveCount ==
    ASSUME NEW T, NEW s \in Seq(T), NEW k \in 1..Len(s), NEW S
    PROVE  Cardinality(Places(RemoveAt(s, k), S))
               = Cardinality(Places(s, S)) - (IF s[k] \in S THEN 1 ELSE 0)
<1> DEFINE r == RemoveAt(s, k)
           from == Places(s, S) \ {k}
           to == Places(r, S)
           f == [i \in from |-> IF i < k THEN i ELSE i - 1]
<1>1. /\ DOMAIN r = 1..(Len(s) - 1) /\ DOMAIN s = 1..Len(s) /\ Len(s) \in Nat /\ k \in Nat
      /\ \A i \in 1..(Len(s) - 1) : r[i] = IF i < k THEN s[i] ELSE s[i + 1]
    BY RemoveAtIs
<1> HIDE DEF r
<1>2. IsFiniteSet(Places(s, S)) /\ Cardinality(Places(s, S)) \in Nat
    BY PlacesFinite
<1>3. /\ IsFiniteSet(from)
      /\ Cardinality(from) = Cardinality(Places(s, S)) - (IF s[k] \in S THEN 1 ELSE 0)
    <2>1. k \in Places(s, S) <=> s[k] \in S
        BY <1>1 DEF Places
    <2>2. QED
        BY <2>1, <1>2, FS_RemoveElement
<1>4. \A i \in from : f[i] \in to
    BY <1>1 DEF Places
<1>5. \A i, j \in from : f[i] = f[j] => i = j
    BY <1>1 DEF Places
<1>6. \A j \in to : \E i \in from : f[i] = j
    <2>1. SUFFICES ASSUME NEW j \in to PROVE \E i \in from : f[i] = j
        OBVIOUS
    <2>2. CASE j < k
        <3>1. j \in from /\ f[j] = j
            BY <1>1, <2>2 DEF Places
        <3>2. QED
            BY <3>1
    <2>3. CASE ~(j < k)
        <3>1. j + 1 \in from /\ f[j + 1] = j
            BY <1>1, <2>3 DEF Places
        <3>2. QED
            BY <3>1
    <2>4. QED
        BY <2>2, <2>3
<1>7. ExistsBijection(from, to)
    <2>1. f \in [from -> to]
        BY <1>4
    <2>2. f \in Bijection(from, to)
        BY <2>1, <1>5, <1>6 DEF Bijection, Injection, Surjection, IsInjective
    <2>3. QED
        BY <2>2 DEF ExistsBijection
<1>8. QED
    BY <1>3, <1>7, FS_Bijection DEF r

LEMMA MinIsIn ==
    ASSUME NEW S \in SUBSET Nat, S # {}
    PROVE  Min(S) \in S /\ \A n \in S : Min(S) <= n
<1> DEFINE Less == OpToRel(<, Nat)
<1>1. PICK n \in S : \A m \in S : ~ (<<m, n>> \in Less)
    BY NatLessThanWellFounded, WFMin
<1>2. \A m \in S : ~ m < n
    BY <1>1 DEF OpToRel
<1>3. n \in S /\ \A m \in S : n <= m
    BY <1>2
<1>4. QED
    BY <1>3 DEF Min

LEMMA RemoveFirstIs ==
    ASSUME NEW T, NEW s \in Seq(T), NEW e, Contains(s, e)
    PROVE  \E k \in 1..Len(s) : s[k] = e /\ RemoveFirst(s, e) = RemoveAt(s, k)
<1> DEFINE I == {i \in 1..Len(s) : s[i] = e}
<1>1. I \in SUBSET Nat /\ I # {}
    BY DEF Contains
<1>2. Min(I) \in I
    BY <1>1, MinIsIn
<1>3. SelectInSeq(s, LAMBDA v : v = e) = Min(I)
    BY <1>1 DEF SelectInSeq
<1>4. RemoveFirst(s, e) = RemoveAt(s, Min(I))
    BY <1>3 DEF RemoveFirst, Contains
<1>5. QED
    BY <1>2, <1>4

-----------------------------------------------------------------------------
(* The messages: numbers of messages are new when they are allocated, and a  *)
(* message is at one place of one list.                                      *)
ListsInv ==
    /\ calls \in Nat /\ heap \subseteq 1..calls
    /\ send_msgs \in Seq(heap) /\ taken \in Seq(heap)
    /\ \A i, j \in DOMAIN send_msgs : send_msgs[i] = send_msgs[j] => i = j
    /\ \A i, j \in DOMAIN taken : taken[i] = taken[j] => i = j
    /\ \A i \in DOMAIN send_msgs, j \in DOMAIN taken : send_msgs[i] # taken[j]
    /\ \A m \in asked : m.id \in 1..calls /\ m.id \notin heap
    /\ \A m, n \in asked : m.id = n.id => m = n

LEMMA ListsCount ==
    ASSUME ListsInv
    PROVE  ListedIsAllocated
<1> DEFINE n == Len(send_msgs) + Len(taken)
           listed == ToSet(send_msgs) \cup ToSet(taken)
           f == [i \in 1..n |-> IF i <= Len(send_msgs) THEN send_msgs[i] ELSE taken[i - Len(send_msgs)]]
<1>1. /\ DOMAIN send_msgs = 1..Len(send_msgs) /\ Len(send_msgs) \in Nat
      /\ DOMAIN taken = 1..Len(taken) /\ Len(taken) \in Nat
      /\ n \in Nat
      /\ \A i \in DOMAIN send_msgs : send_msgs[i] \in heap
      /\ \A i \in DOMAIN taken : taken[i] \in heap
    BY DEF ListsInv
<1>2. listed \subseteq heap
    BY <1>1 DEF ToSet
<1>3. \A i \in 1..n : i <= Len(send_msgs) \/ i - Len(send_msgs) \in 1..Len(taken)
    BY <1>1
<1>4. f \in [1..n -> listed]
    BY <1>1, <1>3 DEF ToSet
<1>5. \A i, j \in 1..n : f[i] = f[j] => i = j
    <2>1. SUFFICES ASSUME NEW i \in 1..n, NEW j \in 1..n, f[i] = f[j] PROVE i = j
        OBVIOUS
    <2>2. CASE i <= Len(send_msgs) /\ j <= Len(send_msgs)
        BY <1>1, <2>1, <2>2 DEF ListsInv
    <2>3. CASE i <= Len(send_msgs) /\ ~(j <= Len(send_msgs))
        BY <1>1, <1>3, <2>1, <2>3 DEF ListsInv
    <2>4. CASE ~(i <= Len(send_msgs)) /\ j <= Len(send_msgs)
        BY <1>1, <1>3, <2>1, <2>4 DEF ListsInv
    <2>5. CASE ~(i <= Len(send_msgs)) /\ ~(j <= Len(send_msgs))
        <3>1. i - Len(send_msgs) = j - Len(send_msgs)
            BY <1>1, <1>3, <2>1, <2>5 DEF ListsInv
        <3>2. QED
            BY <1>1, <3>1
    <2>6. QED
        BY <2>2, <2>3, <2>4, <2>5
<1>6. \A m \in listed : \E i \in 1..n : f[i] = m
    <2>1. ASSUME NEW i \in 1..Len(send_msgs) PROVE i \in 1..n /\ f[i] = send_msgs[i]
        BY <1>1
    <2>2. ASSUME NEW j \in 1..Len(taken)
          PROVE  Len(send_msgs) + j \in 1..n /\ f[Len(send_msgs) + j] = taken[j]
        BY <1>1
    <2>3. ASSUME NEW m \in ToSet(send_msgs) PROVE \E i \in 1..n : f[i] = m
        BY <1>1, <2>1, <2>3 DEF ToSet
    <2>4. ASSUME NEW m \in ToSet(taken) PROVE \E i \in 1..n : f[i] = m
        BY <1>1, <2>2, <2>4 DEF ToSet
    <2>5. QED
        BY <2>3, <2>4
<1>7. ExistsBijection(1..n, listed)
    BY <1>4, <1>5, <1>6 DEF ExistsBijection, Bijection, Injection, Surjection, IsInjective
<1>8. QED
    BY <1>1, <1>2, <1>7, FS_CountingElements DEF ListedIsAllocated

LEMMA ListsAdd ==
    ASSUME ListsInv, NEW msg \in asked, conn_msg_add(msg)
    PROVE  ListsInv'
<1>1. /\ calls' = calls /\ taken' = taken /\ asked' = asked \ {msg}
      /\ \/ heap' = heap \cup {msg.id} /\ send_msgs' = Append(send_msgs, msg.id)
         \/ heap' = heap /\ send_msgs' = send_msgs
    BY DEF conn_msg_add
<1>2. /\ msg.id \in 1..calls /\ msg.id \notin heap
      /\ \A m \in asked' : m \in asked /\ m.id # msg.id
    BY <1>1 DEF ListsInv
<1>3. CASE heap' = heap /\ send_msgs' = send_msgs
    BY <1>1, <1>3 DEF ListsInv
<1>4. CASE heap' = heap \cup {msg.id} /\ send_msgs' = Append(send_msgs, msg.id)
    <2>1. /\ DOMAIN send_msgs = 1..Len(send_msgs) /\ Len(send_msgs) \in Nat /\ DOMAIN taken = 1..Len(taken)
          /\ \A i \in DOMAIN send_msgs : send_msgs[i] \in heap
          /\ \A i \in DOMAIN taken : taken[i] \in heap
        BY DEF ListsInv
    <2>2. /\ DOMAIN send_msgs' = 1..(Len(send_msgs) + 1)
          /\ send_msgs'[Len(send_msgs) + 1] = msg.id
          /\ \A i \in 1..Len(send_msgs) : send_msgs'[i] = send_msgs[i]
        BY <1>4 DEF ListsInv
    <2>3. heap' \subseteq 1..calls' /\ calls' \in Nat
        BY <1>1, <1>2, <1>4 DEF ListsInv
    <2>4. send_msgs' \in Seq(heap') /\ taken' \in Seq(heap')
        BY <1>1, <1>4 DEF ListsInv
    <2>5. \A i \in DOMAIN send_msgs : send_msgs[i] # msg.id
        BY <2>1, <1>2
    <2>6. \A i \in DOMAIN taken : taken[i] # msg.id
        BY <2>1, <1>2
    <2>7. \A i, j \in DOMAIN send_msgs' : send_msgs'[i] = send_msgs'[j] => i = j
        BY <2>1, <2>2, <2>5 DEF ListsInv
    <2>8. \A i \in DOMAIN send_msgs', j \in DOMAIN taken' : send_msgs'[i] # taken'[j]
        BY <1>1, <2>1, <2>2, <2>6 DEF ListsInv
    <2>9. \A m \in asked' : m.id \in 1..calls' /\ m.id \notin heap'
        BY <1>1, <1>2, <1>4 DEF ListsInv
    <2>10. QED
        BY <1>1, <2>3, <2>4, <2>7, <2>8, <2>9 DEF ListsInv
<1>5. QED
    BY <1>1, <1>3, <1>4

(* A call that has changed the callbacks, or nothing, and may ask for a      *)
(* message.                                                                  *)
LEMMA ListsAsk ==
    ASSUME ListsInv, Call, UNCHANGED <<heap, send_msgs, taken>>,
           NEW type, NEW topic, asked' = asked \/ Asks(type, topic)
    PROVE  ListsInv'
<1>1. calls' = calls + 1 /\ calls \in Nat
    BY DEF Call, ListsInv
<1>2. calls' \in 1..calls' /\ calls' \notin 1..calls /\ calls' \in Nat /\ 1..calls \subseteq 1..calls'
    BY <1>1
<1>3. \A m \in asked : m.id \in 1..calls' /\ m.id \notin heap /\ m.id # calls'
    BY <1>2 DEF ListsInv
<1> DEFINE e == [id |-> calls', type |-> type, topic |-> topic]
<1>4. asked' = asked \/ asked' = asked \cup {e}
    BY DEF Asks
<1>5. e.id = calls' /\ calls' \notin heap
    BY <1>2 DEF ListsInv
<1> HIDE DEF e
<1>6. \A m \in asked' : m.id \in 1..calls' /\ m.id \notin heap'
    BY <1>2, <1>3, <1>4, <1>5
<1>7. \A m, n \in asked' : m.id = n.id => m = n
    BY <1>3, <1>4, <1>5 DEF ListsInv
<1>8. heap' \subseteq 1..calls'
    BY <1>2 DEF ListsInv
<1>9. QED
    BY <1>2, <1>6, <1>7, <1>8 DEF ListsInv

(* What is freed with the object is what waits in the queue; what the thread *)
(* has in hand stays allocated.                                              *)
LEMMA ListsFreed ==
    ASSUME ListsInv, Freed, calls' = calls, asked' = asked, taken' \in {taken, <<>>}
    PROVE  ListsInv'
<1>1. send_msgs' = <<>> /\ heap' = heap \ ToSet(send_msgs)
    BY DEF Freed
<1>2. DOMAIN taken = 1..Len(taken) /\ \A j \in DOMAIN taken : taken[j] \in heap /\ taken[j] \notin ToSet(send_msgs)
    BY DEF ListsInv, ToSet
<1>3. taken \in Seq(heap') /\ <<>> \in Seq(heap')
    BY <1>1, <1>2 DEF ListsInv
<1>4. send_msgs' \in Seq(heap') /\ DOMAIN send_msgs' = {}
    BY <1>1, <1>3
<1>5. CASE taken' = taken
    BY <1>1, <1>3, <1>4, <1>5 DEF ListsInv
<1>6. CASE taken' = <<>>
    <2>1. DOMAIN taken' = {}
        BY <1>6
    <2>2. QED
        BY <1>1, <1>3, <1>4, <1>6, <2>1 DEF ListsInv
<1>7. QED
    BY <1>5, <1>6

LEMMA ListsNext ==
    ASSUME ListsInv, [ObjectNext]_object
    PROVE  ListsInv'
<1>1. CASE ConnInit
    <2>1. CASE Freed
        BY <1>1, <2>1, ListsFreed DEF ConnInit
    <2>2. CASE UNCHANGED <<heap, send_msgs, cbs>>
        BY <1>1, <2>2 DEF ConnInit, ListsInv
    <2>3. QED
        BY <1>1, <2>1, <2>2 DEF ConnInit
<1>2. CASE ConnFree
    BY <1>2, ListsFreed DEF ConnFree
<1>3. ASSUME NEW topic \in Topic, conn_pub(topic)
      PROVE  ListsInv'
    BY <1>3, ListsAsk DEF conn_pub
<1>4. ASSUME NEW topic \in Topic, NEW func \in Func, conn_sub(topic, func)
      PROVE  ListsInv'
    BY <1>4, ListsAsk DEF conn_sub
<1>5. ASSUME NEW topic \in Topic, NEW func \in Func, conn_unsub(topic, func)
      PROVE  ListsInv'
    BY <1>5, ListsAsk DEF conn_unsub
<1>11. ASSUME NEW msg \in asked, conn_msg_add(msg)
       PROVE  ListsInv'
    BY <1>11, ListsAdd
<1>6. CASE TakeList
    BY <1>6 DEF TakeList, ListsInv
<1>7. CASE PutListBack
    <2>1. /\ DOMAIN send_msgs = 1..Len(send_msgs) /\ Len(send_msgs) \in Nat
          /\ DOMAIN taken = 1..Len(taken) /\ Len(taken) \in Nat
          /\ send_msgs' \in Seq(heap) /\ DOMAIN send_msgs' = 1..(Len(send_msgs) + Len(taken))
          /\ \A i \in 1..(Len(send_msgs) + Len(taken)) :
                 send_msgs'[i] = IF i <= Len(send_msgs) THEN send_msgs[i] ELSE taken[i - Len(send_msgs)]
        BY <1>7, ConcatIs DEF PutListBack, ListsInv
    <2>2. \A i \in 1..(Len(send_msgs) + Len(taken)) : i <= Len(send_msgs) \/ i - Len(send_msgs) \in 1..Len(taken)
        BY <2>1
    <2>3. ASSUME NEW i \in DOMAIN send_msgs', NEW j \in DOMAIN send_msgs', send_msgs'[i] = send_msgs'[j]
          PROVE  i = j
        <3>1. CASE i <= Len(send_msgs) /\ j <= Len(send_msgs)
            BY <2>1, <2>3, <3>1 DEF ListsInv
        <3>2. CASE i <= Len(send_msgs) /\ ~(j <= Len(send_msgs))
            <4>1. send_msgs'[i] = send_msgs[i] /\ j - Len(send_msgs) \in 1..Len(taken) /\ send_msgs'[j] = taken[j - Len(send_msgs)]
                BY <2>1, <2>2, <3>2
            <4>2. i \in DOMAIN send_msgs /\ j - Len(send_msgs) \in DOMAIN taken
                BY <2>1, <3>2, <4>1
            <4>3. send_msgs[i] = taken[j - Len(send_msgs)]
                BY <2>3, <4>1
            <4>4. QED
                BY <4>2, <4>3 DEF ListsInv
        <3>3. CASE ~(i <= Len(send_msgs)) /\ j <= Len(send_msgs)
            <4>1. send_msgs'[j] = send_msgs[j] /\ i - Len(send_msgs) \in 1..Len(taken)
                  /\ send_msgs'[i] = taken[i - Len(send_msgs)]
                BY <2>1, <2>2, <3>3
            <4>2. j \in DOMAIN send_msgs /\ i - Len(send_msgs) \in DOMAIN taken
                BY <2>1, <3>3, <4>1
            <4>3. send_msgs[j] = taken[i - Len(send_msgs)]
                BY <2>3, <4>1
            <4>4. QED
                BY <4>2, <4>3 DEF ListsInv
        <3>4. CASE ~(i <= Len(send_msgs)) /\ ~(j <= Len(send_msgs))
            <4>1. /\ i - Len(send_msgs) \in DOMAIN taken /\ j - Len(send_msgs) \in DOMAIN taken
                  /\ send_msgs'[i] = taken[i - Len(send_msgs)] /\ send_msgs'[j] = taken[j - Len(send_msgs)]
                BY <2>1, <2>2, <3>4
            <4>2. taken[i - Len(send_msgs)] = taken[j - Len(send_msgs)]
                BY <2>3, <4>1
            <4>3. i - Len(send_msgs) = j - Len(send_msgs)
                BY <4>1, <4>2 DEF ListsInv
            <4>4. QED
                BY <2>1, <4>3
        <3>5. QED
            BY <3>1, <3>2, <3>3, <3>4
    <2>4. QED
        BY <1>7, <2>1, <2>3 DEF PutListBack, ListsInv
<1>8. CASE FreeList
    <2>1. \A i \in DOMAIN send_msgs : send_msgs[i] \in heap /\ send_msgs[i] # taken[1]
        BY <1>8 DEF FreeList, ListsInv
    <2>2. Head(taken) = taken[1]
        BY DEF ListsInv
    <2>3. send_msgs \in Seq(heap')
        BY <1>8, <2>1, <2>2 DEF FreeList, ListsInv
    <2>4. heap' \subseteq heap /\ taken' \in Seq(heap') /\ DOMAIN taken' = {} /\ send_msgs' = send_msgs
          /\ calls' = calls /\ asked' = asked
        BY <1>8 DEF FreeList
    <2>5. QED
        BY <2>3, <2>4 DEF ListsInv
<1>9. CASE UNCHANGED object
    BY <1>9 DEF object, ListsInv
<1>10. QED
    BY <1>1, <1>2, <1>3, <1>4, <1>5, <1>6, <1>7, <1>8, <1>9, <1>11 DEF ObjectNext

(* No message is used after it was freed or freed twice, however the thread  *)
(* of the connection and the threads that queue messages interleave          *)
(* (conn_ws_send, conn_msg_add and conn_free).                               *)
THEOREM ListedMessagesAreAllocated == ObjectSpec => []ListedIsAllocated
<1>1. ObjectInit => ListsInv
    BY DEF ObjectInit, ListsInv
<1>2. ListsInv /\ [ObjectNext]_object => ListsInv'
    BY ListsNext
<1>3. ListsInv => ListedIsAllocated
    BY ListsCount
<1>4. QED
    BY <1>1, <1>2, <1>3, PTL DEF ObjectSpec

-----------------------------------------------------------------------------
(* The callbacks: before the object runs there are none, and while it runs   *)
(* SUB messages are ahead of UNSUB messages by the callbacks that there are, *)
(* those counted that are still to be made or that there was no memory for.  *)
All == told \cup asked \cup missed

Kept(S, type, topic) == {m \in S : m.type = type /\ m.topic = topic}

Balanced(S, there) ==
    \A topic \in Topic :
        Cardinality(Kept(S, "SUB", topic)) - Cardinality(Kept(S, "UNSUB", topic))
            = Cardinality(Places(there, {topic} \X Func))

BackInv ==
    /\ calls \in Nat /\ cbs \in Seq(Topic \X Func)
    /\ IsFiniteSet(All) /\ \A m \in All : m.id \in 1..calls
    /\ state \in {"none", "starting"} => All = {} /\ cbs = <<>>
    /\ state = "running" => Balanced(All, cbs)

LEMMA BackIsUnsub ==
    ASSUME BackInv
    PROVE  UnsubTakesOneBack
<1>1. ASSUME NEW type, NEW topic
      PROVE  Requests(type, topic) = Kept(All, type, topic)
    BY DEF Requests, Kept, All
<1>2. ASSUME NEW topic \in Topic
      PROVE  {i \in DOMAIN cbs : cbs[i][1] = topic} = Places(cbs, {topic} \X Func)
    <2>1. \A i \in DOMAIN cbs : cbs[i] \in Topic \X Func
        BY DEF BackInv
    <2>2. \A i \in DOMAIN cbs : cbs[i][1] = topic <=> cbs[i] \in {topic} \X Func
        BY <2>1
    <2>3. QED
        BY <2>2 DEF Places
<1>3. QED
    BY <1>1, <1>2 DEF BackInv, Balanced, UnsubTakesOneBack

LEMMA NothingIsBalanced == Balanced({}, <<>>)
<1>1. \A S : Places(<<>>, S) = {}
    BY DEF Places
<1>2. \A S : Cardinality(Places(<<>>, S)) = 0
    BY <1>1, FS_EmptySet
<1>3. \A type, topic : Cardinality(Kept({}, type, topic)) = 0
    <2>1. \A type, topic : Kept({}, type, topic) = {}
        BY DEF Kept
    <2>2. QED
        BY <2>1, FS_EmptySet
<1>4. QED
    BY <1>2, <1>3 DEF Balanced

(* A message more.                                                           *)
LEMMA OneMore ==
    ASSUME NEW S, IsFiniteSet(S), NEW e, e \notin S, NEW type, NEW topic
    PROVE  /\ Cardinality(Kept(S, type, topic)) \in Nat
           /\ Cardinality(Kept(S \cup {e}, type, topic))
                = Cardinality(Kept(S, type, topic)) + (IF e.type = type /\ e.topic = topic THEN 1 ELSE 0)
<1>1. Kept(S, type, topic) \subseteq S /\ e \notin Kept(S, type, topic)
    BY DEF Kept
<1>2. IsFiniteSet(Kept(S, type, topic))
    BY <1>1, FS_Subset
<1>3. Cardinality(Kept(S, type, topic)) \in Nat
    BY <1>2, FS_CardinalityType
<1>4. CASE e.type = type /\ e.topic = topic
    <2>1. Kept(S \cup {e}, type, topic) = Kept(S, type, topic) \cup {e}
        BY <1>4 DEF Kept
    <2>2. Cardinality(Kept(S, type, topic) \cup {e}) = Cardinality(Kept(S, type, topic)) + 1
        BY <1>1, <1>2, FS_AddElement
    <2>3. QED
        BY <1>3, <1>4, <2>1, <2>2
<1>5. CASE ~ (e.type = type /\ e.topic = topic)
    <2>1. Kept(S \cup {e}, type, topic) = Kept(S, type, topic)
        BY <1>5 DEF Kept
    <2>2. QED
        BY <1>3, <1>5, <2>1
<1>6. QED
    BY <1>3, <1>4, <1>5

LEMMA PubBalanced ==
    ASSUME NEW S, IsFiniteSet(S), NEW there, Balanced(S, there), NEW e, e \notin S, e.type = "PUB"
    PROVE  Balanced(S \cup {e}, there)
<1>1. SUFFICES ASSUME NEW other \in Topic
      PROVE  Cardinality(Kept(S \cup {e}, "SUB", other)) - Cardinality(Kept(S \cup {e}, "UNSUB", other))
             = Cardinality(Places(there, {other} \X Func))
    BY DEF Balanced
<1>2. /\ Cardinality(Kept(S, "SUB", other)) \in Nat /\ Cardinality(Kept(S, "UNSUB", other)) \in Nat
      /\ Cardinality(Kept(S \cup {e}, "SUB", other)) = Cardinality(Kept(S, "SUB", other)) + 0
      /\ Cardinality(Kept(S \cup {e}, "UNSUB", other)) = Cardinality(Kept(S, "UNSUB", other)) + 0
    <2>1. e.type # "SUB" /\ e.type # "UNSUB"
        OBVIOUS
    <2>2. QED
        BY <2>1, OneMore
<1>3. QED
    BY <1>2 DEF Balanced

LEMMA SubBalanced ==
    ASSUME NEW S, IsFiniteSet(S), NEW there \in Seq(Topic \X Func), Balanced(S, there),
           NEW topic \in Topic, NEW func \in Func,
           NEW e, e \notin S, e.type = "SUB", e.topic = topic
    PROVE  Balanced(S \cup {e}, Append(there, <<topic, func>>))
<1>1. SUFFICES ASSUME NEW other \in Topic
      PROVE  Cardinality(Kept(S \cup {e}, "SUB", other)) - Cardinality(Kept(S \cup {e}, "UNSUB", other))
             = Cardinality(Places(Append(there, <<topic, func>>), {other} \X Func))
    BY DEF Balanced
<1>2. <<topic, func>> \in Topic \X Func /\ (<<topic, func>> \in {other} \X Func <=> topic = other)
    OBVIOUS
<1>3. /\ Cardinality(Kept(S, "SUB", other)) \in Nat
      /\ Cardinality(Kept(S \cup {e}, "SUB", other))
            = Cardinality(Kept(S, "SUB", other)) + (IF topic = other THEN 1 ELSE 0)
    <2>1. e.type = "SUB" /\ e.topic = other <=> topic = other
        OBVIOUS
    <2>2. QED
        BY <2>1, OneMore
<1>4. /\ Cardinality(Kept(S, "UNSUB", other)) \in Nat
      /\ Cardinality(Kept(S \cup {e}, "UNSUB", other)) = Cardinality(Kept(S, "UNSUB", other)) + 0
    <2>1. e.type # "UNSUB"
        OBVIOUS
    <2>2. QED
        BY <2>1, OneMore
<1>5. Cardinality(Places(Append(there, <<topic, func>>), {other} \X Func))
          = Cardinality(Places(there, {other} \X Func)) + (IF topic = other THEN 1 ELSE 0)
    BY <1>2, AppendCount
<1>6. Cardinality(Places(there, {other} \X Func)) \in Nat
    BY PlacesFinite
<1>7. Cardinality(Kept(S, "SUB", other)) - Cardinality(Kept(S, "UNSUB", other))
          = Cardinality(Places(there, {other} \X Func))
    BY DEF Balanced
<1>8. QED
    BY <1>3, <1>4, <1>5, <1>6, <1>7

LEMMA UnsubBalanced ==
    ASSUME NEW S, IsFiniteSet(S), NEW there \in Seq(Topic \X Func), Balanced(S, there),
           NEW topic \in Topic, NEW func \in Func, Contains(there, <<topic, func>>),
           NEW e, e \notin S, e.type = "UNSUB", e.topic = topic
    PROVE  /\ Balanced(S \cup {e}, RemoveFirst(there, <<topic, func>>))
           /\ RemoveFirst(there, <<topic, func>>) \in Seq(Topic \X Func)
<1>1. PICK k \in 1..Len(there) :
          there[k] = <<topic, func>> /\ RemoveFirst(there, <<topic, func>>) = RemoveAt(there, k)
    BY RemoveFirstIs
<1>2. RemoveAt(there, k) \in Seq(Topic \X Func)
    BY RemoveAtIs
<1>3. ASSUME NEW other \in Topic
      PROVE  Cardinality(Kept(S \cup {e}, "SUB", other)) - Cardinality(Kept(S \cup {e}, "UNSUB", other))
             = Cardinality(Places(RemoveAt(there, k), {other} \X Func))
    <2>1. there[k] \in {other} \X Func <=> topic = other
        BY <1>1
    <2>2. /\ Cardinality(Kept(S, "SUB", other)) \in Nat
          /\ Cardinality(Kept(S \cup {e}, "SUB", other)) = Cardinality(Kept(S, "SUB", other)) + 0
        <3>1. e.type # "SUB"
            OBVIOUS
        <3>2. QED
            BY <3>1, OneMore
    <2>3. /\ Cardinality(Kept(S, "UNSUB", other)) \in Nat
          /\ Cardinality(Kept(S \cup {e}, "UNSUB", other))
                = Cardinality(Kept(S, "UNSUB", other)) + (IF topic = other THEN 1 ELSE 0)
        <3>1. e.type = "UNSUB" /\ e.topic = other <=> topic = other
            OBVIOUS
        <3>2. QED
            BY <3>1, OneMore
    <2>4. Cardinality(Places(RemoveAt(there, k), {other} \X Func))
              = Cardinality(Places(there, {other} \X Func)) - (IF topic = other THEN 1 ELSE 0)
        BY <2>1, RemoveCount
    <2>5. Cardinality(Places(there, {other} \X Func)) \in Nat
        BY PlacesFinite
    <2>6. Cardinality(Kept(S, "SUB", other)) - Cardinality(Kept(S, "UNSUB", other))
              = Cardinality(Places(there, {other} \X Func))
        BY DEF Balanced
    <2>7. QED
        BY <2>2, <2>3, <2>4, <2>5, <2>6
<1>4. QED
    BY <1>1, <1>2, <1>3 DEF Balanced

(* What a call asks for is new and the only thing that is added.             *)
LEMMA AskedIsNew ==
    ASSUME BackInv, Call, NEW type, NEW topic, Asks(type, topic), UNCHANGED <<told, missed>>
    PROVE  \E e : /\ e \notin All /\ e.type = type /\ e.topic = topic
                  /\ All' = All \cup {e} /\ IsFiniteSet(All') /\ \A m \in All' : m.id \in 1..calls'
<1> DEFINE e == [id |-> calls', type |-> type, topic |-> topic]
<1>1. calls' = calls + 1 /\ calls \in Nat
    BY DEF Call, BackInv
<1>2. calls' \in 1..calls' /\ calls' \notin 1..calls /\ 1..calls \subseteq 1..calls'
    BY <1>1
<1>3. e.id = calls' /\ e.type = type /\ e.topic = topic
    OBVIOUS
<1>4. All' = All \cup {e}
    BY DEF Asks, All
<1> HIDE DEF e
<1>5. e \notin All
    BY <1>2, <1>3 DEF BackInv
<1>6. IsFiniteSet(All')
    BY <1>4, FS_AddElement DEF BackInv
<1>7. \A m \in All' : m.id \in 1..calls'
    BY <1>2, <1>3, <1>4 DEF BackInv
<1>8. QED
    BY <1>3, <1>4, <1>5, <1>6, <1>7

(* A call that asks for nothing. *)
LEMMA NothingAsked ==
    ASSUME BackInv, Call, UNCHANGED <<state, cbs, asked, told, missed>>
    PROVE  BackInv'
<1>1. calls' = calls + 1 /\ calls \in Nat
    BY DEF Call, BackInv
<1>2. calls' \in Nat /\ 1..calls \subseteq 1..calls'
    BY <1>1
<1>3. All' = All
    BY DEF All
<1>4. QED
    BY <1>2, <1>3 DEF BackInv, Balanced, Kept, Places

LEMMA BackNext ==
    ASSUME BackInv, [ObjectNext]_object
    PROVE  BackInv'
<1>1. CASE ConnInit
    <2>1. /\ All = {} /\ cbs = <<>> /\ calls' = calls /\ cbs' = <<>>
          /\ asked' = asked /\ told' = told /\ missed' = missed
        BY <1>1 DEF ConnInit, Freed, BackInv
    <2>2. All' = {}
        BY <2>1 DEF All
    <2>3. Balanced(All', cbs')
        BY <2>1, <2>2, NothingIsBalanced
    <2>4. Balanced(All, cbs)'
        BY <2>3 DEF Balanced, Kept, Places
    <2>5. QED
        BY <2>1, <2>2, <2>4, FS_EmptySet DEF BackInv
<1>2. CASE ConnFree
    <2>1. All' = All /\ calls' = calls /\ cbs' = <<>> /\ state' = "freed"
        BY <1>2 DEF ConnFree, Freed, All
    <2>2. QED
        BY <2>1 DEF BackInv
<1>3. ASSUME NEW topic \in Topic, conn_pub(topic)
      PROVE  BackInv'
    <2>1. /\ state = "running" /\ state' = state /\ Call /\ Asks("PUB", topic)
          /\ UNCHANGED <<cbs, told, missed>>
        BY <1>3 DEF conn_pub, Call
    <2>2. PICK e : /\ e \notin All /\ e.type = "PUB" /\ All' = All \cup {e} /\ IsFiniteSet(All')
                   /\ \A m \in All' : m.id \in 1..calls'
        BY <2>1, AskedIsNew
    <2>3. Balanced(All', cbs')
        BY <2>1, <2>2, PubBalanced DEF BackInv
    <2>4. Balanced(All, cbs)'
        BY <2>3 DEF Balanced, Kept, Places
    <2>5. QED
        BY <2>1, <2>2, <2>4 DEF BackInv, Call
<1>4. ASSUME NEW topic \in Topic, NEW func \in Func, conn_sub(topic, func)
      PROVE  BackInv'
    <2>1. state = "running" /\ state' = state /\ Call /\ UNCHANGED <<told, missed>>
        BY <1>4 DEF conn_sub, Call
    <2>2. CASE UNCHANGED <<cbs, asked>>
        BY <2>1, <2>2, NothingAsked
    <2>3. CASE cbs' = Append(cbs, <<topic, func>>) /\ Asks("SUB", topic)
        <3>1. PICK e : /\ e \notin All /\ e.type = "SUB" /\ e.topic = topic
                       /\ All' = All \cup {e} /\ IsFiniteSet(All')
                       /\ \A m \in All' : m.id \in 1..calls'
            BY <2>1, <2>3, AskedIsNew
        <3>2. Balanced(All', cbs')
            BY <2>1, <2>3, <3>1, SubBalanced DEF BackInv
        <3>3. Balanced(All, cbs)'
            BY <3>2 DEF Balanced, Kept, Places
        <3>4. cbs' \in Seq(Topic \X Func)
            BY <2>3 DEF BackInv
        <3>5. QED
            BY <2>1, <3>1, <3>3, <3>4 DEF BackInv, Call
    <2>4. QED
        BY <1>4, <2>2, <2>3 DEF conn_sub
<1>5. ASSUME NEW topic \in Topic, NEW func \in Func, conn_unsub(topic, func)
      PROVE  BackInv'
    <2>1. /\ state = "running" /\ state' = state /\ Call /\ UNCHANGED <<told, missed>>
          /\ cbs' = RemoveFirst(cbs, <<topic, func>>)
        BY <1>5 DEF conn_unsub, Call
    <2>2. CASE Contains(cbs, <<topic, func>>)
        <3>1. Asks("UNSUB", topic)
            BY <1>5, <2>2 DEF conn_unsub
        <3>2. PICK e : /\ e \notin All /\ e.type = "UNSUB" /\ e.topic = topic
                       /\ All' = All \cup {e} /\ IsFiniteSet(All')
                       /\ \A m \in All' : m.id \in 1..calls'
            BY <2>1, <3>1, AskedIsNew
        <3>3. Balanced(All', cbs') /\ cbs' \in Seq(Topic \X Func)
            BY <2>1, <2>2, <3>2, UnsubBalanced DEF BackInv
        <3>4. Balanced(All, cbs)'
            BY <3>3 DEF Balanced, Kept, Places
        <3>5. QED
            BY <2>1, <3>2, <3>3, <3>4 DEF BackInv, Call
    <2>3. CASE ~Contains(cbs, <<topic, func>>)
        <3>1. asked' = asked /\ cbs' = cbs
            BY <1>5, <2>1, <2>3 DEF conn_unsub, RemoveFirst, Contains
        <3>2. QED
            BY <2>1, <3>1, NothingAsked
    <2>4. QED
        BY <2>2, <2>3
<1>6. ASSUME NEW msg \in asked, conn_msg_add(msg)
      PROVE  BackInv'
    <2>1. All' = All /\ UNCHANGED <<state, calls, cbs>>
        BY <1>6 DEF conn_msg_add, All
    <2>2. QED
        BY <2>1 DEF BackInv, Balanced, Kept, Places
<1>7. CASE TakeList \/ PutListBack \/ FreeList \/ UNCHANGED object
    <2>1. All' = All /\ UNCHANGED <<state, calls, cbs>>
        BY <1>7 DEF TakeList, PutListBack, FreeList, object, All
    <2>2. QED
        BY <2>1 DEF BackInv, Balanced, Kept, Places
<1>8. QED
    BY <1>1, <1>2, <1>3, <1>4, <1>5, <1>6, <1>7 DEF ObjectNext

(* The server is to be told to unsubscribe once for every callback that is   *)
(* taken back, and never for one that there was not (conn_sub, conn_unsub),  *)
(* whatever other threads do between the two mutexes of a call.              *)
THEOREM UnsubsMatchCallbacks == ObjectSpec => []UnsubTakesOneBack
<1>1. ObjectInit => BackInv
    <2>1. ObjectInit => All = {} /\ calls = 0 /\ cbs = <<>> /\ state = "none"
        BY DEF ObjectInit, All
    <2>2. QED
        BY <2>1, FS_EmptySet DEF BackInv
<1>2. BackInv /\ [ObjectNext]_object => BackInv'
    BY BackNext
<1>3. BackInv => UnsubTakesOneBack
    BY BackIsUnsub
<1>4. QED
    BY <1>1, <1>2, <1>3, PTL DEF ObjectSpec

(* What the connection object was given is not given back twice, for any     *)
(* topics, functions and calls, with allocations that fail: messages to the  *)
(* allocator, callbacks to the server (conn_ws.c, conn_msg.c).               *)
THEOREM NothingIsGivenBackTwice == ObjectSpec => []NeverGivenBackTwice
BY ListedMessagesAreAllocated, UnsubsMatchCallbacks, PTL DEF NeverGivenBackTwice

-----------------------------------------------------------------------------
(* The options.  An option is made with choices of different keys, as the    *)
(* names of the interfaces are.                                              *)
Values == {<<"null", 0>>} \cup ({"number"} \X Numbers) \cup ({"buffer"} \X (1..nbuffers))

Option ==
    [hint : STRING, name : STRING, type : Types, value : Values, size : {0, 1},
     choices : Seq([key : STRING, selected : BOOLEAN])]

HasBuffer(i) == opts[i].value[1] = "buffer"

(* Types, that no two options have one buffer, and that only texts have one:  *)
(* a number is written over the value that was there.                        *)
BuffersInv ==
    /\ nbuffers \in Nat /\ opts \in Seq(Option)
    /\ \A i \in DOMAIN opts :
           (opts[i].size > 0 <=> HasBuffer(i)) /\ (HasBuffer(i) => opts[i].type = "text")
    /\ \A i, j \in DOMAIN opts :
           HasBuffer(i) /\ HasBuffer(j) /\ opts[i].value[2] = opts[j].value[2] => i = j
    /\ buffers = {opts[i].value[2] : i \in {i \in DOMAIN opts : HasBuffer(i)}}

(* Keys of choices differ, and of those of a single choice one is selected. *)
ChoicesDiffer(opt) ==
    /\ \A j, k \in DOMAIN opt.choices : opt.choices[j].key = opt.choices[k].key => j = k
    /\ opt.type = "single" =>
           \A j, k \in DOMAIN opt.choices :
               opt.choices[j].selected /\ opt.choices[k].selected => j = k

ChoicesInv == \A i \in DOMAIN opts : ChoicesDiffer(opts[i])

LEMMA BuffersCount ==
    ASSUME BuffersInv
    PROVE  BuffersAreOwned
<1> DEFINE I == {i \in DOMAIN opts : HasBuffer(i)}
           f == [i \in I |-> opts[i].value[2]]
<1>1. IsFiniteSet(I)
    <2>1. I \in SUBSET (1..Len(opts)) /\ Len(opts) \in Int
        BY DEF BuffersInv
    <2>2. IsFiniteSet(1..Len(opts))
        BY <2>1, FS_Interval
    <2>3. QED
        BY <2>1, <2>2, FS_Subset
<1>2. f \in [I -> buffers] /\ \A i, j \in I : f[i] = f[j] => i = j
    BY DEF BuffersInv
<1>3. \A b \in buffers : \E i \in I : f[i] = b
    BY DEF BuffersInv
<1>4. ExistsBijection(I, buffers)
    <2>1. f \in Bijection(I, buffers)
        BY <1>2, <1>3 DEF Bijection, Injection, Surjection, IsInjective
    <2>2. QED
        BY <2>1 DEF ExistsBijection
<1>5. Cardinality(buffers) = Cardinality(I)
    BY <1>1, <1>4, FS_Bijection
<1>6. Cardinality(buffers) = Cardinality(I)
    BY <1>5
<1>7. I = {i \in DOMAIN opts : opts[i].value[1] = "buffer"}
    BY DEF HasBuffer
<1>8. QED
    BY <1>6, <1>7 DEF BuffersAreOwned, BuffersInv, HasBuffer

LEMMA OneSelected ==
    ASSUME BuffersInv, ChoicesInv
    PROVE  OneIsSelected
<1>1. SUFFICES ASSUME NEW i \in DOMAIN opts, opts[i].type = "single"
      PROVE  Cardinality({j \in DOMAIN opts[i].choices : opts[i].choices[j].selected}) <= 1
    BY DEF OneIsSelected
<1> DEFINE chosen == {j \in DOMAIN opts[i].choices : opts[i].choices[j].selected}
<1>2. CASE chosen = {}
    BY <1>2, FS_EmptySet
<1>3. ASSUME NEW j \in chosen PROVE Cardinality(chosen) <= 1
    <2>1. chosen = {j}
        BY <1>1 DEF ChoicesInv, ChoicesDiffer
    <2>2. Cardinality({j}) = 1
        BY FS_Singleton
    <2>3. QED
        BY <2>1, <2>2
<1>4. QED
    BY <1>2, <1>3

(* Only one option answers to either key, and it is the first that does. *)
LEMMA FoundAlone ==
    ASSUME BuffersInv
    PROVE  FoundByEitherKey
<1>1. SUFFICES ASSUME NEW i \in DOMAIN opts, \A j \in DOMAIN opts : opts[j].name = opts[i].name => i = j
      PROVE  Find(opts[i].hint, opts[i].name) = i /\ Find("", opts[i].name) = i
    BY DEF FoundByEitherKey
<1>2. DOMAIN opts = 1..Len(opts) /\ i \in Nat
    BY DEF BuffersInv
<1>3. ASSUME NEW hint \in {"", opts[i].hint}
      PROVE  Find(hint, opts[i].name) = i
    <2>1. {j \in 1..Len(opts) : Answers(opts[j], hint, opts[i].name)} = {i}
        BY <1>1, <1>2 DEF Answers
    <2>2. {i} \in SUBSET Nat /\ {i} # {}
        BY <1>2
    <2>3. Min({i}) = i
        BY <2>2, MinIsIn
    <2>4. Min({i}) = i
        BY <2>3
    <2>5. QED
        BY <2>1, <2>4 DEF Find, SelectInSeq
<1>4. QED
    BY <1>3

(* A step that replaces one option frees the buffer that it had, unless it   *)
(* keeps it, and gives it none that another one has.                         *)
LEMMA BuffersReplaced ==
    ASSUME BuffersInv, NEW i \in DOMAIN opts, NEW o \in Option',
           nbuffers' \in Nat, nbuffers <= nbuffers',
           o.size > 0 <=> o.value[1] = "buffer", o.value[1] = "buffer" => o.type = "text",
           \A j \in DOMAIN opts :
               j # i /\ HasBuffer(j) /\ o.value[1] = "buffer" => o.value[2] # opts[j].value[2],
           opts' = [opts EXCEPT ![i] = o],
           buffers' = (buffers \ TextOf(opts[i])) \cup TextOf(o)
    PROVE  BuffersInv'
<1>1. DOMAIN opts = 1..Len(opts) /\ Len(opts) \in Nat /\ nbuffers \in Nat
    BY DEF BuffersInv
<1>2. Option \subseteq Option'
    <2>1. Values \subseteq Values'
        BY <1>1 DEF Values
    <2>2. QED
        BY <2>1 DEF Option
<1>3. DOMAIN opts' = DOMAIN opts /\ opts'[i] = o /\ \A j \in DOMAIN opts : j # i => opts'[j] = opts[j]
    OBVIOUS
<1>4. opts' \in Seq(Option')
    <2>1. opts \in Seq(Option')
        BY <1>1, <1>2 DEF BuffersInv
    <2>2. QED
        BY <2>1
<1>5. \A j \in DOMAIN opts :
          (opts'[j].size > 0 <=> HasBuffer(j)') /\ (HasBuffer(j)' => opts'[j].type = "text")
    BY <1>3 DEF BuffersInv, HasBuffer
<1>6. \A j, k \in DOMAIN opts :
          HasBuffer(j)' /\ HasBuffer(k)' /\ opts'[j].value[2] = opts'[k].value[2] => j = k
    <2>1. SUFFICES ASSUME NEW j \in DOMAIN opts, NEW k \in DOMAIN opts,
                          HasBuffer(j)', HasBuffer(k)', opts'[j].value[2] = opts'[k].value[2]
          PROVE  j = k
        OBVIOUS
    <2>2. CASE j # i /\ k # i
        BY <1>3, <2>1, <2>2 DEF BuffersInv, HasBuffer
    <2>3. CASE j = i \/ k = i
        BY <1>3, <2>1, <2>3 DEF HasBuffer
    <2>4. QED
        BY <2>2, <2>3
<1>7. buffers' = {opts'[j].value[2] : j \in {j \in DOMAIN opts' : HasBuffer(j)'}}
    <2>1. ASSUME NEW b \in buffers'
          PROVE  \E j \in DOMAIN opts' : HasBuffer(j)' /\ b = opts'[j].value[2]
        <3>1. CASE b \in TextOf(o)
            BY <1>3, <3>1 DEF HasBuffer, TextOf
        <3>2. CASE b \in buffers \ TextOf(opts[i])
            <4>1. PICK j \in DOMAIN opts : HasBuffer(j) /\ b = opts[j].value[2]
                BY <3>2 DEF BuffersInv
            <4>2. j # i
                BY <3>2, <4>1 DEF TextOf, BuffersInv
            <4>3. QED
                BY <1>3, <4>1, <4>2 DEF HasBuffer
        <3>3. QED
            BY <3>1, <3>2
    <2>2. ASSUME NEW j \in DOMAIN opts', HasBuffer(j)'
          PROVE  opts'[j].value[2] \in buffers'
        <3>1. CASE j = i
            BY <1>3, <2>2, <3>1 DEF HasBuffer, TextOf
        <3>2. CASE j # i
            <4>1. HasBuffer(j) /\ opts'[j].value[2] = opts[j].value[2] /\ opts[j].value[2] \in buffers
                BY <1>3, <2>2, <3>2 DEF HasBuffer, BuffersInv
            <4>2. opts[j].value[2] \notin TextOf(opts[i])
                BY <1>3, <3>2, <4>1 DEF TextOf, BuffersInv
            <4>3. QED
                BY <4>1, <4>2
        <3>3. QED
            BY <3>1, <3>2
    <2>3. QED
        BY <2>1, <2>2
<1>8. QED
    BY <1>3, <1>4, <1>5, <1>6, <1>7 DEF BuffersInv

LEMMA OptionsReplaced ==
    ASSUME BuffersInv, ChoicesInv, NEW i \in DOMAIN opts, NEW o, ChoicesDiffer(o),
           opts' = [opts EXCEPT ![i] = o]
    PROVE  ChoicesInv'
<1>1. DOMAIN opts' = DOMAIN opts /\ opts'[i] = o /\ \A j \in DOMAIN opts : j # i => opts'[j] = opts[j]
    BY DEF BuffersInv
<1>2. QED
    BY <1>1 DEF ChoicesInv, ChoicesDiffer

(* A new option has neither value nor selection. *)
LEMMA OptionsAppended ==
    ASSUME BuffersInv, ChoicesInv, NEW o \in Option, o.value = <<"null", 0>>, o.size = 0,
           \A j \in DOMAIN o.choices : ~o.choices[j].selected,
           \A j, k \in DOMAIN o.choices : o.choices[j].key = o.choices[k].key => j = k,
           opts' = Append(opts, o), UNCHANGED <<buffers, nbuffers>>
    PROVE  BuffersInv' /\ ChoicesInv'
<1>1. /\ DOMAIN opts = 1..Len(opts) /\ Len(opts) \in Nat
      /\ DOMAIN opts' = 1..(Len(opts) + 1)
      /\ opts'[Len(opts) + 1] = o /\ \A j \in DOMAIN opts : opts'[j] = opts[j]
    BY DEF BuffersInv
<1>2. Option' = Option
    BY DEF Option, Values
<1>3. opts' \in Seq(Option')
    BY <1>2 DEF BuffersInv
<1>4. \A j \in DOMAIN opts' : HasBuffer(j)' <=> j \in DOMAIN opts /\ HasBuffer(j)
    BY <1>1 DEF HasBuffer
<1>5. {opts'[j].value[2] : j \in {j \in DOMAIN opts' : HasBuffer(j)'}}
          = {opts[j].value[2] : j \in {j \in DOMAIN opts : HasBuffer(j)}}
    BY <1>1, <1>4
<1>6. \A j \in DOMAIN opts' :
          (opts'[j].size > 0 <=> HasBuffer(j)') /\ (HasBuffer(j)' => opts'[j].type = "text")
    BY <1>1, <1>4 DEF BuffersInv
<1>7. \A j, k \in DOMAIN opts' :
          HasBuffer(j)' /\ HasBuffer(k)' /\ opts'[j].value[2] = opts'[k].value[2] => j = k
    BY <1>1, <1>4 DEF BuffersInv
<1>8. BuffersInv'
    BY <1>3, <1>5, <1>6, <1>7 DEF BuffersInv
<1>9. ChoicesDiffer(o)
    BY DEF ChoicesDiffer
<1>10. ChoicesInv'
    BY <1>1, <1>9 DEF ChoicesInv, ChoicesDiffer
<1>11. QED
    BY <1>8, <1>10

LEMMA OptionsFreed ==
    ASSUME BuffersInv, ChoicesInv, NEW i \in DOMAIN opts, FreeOption(i)
    PROVE  BuffersInv' /\ ChoicesInv'
<1> DEFINE was(j) == IF j < i THEN j ELSE j + 1
<1>1. /\ DOMAIN opts = 1..Len(opts) /\ Len(opts) \in Nat /\ i \in 1..Len(opts)
      /\ opts' = RemoveAt(opts, i) /\ buffers' = buffers \ TextOf(opts[i]) /\ nbuffers' = nbuffers
    BY DEF BuffersInv, FreeOption
<1>2. /\ opts' \in Seq(Option) /\ DOMAIN opts' = 1..(Len(opts) - 1)
      /\ \A j \in 1..(Len(opts) - 1) : opts'[j] = opts[was(j)]
    <2>1. opts \in Seq(Option)
        BY DEF BuffersInv
    <2>2. /\ opts' \in Seq(Option) /\ Len(opts') = Len(opts) - 1
          /\ \A j \in 1..(Len(opts) - 1) : opts'[j] = IF j < i THEN opts[j] ELSE opts[j + 1]
        BY <1>1, <2>1, RemoveAtIs
    <2>3. QED
        BY <1>1, <2>2
<1>3. /\ \A j \in DOMAIN opts' : was(j) \in DOMAIN opts /\ was(j) # i
      /\ \A j, k \in DOMAIN opts' : was(j) = was(k) => j = k
      /\ \A j \in DOMAIN opts : j # i => \E k \in DOMAIN opts' : was(k) = j
    <2>1. \A j \in DOMAIN opts : j # i => (IF j < i THEN j ELSE j - 1) \in DOMAIN opts'
        BY <1>1, <1>2
    <2>2. \A j \in DOMAIN opts : j # i => was(IF j < i THEN j ELSE j - 1) = j
        BY <1>1, <1>2
    <2>3. QED
        BY <1>1, <1>2, <2>1, <2>2
<1> HIDE DEF was
<1>4. \A j \in DOMAIN opts' : opts'[j] = opts[was(j)] /\ (HasBuffer(j)' <=> HasBuffer(was(j)))
    BY <1>2 DEF HasBuffer
<1>5. opts' \in Seq(Option')
    BY <1>1, <1>2 DEF Option, Values
<1>6. \A j \in DOMAIN opts' :
          (opts'[j].size > 0 <=> HasBuffer(j)') /\ (HasBuffer(j)' => opts'[j].type = "text")
    BY <1>3, <1>4 DEF BuffersInv
<1>7. \A j, k \in DOMAIN opts' :
          HasBuffer(j)' /\ HasBuffer(k)' /\ opts'[j].value[2] = opts'[k].value[2] => j = k
    BY <1>3, <1>4 DEF BuffersInv
<1>8. buffers' = {opts'[j].value[2] : j \in {j \in DOMAIN opts' : HasBuffer(j)'}}
    <2>1. ASSUME NEW b \in buffers'
          PROVE  \E j \in DOMAIN opts' : HasBuffer(j)' /\ b = opts'[j].value[2]
        <3>1. PICK k \in DOMAIN opts : HasBuffer(k) /\ b = opts[k].value[2]
            BY <1>1, <2>1 DEF BuffersInv
        <3>2. k # i
            BY <1>1, <2>1, <3>1 DEF TextOf, BuffersInv
        <3>3. QED
            BY <1>3, <1>4, <3>1, <3>2
    <2>2. ASSUME NEW j \in DOMAIN opts', HasBuffer(j)'
          PROVE  opts'[j].value[2] \in buffers'
        <3>1. was(j) \in DOMAIN opts /\ was(j) # i /\ HasBuffer(was(j)) /\ opts'[j].value[2] = opts[was(j)].value[2]
            BY <1>3, <1>4, <2>2
        <3>2. opts[was(j)].value[2] \in buffers
            BY <3>1 DEF BuffersInv
        <3>3. opts[was(j)].value[2] \notin TextOf(opts[i])
            BY <3>1 DEF TextOf, BuffersInv
        <3>4. QED
            BY <1>1, <3>1, <3>2, <3>3
    <2>3. QED
        BY <2>1, <2>2
<1>9. BuffersInv'
    BY <1>1, <1>5, <1>6, <1>7, <1>8 DEF BuffersInv
<1>10. ChoicesInv'
    BY <1>3, <1>4 DEF ChoicesInv
<1>11. QED
    BY <1>9, <1>10

LEMMA OptionsMade ==
    ASSUME BuffersInv, ChoicesInv, NEW kind \in Kinds, Make(kind)
    PROVE  BuffersInv' /\ ChoicesInv'
<1>1. /\ kind \in [hint : STRING, name : STRING, type : Types, choices : Seq(STRING)]
      /\ \A j, k \in DOMAIN kind.choices : kind.choices[j] = kind.choices[k] => j = k
    BY KindsAreOptions
<1> DEFINE o == Made(kind)
<1>2. /\ o = [hint |-> kind.hint, name |-> kind.name, type |-> kind.type, value |-> <<"null", 0>>, size |-> 0,
              choices |-> [j \in DOMAIN kind.choices |-> [key |-> kind.choices[j], selected |-> FALSE]]]
    BY DEF Made, Null, Choice
<1> HIDE DEF o
<1>3. o.choices \in Seq([key : STRING, selected : BOOLEAN])
    <2>1. /\ DOMAIN kind.choices = 1..Len(kind.choices) /\ Len(kind.choices) \in Nat
          /\ \A j \in DOMAIN kind.choices : kind.choices[j] \in STRING
        BY <1>1
    <2>2. o.choices \in [1..Len(kind.choices) -> [key : STRING, selected : BOOLEAN]]
        BY <1>2, <2>1
    <2>3. QED
        BY <2>1, <2>2, FunctionIsSeq
<1>4. o \in Option
    BY <1>1, <1>2, <1>3 DEF Option, Values
<1>5. /\ o.value = <<"null", 0>> /\ o.size = 0
      /\ \A j \in DOMAIN o.choices : ~o.choices[j].selected
      /\ \A j, k \in DOMAIN o.choices : o.choices[j].key = o.choices[k].key => j = k
    BY <1>1, <1>2
<1>6. opts' = Append(opts, o) /\ UNCHANGED <<buffers, nbuffers>>
    BY DEF Make, o
<1>7. QED
    BY <1>4, <1>5, <1>6, OptionsAppended

LEMMA OptionsCloned ==
    ASSUME BuffersInv, ChoicesInv, NEW i \in DOMAIN opts, Clone(i)
    PROVE  BuffersInv' /\ ChoicesInv'
<1>1. /\ opts[i] \in Option
      /\ \A j, k \in DOMAIN opts[i].choices : opts[i].choices[j].key = opts[i].choices[k].key => j = k
    BY DEF BuffersInv, ChoicesInv, ChoicesDiffer
<1> DEFINE o == [hint |-> opts[i].hint, name |-> opts[i].name, type |-> opts[i].type,
                 value |-> <<"null", 0>>, size |-> 0,
                 choices |-> [j \in DOMAIN opts[i].choices |->
                                 [key |-> opts[i].choices[j].key, selected |-> FALSE]]]
<1>2. opts[i].choices \in Seq([key : STRING, selected : BOOLEAN])
    BY <1>1 DEF Option
<1>3. o.choices \in Seq([key : STRING, selected : BOOLEAN])
    <2>1. /\ DOMAIN opts[i].choices = 1..Len(opts[i].choices) /\ Len(opts[i].choices) \in Nat
          /\ \A j \in DOMAIN opts[i].choices : opts[i].choices[j].key \in STRING
        <3>1. /\ DOMAIN opts[i].choices = 1..Len(opts[i].choices) /\ Len(opts[i].choices) \in Nat
              /\ \A j \in DOMAIN opts[i].choices :
                     opts[i].choices[j] \in [key : STRING, selected : BOOLEAN]
            BY <1>2, ElementsOf
        <3>2. QED
            BY <3>1
    <2>2. o.choices \in [1..Len(opts[i].choices) -> [key : STRING, selected : BOOLEAN]]
        BY <2>1
    <2>3. QED
        BY <2>1, <2>2, FunctionIsSeq
<1>4. o \in Option
    BY <1>1, <1>3 DEF Option, Values
<1>5. /\ o.value = <<"null", 0>> /\ o.size = 0
      /\ \A j \in DOMAIN o.choices : ~o.choices[j].selected
      /\ \A j, k \in DOMAIN o.choices : o.choices[j].key = o.choices[k].key => j = k
    BY <1>1
<1>6. opts' = Append(opts, o) /\ UNCHANGED <<buffers, nbuffers>>
    BY DEF Clone, Made, Null, Choice
<1> HIDE DEF o
<1>7. QED
    BY <1>4, <1>5, <1>6, OptionsAppended

(* A step that sets the value of an option. *)
LEMMA ValueSet ==
    ASSUME BuffersInv, ChoicesInv, NEW i \in DOMAIN opts, NEW v \in Values', NEW n \in {0, 1},
           nbuffers' \in Nat, nbuffers <= nbuffers',
           n > 0 <=> v[1] = "buffer",
           v[1] = "buffer" => opts[i].type = "text" /\ v[2] > nbuffers,
           opts' = [opts EXCEPT ![i].value = v, ![i].size = n],
           buffers' = (buffers \ TextOf(opts[i])) \cup (IF n > 0 THEN {v[2]} ELSE {})
    PROVE  BuffersInv' /\ ChoicesInv'
<1> DEFINE o == [opts[i] EXCEPT !.value = v, !.size = n]
<1>1. opts \in Seq(Option) /\ opts[i] \in Option /\ nbuffers \in Nat
    BY DEF BuffersInv
<1>2. /\ o \in Option' /\ o.value = v /\ o.size = n /\ o.type = opts[i].type /\ o.choices = opts[i].choices
    BY <1>1 DEF Option
<1>3. opts' = [opts EXCEPT ![i] = o]
    BY <1>1
<1> HIDE DEF o
<1>4. \A j \in DOMAIN opts : HasBuffer(j) => opts[j].value[2] \in 1..nbuffers
    <2>1. \A j \in DOMAIN opts : opts[j].value \in Values
        <3>1. \A j \in DOMAIN opts : opts[j] \in Option
            BY <1>1
        <3>2. QED
            BY <3>1 DEF Option
    <2>2. QED
        BY <2>1 DEF HasBuffer, Values
<1>5. \A j \in DOMAIN opts :
          j # i /\ HasBuffer(j) /\ o.value[1] = "buffer" => o.value[2] # opts[j].value[2]
    BY <1>1, <1>2, <1>4
<1>6. TextOf(o) = IF n > 0 THEN {v[2]} ELSE {}
    BY <1>2 DEF TextOf
<1>7. BuffersInv'
    <2>1. (o.size > 0 <=> o.value[1] = "buffer") /\ (o.value[1] = "buffer" => o.type = "text")
        BY <1>2
    <2>2. buffers' = (buffers \ TextOf(opts[i])) \cup TextOf(o)
        BY <1>6
    <2>3. QED
        BY <1>2, <1>3, <1>5, <2>1, <2>2, BuffersReplaced
<1>8. ChoicesDiffer(o)
    BY <1>2 DEF ChoicesInv, ChoicesDiffer
<1>9. ChoicesInv'
    BY <1>3, <1>8, OptionsReplaced
<1>10. QED
    BY <1>7, <1>9

(* A step that selects the choices whose keys are given. *)
LEMMA SelectionSet ==
    ASSUME BuffersInv, ChoicesInv, NEW i \in DOMAIN opts, NEW keys, SelectKeys(i, keys),
           opts[i].type = "multi" \/ \E key : keys = {key},
           opts[i].type \in {"single", "multi"},
           UNCHANGED <<buffers, nbuffers>>
    PROVE  BuffersInv' /\ ChoicesInv'
<1> DEFINE old == opts[i].choices
           new == [j \in DOMAIN old |-> [old[j] EXCEPT !.selected = old[j].key \in keys]]
           o == [opts[i] EXCEPT !.choices = new]
<1>1. opts \in Seq(Option) /\ opts[i] \in Option /\ nbuffers \in Nat /\ ChoicesDiffer(opts[i])
    BY DEF BuffersInv, ChoicesInv
<1>2. old \in Seq([key : STRING, selected : BOOLEAN])
    BY <1>1 DEF Option
<1>3. /\ DOMAIN old = 1..Len(old) /\ Len(old) \in Nat
      /\ \A j \in DOMAIN old : old[j] \in [key : STRING, selected : BOOLEAN]
    BY <1>2, ElementsOf
<1>4. /\ new \in [1..Len(old) -> [key : STRING, selected : BOOLEAN]]
      /\ \A j \in DOMAIN old : new[j].key = old[j].key /\ (new[j].selected <=> old[j].key \in keys)
    <2>1. ASSUME NEW j \in DOMAIN old
          PROVE  /\ new[j] = [old[j] EXCEPT !.selected = old[j].key \in keys]
                 /\ new[j] \in [key : STRING, selected : BOOLEAN]
                 /\ new[j].key = old[j].key /\ (new[j].selected <=> old[j].key \in keys)
        <3> DEFINE b == old[j].key \in keys
        <3>1. new[j] = [old[j] EXCEPT !.selected = b]
            OBVIOUS
        <3>2. b \in BOOLEAN
            OBVIOUS
        <3> HIDE DEF b, new
        <3>3. /\ [old[j] EXCEPT !.selected = b] \in [key : STRING, selected : BOOLEAN]
              /\ [old[j] EXCEPT !.selected = b].key = old[j].key
              /\ [old[j] EXCEPT !.selected = b].selected = b
            BY <1>3, <3>2
        <3>4. QED
            BY <3>1, <3>3 DEF b
    <2>2. DOMAIN new = DOMAIN old /\ new = [j \in DOMAIN old |-> new[j]]
        OBVIOUS
    <2> HIDE DEF new
    <2>3. QED
        BY <1>3, <2>1, <2>2
<1>5. new \in Seq([key : STRING, selected : BOOLEAN])
    BY <1>3, <1>4, FunctionIsSeq
<1>6. opts' = [opts EXCEPT ![i] = o]
    BY <1>1 DEF SelectKeys
<1> HIDE DEF new
<1>7. /\ o \in Option /\ o.value = opts[i].value /\ o.size = opts[i].size
      /\ o.type = opts[i].type /\ o.choices = new
    BY <1>1, <1>5 DEF Option
<1> HIDE DEF o
<1>8. Option' = Option
    BY DEF Option, Values
<1>9. (o.size > 0 <=> o.value[1] = "buffer") /\ (o.value[1] = "buffer" => o.type = "text")
    BY <1>7 DEF BuffersInv, HasBuffer
<1>10. o.value[1] # "buffer" /\ TextOf(o) = {} /\ TextOf(opts[i]) = {}
    BY <1>7, <1>9 DEF TextOf
<1>11. BuffersInv'
    <2>1. buffers' = (buffers \ TextOf(opts[i])) \cup TextOf(o)
        BY <1>10
    <2>2. /\ o \in Option' /\ nbuffers' \in Nat /\ nbuffers <= nbuffers'
          /\ \A j \in DOMAIN opts :
                 j # i /\ HasBuffer(j) /\ o.value[1] = "buffer" => o.value[2] # opts[j].value[2]
        BY <1>1, <1>7, <1>8, <1>10
    <2>3. QED
        BY <1>6, <1>9, <2>1, <2>2, BuffersReplaced
<1>12. ChoicesDiffer(o)
    <2>1. DOMAIN o.choices = DOMAIN old
        BY <1>3, <1>4, <1>7
    <2>2. \A j, k \in DOMAIN o.choices : o.choices[j].key = o.choices[k].key => j = k
        BY <1>1, <1>4, <1>7, <2>1 DEF ChoicesDiffer
    <2>3. ASSUME o.type = "single", NEW j \in DOMAIN o.choices, NEW k \in DOMAIN o.choices,
                 o.choices[j].selected, o.choices[k].selected
          PROVE  j = k
        <3>1. PICK key : keys = {key}
            BY <1>7, <2>3
        <3>2. old[j].key = key /\ old[k].key = key
            BY <1>4, <1>7, <2>1, <2>3, <3>1
        <3>3. QED
            BY <1>1, <2>1, <3>2 DEF ChoicesDiffer
    <2>4. QED
        BY <2>2, <2>3 DEF ChoicesDiffer
<1>13. ChoicesInv'
    BY <1>6, <1>12, OptionsReplaced
<1>14. QED
    BY <1>11, <1>13

LEMMA OptionsKept ==
    ASSUME BuffersInv, ChoicesInv, [OptionsNext]_settings
    PROVE  BuffersInv' /\ ChoicesInv'
<1>1. ASSUME NEW kind \in Kinds, Make(kind)
      PROVE  BuffersInv' /\ ChoicesInv'
    BY <1>1, OptionsMade
<1>2. ASSUME NEW i \in DOMAIN opts, Clone(i)
      PROVE  BuffersInv' /\ ChoicesInv'
    BY <1>2, OptionsCloned
<1>3. ASSUME NEW i \in DOMAIN opts, FreeOption(i)
      PROVE  BuffersInv' /\ ChoicesInv'
    BY <1>3, OptionsFreed
<1>4. ASSUME NEW i \in DOMAIN opts, SetText(i)
      PROVE  BuffersInv' /\ ChoicesInv'
    <2>1. nbuffers \in Nat /\ nbuffers' = nbuffers + 1
        BY <1>4 DEF BuffersInv, SetText
    <2>2. <<"buffer", nbuffers'>> \in Values'
        BY <2>1 DEF Values
    <2>3. /\ opts' = [opts EXCEPT ![i].value = <<"buffer", nbuffers'>>, ![i].size = 1]
          /\ buffers' = (buffers \ TextOf(opts[i])) \cup {nbuffers'}
          /\ opts[i].type = "text"
        BY <1>4 DEF SetText, Buffer
    <2>4. nbuffers' \in Nat /\ nbuffers <= nbuffers' /\ nbuffers' > nbuffers
        BY <2>1
    <2> DEFINE v == <<"buffer", nbuffers'>>
               n == 1
    <2>5. v[1] = "buffer" /\ v[2] = nbuffers' /\ v \in Values' /\ n \in {0, 1} /\ n > 0
        BY <2>2
    <2> HIDE DEF v, n
    <2>6. opts' = [opts EXCEPT ![i].value = v, ![i].size = n]
        BY <2>3 DEF v, n
    <2>7. buffers' = (buffers \ TextOf(opts[i])) \cup (IF n > 0 THEN {v[2]} ELSE {})
        BY <2>3, <2>5
    <2>8. (n > 0 <=> v[1] = "buffer") /\ opts[i].type = "text" /\ v[2] > nbuffers
        BY <2>3, <2>4, <2>5
    <2>9. QED
        BY <2>4, <2>5, <2>6, <2>7, <2>8, ValueSet
<1>5. ASSUME NEW i \in DOMAIN opts, ClearText(i)
      PROVE  BuffersInv' /\ ChoicesInv'
    <2>1. nbuffers \in Nat /\ nbuffers' = nbuffers
        BY <1>5 DEF BuffersInv, ClearText
    <2>2. <<"null", 0>> \in Values'
        BY DEF Values
    <2>3. /\ opts' = [opts EXCEPT ![i].value = <<"null", 0>>, ![i].size = 0]
          /\ buffers' = (buffers \ TextOf(opts[i])) \cup {}
        BY <1>5 DEF ClearText, Null
    <2> DEFINE v == <<"null", 0>>
               n == 0
    <2>4. /\ v[1] # "buffer" /\ v \in Values' /\ nbuffers' \in Nat /\ nbuffers <= nbuffers'
          /\ n \in {0, 1} /\ ~(n > 0)
        BY <2>1, <2>2
    <2> HIDE DEF v, n
    <2>5. opts' = [opts EXCEPT ![i].value = v, ![i].size = n]
        BY <2>3 DEF v, n
    <2>6. buffers' = (buffers \ TextOf(opts[i])) \cup (IF n > 0 THEN {v[2]} ELSE {})
        BY <2>3, <2>4
    <2>7. QED
        BY <2>4, <2>5, <2>6, ValueSet
<1>6. ASSUME NEW i \in DOMAIN opts, NEW n \in Numbers, SetNumber(i, n)
      PROVE  BuffersInv' /\ ChoicesInv'
    <2>1. nbuffers \in Nat /\ nbuffers' = nbuffers /\ buffers' = buffers
        BY <1>6 DEF BuffersInv, SetNumber
    <2>2. <<"number", n>> \in Values'
        BY DEF Values
    <2>3. opts[i].size = 0 /\ opts[i] \in Option /\ opts \in Seq(Option)
        <3>1. opts[i] \in Option /\ opts \in Seq(Option)
            BY DEF BuffersInv
        <3>2. opts[i].size \in {0, 1} /\ opts[i].type # "text"
            BY <1>6, <3>1 DEF Option, SetNumber
        <3>3. QED
            BY <3>1, <3>2 DEF BuffersInv
    <2>4. opts' = [opts EXCEPT ![i].value = <<"number", n>>, ![i].size = 0]
        <3>1. opts' = [opts EXCEPT ![i].value = <<"number", n>>]
            BY <1>6 DEF SetNumber, Number
        <3>2. [opts[i] EXCEPT !.value = <<"number", n>>] = [opts[i] EXCEPT !.value = <<"number", n>>, !.size = 0]
            BY <2>3 DEF Option
        <3>3. QED
            BY <3>1, <3>2
    <2>5. buffers' = (buffers \ TextOf(opts[i])) \cup {}
        BY <2>1, <2>3 DEF TextOf
    <2> DEFINE v == <<"number", n>>
               size == 0
    <2>6. /\ v[1] # "buffer" /\ v \in Values' /\ nbuffers' \in Nat /\ nbuffers <= nbuffers'
          /\ size \in {0, 1} /\ ~(size > 0)
        BY <2>1, <2>2
    <2> HIDE DEF v, size
    <2>7. opts' = [opts EXCEPT ![i].value = v, ![i].size = size]
        BY <2>4 DEF v, size
    <2>8. buffers' = (buffers \ TextOf(opts[i])) \cup (IF size > 0 THEN {v[2]} ELSE {})
        BY <2>5, <2>6
    <2>9. QED
        BY <2>6, <2>7, <2>8, ValueSet
<1>7. ASSUME NEW i \in DOMAIN opts, NEW key, SetSingle(i, key)
      PROVE  BuffersInv' /\ ChoicesInv'
    BY <1>7, SelectionSet DEF SetSingle, Chosen
<1>8. ASSUME NEW i \in DOMAIN opts, NEW key, NEW value \in BOOLEAN, SetMulti(i, key, value)
      PROVE  BuffersInv' /\ ChoicesInv'
    BY <1>8, SelectionSet DEF SetMulti
<1>9. CASE UNCHANGED settings
    BY <1>9 DEF settings, BuffersInv, ChoicesInv, HasBuffer, Option, Values, ChoicesDiffer
<1>10. QED
    BY <1>1, <1>2, <1>3, <1>4, <1>5, <1>6, <1>7, <1>8, <1>9 DEF OptionsNext

(* Every buffer belongs to one option, which frees it with itself or when it *)
(* gets another text, and a number is never taken for a buffer               *)
(* (nf_cfg_option_set_*, nf_cfg_option_free).  Of a single choice one is     *)
(* selected at most (nf_cfg_choice_set), and an option alone of its name is   *)
(* found with its hint and without (nf_cfg_option_find).                     *)
THEOREM OptionsStayConsistent == OptionsSpec => []OptionsAreConsistent
<1>1. OptionsInit => BuffersInv /\ ChoicesInv
    BY DEF OptionsInit, BuffersInv, ChoicesInv, HasBuffer
<1>2. BuffersInv /\ ChoicesInv /\ [OptionsNext]_settings => (BuffersInv /\ ChoicesInv)'
    BY OptionsKept
<1>3. BuffersInv /\ ChoicesInv => OptionsAreConsistent
    BY BuffersCount, OneSelected, FoundAlone DEF OptionsAreConsistent
<1>4. QED
    BY <1>1, <1>2, <1>3, PTL DEF OptionsSpec
=============================================================================
