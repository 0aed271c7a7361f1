------------------------------- MODULE PubSub -------------------------------
(***************************************************************************)
(* What the broker promises to its clients, without frames, locks,         *)
(* transactions or the order in which a handler works (broker.py).  A row   *)
(* is a topic and a value.  A publication is first made, then told to       *)
(* everybody who asked for its topic, and only rows that are being          *)
(* published become visible; who joins is told of all that is visible.      *)
(* An exception may take a publisher's rows away from those who wait for    *)
(* them: such a row is lost to them, which the promise has to admit.        *)
(***************************************************************************)
CONSTANTS Client, Topic, Pattern, Value, Covers

VARIABLES
    asked,      \* asked[p]: the clients that asked for the topics of p
    joined,     \* joined[p]: those of them that have been told what is visible
    visible,    \* rows that a client which asks now is told of
    publishing, \* publishing[a]: rows that a publishes, subscribers not yet found
    due,        \* due[a][d]: rows on their way from publisher, or request, a to d
    told,       \* told[d]: rows that d was sent, or published, since last published
    lost        \* lost[d]: rows that an exception kept from d

vars == <<asked, joined, visible, publishing, due, told, lost>>

Row == Topic \X Value
Of(rows, p) == {r \in rows : r[1] \in Covers[p]}
Asking(r) == UNION {asked[p] : p \in {p \in Pattern : r[1] \in Covers[p]}}

(* Everything that a client has, will get from others, or cannot be told. *)
Has(d) ==
    told[d] \cup lost[d] \cup (UNION {due[a][d] : a \in Client})
        \cup (UNION {publishing[a] : a \in Client \ {d}})

Init ==
    /\ asked = [p \in Pattern |-> {}] /\ joined = [p \in Pattern |-> {}]
    /\ visible = {}
    /\ publishing = [a \in Client |-> {}]
    /\ due = [a \in Client |-> [d \in Client |-> {}]]
    /\ told = [d \in Client |-> {}] /\ lost = [d \in Client |-> {}]

(* What is published again has to be told again, except to the publisher. *)
Publish(a, rows) ==
    /\ publishing[a] = {} /\ publishing' = [publishing EXCEPT ![a] = rows]
    /\ told' = [d \in Client |-> IF d = a THEN told[d] \cup rows ELSE told[d] \ rows]
    /\ UNCHANGED <<asked, joined, visible, due, lost>>

(* The last will of a client that has left is no publication of its own. *)
PublishWill(a, rows) ==
    /\ \A p \in Pattern : a \notin asked[p]
    /\ publishing[a] = {} /\ publishing' = [publishing EXCEPT ![a] = rows]
    /\ told' = [d \in Client |-> told[d] \ rows]
    /\ UNCHANGED <<asked, joined, visible, due, lost>>

(* Rows disappear at any time; what appears is being published, or is lost  *)
(* to everybody: a handler commits also what an aborted frame left behind.  *)
Change(a) ==
    /\ visible' \in SUBSET (visible \cup publishing[a] \cup {r \in Row : \A d \in Client : r \in lost[d]})
    /\ UNCHANGED <<asked, joined, publishing, due, told, lost>>

(* Everybody who has asked gets the row, nobody else does.  It may be in the *)
(* publication a second time.                                                *)
Notify(a, r) ==
    /\ r \in publishing[a]
    /\ publishing' \in {publishing, [publishing EXCEPT ![a] = @ \ {r}]}
    /\ due' = [due EXCEPT ![a] = [d \in Client |-> IF d \in Asking(r) \ {a} THEN @[d] \cup {r} ELSE @[d]]]
    /\ UNCHANGED <<asked, joined, visible, told, lost>>

Deliver(a, d) ==
    /\ told' = [told EXCEPT ![d] = @ \cup due[a][d]]
    /\ due' = [due EXCEPT ![a][d] = {}]
    /\ UNCHANGED <<asked, joined, visible, publishing, lost>>

(* The exception loses what a had in hand to those who would have got it. *)
Fail(a) ==
    /\ lost' = [d \in Client |-> lost[d] \cup publishing[a] \cup due[a][d]]
    /\ publishing' = [publishing EXCEPT ![a] = {}]
    /\ due' = [due EXCEPT ![a] = [d \in Client |-> {}]]
    /\ UNCHANGED <<asked, joined, visible, told>>

(* Who asks is notified from now on; asking again starts over.  A client     *)
(* that is publishing finishes that first.                                   *)
Ask(d, p) ==
    /\ publishing[d] = {}
    /\ asked' = [asked EXCEPT ![p] = @ \cup {d}]
    /\ joined' = [joined EXCEPT ![p] = @ \ {d}]
    /\ UNCHANGED <<visible, publishing, due, told, lost>>

(* A request reads some of what is visible for its pattern. *)
Read(d, p) ==
    /\ \E rows \in SUBSET Of(visible, p) : due' = [due EXCEPT ![d][d] = @ \cup rows]
    /\ UNCHANGED <<asked, visible, publishing, told, lost>>

Load(d, p) == Read(d, p) /\ UNCHANGED joined

(* The last read of a SUB.  From here on the client misses nothing. *)
Join(d, p) ==
    /\ d \in asked[p]
    /\ Read(d, p)
    /\ joined' = [joined EXCEPT ![p] = @ \cup {d}]
    /\ Of(visible, p) \subseteq Has(d)'

Leave(d, ps) ==
    /\ asked' = [p \in Pattern |-> IF p \in ps THEN asked[p] \ {d} ELSE asked[p]]
    /\ joined' = [p \in Pattern |-> IF p \in ps THEN joined[p] \ {d} ELSE joined[p]]
    /\ UNCHANGED <<visible, publishing, due, told, lost>>

Next ==
    \E a \in Client :
        \/ Change(a)
        \/ \E r \in publishing[a] : Notify(a, r)
        \/ \E d \in Client : Deliver(a, d)
        \/ Fail(a)
        \/ \E p \in Pattern : Ask(a, p) \/ Load(a, p) \/ Join(a, p) \/ Leave(a, {p})
        \/ Leave(a, Pattern)
        \/ \E rows \in SUBSET Row : Publish(a, rows) \/ PublishWill(a, rows)

Spec == Init /\ [][Next]_vars

(* What this comes to for a client: once it has joined, nothing that is      *)
(* visible for its pattern is missing.                                       *)
NothingMissed == \A p \in Pattern : \A d \in joined[p] : Of(visible, p) \subseteq Has(d)
=============================================================================
