------------------------------- MODULE Channel -------------------------------
(***************************************************************************)
(* What the agent's connection promises to the threads that publish        *)
(* (conn.h: conn_pub, conn_lwt), without queues, frames or failures:       *)
(* messages are numbered as they are accepted, leave in batches that take   *)
(* the oldest ones first and leave none of them out, and a batch reaches    *)
(* the server as a whole and once, or not at all.                          *)
(***************************************************************************)
EXTENDS Naturals, Sequences

VARIABLES
    made,     \* messages accepted so far
    gone,     \* numbers of the messages that have left
    received  \* the batches that the server received, as sets of numbers

vars == <<made, gone, received>>

Init == made = 0 /\ gone = {} /\ received = <<>>

Accept ==
    /\ made' = made + 1
    /\ UNCHANGED <<gone, received>>

(* A batch of the messages that wait, none of which is newer than one that   *)
(* goes on waiting.                                                          *)
Batch(b) ==
    /\ b # {} /\ b \subseteq (1..made) \ gone
    /\ \A m \in b, n \in (1..made) \ (gone \cup b) : m < n

Leave ==
    \E b \in SUBSET (1..made) :
        /\ Batch(b)
        /\ gone' = gone \cup b
        /\ received' \in {received, Append(received, b)}
        /\ UNCHANGED made

Next == Accept \/ Leave

Spec == Init /\ [][Next]_vars
=============================================================================
