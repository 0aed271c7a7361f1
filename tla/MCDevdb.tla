------------------------------- MODULE MCDevdb -------------------------------
(* Instances of Devdb: two callers, a key that is replaced and one that is   *)
(* appended to.  A behaviour either is about the order of puts and passes,   *)
(* for a short time, or about delays: a longer time, with one key, in which  *)
(* devdb_thread is never late and nobody sets the clock.                     *)
EXTENDS Devdb, TLC

CONSTANTS c1, c2, ShortTime

VARIABLE about

SymmetryCallers == Permutations(Caller)

Races == about = "races" /\ clock' <= ShortTime
Delays == about = "delays" /\ late' = 0 /\ adjusts' = 0 /\ \A c \in Caller : put'[c].key \notin AppendKey

MCInit == Init /\ about \in {"races", "delays"}
MCNext == Next /\ (Races \/ Delays) /\ UNCHANGED about
MCSpec == MCInit /\ [][MCNext]_<<vars, about>>
=============================================================================
