----------------------------- MODULE EthcapLife -----------------------------
(***************************************************************************)
(* Starting, stopping and freeing the capture module (ethcap.c), its       *)
(* capture threads (ethcap_thread.c), and who frees the networks of an     *)
(* interface.  One thread calls the module; the capture threads run beside *)
(* it, and what they do with a packet is Ethcap's.  Memory is a count of   *)
(* how often it was freed: what a use of it after that may lead to is not  *)
(* followed further.                                                       *)
(***************************************************************************)
EXTENDS Naturals, FiniteSets

CONSTANTS
    Adapters,   \* the interfaces found: the choices of the option "netif"
    None,       \* no interface; no networks
    Threads     \* bound: the capture threads that may be created

ASSUME NoneIsNoAdapter == None \notin Adapters

NoThread == "no thread"

ASSUME ThreadsAreThreads == NoThread \notin Threads

VARIABLES
    alive,     \* the module is allocated
    selected,  \* the choice that is selected, or None
    freed,     \* how often the networks of an interface have been freed
    networks,  \* ethcap->networks: of which interface
    thread,    \* mod.thread
    op,        \* what the caller called
    at,        \* and where it is
    cpc,       \* of a capture thread
    cancelled  \* the capture threads for which a cancellation is pending

caller == <<alive, selected, thread, op, at, cancelled>>
life == <<alive, selected, freed, networks, thread, op, at, cpc, cancelled>>

(* ethcap_init: the networks of every choice have been identified, nothing   *)
(* is selected.                                                              *)
LifeInit ==
    /\ alive = TRUE /\ selected = None /\ freed = [a \in Adapters |-> 0] /\ networks = None
    /\ thread = NoThread /\ op = "none" /\ at = "idle"
    /\ cpc = [t \in Threads |-> "none"] /\ cancelled = {}

Select(a) ==
    /\ alive /\ at = "idle"
    /\ selected' = a
    /\ UNCHANGED <<alive, freed, networks, thread, op, at, cpc, cancelled>>

-----------------------------------------------------------------------------
Released == IF networks = None THEN {} ELSE {networks}
ReleaseNetworks ==
    /\ freed' = [a \in Adapters |-> IF a \in Released THEN freed[a] + 1 ELSE freed[a]]
    /\ networks' = None

(* Mutant of Call: the networks are freed before the thread is cancelled. *)
CallFreesFirst(o) ==
    /\ alive /\ at = "idle"
    /\ op' = o
    /\ IF thread = NoThread THEN at' = "stopped" /\ UNCHANGED <<freed, networks>>
                            ELSE at' = "cancel" /\ ReleaseNetworks
    /\ UNCHANGED <<alive, selected, thread, cpc, cancelled>>

(* Mutant of Call: a start does not stop the capture that is running. *)
CallAtOnce(o) ==
    /\ alive /\ at = "idle"
    /\ op' = o
    /\ at' = IF thread = NoThread \/ o = "start" THEN "stopped" ELSE "cancel"
    /\ UNCHANGED <<alive, selected, freed, networks, thread, cpc, cancelled>>

(* ethcap_start, ethcap_stop and ethcap_free begin with ethcap_stop. *)
Call(o) ==
    /\ alive /\ at = "idle"
    /\ op' = o
    /\ at' = IF thread = NoThread THEN "stopped" ELSE "cancel"
    /\ UNCHANGED <<alive, selected, freed, networks, thread, cpc, cancelled>>

(* pthread_cancel of a thread that has ended, and was not joined, succeeds   *)
(* or fails; errno is not set by it.  ethcap_free ignores the failure.       *)
Cancel ==
    /\ at = "cancel"
    /\ \/ at' = "release" /\ cancelled' = cancelled \cup {thread}
       \/ cpc[thread] = "ended" /\ at' = (IF op = "free" THEN "stopped" ELSE "idle") /\ UNCHANGED cancelled
    /\ UNCHANGED <<alive, selected, freed, networks, thread, op, cpc>>

Release ==
    /\ at = "release"
    /\ ReleaseNetworks /\ thread' = NoThread
    /\ at' = "stopped"
    /\ UNCHANGED <<alive, selected, op, cpc, cancelled>>

Stop == op = "stop" /\ at = "stopped" /\ at' = "idle"
        /\ UNCHANGED <<alive, selected, freed, networks, thread, op, cpc, cancelled>>

(* Without a selected choice ethcap_start fails; if pthread_create fails, it *)
(* is not specified what mod.thread is left with.                            *)
Start ==
    /\ op = "start" /\ at = "stopped" /\ at' = "idle"
    /\ \/ selected = None /\ UNCHANGED <<thread, cpc>>
       \/ /\ selected # None
          /\ \E t \in Threads :
                /\ cpc[t] = "none"
                /\ \/ thread' = t /\ cpc' = [cpc EXCEPT ![t] = "started"]
                   \/ thread' \in {thread, t} /\ cpc' = [cpc EXCEPT ![t] = "ended"]
    /\ UNCHANGED <<alive, selected, freed, networks, op, cancelled>>

(* The data of the choices is never reset: all of it is freed, and what      *)
(* ethcap_stop has freed is freed again.                                     *)
Free ==
    /\ op = "free" /\ at = "stopped" /\ at' = "idle"
    /\ alive' = FALSE
    /\ freed' = [a \in Adapters |-> freed[a] + 1]
    /\ UNCHANGED <<selected, networks, thread, op, cpc, cancelled>>

-----------------------------------------------------------------------------
(* ethcap_thread takes the networks of the choice that is selected now. *)
Assign(t) ==
    /\ alive /\ cpc[t] = "started"
    /\ selected # None
    /\ networks' = selected /\ cpc' = [cpc EXCEPT ![t] = "capturing"]
    /\ UNCHANGED <<caller, freed>>

(* The interface cannot be opened or is gone, or the thread comes to a       *)
(* cancellation point.                                                       *)
End(t) ==
    /\ \/ cpc[t] = "capturing"
       \/ cpc[t] = "started" /\ t \in cancelled
    /\ cpc' = [cpc EXCEPT ![t] = "ended"]
    /\ UNCHANGED <<caller, freed, networks>>

LifeNext ==
    \/ \E a \in Adapters : Select(a)
    \/ \E o \in {"start", "stop", "free"} : Call(o)
    \/ Cancel \/ Release \/ Stop \/ Start \/ Free
    \/ \E t \in Threads : Assign(t) \/ End(t)

LifeSpec == LifeInit /\ [][LifeNext]_life

-----------------------------------------------------------------------------
Active(t) == cpc[t] \in {"started", "capturing"}

(* One capture runs at a time, and it is the one the next stop will cancel:  *)
(* all others have ended or will at their next cancellation point.           *)
OneCapture == \A t \in Threads : Active(t) /\ t \notin cancelled => t = thread

(* No networks are freed, by a stop or with the module, while a capture runs *)
(* that was not told to end: its packets find what they found at its start,  *)
(* whatever earlier captures were stopped, ended or failed to start.  (A     *)
(* thread that was told to end may still be handling a packet, and           *)
(* ethcap_stop does not wait for it.)                                        *)
CaptureKeepsNetworks ==
    [][\A t \in Threads : Active(t) /\ t \notin cancelled => freed' = freed]_life

(* The module frees "all networks from all choices" (ethcap.c:123), and those *)
(* of ethcap->networks are "in mod->opt->choices->data" (ethcap_priv.h:16):   *)
(* each is freed once.                                                       *)
FreedOnce == \A a \in Adapters : freed[a] <= 1
=============================================================================
