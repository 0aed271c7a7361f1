-------------------------- MODULE EthcapLifeProofs --------------------------
(***************************************************************************)
(* What holds of module EthcapLife for every set of interfaces and any     *)
(* number of captures.  OneCapture is not inductive: a start follows a     *)
(* stop of which only mod.thread is left, so the invariant also says what  *)
(* is known of mod.thread between the steps of a call.                     *)
(***************************************************************************)
EXTENDS EthcapLife, TLAPS

LifeTypeOK ==
    /\ alive \in BOOLEAN
    /\ freed \in [Adapters -> Nat]
    /\ networks \in Adapters \cup {None}
    /\ thread \in Threads \cup {NoThread}
    /\ op \in {"none", "start", "stop", "free"}
    /\ at \in {"idle", "cancel", "release", "stopped"}
    /\ cpc \in [Threads -> {"none", "started", "capturing", "ended"}]
    /\ cancelled \in SUBSET Threads

(* What a call knows of the capture that it stops. *)
CallerKnows ==
    /\ at = "cancel" => thread # NoThread
    /\ at = "release" => thread \in cancelled
    /\ at = "stopped" /\ op = "start" => thread = NoThread

LifeInv == LifeTypeOK /\ CallerKnows /\ OneCapture /\ (selected \in Adapters \cup {None})

(* No capture thread has been created. *)
LEMMA InitHolds == LifeInit => LifeInv
BY NoneIsNoAdapter DEF LifeInit, LifeInv, LifeTypeOK, CallerKnows, OneCapture, Active

LEMMA TypeStep == LifeInv /\ [LifeNext]_life => LifeTypeOK' /\ (selected \in Adapters \cup {None})'
<1> SUFFICES ASSUME LifeInv, [LifeNext]_life PROVE LifeTypeOK' /\ (selected \in Adapters \cup {None})'
    OBVIOUS
<1> USE DEF LifeInv, LifeTypeOK, CallerKnows
<1>1. ASSUME NEW a \in Adapters, Select(a) PROVE LifeTypeOK' /\ (selected \in Adapters \cup {None})'
    BY <1>1 DEF Select
<1>2. ASSUME NEW o \in {"start", "stop", "free"}, Call(o) PROVE LifeTypeOK' /\ (selected \in Adapters \cup {None})'
    BY <1>2 DEF Call
<1>3. ASSUME Cancel PROVE LifeTypeOK' /\ (selected \in Adapters \cup {None})'
    BY <1>3 DEF Cancel
<1>4. ASSUME Release PROVE LifeTypeOK' /\ (selected \in Adapters \cup {None})'
    BY <1>4 DEF Release, ReleaseNetworks
<1>5. ASSUME Stop PROVE LifeTypeOK' /\ (selected \in Adapters \cup {None})'
    BY <1>5 DEF Stop
<1>6. ASSUME Start PROVE LifeTypeOK' /\ (selected \in Adapters \cup {None})'
    BY <1>6 DEF Start
<1>7. ASSUME Free PROVE LifeTypeOK' /\ (selected \in Adapters \cup {None})'
  <2>1. \A a \in Adapters : freed[a] + 1 \in Nat
    OBVIOUS
  <2>2. freed' \in [Adapters -> Nat]
    BY <1>7, <2>1, Zenon DEF Free
  <2> QED BY <1>7, <2>2 DEF Free
<1>8. ASSUME NEW t \in Threads, Assign(t) \/ End(t)
      PROVE LifeTypeOK' /\ (selected \in Adapters \cup {None})'
    BY <1>8 DEF Assign, End, caller
<1>9. CASE UNCHANGED life
    BY <1>9 DEF life
<1> QED BY <1>1, <1>2, <1>3, <1>4, <1>5, <1>6, <1>7, <1>8, <1>9 DEF LifeNext

(* A step of the caller that changes neither cpc nor the threads it knows.   *)
LEMMA CallerStep == LifeInv /\ [LifeNext]_life => CallerKnows' /\ OneCapture'
<1> SUFFICES ASSUME LifeInv, [LifeNext]_life PROVE CallerKnows' /\ OneCapture'
    OBVIOUS
<1>a. LifeTypeOK /\ CallerKnows /\ OneCapture
    BY DEF LifeInv
<1>1. ASSUME NEW a \in Adapters, Select(a) PROVE CallerKnows' /\ OneCapture'
    BY <1>1, <1>a DEF Select, CallerKnows, OneCapture, Active
<1>2. ASSUME NEW o \in {"start", "stop", "free"}, Call(o) PROVE CallerKnows' /\ OneCapture'
    BY <1>2, <1>a DEF Call, CallerKnows, OneCapture, Active
<1>3. ASSUME Cancel PROVE CallerKnows' /\ OneCapture'
    BY <1>3, <1>a DEF Cancel, CallerKnows, OneCapture, Active, LifeTypeOK
<1>4. ASSUME Release PROVE CallerKnows' /\ OneCapture'
  <2>1. CallerKnows'
    BY <1>4 DEF Release, CallerKnows
  <2>2. ASSUME NEW t \in Threads, cpc'[t] \in {"started", "capturing"}, t \notin cancelled' PROVE FALSE
    <3>1. t = thread
        BY <1>4, <1>a, <2>2 DEF Release, OneCapture, Active
    <3> QED BY <1>4, <1>a, <2>2, <3>1 DEF Release, CallerKnows
  <2> QED BY <2>1, <2>2 DEF OneCapture, Active
<1>5. ASSUME Stop PROVE CallerKnows' /\ OneCapture'
    BY <1>5, <1>a DEF Stop, CallerKnows, OneCapture, Active
<1>6. ASSUME Start PROVE CallerKnows' /\ OneCapture'
  <2>1. CallerKnows'
    BY <1>6 DEF Start, CallerKnows
  <2>2. ASSUME NEW t \in Threads, cpc[t] \in {"started", "capturing"}, t \notin cancelled PROVE FALSE
    <3>1. t = thread
        BY <1>a, <2>2 DEF OneCapture, Active
    <3>2. thread = NoThread
        BY <1>6, <1>a DEF Start, CallerKnows
    <3> QED BY <3>1, <3>2, ThreadsAreThreads
  <2>3. ASSUME NEW s \in Threads, thread' = s, cpc' = [cpc EXCEPT ![s] = "started"], cancelled' = cancelled
        PROVE OneCapture'
    BY <1>a, <2>2, <2>3 DEF OneCapture, Active, LifeTypeOK
  <2>4. ASSUME NEW s \in Threads, cpc' = [cpc EXCEPT ![s] = "ended"], cancelled' = cancelled PROVE OneCapture'
    BY <1>a, <2>2, <2>4 DEF OneCapture, Active, LifeTypeOK
  <2>5. CASE selected = None
    BY <1>6, <2>1, <2>2, <2>5 DEF Start, OneCapture, Active
  <2> QED BY <1>6, <2>1, <2>3, <2>4, <2>5 DEF Start
<1>7. ASSUME Free PROVE CallerKnows' /\ OneCapture'
    BY <1>7, <1>a DEF Free, CallerKnows, OneCapture, Active
<1>8. ASSUME NEW t \in Threads, Assign(t) \/ End(t) PROVE CallerKnows' /\ OneCapture'
    BY <1>8, <1>a DEF Assign, End, caller, CallerKnows, OneCapture, Active, LifeTypeOK
<1>9. CASE UNCHANGED life
    BY <1>9, <1>a DEF life, CallerKnows, OneCapture, Active
<1> QED BY <1>1, <1>2, <1>3, <1>4, <1>5, <1>6, <1>7, <1>8, <1>9 DEF LifeNext

LEMMA InvHolds == LifeSpec => []LifeInv
<1>1. LifeInv /\ [LifeNext]_life => LifeInv'
    BY TypeStep, CallerStep DEF LifeInv
<1> QED BY InitHolds, <1>1, PTL DEF LifeSpec

(* Whatever is started, stopped and freed, and however cancellations and     *)
(* failures fall, one capture runs at a time: every capture thread that was  *)
(* not cancelled is in mod.thread, where the next ethcap_stop finds it.      *)
THEOREM OneCaptureRuns == LifeSpec => []OneCapture
BY InvHolds, PTL DEF LifeInv

-----------------------------------------------------------------------------
(* Why a capture keeps its networks: a thread without a pending cancellation *)
(* is in mod.thread (OneCapture), so ethcap_free only gets to the networks   *)
(* when every capture has ended or is cancelled.                             *)
FreeIsAlone == ~alive \/ (op = "free" /\ at = "stopped") => \A t \in Threads : Active(t) => t \in cancelled

FreeIsLast == ~alive => at = "idle"

AloneInv == FreeIsLast /\ FreeIsAlone

LEMMA AloneInit == LifeInit => AloneInv
BY DEF LifeInit, AloneInv, FreeIsLast, FreeIsAlone, Active

(* Nothing is called after ethcap_free. *)
LEMMA LastStep == AloneInv /\ [LifeNext]_life => FreeIsLast'
BY DEF AloneInv, FreeIsLast, LifeNext, Select, Call, Cancel, Release, Stop, Start, Free, Assign, End, caller, life

(* ethcap_free goes on to the networks only past a stop: of a capture that   *)
(* had ended, of one that is cancelled now, or of none.                      *)
LEMMA AloneStep == LifeInv /\ AloneInv /\ [LifeNext]_life => FreeIsAlone'
<1> SUFFICES ASSUME LifeInv, AloneInv, [LifeNext]_life, NEW t \in Threads,
                    ~alive' \/ (op' = "free" /\ at' = "stopped"), Active(t)'
             PROVE t \in cancelled'
    BY DEF FreeIsAlone
<1>a. OneCapture /\ FreeIsLast /\ FreeIsAlone /\ CallerKnows /\ LifeTypeOK
    BY DEF LifeInv, AloneInv
<1>1. ASSUME NEW o \in {"start", "stop", "free"}, Call(o) PROVE t \in cancelled'
    BY <1>1, <1>a, ThreadsAreThreads DEF Call, OneCapture, FreeIsAlone, Active
<1>2. CASE Cancel
    BY <1>2, <1>a DEF Cancel, OneCapture, FreeIsAlone, Active
<1>3. CASE Release
    BY <1>3, <1>a DEF Release, OneCapture, FreeIsAlone, CallerKnows, Active
<1>4. CASE Start
    BY <1>4, <1>a DEF Start, FreeIsLast, FreeIsAlone, Active, LifeTypeOK
<1>5. CASE Free
    BY <1>5, <1>a DEF Free, FreeIsAlone, Active
<1>6. ASSUME NEW s \in Threads, Assign(s) \/ End(s) PROVE t \in cancelled'
    BY <1>6, <1>a DEF Assign, End, caller, FreeIsAlone, Active, LifeTypeOK
<1>7. CASE UNCHANGED <<alive, op, cpc, cancelled>> /\ (at' = at \/ at' = "idle")
    BY <1>7, <1>a DEF FreeIsAlone, Active
<1> QED BY <1>1, <1>2, <1>3, <1>4, <1>5, <1>6, <1>7 DEF LifeNext, Select, Stop, life

(* Networks are freed past a cancellation that has succeeded, or where there *)
(* is no capture to be cancelled.                                            *)
LEMMA FreedStep ==
    LifeInv /\ AloneInv /\ [LifeNext]_life => \A t \in Threads : Active(t) /\ t \notin cancelled => freed' = freed
<1> SUFFICES ASSUME LifeInv, AloneInv, [LifeNext]_life, NEW t \in Threads, Active(t), t \notin cancelled
             PROVE freed' = freed
    OBVIOUS
<1>1. CASE Release
  <2>1. thread \in cancelled /\ t = thread
    BY <1>1 DEF Release, LifeInv, CallerKnows, OneCapture, Active
  <2> QED BY <2>1
<1>2. CASE Free
    BY <1>2 DEF Free, AloneInv, FreeIsAlone
<1>3. CASE UNCHANGED freed
    BY <1>3
<1> QED BY <1>1, <1>2, <1>3
    DEF LifeNext, Select, Call, Cancel, Stop, Start, Assign, End, caller, life

(* What a capture filters with is not freed under it before it is told to    *)
(* end, however often captures are started, stopped, fail or end by          *)
(* themselves (ethcap_start, ethcap_stop, ethcap_free).  It says nothing of  *)
(* the time between pthread_cancel and the end of the thread.                *)
THEOREM RunningCaptureKeepsNetworks == LifeSpec => CaptureKeepsNetworks
<1>1. LifeInv /\ AloneInv /\ [LifeNext]_life => AloneInv'
    BY LastStep, AloneStep DEF AloneInv
<1> QED BY InvHolds, AloneInit, <1>1, FreedStep, PTL DEF LifeSpec, CaptureKeepsNetworks
=============================================================================
