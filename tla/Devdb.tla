-------------------------------- MODULE Devdb --------------------------------
(***************************************************************************)
(* The agent's database of device facts: devdb_put (devdb/devdb.c), called  *)
(* by the capture threads, and devdb_thread (devdb/devdb_thread.c), which   *)
(* publishes the records that are new, changed or due.                      *)
(*                                                                         *)
(* Times are in coarse units: MinSend stands for DEVDB_MIN_SEND_INTERVAL,   *)
(* Check for DEVDB_DB_CHECK_INTERVAL, MaxSend for DEVDB_MAX_SEND_INTERVAL,  *)
(* Nap for the usleep at the end of a pass.                                 *)
(* The two addresses and the key of a record are one Key, whose callers     *)
(* agree on append; created_at only travels along and is left out.          *)
(* devdb_put reads the clock before it locks the records and posts the      *)
(* semaphore after it has unlocked them.                                    *)
(***************************************************************************)
EXTENDS Integers, Sequences

CONSTANTS
    Caller,     \* threads that call devdb_put
    Key, Value,
    AppendKey,  \* keys that are put with append=true
    MinSend, Check, MaxSend, Nap,
    MaxClock,   \* bound: the time at which a behaviour ends
    MaxPuts,    \* bound: calls of devdb_put
    MaxLate,    \* bound: units of time by which devdb_thread is late
    MaxAdjust   \* bound: how often the wall clock is set back

ASSUME IntervalsType ==
    MinSend \in Nat /\ Check \in Nat /\ MaxSend \in Nat \ {0} /\ Nap \in Nat /\ MaxClock \in Nat
ASSUME KeysType == AppendKey \subseteq Key

VARIABLES
    clock,      \* millis()
    records,    \* devdb->records, in order
    sem,        \* the value of records_sem
    pc, put,    \* of each caller; put: key, value and the time that it read
    tpc,        \* where devdb_thread is
    deadline,   \* of its sem_timedwait or usleep
    start,      \* when it began to throttle
    shown,      \* shown[i]: what was last published of records[i], and when
    since,      \* since[i]: when the value of records[i] came to differ from shown[i], or 0
    late,       \* history: how often time passed although devdb_thread could have gone on
    puts, adjusts

vars == <<clock, records, sem, pc, put, tpc, deadline, start, shown, since, late, puts, adjusts>>
threadVars == <<tpc, deadline, start>>

NoPut == [key |-> 0, value |-> 0, now |-> 0]

(* The clock starts at a time that is late compared with the intervals. *)
Init ==
    /\ clock = MaxSend + 1
    /\ records = <<>> /\ shown = <<>> /\ since = <<>>
    /\ sem = 0
    /\ pc = [c \in Caller |-> "idle"] /\ put = [c \in Caller |-> NoPut]
    /\ tpc = "drain" /\ deadline = 0 /\ start = 0 /\ late = 0
    /\ puts = 0 /\ adjusts = 0

(* now - then for uint64_t: a then in the future is a huge interval. *)
Elapsed(now, then) == IF now >= then THEN now - then ELSE MaxClock + MaxSend

-----------------------------------------------------------------------------
Begin(c, k, v) ==
    /\ pc[c] = "idle" /\ puts < MaxPuts
    /\ puts' = puts + 1
    /\ put' = [put EXCEPT ![c] = [key |-> k, value |-> v, now |-> clock]]
    /\ pc' = [pc EXCEPT ![c] = "store"]
    /\ UNCHANGED <<clock, records, sem, threadVars, shown, since, late, adjusts>>

(* Mutant of Matches: every value has a record of its own. *)
MatchesValue(r, p) == r.key = p.key /\ r.value = p.value

Matches(r, p) == r.key = p.key /\ (p.key \in AppendKey => r.value = p.value)

(* Mutant of Changed: an update of the value is not sent before it is due. *)
KeepSent(r, p) == [r EXCEPT !.value = p.value, !.updated_at = p.now]

Changed(r, p) ==
    [r EXCEPT !.value = p.value, !.updated_at = p.now,
              !.sent_at = IF p.key \notin AppendKey /\ r.value # p.value THEN 0 ELSE @]

Created(p) ==
    [key |-> p.key, value |-> p.value, updated_at |-> p.now, sent_at |-> 0]

(* r is the record that the locked part of devdb_put leaves. *)
Signal(c, r) ==
    /\ pc' = [pc EXCEPT ![c] = IF Elapsed(put[c].now, r.sent_at) > MaxSend THEN "post" ELSE "idle"]
    /\ put' = [put EXCEPT ![c] = NoPut]

Update(c) ==
    /\ pc[c] = "store"
    /\ \E i \in DOMAIN records :
        /\ Matches(records[i], put[c])
        /\ \A j \in 1..(i - 1) : ~Matches(records[j], put[c])
        /\ LET r == Changed(records[i], put[c])
           IN  /\ records' = [records EXCEPT ![i] = r]
               /\ Signal(c, r)
        /\ since' = [since EXCEPT ![i] = IF @ = 0 /\ records[i].value # put[c].value THEN clock ELSE @]
    /\ UNCHANGED <<clock, sem, threadVars, shown, late, puts, adjusts>>

Create(c) ==
    /\ pc[c] = "store"
    /\ \A i \in DOMAIN records : ~Matches(records[i], put[c])
    /\ records' = Append(records, Created(put[c]))
    /\ shown' = Append(shown, [value |-> 0, updated_at |-> 0, at |-> 0])
    /\ since' = Append(since, clock)
    /\ Signal(c, Created(put[c]))
    /\ UNCHANGED <<clock, sem, threadVars, late, puts, adjusts>>

Post(c) ==
    /\ pc[c] = "post"
    /\ sem' = sem + 1
    /\ pc' = [pc EXCEPT ![c] = "idle"]
    /\ UNCHANGED <<clock, records, put, threadVars, shown, since, late, puts, adjusts>>

-----------------------------------------------------------------------------
(* sem_trywait until the semaphore is 0, then sem_timedwait. *)
Drain ==
    /\ tpc = "drain" /\ tpc' = "wait"
    /\ sem' = 0
    /\ deadline' = clock + Check
    /\ UNCHANGED <<clock, records, pc, put, start, shown, since, late, puts, adjusts>>

Throttle ==
    /\ tpc' = "throttle"
    /\ start' = clock /\ deadline' = clock + MinSend

EndThrottle == tpc' = "pass" /\ start' = 0 /\ deadline' = 0

Wake ==
    /\ tpc = "wait" /\ sem > 0
    /\ sem' = sem - 1
    /\ Throttle
    /\ UNCHANGED <<clock, records, pc, put, shown, since, late, puts, adjusts>>

(* Mutant of WaitTimeout: the semaphore counts as taken after a timeout. *)
TakeOnTimeout ==
    /\ tpc = "wait" /\ sem = 0 /\ clock >= deadline
    /\ sem' = sem - 1
    /\ Throttle
    /\ UNCHANGED <<clock, records, pc, put, shown, since, late, puts, adjusts>>

WaitTimeout ==
    /\ tpc = "wait" /\ sem = 0 /\ clock >= deadline
    /\ Throttle
    /\ UNCHANGED <<clock, records, sem, pc, put, shown, since, late, puts, adjusts>>

(* Mutant of WakeAgain: throttled for as long as records keep coming. *)
WakeForever ==
    /\ tpc = "throttle" /\ sem > 0
    /\ sem' = sem - 1
    /\ deadline' = clock + MinSend
    /\ UNCHANGED <<clock, records, pc, put, tpc, start, shown, since, late, puts, adjusts>>

WakeAgain ==
    /\ tpc = "throttle" /\ sem > 0
    /\ sem' = sem - 1
    /\ IF Elapsed(clock, start) >= 2 * MinSend
       THEN EndThrottle
       ELSE deadline' = clock + MinSend /\ UNCHANGED <<tpc, start>>
    /\ UNCHANGED <<clock, records, pc, put, shown, since, late, puts, adjusts>>

(* At the deadline; or at once, with EINVAL, because set_timespec does not   *)
(* carry nanoseconds over into the seconds.                                  *)
ThrottleEnds ==
    /\ tpc = "throttle" /\ sem = 0
    /\ EndThrottle
    /\ UNCHANGED <<clock, records, sem, pc, put, shown, since, late, puts, adjusts>>

(* Mutant of Due: everything that was updated is sent. *)
Updated(r) == r.sent_at <= r.updated_at

Due(r) == Elapsed(clock, r.sent_at) >= MaxSend /\ r.sent_at <= r.updated_at

Pass ==
    /\ tpc = "pass" /\ tpc' = "sleep"
    /\ records' = [i \in DOMAIN records |->
                      IF Due(records[i]) THEN [records[i] EXCEPT !.sent_at = clock] ELSE records[i]]
    /\ shown' = [i \in DOMAIN shown |->
                    IF Due(records[i])
                    THEN [value |-> records[i].value, updated_at |-> records[i].updated_at, at |-> clock]
                    ELSE shown[i]]
    /\ since' = [i \in DOMAIN since |-> IF Due(records[i]) THEN 0 ELSE since[i]]
    /\ deadline' = clock + Nap
    /\ UNCHANGED <<clock, sem, pc, put, start, late, puts, adjusts>>

(* usleep *)
WakeUp ==
    /\ tpc = "sleep" /\ clock >= deadline
    /\ tpc' = "drain"
    /\ UNCHANGED <<clock, records, sem, pc, put, deadline, start, shown, since, late, puts, adjusts>>

-----------------------------------------------------------------------------
(* devdb_thread has to wait for time to pass, unless somebody posts. *)
Waiting == clock < deadline /\ (tpc = "sleep" \/ (tpc \in {"wait", "throttle"} /\ sem = 0))

Tick ==
    /\ clock < MaxClock /\ (Waiting \/ late < MaxLate)
    /\ clock' = clock + 1
    /\ late' = IF Waiting THEN late ELSE late + 1
    /\ UNCHANGED <<records, sem, pc, put, threadVars, shown, since, puts, adjusts>>

(* The wall clock is set back. *)
Adjust ==
    /\ adjusts < MaxAdjust /\ clock > MaxSend + 1
    /\ clock' = clock - 1 /\ adjusts' = adjusts + 1
    /\ UNCHANGED <<records, sem, pc, put, threadVars, shown, since, late, puts>>

Put(c) == (\E k \in Key, v \in Value : Begin(c, k, v)) \/ Update(c) \/ Create(c) \/ Post(c)
Thread == Drain \/ Wake \/ WaitTimeout \/ WakeAgain \/ ThrottleEnds \/ Pass \/ WakeUp

Next == (\E c \in Caller : Put(c)) \/ Thread \/ Tick \/ Adjust

Spec == Init /\ [][Next]_vars

-----------------------------------------------------------------------------
Put0 == [key : Key \cup {0}, value : Value \cup {0}, now : Nat]
Shown == [value : Value \cup {0}, updated_at : Nat, at : Nat]
Record == [key : Key, value : Value, updated_at : Nat, sent_at : Nat]

TypeOK ==
    /\ clock \in Nat
    /\ records \in Seq(Record)
    /\ shown \in Seq(Shown)
    /\ since \in Seq(Nat)
    /\ Len(shown) = Len(records) /\ Len(since) = Len(records)
    /\ sem \in Nat
    /\ pc \in [Caller -> {"idle", "store", "post"}] /\ put \in [Caller -> Put0]
    /\ \A c \in Caller : pc[c] = "store" => put[c] \in [key : Key, value : Value, now : Nat]
    /\ tpc \in {"drain", "wait", "throttle", "pass", "sleep"}
    /\ deadline \in Nat /\ start \in Nat
    /\ late \in Nat
    /\ puts \in Nat /\ adjusts \in Nat

(* A record counts as sent only as long as what was published of it last is  *)
(* its value, whatever the order of puts, passes and clock adjustments; so a *)
(* changed value is never held back until the record is due again.           *)
SentIsCurrent == \A i \in DOMAIN records : records[i].sent_at # 0 => shown[i].value = records[i].value

(* A key has one record, or one for every value if it is appended to.        *)
OneRecord ==
    \A i, j \in DOMAIN records :
        i # j /\ records[i].key = records[j].key =>
            records[i].key \in AppendKey /\ records[i].value # records[j].value

(* As long as devdb_thread never lets time pass when it could go on, and the *)
(* clock is not set back, a new value is published after at most one check   *)
(* interval, three throttling intervals and the sleep of a pass, however     *)
(* many puts there are and even if the thread drains the signal for it.      *)
NewValueSoonSent ==
    late = 0 /\ adjusts = 0 =>
        \A i \in DOMAIN since : since[i] # 0 => clock <= since[i] + Nap + Check + 3 * MinSend

(* As long as the clock is not set back, a record whose value has not        *)
(* changed is published again only after MaxSend, however often it is put    *)
(* and whoever wakes the thread.                                             *)
RateLimited ==
    [][adjusts = 0 =>
          \A i \in DOMAIN shown :
              shown'[i].at # shown[i].at /\ since[i] = 0 => clock - shown[i].at >= MaxSend]_vars

(* devdb_thread.c: "record not updated since last sent".                     *)
SkippedIsPublished ==
    \A i \in DOMAIN records :
        records[i].sent_at > records[i].updated_at => shown[i].updated_at = records[i].updated_at
=============================================================================
