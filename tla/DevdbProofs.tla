----------------------------- MODULE DevdbProofs -----------------------------
(* Proofs about Devdb for all callers, keys, values and intervals.           *)
EXTENDS Devdb, TLAPS

(* What Update and Create do, without the choice of the record. *)
UpdateAt(c, i) ==
    /\ Matches(records[i], put[c])
    /\ records' = [records EXCEPT ![i] = Changed(records[i], put[c])]
    /\ Signal(c, Changed(records[i], put[c]))
    /\ since' = [since EXCEPT ![i] = IF @ = 0 /\ records[i].value # put[c].value THEN clock ELSE @]

(* Changed only touches the value, updated_at and, to reset it, sent_at. *)
LEMMA ChangedRecord ==
    ASSUME NEW r \in Record, NEW p \in [key : Key, value : Value, now : Nat], Matches(r, p)
    PROVE  /\ Changed(r, p) \in Record
           /\ Changed(r, p).key = r.key
           /\ Changed(r, p).value = p.value
           /\ Changed(r, p).sent_at \in {0, r.sent_at}
           /\ Changed(r, p).sent_at # 0 => r.value = p.value
BY DEF Changed, Record, Matches

(* The step of a caller that stores into an existing record. *)
LEMMA UpdateStep ==
    ASSUME TypeOK, NEW c \in Caller, Update(c)
    PROVE  \E i \in DOMAIN records :
              /\ UpdateAt(c, i)
              /\ put[c] \in [key : Key, value : Value, now : Nat]
              /\ UNCHANGED <<clock, sem, threadVars, shown, late, puts, adjusts>>
BY DEF Update, UpdateAt, TypeOK

LEMMA TypeUpdate ==
    ASSUME TypeOK, NEW c \in Caller, Update(c)
    PROVE  TypeOK'
<1>1. PICK i \in DOMAIN records :
          /\ UpdateAt(c, i)
          /\ put[c] \in [key : Key, value : Value, now : Nat]
          /\ UNCHANGED <<clock, sem, threadVars, shown, late, puts, adjusts>>
    BY UpdateStep
<1>2. records[i] \in Record
    BY DEF TypeOK
<1>3. Changed(records[i], put[c]) \in Record
    BY <1>1, <1>2, ChangedRecord DEF UpdateAt
<1>4. records' \in Seq(Record) /\ Len(records') = Len(records)
    BY <1>1, <1>3 DEF UpdateAt, TypeOK
<1>5. since' \in Seq(Nat) /\ Len(since') = Len(since)
    BY <1>1 DEF UpdateAt, TypeOK
<1>6. /\ pc' \in [Caller -> {"idle", "store", "post"}] /\ put' \in [Caller -> Put0]
      /\ \A d \in Caller : pc'[d] = "store" => put'[d] \in [key : Key, value : Value, now : Nat]
    BY <1>1 DEF UpdateAt, Signal, TypeOK, NoPut, Put0
<1>7. QED
    BY <1>1, <1>4, <1>5, <1>6 DEF TypeOK, threadVars

LEMMA TypeCreate ==
    ASSUME TypeOK, NEW c \in Caller, Create(c)
    PROVE  TypeOK'
<1>1. put[c] \in [key : Key, value : Value, now : Nat]
    BY DEF Create, TypeOK
<1>2. Created(put[c]) \in Record
    BY <1>1 DEF Created, Record
<1>3. records' \in Seq(Record) /\ Len(records') = Len(records) + 1
    BY <1>2 DEF Create, TypeOK
<1>4. shown' \in Seq(Shown) /\ Len(shown') = Len(shown) + 1
    <2>1. [value |-> 0, updated_at |-> 0, at |-> 0] \in Shown
        BY DEF Shown
    <2>2. QED
        BY <2>1 DEF Create, TypeOK
<1>5. since' \in Seq(Nat) /\ Len(since') = Len(since) + 1
    BY DEF Create, TypeOK
<1>6. /\ pc' \in [Caller -> {"idle", "store", "post"}] /\ put' \in [Caller -> Put0]
      /\ \A d \in Caller : pc'[d] = "store" => put'[d] \in [key : Key, value : Value, now : Nat]
    BY DEF Create, Signal, TypeOK, NoPut, Put0
<1>7. QED
    BY <1>3, <1>4, <1>5, <1>6 DEF TypeOK, Create, threadVars

LEMMA TypePass ==
    ASSUME TypeOK, Pass
    PROVE  TypeOK'
<1>1. DOMAIN records = 1..Len(records) /\ DOMAIN shown = 1..Len(records) /\ DOMAIN since = 1..Len(records)
    BY DEF TypeOK
<1>2. \A i \in 1..Len(records) : records[i] \in Record
    BY <1>1 DEF TypeOK
<1>3. records' \in Seq(Record) /\ Len(records') = Len(records)
    <2>1. \A r \in Record : [r EXCEPT !.sent_at = clock] \in Record
        BY DEF TypeOK, Record
    <2>2. \A i \in 1..Len(records) :
             (IF Due(records[i]) THEN [records[i] EXCEPT !.sent_at = clock] ELSE records[i]) \in Record
        BY <1>2, <2>1
    <2>3. records' = [i \in 1..Len(records) |->
                         IF Due(records[i]) THEN [records[i] EXCEPT !.sent_at = clock] ELSE records[i]]
        BY <1>1 DEF Pass
    <2>4. Len(records) \in Nat
        BY DEF TypeOK
    <2>5. QED
        BY <2>2, <2>3, <2>4
<1>4. shown' \in Seq(Shown) /\ Len(shown') = Len(shown)
    <2>1. \A r \in Record :
              [value |-> r.value, updated_at |-> r.updated_at, at |-> clock] \in Shown
        BY DEF TypeOK, Record, Shown
    <2>2. \A i \in 1..Len(records) : shown[i] \in Shown
        BY <1>1 DEF TypeOK
    <2>3. QED
        BY <1>1, <1>2, <2>1, <2>2 DEF Pass, TypeOK
<1>5. since' \in Seq(Nat) /\ Len(since') = Len(since)
    BY <1>1 DEF Pass, TypeOK
<1>6. QED
    BY <1>3, <1>4, <1>5, IntervalsType DEF Pass, TypeOK

(* The steps that do not touch the records. *)
LEMMA TypeOther ==
    ASSUME TypeOK, UNCHANGED <<records, shown, since>>,
           \/ \E c \in Caller, k \in Key, v \in Value : Begin(c, k, v)
           \/ \E c \in Caller : Post(c)
           \/ Drain \/ Wake \/ WaitTimeout \/ WakeAgain \/ ThrottleEnds \/ WakeUp \/ Tick \/ Adjust
    PROVE  TypeOK'
<1>1. CASE \E c \in Caller, k \in Key, v \in Value : Begin(c, k, v)
    BY <1>1 DEF Begin, TypeOK, Put0, threadVars
<1>2. CASE \E c \in Caller : Post(c)
    BY <1>2 DEF Post, TypeOK, threadVars
<1>3. CASE Drain
    BY <1>3, IntervalsType DEF Drain, TypeOK
<1>4. CASE Wake \/ WaitTimeout
    BY <1>4, IntervalsType DEF Wake, WaitTimeout, Throttle, TypeOK
<1>5. CASE WakeAgain \/ ThrottleEnds
    BY <1>5, IntervalsType DEF WakeAgain, ThrottleEnds, EndThrottle, TypeOK
<1>8. CASE WakeUp
    BY <1>8 DEF WakeUp, TypeOK
<1>6. CASE Tick \/ Adjust
    <2>1. clock' \in Nat /\ late' \in Nat /\ adjusts' \in Nat
        BY <1>6, IntervalsType DEF Tick, Adjust, TypeOK
    <2>2. UNCHANGED <<records, sem, pc, put, tpc, deadline, start, shown, since, puts>>
        BY <1>6 DEF Tick, Adjust, threadVars
    <2>3. QED
        BY <2>1, <2>2 DEF TypeOK
<1>7. QED
    BY <1>1, <1>2, <1>3, <1>4, <1>5, <1>6, <1>8

(* Every step is one of three that touch the records, or touches none. *)
LEMMA Steps ==
    ASSUME Next
    PROVE  \/ \E c \in Caller : Update(c) \/ Create(c)
           \/ Pass
           \/ /\ UNCHANGED <<records, shown, since>>
              /\ \/ \E c \in Caller, k \in Key, v \in Value : Begin(c, k, v)
                 \/ \E c \in Caller : Post(c)
                 \/ Drain \/ Wake \/ WaitTimeout \/ WakeAgain \/ ThrottleEnds \/ WakeUp \/ Tick \/ Adjust
<1>1. CASE \E c \in Caller : Put(c)
    BY <1>1 DEF Put, Begin, Post
<1>2. CASE Thread
    BY <1>2 DEF Thread, Drain, Wake, WaitTimeout, WakeAgain, ThrottleEnds, WakeUp
<1>3. CASE Tick \/ Adjust
    BY <1>3 DEF Tick, Adjust
<1>4. QED
    BY <1>1, <1>2, <1>3 DEF Next

(* Every variable of the database keeps its type, with any interleaving of   *)
(* callers and the publishing thread.                                        *)
THEOREM TypeCorrect == Spec => []TypeOK
<1>1. Init => TypeOK
    BY IntervalsType DEF Init, TypeOK, Put0, NoPut
<1>2. TypeOK /\ [Next]_vars => TypeOK'
    <2> SUFFICES ASSUME TypeOK, [Next]_vars PROVE TypeOK'
        OBVIOUS
    <2>1. CASE Next
        BY <2>1, Steps, TypeUpdate, TypeCreate, TypePass, TypeOther
    <2>2. CASE UNCHANGED vars
        BY <2>2 DEF TypeOK, vars, threadVars
    <2>3. QED
        BY <2>1, <2>2
<1>3. QED
    BY <1>1, <1>2, PTL DEF Spec

-----------------------------------------------------------------------------
LEMMA SentUpdate ==
    ASSUME TypeOK, SentIsCurrent, NEW c \in Caller, Update(c)
    PROVE  SentIsCurrent'
<1>1. PICK i \in DOMAIN records :
          /\ UpdateAt(c, i)
          /\ put[c] \in [key : Key, value : Value, now : Nat]
          /\ UNCHANGED <<clock, sem, threadVars, shown, late, puts, adjusts>>
    BY UpdateStep
<1>2. records[i] \in Record
    BY DEF TypeOK
<1>3. /\ Changed(records[i], put[c]).value = put[c].value
      /\ Changed(records[i], put[c]).sent_at \in {0, records[i].sent_at}
      /\ Changed(records[i], put[c]).sent_at # 0 => records[i].value = put[c].value
    BY <1>1, <1>2, ChangedRecord DEF UpdateAt
<1>4. ASSUME NEW j \in DOMAIN records', records'[j].sent_at # 0
      PROVE  shown'[j].value = records'[j].value
    <2>1. DOMAIN records' = DOMAIN records
        BY <1>1 DEF UpdateAt
    <2>2. CASE j = i
        BY <1>1, <1>3, <1>4, <2>2 DEF UpdateAt, SentIsCurrent
    <2>3. CASE j # i
        BY <1>1, <1>4, <2>1, <2>3 DEF UpdateAt, SentIsCurrent
    <2>4. QED
        BY <2>2, <2>3
<1>5. QED
    BY <1>4 DEF SentIsCurrent

LEMMA SentCreate ==
    ASSUME TypeOK, SentIsCurrent, NEW c \in Caller, Create(c)
    PROVE  SentIsCurrent'
<1>1. DOMAIN records = 1..Len(records) /\ DOMAIN shown = 1..Len(records)
    BY DEF TypeOK
<1>2. /\ DOMAIN records' = 1..(Len(records) + 1)
      /\ records'[Len(records) + 1] = Created(put[c])
      /\ \A j \in 1..Len(records) : records'[j] = records[j] /\ shown'[j] = shown[j]
    BY <1>1 DEF Create, TypeOK
<1>3. Created(put[c]).sent_at = 0
    BY DEF Created
<1>4. QED
    BY <1>1, <1>2, <1>3 DEF SentIsCurrent, TypeOK

(* Whatever the order of puts and passes, and even when the clock is set     *)
(* back, a record that counts as sent was last published with its value.     *)
THEOREM SentRecordIsCurrent == Spec => []SentIsCurrent
<1>1. Init => SentIsCurrent
    BY DEF Init, SentIsCurrent
<1>2. TypeOK /\ SentIsCurrent /\ [Next]_vars => SentIsCurrent'
    <2> SUFFICES ASSUME TypeOK, SentIsCurrent, [Next]_vars PROVE SentIsCurrent'
        OBVIOUS
    <2>1. CASE \E c \in Caller : Update(c) \/ Create(c)
        BY <2>1, SentUpdate, SentCreate
    <2>2. CASE Pass
        <3>1. DOMAIN shown = DOMAIN records
            BY DEF TypeOK
        <3>2. QED
            BY <2>2, <3>1 DEF Pass, SentIsCurrent
    <2>3. CASE UNCHANGED <<records, shown, since>>
        BY <2>3 DEF SentIsCurrent
    <2>4. QED
        BY <2>1, <2>2, <2>3, Steps DEF vars
<1>3. QED
    BY <1>1, <1>2, TypeCorrect, PTL DEF Spec

-----------------------------------------------------------------------------
(* Concurrent puts of one fact never create two records for it.              *)
THEOREM RecordsAreUnique == Spec => []OneRecord
<1>1. Init => OneRecord
    BY DEF Init, OneRecord
<1>2. TypeOK /\ OneRecord /\ [Next]_vars => OneRecord'
    <2> SUFFICES ASSUME TypeOK, OneRecord, [Next]_vars PROVE OneRecord'
        OBVIOUS
    <2>1. ASSUME NEW c \in Caller, Update(c) PROVE OneRecord'
        <3>1. PICK i \in DOMAIN records :
                  /\ UpdateAt(c, i)
                  /\ put[c] \in [key : Key, value : Value, now : Nat]
                  /\ UNCHANGED <<clock, sem, threadVars, shown, late, puts, adjusts>>
            BY <2>1, UpdateStep
        <3>2. records[i] \in Record
            BY DEF TypeOK
        <3>3. /\ DOMAIN records' = DOMAIN records
              /\ \A j \in DOMAIN records : j # i => records'[j] = records[j]
              /\ records'[i].key = records[i].key
              /\ records[i].key \in AppendKey => records'[i].value = records[i].value
            BY <3>1, <3>2, ChangedRecord DEF UpdateAt, Matches
        <3>4. QED
            BY <3>3 DEF OneRecord
    <2>2. ASSUME NEW c \in Caller, Create(c) PROVE OneRecord'
        <3>1. DOMAIN records = 1..Len(records)
            BY DEF TypeOK
        <3>2. /\ DOMAIN records' = 1..(Len(records) + 1)
              /\ records'[Len(records) + 1] = Created(put[c])
              /\ \A j \in 1..Len(records) : records'[j] = records[j]
            BY <2>2, <3>1 DEF Create, TypeOK
        <3>3. /\ Created(put[c]).key = put[c].key
              /\ Created(put[c]).value = put[c].value
            BY DEF Created
        <3>4. \A j \in DOMAIN records : ~Matches(records[j], put[c])
            BY <2>2 DEF Create
        <3>5. \A j \in 1..Len(records) :
                 records[j].key = put[c].key => put[c].key \in AppendKey /\ records[j].value # put[c].value
            BY <3>1, <3>4 DEF Matches
        <3>6. ASSUME NEW i \in 1..(Len(records) + 1), NEW j \in 1..(Len(records) + 1),
                     i # j, records'[i].key = records'[j].key
              PROVE  records'[i].key \in AppendKey /\ records'[i].value # records'[j].value
            <4>0. Len(records) \in Nat
                BY DEF TypeOK
            <4>1. CASE i \in 1..Len(records) /\ j \in 1..Len(records)
                BY <3>1, <3>2, <3>6, <4>1 DEF OneRecord
            <4>2. CASE i = Len(records) + 1 \/ j = Len(records) + 1
                BY <3>2, <3>3, <3>5, <3>6, <4>0, <4>2
            <4>3. QED
                BY <4>0, <4>1, <4>2
        <3>7. QED
            BY <3>2, <3>6 DEF OneRecord
    <2>3. CASE Pass
        <3>1. /\ DOMAIN records' = DOMAIN records
              /\ \A i \in DOMAIN records : records'[i].key = records[i].key /\ records'[i].value = records[i].value
            BY <2>3 DEF Pass, TypeOK, Record
        <3>2. QED
            BY <3>1 DEF OneRecord
    <2>4. CASE UNCHANGED <<records, shown, since>>
        BY <2>4 DEF OneRecord
    <2>5. QED
        BY <2>1, <2>2, <2>3, <2>4, Steps DEF vars
<1>3. QED
    BY <1>1, <1>2, TypeCorrect, PTL DEF Spec

-----------------------------------------------------------------------------
(* Rates and delays, while the clock is not set back.  A record that waits   *)
(* to be sent does not count as sent; any other was sent when it was last    *)
(* published.                                                                *)
RecordTimes ==
    \A i \in DOMAIN records :
        /\ since[i] <= clock /\ shown[i].at <= clock
        /\ since[i] # 0 => records[i].sent_at = 0
        /\ since[i] = 0 => records[i].sent_at = shown[i].at

ClockInv == clock > MaxSend /\ adjusts = 0 /\ RecordTimes

LEMMA TimesUpdate ==
    ASSUME TypeOK, ClockInv, NEW c \in Caller, Update(c)
    PROVE  ClockInv'
<1>1. PICK i \in DOMAIN records :
          /\ UpdateAt(c, i)
          /\ put[c] \in [key : Key, value : Value, now : Nat]
          /\ UNCHANGED <<clock, sem, threadVars, shown, late, puts, adjusts>>
    BY UpdateStep
<1>2. records[i] \in Record /\ clock # 0 /\ i \in DOMAIN since
    BY IntervalsType DEF TypeOK, ClockInv
<1>3. /\ Changed(records[i], put[c]).sent_at =
            IF records[i].value # put[c].value THEN 0 ELSE records[i].sent_at
    BY <1>1, <1>2 DEF UpdateAt, Matches, Changed, Record
<1>4. ASSUME NEW j \in DOMAIN records
      PROVE  /\ since'[j] <= clock /\ shown[j].at <= clock
             /\ since'[j] # 0 => records'[j].sent_at = 0
             /\ since'[j] = 0 => records'[j].sent_at = shown[j].at
    <2>1. /\ since[j] <= clock /\ shown[j].at <= clock /\ since[j] \in Nat
          /\ since[j] # 0 => records[j].sent_at = 0
          /\ since[j] = 0 => records[j].sent_at = shown[j].at
        BY DEF ClockInv, RecordTimes, TypeOK
    <2>2. CASE j = i
        <3>1. /\ records'[i] = Changed(records[i], put[c])
              /\ since'[i] = IF since[i] = 0 /\ records[i].value # put[c].value THEN clock ELSE since[i]
            BY <1>1, <1>2 DEF UpdateAt
        <3>2. clock <= clock
            BY DEF TypeOK
        <3>3. QED
            BY <1>2, <1>3, <2>1, <2>2, <3>1, <3>2
    <2>3. CASE j # i
        BY <1>1, <2>1, <2>3 DEF UpdateAt
    <2>4. QED
        BY <2>2, <2>3
<1>5. DOMAIN records' = DOMAIN records
    BY <1>1 DEF UpdateAt
<1>6. QED
    BY <1>1, <1>4, <1>5 DEF ClockInv, RecordTimes

LEMMA TimesCreate ==
    ASSUME TypeOK, ClockInv, NEW c \in Caller, Create(c)
    PROVE  ClockInv'
<1>1. /\ DOMAIN records = 1..Len(records) /\ DOMAIN shown = 1..Len(records)
      /\ DOMAIN since = 1..Len(records) /\ Len(records) \in Nat
      /\ clock \in Nat /\ clock # 0
    BY IntervalsType DEF TypeOK, ClockInv
<1>2. /\ DOMAIN records' = 1..(Len(records) + 1)
      /\ records'[Len(records) + 1] = Created(put[c])
      /\ since'[Len(records) + 1] = clock
      /\ shown'[Len(records) + 1] = [value |-> 0, updated_at |-> 0, at |-> 0]
      /\ \A j \in 1..Len(records) : records'[j] = records[j] /\ shown'[j] = shown[j] /\ since'[j] = since[j]
    BY <1>1 DEF Create, TypeOK
<1>3. Created(put[c]).sent_at = 0
    BY DEF Created
<1>4. UNCHANGED <<clock, adjusts>>
    BY DEF Create
<1>5. QED
    BY <1>1, <1>2, <1>3, <1>4 DEF ClockInv, RecordTimes

LEMMA TimesPass ==
    ASSUME TypeOK, ClockInv, Pass
    PROVE  ClockInv'
<1>1. DOMAIN shown = DOMAIN records /\ DOMAIN since = DOMAIN records /\ DOMAIN records' = DOMAIN records
    BY DEF TypeOK, Pass
<1>2. ASSUME NEW i \in DOMAIN records
      PROVE  IF Due(records[i]) THEN since'[i] = 0 /\ shown'[i].at = clock /\ records'[i].sent_at = clock
             ELSE since'[i] = since[i] /\ shown'[i] = shown[i] /\ records'[i] = records[i]
    <2>1. [records[i] EXCEPT !.sent_at = clock].sent_at = clock
        BY DEF TypeOK, Record
    <2>2. QED
        BY <1>1, <2>1 DEF Pass
<1>3. QED
    BY <1>1, <1>2 DEF Pass, ClockInv, RecordTimes, TypeOK

LEMMA TimesOther ==
    ASSUME TypeOK, ClockInv, UNCHANGED <<records, shown, since>>, adjusts' = 0,
           \/ \E c \in Caller, k \in Key, v \in Value : Begin(c, k, v)
           \/ \E c \in Caller : Post(c)
           \/ Drain \/ Wake \/ WaitTimeout \/ WakeAgain \/ ThrottleEnds \/ WakeUp \/ Tick \/ Adjust
    PROVE  ClockInv'
<1>1. CASE Tick
    <2>1. clock' = clock + 1 /\ adjusts' = adjusts
        BY <1>1 DEF Tick
    <2>2. \A i \in DOMAIN records : since[i] \in Nat /\ shown[i].at \in Nat
        <3>1. \A i \in DOMAIN records : since[i] \in Nat /\ shown[i] \in Shown
            BY DEF TypeOK
        <3>2. QED
            BY <3>1 DEF Shown
    <2>3. QED
        BY <2>1, <2>2, IntervalsType DEF TypeOK, ClockInv, RecordTimes
<1>2. CASE Adjust
    BY <1>2 DEF Adjust, TypeOK
<1>3. CASE UNCHANGED <<clock, adjusts>>
    BY <1>3 DEF ClockInv, RecordTimes
<1>4. QED
    BY <1>1, <1>2, <1>3 DEF Begin, Post, Drain, Wake, WaitTimeout, WakeAgain, ThrottleEnds, WakeUp

(* An adjustment of the clock cannot be undone. *)
LEMMA AdjustsGrow ==
    ASSUME TypeOK, [Next]_vars, adjusts' = 0
    PROVE  adjusts = 0
<1>1. CASE Next
    <2>1. CASE \E c \in Caller : Put(c)
        BY <2>1 DEF Put, Begin, Update, Create, Post
    <2>2. CASE Thread
        BY <2>2 DEF Thread, Drain, Wake, WaitTimeout, WakeAgain, ThrottleEnds, Pass, WakeUp
    <2>3. CASE Tick \/ Adjust
        BY <2>3 DEF Tick, Adjust, TypeOK
    <2>4. QED
        BY <1>1, <2>1, <2>2, <2>3 DEF Next
<1>2. CASE UNCHANGED vars
    BY <1>2 DEF vars
<1>3. QED
    BY <1>1, <1>2

TimesInv == adjusts = 0 => ClockInv

LEMMA ClockInvariant == Spec => []TimesInv
<1>1. Init => TimesInv
    BY IntervalsType DEF Init, TimesInv, ClockInv, RecordTimes
<1>2. TypeOK /\ TimesInv /\ [Next]_vars => TimesInv'
    <2> SUFFICES ASSUME TypeOK, TimesInv, [Next]_vars, adjusts' = 0 PROVE ClockInv'
        BY DEF TimesInv
    <2>0. ClockInv
        BY AdjustsGrow DEF TimesInv
    <2>1. CASE Next
        BY <2>0, <2>1, Steps, TimesUpdate, TimesCreate, TimesPass, TimesOther
    <2>2. CASE UNCHANGED vars
        BY <2>0, <2>2 DEF vars, ClockInv, RecordTimes
    <2>3. QED
        BY <2>1, <2>2
<1>3. QED
    BY <1>1, <1>2, TypeCorrect, PTL DEF Spec

(* As long as the clock is not set back, a record whose value has not        *)
(* changed since it was published is published again only after MaxSend.     *)
THEOREM RateIsLimited == Spec => RateLimited
<1> DEFINE Limited ==
        adjusts = 0 =>
            \A i \in DOMAIN shown :
                shown'[i].at # shown[i].at /\ since[i] = 0 => clock - shown[i].at >= MaxSend
<1>1. TypeOK /\ TimesInv /\ [Next]_vars => [Limited]_vars
    <2> SUFFICES ASSUME TypeOK, ClockInv, Next, NEW i \in DOMAIN shown,
                        shown'[i].at # shown[i].at, since[i] = 0
                 PROVE  clock - shown[i].at >= MaxSend
        BY DEF TimesInv
    <2>0. DOMAIN shown = 1..Len(shown) /\ i \in DOMAIN records
        BY DEF TypeOK
    <2>1. CASE Pass
        <3>1. Due(records[i])
            BY <2>1 DEF Pass
        <3>2. records[i].sent_at = shown[i].at /\ shown[i].at <= clock
            BY <2>0 DEF ClockInv, RecordTimes
        <3>3. shown[i] \in Shown /\ clock \in Nat
            BY DEF TypeOK
        <3>4. shown[i].at \in Nat
            BY <3>3 DEF Shown
        <3>5. QED
            BY <3>1, <3>2, <3>3, <3>4 DEF Due, Elapsed
    <2>2. CASE \E c \in Caller : Update(c) \/ Create(c)
        <3>1. CASE \E c \in Caller : Update(c)
            BY <3>1 DEF Update
        <3>2. CASE \E c \in Caller : Create(c)
            <4>1. shown' = Append(shown, [value |-> 0, updated_at |-> 0, at |-> 0])
                BY <3>2 DEF Create
            <4>2. shown'[i] = shown[i]
                BY <2>0, <4>1 DEF TypeOK
            <4>3. QED
                BY <4>2
        <3>3. QED
            BY <2>2, <3>1, <3>2
    <2>3. CASE UNCHANGED shown
        BY <2>3
    <2>4. QED
        BY <2>1, <2>2, <2>3, Steps
<1>2. QED
    BY <1>1, ClockInvariant, TypeCorrect, PTL DEF Spec, RateLimited

(* Where the thread is limits how long a changed record has waited: it       *)
(* sleeps for Nap after a pass, drained the semaphore at most Check before   *)
(* it began to throttle, and throttles for three intervals at most.          *)
Waits ==
    /\ tpc = "sleep" => clock <= deadline /\ deadline <= clock + Nap
    /\ tpc = "wait" => clock <= deadline /\ deadline <= clock + Check
    /\ tpc = "throttle" => start <= clock /\ clock <= deadline /\ deadline <= start + 3 * MinSend
    /\ \A i \in DOMAIN since : since[i] # 0 =>
          /\ tpc = "sleep" => deadline <= since[i] + Nap
          /\ tpc = "drain" => clock <= since[i] + Nap
          /\ tpc = "wait" => deadline <= since[i] + Nap + Check
          /\ tpc = "throttle" => start <= since[i] + Nap + Check
          /\ tpc = "pass" => clock <= since[i] + Nap + Check + 3 * MinSend

(* What a put does to the records that wait: it adds one at most. *)
LEMMA PutWaits ==
    ASSUME TypeOK, ClockInv, Waits, NEW c \in Caller, Update(c) \/ Create(c)
    PROVE  Waits'
<1>1. UNCHANGED <<clock, tpc, deadline, start>>
    BY DEF Update, Create, threadVars
<1>2. \A i \in DOMAIN since' : (i \in DOMAIN since /\ since'[i] = since[i]) \/ since'[i] = clock
    <2>1. CASE Update(c)
        BY <2>1 DEF Update, TypeOK
    <2>2. CASE Create(c)
        BY <2>2 DEF Create, TypeOK
    <2>3. QED
        BY <2>1, <2>2
<1>3. /\ tpc = "sleep" => deadline <= clock + Nap
      /\ tpc = "wait" => deadline <= clock + Nap + Check
      /\ tpc = "throttle" => start <= clock + Nap + Check
      /\ clock <= clock + Nap /\ clock <= clock + Nap + Check + 3 * MinSend
    BY IntervalsType DEF Waits, TypeOK
<1>4. QED
    BY <1>1, <1>2, <1>3 DEF Waits

(* A pass publishes every record that waits. *)
LEMMA PassWaits ==
    ASSUME TypeOK, ClockInv, Pass
    PROVE  Waits'
<1>1. ASSUME NEW i \in DOMAIN since, ~ Due(records[i])
      PROVE  since[i] = 0
    <2>1. records[i] \in Record
        BY DEF TypeOK
    <2>2. records[i].sent_at \in Nat /\ records[i].updated_at \in Nat
        BY <2>1 DEF Record
    <2>3. records[i].sent_at # 0
        BY <1>1, <2>2, IntervalsType DEF Due, Elapsed, ClockInv, TypeOK
    <2>4. QED
        BY <2>3 DEF ClockInv, RecordTimes, TypeOK
<1>2. \A i \in DOMAIN since' : since'[i] = 0
    BY <1>1 DEF Pass
<1>3. clock' <= deadline' /\ deadline' <= clock' + Nap
    BY IntervalsType DEF Pass, TypeOK
<1>4. QED
    BY <1>2, <1>3 DEF Pass, Waits

LEMMA ThreadWaits ==
    ASSUME TypeOK, ClockInv, Waits, UNCHANGED <<records, shown, since>>, late' = 0, adjusts' = 0,
           \/ \E c \in Caller, k \in Key, v \in Value : Begin(c, k, v)
           \/ \E c \in Caller : Post(c)
           \/ Drain \/ Wake \/ WaitTimeout \/ WakeAgain \/ ThrottleEnds \/ WakeUp \/ Tick \/ Adjust
    PROVE  Waits'
<1> USE IntervalsType
<1>0. /\ \A i \in DOMAIN since : since[i] \in Nat /\ since[i] <= clock
      /\ clock \in Nat /\ deadline \in Nat /\ start \in Nat
    <2>1. DOMAIN since = DOMAIN records
        BY DEF TypeOK
    <2>2. QED
        BY <2>1 DEF TypeOK, ClockInv, RecordTimes
<1>1. CASE UNCHANGED <<clock, threadVars>>
    BY <1>1 DEF Waits, threadVars
<1>2. CASE Drain
    BY <1>0, <1>2 DEF Drain, Waits
<1>3. CASE Wake \/ WaitTimeout
    BY <1>0, <1>3 DEF Wake, WaitTimeout, Throttle, Waits
<1>4. CASE WakeAgain
    BY <1>0, <1>4 DEF WakeAgain, EndThrottle, Elapsed, Waits
<1>5. CASE ThrottleEnds
    BY <1>0, <1>5 DEF ThrottleEnds, EndThrottle, Waits
<1>6. CASE Tick
    <2>1. Waiting /\ clock' = clock + 1 /\ UNCHANGED <<tpc, deadline, start>>
        BY <1>6 DEF Tick, TypeOK, threadVars
    <2>2. QED
        BY <1>0, <2>1 DEF Waiting, Waits
<1>7. CASE Adjust
    BY <1>7 DEF Adjust, TypeOK
<1>8. CASE WakeUp
    BY <1>0, <1>8 DEF WakeUp, Waits
<1>9. QED
    BY <1>1, <1>2, <1>3, <1>4, <1>5, <1>6, <1>7, <1>8 DEF Begin, Post

(* The thread was not late before if it has not been late since. *)
LEMMA LateGrows ==
    ASSUME TypeOK, [Next]_vars, late' = 0
    PROVE  late = 0
<1>1. CASE Next
    <2>1. CASE \E c \in Caller : Put(c)
        BY <2>1 DEF Put, Begin, Update, Create, Post
    <2>2. CASE Thread
        BY <2>2 DEF Thread, Drain, Wake, WaitTimeout, WakeAgain, ThrottleEnds, Pass, WakeUp
    <2>3. CASE Tick \/ Adjust
        BY <2>3 DEF Tick, Adjust, TypeOK
    <2>4. QED
        BY <1>1, <2>1, <2>2, <2>3 DEF Next
<1>2. CASE UNCHANGED vars
    BY <1>2 DEF vars
<1>3. QED
    BY <1>1, <1>2

WaitsInv == late = 0 /\ adjusts = 0 => Waits

(* As long as devdb_thread goes on as soon as it can and the clock is not    *)
(* set back, a new value is published after a sleep, a check interval and    *)
(* three throttling intervals at most, whatever is put meanwhile.            *)
THEOREM NewValuesAreSoonSent == Spec => []NewValueSoonSent
<1>1. Init => WaitsInv
    BY DEF Init, Waits, WaitsInv
<1>2. TypeOK /\ TimesInv /\ WaitsInv /\ [Next]_vars => WaitsInv'
    <2> SUFFICES ASSUME TypeOK, TimesInv, WaitsInv, [Next]_vars, late' = 0, adjusts' = 0 PROVE Waits'
        BY DEF WaitsInv
    <2>0. ClockInv /\ Waits
        BY AdjustsGrow, LateGrows DEF TimesInv, WaitsInv
    <2>1. CASE Next
        BY <2>0, <2>1, Steps, PutWaits, PassWaits, ThreadWaits
    <2>2. CASE UNCHANGED vars
        BY <2>0, <2>2 DEF vars, threadVars, Waits
    <2>3. QED
        BY <2>1, <2>2
<1>3. TypeOK /\ TimesInv /\ WaitsInv => NewValueSoonSent
    <2> SUFFICES ASSUME TypeOK, ClockInv, Waits, NEW i \in DOMAIN since, since[i] # 0
                 PROVE  clock <= since[i] + Nap + Check + 3 * MinSend
        BY DEF NewValueSoonSent, TimesInv, WaitsInv
    <2>1. since[i] \in Nat /\ clock \in Nat /\ deadline \in Nat /\ start \in Nat
        BY DEF TypeOK
    <2>2. QED
        BY <2>1, IntervalsType DEF Waits, TypeOK
<1>4. QED
    BY <1>1, <1>2, <1>3, ClockInvariant, TypeCorrect, PTL DEF Spec
=============================================================================
