-------------------------- MODULE SchedulingProofs --------------------------
(***************************************************************************)
(* The properties of module Scheduling, for any number of replicas, jobs   *)
(* and expressions, any reach, and any stretch of time.                    *)
(***************************************************************************)
EXTENDS Scheduling, Wellfounded

(* "Sampling at the fifth second makes it impossible for ordinary clock    *)
(* skew to land on the boundary": what makes a skew an ordinary one.       *)
OrdinarySkew ==
    \A s \in Skews : 0 <= DispatcherSpec + s /\ DispatcherSpec + s < UnitsPerMinute

(* Where a tick is, in the order of the code.                              *)
Places == {"idle", "heartbeat", "touch", "list", "queue"}

TickRecord == [pc : Places, since : Nat, minute : Nat, lost : Nat,
               past : SUBSET Nat, todo : SUBSET DueAt]

SchedulingTypeOK ==
    /\ now \in Nat /\ now >= UnitsPerMinute
    /\ beat \in Nat \ {0}
    /\ rows \in SUBSET DueAt
    /\ up \in SUBSET Replicas
    /\ next \in [Replicas -> Nat]
    /\ tick \in [Replicas -> TickRecord]
    /\ lastMinute \in [Replicas -> Nat]
    /\ lost \in [Replicas -> Nat]
    /\ read \in [Replicas -> SUBSET Nat]
    /\ unread \in [Replicas -> Nat]
    /\ done \in SUBSET Nat
    /\ cut \in BOOLEAN

(* The due pair p is among those the tick of i evaluates.                  *)
Evaluates(i, p) == p[2] \in candidateMinutes(p[1], tick[i].minute, tick[i].past)

(* A tick knows its minute, which its context does not let it outlive; it  *)
(* looks back no further than the scan and queues what it evaluated.       *)
InTime(i) ==
    /\ i \in up
    /\ tick[i].since <= now /\ now <= tick[i].since + TickUnits
    /\ next[i] # 0 /\ tick[i].since \in FireTimes(next[i] - 1)
    /\ tick[i].minute = minuteStart(tick[i].since)
    /\ tick[i].minute # 0
    /\ \A t \in tick[i].past : /\ t < tick[i].minute
                               /\ tick[i].minute - t <= MissScanMin
    /\ \A p \in tick[i].todo : Evaluates(i, p)
    /\ tick[i].pc # "queue" => tick[i].todo = {}
    /\ i \in DryRunners => tick[i].pc # "touch" /\ tick[i].todo = {}

TickSound(i) == IF Ticking(i) THEN InTime(i) ELSE tick[i] = NoTick

TicksInTime == \A i \in Replicas : TickSound(i)

ClockInv == SchedulingTypeOK /\ TicksInTime

(* The chain of minutes of a replica: what it read lies behind the firing  *)
(* it waits for, the last of it is Dispatcher.lastMinute, and each minute  *)
(* in between that it did not read is a firing that failed.                *)
Gaps(i, n) == {m \in 0..n : m \notin read[i] /\ \E k \in read[i] : k < m}

ChainOf(i) ==
    /\ \A m \in read[i] : m # 0 /\ m < next[i] /\ m <= lastMinute[i]
    /\ lastMinute[i] = NoMinute => read[i] = {}
    /\ lastMinute[i] # NoMinute => lastMinute[i] \in read[i]
    /\ Cardinality(Gaps(i, next[i] - 1)) <= unread[i]
    /\ lost[i] + tick[i].lost <= Cardinality(Gaps(i, lastMinute[i]))

MinuteChain == \A i \in Replicas : ChainOf(i)

(* The minutes whose pulse a tick has refreshed and not failed after it.   *)
Pulsed == done \cup {tick[i].minute : i \in {k \in Replicas : AfterPulse(k)}}

(* The pulse is the last of them, and no tick that runs is behind it.      *)
PulseIsLast ==
    /\ beat <= minuteStart(now)
    /\ \A i \in Replicas : Ticking(i) => beat <= tick[i].minute
    /\ \A k \in Pulsed : k <= beat
    /\ ~cut => beat \in Pulsed \/ beat = 1

(* A tick looks back to the pulse, unless another one of the same minute   *)
(* has refreshed it since.                                                 *)
LooksBackToPulse ==
    \A i \in Replicas :
        tick[i].pc = "touch" =>
            \/ tick[i].past = missedMinutes(tick[i].minute, beat)
            \/ beat = tick[i].minute

(* Row p is still to be opened by the tick of i.                           *)
Holds(i, p) ==
    \/ tick[i].pc = "list" /\ Evaluates(i, p)
    \/ tick[i].pc = "queue" /\ p \in tick[i].todo

(* What the first pulse to come round to a minute or to pass it owes.      *)
FirstPulse(b, m) ==
    b \in Pulsed /\ b >= m /\ \A c \in Pulsed : c >= m => c >= b

Owed ==
    ~cut =>
        \A p \in DueAt : \A b \in Pulsed :
            /\ p[2] > 1 /\ FirstPulse(b, p[2]) /\ b - p[2] <= Reach(p[1])
            => \/ p \in rows
               \/ \E i \in Replicas :
                     AfterPulse(i) /\ tick[i].minute = b /\ Holds(i, p)

ReplayInv == PulseIsLast /\ LooksBackToPulse /\ Owed

-----------------------------------------------------------------------------
(* Units and minutes *)

LEMMA UnitsPositive ==
    /\ UnitsPerMinute \in Nat \ {0} /\ TickUnits \in Nat
    /\ TickUnits < UnitsPerMinute
  <1>1. PICK s \in Skews : TRUE
    BY SchedulingAssumption
  <1>2. s \in Int /\ s + TickUnits < UnitsPerMinute + s
    BY SchedulingAssumption
  <1>3. QED
    BY <1>2, SchedulingAssumption

(* The products with one factor are ordered like the other.                *)
LEMMA Times ==
    ASSUME NEW a \in Int, NEW b \in Int, NEW u \in Nat \ {0}
    PROVE  /\ a * u \in Int
           /\ a < b => a * u + u <= b * u
           /\ a <= b => a * u <= b * u
  <1>1. ASSUME NEW d \in Nat PROVE d * u \in Nat
    OBVIOUS
  <1>2. a * u \in Int /\ b * u \in Int /\ b * u = a * u + (b - a) * u
    OBVIOUS
  <1>3. a < b => b * u = a * u + u + (b - a - 1) * u
    OBVIOUS
  <1>4. a < b => b - a - 1 \in Nat
    OBVIOUS
  <1>5. a <= b => b - a \in Nat
    OBVIOUS
  <1>6. QED
    BY <1>1, <1>2, <1>3, <1>4, <1>5

LEMMA MinuteBounds ==
    ASSUME NEW t \in Nat
    PROVE  /\ minuteStart(t) \in Nat
           /\ minuteStart(t) * UnitsPerMinute <= t
           /\ t < minuteStart(t) * UnitsPerMinute + UnitsPerMinute
  BY UnitsPositive DEF minuteStart

(* The minute of a moment is the one it lies in.                           *)
LEMMA MinuteIs ==
    ASSUME NEW t \in Nat, NEW k \in Nat,
           k * UnitsPerMinute <= t, t < k * UnitsPerMinute + UnitsPerMinute
    PROVE  minuteStart(t) = k
  <1> DEFINE q == minuteStart(t)
  <1>1. q \in Nat /\ q * UnitsPerMinute <= t /\ t < q * UnitsPerMinute + UnitsPerMinute
    BY MinuteBounds
  <1>2. /\ q < k => q * UnitsPerMinute + UnitsPerMinute <= k * UnitsPerMinute
        /\ k < q => k * UnitsPerMinute + UnitsPerMinute <= q * UnitsPerMinute
        /\ q * UnitsPerMinute \in Int /\ k * UnitsPerMinute \in Int
    BY <1>1, UnitsPositive, Times
  <1> HIDE DEF q
  <1>3. ~(q < k)
    BY <1>1, <1>2, UnitsPositive
  <1>4. ~(k < q)
    BY <1>1, <1>2, UnitsPositive
  <1>5. q = k
    BY <1>1, <1>3, <1>4
  <1>6. QED
    BY <1>5 DEF q

(* Minutes follow the clock, and no tick outlasts the minute after its own. *)
LEMMA MinutesFollow ==
    ASSUME NEW t \in Nat, NEW v \in Nat, t <= v
    PROVE  /\ minuteStart(t) <= minuteStart(v)
           /\ v <= t + TickUnits => minuteStart(v) <= minuteStart(t) + 1
  <1> DEFINE p == minuteStart(t)
             q == minuteStart(v)
  <1>1. /\ p \in Nat /\ p * UnitsPerMinute <= t /\ t < p * UnitsPerMinute + UnitsPerMinute
        /\ q \in Nat /\ q * UnitsPerMinute <= v /\ v < q * UnitsPerMinute + UnitsPerMinute
    BY MinuteBounds
  <1>2. /\ q < p => q * UnitsPerMinute + UnitsPerMinute <= p * UnitsPerMinute
        /\ p + 1 < q => (p + 1) * UnitsPerMinute + UnitsPerMinute <= q * UnitsPerMinute
        /\ (p + 1) * UnitsPerMinute = p * UnitsPerMinute + UnitsPerMinute
        /\ q * UnitsPerMinute \in Int /\ p * UnitsPerMinute \in Int
    BY <1>1, UnitsPositive, Times
  <1>3. QED
    BY <1>1, <1>2, UnitsPositive

LEMMA FiresInMinute ==
    ASSUME OrdinarySkew, NEW k \in Nat, NEW t \in FireTimes(k)
    PROVE  minuteStart(t) = k
  <1>1. PICK s \in Skews : t = k * UnitsPerMinute + DispatcherSpec + s
    BY DEF FireTimes
  <1>2. s \in Int /\ 0 <= DispatcherSpec + s /\ DispatcherSpec + s < UnitsPerMinute
    BY SchedulingAssumption DEF OrdinarySkew
  <1>3. k * UnitsPerMinute \in Nat
    BY UnitsPositive
  <1>4. DispatcherSpec \in Nat
    BY DEF DispatcherSpec
  <1>5. /\ t \in Nat /\ k * UnitsPerMinute <= t
        /\ t < k * UnitsPerMinute + UnitsPerMinute
    BY <1>1, <1>2, <1>3, <1>4, UnitsPositive
  <1>6. QED
    BY <1>5, MinuteIs

(* A firing comes after every tick of an earlier minute is over.           *)
LEMMA FiringsApart ==
    ASSUME NEW j \in Nat, NEW k \in Nat, j < k,
           NEW t \in FireTimes(j), NEW v \in FireTimes(k)
    PROVE  t + TickUnits < v
  <1>1. PICK s \in Skews : t = j * UnitsPerMinute + DispatcherSpec + s
    BY DEF FireTimes
  <1>2. PICK r \in Skews : v = k * UnitsPerMinute + DispatcherSpec + r
    BY DEF FireTimes
  <1>3. s \in Int /\ r \in Int /\ s + TickUnits < UnitsPerMinute + r
    BY SchedulingAssumption
  <1>4. /\ j * UnitsPerMinute \in Int /\ k * UnitsPerMinute \in Int
        /\ j * UnitsPerMinute + UnitsPerMinute <= k * UnitsPerMinute
    BY UnitsPositive, Times
  <1>5. DispatcherSpec \in Nat
    BY DEF DispatcherSpec
  <1>6. QED
    BY <1>1, <1>2, <1>3, <1>4, <1>5, UnitsPositive

-----------------------------------------------------------------------------
(* A tick and its minute *)

LEMMA ClockInit == Init => ClockInv
  <1> SUFFICES ASSUME Init PROVE ClockInv
    OBVIOUS
  <1>1. NoTick \in TickRecord
    BY DEF NoTick, NoMinute, TickRecord, Places
  <1>2. SchedulingTypeOK
    <2>1. tick \in [Replicas -> TickRecord]
      BY <1>1 DEF Init
    <2>2. now \in Nat /\ now >= UnitsPerMinute
      BY UnitsPositive DEF Init
    <2>3. read \in [Replicas -> SUBSET Nat] /\ up \in SUBSET Replicas
      BY DEF Init
    <2>4. cut \in BOOLEAN /\ done \in SUBSET Nat /\ rows \in SUBSET DueAt
      BY DEF Init
    <2>5. /\ next \in [Replicas -> Nat] /\ lastMinute \in [Replicas -> Nat]
          /\ lost \in [Replicas -> Nat] /\ unread \in [Replicas -> Nat]
      BY DEF Init, NoMinute
    <2>6. beat \in Nat \ {0}
      BY DEF Init
    <2>7. QED
      BY <2>1, <2>2, <2>3, <2>4, <2>5, <2>6 DEF SchedulingTypeOK
  <1>3. TicksInTime
    BY DEF Init, TicksInTime, TickSound, Ticking, NoTick
  <1>4. QED
    BY <1>2, <1>3 DEF ClockInv

(* A step of one replica is no matter of the ticks of the others.          *)
LEMMA OthersSound ==
    ASSUME TicksInTime, NEW i \in Replicas, now' = now,
           \A k \in Replicas \ {i} : /\ tick'[k] = tick[k] /\ next'[k] = next[k]
                                     /\ k \in up <=> k \in up',
           TickSound(i)'
    PROVE  TicksInTime'
  <1>1. SUFFICES ASSUME NEW k \in Replicas, k # i PROVE TickSound(k)'
    BY DEF TicksInTime
  <1>2. TickSound(k)
    BY DEF TicksInTime
  <1>3. tick'[k] = tick[k] /\ next'[k] = next[k] /\ (k \in up <=> k \in up')
    BY <1>1
  <1>4. QED
    BY <1>2, <1>3 DEF TickSound, Ticking, InTime, Evaluates

LEMMA ClockAdvance ==
    ASSUME ClockInv, Advance
    PROVE  ClockInv'
  <1>1. SchedulingTypeOK'
    BY UnitsPositive DEF ClockInv, SchedulingTypeOK, Advance, dispVars
  <1>2. ASSUME NEW i \in Replicas PROVE TickSound(i)'
    <2>1. TickSound(i) /\ tick[i].since \in Nat /\ now \in Nat /\ TickUnits \in Nat
      BY UnitsPositive
      DEF ClockInv, SchedulingTypeOK, TicksInTime, TickRecord
    <2>2. UNCHANGED <<tick, next, up>> /\ now' = now + 1
      BY DEF Advance, dispVars
    <2>3. Ticking(i) => i \in up /\ now < tick[i].since + TickUnits
      BY <2>1 DEF Advance, TickSound, InTime
    <2>4. QED
      BY <2>1, <2>2, <2>3 DEF TickSound, Ticking, InTime, Evaluates
  <1>3. QED
    BY <1>1, <1>2 DEF ClockInv, TicksInTime

LEMMA ClockBegin ==
    ASSUME ClockInv, NEW i \in Replicas, BeginTick(i)
    PROVE  ClockInv'
  <1> DEFINE minute == minuteStart(now)
             begun == [pc |-> "heartbeat", since |-> now, minute |-> minute,
                       lost |-> MinutesLost(i, minute), past |-> {}, todo |-> {}]
  <1> USE DEF ClockInv, SchedulingTypeOK
  <1>1. minute \in Nat /\ minute # 0
    <2>1. minute \in Nat /\ now < minute * UnitsPerMinute + UnitsPerMinute
      BY MinuteBounds
    <2>2. minute = 0 => minute * UnitsPerMinute = 0
      BY UnitsPositive
    <2> HIDE DEF minute
    <2>3. QED
      BY <2>1, <2>2, UnitsPositive
  <1>2. tick' = [tick EXCEPT ![i] = begun]
    BY DEF BeginTick
  <1>3. MinutesLost(i, minute) \in Nat
    BY <1>1 DEF MinutesLost, NoMinute
  <1>4. begun \in TickRecord
    BY <1>1, <1>3 DEF TickRecord, Places
  <1>5. SchedulingTypeOK'
    <2>1. tick' \in [Replicas -> TickRecord]
      BY <1>2, <1>4
    <2>2. next' \in [Replicas -> Nat]
      BY DEF BeginTick
    <2>3. lastMinute' \in [Replicas -> Nat] /\ read' \in [Replicas -> SUBSET Nat]
      BY <1>1 DEF BeginTick
    <2>4. QED
      BY <2>1, <2>2, <2>3 DEF BeginTick
  <1>6. TickSound(i)'
    <2>1. tick'[i] = begun
      BY <1>2
    <2>2. next'[i] = next[i] + 1 /\ next[i] \in Nat /\ now' = now /\ up' = up
      BY DEF BeginTick
    <2>3. next'[i] # 0 /\ next'[i] - 1 = next[i]
      BY <2>2
    <2>4. now \in FireTimes(next'[i] - 1) /\ i \in up
      BY <2>3 DEF BeginTick, Fires
    <2>5. now \in Nat /\ now <= now + TickUnits
      BY UnitsPositive
    <2>6. InTime(i)'
      BY <1>1, <2>1, <2>2, <2>3, <2>4, <2>5 DEF InTime
    <2>7. QED
      BY <2>1, <2>6 DEF TickSound, Ticking
  <1>7. TicksInTime'
    <2>1. \A k \in Replicas \ {i} : tick'[k] = tick[k] /\ next'[k] = next[k]
      BY <1>2 DEF BeginTick
    <2>2. QED
      BY <1>6, <2>1, OthersSound DEF BeginTick
  <1>8. QED
    BY <1>5, <1>7

(* What the steps of a tick do to its record.                              *)
LEMMA ClockTick ==
    ASSUME ClockInv, NEW i \in Replicas,
           \/ ReadHeartbeat(i) \/ TouchHeartbeat(i) \/ ListJobs(i)
           \/ \E p \in tick[i].todo : QueueRun(i, p) \/ QueueFails(i, p)
    PROVE  ClockInv'
  <1> USE DEF ClockInv, SchedulingTypeOK
  <1>1. /\ tick[i] \in TickRecord /\ tick \in [Replicas -> TickRecord]
        /\ next[i] \in Nat /\ now \in Nat
    OBVIOUS
  <1>2. Ticking(i) /\ TickSound(i)
    BY DEF Ticking, TicksInTime, ReadHeartbeat, TouchHeartbeat, ListJobs,
           QueueRun, QueueFails
  <1>3. InTime(i)
    BY <1>2 DEF TickSound
  <1>4. UNCHANGED <<now, up, next, lastMinute, lost, read, unread, done>>
    BY DEF ReadHeartbeat, TouchHeartbeat, ListJobs, QueueRun, QueueFails
  <1>5. \A k \in Replicas \ {i} : tick'[k] = tick[k]
    BY <1>1 DEF ReadHeartbeat, TouchHeartbeat, ListJobs, QueueRun, QueueFails
  <1>6. SUFFICES /\ tick' \in [Replicas -> TickRecord]
                 /\ beat' \in Nat \ {0} /\ rows' \in SUBSET DueAt /\ cut' \in BOOLEAN
                 /\ tick'[i].pc # "idle" /\ InTime(i)'
    BY <1>4, <1>5, OthersSound DEF TickSound, Ticking
  <1> DEFINE Queues == \E p \in tick[i].todo : QueueRun(i, p) \/ QueueFails(i, p)
  <1>7. CASE ReadHeartbeat(i)
    <2> DEFINE past == missedMinutes(tick[i].minute, beat)
               pc == IF i \in DryRunners THEN "list" ELSE "touch"
    <2>1. tick' = [tick EXCEPT ![i] = [@ EXCEPT !.past = past, !.pc = pc]]
      BY <1>1, <1>7 DEF ReadHeartbeat
    <2>2. /\ past \in SUBSET Nat
          /\ \A t \in past : t < tick[i].minute /\ tick[i].minute - t <= MissScanMin
      BY <1>1, SchedulingAssumption DEF missedMinutes, Minutes, TickRecord
    <2>3. /\ tick'[i].pc = pc /\ tick'[i].past = past
          /\ tick'[i].since = tick[i].since /\ tick'[i].minute = tick[i].minute
          /\ tick'[i].todo = tick[i].todo /\ tick'[i] \in TickRecord
      BY <1>1, <2>1, <2>2 DEF TickRecord, Places
    <2>4. tick[i].todo = {}
      BY <1>3, <1>7 DEF InTime, ReadHeartbeat
    <2> HIDE DEF past
    <2>5. InTime(i)'
      BY <1>3, <1>4, <2>2, <2>3, <2>4 DEF InTime
    <2>6. tick' \in [Replicas -> TickRecord]
      BY <1>1, <2>1, <2>3
    <2>7. QED
      BY <1>7, <2>3, <2>5, <2>6 DEF ReadHeartbeat
  <1>8. CASE TouchHeartbeat(i)
    <2>1. tick' = [tick EXCEPT ![i] = [@ EXCEPT !.pc = "list"]]
      BY <1>1, <1>8 DEF TouchHeartbeat
    <2>2. /\ tick'[i].pc = "list" /\ tick'[i].past = tick[i].past
          /\ tick'[i].since = tick[i].since /\ tick'[i].minute = tick[i].minute
          /\ tick'[i].todo = tick[i].todo /\ tick'[i] \in TickRecord
      BY <1>1, <2>1 DEF TickRecord, Places
    <2>3. tick[i].todo = {}
      BY <1>3, <1>8 DEF InTime, TouchHeartbeat
    <2>4. InTime(i)'
      BY <1>3, <1>4, <2>2, <2>3 DEF InTime
    <2>5. tick' \in [Replicas -> TickRecord]
      BY <1>1, <2>1, <2>2
    <2>6. beat' \in Nat \ {0}
      BY <1>1, <1>3, <1>8 DEF TouchHeartbeat, InTime, TickRecord
    <2>7. QED
      BY <1>8, <2>2, <2>4, <2>5, <2>6 DEF TouchHeartbeat
  <1>9. CASE ListJobs(i)
    <2> DEFINE due == {p \in DueAt : Evaluates(i, p)}
               todo == IF i \in DryRunners THEN {} ELSE due
    <2>1. tick' = [tick EXCEPT ![i] = [@ EXCEPT !.pc = "queue", !.todo = todo]]
      BY <1>1, <1>9 DEF ListJobs, Evaluates
    <2>2. /\ tick'[i].pc = "queue" /\ tick'[i].past = tick[i].past
          /\ tick'[i].since = tick[i].since /\ tick'[i].minute = tick[i].minute
          /\ tick'[i].todo = todo /\ tick'[i] \in TickRecord
      BY <1>1, <2>1 DEF TickRecord, Places
    <2>3. InTime(i)'
      <3>1. \A p \in todo : Evaluates(i, p)
        OBVIOUS
      <3>2. i \in DryRunners => todo = {}
        OBVIOUS
      <3> HIDE DEF todo
      <3>3. \A p \in tick'[i].todo : Evaluates(i, p)'
        BY <2>2, <3>1 DEF Evaluates
      <3>4. QED
        BY <1>3, <1>4, <2>2, <3>2, <3>3 DEF InTime
    <2>4. tick' \in [Replicas -> TickRecord]
      BY <1>1, <2>1, <2>2
    <2>5. QED
      BY <1>9, <2>2, <2>3, <2>4 DEF ListJobs
  <1>10. CASE Queues
    <2>1. PICK p \in tick[i].todo : QueueRun(i, p) \/ QueueFails(i, p)
      BY <1>10
    <2>2. tick' = [tick EXCEPT ![i] = [@ EXCEPT !.todo = tick[i].todo \ {p}]]
      BY <1>1, <2>1 DEF QueueRun, QueueFails
    <2>3. /\ tick'[i].pc = "queue" /\ tick'[i].past = tick[i].past
          /\ tick'[i].since = tick[i].since /\ tick'[i].minute = tick[i].minute
          /\ tick'[i].todo = tick[i].todo \ {p} /\ tick'[i] \in TickRecord
      BY <1>1, <2>1, <2>2 DEF TickRecord, Places, QueueRun, QueueFails
    <2>4. InTime(i)'
      <3>1. \A r \in tick'[i].todo : Evaluates(i, r)'
        BY <1>3, <2>3 DEF Evaluates, InTime
      <3>2. QED
        BY <1>3, <1>4, <2>3, <3>1 DEF InTime
    <2>5. tick' \in [Replicas -> TickRecord]
      BY <1>1, <2>2, <2>3
    <2>6. beat' = beat
      BY <2>1 DEF QueueRun, QueueFails
    <2>7. cut' \in BOOLEAN
      BY <1>1, <2>1 DEF QueueRun, QueueFails
    <2>8. rows' \in SUBSET DueAt
      BY <1>1, <2>1 DEF QueueRun, QueueFails, TickRecord
    <2>9. QED
      BY <2>3, <2>4, <2>5, <2>6, <2>7, <2>8
  <1>11. QED
    BY <1>7, <1>8, <1>9, <1>10

(* The steps after or before which a replica has no tick.                  *)
LEMMA ClockIdle ==
    ASSUME ClockInv, NEW i \in Replicas,
           ClockUnreadable(i) \/ EndTick(i) \/ TickFails(i) \/ Stop(i) \/ Start(i)
    PROVE  ClockInv'
  <1> USE DEF ClockInv, SchedulingTypeOK
  <1>1. NoTick \in TickRecord /\ NoTick.pc = "idle"
    BY DEF NoTick, NoMinute, TickRecord, Places
  <1>2. tick' = [tick EXCEPT ![i] = NoTick]
    <2>1. TickSound(i)
      BY DEF TicksInTime
    <2>2. CASE ClockUnreadable(i) \/ Start(i)
      <3>1. tick[i] = NoTick
        BY <2>1, <2>2 DEF TickSound, InTime, ClockUnreadable, Fires, Start
      <3>2. tick' = tick
        BY <2>2 DEF ClockUnreadable, Start
      <3>3. QED
        BY <3>1, <3>2
    <2>3. QED
      BY <2>2 DEF EndTick, TickFails, Stop
  <1>3. tick' \in [Replicas -> TickRecord] /\ tick'[i] = NoTick
    BY <1>1, <1>2
  <1>4. \A k \in Replicas \ {i} : /\ tick'[k] = tick[k] /\ next'[k] = next[k]
                                  /\ k \in up <=> k \in up'
    BY <1>2 DEF ClockUnreadable, EndTick, TickFails, Stop, Start
  <1>5. now' = now
    BY DEF ClockUnreadable, EndTick, TickFails, Stop, Start
  <1>6. TicksInTime'
    <2>1. TickSound(i)'
      BY <1>1, <1>3 DEF TickSound, Ticking
    <2>2. QED
      BY <1>4, <1>5, <2>1, OthersSound
  <1>7. SchedulingTypeOK'
    <2>1. CASE ClockUnreadable(i)
      BY <1>3, <2>1 DEF ClockUnreadable
    <2>2. CASE EndTick(i)
      <3>1. tick[i] \in TickRecord
        OBVIOUS
      <3>2. tick[i].lost \in Nat /\ tick[i].minute \in Nat
        BY <3>1 DEF TickRecord
      <3>3. lost' \in [Replicas -> Nat] /\ done' \in SUBSET Nat
        BY <2>2, <3>2 DEF EndTick
      <3>4. QED
        BY <1>3, <2>2, <3>3 DEF EndTick
    <2>3. CASE TickFails(i)
      BY <1>3, <2>3 DEF TickFails, AfterPulse
    <2>4. CASE Stop(i)
      BY <1>3, <2>4 DEF Stop, AfterPulse
    <2>5. CASE Start(i)
      <3>1. minuteStart(now) + 1 \in Nat
        BY MinuteBounds
      <3>2. /\ next' \in [Replicas -> Nat] /\ lastMinute' \in [Replicas -> Nat]
            /\ lost' \in [Replicas -> Nat] /\ unread' \in [Replicas -> Nat]
        BY <2>5, <3>1 DEF Start, NoMinute
      <3>3. read' \in [Replicas -> SUBSET Nat]
        BY <2>5 DEF Start
      <3>4. QED
        BY <1>3, <2>5, <3>2, <3>3 DEF Start
    <2>6. QED
      BY <2>1, <2>2, <2>3, <2>4, <2>5
  <1>8. QED
    BY <1>6, <1>7

LEMMA ClockNext ==
    ASSUME ClockInv, [Next]_vars
    PROVE  ClockInv'
  <1>1. CASE UNCHANGED vars
    BY <1>1 DEF vars, dispVars, ClockInv, SchedulingTypeOK, TicksInTime,
                TickSound, Ticking, InTime, Evaluates
  <1>2. QED
    BY <1>1, ClockAdvance, ClockBegin, ClockTick, ClockIdle DEF Next

(* A tick knows its minute and what it may queue.                          *)
THEOREM ClockInvariant == Spec => []ClockInv
  BY ClockInit, ClockNext, PTL DEF Spec

-----------------------------------------------------------------------------
(* How late a row can be *)

LEMMA ReachIs ==
    ASSUME NEW j \in Jobs
    PROVE  /\ Reach(j) \in Nat
           /\ \A d \in Nat : d > 0 =>
                 (d <= Reach(j) <=>
                    j \in RunMissed /\ d <= MissScanMin /\ d <= MaxDelayMin[j])
  <1> DEFINE a == MissScanMin
             b == MaxDelayMin[j]
  <1>1. a \in Nat /\ b \in Nat
    BY SchedulingAssumption
  <1> HIDE DEF a, b
  <1>2. Min({a, b}) \in {a, b} /\ Min({a, b}) <= a /\ Min({a, b}) <= b
    <2>1. \E x \in {a, b} : \A y \in {a, b} : x <= y
      BY <1>1
    <2>2. QED
      BY <2>1 DEF Min
  <1>3. Reach(j) = IF j \in RunMissed THEN Min({a, b}) ELSE 0
    BY DEF Reach, a, b
  <1>4. \A d \in Nat : d <= Min({a, b}) <=> d <= a /\ d <= b
    BY <1>1, <1>2
  <1>5. QED
    BY <1>1, <1>2, <1>3, <1>4 DEF a, b

(* What a tick evaluates lies within the reach of the job.                 *)
LEMMA EvaluatedInReach ==
    ASSUME ClockInv, NEW i \in Replicas, Ticking(i),
           NEW p \in DueAt, Evaluates(i, p)
    PROVE  /\ p[1] \in Jobs /\ p[2] \in Nat
           /\ p[2] <= tick[i].minute /\ tick[i].minute - p[2] <= Reach(p[1])
  <1>1. p[1] \in Jobs /\ p[2] \in Nat
    BY SchedulingAssumption DEF Minutes
  <1>2. Reach(p[1]) \in Nat
    BY <1>1, ReachIs
  <1>3. tick[i].minute \in Nat
    BY DEF ClockInv, SchedulingTypeOK, TickRecord
  <1>4. \/ p[2] = tick[i].minute
        \/ /\ p[1] \in RunMissed /\ p[2] \in tick[i].past
           /\ tick[i].minute - p[2] <= MaxDelayMin[p[1]]
    BY DEF Evaluates, candidateMinutes
  <1>5. CASE p[2] = tick[i].minute
    BY <1>1, <1>2, <1>3, <1>5
  <1>6. CASE p[2] # tick[i].minute
    <2>1. InTime(i)
      BY DEF ClockInv, TicksInTime, TickSound
    <2>2. p[2] < tick[i].minute /\ tick[i].minute - p[2] <= MissScanMin
      BY <1>4, <1>6, <2>1 DEF InTime
    <2>3. tick[i].minute - p[2] \in Nat /\ tick[i].minute - p[2] > 0
      BY <1>1, <1>3, <2>2
    <2>4. tick[i].minute - p[2] <= Reach(p[1])
      BY <1>1, <1>4, <1>6, <2>2, <2>3, ReachIs
    <2>5. QED
      BY <1>1, <1>3, <2>2, <2>4
  <1>7. QED
    BY <1>5, <1>6

(* "So a dispatcher that was down for a week does not queue a week of work *)
(* the instant it returns": whatever the clocks, the outages and the       *)
(* failures, no row is opened further back than the job's reach.           *)
THEOREM NoRowTooLate == Spec => NeverTooLate
  <1> DEFINE Timely ==
                \A p \in rows' \ rows :
                    /\ p[2] <= minuteStart(now)
                    /\ minuteStart(now) - p[2] <= Reach(p[1]) + 1
  <1>1. ClockInv /\ [Next]_vars => [Timely]_vars
    <2>1. SUFFICES ASSUME ClockInv, Next, NEW q \in rows' \ rows
                   PROVE  /\ q[2] <= minuteStart(now)
                          /\ minuteStart(now) - q[2] <= Reach(q[1]) + 1
      OBVIOUS
    <2>2. PICK i \in Replicas : q \in tick[i].todo /\ tick[i].pc = "queue"
      BY <2>1 DEF Next, Advance, BeginTick, ClockUnreadable, ReadHeartbeat,
                  TouchHeartbeat, ListJobs, QueueRun, QueueFails, EndTick,
                  TickFails, Stop, Start
    <2>3. Ticking(i) /\ InTime(i)
      BY <2>1, <2>2 DEF Ticking, ClockInv, TicksInTime, TickSound
    <2>4. /\ tick[i].since \in Nat /\ now \in Nat /\ tick[i].minute \in Nat
          /\ q \in DueAt
      BY <2>1, <2>2 DEF ClockInv, SchedulingTypeOK, TickRecord
    <2>5. /\ q[1] \in Jobs /\ q[2] \in Nat
          /\ q[2] <= tick[i].minute /\ tick[i].minute - q[2] <= Reach(q[1])
      BY <2>1, <2>2, <2>3, <2>4, EvaluatedInReach DEF InTime
    <2>6. /\ tick[i].minute <= minuteStart(now)
          /\ minuteStart(now) <= tick[i].minute + 1
      BY <2>3, <2>4, MinutesFollow DEF InTime
    <2>7. minuteStart(now) \in Nat /\ Reach(q[1]) \in Nat
      BY <2>4, <2>5, MinuteBounds, ReachIs
    <2>8. QED
      BY <2>4, <2>5, <2>6, <2>7
  <1>2. QED
    BY <1>1, ClockInvariant, PTL DEF Spec, NeverTooLate

-----------------------------------------------------------------------------
(* The chain of minutes of a replica *)

LEMMA NowMinute ==
    ASSUME ClockInv
    PROVE  minuteStart(now) \in Nat \ {0}
  <1> DEFINE minute == minuteStart(now)
  <1>1. now \in Nat /\ now >= UnitsPerMinute
    BY DEF ClockInv, SchedulingTypeOK
  <1>2. minute \in Nat /\ now < minute * UnitsPerMinute + UnitsPerMinute
    BY <1>1, MinuteBounds
  <1>3. minute = 0 => minute * UnitsPerMinute = 0
    BY UnitsPositive
  <1> HIDE DEF minute
  <1>4. minute # 0
    BY <1>1, <1>2, <1>3, UnitsPositive
  <1>5. QED
    BY <1>2, <1>4 DEF minute

LEMMA GapsFinite ==
    ASSUME NEW i \in Replicas, NEW n \in Int
    PROVE  /\ IsFiniteSet(Gaps(i, n)) /\ Cardinality(Gaps(i, n)) \in Nat
           /\ \A T \in SUBSET Gaps(i, n) : Cardinality(T) <= Cardinality(Gaps(i, n))
  <1>1. Gaps(i, n) \in SUBSET (0..n) /\ IsFiniteSet(0..n)
    BY FS_Interval DEF Gaps
  <1>2. IsFiniteSet(Gaps(i, n))
    BY <1>1, FS_Subset
  <1>3. QED
    BY <1>2, FS_Subset, FS_CardinalityType

(* The holes up to the minute read last are gaps.                          *)
LEMMA HolesAreGaps ==
    ASSUME ClockInv, NEW i \in Replicas, ChainOf(i)
    PROVE  Holes(i) = Gaps(i, lastMinute[i])
  <1> DEFINE S == read[i]
             m == Min(read[i])
  <1>1. S \in SUBSET Nat /\ lastMinute[i] \in Nat
    BY DEF ClockInv, SchedulingTypeOK
  <1>2. CASE S = {}
    BY <1>2 DEF Holes, Gaps
  <1>3. CASE S # {}
    <2>1. m \in S /\ \A k \in S : m <= k
      <3>1. \E n \in S : \A k \in S : n <= k
        BY <1>1, <1>3, LeastElement
      <3>2. QED
        BY <3>1 DEF Min
    <2>2. Holes(i) = (m..lastMinute[i]) \ S
      BY <1>3 DEF Holes
    <2> HIDE DEF m
    <2>3. m \in Nat
      BY <1>1, <2>1
    <2>4. \A x : x \in (m..lastMinute[i]) \ S <=> x \in Gaps(i, lastMinute[i])
      BY <1>1, <2>1, <2>3 DEF Gaps
    <2>5. QED
      BY <2>2, <2>4
  <1>4. QED
    BY <1>2, <1>3

LEMMA ChainFrame ==
    ASSUME NEW i \in Replicas, ChainOf(i),
           /\ read'[i] = read[i] /\ next'[i] = next[i] /\ lost'[i] = lost[i]
           /\ lastMinute'[i] = lastMinute[i] /\ unread'[i] = unread[i]
           /\ tick'[i].lost = tick[i].lost
    PROVE  ChainOf(i)'
  BY DEF ChainOf, Gaps

(* The tick reads the minute it was fired for, and its audit counts what   *)
(* lies between that and the minute before.                                *)
LEMMA ChainBegin ==
    ASSUME OrdinarySkew, ClockInv, NEW i \in Replicas, ChainOf(i), BeginTick(i)
    PROVE  ChainOf(i)'
  <1> DEFINE n == next[i]
             last == lastMinute[i]
             gap == MinutesLost(i, n)
  <1>1. /\ n \in Nat /\ last \in Nat /\ read[i] \in SUBSET Nat
        /\ lost[i] \in Nat
    BY DEF ClockInv, SchedulingTypeOK
  <1>2. minuteStart(now) = n /\ n # 0
    BY <1>1, NowMinute, FiresInMinute DEF BeginTick, Fires
  <1>3. /\ read'[i] = read[i] \cup {n} /\ next'[i] = n + 1 /\ lastMinute'[i] = n
        /\ unread'[i] = unread[i] /\ lost'[i] = lost[i]
        /\ tick'[i].lost = gap
    BY <1>2 DEF ClockInv, SchedulingTypeOK, BeginTick
  <1>4. tick[i].lost = 0
    BY DEF BeginTick, Fires, ClockInv, TicksInTime, TickSound, NoTick
  <1>5. \A m \in read[i] : m < n /\ m # 0
    BY DEF ChainOf
  <1>6. Gaps(i, next[i] - 1) = Gaps(i, next[i] - 1)'
    <2>1. (n + 1) - 1 = n
      BY <1>1
    <2>2. \A x : x \in 0..n /\ x # n <=> x \in 0..(n - 1)
      BY <1>1
    <2> DEFINE A == {m \in 0..(n - 1) : m \notin read[i] /\ \E k \in read[i] : k < m}
               B == {m \in 0..n : /\ m \notin read[i] \cup {n}
                                  /\ \E k \in read[i] \cup {n} : k < m}
    <2>3. \A x : x \in A <=> x \in B
      BY <1>1, <1>5, <2>2
    <2>4. A = B
      BY <2>3
    <2>5. QED
      BY <1>3, <2>1, <2>4 DEF Gaps
  <1>7. lost[i] + gap <= Cardinality(Gaps(i, lastMinute[i])')
    <2>1. Gaps(i, lastMinute[i])' = Gaps(i, n - 1)
      <3>1. \A x : x \in 0..n /\ x # n <=> x \in 0..(n - 1)
        BY <1>1
      <3> DEFINE A == {m \in 0..(n - 1) : m \notin read[i] /\ \E k \in read[i] : k < m}
                 B == {m \in 0..n : /\ m \notin read[i] \cup {n}
                                    /\ \E k \in read[i] \cup {n} : k < m}
      <3>2. \A x : x \in A <=> x \in B
        BY <1>1, <1>5, <3>1
      <3>3. A = B
        BY <3>2
      <3>4. QED
        BY <1>3, <3>3 DEF Gaps
    <2>2. lost[i] <= Cardinality(Gaps(i, last))
      BY <1>1, <1>4 DEF ChainOf
    <2>3. CASE last = NoMinute
      <3>1. gap = 0 /\ Gaps(i, last) = {}
        BY <2>3 DEF MinutesLost, ChainOf, Gaps
      <3>2. Cardinality(Gaps(i, n - 1)) \in Nat
        BY <1>1, GapsFinite
      <3>3. QED
        BY <1>1, <2>1, <2>2, <3>1, <3>2, FS_EmptySet
    <2>4. CASE last # NoMinute
      <3>1. last \in read[i] /\ last < n
        BY <1>5, <2>4 DEF ChainOf
      <3>2. gap = n - last - 1
        BY <1>1, <2>4, <3>1 DEF MinutesLost
      <3> DEFINE B == (last + 1)..(n - 1)
      <3>3. \A x : x \in Gaps(i, n - 1) <=> x \in Gaps(i, last) \cup B
        <4>1. \A k \in read[i] : k <= last
          BY DEF ChainOf
        <4>2. QED
          BY <1>1, <3>1, <4>1 DEF Gaps
      <3>4. Gaps(i, n - 1) = Gaps(i, last) \cup B
        BY <3>3
      <3>5. Gaps(i, last) \cap B = {}
        BY <1>1 DEF Gaps
      <3>6. IsFiniteSet(B) /\ Cardinality(B) = n - last - 1
        <4>1. last + 1 \in Int /\ n - 1 \in Int
          BY <1>1
        <4>2. /\ IsFiniteSet(B)
              /\ Cardinality(B) = IF last + 1 > n - 1 THEN 0 ELSE (n - 1) - (last + 1) + 1
          BY <4>1, FS_Interval
        <4> HIDE DEF B
        <4>3. QED
          BY <1>1, <3>1, <4>2
      <3>7. Cardinality(Gaps(i, n - 1)) = Cardinality(Gaps(i, last)) + Cardinality(B)
        <4>1. IsFiniteSet(Gaps(i, last)) /\ Cardinality(Gaps(i, last)) \in Nat
          BY <1>1, GapsFinite
        <4>2. Cardinality(Gaps(i, last) \cap B) = 0
          BY <3>5, FS_EmptySet
        <4> HIDE DEF B
        <4>3. Cardinality(Gaps(i, last) \cup B)
                = Cardinality(Gaps(i, last)) + Cardinality(B)
                    - Cardinality(Gaps(i, last) \cap B)
          BY <3>6, <4>1, FS_Union
        <4>4. Cardinality(B) \in Nat
          BY <3>6, FS_CardinalityType
        <4>5. Cardinality(Gaps(i, n - 1)) = Cardinality(Gaps(i, last) \cup B)
          BY <3>4, Zenon
        <4>6. QED
          BY <4>1, <4>2, <4>3, <4>4, <4>5
      <3>8. Cardinality(Gaps(i, last)) \in Nat
        BY <1>1, GapsFinite
      <3> HIDE DEF gap, B
      <3>9. QED
        BY <1>1, <2>1, <2>2, <3>1, <3>2, <3>6, <3>7, <3>8
    <2>5. QED
      BY <2>3, <2>4
  <1>8. \A m \in read'[i] : m # 0 /\ m < next'[i] /\ m <= lastMinute'[i]
    BY <1>1, <1>2, <1>3, <1>5
  <1>9. lastMinute'[i] # NoMinute /\ lastMinute'[i] \in read'[i]
    BY <1>2, <1>3 DEF NoMinute
  <1>10. Cardinality(Gaps(i, next[i] - 1)') <= unread'[i]
    BY <1>3, <1>6 DEF ChainOf
  <1> HIDE DEF gap, n, last
  <1>11. QED
    BY <1>3, <1>7, <1>8, <1>9, <1>10 DEF ChainOf

(* A firing that cannot read the clock leaves one gap more.                *)
LEMMA ChainUnreadable ==
    ASSUME ClockInv, NEW i \in Replicas, ChainOf(i), ClockUnreadable(i)
    PROVE  ChainOf(i)'
  <1> DEFINE n == next[i]
  <1>1. /\ n \in Nat /\ read[i] \in SUBSET Nat /\ unread[i] \in Nat
    BY DEF ClockInv, SchedulingTypeOK
  <1>2. /\ read'[i] = read[i] /\ next'[i] = n + 1 /\ lastMinute'[i] = lastMinute[i]
        /\ unread'[i] = unread[i] + 1 /\ lost'[i] = lost[i] /\ tick' = tick
    BY DEF ClockInv, SchedulingTypeOK, ClockUnreadable
  <1>3. (n + 1) - 1 = n
    BY <1>1
  <1>4. Gaps(i, next[i] - 1)' = Gaps(i, n)
    BY <1>2, <1>3 DEF Gaps
  <1>5. Cardinality(Gaps(i, n)) <= Cardinality(Gaps(i, n - 1)) + 1
    <2>1. /\ IsFiniteSet(Gaps(i, n - 1)) /\ Cardinality(Gaps(i, n - 1)) \in Nat
          /\ IsFiniteSet(Gaps(i, n)) /\ Cardinality(Gaps(i, n)) \in Nat
      BY <1>1, GapsFinite
    <2> DEFINE W == Gaps(i, n - 1) \cup {n}
    <2>2. IsFiniteSet(W) /\ Cardinality(W) <= Cardinality(Gaps(i, n - 1)) + 1
      <3>1. /\ IsFiniteSet(W)
            /\ Cardinality(W) = IF n \in Gaps(i, n - 1) THEN Cardinality(Gaps(i, n - 1))
                                ELSE Cardinality(Gaps(i, n - 1)) + 1
        BY <2>1, FS_AddElement
      <3> HIDE DEF W
      <3>2. QED
        BY <2>1, <3>1
    <2>3. Gaps(i, n) \in SUBSET W
      BY <1>1 DEF Gaps
    <2> HIDE DEF W
    <2>4. Cardinality(Gaps(i, n)) <= Cardinality(W) /\ Cardinality(W) \in Nat
      BY <2>2, <2>3, FS_Subset, FS_CardinalityType
    <2>5. QED
      BY <2>1, <2>2, <2>4
  <1>6. Cardinality(Gaps(i, next[i] - 1)') <= unread'[i]
    <2>1. Cardinality(Gaps(i, n - 1)) <= unread[i]
      BY DEF ChainOf
    <2>2. /\ Cardinality(Gaps(i, n - 1)) \in Nat /\ Cardinality(Gaps(i, n)) \in Nat
      BY <1>1, GapsFinite
    <2>3. QED
      BY <1>1, <1>2, <1>4, <1>5, <2>1, <2>2
  <1>7. Gaps(i, lastMinute[i])' = Gaps(i, lastMinute[i])
    BY <1>2 DEF Gaps
  <1>8. \A m \in read'[i] : m # 0 /\ m < next'[i] /\ m <= lastMinute'[i]
    BY <1>1, <1>2 DEF ChainOf
  <1>9. QED
    BY <1>2, <1>6, <1>7, <1>8 DEF ChainOf

(* A tick that ends moves its gap to the counter, one that fails drops it. *)
LEMMA ChainEnd ==
    ASSUME ClockInv, NEW i \in Replicas, ChainOf(i),
           EndTick(i) \/ TickFails(i) \/ Stop(i)
    PROVE  ChainOf(i)'
  <1>1. /\ tick[i].lost \in Nat /\ lost[i] \in Nat /\ lastMinute[i] \in Nat
    BY DEF ClockInv, SchedulingTypeOK, TickRecord
  <1>2. /\ UNCHANGED <<read, next, lastMinute, unread>>
        /\ tick'[i].lost = 0
        /\ lost'[i] = lost[i] + tick[i].lost \/ lost'[i] = lost[i]
    BY DEF ClockInv, SchedulingTypeOK, EndTick, TickFails, Stop, NoTick
  <1>3. /\ Gaps(i, next[i] - 1)' = Gaps(i, next[i] - 1)
        /\ Gaps(i, lastMinute[i])' = Gaps(i, lastMinute[i])
    BY <1>2 DEF Gaps
  <1>4. Cardinality(Gaps(i, lastMinute[i])) \in Nat
    BY <1>1, GapsFinite
  <1>5. lost'[i] + tick'[i].lost <= Cardinality(Gaps(i, lastMinute[i])')
    BY <1>1, <1>2, <1>3, <1>4 DEF ChainOf
  <1>6. QED
    BY <1>2, <1>3, <1>5 DEF ChainOf

LEMMA ChainStart ==
    ASSUME ClockInv, NEW i \in Replicas, Start(i)
    PROVE  ChainOf(i)'
  <1>1. /\ read'[i] = {} /\ lastMinute'[i] = NoMinute /\ unread'[i] = 0
        /\ lost'[i] = 0 /\ tick' = tick
    BY DEF ClockInv, SchedulingTypeOK, Start
  <1>2. tick[i].lost = 0
    BY DEF Start, ClockInv, TicksInTime, TickSound, InTime, NoTick
  <1>3. Gaps(i, next[i] - 1)' = {} /\ Gaps(i, lastMinute[i])' = {}
    BY <1>1 DEF Gaps
  <1>4. QED
    BY <1>1, <1>2, <1>3, FS_EmptySet DEF ChainOf

LEMMA ChainInit == Init => MinuteChain
  <1> SUFFICES ASSUME Init, NEW i \in Replicas PROVE ChainOf(i)
    BY DEF MinuteChain
  <1>1. /\ read[i] = {} /\ lastMinute[i] = NoMinute /\ unread[i] = 0
        /\ lost[i] = 0 /\ tick[i].lost = 0
    BY DEF Init, NoTick
  <1>2. Gaps(i, next[i] - 1) = {} /\ Gaps(i, lastMinute[i]) = {}
    BY <1>1 DEF Gaps
  <1>3. /\ Cardinality(Gaps(i, next[i] - 1)) = 0
        /\ Cardinality(Gaps(i, lastMinute[i])) = 0
    BY <1>2, FS_EmptySet
  <1>4. /\ \A m \in read[i] : m # 0 /\ m < next[i] /\ m <= lastMinute[i]
        /\ lastMinute[i] # NoMinute => lastMinute[i] \in read[i]
    BY <1>1
  <1>5. /\ Cardinality(Gaps(i, next[i] - 1)) <= unread[i]
        /\ lost[i] + tick[i].lost <= Cardinality(Gaps(i, lastMinute[i]))
    <2>1. unread[i] = 0 /\ lost[i] + tick[i].lost = 0
      BY <1>1
    <2>2. QED
      BY <1>3, <2>1
  <1>6. QED
    BY <1>1, <1>4, <1>5 DEF ChainOf

LEMMA ChainNext ==
    ASSUME OrdinarySkew, ClockInv, MinuteChain, [Next]_vars
    PROVE  MinuteChain'
  <1> USE DEF MinuteChain
  <1>1. CASE UNCHANGED vars \/ Advance
    BY <1>1, ChainFrame DEF vars, dispVars, Advance
  <1>2. ASSUME NEW i \in Replicas,
               \/ ReadHeartbeat(i) \/ TouchHeartbeat(i) \/ ListJobs(i)
               \/ \E p \in tick[i].todo : QueueRun(i, p) \/ QueueFails(i, p)
        PROVE  MinuteChain'
    <2>1. tick \in [Replicas -> TickRecord]
      BY DEF ClockInv, SchedulingTypeOK
    <2>2. \A k \in Replicas : tick'[k].lost = tick[k].lost
      BY <1>2, <2>1 DEF ReadHeartbeat, TouchHeartbeat, ListJobs, QueueRun,
                        QueueFails, TickRecord
    <2>3. UNCHANGED <<read, next, lastMinute, unread, lost>>
      BY <1>2 DEF ReadHeartbeat, TouchHeartbeat, ListJobs, QueueRun, QueueFails
    <2>4. QED
      BY <2>2, <2>3, ChainFrame
  <1>3. ASSUME NEW i \in Replicas,
               \/ BeginTick(i) \/ ClockUnreadable(i) \/ EndTick(i)
               \/ TickFails(i) \/ Stop(i) \/ Start(i)
        PROVE  MinuteChain'
    <2>1. ASSUME NEW k \in Replicas \ {i} PROVE ChainOf(k)'
      <3>1. /\ read'[k] = read[k] /\ next'[k] = next[k] /\ lost'[k] = lost[k]
            /\ lastMinute'[k] = lastMinute[k] /\ unread'[k] = unread[k]
            /\ tick'[k] = tick[k]
        BY <1>3, <2>1 DEF ClockInv, SchedulingTypeOK, BeginTick, ClockUnreadable,
                          EndTick, TickFails, Stop, Start
      <3>2. QED
        BY <2>1, <3>1, ChainFrame
    <2>2. ChainOf(i)'
      BY <1>3, ChainBegin, ChainUnreadable, ChainEnd, ChainStart
    <2>3. QED
      BY <2>1, <2>2
  <1>4. QED
    BY <1>1, <1>2, <1>3 DEF Next

(* Of the minutes since the first it read, a replica left out no more than *)
(* the readings of its clock that failed, and counted no more of them as   *)
(* lost (lastMinute in Dispatcher.tick).                                   *)
THEOREM MinutesInvariant ==
    ASSUME OrdinarySkew
    PROVE  Spec => [](ClockInv /\ MinuteChain)
  <1>1. Init => ClockInv /\ MinuteChain
    BY ClockInit, ChainInit
  <1>2. ClockInv /\ MinuteChain /\ [Next]_vars => (ClockInv /\ MinuteChain)'
    BY ClockNext, ChainNext
  <1>3. QED
    BY <1>1, <1>2, PTL DEF Spec

(* "Sampling at the fifth second makes it impossible for ordinary clock    *)
(* skew to land on the boundary": a live replica that can read the clock   *)
(* skips no minute, however its clock wanders from one firing to the next. *)
THEOREM EveryMinuteRead ==
    ASSUME OrdinarySkew
    PROVE  Spec => []NoMinuteSkipped
  <1>1. ClockInv /\ MinuteChain => NoMinuteSkipped
    <2>1. SUFFICES ASSUME ClockInv, MinuteChain, NEW i \in Replicas
                   PROVE  Cardinality(Holes(i)) <= unread[i]
      BY DEF NoMinuteSkipped
    <2>2. ChainOf(i) /\ next[i] \in Nat /\ lastMinute[i] \in Nat /\ unread[i] \in Nat
      BY <2>1 DEF MinuteChain, ClockInv, SchedulingTypeOK
    <2>3. Gaps(i, lastMinute[i]) \in SUBSET Gaps(i, next[i] - 1)
      <3>1. CASE lastMinute[i] = NoMinute
        BY <2>2, <3>1 DEF ChainOf, Gaps
      <3>2. CASE lastMinute[i] # NoMinute
        <4>1. lastMinute[i] <= next[i] - 1
          BY <2>2, <3>2 DEF ChainOf
        <4>2. QED
          BY <2>2, <4>1 DEF Gaps
      <3>3. QED
        BY <3>1, <3>2
    <2>4. /\ Cardinality(Gaps(i, lastMinute[i])) <= Cardinality(Gaps(i, next[i] - 1))
          /\ Cardinality(Gaps(i, lastMinute[i])) \in Nat
          /\ Cardinality(Gaps(i, next[i] - 1)) \in Nat
      BY <2>2, <2>3, GapsFinite
    <2>5. QED
      BY <2>1, <2>2, <2>4, HolesAreGaps DEF ChainOf
  <1>2. QED
    BY <1>1, MinutesInvariant, PTL

(* "Any increase in that counter is a fault": what the counter says was    *)
(* lost was not read by the replica since its start.                       *)
THEOREM LossesAreReal ==
    ASSUME OrdinarySkew
    PROVE  Spec => []LostMinutesAreReal
  <1>1. ClockInv /\ MinuteChain => LostMinutesAreReal
    <2>1. SUFFICES ASSUME ClockInv, MinuteChain, NEW i \in Replicas
                   PROVE  lost[i] <= Cardinality(Holes(i))
      BY DEF LostMinutesAreReal
    <2>2. /\ ChainOf(i) /\ lost[i] \in Nat /\ lastMinute[i] \in Nat
          /\ tick[i].lost \in Nat
      BY <2>1 DEF MinuteChain, ClockInv, SchedulingTypeOK, TickRecord
    <2>3. Cardinality(Gaps(i, lastMinute[i])) \in Nat
      BY <2>2, GapsFinite
    <2>4. QED
      BY <2>1, <2>2, <2>3, HolesAreGaps DEF ChainOf
  <1>2. QED
    BY <1>1, MinutesInvariant, PTL

-----------------------------------------------------------------------------
(* The pulse and what it owes *)

(* Ticks that run at the same time are of the same minute.                 *)
LEMMA SameMinute ==
    ASSUME OrdinarySkew, ClockInv, NEW i \in Replicas, Ticking(i)
    PROVE  /\ tick[i].minute \in Nat /\ tick[i].minute <= minuteStart(now)
           /\ \A k \in Replicas : Ticking(k) => tick[k].minute = tick[i].minute
  <1>1. \A k \in Replicas : Ticking(k) => InTime(k)
    BY DEF ClockInv, TicksInTime, TickSound
  <1>2. \A k \in Replicas : /\ next[k] \in Nat /\ tick[k].since \in Nat
                            /\ tick[k].minute \in Nat
    BY DEF ClockInv, SchedulingTypeOK, TickRecord
  <1>3. now \in Nat
    BY DEF ClockInv, SchedulingTypeOK
  <1>4. ASSUME NEW k \in Replicas, Ticking(k)
        PROVE  next[k] - 1 \in Nat /\ tick[k].minute = next[k] - 1
    <2>1. next[k] - 1 \in Nat
      BY <1>1, <1>2, <1>4 DEF InTime
    <2>2. QED
      BY <1>1, <1>4, <2>1, FiresInMinute DEF InTime
  <1>5. ASSUME NEW j \in Replicas, NEW k \in Replicas, Ticking(j), Ticking(k)
        PROVE  ~(next[j] - 1 < next[k] - 1)
    <2>1. SUFFICES ASSUME next[j] - 1 < next[k] - 1 PROVE FALSE
      OBVIOUS
    <2>2. tick[j].since + TickUnits < tick[k].since
      BY <1>1, <1>4, <1>5, <2>1, FiringsApart DEF InTime
    <2>3. tick[k].since <= now /\ now <= tick[j].since + TickUnits
      BY <1>1, <1>5 DEF InTime
    <2>4. QED
      BY <1>2, <1>3, <2>2, <2>3, UnitsPositive
  <1>6. ASSUME NEW k \in Replicas, Ticking(k)
        PROVE  tick[k].minute = tick[i].minute
    BY <1>2, <1>4, <1>5, <1>6
  <1>7. tick[i].minute <= minuteStart(now)
    BY <1>1, <1>2, <1>3, MinutesFollow DEF InTime
  <1>8. QED
    BY <1>2, <1>6, <1>7

LEMMA ReplayInit == Init => ReplayInv
  <1> SUFFICES ASSUME Init PROVE ReplayInv
    OBVIOUS
  <1>1. ClockInv
    BY ClockInit
  <1>2. Pulsed = {}
    BY DEF Init, Pulsed, AfterPulse, NoTick
  <1>3. minuteStart(now) \in Nat \ {0}
    BY <1>1, NowMinute
  <1>4. \A i \in Replicas : tick[i].pc = "idle"
    BY DEF Init, NoTick
  <1>5. beat = 1
    BY DEF Init
  <1>6. PulseIsLast
    BY <1>2, <1>3, <1>4, <1>5 DEF PulseIsLast, Ticking
  <1>7. LooksBackToPulse
    BY <1>4 DEF LooksBackToPulse
  <1>8. Owed
    BY <1>2 DEF Owed
  <1>9. QED
    BY <1>6, <1>7, <1>8 DEF ReplayInv

(* A step that refreshes no pulse leaves what is owed, if it opens the row *)
(* or leaves it to its tick.                                               *)
LEMMA OwedFrame ==
    ASSUME Owed, cut => cut', ~cut' => Pulsed' = Pulsed, rows \subseteq rows',
           \A k \in Replicas, p \in DueAt :
              ~cut' /\ AfterPulse(k) /\ Holds(k, p) =>
                 \/ p \in rows'
                 \/ /\ AfterPulse(k)' /\ Holds(k, p)'
                    /\ tick'[k].minute = tick[k].minute
    PROVE  Owed'
  <1>1. SUFFICES ASSUME ~cut', NEW p \in DueAt, NEW b \in Pulsed,
                        p[2] > 1, FirstPulse(b, p[2]), b - p[2] <= Reach(p[1])
                 PROVE  \/ p \in rows'
                        \/ \E k \in Replicas : /\ AfterPulse(k)' /\ Holds(k, p)'
                                               /\ tick'[k].minute = b
    BY DEF Owed, FirstPulse
  <1>2. CASE p \in rows
    BY <1>2
  <1>3. CASE p \notin rows
    <2>1. PICK k \in Replicas : AfterPulse(k) /\ tick[k].minute = b /\ Holds(k, p)
      BY <1>1, <1>3 DEF Owed
    <2>2. QED
      BY <1>1, <2>1
  <1>4. QED
    BY <1>2, <1>3

LEMMA ReplayTouch ==
    ASSUME OrdinarySkew, ClockInv, ReplayInv, NEW i \in Replicas, TouchHeartbeat(i)
    PROVE  ReplayInv'
  <1> DEFINE b == tick[i].minute
  <1>1. Ticking(i)
    BY DEF TouchHeartbeat, Ticking
  <1>2. /\ b \in Nat /\ b <= minuteStart(now) /\ b # 0
        /\ \A k \in Replicas : Ticking(k) => tick[k].minute = b
        /\ i \notin DryRunners
    BY <1>1, SameMinute
    DEF ClockInv, TicksInTime, TickSound, InTime, TouchHeartbeat
  <1>3. /\ tick'[i].pc = "list" /\ tick'[i].minute = b
        /\ tick'[i].past = tick[i].past
        /\ \A k \in Replicas \ {i} : tick'[k] = tick[k]
        /\ beat' = b /\ UNCHANGED <<now, rows, done, cut>>
        /\ tick[i].pc = "touch"
    BY DEF ClockInv, SchedulingTypeOK, TickRecord, TouchHeartbeat
  <1>4. AfterPulse(i)' /\ ~AfterPulse(i)
    BY <1>2, <1>3 DEF AfterPulse
  <1>5. \A k \in Replicas \ {i} : AfterPulse(k)' = AfterPulse(k)
    BY <1>3 DEF AfterPulse
  <1>6. Pulsed' = Pulsed \cup {b}
    BY <1>3, <1>4, <1>5 DEF Pulsed
  <1>7. Pulsed \subseteq Nat /\ beat \in Nat \ {0}
    <2>1. /\ done \subseteq Nat /\ beat \in Nat \ {0}
          /\ \A k \in Replicas : tick[k] \in TickRecord
      BY DEF ClockInv, SchedulingTypeOK
    <2>2. \A k \in Replicas : tick[k].minute \in Nat
      BY <2>1 DEF TickRecord
    <2>3. QED
      BY <2>1, <2>2 DEF Pulsed
  <1>8. beat <= b /\ \A c \in Pulsed : c <= beat
    BY <1>1 DEF ReplayInv, PulseIsLast
  <1>9. PulseIsLast'
    <2>1. \A k \in Replicas : Ticking(k)' => tick'[k].minute = b
      BY <1>2, <1>3 DEF Ticking
    <2>2. \A c \in Pulsed' : c <= beat'
      <3> HIDE DEF b
      <3>1. ASSUME NEW c \in Pulsed PROVE c <= b
        <4>1. c \in Nat /\ c <= beat
          BY <1>7, <1>8
        <4>2. QED
          BY <1>2, <1>7, <1>8, <4>1
      <3>2. b <= b
        BY <1>2
      <3>3. \A c \in Pulsed \cup {b} : c <= b
        BY <3>1, <3>2
      <3>4. QED
        BY <1>3, <1>6, <3>3
    <2>3. beat' <= minuteStart(now)'
      BY <1>2, <1>3
    <2>4. beat' \in Pulsed'
      BY <1>3, <1>6
    <2> HIDE DEF b
    <2>5. \A k \in Replicas : Ticking(k)' => beat' <= tick'[k].minute
      BY <1>2, <1>3, <2>1
    <2>6. QED
      BY <2>2, <2>3, <2>4, <2>5 DEF PulseIsLast
  <1>10. LooksBackToPulse'
    <2>1. ASSUME NEW k \in Replicas, tick'[k].pc = "touch"
          PROVE  beat' = tick'[k].minute
      BY <1>2, <1>3, <2>1 DEF Ticking
    <2>2. QED
      BY <2>1 DEF LooksBackToPulse
  <1>11. Owed'
    <2>1. SUFFICES ASSUME ~cut, NEW p \in DueAt, NEW c \in Pulsed \cup {b},
                          p[2] > 1, c >= p[2], c - p[2] <= Reach(p[1]),
                          \A d \in Pulsed \cup {b} : d >= p[2] => d >= c
                   PROVE  \/ p \in rows'
                          \/ \E k \in Replicas : /\ AfterPulse(k)' /\ Holds(k, p)'
                                                 /\ tick'[k].minute = c
      BY <1>3, <1>6 DEF Owed, FirstPulse
    <2>2. CASE c \in Pulsed
      <3>1. FirstPulse(c, p[2])
        BY <2>1, <2>2 DEF FirstPulse
      <3>2. CASE p \in rows
        BY <1>3, <3>2
      <3>3. CASE p \notin rows
        <4>1. PICK k \in Replicas : AfterPulse(k) /\ tick[k].minute = c /\ Holds(k, p)
          BY <2>1, <2>2, <3>1, <3>3 DEF ReplayInv, Owed
        <4>2. k # i
          BY <1>4, <4>1
        <4>3. tick'[k] = tick[k]
          BY <1>3, <4>2
        <4>4. Holds(k, p)' /\ AfterPulse(k)'
          BY <4>1, <4>3 DEF Holds, Evaluates, AfterPulse
        <4>5. QED
          BY <4>1, <4>3, <4>4
      <3>4. QED
        BY <3>2, <3>3
    <2>3. CASE c \notin Pulsed
      <3>1. c = b
        BY <2>1, <2>3
      <3>2. p[1] \in Jobs /\ p[2] \in Minutes /\ p[2] \in Nat
        BY SchedulingAssumption DEF Minutes
      <3>3. beat \in Pulsed \/ beat = 1
        BY <2>1 DEF ReplayInv, PulseIsLast
      <3>4. beat # b /\ beat < p[2]
        BY <1>2, <1>7, <1>8, <2>1, <2>3, <3>1, <3>2, <3>3
      <3>5. tick[i].past = missedMinutes(b, beat)
        BY <1>3, <3>4 DEF ReplayInv, LooksBackToPulse
      <3>6. Evaluates(i, p)
        <4>1. CASE p[2] = b
          BY <4>1 DEF Evaluates, candidateMinutes
        <4>2. CASE p[2] # b
          <5>1. b - p[2] \in Nat /\ b - p[2] > 0 /\ p[2] < b
            BY <1>2, <2>1, <3>1, <3>2, <4>2
          <5>2. /\ p[1] \in RunMissed /\ b - p[2] <= MissScanMin
                /\ b - p[2] <= MaxDelayMin[p[1]]
            BY <2>1, <3>1, <3>2, <5>1, ReachIs
          <5>3. p[2] >= b - MissScanMin
            BY <1>2, <3>2, <5>2, SchedulingAssumption
          <5>4. p[2] \in tick[i].past
            BY <3>2, <3>4, <3>5, <5>1, <5>3 DEF missedMinutes
          <5>5. QED
            BY <5>2, <5>4 DEF Evaluates, candidateMinutes
        <4>3. QED
          BY <4>1, <4>2
      <3>7. Holds(i, p)'
        BY <1>3, <3>6 DEF Holds, Evaluates
      <3>8. QED
        BY <1>3, <1>4, <3>1, <3>7
    <2>4. QED
      BY <2>2, <2>3
  <1>12. QED
    BY <1>9, <1>10, <1>11 DEF ReplayInv

(* The other steps add nothing to the pulsed minutes, and take one from    *)
(* them only by failing after the pulse.                                   *)
LEMMA ReplayKeep ==
    ASSUME OrdinarySkew, ClockInv, ReplayInv,
           beat' = beat, minuteStart(now) <= minuteStart(now'), cut => cut',
           Pulsed' \subseteq Pulsed, ~cut' => Pulsed' = Pulsed,
           minuteStart(now') \in Nat,
           \A k \in Replicas :
              /\ Ticking(k)' => \/ tick'[k].minute = minuteStart(now)
                                \/ Ticking(k) /\ tick'[k].minute = tick[k].minute
              /\ tick'[k].pc = "touch" =>
                   \/ tick'[k].past = missedMinutes(tick'[k].minute, beat)
                   \/ /\ tick[k].pc = "touch" /\ tick'[k].past = tick[k].past
                      /\ tick'[k].minute = tick[k].minute,
           rows \subseteq rows',
           \A k \in Replicas, p \in DueAt :
              ~cut' /\ AfterPulse(k) /\ Holds(k, p) =>
                 \/ p \in rows'
                 \/ /\ AfterPulse(k)' /\ Holds(k, p)'
                    /\ tick'[k].minute = tick[k].minute
    PROVE  ReplayInv'
  <1>1. PulseIsLast'
    <2>1. minuteStart(now) \in Nat /\ beat \in Nat
      BY NowMinute DEF ClockInv, SchedulingTypeOK
    <2>2. beat' <= minuteStart(now)'
      BY <2>1 DEF ReplayInv, PulseIsLast
    <2>3. \A k \in Replicas : Ticking(k)' => beat' <= tick'[k].minute
      BY DEF ReplayInv, PulseIsLast
    <2>4. \A c \in Pulsed' : c <= beat'
      BY DEF ReplayInv, PulseIsLast
    <2>5. ~cut' => beat' \in Pulsed' \/ beat' = 1
      BY DEF ReplayInv, PulseIsLast
    <2>6. QED
      BY <2>2, <2>3, <2>4, <2>5 DEF PulseIsLast
  <1>2. LooksBackToPulse'
    BY DEF ReplayInv, LooksBackToPulse
  <1>3. Owed'
    BY OwedFrame DEF ReplayInv
  <1>4. QED
    BY <1>1, <1>2, <1>3 DEF ReplayInv

(* The same of a step by the replica i, which leaves the other ticks alone. *)
LEMMA ReplayKeepOne ==
    ASSUME OrdinarySkew, ClockInv, ReplayInv, NEW i \in Replicas,
           beat' = beat, now' = now, cut => cut', rows \subseteq rows',
           \A k \in Replicas \ {i} : tick'[k] = tick[k],
           Pulsed' \subseteq Pulsed, ~cut' => Pulsed' = Pulsed,
           Ticking(i)' => \/ tick'[i].minute = minuteStart(now)
                          \/ Ticking(i) /\ tick'[i].minute = tick[i].minute,
           tick'[i].pc = "touch" =>
              tick'[i].past = missedMinutes(tick'[i].minute, beat),
           \A p \in DueAt :
              ~cut' /\ AfterPulse(i) /\ Holds(i, p) =>
                 \/ p \in rows'
                 \/ /\ AfterPulse(i)' /\ Holds(i, p)'
                    /\ tick'[i].minute = tick[i].minute
    PROVE  ReplayInv'
  <1>1. ASSUME NEW k \in Replicas, k # i
        PROVE  /\ Ticking(k)' = Ticking(k) /\ AfterPulse(k)' = AfterPulse(k)
               /\ \A p \in DueAt : Holds(k, p)' = Holds(k, p)
               /\ tick'[k] = tick[k]
    <2>1. tick'[k] = tick[k]
      BY <1>1
    <2>2. QED
      BY <2>1 DEF Ticking, AfterPulse, Holds, Evaluates
  <1>2. minuteStart(now) \in Nat
    BY NowMinute
  <1>3. ASSUME NEW k \in Replicas
        PROVE  /\ Ticking(k)' => \/ tick'[k].minute = minuteStart(now)
                                 \/ Ticking(k) /\ tick'[k].minute = tick[k].minute
               /\ tick'[k].pc = "touch" =>
                    \/ tick'[k].past = missedMinutes(tick'[k].minute, beat)
                    \/ /\ tick[k].pc = "touch" /\ tick'[k].past = tick[k].past
                       /\ tick'[k].minute = tick[k].minute
    BY <1>1, <1>3
  <1>4. ASSUME NEW k \in Replicas, NEW p \in DueAt,
               ~cut', AfterPulse(k), Holds(k, p)
        PROVE  \/ p \in rows'
               \/ /\ AfterPulse(k)' /\ Holds(k, p)'
                  /\ tick'[k].minute = tick[k].minute
    BY <1>1, <1>4
  <1>5. QED
    BY <1>2, <1>3, <1>4, ReplayKeep

LEMMA PulsedFrame ==
    ASSUME done' = done,
           \A k \in Replicas : /\ AfterPulse(k)' = AfterPulse(k)
                               /\ AfterPulse(k) => tick'[k].minute = tick[k].minute
    PROVE  Pulsed' = Pulsed
  BY DEF Pulsed

LEMMA ReplayClock ==
    ASSUME OrdinarySkew, ClockInv, ReplayInv, Advance \/ UNCHANGED vars
    PROVE  ReplayInv'
  <1>1. now \in Nat /\ now' \in Nat /\ now <= now'
    BY DEF ClockInv, SchedulingTypeOK, Advance, vars
  <1>2. minuteStart(now) <= minuteStart(now') /\ minuteStart(now') \in Nat
    BY <1>1, MinutesFollow, MinuteBounds
  <1>3. UNCHANGED <<beat, rows, tick, done, cut>>
    BY DEF Advance, vars, dispVars
  <1>4. Pulsed' = Pulsed
    BY <1>3 DEF Pulsed, AfterPulse
  <1>5. \A k \in Replicas : /\ Ticking(k)' = Ticking(k)
                            /\ AfterPulse(k)' = AfterPulse(k)
                            /\ \A p \in DueAt : Holds(k, p)' = Holds(k, p)
    BY <1>3 DEF Ticking, AfterPulse, Holds, Evaluates
  <1>6. QED
    BY <1>2, <1>3, <1>4, <1>5, ReplayKeep

(* Before the pulse.                                                       *)
LEMMA ReplayBefore ==
    ASSUME OrdinarySkew, ClockInv, ReplayInv, NEW i \in Replicas,
           \/ BeginTick(i) \/ ClockUnreadable(i) \/ ReadHeartbeat(i) \/ Start(i)
    PROVE  ReplayInv'
  <1>1. /\ UNCHANGED <<now, beat, rows, done, cut>>
        /\ \A k \in Replicas \ {i} : tick'[k] = tick[k]
    BY DEF ClockInv, SchedulingTypeOK, BeginTick, ClockUnreadable, ReadHeartbeat,
           Start
  <1>2. tick[i] \in TickRecord /\ tick \in [Replicas -> TickRecord]
    BY DEF ClockInv, SchedulingTypeOK
  <1>3. ~AfterPulse(i)
    BY DEF AfterPulse, BeginTick, ClockUnreadable, Fires, Ticking, ReadHeartbeat,
           Start, ClockInv, TicksInTime, TickSound, InTime
  <1>4. /\ ~AfterPulse(i)'
        /\ Ticking(i)' => \/ tick'[i].minute = minuteStart(now)
                          \/ Ticking(i) /\ tick'[i].minute = tick[i].minute
        /\ tick'[i].pc = "touch" =>
              tick'[i].past = missedMinutes(tick'[i].minute, beat)
    <2>1. CASE BeginTick(i)
      <3>1. tick'[i].pc = "heartbeat" /\ tick'[i].minute = minuteStart(now)
        BY <1>2, <2>1 DEF BeginTick
      <3>2. QED
        BY <3>1 DEF AfterPulse
    <2>2. CASE ClockUnreadable(i)
      BY <1>3, <2>2 DEF ClockUnreadable, Fires, AfterPulse, Ticking
    <2>3. CASE ReadHeartbeat(i)
      <3>1. /\ tick'[i].minute = tick[i].minute
            /\ tick'[i].past = missedMinutes(tick[i].minute, beat)
            /\ i \notin DryRunners => tick'[i].pc = "touch"
        BY <1>2, <2>3 DEF ReadHeartbeat, TickRecord
      <3>2. QED
        BY <2>3, <3>1 DEF AfterPulse, Ticking, ReadHeartbeat
    <2>4. CASE Start(i)
      <3>1. tick'[i].pc = "idle"
        BY <2>4 DEF Start, ClockInv, TicksInTime, TickSound, InTime, Ticking
      <3>2. QED
        BY <3>1 DEF AfterPulse, Ticking
    <2>5. QED
      BY <2>1, <2>2, <2>3, <2>4
  <1>5. Pulsed' = Pulsed
    <2>1. \A k \in Replicas : /\ AfterPulse(k)' = AfterPulse(k)
                              /\ AfterPulse(k) => tick'[k].minute = tick[k].minute
      BY <1>1, <1>3, <1>4 DEF AfterPulse
    <2>2. QED
      BY <1>1, <2>1, PulsedFrame
  <1>6. QED
    BY <1>1, <1>3, <1>4, <1>5, ReplayKeepOne

(* After it: the rows are listed and opened.                               *)
LEMMA ReplayQueue ==
    ASSUME OrdinarySkew, ClockInv, ReplayInv, NEW i \in Replicas,
           \/ ListJobs(i)
           \/ \E p \in tick[i].todo : QueueRun(i, p) \/ QueueFails(i, p)
    PROVE  ReplayInv'
  <1>1. /\ UNCHANGED <<now, beat, done>> /\ rows \subseteq rows' /\ (cut => cut')
        /\ \A k \in Replicas \ {i} : tick'[k] = tick[k]
    BY DEF ClockInv, SchedulingTypeOK, ListJobs, QueueRun, QueueFails
  <1>2. tick[i] \in TickRecord /\ tick \in [Replicas -> TickRecord]
    BY DEF ClockInv, SchedulingTypeOK
  <1>3. /\ tick[i].pc \in {"list", "queue"} /\ tick'[i].pc = "queue"
        /\ tick'[i].minute = tick[i].minute
    BY <1>2 DEF ListJobs, QueueRun, QueueFails, TickRecord
  <1>4. Pulsed' = Pulsed
    <2>1. \A k \in Replicas : /\ AfterPulse(k)' = AfterPulse(k)
                              /\ AfterPulse(k) => tick'[k].minute = tick[k].minute
      BY <1>1, <1>3 DEF AfterPulse
    <2>2. QED
      BY <1>1, <2>1, PulsedFrame
  <1>5. ASSUME NEW p \in DueAt, ~cut', AfterPulse(i), Holds(i, p)
        PROVE  p \in rows' \/ Holds(i, p)'
    <2>1. CASE ListJobs(i)
      <3>1. Evaluates(i, p) /\ i \notin DryRunners
        BY <1>5, <2>1 DEF Holds, AfterPulse, ListJobs
      <3>2. p \in tick'[i].todo
        BY <1>2, <2>1, <3>1 DEF ListJobs, Evaluates, TickRecord
      <3>3. QED
        BY <1>3, <3>2 DEF Holds
    <2>2. ASSUME NEW q \in tick[i].todo, QueueRun(i, q)
          PROVE  p \in rows' \/ Holds(i, p)'
      <3>1. /\ tick'[i].todo = tick[i].todo \ {q} /\ rows' = rows \cup {q}
            /\ tick[i].pc = "queue"
        BY <1>2, <2>2 DEF QueueRun, TickRecord
      <3>2. p \in tick[i].todo
        BY <1>5, <3>1 DEF Holds
      <3>3. QED
        BY <1>3, <3>1, <3>2 DEF Holds
    <2>3. \A q \in tick[i].todo : ~QueueFails(i, q)
      BY <1>5 DEF QueueFails
    <2>4. QED
      BY <2>1, <2>2, <2>3
  <1>6. AfterPulse(i) => AfterPulse(i)'
    BY <1>3 DEF AfterPulse
  <1>7. Ticking(i)
    BY <1>3 DEF Ticking
  <1>8. QED
    BY <1>1, <1>3, <1>4, <1>5, <1>6, <1>7, ReplayKeepOne

(* The end of a tick: its minute is done, or the failure is on record.     *)
LEMMA ReplayEnd ==
    ASSUME OrdinarySkew, ClockInv, ReplayInv, NEW i \in Replicas,
           EndTick(i) \/ TickFails(i) \/ Stop(i)
    PROVE  ReplayInv'
  <1>1. /\ UNCHANGED <<now, beat, rows>> /\ (cut => cut')
        /\ \A k \in Replicas \ {i} : tick'[k] = tick[k]
        /\ tick'[i].pc = "idle"
    BY DEF ClockInv, SchedulingTypeOK, EndTick, TickFails, Stop, NoTick
  <1>2. /\ ~AfterPulse(i)' /\ ~Ticking(i)'
        /\ \A k \in Replicas \ {i} : AfterPulse(k)' = AfterPulse(k)
    BY <1>1 DEF AfterPulse, Ticking
  <1>3. \/ /\ AfterPulse(i) /\ cut' /\ done' = done
        \/ /\ ~AfterPulse(i) /\ done' = done
        \/ /\ AfterPulse(i) /\ done' = done \cup {tick[i].minute}
           /\ tick[i].pc = "queue" /\ tick[i].todo = {}
    BY DEF EndTick, TickFails, Stop, AfterPulse
  <1> DEFINE Others == {tick[k].minute : k \in {j \in Replicas \ {i} : AfterPulse(j)}}
  <1>4. Pulsed' = done' \cup Others
    BY <1>1, <1>2 DEF Pulsed
  <1>5. Pulsed = done \cup Others \cup
                   IF AfterPulse(i) THEN {tick[i].minute} ELSE {}
    BY DEF Pulsed
  <1>6. Pulsed' \subseteq Pulsed /\ (~cut' => Pulsed' = Pulsed)
    BY <1>3, <1>4, <1>5
  <1>7. \A p \in DueAt : ~(~cut' /\ AfterPulse(i) /\ Holds(i, p))
    BY <1>3 DEF Holds
  <1>8. QED
    BY <1>1, <1>2, <1>6, <1>7, ReplayKeepOne

LEMMA ReplayNext ==
    ASSUME OrdinarySkew, ClockInv, ReplayInv, [Next]_vars
    PROVE  ReplayInv'
  <1>1. CASE Advance \/ UNCHANGED vars
    BY <1>1, ReplayClock
  <1>2. ASSUME NEW i \in Replicas, TouchHeartbeat(i) PROVE ReplayInv'
    BY <1>2, ReplayTouch
  <1>3. ASSUME NEW i \in Replicas,
               BeginTick(i) \/ ClockUnreadable(i) \/ ReadHeartbeat(i) \/ Start(i)
        PROVE  ReplayInv'
    BY <1>3, ReplayBefore
  <1>4. ASSUME NEW i \in Replicas,
               \/ ListJobs(i)
               \/ \E p \in tick[i].todo : QueueRun(i, p) \/ QueueFails(i, p)
        PROVE  ReplayInv'
    BY <1>4, ReplayQueue
  <1>5. ASSUME NEW i \in Replicas, EndTick(i) \/ TickFails(i) \/ Stop(i)
        PROVE  ReplayInv'
    BY <1>5, ReplayEnd
  <1>6. QED
    BY <1>1, <1>2, <1>3, <1>4, <1>5 DEF Next

(* The pulse is the last minute touched, a tick looks back to where it was *)
(* when the tick began, and a minute behind it is in the table or owed by  *)
(* a tick under way (the heartbeat and the catch-up of dispatcher.go).     *)
THEOREM ReplayInvariant ==
    ASSUME OrdinarySkew
    PROVE  Spec => [](ClockInv /\ ReplayInv)
  <1>1. Init => ClockInv /\ ReplayInv
    BY ClockInit, ReplayInit
  <1>2. ClockInv /\ ReplayInv /\ [Next]_vars => (ClockInv /\ ReplayInv)'
    BY ClockNext, ReplayNext
  <1>3. QED
    BY <1>1, <1>2, PTL DEF Spec

(* Every due minute gets its row, whatever replicas stop, start and read   *)
(* one another's pulse, unless a tick fails between its pulse and its rows. *)
THEOREM EveryMinuteReplayed ==
    ASSUME OrdinarySkew
    PROVE  Spec => []MissedReplayed
  <1>1. ClockInv /\ ReplayInv => MissedReplayed
    <2>1. SUFFICES ASSUME ClockInv, ReplayInv, ~cut,
                          \A i \in Replicas : ~Ticking(i),
                          NEW p \in DueAt, p[2] > 1, \E k \in done : k >= p[2],
                          FirstTick(p[2]) - p[2] <= Reach(p[1])
                   PROVE  p \in rows
      BY DEF MissedReplayed, AllServed
    <2> DEFINE m == p[2]
               T == {k \in done : k >= m}
    <2>2. \A i \in Replicas : ~AfterPulse(i)
      BY <2>1 DEF AfterPulse, Ticking
    <2>3. Pulsed = done
      BY <2>2 DEF Pulsed
    <2>4. FirstTick(m) \in T /\ \A k \in T : FirstTick(m) <= k
      <3>1. T \in SUBSET Nat /\ T # {}
        BY <2>1 DEF ClockInv, SchedulingTypeOK
      <3>2. FirstTick(m) = Min(T)
        BY DEF FirstTick
      <3> HIDE DEF T
      <3>3. \E n \in T : \A k \in T : n <= k
        BY <3>1, LeastElement
      <3>4. QED
        BY <3>2, <3>3 DEF Min
    <2>5. done \in SUBSET Nat /\ m \in Nat
      BY <2>1, SchedulingAssumption DEF ClockInv, SchedulingTypeOK, Minutes
    <2>6. FirstTick(m) \in Pulsed /\ FirstPulse(FirstTick(m), m)
      <3> DEFINE b == FirstTick(m)
      <3>1. b \in done /\ b >= m /\ \A k \in done : k >= m => b <= k
        BY <2>4
      <3> HIDE DEF b
      <3>2. b \in Nat /\ \A k \in done : k >= m => k >= b
        BY <2>5, <3>1
      <3>3. b \in Pulsed /\ FirstPulse(b, m)
        BY <2>3, <3>1, <3>2 DEF FirstPulse
      <3>4. QED
        BY <3>3 DEF b
    <2>7. QED
      BY <2>1, <2>2, <2>6 DEF ReplayInv, Owed
  <1>2. QED
    BY <1>1, ReplayInvariant, PTL
=============================================================================
