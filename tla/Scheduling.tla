----------------------------- MODULE Scheduling -----------------------------
(***************************************************************************)
(* Which minutes a dispatcher tick evaluates (Dispatcher.Tick up to        *)
(* queueDue, internal/service/dispatcher.go): the tick is fired by the     *)
(* application clock, the minute comes from the database clock, and the    *)
(* heartbeat row, shared by all replicas, says which minutes were missed.  *)
(* What happens to the rows afterwards is module Execution.                *)
(*                                                                         *)
(* Time is counted in units of the database clock, UnitsPerMinute to the   *)
(* minute.  A row of job_runs is its key <<job, planned minute>>: the      *)
(* unique index makes a second insert of the same key a no-op.             *)
(***************************************************************************)
EXTENDS Integers, FiniteSets, FiniteSetsExt

CONSTANTS
    Replicas,        \* processes with a dispatcher
    DryRunners,      \* the ones started with SCHEDULER_DRY_RUN
    Jobs,            \* active jobs
    DueAt,           \* <<job, minute>>: an expression of the job matches
    RunMissed,       \* jobs with run_missed set
    MaxDelayMin,     \* jobs.max_delay_min
    MissScanMin,     \* SCHEDULER_MISS_SCAN_MIN
    UnitsPerMinute,
    TickUnits,       \* the 55 seconds a tick may take
    Skews,           \* database clock minus application clock, at a firing
    LastMinute,      \* bound: the end of modelled time
    MaxFaults        \* bound: failed statements and stopped processes

Minutes == 1..LastMinute
NoMinute == 0                  \* the zero time

(* Mutated form: the tick fires on the minute boundary. *)
DispatcherSpec_OnTheBoundary == 0

(* The fifth second, in units. *)
DispatcherSpec == 1

ASSUME SchedulingAssumption ==
    /\ DryRunners \subseteq Replicas
    /\ DueAt \subseteq Jobs \X Minutes
    /\ RunMissed \subseteq Jobs
    /\ MaxDelayMin \in [Jobs -> Nat]
    /\ MissScanMin \in Nat
    /\ LastMinute \in Nat /\ MaxFaults \in Nat
    /\ Skews \subseteq Int /\ Skews # {} /\ IsFiniteSet(Skews)
    \* A tick is over before the next one fires, so none finds the running
    \* flag set.
    /\ TickUnits \in Nat /\ UnitsPerMinute \in Nat
    /\ \A s, t \in Skews : s + TickUnits < UnitsPerMinute + t

VARIABLES
    now,         \* the database clock
    beat,        \* heartbeat.last_run, its minute
    rows,        \* keys in job_runs
    up,          \* replicas running
    next,        \* per replica: the application minute it fires for next
    tick,        \* per replica: where its tick is
    lastMinute,  \* per replica: Dispatcher.lastMinute
    lost,        \* per replica: the minutes_lost counter, since its start
    read,        \* history, per replica: minutes it read since its start
    unread,      \* history, per replica: firings that failed to read one
    done,        \* history: minutes of ticks that ran to their end
    cut,         \* history: a tick failed between its pulse and its rows
    faults

dispVars == <<next, tick, lastMinute, lost, read, unread>>
vars == <<now, beat, rows, up, dispVars, done, cut, faults>>

minuteStart(t) == t \div UnitsPerMinute

FireTimes(k) == {k * UnitsPerMinute + DispatcherSpec + s : s \in Skews}

NoTick == [pc |-> "idle", since |-> 0, minute |-> NoMinute, lost |-> 0,
           past |-> {}, todo |-> {}]

(* The database was set up in minute 1, which seeds the heartbeat row. *)
Init ==
    /\ now = UnitsPerMinute
    /\ beat = 1
    /\ rows = {}
    /\ up = Replicas
    /\ next = [i \in Replicas |-> 1]
    /\ tick = [i \in Replicas |-> NoTick]
    /\ lastMinute = [i \in Replicas |-> NoMinute]
    /\ lost = [i \in Replicas |-> 0]
    /\ read = [i \in Replicas |-> {}]
    /\ unread = [i \in Replicas |-> 0]
    /\ done = {}
    /\ cut = FALSE
    /\ faults = 0

Fault == faults < MaxFaults /\ faults' = faults + 1

Ticking(i) == tick[i].pc # "idle"

-----------------------------------------------------------------------------
(* Mutated form: the gap between two ticks counts both ends. *)
MinutesLost_OffByOne(i, minute) ==
    IF lastMinute[i] = NoMinute THEN 0
    ELSE IF minute = lastMinute[i] THEN 1
    ELSE IF minute > lastMinute[i] THEN minute - lastMinute[i]
    ELSE 0

(* The audit of the chain of minutes and what recordTick makes of it. *)
MinutesLost(i, minute) ==
    IF lastMinute[i] = NoMinute THEN 0
    ELSE IF minute = lastMinute[i] THEN 1
    ELSE IF minute > lastMinute[i] THEN minute - lastMinute[i] - 1
    ELSE 0

Fires(i) == i \in up /\ ~Ticking(i) /\ now \in FireTimes(next[i])

(* The tick begins: DBTime and the audit. *)
BeginTick(i) ==
    LET minute == minuteStart(now) IN
    /\ Fires(i)
    /\ next' = [next EXCEPT ![i] = @ + 1]
    /\ tick' = [tick EXCEPT ![i] =
                  [pc |-> "heartbeat", since |-> now, minute |-> minute,
                   lost |-> MinutesLost(i, minute), past |-> {}, todo |-> {}]]
    /\ lastMinute' = [lastMinute EXCEPT ![i] = minute]
    /\ read' = [read EXCEPT ![i] = @ \cup {minute}]
    /\ UNCHANGED <<now, beat, rows, up, lost, unread, done, cut, faults>>

(* DBTime fails: the tick ends before it has a minute. *)
ClockUnreadable(i) ==
    /\ Fires(i) /\ Fault
    /\ next' = [next EXCEPT ![i] = @ + 1]
    /\ unread' = [unread EXCEPT ![i] = @ + 1]
    /\ UNCHANGED <<now, beat, rows, up, tick, lastMinute, lost, read, done, cut>>

(* The gap since the last pulse, at most MissScanMin minutes back. *)
missedMinutes(minute, lastRun) ==
    {t \in Minutes : /\ t > lastRun /\ t < minute
                     /\ t >= minute - MissScanMin}

(* Mutated form: a dry run refreshes the pulse too. *)
ReadHeartbeat_DryTouches(i) ==
    /\ tick[i].pc = "heartbeat"
    /\ tick' = [tick EXCEPT ![i].past = missedMinutes(tick[i].minute, beat),
                            ![i].pc = "touch"]
    /\ UNCHANGED <<now, beat, rows, up, next, lastMinute, lost, read, unread,
                   done, cut, faults>>

(* The pulse is read first; a dry run does not touch it. *)
ReadHeartbeat(i) ==
    /\ tick[i].pc = "heartbeat"
    /\ tick' = [tick EXCEPT ![i].past = missedMinutes(tick[i].minute, beat),
                            ![i].pc = IF i \in DryRunners THEN "list" ELSE "touch"]
    /\ UNCHANGED <<now, beat, rows, up, next, lastMinute, lost, read, unread,
                   done, cut, faults>>

TouchHeartbeat(i) ==
    /\ tick[i].pc = "touch"
    /\ beat' = tick[i].minute
    /\ tick' = [tick EXCEPT ![i].pc = "list"]
    /\ UNCHANGED <<now, rows, up, next, lastMinute, lost, read, unread, done,
                   cut, faults>>

(* Mutated form: max_delay_min is not applied. *)
candidateMinutes_Unlimited(j, minute, past) ==
    {minute} \cup IF j \in RunMissed THEN past ELSE {}

candidateMinutes(j, minute, past) ==
    {minute} \cup
        IF j \in RunMissed
        THEN {t \in past : minute - t <= MaxDelayMin[j]} ELSE {}

(* ListScheduledJobs, ListActiveSchedules, and the pairs queueDue inserts; *)
(* a dry run only reports them.                                            *)
ListJobs(i) ==
    LET due == {p \in DueAt :
                  p[2] \in candidateMinutes(p[1], tick[i].minute, tick[i].past)}
    IN
    /\ tick[i].pc = "list"
    /\ tick' = [tick EXCEPT ![i].pc = "queue",
                            ![i].todo = IF i \in DryRunners THEN {} ELSE due]
    /\ UNCHANGED <<now, beat, rows, up, next, lastMinute, lost, read, unread,
                   done, cut, faults>>

QueueRun(i, p) ==
    /\ tick[i].pc = "queue" /\ p \in tick[i].todo
    /\ rows' = rows \cup {p}
    /\ tick' = [tick EXCEPT ![i].todo = @ \ {p}]
    /\ UNCHANGED <<now, beat, up, next, lastMinute, lost, read, unread, done,
                   cut, faults>>

(* One insert fails: a write error in the result, and the loop goes on. *)
QueueFails(i, p) ==
    /\ tick[i].pc = "queue" /\ p \in tick[i].todo
    /\ Fault
    /\ tick' = [tick EXCEPT ![i].todo = @ \ {p}]
    /\ cut' = TRUE
    /\ UNCHANGED <<now, beat, rows, up, next, lastMinute, lost, read, unread, done>>

(* The rows are there; recordTick counts. *)
EndTick(i) ==
    /\ tick[i].pc = "queue" /\ tick[i].todo = {}
    /\ lost' = [lost EXCEPT ![i] = @ + tick[i].lost]
    /\ done' = IF i \in DryRunners THEN done ELSE done \cup {tick[i].minute}
    /\ tick' = [tick EXCEPT ![i] = NoTick]
    /\ UNCHANGED <<now, beat, rows, up, next, lastMinute, read, unread, cut, faults>>

AfterPulse(i) == i \notin DryRunners /\ tick[i].pc \in {"list", "queue"}

(* A statement fails or the tick's context ends: Tick returns the error. *)
TickFails(i) ==
    /\ Ticking(i) /\ Fault
    /\ cut' = (cut \/ AfterPulse(i))
    /\ tick' = [tick EXCEPT ![i] = NoTick]
    /\ UNCHANGED <<now, beat, rows, up, next, lastMinute, lost, read, unread, done>>

-----------------------------------------------------------------------------
(* A replica stops, in the middle of a tick or between two, and comes back. *)
Stop(i) ==
    /\ i \in up /\ Fault
    /\ up' = up \ {i}
    /\ cut' = (cut \/ AfterPulse(i))
    /\ tick' = [tick EXCEPT ![i] = NoTick]
    /\ UNCHANGED <<now, beat, rows, next, lastMinute, lost, read, unread, done>>

Start(i) ==
    /\ i \notin up
    /\ up' = up \cup {i}
    /\ next' = [next EXCEPT ![i] = minuteStart(now) + 1]
    /\ lastMinute' = [lastMinute EXCEPT ![i] = NoMinute]
    /\ lost' = [lost EXCEPT ![i] = 0]
    /\ read' = [read EXCEPT ![i] = {}]
    /\ unread' = [unread EXCEPT ![i] = 0]
    /\ UNCHANGED <<now, beat, rows, tick, done, cut, faults>>

(* Time passes, but no live replica misses a firing and no tick outlasts   *)
(* its context.                                                            *)
Advance ==
    /\ now < LastMinute * UnitsPerMinute
    /\ \A i \in up : IF Ticking(i) THEN now < tick[i].since + TickUnits
                     ELSE now < Max(FireTimes(next[i]))
    /\ now' = now + 1
    /\ UNCHANGED <<beat, rows, up, dispVars, done, cut, faults>>

Next ==
    \/ Advance
    \/ \E i \in Replicas :
          \/ BeginTick(i) \/ ClockUnreadable(i)
          \/ ReadHeartbeat(i) \/ TouchHeartbeat(i) \/ ListJobs(i) \/ EndTick(i)
          \/ \E p \in tick[i].todo : QueueRun(i, p) \/ QueueFails(i, p)
          \/ TickFails(i) \/ Stop(i) \/ Start(i)

Spec == Init /\ [][Next]_vars

-----------------------------------------------------------------------------
(* Properties *)

(* How many minutes late a job's row may be opened. *)
Reach(j) == IF j \in RunMissed THEN Min({MissScanMin, MaxDelayMin[j]}) ELSE 0

(* "So a dispatcher that was down for a week does not queue a week of work *)
(* the instant it returns": no row is opened for a future minute, nor for  *)
(* one further in the past than the job's reach.  (The clock may pass one  *)
(* minute boundary while the tick is going.)                               *)
NeverTooLate ==
    [][\A p \in rows' \ rows :
          /\ p[2] <= minuteStart(now)
          /\ minuteStart(now) - p[2] <= Reach(p[1]) + 1]_vars

(* The first tick to come round to a minute or to pass it. *)
FirstTick(m) == Min({k \in done : k >= m})

AllServed ==
    \A p \in DueAt :
        LET m == p[2] IN
        /\ m > 1 /\ \E k \in done : k >= m
        /\ FirstTick(m) - m <= Reach(p[1])
        => p \in rows

(* Every due minute gets its row: from the tick of that minute, or, for a  *)
(* run_missed job, from the first tick that follows an outage within reach.*)
(* However replicas stop, start, read one another's pulse and rehearse in  *)
(* dry runs, as long as no tick fails between its pulse and its rows.      *)
MissedReplayed == ~cut /\ (\A i \in Replicas : ~Ticking(i)) => AllServed

(* "When true, minutes the dispatcher was down for are replayed, up to     *)
(* max_delay_min" (cronsole.sql): the same without the proviso, for the    *)
(* minutes in which no dispatcher completed a tick.                        *)
DownMinutesReplayed ==
    (\A i \in Replicas : ~Ticking(i)) =>
        \A p \in DueAt :
            LET m == p[2] IN
            /\ m > 1 /\ m \notin done /\ \E k \in done : k > m
            /\ FirstTick(m) - m <= Reach(p[1])
            => p \in rows

Holes(i) == IF read[i] = {} THEN {} ELSE (Min(read[i])..lastMinute[i]) \ read[i]

(* "Sampling at the fifth second makes it impossible for ordinary clock    *)
(* skew to land on the boundary": a live replica skips no minute, whatever *)
(* the skew at each firing, unless it could not read the clock.            *)
NoMinuteSkipped == \A i \in Replicas : Cardinality(Holes(i)) <= unread[i]

(* "Any increase in that counter is a fault": the counter never shows more *)
(* minutes than the replica really left out.                               *)
LostMinutesAreReal == \A i \in Replicas : lost[i] <= Cardinality(Holes(i))
=============================================================================
