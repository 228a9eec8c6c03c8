----------------------------- MODULE Execution -----------------------------
(***************************************************************************)
(* The execution path of the service: on every replica one dispatcher      *)
(* (internal/service/dispatcher.go), one worker pool (pkg/worker/pool.go)  *)
(* whose workers run Runner.Run, and the runner's chain timers             *)
(* (internal/service/runner.go), over the tables of module JobRuns.        *)
(*                                                                         *)
(* Each action is one database statement together with the in-memory work  *)
(* around it, so every other actor may come between two statements.        *)
(***************************************************************************)
EXTENDS JobRuns, Sequences

CONSTANTS
    Replicas,       \* processes of the service on one database
    Slots,          \* pool workers of one replica
    QueueSize,      \* capacity of the pool's channel
    MaxConcurrent,  \* SCHEDULER_MAX_CONCURRENT
    ChainMaxDepth,  \* 5 in the code
    Due,            \* the <<job, minute>> pairs the schedules call for
    Triggered,      \* jobs a user or an API key may start by hand
    MaxTriggers,    \* bound on the runs started by hand in one behaviour
    MaxFaults       \* bound on crashes and database errors in one behaviour

ASSUME ExecutionAssumption ==
    /\ MaxConcurrent \in Nat \ {0}
    /\ IsFiniteSet(Slots) /\ Cardinality(Slots) = MaxConcurrent  \* main.go
    /\ QueueSize \in Nat /\ QueueSize >= MaxConcurrent          \* worker.New
    /\ ChainMaxDepth \in Nat
    /\ Due \subseteq Jobs \X Minutes
    /\ Triggered \subseteq Jobs
    /\ MaxTriggers \in Nat
    /\ MaxFaults \in Nat

VARIABLES
    disp,     \* the dispatcher of each replica: where its tick is
    queue,    \* the pool's channel
    worker,   \* what each pool worker is doing
    timers,   \* armed chain timers
    faults    \* crashes and database errors so far

memVars == <<disp, queue, worker, timers>>
vars == <<tableVars, memVars, faults>>

Workers == Replicas \X Slots
Home(w) == w[1]

DispPC   == {"idle", "queueDue", "runningJobs", "listPending", "handOver"}
WorkerPC == {"idle", "check", "skip", "claim", "execute", "finish",
             "summary", "chain", "handOff"}

NoTick == [pc |-> "idle", jobs |-> {}, quota |-> 0, busy |-> {}, batch |-> {}]
NoWork == [pc |-> "idle", run |-> NoRun, result |-> "none",
           todo |-> {}, step |-> NoRun]

Init ==
    /\ TableInit
    /\ disp = [i \in Replicas |-> NoTick]
    /\ queue = [i \in Replicas |-> <<>>]
    /\ worker = [w \in Workers |-> NoWork]
    /\ timers = [i \in Replicas |-> {}]
    /\ faults = 0

(* Pool.Submit: a full channel refuses and the row stays pending. *)
Submit(i, r) ==
    queue' = IF Len(queue[i]) < QueueSize
             THEN [queue EXCEPT ![i] = Append(@, r)] ELSE queue

Fault == faults < MaxFaults /\ faults' = faults + 1

-----------------------------------------------------------------------------
(* Dispatcher.Tick.  The running flag admits one tick at a time.  Which    *)
(* minutes a tick evaluates is module Scheduling; here a tick queues any   *)
(* of the Due pairs of the jobs it listed.                                 *)

(* ListScheduledJobs: an operator may switch a job off after it. *)
BeginTick(i) ==
    /\ disp[i].pc = "idle"
    /\ disp' = [disp EXCEPT ![i].pc = "queueDue", ![i].jobs = active]
    /\ UNCHANGED <<tableVars, queue, worker, timers, faults>>

QueueDue(i, j, m) ==
    /\ disp[i].pc = "queueDue"
    /\ <<j, m>> \in Due /\ j \in disp[i].jobs
    /\ QueueRun(j, m)
    /\ UNCHANGED <<memVars, faults>>

(* dispatchPending: CountRunning and the quota left under the cap. *)
TakeQuota(i) ==
    /\ disp[i].pc = "queueDue"
    /\ disp' = [disp EXCEPT ![i] =
                  IF MaxConcurrent > CountRunning
                  THEN [@ EXCEPT !.pc = "runningJobs", !.jobs = {},
                                 !.quota = MaxConcurrent - CountRunning]
                  ELSE NoTick]
    /\ UNCHANGED <<tableVars, queue, worker, timers, faults>>

ReadRunningJobs(i) ==
    /\ disp[i].pc = "runningJobs"
    /\ disp' = [disp EXCEPT ![i].pc = "listPending", ![i].busy = RunningJobIDs]
    /\ UNCHANGED <<tableVars, queue, worker, timers, faults>>

ReadPending(i) ==
    /\ disp[i].pc = "listPending"
    /\ LET batch == ListPending(disp[i].quota) IN
       disp' = [disp EXCEPT ![i] =
                  IF batch = {} THEN NoTick
                  ELSE [@ EXCEPT !.pc = "handOver", !.batch = batch]]
    /\ UNCHANGED <<tableVars, queue, worker, timers, faults>>

(* The loop's next row, in the order the query returned them. *)
NextInBatch(i, r) ==
    /\ disp[i].pc = "handOver"
    /\ r \in disp[i].batch
    /\ \A q \in disp[i].batch \ {r} : Before(r, q)

(* The rest of the batch; the job counts as running for the rest of the    *)
(* tick whether or not the pool took the row.                              *)
LeaveBatch(i, r, busy) ==
    disp' = [disp EXCEPT ![i] =
               IF disp[i].batch = {r} THEN NoTick
               ELSE [disp[i] EXCEPT !.batch = disp[i].batch \ {r},
                                    !.busy = busy]]

MustSkip(i, r) == runs[r].job \in SingleRun \cap disp[i].busy

DispatchSkip(i, r) ==
    /\ NextInBatch(i, r) /\ MustSkip(i, r)
    /\ SkipRun(r)
    /\ LeaveBatch(i, r, disp[i].busy)
    /\ UNCHANGED <<queue, worker, timers, faults>>

DispatchRow(i, r) ==
    /\ NextInBatch(i, r) /\ ~MustSkip(i, r)
    /\ Submit(i, r)
    /\ LeaveBatch(i, r, disp[i].busy \cup {runs[r].job})
    /\ UNCHANGED <<tableVars, worker, timers, faults>>

(* The skip cannot be written: the loop goes on with the next row. *)
SkipFails(i, r) ==
    /\ NextInBatch(i, r) /\ MustSkip(i, r)
    /\ Fault
    /\ LeaveBatch(i, r, disp[i].busy)
    /\ UNCHANGED <<tableVars, queue, worker, timers>>

(* A query of the tick fails, or its 55 seconds are over: Tick returns.    *)
TickFails(i) ==
    /\ disp[i].pc # "idle"
    /\ Fault
    /\ disp' = [disp EXCEPT ![i] = NoTick]
    /\ UNCHANGED <<tableVars, queue, worker, timers>>

(* RunService.Trigger: the row, then the hand-off, past the dispatcher.    *)
ByHand(r) == runs[r].minute = NoMinute /\ runs[r].parent = NoRun

Trigger(i, j) ==
    /\ j \in Triggered
    /\ Cardinality({r \in Rows : ByHand(r)}) < MaxTriggers
    /\ \E r \in RunIds : Enqueue(r, j) /\ Submit(i, r)
    /\ UNCHANGED <<disp, worker, timers, faults>>

-----------------------------------------------------------------------------
(* Runner.Run on one pool worker *)

Goto(w, pc) == worker' = [worker EXCEPT ![w].pc = pc]

Rest(w) == worker' = [worker EXCEPT ![w] = NoWork]

(* Take a task off the channel and read its row (GetRun). *)
StartWork(w) ==
    LET i == Home(w) IN
    /\ worker[w].pc = "idle"
    /\ queue[i] # <<>>
    /\ queue' = [queue EXCEPT ![i] = Tail(@)]
    /\ worker' = [worker EXCEPT ![w] = [@ EXCEPT
                    !.run = Head(queue[i]),
                    !.pc = IF runs[Head(queue[i])].job \in SingleRun
                           THEN "check" ELSE "claim"]]
    /\ UNCHANGED <<tableVars, disp, timers, faults>>

(* Mutated form: the runner trusts the dispatcher's single run check. *)
CheckSingleRun_Trusts(w) ==
    /\ worker[w].pc = "check"
    /\ Goto(w, "claim")
    /\ UNCHANGED <<tableVars, disp, queue, timers, faults>>

CheckSingleRun(w) ==
    LET r == worker[w].run IN
    /\ worker[w].pc = "check"
    /\ Goto(w, IF RunningForJob(runs[r].job, r) = {} THEN "claim" ELSE "skip")
    /\ UNCHANGED <<tableVars, disp, queue, timers, faults>>

SkipBusy(w) ==
    /\ worker[w].pc = "skip"
    /\ SkipRun(worker[w].run)
    /\ Rest(w)
    /\ UNCHANGED <<disp, queue, timers, faults>>

Claim(w) ==
    /\ worker[w].pc = "claim"
    /\ \/ ClaimRun(worker[w].run) /\ Goto(w, "execute")
       \/ /\ ~HasStatus(worker[w].run, "pending")
          /\ Rest(w) /\ UNCHANGED tableVars
    /\ UNCHANGED <<disp, queue, timers, faults>>

(* The HTTP call with its retries; a panic and a cancelled context are     *)
(* recorded as failed.                                                     *)
Execute(w) ==
    /\ worker[w].pc = "execute"
    /\ \E result \in Results :
         worker' = [worker EXCEPT ![w].pc = "finish", ![w].result = result]
    /\ UNCHANGED <<tableVars, disp, queue, timers, faults>>

Finish(w) ==
    /\ worker[w].pc = "finish"
    /\ FinishRun(worker[w].run, worker[w].result)
    /\ Goto(w, "summary")
    /\ UNCHANGED <<disp, queue, timers, faults>>

(* Mutated form: a timeout counts as a failure. *)
ChainTargets_AfterTimeout(w) ==
    LET r == worker[w].run IN
    ListChainTargets(runs[r].job, Outcome(worker[w].result))

(* triggerChain's targets; a timeout triggers nothing. *)
ChainTargets(w) ==
    LET r == worker[w].run IN
    IF worker[w].result = "timeout" THEN {}
    ELSE ListChainTargets(runs[r].job, Outcome(worker[w].result))

(* The next position of a worker with these targets left: the one after    *)
(* the loop when there are none.                                           *)
NextTarget(w, todo) ==
    IF todo = {} THEN NoWork
    ELSE [worker[w] EXCEPT !.pc = "chain", !.todo = todo, !.step = NoRun]

BeginChain(w) == worker' = [worker EXCEPT ![w] = NextTarget(w, ChainTargets(w))]

AfterTarget(w, t) ==
    worker' = [worker EXCEPT ![w] = NextTarget(w, worker[w].todo \ {t})]

(* WriteJobSummary, the mail, ChainStepCount (a row's never changes) and   *)
(* ListChainTargets.                                                       *)
Summarise(w) ==
    /\ worker[w].pc = "summary"
    /\ WriteJobSummary(runs[worker[w].run].job, worker[w].result)
    /\ BeginChain(w)
    /\ UNCHANGED <<disp, queue, timers, faults>>

AtTarget(w, t) == worker[w].pc = "chain" /\ t \in worker[w].todo

(* Mutated form: off by one at the depth cap. *)
MayChain_OffByOne(w, t) ==
    t.active /\ ChainStepCount[worker[w].run] <= ChainMaxDepth

MayChain(w, t) ==
    t.active /\ ChainStepCount[worker[w].run] < ChainMaxDepth

(* One iteration of triggerChain's loop over the targets. *)
ChainSkip(w, t) ==
    /\ AtTarget(w, t) /\ ~MayChain(w, t)
    /\ CreateChainSkipped(t.link.to, worker[w].run)
    /\ AfterTarget(w, t)
    /\ UNCHANGED <<disp, queue, timers, faults>>

(* The row first; a long delay is left to the dispatcher. *)
ChainQueue(w, t) ==
    /\ AtTarget(w, t) /\ MayChain(w, t)
    /\ \E r \in RunIds :
         /\ CreateChainRun(r, t.link.to, worker[w].run)
         /\ IF t.link.delay = "long" THEN AfterTarget(w, t)
            ELSE worker' = [worker EXCEPT ![w].pc = "handOff", ![w].step = r,
                                          ![w].todo = worker[w].todo \ {t}]
    /\ UNCHANGED <<disp, queue, timers, faults>>

(* dispatchBlocker, then the timer. *)
HandOff(w) ==
    LET r == worker[w].step
        blocked == /\ runs[r].job \in SingleRun
                   /\ RunningForJob(runs[r].job, NoRun) # {}
    IN
    /\ worker[w].pc = "handOff"
    /\ timers' = IF blocked THEN timers
                 ELSE [timers EXCEPT ![Home(w)] = @ \cup {r}]
    /\ worker' = [worker EXCEPT ![w] = NextTarget(w, worker[w].todo)]
    /\ UNCHANGED <<tableVars, disp, queue, faults>>

TimerFires(i, r) ==
    /\ r \in timers[i]
    /\ timers' = [timers EXCEPT ![i] = @ \ {r}]
    /\ Submit(i, r)
    /\ UNCHANGED <<tableVars, disp, worker, faults>>

(* A statement before the claim fails: the row is left as it is. *)
GiveUp(w) ==
    /\ worker[w].pc \in {"check", "skip", "claim"}
    /\ Fault /\ Rest(w)
    /\ UNCHANGED <<tableVars, disp, queue, timers>>

(* The claim commits and its answer is lost: nobody executes the row. *)
ClaimAnswerLost(w) ==
    /\ worker[w].pc = "claim"
    /\ Fault /\ ClaimRun(worker[w].run) /\ Rest(w)
    /\ UNCHANGED <<disp, queue, timers>>

(* Mutated form: the error of FinishRun is logged and not returned on. *)
FinishFails_GoesOn(w) ==
    /\ worker[w].pc = "finish"
    /\ Fault /\ Goto(w, "summary")
    /\ UNCHANGED <<tableVars, disp, queue, timers>>

(* FinishRun fails, with or without effect: no summary and no chain. *)
FinishFails(w) ==
    /\ worker[w].pc = "finish"
    /\ Fault /\ Rest(w)
    /\ \/ UNCHANGED tableVars
       \/ FinishRun(worker[w].run, worker[w].result)
    /\ UNCHANGED <<disp, queue, timers>>

(* The summary fails: a note on the row, and the chain goes on. *)
SummaryFails(w) ==
    /\ worker[w].pc = "summary"
    /\ Fault /\ BeginChain(w)
    /\ UNCHANGED <<tableVars, disp, queue, timers>>

(* The step count or the targets cannot be read: no chain. *)
ChainUnread(w) ==
    /\ worker[w].pc = "summary"
    /\ Fault
    /\ WriteJobSummary(runs[worker[w].run].job, worker[w].result)
    /\ Rest(w)
    /\ UNCHANGED <<disp, queue, timers>>

(* Mutated form: the error is logged, and the hand-off goes on without a   *)
(* row.                                                                    *)
ChainFails_GoesOn(w, t) ==
    /\ AtTarget(w, t)
    /\ Fault
    /\ worker' = [worker EXCEPT ![w].pc = "handOff", ![w].step = NoRun,
                                ![w].todo = worker[w].todo \ {t}]
    /\ UNCHANGED <<tableVars, disp, queue, timers>>

(* A chain row cannot be written: that target is dropped, the others go on. *)
ChainFails(w, t) ==
    /\ AtTarget(w, t)
    /\ Fault /\ AfterTarget(w, t)
    /\ UNCHANGED <<tableVars, disp, queue, timers>>

(* The single run check before a hand-off fails: no timer. *)
HandOffFails(w) ==
    /\ worker[w].pc = "handOff"
    /\ Fault
    /\ worker' = [worker EXCEPT ![w] = NextTarget(w, worker[w].todo)]
    /\ UNCHANGED <<tableVars, disp, queue, timers>>

(* The process dies and comes back: what it held in memory is gone. *)
Crash(i) ==
    /\ Fault
    /\ disp' = [disp EXCEPT ![i] = NoTick]
    /\ queue' = [queue EXCEPT ![i] = <<>>]
    /\ worker' = [w \in Workers |-> IF Home(w) = i THEN NoWork ELSE worker[w]]
    /\ timers' = [timers EXCEPT ![i] = {}]
    /\ UNCHANGED tableVars

-----------------------------------------------------------------------------
(* Watchdog.Sweep's closing statement, the clocks, and the operator. *)

Sweep == CloseStuckRuns /\ UNCHANGED <<memVars, faults>>

RunAfter(r) == RunAfterArrives(r) /\ UNCHANGED <<memVars, faults>>

GrowOld(r) == Overstay(r) /\ UNCHANGED <<memVars, faults>>

Suspend(j) == /\ j \in Suspendable
              /\ SetActive(j)
              /\ UNCHANGED <<memVars, faults>>

DispatcherStep(i) ==
    \/ BeginTick(i) \/ TakeQuota(i) \/ ReadRunningJobs(i) \/ ReadPending(i)
    \/ \E j \in Jobs, m \in Minutes : QueueDue(i, j, m)
    \/ \E r \in RunIds : DispatchSkip(i, r) \/ DispatchRow(i, r)

DispatcherFault(i) ==
    TickFails(i) \/ \E r \in RunIds : SkipFails(i, r)

RunnerStep(w) ==
    \/ StartWork(w) \/ CheckSingleRun(w) \/ SkipBusy(w) \/ Claim(w)
    \/ Execute(w) \/ Finish(w) \/ Summarise(w) \/ HandOff(w)
    \/ \E t \in worker[w].todo : ChainSkip(w, t) \/ ChainQueue(w, t)

RunnerFault(w) ==
    \/ GiveUp(w) \/ ClaimAnswerLost(w) \/ FinishFails(w) \/ SummaryFails(w)
    \/ ChainUnread(w) \/ HandOffFails(w)
    \/ \E t \in worker[w].todo : ChainFails(w, t)

Next ==
    \/ \E i \in Replicas : DispatcherStep(i) \/ DispatcherFault(i) \/ Crash(i)
    \/ \E i \in Replicas, j \in Jobs : Trigger(i, j)
    \/ \E i \in Replicas, r \in RunIds : TimerFires(i, r)
    \/ \E w \in Workers : RunnerStep(w) \/ RunnerFault(w)
    \/ Sweep
    \/ \E r \in RunIds : RunAfter(r) \/ GrowOld(r)
    \/ \E j \in Jobs : Suspend(j)

Spec == Init /\ [][Next]_vars

(* What the scheduling of the process owes: the cron entries fire (a tick, *)
(* a sweep), idle workers take tasks and a running task goes on to its     *)
(* end, and time passes.  Neither faults nor manual runs are owed, and     *)
(* neither is a chain timer: the dispatcher must do without it.            *)
Fairness ==
    /\ \A i \in Replicas : WF_vars(DispatcherStep(i))
    /\ \A w \in Workers : WF_vars(RunnerStep(w))
    /\ WF_vars(Sweep)
    /\ \A r \in RunIds : WF_vars(RunAfter(r)) /\ WF_vars(GrowOld(r))

FairSpec == Spec /\ Fairness

-----------------------------------------------------------------------------
(* Properties *)

Recording == {"execute", "finish"}
Holding   == Recording \cup {"summary", "chain", "handOff"}

TickType == [pc : DispPC, jobs : SUBSET Jobs, quota : Nat,
             busy : SUBSET Jobs, batch : SUBSET RunIds]
WorkType == [pc : WorkerPC, run : RunIds \cup {NoRun},
             result : Results \cup {"none"},
             todo : SUBSET [link : Links, active : BOOLEAN],
             step : RunIds \cup {NoRun}]

MemoryTypeOK ==
    /\ disp \in [Replicas -> TickType]
    /\ queue \in [Replicas -> Seq(RunIds)]
    /\ worker \in [Workers -> WorkType]
    /\ \A w \in Workers : worker[w].pc \in {"finish", "summary"}
                            => worker[w].result \in Results
    /\ timers \in [Replicas -> SUBSET RunIds]
    /\ faults \in Nat

MemoryNamesRows ==
    /\ \A i \in Replicas :
          /\ disp[i].batch \cup timers[i] \subseteq Rows
          /\ \A n \in 1..Len(queue[i]) : Exists(queue[i][n])
    /\ \A w \in Workers :
          /\ worker[w].pc # "idle" => worker[w].run \in Rows
          /\ worker[w].pc = "handOff" => worker[w].step \in Rows

(* The variables have their types, and whatever a replica keeps in memory  *)
(* about a run names a row that was written: "that is why it is written    *)
(* before the timer is set, not after" (runner.go).                        *)
TypeOK == TableTypeOK /\ MemoryTypeOK /\ MemoryNamesRows

(* "The atomic claim in the runner gives one execution per row": however   *)
(* often a row is handed over (several dispatchers, chain timers, a second *)
(* tick while the first hand-off waits in the channel), it is taken once,  *)
(* and no two workers are ever busy with the same run.                     *)
OneExecutionPerRow ==
    /\ \A r \in RunIds : claims[r] <= 1
    /\ \A v, w \in Workers :
          /\ worker[v].pc \in Holding /\ worker[w].pc \in Holding
          /\ worker[v].run = worker[w].run
          => v = w

(* "One row per minute": a job is executed at most once for one planned    *)
(* minute, whichever replicas evaluated that minute.                       *)
OneExecutionPerMinute ==
    \A q, r \in Rows :
        /\ claims[q] > 0 /\ claims[r] > 0
        /\ runs[q].job = runs[r].job
        /\ runs[q].minute = runs[r].minute /\ runs[q].minute # NoMinute
        => q = r

(* The history and the workers agree.  A row was claimed exactly when its  *)
(* status says so (one closed as skipped never was, although the           *)
(* dispatcher skips on a batch and a set of running jobs it read earlier), *)
(* a worker past its claim holds a claimed row, and while its target has   *)
(* not answered the row is running, or closed as a timeout by the          *)
(* watchdog, and by nobody else.                                           *)
ClaimedRowsHeld ==
    /\ \A r \in RunIds :
          claims[r] = IF runs[r].status \in {"absent", "pending", "skipped"}
                      THEN 0 ELSE 1
    /\ \A w \in Workers :
          /\ worker[w].pc \in Holding => claims[worker[w].run] = 1
          /\ worker[w].pc \in Recording
             => runs[worker[w].run].status \in {"running", "timeout"}

(* What a run recorded is what the history says from then on.  Only a      *)
(* timeout may still be replaced (by the late result of the run it gave    *)
(* up on).                                                                 *)
RecordedResultStands ==
    [][\A r \in RunIds : runs[r].status \in {"success", "failed", "skipped"}
          => runs'[r] = runs[r]]_vars

(* A chain step exists only behind a run whose recorded result is a        *)
(* success or a failure that a link of its job asks for; never behind a    *)
(* timeout, a result that was not written, or a run still going.           *)
ChainFollowsResult ==
    \A r \in Rows : runs[r].parent # NoRun =>
        LET p == runs[r].parent IN
        /\ runs[p].status \in {"success", "failed"}
        /\ \E l \in FiredLinks(runs[p].job, Outcome(runs[p].status)) :
              l.to = runs[r].job

(* A finished run fires each link its result asks for at most once, though *)
(* it may have been handed over several times, its process may have        *)
(* crashed, and its late result may have replaced a timeout.               *)
ChainFiresOnce ==
    \A p \in Rows, j \in Jobs :
        LET asked == FiredLinks(runs[p].job, Outcome(runs[p].status)) IN
        Cardinality({r \in Rows : runs[r].parent = p /\ runs[r].job = j})
            <= Cardinality({l \in asked : l.to = j})

(* Links that form a cycle do not run for ever: no run deeper than the cap *)
(* is executed.                                                            *)
ChainDepthBounded ==
    \A r \in Rows : claims[r] > 0 => ChainStepCount[r] <= ChainMaxDepth

(* "Everything here can be recomputed from job_runs": the summary of a job *)
(* never shows an outcome that no row of the job has.  So it is as long as *)
(* retention keeps the row: PurgeRuns, which is not modelled, deletes rows *)
(* and leaves the summary.                                                 *)
SummaryFromHistory ==
    \A j \in Jobs : lastStatus[j] # "none" =>
        \E r \in Rows : runs[r].job = j /\ runs[r].status = lastStatus[j]

(* Run records go through the life cycle of module RunLifecycle. *)
Lifecycle == INSTANCE RunLifecycle
    WITH status <- [r \in RunIds |-> runs[r].status], started <- claims

FollowsLifecycle == Lifecycle!Spec

(* Every row, however its hand-off was lost (full channel, crash, closed   *)
(* timer, unwritten result), is closed in the end.                         *)
EveryRowSettles ==
    \A r \in RunIds : Exists(r) ~> (Exists(r) /\ runs[r].status \in Terminal)

(* A single_run job has at most one run in flight.  The code gives this    *)
(* only while one worker at a time passes from check to claim.             *)
SingleRunExclusive ==
    \A q, r \in Running : runs[q].job = runs[r].job
        /\ runs[q].job \in SingleRun => q = r

(* "Terminal reports whether a status is final." (domain/run.go) *)
TerminalIsFinal ==
    [][\A r \in RunIds : runs[r].status \in Terminal
          => runs'[r].status = runs[r].status]_vars
=============================================================================
