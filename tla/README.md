# Cronsole in TLA+

Cronsole is a cron service: jobs are HTTP calls, their schedules are cron
expressions, and a PostgreSQL database holds definitions, queue and history.
Several replicas of the process may share one database. This directory holds
TLA+ models of the parts in which work is declared, decided, claimed, executed,
recorded and reported, and of who may do what; the TLC configurations that
check them; and theorems about them, proved with TLAPS. Line references are to
the repository this directory lives beside; `PROJECT.json` maps every definition
to the lines it models.

## Inventory

| Component | State | Operations | Interacts with |
|---|---|---|---|
| `job_runs` and the job summary (`repository/exec_repo.go`, `run_repo.go`, `cronsole.sql`) | one row per run, queue and history at once; `jobs.last_*` | insert pending, skip, claim, finish, close stuck, queries | everything below, by single SQL statements |
| Dispatcher (`service/dispatcher.go`) | `running` flag, `lastMinute`, a batch read from the database | one tick a minute: clock, heartbeat, missed minutes, queueing, hand-over | `job_runs`, heartbeat row, worker pool |
| Runner (`service/runner.go`) | one run in the hands of one worker | single_run check, claim, HTTP call with retries, result, summary, mail, chain | `job_runs`, notifier, chain timers |
| Chain timers (`service/runner.go`) | armed timers, `closed` | schedule, fire, close | worker pool |
| Worker pool (`pkg/worker/pool.go`) | bounded channel, workers, `closed` | Submit, work, Shutdown | runner |
| Watchdog (`service/watchdog.go`) | the heartbeat's warning marker | close stuck runs, alert with repeat suppression, count stale rows, purge | `job_runs`, heartbeat, notifier |
| Manual and API runs (`service/run_service.go`) | - | Trigger: insert and hand over | `job_runs`, pool |
| Process (`cmd/cronsole/main.go`) | the order of a shutdown and its 90 seconds | start, shutdown | all of the above |
| Notifier, application log (`service/notifier.go`, `applog/applog.go`) | a bounded channel and one goroutine each | enqueue, drain, Close | runner, watchdog, everybody |
| Definitions and sync (`service/job_service.go`, `sync_service.go`, `project_service.go`, their handlers) | jobs, schedules, links, projects, keys | create, update, clone, delete, link, sync with prune, rotate | read by dispatcher and runner |
| Accounts (`service/auth_service.go`, `pkg/token`, `middleware`) | users, reset links, token cut-offs, the set-up latch | login, password change and reset, account screens, first set-up | handlers |
| Members (`service/member_service.go`, `authz`) | role grants, role permissions, a cache per process | grant, revoke, run visibility, reconcile at boot | handlers |
| Host overrides (`service/host_override_service.go`) | routes in the database and a copy per process | save, delete, reload after a change and on a timer, lookup | outbound client |
| Notification lists and mail (`service/notification_service.go`, `notifier.go`, `pkg/mail`) | lists, the mail queue | edit, delete, enqueue, send | runner |
| Rate limiter (`pkg/auth`) | a window per key and limiter | allow, reset, collect | login |
| Cron expressions (`pkg/cronexpr`) | none | parse, match, next runs | dispatcher; the job form |
| Command line client (`cmd/cronsolectl`) | a command, its deadline, what it polled | sync, run (and wait), jobs, runs | project API |
| Panels, statistics, templates, config, translations | none that matters to the above | - | services |

What is hard here is what happens between two statements. No lock is held
across statements and there is no leader: replicas rely on a unique index, on
guards in `WHERE` clauses, and on a table that outlives every process. So the
questions are: rows handed over twice, decisions made on lists read earlier, a
process that dies between two writes, hand-offs that get lost, results that come
late, two clocks that disagree, and a shutdown that closes channels others
still use. `PROJECT.json` lists these under `hazards`, each at its line with
the properties aimed at it.

What makes the components correct:

- runs: one execution per row and per planned minute; a skipped row never ran;
  a recorded result stands; every row is closed in the end;
- chains: a step follows a written result, fires once, and cycles end;
- minutes: every due minute gets its row, missed ones are replayed within reach
  and never beyond it, and the counter of lost minutes is honest;
- shutdown: it ends, nothing accepted is abandoned by a timely one, and no
  closed channel is sent on;
- definitions: no loop of links without a race, a sync touches what it declares
  and repeats without effect, writes stay in the caller's projects;
- accounts and members: sessions and links end with the password, one first
  administrator, nobody is raised by those who may not;
- the rest: routes stay in force, alerts are held back only as repeats, attempts
  stay bounded, previews and exit codes and mails tell the truth, and a target
  is not made to do one thing twice.

## Modules

| Module | What it is |
|---|---|
| `JobRuns` | the tables and their statements; each operator is one method of `ExecRepo` or `RunRepo` |
| `Execution` (extends `JobRuns`) | dispatcher hand-over, pool, runner, chain timers, manual runs, watchdog closing, crashes and failed statements, on every replica |
| `RunLifecycle` | the abstract promise about one run; `Execution` implements it |
| `Scheduling` | which minutes a tick evaluates: two clocks, heartbeat, catch-up, dry runs, restarts |
| `Shutdown` | `app.shutdown` against the goroutines still going |
| `Definitions` | jobs, links, schedules, projects and keys, and the requests that edit them, the sync API included |
| `Accounts` | accounts, sessions, reset links, first set-up |
| `Members` | grants, ranks, run visibility, built-in roles, each process's cache |
| `HostRoutes` | the dialer's table on every replica |
| `Alerts` | the watchdog's alert and its mark in the heartbeat row |
| `RateLimit` | the login limiters behind proxies |
| `CronExpr` | parsing, matching and the preview of firings, as functions |
| `Ctl` | the command line client against the project API |
| `Calls` | the attempts of a job at its target, and the mail about them |
| `Services` | `Accounts` to `Calls`, side by side: `focus` says which service a behaviour runs |
| `MCExecution`, `MCScheduling`, `MCShutdown`, `MCDefinitions`, `MCServices` | instances for TLC, values in the `.cfg` files |
| `ExecutionProofs`, `ExecutionChain` | theorems about `Execution`, the second on top of the first |
| `SchedulingProofs`, `ShutdownProofs`, `DefinitionsProofs` | theorems about the module of that name |
| `ServicesProofs` | theorems about `HostRoutes`, `Alerts`, `Members` and `Calls`, as parts of `Services` |
| `AccessProofs` (extends `ServicesProofs`) | theorems about `Accounts`, `RateLimit`, `CronExpr` and `Ctl` |
| `Wellfounded` | least elements, bounds, walks up a chain of parents and over links, division of a time into days, hours and minutes |

**`Execution`.** An action is one SQL statement with the memory work around it.
`disp[i]` is the tick of replica i: `BeginTick` lists the active jobs,
`QueueDue` inserts, `TakeQuota`, `ReadRunningJobs` and `ReadPending` are the
three queries of `dispatchPending`, `DispatchSkip` and `DispatchRow` its loop.
`queue[i]` is the pool's channel, `worker[w]` a goroutine in `Runner.Run`:
`StartWork`, `CheckSingleRun`, `SkipBusy`, `Claim`, `Execute`, `Finish`,
`Summarise`, and one action per chain target. `timers[i]` are armed chain
timers. The `...Fails` actions are the error returns of each statement,
`ClaimAnswerLost` a commit whose answer is lost, `Crash` the loss of a
process's memory. `claims` is a history variable: how often a row was taken.

Abstractions: the HTTP call with its retries is one step with any of three
results; time appears as two flags of a row (`ripe`: `run_after` has come; `old`:
past `max_duration_sec`); `ListPending` compares with the present rather than
with the tick's own start, which only admits more behaviours; links are fixed
while the system runs; a mail, a header, a note and a metric leave no trace.
Which minutes are due is the constant `Due` here and the subject of
`Scheduling`. A dry run never reaches the hand-over and exists in `Scheduling`
only.

**`Scheduling`.** The database clock counts in fractions of a minute
(`UnitsPerMinute`). A replica fires at the fifth second of its own clock, and the
difference to the database clock is any of `Skews`, anew at each firing. A tick
reads the clock, reads the heartbeat, touches it (not in a dry run), lists and
inserts; it may fail at each place and the process may stop at each place.
History variables: which minutes a replica read (`read`), which ticks ran to
their end (`done`), whether one failed between its pulse and its rows (`cut`).

**`Shutdown`.** `phase` is the position of `app.shutdown`. The callers are the
goroutines it meets: a tick or sweep (which `cron.Stop` does not wait for), a
request, a chain timer, a pool worker. `Pool.Submit` is two steps, because the
lock is released between the look at the flag and the send; `Logger.enqueue`
holds a read lock over both, which the writer in `Close` waits out. A panic is
recovered everywhere except in a timer's goroutine, where it ends the process.

**`Definitions`.** `req[c]` is the request a client's goroutine serves: a
handler resolves scope or key (`Save`, `Toggle`, `AddLink`, `Sync`, ...), and
then one action is one SQL statement (`Lookup`, `Insert`, `Update`,
`WriteSchedules`, `CheckLoop`, `CreateLink`, `PruneJob`, ...). No transaction
spans a request. Any statement may fail and any request may be abandoned
between two of them. A sync goes through its two passes, the jobs and then the
links of those that did not fail, and its prune. A job has the columns the
requests tell apart; checks of a form that read no other row are one flag,
`valid`.

**`Accounts`.** A request passes the set-up gate, the session check where its
route has one, and then makes one step per statement; the moment a statement
writes is read in a step of its own (`Stamp`). A token's issue time loses its
fraction of a second, the account's cut-off does not, so `TokenRetired` compares
unlike things, as in the code. A reset by mail looks its link up (`FindByTokenHash`),
reads the account (`LinkOwner`), spends the account's links (`SpendLink`) and
writes the password (`WritePassword`), while other resets, and requests for new
links (`CreateReset`), go on beside it. `hist` records the races that the
properties set apart (below).

**`Members`.** `assign`, `perms` and `fields` are the tables of the grantz
library, `cache[rep][u]` what a process holds. `RequireProject` and `Decide`
are the permission check, from the cache; `rankOf` reads the database. A boot
reconciles the built-in roles one at a time (`Reconcile`), with the permissions
of its own version. That a process loads a user's grants and keeps them is taken
as one step, the library's.

**`HostRoutes`, `Alerts`, `RateLimit`.** A reload reads (`ListActive`) and
replaces (`Replace`) in two steps, for the screen and the ticker separately. A
sweep of the watchdog reads the heartbeat's note, decides, hands its mail to the
notifier and writes its mark. The mail may be dropped by a full queue, refused
by the mail server or lost with its process; the mark is written all the same,
as in the code. An attempt to log in is counted by the limiter of its route, and by the
handler's for its address and its account; `ClientIP` takes the address from
the header a deployment trusts, counting hops from the end. The code reads the
first line of that name (`ratelimit.go:165`); `Header` has the proxies append to
it, as they do by default, and not add a line of their own.

**`CronExpr`.** `Parse`, `Matches` and `NextRun` are functions of a written
expression; the calendar is a constant. `NextRuns` builds the preview one firing
per step; the reference is `Matches`, minute by minute.

**`Ctl`.** `proc[c]` is a command up to its exit, `wire[c]` the request on its
way, being served or answered. `NoAnswer` is the client's timeout or a broken
connection; what was sent may be served all the same. `OtherRun` and `RunMoves`
are the rest of the service.

**`Calls`.** Refines the one step that `Execution` has for the HTTP call:
`attempt`, `Arrive`, `TargetAnswers`, `Receive`, `Deadline`, `Break`, `Pause`
and `Panic` for each of two runs of a single_run job, with a clock in seconds
and the watchdog's `CloseStuckRuns` beside them; then `finish`,
`sendNotification`, the notifier's queue and the SMTP session, while the list of
recipients is edited. Counting the job's running rows (`CheckSingleRun`) and
claiming (`Claim`) are two steps, so two runs may pass the count together, as
`single_run_race` shows; `beside` remembers that they did. An answer is one step,
its status and body together: the code judges the status even when the deadline
cuts the body off (`runner.go:269`), so a target counts as done with a call once
it has answered the status.

## Runs

| Run | Instance | Shows |
|---|---|---|
| `hand_over` | 2 replicas, 1 worker each, a single_run job due in 2 minutes, switched on and off, 1 fault | `OneExecutionPerRow`, `OneExecutionPerMinute`, `ClaimedRowsHeld`, `RecordedResultStands` |
| `chains` | 1 replica, 2 workers, 2 jobs, three links forming a cycle with both delays, depth cap 1, 3 rows, 1 fault | `TypeOK`, `ChainFollowsResult`, `ChainFiresOnce`, `ChainDepthBounded`, `SummaryFromHistory`, and that `Execution` implements `RunLifecycle` |
| `settling` | 1 replica, 1 worker, a manual run that chains to a scheduled single_run job, 1 fault, fairness | `EveryRowSettles`, and that one worker gives `SingleRunExclusive` |
| `minutes` | 2 replicas and a dry-running one, 3 jobs, 6 minutes, skew either way, 2 faults | `MissedReplayed`, `NoMinuteSkipped`, `LostMinutesAreReal`, `NeverTooLate` |
| `shutdown` | one caller of each kind, channels of capacity 1, fairness | `LogSendsOnOpenChannel`, `EachStepAfterItsUsers`, `CleanExitKeepsAll`, `ShutdownEnds` |
| `definitions` | 2 clients, 5 jobs of 3 projects, 26 combinations of 33 requests, loops of up to 3 links with a depth of 2, 1 failure | `LoopNeedsRace`, `PruneSparesDeclared`, `DeletedStaysDown`, `SyncIdempotent`, `WritesInReach` |
| `services` | one of eight modules per behaviour, see below | fourteen properties, see below |
| `late_result` | violation | a timeout is not final |
| `single_run_race` | violation | two runs of a single_run job at once |
| `missed_minute` | violation | a minute with a pulse and without rows is never replayed |
| `submit_panics` | violation | a send on the pool's closed channel |
| `omitted_schedules` | violation | a sync that leaves out schedules deletes them |

The services of the run `services` share no table, so each behaviour runs one
of them; `focus` says which. One run for the eight keeps their instances side
by side, and every action of each fires.

| Module | Instance | Shows |
|---|---|---|
| `Accounts` | 3 accounts, 2 links, 2 clients, nine sequences of requests, seconds of 2 moments, restarts | `SessionsEndWithPassword`, `OldLinksDieWithReset`, `FirstAdminOnce` |
| `Members` | 2 replicas, 2 clients, 4 users, 2 projects, a custom role, two versions of the program | `NoEscalation`, `ChangeSeenWhereMade`, `NarrowedStaysNarrow` |
| `HostRoutes` | 2 replicas, 1 name, 2 ports and any port, 2 writes, a restart | `RouteNeverLost`, `AnsweredRouteInForce` |
| `Alerts` | 2 replicas, 3 sweeps, a problem that comes and goes | `HeldBackOnlyIfAlerted` |
| `RateLimit` | 2 clients, 4 attempts, limit 2, every configuration of a proxy header | `AttemptsBounded` |
| `CronExpr` | 144 expressions, months of 3 and 2 days, a week of 3 days | `PreviewIsWhatFires` |
| `Ctl` | 15 command lines, 2 rows and a page of 1, key rotation | `ExitCodeTruthful` |
| `Calls` | 2 runs, up to 6 attempts, 4 jobs and mail servers, an edit and a fault | `NoDoubleWork`, `ReportsAreTrue` |

**Bounds.** `RunIds` bounds the rows of a behaviour, `MaxTriggers` the manual
runs, `MaxFaults` crashes and failed statements together, `LastMinute` modelled
time. The races need two actors and one or two rows: a second replica (or a
second worker), a row handed over twice and one skipped. The chain bounds let a
cycle go round past its cap, one result fire two links to the same job, and
a target be blocked by single_run. Six minutes are an outage longer than both
the scan (3) and a job's `max_delay_min` (1), with a tick before and after it;
jobs are one without run_missed, one held back by its delay, one by the scan.
Channels of capacity 1 are full at the first backlog. In `Definitions` the
combinations bring together the requests that touch the same rows; three links,
added one after the other or at once, close the longest loop that a check of
the modelled depth can see. In `CronExpr` the small calendar has a day that one month
lacks, a weekday with two numbers, and a scan that ends before the calendar. In
`Calls` the floor of the default `max_duration_sec` is scaled so that it is what
makes six attempts fit, as 300 seconds do in the code; the second run is due while
the first is at its last attempts, just after it began, or with it. In `Alerts`
three sweeps of two replicas fall within the pause after a mail or, its mark cut
down to the second, just past it. Symmetry is used over
replicas, workers and real dispatchers, in runs without liveness.

**Fairness.** `Execution` assumes weak fairness of each dispatcher, each worker,
the watchdog's closing statement and the passing of time: cron entries fire,
goroutines run, attempts are bounded by their timeouts. It assumes none of
chain timers, manual runs or faults: `EveryRowSettles` says the dispatcher
alone is enough, whatever gets lost on the way. `Shutdown` assumes fairness of
`app.shutdown` where it can go on, of its deadline, and of a send to the log,
which never blocks; it assumes nothing of targets, mail servers, requests or
ticks. Deadlock is not checked in `Scheduling` (modelled time ends) and
`Shutdown` (the process ends), nor in `services` (each instance ends when its
requests, writes or time are used up). `Definitions`, and the modules of
`services`, state safety only: what they promise is about what may not happen,
and no goroutine of theirs waits for another.

**What the violations say.**

- *late_result.* `FinishRun` has no guard on the status. A run closed by the
  watchdog is rewritten by its own result and triggers its chain, although
  `domain.Terminal` calls a timeout final. `RecordedResultStands` is what does
  hold: only a timeout may still be replaced.
- *single_run_race.* Counting and claiming are two statements. Within one
  worker the rule holds (`settling`); two workers or replicas can pass the
  check together.
- *missed_minute.* The pulse is written before the rows. `MissedReplayed` is
  what holds: no minute within reach is lost unless a tick fails between the
  two.
- *submit_panics.* `Submit` looks, unlocks and sends. A tick that shutdown does
  not wait for, or a chain timer past its own check, sends on the closed
  channel. `EachStepAfterItsUsers` is what holds: requests and tasks are safe
  while the 90 seconds last.
- *omitted_schedules.* `applyDefaults` replaces an omitted list by an empty one
  before `Update` asks whether it is nil. `headers` are not normalised there and
  are kept. Other omitted fields (name, method, timeouts, window of statuses)
  likewise return to their defaults at every sync.

**What the properties set apart.** Some promises hold only outside a race or a
setting that the models do reach. The property names it, so that the rest is
checked:

- `LoopNeedsRace`: a loop that the check would find appears only when one link
  was inserted between the other's check and insert. Loops of more
  than `ChainMaxDepth + 1` links are never found; the runner's cap ends both.
- `SessionsEndWithPassword`: a login that had passed its password check when the
  password changed, and was signed after, leaves a working session; so does a
  cut-off moved back when two writes arrive in the wrong order.
- `OldLinksDieWithReset`, about links that work and about requests that go on with
  one found live before: two resets of one account under way together both set a
  password, because `MarkUsed` ignores the rows it affected
  (`auth_service.go:274`); a link made between the two statements stays live; and
  retention may remove the link between its look-up and `MarkUsed`, which then
  marks nothing (`password_reset_repo.go:60`). So the comment at
  `password_reset_repo.go:57` ("no moment where the account has a new password
  and an older link that still works") and the mail's "The link works once"
  (`notifier.go:143`) do not hold in every order of statements: with any one of
  the three taken out of the property, TLC finds a counterexample.
- `FirstAdminOnce`: `CreateFirstAdmin` is one statement, but under READ COMMITTED
  two of them that overlap both find the table empty (`user_repo.go:111` says
  the database decides). Two administrators who delete each other empty the
  table and open set-up again.
- `AnsweredRouteInForce`: a reload that read before a save and finishes after it
  puts the old routes back until the next tick. `RouteNeverLost` starts with the
  first successful reload: one that fails at boot leaves the table empty.
- `ChangeSeenWhereMade` is about the replica that answered; others decide from
  their cache until it expires.
- `HeldBackOnlyIfAlerted`: `alert` writes its mark whatever became of the message. A
  full queue drops it (`notifier.go:91`), the mail server may refuse it
  (`notifier.go:68`), and nobody is told; the next sweeps hold the same warnings
  back because they "were mailed" (`watchdog.go:237`), although they were only
  handed over. Without `lost` in the property TLC finds that. The converse, at
  most one mail per `AlertRepeat` (`watchdog.go:208`), does not hold when two sets of warnings alternate, when
  two replicas sweep at once, or while the heartbeat row is absent.
- `AttemptsBounded`: within one period less than twice the limit, because two
  windows may meet. The limiter of the route, unlike the handler's, is not reset
  by a success.
- `ExitCodeTruthful`: exit 4 also means that the deadline passed, that the run
  fell off the page of 50 or the last 24 hours, or that a timeout was seen that
  later became a success; exit 3 also that every job failed; exit 1 after a lost
  answer may leave a queued run behind. A failed link of a sync answers 200.
- `NoDoubleWork`: a broken connection is retried though the target may be at
  work. A `max_duration_sec` of one timeout is accepted
  (`job_service.go:201`: "otherwise the watchdog closes a run that is still
  healthy"), yet attempts with retries take longer, and the next run of a
  single_run job may start beside them. The default is always enough. And two
  runs of a single_run job may be at their attempts together when one counted
  between the other's count and its claim: the race of `single_run_race`, which is
  the only way past the count.
- `SummaryFromHistory`: as long as retention keeps the row. `PurgeRuns`, not
  modelled, deletes rows and leaves the summary.

Further observations without a property: the result "service is shutting down"
(`runner.go:255`) cannot occur, because a worker's context is not cancelled by
a shutdown; deleting a notification list leaves the job's reference in place,
since a soft delete sets off no foreign key (`notification_repo.go:125`), and
`TargetForJob` filters it out; the beginning of a key has 20 random bits and no
unique index, so two projects may share one and only one of the keys works
(`project_repo.go:61`); a form that changes an account writes the profile before
it refuses a weak password; 29 February is further away than `DefaultScanDays`
allows for (`cronexpr.go:214`).

## Proofs

TLC checks small instances; the theorems hold for every number of replicas,
workers, jobs, links, rows, requests and faults. Each safety property is reached
the same way: an inductive invariant that adds what the code keeps in memory
between two statements, one lemma per action or statement, and a last theorem
that combines them. `PROJECT.json` lists the theorems with their properties.

**Execution: types and runs** (`ExecutionProofs`).

- `TypeCorrect`. Types alone are not inductive: a worker reads the job of its
  row, so `TypeOK` also says that whatever a replica keeps in memory (batches,
  channel, workers, timers) names a row that exists.
- `Invariant`: `Spec => []IInv`, with `IInv == TypeOK /\ ClaimedRowsHeld /\
  UniqueMinute /\ Exclusive`. `OneExecutionPerRow` is not inductive by itself: a
  claim is safe because a pending row was never claimed, and a finish because
  the finishing worker's row is running or timed out and in nobody else's
  hands. `ThreeKinds` reduces every step to a quiet one (inserts, skips, the
  watchdog, memory), a claim, or a finish.
- From `IInv` follow `ExecutedOnce`, `MinuteOnce`, `HistoryAgrees`, the action property `ResultStands`, and `Refinement`: every
  step of `Execution` is a step of `RunLifecycle` or leaves its variables alone.

**Execution: the chain** (`ExecutionChain`). `ChainInv` adds to `IInv` that a
parent is an earlier row, that the targets a worker still has to write are
the links no row stands for yet, and that the summary of a job is backed by a
row (`SummaryBacked`).

- `StepsFollowResults`, `LinksFireOnce` and `SummaryComesFromHistory` are
  consequences.
- `DepthBounded` needs an induction over the parents of a row. `ChainStepCount`
  is a recursive function whose value `Wellfounded` finds by taking the least
  row for which it would go wrong: its parent is smaller still.
- `AloneUnlessRaced`: `SingleRunExclusive` holds in every behaviour in which two
  workers never stand between the check and the claim of one single_run job
  (`OneAtATime`). The code does not ensure that, and the run `single_run_race`
  shows what happens without it; the theorem says that nothing else breaks the
  rule. `AloneWithOneWorker` is the instance in which it cannot fail.

**Scheduling** (`SchedulingProofs`). `ClockInv` is types with `TicksInTime`: a
tick's minute and window are not ahead of the clock.

- `NoRowTooLate` follows without a bound on the skews themselves.
- The others are about ordinary skews, those that keep a firing inside its own
  minute (`OrdinarySkew`): the dispatcher's comment gives this as the reason for
  sampling at the fifth second. `EveryMinuteRead` and `LossesAreReal` rest on
  `MinuteChain`, which counts the minutes a replica left out against the
  readings of the clock that failed.
- `EveryMinuteReplayed` rests on `ReplayInv`: the pulse is the last minute
  touched by anyone, a tick looks back at least as far as the pulse was when it
  began, and a minute not yet in the table is owed by a tick in progress or lies
  after the pulse.

**Shutdown** (`ShutdownProofs`). `ShutdownInv` says what each phase has closed
(`FollowsPhase`), that what was waited for is gone unless the 90 seconds are
over (`WaitedFor`) and its queue empty (`LeftEmpty`), where each goroutine can
be (`InPlace`), and that a send on the log's channel holds the lock
(`SendsHoldLock`). From it follow `NoSendOnClosedLog`, `OrderIsRight` and
`NothingAbandoned`.

**Definitions** (`DefinitionsProofs`). `DefinitionsInv` says of the rows that a
deleted one is switched off, and of each request, by its position, that the job
it read was in its caller's scope when it looked (`Scoped`), that what it is
about to prune is not declared (`Undeclared`), and that the link it is about to
insert closed no short loop over the links it saw.

- `DeletionIsFinal`, `ScopeIsKept` and `PruningIsSafe` follow.
- `NoLoopWithoutRace`: the check of the code is a bounded search, and the
  property speaks of paths. `Wellfounded` shows that a walk of n steps finds the
  end of every path of at most n links; a new loop would have to use the
  link just inserted, and so a path that its check had found.

**Services** (`ServicesProofs`, `AccessProofs`). `focus` never changes and a
step of one service leaves the others alone (`StepsOfOne`), so each has an
invariant of its own, about its own actions. TLC checked each of them on the
instance of `services` before it was proved.

- `RoutesInv`: what a reload has read covers the targets routed throughout and
  is no older than the change it reloads for; a replica that serves something
  older than it answered has just put back a late reading. From it,
  `RoutesAreKept` and `AnswersAreInForce`.
- `AlertsInv`: every mark, in the row or in a sweep's hands, stands for an alert of
  the same warnings handed to a notifier no earlier than the mark says, be it
  mailed or lost since. From it, `OnlyRepeatsHeldBack`.
- `MembersInv`: a rank on its way to the table is no higher than somebody held
  when it was compared; no cache is older than its replica's last answer; a
  restricted role holds the permission it restricts. From it, `NobodyIsRaised`,
  `ChangesAreSeen` and `RestrictionsStand`.
- `CallsInv`. That a target is not at work twice needs to know, for each place of
  a run, which of its calls may still be going (`PlaceSound`); that two runs of a
  single_run job are at their attempts together only after the race needs time:
  after n attempts a run has used up at most n timeouts and pauses
  (`TimeSound`), so a `max_duration_sec` that fits all of them keeps the watchdog
  away (`RowSound`), the row is counted, and whoever else is past its count was
  so before the claim (`CountsRaced`). A row that says success is backed by the
  answer to its last attempt (`SaysSound`), and a message by a row that no longer
  changes (`MessagesSound`). From it, `WorksOnce` and `ReportsHold`.
- `AccountsInv`. What a request holds between two statements is part of it: the
  moment a stamp was read (`StampSound`), the link a reset has found
  (`LinkSound`), the token it came with. `SessionsCurrent` drops from the
  property what would not be inductive, that the token has not run out and the
  account is live. `FirstAlone` says that an insert of the first set-up is alone
  at its statement and that a table which ever held an account still does. From
  it, `OldSessionsEnd` and `OneFirstAdmin`. `OldLinksStayDead` also needs
  `LinksDead`, proved on top of it: while a reset is between its two statements,
  its account has no open link and no other reset that has found one, outside
  the three cases set apart.
- `LimitInv`. A window knows only when it ends and how many it counted. That two
  windows that meet stay under twice the limit needs the attempts before it:
  fewer than the limit lie in the period before a window's first
  attempt (`Open`), and before the present while there is no window (`Quiet`),
  because the attempt that opened the earlier window is more than a period old
  by then. `SpansBounded` is the property itself, for the attempts already let
  through. From it, `AttemptsAreBounded`.
- `CronInv`: up to its cursor, a preview shows every minute that matches. The
  step is a statement about the search (`NextRunIs`): the first day that fits,
  then the least candidate in it, is the first minute that matches. `Parse` only
  yields hours and minutes that exist (`FieldsBounded`), so a minute has one day,
  one hour and one minute (`CandidatesMatch`, on the division lemmas of
  `Wellfounded`). From it, `PreviewHolds`.
- `CtlInv`: an answer on the wire says what is so (`AnswerTrue`), a command's
  place tells what it has asked for (`PlaceTrue`), and an exit code what the
  command saw (`ExitTrue`). `ExitCodeTruthful` alone is not inductive: a run that
  is not a success may become one. What makes it stand is that a command exits 4
  on what can no longer change, a failure or a skip, or on the deadline or a
  timeout, which the property sets apart. `ClientLater` carries all of it over
  any step that only adds rows or moves those that are not final. From it,
  `ExitCodesHold`.

**Assumptions.** All are named, and TLC evaluates them in the runs:
`JobRunsAssumption` (ids positive and finitely many, links finite and never from
a job to itself, columns typed), `ExecutionAssumption` (as many workers as
`MaxConcurrent`, a channel at least as large), `SchedulingAssumption` (finitely
many skews; a tick is over before the next one fires, so the running flag never
turns one away), `ShutdownAssumption` (the kinds of
goroutines are disjoint, the queue holds at least the workers),
`DefinitionsAssumption` (a job deleted at the start is switched off, inputs are
typed), `MembersAssumption` (`Every` is no project, requests are those the
screens send), `AlertsAssumption` (a pause is a natural number),
`AccountsAssumption` (ids count up and are finitely many, lifetimes are natural
numbers), `LimitAssumption` (a limit is at least one, attempts are typed),
`CronAssumption` (bounds, calendar and parts of an expression are numbers; nothing
is said of which), `CtlAssumption` (a command line is what the flags say) and
`CallsAssumption`: what `JobService.Validate` lets through, at most five retries and a
timeout of at least one, a cap on timeouts, and a default `max_duration_sec` of at
least the eleven units that five retries of one unit with a pause of one take. The code's
floor is 300 seconds (`job_service.go:133`). Two theorems
have hypotheses of their own, named above: `OrdinarySkew` and `OneAtATime`.

**Only model-checked.**

- Liveness (`EveryRowSettles`, `ShutdownEnds`): temporal properties under
  fairness are out of the prover's reach.
- `SyncIdempotent`: it depends on the payloads. A project larger than a page, or
  one code twice in a payload, is not settled by one sync, so it holds of the
  instance and not of every value of the constants.
- The hypotheses under which some properties hold (`hist` of `Accounts`,
  `beside` of `Calls`, `raced` of `Definitions`) are part of the properties; that the
  code does run into what they set apart is described above, not proved.
- The runs that expect a violation, which are counterexamples.

## Plan

1. `Execution`, `Scheduling`, `Shutdown`, `Definitions` and the services: modelled
   and checked.
2. Theorems: every safety invariant and action property of a passing run has one,
   but `SyncIdempotent`.
3. What would come next: a refinement of `Calls` into the single step `Execute`
   of `Execution`, and of `CronExpr` into the constant `Due` of `Scheduling`.

## Not modelled

- Statistics: aggregate queries that only read; what they sum is computed inside
  the database.
- Host and container panels, metrics: samplers and counters that nothing reads
  back.
- Configuration and translations: read once; the settings that matter are
  constants with the assumptions `config.go` enforces.
- The in-memory repositories (`repository/memrepo`): a test double of the SQL
  statements that the models are of.
- List screens, form parsing and templates of the handlers: no state. The
  handlers that change something are the arrivals of the modules above.
- Of cron expressions, `Describe` (wording) and changes of a zone's offset; of
  the target policy, private ranges and header characters (text); of
  notification lists, further lists, which are independent rows.
- `PurgeRuns`, left out of `job_runs`: it deletes rows older than the retention,
  in batches and whatever their status (`exec_repo.go:473`). A row still pending
  or running after that many days is deleted too, and the summary of a job
  outlives its rows. What is stated of rows is stated while they are kept.
