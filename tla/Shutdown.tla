------------------------------ MODULE Shutdown ------------------------------
(***************************************************************************)
(* The end of a process: app.shutdown (cmd/cronsole/main.go) against the   *)
(* goroutines that are still going when it is called.  They meet at three  *)
(* channels that are closed one after the other: the worker pool's         *)
(* (pkg/worker/pool.go), the notifier's (internal/service/notifier.go) and *)
(* the application log's (internal/applog/applog.go), and at the flag of   *)
(* the runner's chain timers (internal/service/runner.go).                 *)
(*                                                                         *)
(* A send on a closed channel panics.  cron.Recover, the Recoverer of the  *)
(* web server and the pool's own recovery catch it in a tick, a sweep, a   *)
(* request or a task; nothing catches it in a timer's goroutine, where it  *)
(* ends the process.                                                       *)
(***************************************************************************)
EXTENDS Integers, FiniteSets

CONSTANTS
    Entries,          \* goroutines of the scheduler's entries, tick or sweep
    Requests,         \* goroutines of requests that start runs or send mail
    Timers,           \* chain timers
    Workers,          \* pool workers
    QueueSize,        \* capacity of the pool's channel
    NotifyQueueSize,  \* 256 in the code
    LogQueueSize      \* 1024 in the code

Callers == Entries \cup Requests \cup Timers \cup Workers

ASSUME ShutdownAssumption ==
    /\ {QueueSize, NotifyQueueSize, LogQueueSize} \subseteq Nat
    /\ Workers # {} /\ QueueSize >= Cardinality(Workers)
    /\ Entries \cap (Requests \cup Timers \cup Workers) = {}
    /\ Requests \cap (Timers \cup Workers) = {}
    /\ Timers \cap Workers = {}

VARIABLES
    phase,        \* what app.shutdown does next
    expired,      \* its 90 seconds are over
    crashed,      \* a panic nobody recovered
    pc,           \* where each caller is
    after,        \* where it goes once its line of the log is written
    timersClosed, \* chainTimers.closed
    pool,         \* Pool.closed, whether its channel is open, tasks in it
    notifier,     \* the notifier's channel and its sender goroutine
    logger        \* the logger's channel and its drainer goroutine

vars == <<phase, expired, crashed, pc, after, timersClosed, pool, notifier, logger>>

(* The phases are those of the code: serving, timers, server, serverWait,  *)
(* poolFlag, poolClose, drain, notifier, notifierWait, logger, loggerWait, *)
(* exited.  A caller is idle, gone, or somewhere in between:               *)
(*   armed, fired   a timer, before and after its goroutine runs, which    *)
(*                  has not locked the timers yet                          *)
(*   check, send    in Pool.Submit, before and after it read closed        *)
(*   run, mail, chain   a worker, at its task and what follows it          *)
(*   log, logSend   in Logger.enqueue, without and with the read lock      *)
Init ==
    /\ phase = "serving"
    /\ expired = FALSE
    /\ crashed = FALSE
    /\ pc = [g \in Callers |-> "idle"]
    /\ after = [g \in Callers |-> "idle"]
    /\ timersClosed = FALSE
    /\ pool = [closed |-> FALSE, open |-> TRUE, tasks |-> 0]
    /\ notifier = [open |-> TRUE, queued |-> 0, sender |-> "idle"]
    /\ logger = [open |-> TRUE, queued |-> 0, drainer |-> "idle"]

Alive == phase # "exited" /\ ~crashed

At(g, here) == Alive /\ pc[g] = here

Goto(g, there) == pc' = [pc EXCEPT ![g] = there] /\ UNCHANGED after

(* A line of the log, and then there. *)
LogAndGoto(g, there) ==
    /\ pc' = [pc EXCEPT ![g] = "log"]
    /\ after' = [after EXCEPT ![g] = there]

Logged(g) ==
    /\ pc' = [pc EXCEPT ![g] = after[g]]
    /\ after' = [after EXCEPT ![g] = "idle"]

-----------------------------------------------------------------------------
(* What starts a caller. *)

(* cron.Stop lets no entry start, and does not wait for one that is going. *)
(* A tick hands over rows; a sweep logs and mails its warnings.            *)
EntryStarts(g) ==
    /\ g \in Entries /\ At(g, "idle")
    /\ phase = "serving"
    /\ Goto(g, "check") \/ LogAndGoto(g, "mail")
    /\ UNCHANGED <<phase, expired, crashed, timersClosed, pool, notifier, logger>>

(* A run started by hand, or a password reset's mail. *)
RequestArrives(g) ==
    /\ g \in Requests /\ At(g, "idle")
    /\ phase \in {"serving", "timers", "server"}
    /\ \E there \in {"check", "mail"} : Goto(g, there)
    /\ UNCHANGED <<phase, expired, crashed, timersClosed, pool, notifier, logger>>

TimerFires(g) ==
    /\ g \in Timers /\ At(g, "armed")
    /\ Goto(g, "fired")
    /\ UNCHANGED <<phase, expired, crashed, timersClosed, pool, notifier, logger>>

(* The callback reads closed under the lock and dispatches after it. *)
TimerReads(g) ==
    /\ At(g, "fired")
    /\ Goto(g, IF timersClosed THEN "idle" ELSE "check")
    /\ UNCHANGED <<phase, expired, crashed, timersClosed, pool, notifier, logger>>

-----------------------------------------------------------------------------
(* Pool *)

(* A tick hands over row after row. *)
AfterSubmit(g) == IF g \in Entries THEN {"idle", "check"} ELSE {"idle"}

(* Submit's look at the flag; the lock is released before the send. *)
SubmitChecks(g) ==
    /\ At(g, "check")
    /\ IF pool.closed THEN \E there \in AfterSubmit(g) : LogAndGoto(g, there)
       ELSE Goto(g, "send")
    /\ UNCHANGED <<phase, expired, crashed, timersClosed, pool, notifier, logger>>

SubmitSends(g) ==
    /\ At(g, "send") /\ pool.open
    /\ \E there \in AfterSubmit(g) :
         IF pool.tasks < QueueSize
         THEN pool' = [pool EXCEPT !.tasks = @ + 1] /\ Goto(g, there)
         ELSE LogAndGoto(g, there) /\ UNCHANGED pool
    /\ UNCHANGED <<phase, expired, crashed, timersClosed, notifier, logger>>

(* cron.Recover does not write to this log; the web server's recovery does. *)
Recovered(g) == IF g \in Entries THEN Goto(g, "idle") ELSE LogAndGoto(g, "idle")

SubmitPanics(g) ==
    /\ At(g, "send") /\ ~pool.open
    /\ crashed' = (g \in Timers)
    /\ IF g \in Timers THEN Goto(g, "gone") ELSE Recovered(g)
    /\ UNCHANGED <<phase, expired, timersClosed, pool, notifier, logger>>

TakeTask(g) ==
    /\ g \in Workers /\ At(g, "idle")
    /\ pool.tasks > 0
    /\ pool' = [pool EXCEPT !.tasks = @ - 1]
    /\ Goto(g, "run")
    /\ UNCHANGED <<phase, expired, crashed, timersClosed, notifier, logger>>

(* Mutated form: a worker stops when the pool is closed. *)
WorkerLeaves_Early(g) ==
    /\ g \in Workers /\ At(g, "idle")
    /\ pool.closed
    /\ Goto(g, "gone")
    /\ UNCHANGED <<phase, expired, crashed, timersClosed, pool, notifier, logger>>

(* range p.queue ends when the channel is closed and empty. *)
WorkerLeaves(g) ==
    /\ g \in Workers /\ At(g, "idle")
    /\ ~pool.open /\ pool.tasks = 0
    /\ Goto(g, "gone")
    /\ UNCHANGED <<phase, expired, crashed, timersClosed, pool, notifier, logger>>

(* The target has answered: Runner.finish goes on to the mail, the chain or *)
(* neither, with a line in the log when one of its statements failed.      *)
RunEnds(g) ==
    /\ At(g, "run")
    /\ \E there \in {"mail", "chain", "idle"} :
          Goto(g, there) \/ LogAndGoto(g, there)
    /\ UNCHANGED <<phase, expired, crashed, timersClosed, pool, notifier, logger>>

Arm(g) ==
    \E t \in Timers : /\ pc[t] = "idle"
                      /\ pc' = [pc EXCEPT ![t] = "armed", ![g] = "idle"]
                      /\ UNCHANGED after

(* chainTimers.schedule, unless the step is left to a dispatcher. *)
Schedule(g) ==
    /\ At(g, "chain")
    /\ (~timersClosed /\ Arm(g)) \/ Goto(g, "idle")
    /\ UNCHANGED <<phase, expired, crashed, timersClosed, pool, notifier, logger>>

-----------------------------------------------------------------------------
(* Notifier *)

(* A finished run goes on to its chain, except after a timeout. *)
AfterMail(g) == IF g \in Workers THEN {"chain", "idle"} ELSE {"idle"}

(* Notifier.enqueue; a full channel drops the message and logs that. *)
MailSends(g) ==
    /\ At(g, "mail") /\ notifier.open
    /\ \E there \in AfterMail(g) :
         IF notifier.queued < NotifyQueueSize
         THEN notifier' = [notifier EXCEPT !.queued = @ + 1] /\ Goto(g, there)
         ELSE LogAndGoto(g, there) /\ UNCHANGED notifier
    /\ UNCHANGED <<phase, expired, crashed, timersClosed, pool, logger>>

(* Recovered, in a task by the pool; the task's chain is lost. *)
MailPanics(g) ==
    /\ At(g, "mail") /\ ~notifier.open
    /\ Recovered(g)
    /\ UNCHANGED <<phase, expired, crashed, timersClosed, pool, notifier, logger>>

MailerTakes ==
    /\ Alive /\ notifier.sender = "idle" /\ notifier.queued > 0
    /\ notifier' = [notifier EXCEPT !.queued = @ - 1, !.sender = "sending"]
    /\ UNCHANGED <<phase, expired, crashed, pc, after, timersClosed, pool, logger>>

MailerSends ==
    /\ Alive /\ notifier.sender = "sending"
    /\ notifier' = [notifier EXCEPT !.sender = "idle"]
    /\ UNCHANGED <<phase, expired, crashed, pc, after, timersClosed, pool, logger>>

MailerLeaves ==
    /\ Alive /\ notifier.sender = "idle"
    /\ ~notifier.open /\ notifier.queued = 0
    /\ notifier' = [notifier EXCEPT !.sender = "gone"]
    /\ UNCHANGED <<phase, expired, crashed, pc, after, timersClosed, pool, logger>>

-----------------------------------------------------------------------------
(* Logger *)

(* The read lock, which a waiting writer holds up. *)
LogLocks(g) ==
    /\ At(g, "log") /\ phase # "logger"
    /\ IF logger.open THEN Goto(g, "logSend") ELSE Logged(g)
    /\ UNCHANGED <<phase, expired, crashed, timersClosed, pool, notifier, logger>>

LogSends(g) ==
    /\ At(g, "logSend")
    /\ logger' = IF logger.queued < LogQueueSize
                 THEN [logger EXCEPT !.queued = @ + 1] ELSE logger
    /\ Logged(g)
    /\ UNCHANGED <<phase, expired, crashed, timersClosed, pool, notifier>>

DrainerWrites ==
    /\ Alive /\ phase # "logger"
    /\ logger.drainer = "idle" /\ logger.queued > 0
    /\ logger' = [logger EXCEPT !.queued = @ - 1]
    /\ UNCHANGED <<phase, expired, crashed, pc, after, timersClosed, pool, notifier>>

DrainerLeaves ==
    /\ Alive /\ logger.drainer = "idle"
    /\ ~logger.open /\ logger.queued = 0
    /\ logger' = [logger EXCEPT !.drainer = "gone"]
    /\ UNCHANGED <<phase, expired, crashed, pc, after, timersClosed, pool, notifier>>

-----------------------------------------------------------------------------
(* app.shutdown *)

Step(from, to) == ~crashed /\ phase = from /\ phase' = to

StopScheduler ==
    /\ Step("serving", "timers")
    /\ UNCHANGED <<expired, crashed, pc, after, timersClosed, pool, notifier, logger>>

(* Runner.Close: the timers that have not fired are stopped. *)
CloseTimers ==
    /\ Step("timers", "server")
    /\ timersClosed' = TRUE
    /\ pc' = [g \in Callers |-> IF pc[g] = "armed" THEN "idle" ELSE pc[g]]
    /\ UNCHANGED <<expired, crashed, after, pool, notifier, logger>>

CloseServer ==
    /\ Step("server", "serverWait")
    /\ UNCHANGED <<expired, crashed, pc, after, timersClosed, pool, notifier, logger>>

(* Mutated form: the server is not waited for. *)
ServerClosed_NoWait ==
    /\ Step("serverWait", "poolFlag")
    /\ UNCHANGED <<expired, crashed, pc, after, timersClosed, pool, notifier, logger>>

ServerClosed ==
    /\ Step("serverWait", "poolFlag")
    /\ expired \/ \A g \in Requests : pc[g] = "idle"
    /\ UNCHANGED <<expired, crashed, pc, after, timersClosed, pool, notifier, logger>>

RefuseTasks ==
    /\ Step("poolFlag", "poolClose")
    /\ pool' = [pool EXCEPT !.closed = TRUE]
    /\ UNCHANGED <<expired, crashed, pc, after, timersClosed, notifier, logger>>

ClosePool ==
    /\ Step("poolClose", "drain")
    /\ pool' = [pool EXCEPT !.open = FALSE]
    /\ UNCHANGED <<expired, crashed, pc, after, timersClosed, notifier, logger>>

Drained == \A g \in Workers : pc[g] = "gone"

(* Mutated form: the wait for the workers is not bounded. *)
EndDrain_Unbounded ==
    /\ Step("drain", "notifier")
    /\ Drained
    /\ UNCHANGED <<expired, crashed, pc, after, timersClosed, pool, notifier, logger>>

EndDrain ==
    /\ Step("drain", "notifier")
    /\ expired \/ Drained
    /\ UNCHANGED <<expired, crashed, pc, after, timersClosed, pool, notifier, logger>>

CloseNotifier ==
    /\ Step("notifier", "notifierWait")
    /\ notifier' = [notifier EXCEPT !.open = FALSE]
    /\ UNCHANGED <<expired, crashed, pc, after, timersClosed, pool, logger>>

NotifierClosed ==
    /\ Step("notifierWait", "logger")
    /\ expired \/ notifier.sender = "gone"
    /\ UNCHANGED <<expired, crashed, pc, after, timersClosed, pool, notifier, logger>>

(* Mutated form: the channel is closed without the lock. *)
CloseLogger_NoLock ==
    /\ Step("logger", "loggerWait")
    /\ logger' = [logger EXCEPT !.open = FALSE]
    /\ UNCHANGED <<expired, crashed, pc, after, timersClosed, pool, notifier>>

(* The write lock: no reader holds it. *)
CloseLogger ==
    /\ Step("logger", "loggerWait")
    /\ \A g \in Callers : pc[g] # "logSend"
    /\ logger' = [logger EXCEPT !.open = FALSE]
    /\ UNCHANGED <<expired, crashed, pc, after, timersClosed, pool, notifier>>

Exit ==
    /\ Step("loggerWait", "exited")
    /\ expired \/ logger.drainer = "gone"
    /\ UNCHANGED <<expired, crashed, pc, after, timersClosed, pool, notifier, logger>>

(* The context of the waits is made after the timers are closed. *)
Expire ==
    /\ Alive /\ phase \notin {"serving", "timers"} /\ ~expired
    /\ expired' = TRUE
    /\ UNCHANGED <<phase, crashed, pc, after, timersClosed, pool, notifier, logger>>

ShutdownStep ==
    \/ CloseTimers \/ CloseServer \/ ServerClosed \/ RefuseTasks \/ ClosePool
    \/ EndDrain \/ CloseNotifier \/ NotifierClosed \/ CloseLogger \/ Exit

CallerStep(g) ==
    \/ TimerFires(g) \/ TimerReads(g)
    \/ SubmitChecks(g) \/ SubmitSends(g) \/ SubmitPanics(g)
    \/ TakeTask(g) \/ WorkerLeaves(g) \/ RunEnds(g) \/ Schedule(g)
    \/ MailSends(g) \/ MailPanics(g) \/ LogLocks(g) \/ LogSends(g)

Next ==
    \/ StopScheduler \/ ShutdownStep \/ Expire
    \/ MailerTakes \/ MailerSends \/ MailerLeaves
    \/ DrainerWrites \/ DrainerLeaves
    \/ \E g \in Callers : EntryStarts(g) \/ RequestArrives(g) \/ CallerStep(g)

Spec == Init /\ [][Next]_vars

(* The shutting down goroutine goes on where it can, its 90 seconds pass,  *)
(* and a send to the log, which never blocks, ends.  Nothing is owed of a  *)
(* target, a mail server, a request or a tick.                             *)
Fairness ==
    /\ WF_vars(ShutdownStep) /\ WF_vars(Expire)
    /\ \A g \in Callers : WF_vars(LogSends(g))

FairSpec == Spec /\ Fairness

-----------------------------------------------------------------------------
(* Properties *)

(* "No send can be in flight when it happens and none can start            *)
(* afterwards": whoever logs during a shutdown, the log's channel is open  *)
(* at the send.                                                            *)
LogSendsOnOpenChannel ==
    \A g \in Callers : Alive /\ pc[g] = "logSend" => logger.open

(* "Each step depends on the one before": while the 90 seconds last, no    *)
(* request finds the pool closed and no task finds the notifier closed, so *)
(* nothing started by them is refused or cut short.                        *)
EachStepAfterItsUsers ==
    ~expired =>
        /\ pool.closed => \A g \in Requests : pc[g] \notin {"check", "send"}
        /\ ~notifier.open =>
              \A g \in Requests \cup Workers : "mail" \notin {pc[g], after[g]}

(* A shutdown that ends in time abandons nothing it accepted: not a task,  *)
(* not a mail, not a line of the log.                                      *)
CleanExitKeepsAll ==
    phase = "exited" /\ ~expired =>
        /\ pool.tasks = 0 /\ Drained
        /\ notifier.queued = 0 /\ notifier.sender = "gone"
        /\ logger.queued = 0

(* A shutdown ends, however long targets, mail servers, requests and ticks *)
(* take; a crash is an end too.                                            *)
ShutdownEnds == (phase # "serving") ~> (phase = "exited" \/ crashed)

(* "It returns false when the pool is closed or the queue is full"         *)
(* (pool.go): Submit returns, it does not panic.                           *)
SubmitReturns == \A g \in Callers : Alive /\ pc[g] = "send" => pool.open
=============================================================================
