-------------------------------- MODULE Calls --------------------------------
(***************************************************************************)
(* What a run does to its target and what is told of it:                   *)
(* internal/service/runner.go (execute, attempt, sendNotification),        *)
(* target.go, notifier.go, notification_service.go and pkg/mail.           *)
(*                                                                         *)
(* In Execution the HTTP call is one step with any result.  Here it is the *)
(* attempts of one single_run job, each a request that may or may not      *)
(* arrive, at a target that goes on working whether or not anybody still   *)
(* waits; beside it the watchdog that closes rows by the clock, and an     *)
(* administrator who edits the list of recipients.  Time counts in         *)
(* seconds: an attempt does not outlive its deadline, nor a pause its      *)
(* second, but a statement may take any time.  A worker's context is never *)
(* cancelled by a shutdown, and the pool's own limit on a task is beyond   *)
(* what the attempts of any job may take, so neither ends a run here.      *)
(***************************************************************************)
EXTENDS Integers, Sequences, FiniteSets, FiniteSetsExt

CONSTANTS
    Runs,          \* runs of the job
    Codes,         \* statuses the target may answer with
    SuccessMin, SuccessMax,
    Scenarios,     \* [job, list, server, due, edits, faults, until]: a job and its list
                   \* as stored, the mail server, when each run is queued, how many
                   \* edits and faults may come, and the last second
    Lists,         \* what the form of the recipient list may hold
    QueueSize,     \* notifyQueueSize
    DefaultFloor,  \* least default of max_duration_sec, 300 in the code
    MaxTimeout,    \* domain.MaxTimeoutSec
    DialTimeout    \* of the client's dialer and of its TLS handshake

VARIABLES
    job,        \* the job as it is stored
    run,        \* per run: the row and the worker that has it
    atWork,     \* requests the target is working on
    answers,    \* the last answer that reached each run
    list,       \* the recipient list of the job
    server,     \* the mail server
    box,        \* the notifier's queue
    sender,     \* its goroutine
    told,       \* history: messages the server took
    clock,
    until, edits, faults  \* bounds: the last second, edits and faults to come

runVars == <<job, run, atWork, answers, clock, until>>
mailVars == <<list, server, box, sender, told, edits>>
vars == <<runVars, mailVars, faults>>

(* Queued since a moment, which is yet to come for a later run.            *)
Queued(due) == [pc |-> "queued", row |-> "pending", rowAttempt |-> 0, started |-> 0,
                attempt |-> 0, since |-> due, status |-> "", beside |-> {}]
Idle == [pc |-> "idle"]

(* Validate asks for one timeout, not for one per attempt. *)
Valid(j) == j.maxDuration = 0 \/ j.maxDuration >= j.timeout

Init ==
    /\ \E s \in Scenarios : /\ Valid(s.job)
                           /\ job = s.job /\ list = s.list /\ server = s.server
                           /\ edits = s.edits /\ faults = s.faults /\ until = s.until
                           /\ run = [r \in Runs |-> Queued(s.due[r])]
    /\ atWork = {} /\ answers = {}
    /\ box = <<>> /\ sender = Idle /\ told = {}
    /\ clock = 0

At(r, pc) == run[r].pc = pc
Set(r, rec) == run' = [run EXCEPT ![r] = rec]
Fault == faults > 0 /\ faults' = faults - 1

---------------------------------------------------------------------------
(* The job's settings *)

(* RunTarget.Timeout: per attempt. *)
Timeout == Min({job.timeout, MaxTimeout})

(* Left empty it is ten timeouts, and no less than the floor. *)
MaxDuration == IF job.maxDuration = 0 THEN Max({10 * job.timeout, DefaultFloor})
               ELSE job.maxDuration

(* The time the attempts may take. *)
AttemptsTake == (job.retries + 1) * Timeout + job.retries

(* RunTarget.SuccessfulStatus *)
SuccessfulStatus(code) == code \in SuccessMin..SuccessMax

(* TargetPolicy.check: an address as a whole. *)
check(a) == a.scheme /\ a.host /\ ~a.credentials

(* TargetPolicy.Resolve: under a base address the target is a path, and    *)
(* without one a full address.                                             *)
Resolve == IF job.base.given THEN job.target.form = "path" /\ check(job.base)
           ELSE job.target.form = "full" /\ check(job.target)

---------------------------------------------------------------------------
(* Attempts *)

RunningBeside(r) == {o \in Runs \ {r} : run[o].row = "running"}

(* Run reads the row and counts the other running rows of the job: with    *)
(* one of them the run is skipped.  What cannot be read or skipped stays   *)
(* queued.  beside keeps which runs had passed this and not yet claimed.   *)
CheckSingleRun(r) ==
    /\ At(r, "queued") /\ clock >= run[r].since
    /\ Set(r, IF RunningBeside(r) # {} THEN [run[r] EXCEPT !.pc = "end", !.row = "skipped"]
              ELSE [run[r] EXCEPT !.pc = "claim", !.since = 0,
                                  !.beside = {o \in Runs \ {r} : At(o, "claim")}])
    /\ UNCHANGED <<job, atWork, answers, clock, until, mailVars, faults>>

(* The time is read on the way to the statement. *)
ClaimRun(r, pc) == Set(r, [run[r] EXCEPT !.pc = pc, !.row = "running", !.started = clock])

(* A statement of its own, some time after the count. *)
Claim(r) ==
    /\ At(r, "claim")
    /\ ClaimRun(r, "resolve")
    /\ UNCHANGED <<job, atWork, answers, clock, until, mailVars, faults>>

(* An error, and the worker leaves: the row is delivered again, unless the *)
(* statement was carried out.                                              *)
ClaimFails(r) ==
    /\ At(r, "claim") /\ Fault
    /\ Set(r, [run[r] EXCEPT !.pc = "queued"]) \/ ClaimRun(r, "end")
    /\ UNCHANGED <<job, atWork, answers, clock, until, mailVars>>

execute(r) ==
    /\ At(r, "resolve")
    /\ Set(r, IF Resolve THEN [run[r] EXCEPT !.pc = "send", !.attempt = 1]
              ELSE [run[r] EXCEPT !.pc = "finish", !.status = "failed"])
    /\ UNCHANGED <<job, atWork, answers, clock, until, mailVars, faults>>

(* Any result but a success is tried again. *)
Again_AfterTimeout(r, status) == status # "success" /\ run[r].attempt < job.retries + 1

(* A timeout is not retried: the target may well still be working. *)
Again(r, status) == status = "failed" /\ run[r].attempt < job.retries + 1

(* What becomes of the run after an attempt. *)
After(r, status) ==
    Set(r, IF Again(r, status) THEN [run[r] EXCEPT !.pc = "pause", !.since = clock]
           ELSE [run[r] EXCEPT !.pc = "finish", !.since = 0, !.status = status])

(* attempt: the request is built and handed to the client. *)
attempt(r) ==
    /\ At(r, "send")
    /\ Set(r, [run[r] EXCEPT !.pc = "waiting", !.since = clock])
    /\ UNCHANGED <<job, atWork, answers, clock, until, mailVars, faults>>

Arrived(r) == \E c \in atWork \cup answers : c.run = r /\ c.attempt = run[r].attempt

(* The request reaches the target, once. *)
Arrive(r) ==
    /\ At(r, "waiting") /\ ~Arrived(r)
    /\ atWork' = atWork \cup {[run |-> r, attempt |-> run[r].attempt, broken |-> FALSE]}
    /\ UNCHANGED <<job, run, answers, clock, until, mailVars, faults>>

(* The target is done; its answer arrives if somebody waits for it. *)
TargetAnswers(c) ==
    /\ c \in atWork /\ atWork' = atWork \ {c}
    /\ IF At(c.run, "waiting") /\ run[c.run].attempt = c.attempt
       THEN \E code \in Codes :
              answers' = {a \in answers : a.run # c.run}
                            \cup {[run |-> c.run, attempt |-> c.attempt, code |-> code]}
       ELSE UNCHANGED answers
    /\ UNCHANGED <<job, run, clock, until, mailVars, faults>>

(* A redirect is not followed: its status is judged like any other.  An    *)
(* answer is there with its status: a body that stops short of its end is  *)
(* stored as far as it came, and changes nothing of the judgement.         *)
Receive(r) ==
    /\ At(r, "waiting")
    /\ \E a \in answers :
        /\ a.run = r /\ a.attempt = run[r].attempt
        /\ After(r, IF SuccessfulStatus(a.code) THEN "success" ELSE "failed")
    /\ UNCHANGED <<job, atWork, answers, clock, until, mailVars, faults>>

(* isTimeout: the deadline of the attempt, or of the dial alone. *)
Deadline(r) ==
    /\ At(r, "waiting")
    /\ \/ clock - run[r].since >= Timeout
       \/ clock - run[r].since >= DialTimeout /\ ~Arrived(r)
    /\ After(r, "timeout")
    /\ UNCHANGED <<job, atWork, answers, clock, until, mailVars, faults>>

Broken(r) == {IF c.run = r /\ c.attempt = run[r].attempt THEN [c EXCEPT !.broken = TRUE] ELSE c :
                c \in atWork}

(* Nothing listens there, or the connection breaks: a failure. *)
Break(r) ==
    /\ At(r, "waiting") /\ Fault
    /\ atWork' = Broken(r)
    /\ After(r, "failed")
    /\ UNCHANGED <<job, answers, clock, until, mailVars>>

(* The second between attempts. *)
Pause(r) ==
    /\ At(r, "pause")
    /\ clock - run[r].since >= 1
    /\ Set(r, [run[r] EXCEPT !.pc = "send", !.attempt = @ + 1])
    /\ UNCHANGED <<job, atWork, answers, clock, until, mailVars, faults>>

(* Run's recover: a panic is a failure without an attempt. *)
Panic(r) ==
    /\ run[r].pc \in {"resolve", "send", "waiting"} /\ Fault
    /\ Set(r, [run[r] EXCEPT !.pc = "finish", !.status = "failed", !.attempt = 0])
    /\ UNCHANGED <<job, atWork, answers, clock, until, mailVars>>

---------------------------------------------------------------------------
(* The result *)

(* FinishRun overwrites whatever the watchdog has written. *)
FinishRun(r, pc) ==
    Set(r, [run[r] EXCEPT !.row = run[r].status, !.rowAttempt = run[r].attempt, !.pc = pc])

finish(r) ==
    /\ At(r, "finish")
    /\ FinishRun(r, "notify")
    /\ UNCHANGED <<job, atWork, answers, clock, until, mailVars, faults>>

(* The result could not be written and is told all the same. *)
FinishFails_Tells(r) ==
    /\ At(r, "finish") /\ Fault
    /\ Set(r, [run[r] EXCEPT !.pc = "notify"])
    /\ UNCHANGED <<job, atWork, answers, clock, until, mailVars>>

(* An error of FinishRun, which may have been carried out all the same,    *)
(* is the end of it.                                                       *)
FinishFails(r) ==
    /\ At(r, "finish") /\ Fault
    /\ Set(r, [run[r] EXCEPT !.pc = "end"]) \/ FinishRun(r, "end")
    /\ UNCHANGED <<job, atWork, answers, clock, until, mailVars>>

(* The watchdog: by the clock, whatever the worker is doing. *)
CloseStuckRuns ==
    LET stuck == {r \in Runs : run[r].row = "running" /\ clock - run[r].started > MaxDuration} IN
    /\ stuck # {}
    /\ run' = [r \in Runs |-> IF r \in stuck THEN [run[r] EXCEPT !.row = "timeout"] ELSE run[r]]
    /\ UNCHANGED <<job, atWork, answers, clock, until, mailVars, faults>>

---------------------------------------------------------------------------
(* Telling of it *)

(* TargetForJob: nothing for a list that is off or deleted. *)
TargetForJob == IF list.active /\ ~list.deleted THEN list.emails ELSE {}

Wanted(status) == IF status = "success" THEN list.onSuccess ELSE list.onFailure

(* Notifier.enqueue drops what finds the queue full. *)
enqueue(m) == box' = IF m.to # {} /\ Len(box) < QueueSize THEN Append(box, m) ELSE box

(* The list is read once, after the row was written. *)
sendNotification(r) ==
    /\ At(r, "notify")
    /\ IF TargetForJob # {} /\ Wanted(run[r].status)
       THEN enqueue([run |-> r, status |-> run[r].status, to |-> TargetForJob])
       ELSE UNCHANGED box
    /\ Set(r, [run[r] EXCEPT !.pc = "end"])
    /\ UNCHANGED <<job, atWork, answers, clock, until, list, server, sender, told, edits, faults>>

TargetUnreadable(r) ==
    /\ At(r, "notify") /\ Fault
    /\ Set(r, [run[r] EXCEPT !.pc = "end"])
    /\ UNCHANGED <<job, atWork, answers, clock, until, mailVars>>

(* NotificationService.validate: somebody to tell, and something. *)
validate(l) == l.emails # {} /\ (l.onSuccess \/ l.onFailure)

(* One transaction: the row unless it is deleted, the addresses in any case. *)
UpdateList(l) == list' = IF list.deleted THEN [list EXCEPT !.emails = l.emails] ELSE l

SoftDeleteList == list' = [list EXCEPT !.active = FALSE, !.deleted = TRUE]

SaveNotification(l) ==
    /\ edits > 0 /\ edits' = edits - 1
    /\ validate(l) /\ UpdateList(l)
    /\ UNCHANGED <<runVars, server, box, sender, told, faults>>

DeleteNotification ==
    /\ edits > 0 /\ edits' = edits - 1
    /\ SoftDeleteList
    /\ UNCHANGED <<runVars, server, box, sender, told, faults>>

(* Notifier.run takes the next message, the one before it delivered or not. *)
Take ==
    /\ sender.pc = "idle" /\ box # <<>>
    /\ sender' = [pc |-> "connect", message |-> Head(box)] /\ box' = Tail(box)
    /\ UNCHANGED <<runVars, list, server, told, edits, faults>>

(* Sender.connect: credentials are for an encrypted session only. *)
Secured == server.tls \/ server.startTLS \/ ~server.user

connect ==
    /\ sender.pc = "connect"
    /\ sender' = IF Secured THEN [sender EXCEPT !.pc = "envelope"] ELSE Idle
    /\ UNCHANGED <<runVars, list, server, box, told, edits, faults>>

(* Sender.Send: one recipient refused, and nobody gets the message; an     *)
(* error at its end leaves open whether the server took it.                *)
Send ==
    /\ sender.pc = "envelope"
    /\ \/ told' = told \cup {sender.message} /\ UNCHANGED faults
       \/ UNCHANGED told /\ Fault
    /\ sender' = Idle
    /\ UNCHANGED <<runVars, list, server, box, edits>>

---------------------------------------------------------------------------
(* No attempt outlives its deadline, and no pause its second. *)
Tick ==
    /\ clock < until /\ clock' = clock + 1
    /\ \A r \in Runs :
        /\ run[r].pc \notin {"resolve", "send"}
        /\ At(r, "waiting") => clock - run[r].since < Timeout
        /\ At(r, "pause") => clock - run[r].since < 1
    /\ UNCHANGED <<job, run, atWork, answers, until, mailVars, faults>>

Next ==
    \/ \E r \in Runs :
        \/ CheckSingleRun(r) \/ Claim(r) \/ ClaimFails(r) \/ execute(r)
        \/ attempt(r) \/ Arrive(r) \/ Receive(r) \/ Deadline(r)
        \/ Break(r) \/ Pause(r) \/ Panic(r)
        \/ finish(r) \/ FinishFails(r) \/ sendNotification(r) \/ TargetUnreadable(r)
    \/ \E c \in atWork : TargetAnswers(c)
    \/ CloseStuckRuns
    \/ \E l \in Lists : SaveNotification(l)
    \/ DeleteNotification \/ Take \/ connect \/ Send
    \/ Tick

Spec == Init /\ [][Next]_vars

---------------------------------------------------------------------------
(* Properties *)

Calling == {"resolve", "send", "waiting", "pause"}

(* r was past its count and had not claimed when s counted, or s when r.   *)
Raced(r, s) == r \in run[s].beside \/ s \in run[r].beside

(* "How a job that writes runs twice": a target works on two calls of one  *)
(* run only after the connection of the earlier one broke, and two runs of *)
(* a single_run job are at their attempts together only if its own         *)
(* max_duration_sec is less than its attempts may take, or if one counted  *)
(* the running rows between the other's count and its claim: the race that *)
(* the code leaves open, and the only way past the count.                  *)
NoDoubleWork ==
    /\ \A c, d \in atWork : c.run = d.run /\ c.attempt < d.attempt => c.broken
    /\ job.maxDuration \notin 1..(AttemptsTake - 1)
         => \A r, s \in Runs :
               run[r].pc \in Calling /\ run[s].pc \in Calling /\ r # s => Raced(r, s)

(* A success on the row is an accepted answer to the attempt it names, and *)
(* a message that went out says what the row of its run says.              *)
ReportsAreTrue ==
    /\ \A r \in Runs : run[r].row = "success" =>
         \E a \in answers : /\ a.run = r /\ a.attempt = run[r].rowAttempt
                             /\ SuccessfulStatus(a.code)
    /\ \A m \in told : run[m.run].row = m.status
=============================================================================
