------------------------------ MODULE JobRuns ------------------------------
(***************************************************************************)
(* The two database tables the execution path shares: job_runs, which is   *)
(* the history and the queue at once, and the columns of jobs that the     *)
(* path reads and writes.  Every operator whose name is a method of        *)
(* ExecRepo or RunRepo is that method's SQL statement.  A statement is     *)
(* atomic; what happens between two of them is the business of the         *)
(* modules that extend this one.                                           *)
(***************************************************************************)
EXTENDS Integers, FiniteSets

CONSTANTS
    Jobs,        \* rows of table jobs
    NoJob,       \* no job: the job of a row that does not exist
    RunIds,      \* ids the identity column hands out, in increasing order
    Minutes,     \* planned minutes
    SingleRun,   \* jobs with single_run set
    Priority,    \* jobs.priority, the smaller the earlier
    Links,       \* active rows of job_links
    Suspendable  \* jobs (or jobs of a project) an operator may (de)activate

NoRun    == 0        \* parent_run_id IS NULL
NoMinute == 0        \* planned_minute IS NULL

LinkConditions == {"success", "failure", "always"}

(* delay_sec against ChainDirectMaxSec (120 seconds) *)
LinkDelays == {"direct", "long"}

ASSUME JobRunsAssumption ==
    /\ RunIds \subseteq Nat \ {NoRun}
    /\ IsFiniteSet(RunIds)            \* a bigint column
    /\ Minutes \subseteq Nat \ {NoMinute}
    /\ NoJob \notin Jobs
    /\ SingleRun \subseteq Jobs
    /\ Suspendable \subseteq Jobs
    /\ Priority \in [Jobs -> Nat]
    /\ Links \subseteq [from : Jobs, to : Jobs,
                        cond : LinkConditions, delay : LinkDelays]
    /\ \A l \in Links : l.from # l.to
    /\ IsFiniteSet(Links)             \* a table

VARIABLES
    runs,        \* the rows of job_runs, NoRow where none was inserted yet
    active,      \* jobs.active AND projects.active
    lastStatus,  \* jobs.last_status, the summary the list screen reads
    claims       \* history: how many ClaimRun calls took the row

tableVars == <<runs, active, lastStatus, claims>>

Results  == {"success", "failed", "timeout"}
Statuses == Results \cup {"pending", "running", "skipped"}
Terminal == Results \cup {"skipped"}

(* ripe: run_after is NULL or has arrived.                                 *)
(* old:  the row is running and started_at lies more than its job's        *)
(*       max_duration_sec in the past.                                     *)
Row == [status : Statuses \cup {"absent"}, job : Jobs \cup {NoJob},
        minute : Minutes \cup {NoMinute}, parent : RunIds \cup {NoRun},
        ripe : BOOLEAN, old : BOOLEAN]

NewRow(j, s, m, p, ready) ==
    [status |-> s, job |-> j, minute |-> m, parent |-> p,
     ripe |-> ready, old |-> FALSE]

NoRow == NewRow(NoJob, "absent", NoMinute, NoRun, FALSE)

Exists(r)       == runs[r].status # "absent"
HasStatus(r, s) == runs[r].status = s
Rows           == {r \in RunIds : Exists(r)}
Running        == {r \in RunIds : HasStatus(r, "running")}

(* The id the next INSERT gets. *)
Fresh(r) == ~Exists(r) /\ \A q \in RunIds : q < r => Exists(q)

Insert(r, row) == Fresh(r) /\ runs' = [runs EXCEPT ![r] = row]

-----------------------------------------------------------------------------
(* Inserts *)

(* Mutated form: the unique index on (job_id, planned_minute) is missing. *)
QueueRun_NoIndex(j, m) ==
    /\ \E r \in RunIds : Insert(r, NewRow(j, "pending", m, NoRun, TRUE))
    /\ UNCHANGED <<active, lastStatus, claims>>

(* INSERT ... ON CONFLICT (job_id, planned_minute) DO NOTHING; a conflict  *)
(* changes nothing, so only the inserting case is a step.                  *)
QueueRun(j, m) ==
    /\ ~\E r \in Rows : runs[r].job = j /\ runs[r].minute = m
    /\ \E r \in RunIds : Insert(r, NewRow(j, "pending", m, NoRun, TRUE))
    /\ UNCHANGED <<active, lastStatus, claims>>

(* A manual or API run: no planned minute, ready at once. *)
Enqueue(r, j) ==
    /\ Insert(r, NewRow(j, "pending", NoMinute, NoRun, TRUE))
    /\ UNCHANGED <<active, lastStatus, claims>>

CreateChainRun(r, j, p) ==
    /\ Insert(r, NewRow(j, "pending", NoMinute, p, FALSE))
    /\ UNCHANGED <<active, lastStatus, claims>>

CreateChainSkipped(j, p) ==
    /\ \E r \in RunIds : Insert(r, NewRow(j, "skipped", NoMinute, p, TRUE))
    /\ UNCHANGED <<active, lastStatus, claims>>

-----------------------------------------------------------------------------
(* Updates *)

(* Mutated form: the statement lost its status guard. *)
SkipRun_Unguarded(r) ==
    /\ runs' = [runs EXCEPT ![r].status = "skipped"]
    /\ UNCHANGED <<active, lastStatus, claims>>

(* UPDATE ... WHERE id = r AND status = 'pending' *)
SkipRun(r) ==
    /\ runs' = IF HasStatus(r, "pending")
               THEN [runs EXCEPT ![r].status = "skipped"] ELSE runs
    /\ UNCHANGED <<active, lastStatus, claims>>

(* Mutated form: the claim's WHERE clause lost its status. *)
ClaimRun_Unguarded(r) ==
    /\ runs' = [runs EXCEPT ![r].status = "running"]
    /\ claims' = [claims EXCEPT ![r] = @ + 1]
    /\ UNCHANGED <<active, lastStatus>>

(* The row was pending and is now this caller's. *)
ClaimRun(r) ==
    /\ HasStatus(r, "pending")
    /\ runs' = [runs EXCEPT ![r].status = "running"]
    /\ claims' = [claims EXCEPT ![r] = @ + 1]
    /\ UNCHANGED <<active, lastStatus>>

(* UPDATE ... WHERE id = r: no guard on the status. *)
FinishRun(r, result) ==
    /\ runs' = [runs EXCEPT ![r].status = result, ![r].old = FALSE]
    /\ UNCHANGED <<active, lastStatus, claims>>

WriteJobSummary(j, result) ==
    /\ lastStatus' = [lastStatus EXCEPT ![j] = result]
    /\ UNCHANGED <<runs, active, claims>>

Stuck == {r \in Running : runs[r].old}

(* One statement closes every run past its max_duration_sec. *)
CloseStuckRuns ==
    /\ Stuck # {}
    /\ runs' = [r \in RunIds |->
                  IF r \in Stuck
                  THEN [runs[r] EXCEPT !.status = "timeout", !.old = FALSE]
                  ELSE runs[r]]
    /\ UNCHANGED <<active, lastStatus, claims>>

-----------------------------------------------------------------------------
(* Queries *)

CountRunning == Cardinality(Running)

RunningJobIDs == {runs[r].job : r \in Running}

RunningForJob(j, exclude) ==
    {r \in Running : runs[r].job = j /\ r # exclude}

(* ORDER BY j.priority, r.id *)
Before(q, r) ==
    \/ Priority[runs[q].job] < Priority[runs[r].job]
    \/ Priority[runs[q].job] = Priority[runs[r].job] /\ q < r

(* Mutated form: rows with a run_after are left to the chain timers. *)
Deliverable_NoRunAfter ==
    {r \in RunIds : HasStatus(r, "pending") /\ runs[r].parent = NoRun}

Deliverable == {r \in RunIds : HasStatus(r, "pending") /\ runs[r].ripe}

(* The first `limit` deliverable rows.  Nothing filters on jobs.active. *)
ListPending(limit) ==
    {r \in Deliverable :
        Cardinality({q \in Deliverable : Before(q, r)}) < limit}

Outcome(result) == IF result = "success" THEN "success" ELSE "failure"

FiredLinks(j, outcome) ==
    {l \in Links : l.from = j /\ l.cond \in {outcome, "always"}}

(* Each with the active switch of its target as the query read it. *)
ListChainTargets(j, outcome) ==
    {[link |-> l, active |-> l.to \in active] : l \in FiredLinks(j, outcome)}

(* The walk up parent_run_id; a parent is always an earlier row. *)
ChainStepCount[r \in RunIds] ==
    IF Exists(r) /\ runs[r].parent # NoRun
    THEN ChainStepCount[runs[r].parent] + 1 ELSE 0

-----------------------------------------------------------------------------
(* What the passing of time and an operator do to the tables. *)

(* A chain step's run_after arrives on the database clock. *)
RunAfterArrives(r) ==
    /\ HasStatus(r, "pending") /\ ~runs[r].ripe
    /\ runs' = [runs EXCEPT ![r].ripe = TRUE]
    /\ UNCHANGED <<active, lastStatus, claims>>

(* A running row's age passes its job's max_duration_sec. *)
Overstay(r) ==
    /\ HasStatus(r, "running") /\ ~runs[r].old
    /\ runs' = [runs EXCEPT ![r].old = TRUE]
    /\ UNCHANGED <<active, lastStatus, claims>>

(* The job's or its project's active switch. *)
SetActive(j) ==
    /\ active' = IF j \in active THEN active \ {j} ELSE active \cup {j}
    /\ UNCHANGED <<runs, lastStatus, claims>>

TableInit ==
    /\ runs = [r \in RunIds |-> NoRow]
    /\ active = Jobs
    /\ lastStatus = [j \in Jobs |-> "none"]
    /\ claims = [r \in RunIds |-> 0]

TableTypeOK ==
    /\ runs \in [RunIds -> Row]
    /\ \A r \in RunIds : Exists(r) => runs[r].job \in Jobs
    /\ active \subseteq Jobs
    /\ lastStatus \in [Jobs -> Results \cup {"none"}]
    /\ claims \in [RunIds -> Nat]
=============================================================================
