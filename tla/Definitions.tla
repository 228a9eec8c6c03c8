---------------------------- MODULE Definitions ----------------------------
(***************************************************************************)
(* Projects, job definitions, schedules and chain links, and the requests  *)
(* that edit them: the screens and the operator API                        *)
(* (internal/handler/job_handler.go, project_handler.go, api_handler.go),  *)
(* the services behind them (internal/service/job_service.go,              *)
(* project_service.go) and the declarative sync API (sync_service.go).     *)
(*                                                                         *)
(* A request is a handler, which resolves the caller's scope, and then one *)
(* step per SQL statement of internal/repository/job_repo.go and           *)
(* project_repo.go; two reads that only decide whether to go on are one    *)
(* step.  No transaction spans a request, so requests interleave between   *)
(* statements, and any statement may be the last one a request gets done.  *)
(*                                                                         *)
(* A job keeps what the requests tell apart: its project, its code, two    *)
(* tri-state flags, its expressions and its headers.  A schedule is named  *)
(* by its expression and a link by its ends and condition.                 *)
(***************************************************************************)
EXTENDS Integers, Sequences, FiniteSets, FiniteSetsExt

CONSTANTS
    JobIds,         \* ids the jobs table hands out, 1..n
    Projects, Codes, Exprs, Headers,
    Omitted,        \* a field that the payload leaves out
    Clients,        \* goroutines serving requests
    Script,         \* the requests that may come, by number
    Scenarios,      \* sets of request numbers that come together
    Payloads,       \* declarations that sync requests post, by number
    InitialJobs,    \* rows that exist at the start
    NewProjects,    \* projects that do not exist at the start
    InitialKeys,    \* [prefix, secret] of each project's API key
    Prefixes,       \* beginnings of keys, by which they are looked up
    ChainMaxDepth,  \* domain.ChainMaxDepth, 5 in the code
    PageLimit,      \* rows of one page of JobRepo.List, 500 in the code
    MaxFaults       \* failed statements and abandoned requests, together

JobRow == [state: {"none", "live", "deleted"}, project: Projects, code: Codes,
           active: BOOLEAN, singleRun: BOOLEAN,
           schedules: SUBSET Exprs, headers: SUBSET Headers]

JobInput == [project: Projects, code: Codes, active: BOOLEAN, singleRun: BOOLEAN,
             schedules: {Omitted} \cup SUBSET Exprs,
             headers: {Omitted} \cup SUBSET Headers]

ASSUME DefinitionsAssumption ==
    /\ JobIds \subseteq Nat \ {0} /\ IsFiniteSet(JobIds)
    /\ Scenarios \subseteq SUBSET DOMAIN Script
    /\ \A j \in DOMAIN InitialJobs :
          /\ j \in JobIds /\ InitialJobs[j] \in JobRow
          /\ InitialJobs[j].state = "deleted" => ~InitialJobs[j].active
    /\ \A n \in DOMAIN Script :
          Script[n].kind \in {"create", "update"} => Script[n].in \in JobInput
    /\ {ChainMaxDepth, PageLimit, MaxFaults} \subseteq Nat

VARIABLES
    jobs,     \* the rows of jobs, with their job_schedules and job_headers
    links,    \* the rows of job_links: [from, to, condition]
    projects, \* the rows of projects
    req,      \* the request each client serves, and what it has read so far
    todo,     \* requests still to come
    faults,   \* failures so far
    raced,    \* history: a link was inserted after another one's loop check
    applied   \* history: the sync that went through alone, nothing since

tables == <<jobs, links, projects>>
vars == <<jobs, links, projects, req, todo, faults, raced, applied>>

AnyInput == [project |-> CHOOSE p \in Projects : TRUE,
             code |-> CHOOSE k \in Codes : TRUE,
             active |-> FALSE, singleRun |-> FALSE,
             schedules |-> {}, headers |-> Omitted]

NoJob == [state |-> "none", project |-> AnyInput.project, code |-> AnyInput.code,
          active |-> FALSE, singleRun |-> FALSE, schedules |-> {}, headers |-> {}]

Idle == [id |-> 0, pc |-> "idle", job |-> 0, to |-> 0, in |-> AnyInput, i |-> 0,
         links |-> <<>>, failed |-> {}, ids |-> <<>>, list |-> {},
         pruned |-> {}, saw |-> {}, reach |-> {}, alone |-> FALSE]

Init ==
    /\ jobs = [j \in JobIds |->
                 IF j \in DOMAIN InitialJobs THEN InitialJobs[j]
                 ELSE NoJob]
    /\ links = {}
    /\ projects = [p \in Projects |->
                     [state |-> IF p \in NewProjects THEN "none" ELSE "live",
                      active |-> p \notin NewProjects, key |-> InitialKeys[p]]]
    /\ req = [c \in Clients |-> Idle]
    /\ todo \in Scenarios
    /\ faults = 0
    /\ raced = FALSE
    /\ applied = 0

---------------------------------------------------------------------------
(* Statements *)

Live == {j \in JobIds : jobs[j].state = "live"}

(* JobRepo.GetByCode *)
WithCode(p, k) == {j \in Live : jobs[j].project = p /\ jobs[j].code = k}

GetByID(p) == projects[p].state = "live"

(* JobInput.toDomain: a new row takes its code from the input; one that is *)
(* there keeps its own.                                                    *)
toDomain(in, row) ==
    [row EXCEPT !.state = "live", !.project = in.project, !.active = in.active,
                !.singleRun = in.singleRun, !.code = IF row = NoJob THEN in.code ELSE @]

(* The unique index over project and code of live jobs refuses the rest. *)
InsertJob(j, in) ==
    /\ jobs[j].state = "none" /\ \A i \in JobIds : i < j => jobs[i].state # "none"
    /\ WithCode(in.project, in.code) = {}
    /\ jobs' = [jobs EXCEPT ![j] = toDomain(in, NoJob)]

UpdateConflicts(j, in) == j \in Live /\ WithCode(in.project, jobs[j].code) \ {j} # {}

UpdateJobRow(j, in) ==
    jobs' = IF j \in Live THEN [jobs EXCEPT ![j] = toDomain(in, @)] ELSE jobs

SetActiveRow_Unguarded(j, b) ==
    jobs' = [jobs EXCEPT ![j].active = b]

SetActiveRow(j, b) ==
    jobs' = IF j \in Live THEN [jobs EXCEPT ![j].active = b] ELSE jobs

SoftDeleteJob(j) ==
    jobs' = [jobs EXCEPT ![j].active = FALSE, ![j].state = "deleted"]

(* The jobs of the project go with it, in one transaction. *)
SoftDeleteProject(p) ==
    /\ jobs' = [j \in JobIds |->
                  IF j \in Live /\ jobs[j].project = p
                  THEN [jobs[j] EXCEPT !.active = FALSE, !.state = "deleted"]
                  ELSE jobs[j]]
    /\ projects' = [projects EXCEPT ![p].active = FALSE, ![p].state = "deleted"]

ReplaceSchedules(j, s) == jobs' = [jobs EXCEPT ![j].schedules = s]
ReplaceHeaders(j, h) == jobs' = [jobs EXCEPT ![j].headers = h]

(* An expression the job already has is refused by the unique index. *)
InsertSchedule(j, e) == jobs' = [jobs EXCEPT ![j].schedules = @ \cup {e}]
DeleteScheduleRow(j, e) == jobs' = [jobs EXCEPT ![j].schedules = @ \ {e}]
SchedulesOf(j) == jobs[j].schedules

(* One that exists is refused by the unique index, to the same effect. *)
InsertLink(i, j, condition) ==
    links' = links \cup {[from |-> i, to |-> j, condition |-> condition]}
DeleteLinkRow(i, j, condition) ==
    links' = links \ {[from |-> i, to |-> j, condition |-> condition]}

InsertProject(p, key) ==
    projects' = IF projects[p].state = "none"
                THEN [projects EXCEPT ![p] = [state |-> "live", active |-> TRUE, key |-> key]]
                ELSE projects
UpdateProjectRow(p, active) ==
    projects' = IF GetByID(p) THEN [projects EXCEPT ![p].active = active] ELSE projects
SetKeyRow(p, key) == projects' = [projects EXCEPT ![p].key = key]

(* Any one of the rows with the prefix: it is not unique. *)
GetByKeyPrefix(x) == {p \in Projects : GetByID(p) /\ projects[p].key.prefix = x}

(* JobFilter as conditions: the scope always, the project and the flag as asked. *)
jobFilter(scope, p, activeOnly) ==
    {j \in Live : jobs[j].project \in scope \cap {p} /\ (activeOnly => jobs[j].active)}

(* JobRepo.List: the pages that may be answered, of up to limit rows. *)
List(rows, limit) == kSubset(Min({limit, Cardinality(rows)}), rows)

ListLinks(j) == {l \in links : l.from = j /\ l.to \in Live}
ListTriggers(j) == {l \in links : l.to = j /\ l.from \in Live}

(* The walk stops one link short of the cap. *)
ReachesJob_Short(from, to) ==
    LET walk[d \in Nat] ==
          IF d = 0 THEN {from}
          ELSE walk[d - 1] \cup {l.to : l \in {m \in links : m.from \in walk[d - 1]}}
    IN  to \in walk[ChainMaxDepth - 1]

(* Deleted jobs keep their links and are walked through like the others. *)
ReachesJob(from, to) ==
    LET walk[d \in Nat] ==
          IF d = 0 THEN {from}
          ELSE walk[d - 1] \cup {l.to : l \in {m \in links : m.from \in walk[d - 1]}}
    IN  to \in walk[ChainMaxDepth]

---------------------------------------------------------------------------
(* Requests *)

R(c) == Script[req[c].id]
At(c, p) == req[c].pc = p
IsSync(c) == R(c).kind = "sync"
Goto(c, p) == req' = [req EXCEPT ![c].pc = p]

(* Two requests that post the same declaration with the same key. *)
SameSync(n, m) ==
    /\ Script[n].kind = "sync" /\ Script[m].kind = "sync"
    /\ Script[n].payload = Script[m].payload /\ Script[n].key = Script[m].key


(* A handler: guard.require refuses an empty scope, otherwise the service  *)
(* begins.  alone and applied are history: who else is being served.       *)
Enter(c, kind, pc) ==
    /\ At(c, "idle")
    /\ \E n \in todo :
        LET alone == \A d \in Clients \ {c} : At(d, "idle") IN
        /\ Script[n].kind = kind
        /\ todo' = todo \ {n}
        /\ applied' = IF applied # 0 /\ SameSync(applied, n) THEN applied ELSE 0
        /\ req' = [d \in Clients |->
                     IF d # c THEN [req[d] EXCEPT !.alone = FALSE]
                     ELSE IF kind # "sync" /\ Script[n].scope = {} THEN Idle
                     ELSE [Idle EXCEPT !.id = n, !.pc = pc, !.alone = alone]]
    /\ UNCHANGED <<tables, faults, raced>>

(* The form and the operator API, to the same services. *)
Save(c) == Enter(c, "create", "validate") \/ Enter(c, "update", "get")
CreateJob(c) == Enter(c, "create", "validate")
UpdateJob(c) == Enter(c, "update", "get")
DeleteJob(c) == Enter(c, "delete", "owned")
Toggle(c) == Enter(c, "setActive", "owned")
Delete(c) == Enter(c, "delete", "owned")
Clone(c) == Enter(c, "clone", "owned")
AddSchedule(c) == Enter(c, "addSchedule", "owned")
RemoveSchedule(c) == Enter(c, "removeSchedule", "owned")
AddLink(c) == Enter(c, "addLink", "target")
RemoveLink(c) == Enter(c, "removeLink", "owned")
Sync(c) == Enter(c, "sync", "auth")
SaveProject(c) == Enter(c, "saveProject", "project")
RotateKey(c) == Enter(c, "rotateKey", "project")
NewProject(c) == Enter(c, "newProject", "newProject")
DeleteProject(c) == Enter(c, "deleteProject", "listActive")

Respond(c) == req' = [req EXCEPT ![c] = Idle]
Same == UNCHANGED <<todo, faults, raced, applied>>
Reads == UNCHANGED tables /\ Same

(* An operator's scope comes from the roles, a key's is its own project. *)
Scope(c) == IF IsSync(c) THEN {req[c].in.project} ELSE R(c).scope

(* ProjectScope.Allows; a scope that was never resolved reaches nothing. *)
Allows(scope, p) == p \in scope

(* JobService.owned with the scope of the caller not looked at. *)
owned_AnyProject(j, scope) == j \in Live

(* A job outside the caller's scope is answered like one that is not there. *)
owned(j, scope) == j \in Live /\ Allows(scope, jobs[j].project)

(* Jobs in the caller's reach when a request looks at them, and those it   *)
(* makes (history).                                                        *)
Reach(c) == req[c].reach \cup {j \in Live : jobs[j].project \in Scope(c)}

---------------------------------------------------------------------------
(* Where a request goes after one job, one link, or a failure *)

Decls(c) == Payloads[R(c).payload].jobs
Decl(c) == Decls(c)[req[c].i]

(* The second pass of a sync: the next job with links that did not fail. *)
LinksFrom(c, r) ==
    LET next == {k \in r.i..Len(Decls(c)) :
                   Decls(c)[k].links # <<>> /\ k \notin r.failed}
    IN  IF next # {}
        THEN [r EXCEPT !.i = Min(next), !.job = r.ids[Min(next)], !.pc = "listLinks"]
        ELSE [r EXCEPT !.pc = IF Payloads[R(c).payload].prune
                              THEN "prune" ELSE "answer"]

(* The next link of this job, then the next job. *)
NextLink(c, r) ==
    IF r.links # <<>> THEN [r EXCEPT !.pc = "target"]
    ELSE LinksFrom(c, [r EXCEPT !.i = @ + 1])

(* One job failing does not stop the rest of a sync. *)
JobDone(c, r, ok) ==
    LET noted == [r EXCEPT !.failed = IF ok THEN @ ELSE @ \cup {r.i},
                           !.ids = Append(@, IF ok THEN r.job ELSE 0)]
    IN  CASE ~IsSync(c) -> Idle
          [] IsSync(c) /\ r.i < Len(Decls(c)) ->
               [noted EXCEPT !.i = @ + 1, !.pc = "lookup"]
          [] OTHER -> LinksFrom(c, [noted EXCEPT !.i = 1])

LinkDone(c, r) == IF IsSync(c) THEN NextLink(c, [r EXCEPT !.links = Tail(@)]) ELSE Idle

EndJob(c, ok) == req' = [req EXCEPT ![c] = JobDone(c, @, ok)]
EndLink(c) == req' = [req EXCEPT ![c] = LinkDone(c, @)]

---------------------------------------------------------------------------
(* Creating and updating a job *)

resolveBool_Default(explicit, has, stored, fallback) ==
    IF explicit # Omitted THEN explicit ELSE ~has /\ fallback

(* The value the payload states, else the stored one, else the default. *)
resolveBool(explicit, has, stored, fallback) ==
    IF explicit # Omitted THEN explicit ELSE IF has THEN stored ELSE fallback

toInput(d, project, has, row) ==
    [project |-> project, code |-> d.code,
     active |-> resolveBool(d.active, has, row.active, d.schedules \notin {Omitted, {}}),
     singleRun |-> resolveBool(d.singleRun, has, row.singleRun, TRUE),
     schedules |-> d.schedules, headers |-> d.headers]

(* Validation normalises the expressions into a new list, so one that was  *)
(* left out is an empty list from here on.                                 *)
applyDefaults(in) == [in EXCEPT !.schedules = IF @ = Omitted THEN {} ELSE @]

(* The first lookup of a declared job decides between insert and update.   *)
Lookup(c) ==
    LET p == req[c].in.project
        found == WithCode(p, Decl(c).code)
        j == IF found = {} THEN 0 ELSE Min(found)
        in == toInput(Decl(c), p, found # {}, IF found = {} THEN NoJob ELSE jobs[j])
    IN  /\ At(c, "lookup")
        /\ req' = [req EXCEPT ![c].job = j, ![c].in = in, ![c].reach = Reach(c),
                              ![c].pc = IF found = {} THEN "validate" ELSE "get"]
        /\ Reads

(* What the caller sent is well formed: the rules of Validate as one flag. *)
Valid(c) == IF IsSync(c) THEN Decl(c).valid ELSE R(c).valid

Input(c) == IF R(c).kind \in {"create", "update"} THEN R(c).in ELSE req[c].in

(* JobService.Create up to the insert: validation, then the scope. *)
ValidateNew(c) ==
    LET in == applyDefaults(Input(c)) IN
    /\ At(c, "validate")
    /\ IF Valid(c) /\ GetByID(in.project) /\ Allows(Scope(c), in.project)
       THEN req' = [req EXCEPT ![c].pc = "insert", ![c].reach = Reach(c),
                      ![c].in = [in EXCEPT !.headers = IF @ = Omitted THEN {} ELSE @]]
       ELSE EndJob(c, FALSE)
    /\ Reads

Insert(c) ==
    /\ At(c, "insert")
    /\ \/ \E j \in JobIds :
            /\ InsertJob(j, req[c].in)
            /\ req' = [req EXCEPT ![c].job = j, ![c].pc = "schedules",
                                  ![c].reach = @ \cup {j}]
       \/ /\ WithCode(req[c].in.project, req[c].in.code) # {}
          /\ EndJob(c, FALSE)
          /\ UNCHANGED jobs
    /\ UNCHANGED <<links, projects>> /\ Same

(* JobService.Update up to its write: both the project the job is in and   *)
(* the one it goes to must be in scope.                                    *)
GetForUpdate(c) ==
    LET j == IF IsSync(c) THEN req[c].job ELSE R(c).job
        in == applyDefaults(Input(c))
    IN  /\ At(c, "get")
        /\ IF /\ owned(j, Scope(c)) /\ Allows(Scope(c), in.project)
              /\ Valid(c) /\ GetByID(in.project)
           THEN req' = [req EXCEPT ![c].pc = "update", ![c].job = j, ![c].in = in,
                                   ![c].reach = Reach(c)]
           ELSE EndJob(c, FALSE)
        /\ Reads

Update(c) ==
    LET j == req[c].job
        in == req[c].in
    IN  /\ At(c, "update")
        /\ \/ /\ UpdateConflicts(j, in)
              /\ EndJob(c, FALSE)
              /\ UNCHANGED jobs
           \/ /\ ~UpdateConflicts(j, in)
              /\ UpdateJobRow(j, in)
              /\ Goto(c, "schedules")
        /\ UNCHANGED <<links, projects>> /\ Same

WriteSchedules(c) ==
    /\ At(c, "schedules")
    /\ IF req[c].in.schedules # Omitted
       THEN ReplaceSchedules(req[c].job, req[c].in.schedules) ELSE UNCHANGED jobs
    /\ IF req[c].in.headers # Omitted THEN Goto(c, "headers") ELSE EndJob(c, TRUE)
    /\ UNCHANGED <<links, projects>> /\ Same

WriteHeaders(c) ==
    /\ At(c, "headers")
    /\ ReplaceHeaders(req[c].job, req[c].in.headers)
    /\ EndJob(c, TRUE)
    /\ UNCHANGED <<links, projects>> /\ Same

---------------------------------------------------------------------------
(* Requests about one job: read it, then write *)

(* The form's other writes all start with owned; the kind names the write. *)
ReadJob(c) ==
    /\ At(c, "owned") /\ R(c).kind # "clone"
    /\ IF owned(R(c).job, Scope(c)) /\ Valid(c)
       THEN req' = [req EXCEPT ![c].pc = R(c).kind, ![c].job = R(c).job,
                               ![c].reach = Reach(c)]
       ELSE Respond(c)
    /\ Reads

(* A copy is created switched off, under the new code. *)
CloneJob(c) ==
    LET row == jobs[R(c).job] IN
    /\ At(c, "owned") /\ R(c).kind = "clone"
    /\ IF owned(R(c).job, Scope(c))
       THEN req' = [req EXCEPT ![c].pc = "validate", ![c].reach = Reach(c),
                      ![c].in = [project |-> row.project, code |-> R(c).code,
                                 active |-> FALSE, singleRun |-> row.singleRun,
                                 schedules |-> row.schedules, headers |-> row.headers]]
       ELSE Respond(c)
    /\ Reads

SetActive(c) ==
    /\ At(c, "setActive")
    /\ SetActiveRow(req[c].job, R(c).active)
    /\ Respond(c)
    /\ UNCHANGED <<links, projects>> /\ Same

SoftDelete(c) ==
    /\ At(c, "delete")
    /\ SoftDeleteJob(req[c].job)
    /\ Respond(c)
    /\ UNCHANGED <<links, projects>> /\ Same

CreateSchedule(c) ==
    /\ At(c, "addSchedule")
    /\ InsertSchedule(req[c].job, R(c).expr)
    /\ Respond(c)
    /\ UNCHANGED <<links, projects>> /\ Same

DeleteSchedule(c) ==
    /\ At(c, "removeSchedule")
    /\ DeleteScheduleRow(req[c].job, R(c).expr)
    /\ IF R(c).expr \in SchedulesOf(req[c].job) THEN Goto(c, "count") ELSE Respond(c)
    /\ UNCHANGED <<links, projects>> /\ Same

(* The last schedule is gone: the job is switched off unless a link starts it. *)
CountSchedules(c) ==
    /\ At(c, "count")
    /\ IF SchedulesOf(req[c].job) = {} THEN Goto(c, "triggers") ELSE Respond(c)
    /\ Reads

CountTriggers(c) ==
    /\ At(c, "triggers")
    /\ IF ListTriggers(req[c].job) = {} THEN Goto(c, "deactivate") ELSE Respond(c)
    /\ Reads

Deactivate(c) ==
    /\ At(c, "deactivate")
    /\ SetActiveRow(req[c].job, FALSE)
    /\ Respond(c)
    /\ UNCHANGED <<links, projects>> /\ Same

DeleteLink(c) ==
    /\ At(c, "removeLink")
    /\ DeleteLinkRow(req[c].job, R(c).to, R(c).condition)
    /\ Respond(c)
    /\ UNCHANGED <<jobs, projects>> /\ Same

---------------------------------------------------------------------------
(* Adding a link: both ends, the loop check, the insert *)

ReadEnds(c) ==
    LET from == IF IsSync(c) THEN req[c].job ELSE R(c).job
        found == IF IsSync(c) THEN WithCode(req[c].in.project, Head(req[c].links).code)
                              ELSE {R(c).to}
        ends == {t \in found : /\ t # from /\ Valid(c)
                               /\ owned(from, Scope(c)) /\ owned(t, Scope(c))}
    IN  /\ At(c, "target")
        /\ IF ends # {}
           THEN req' = [req EXCEPT ![c].pc = "reach", ![c].job = from,
                                   ![c].to = Min(ends), ![c].reach = Reach(c)]
           ELSE EndLink(c)
        /\ Reads

CheckLoop(c) ==
    /\ At(c, "reach")
    /\ IF ReachesJob(req[c].to, req[c].job)
       THEN EndLink(c)
       ELSE req' = [req EXCEPT ![c].pc = "insertLink", ![c].saw = links]
    /\ Reads

CreateLink(c) ==
    LET condition == IF IsSync(c) THEN Head(req[c].links).condition ELSE R(c).condition
    IN  /\ At(c, "insertLink")
        /\ InsertLink(req[c].job, req[c].to, condition)
        /\ raced' = (raced \/ ~(links \subseteq req[c].saw))
        /\ EndLink(c)
        /\ UNCHANGED <<jobs, projects, todo, faults, applied>>

---------------------------------------------------------------------------
(* Sync: the key, the links of each declared job, the prune, the answer *)

(* The prefix finds a row, the whole key decides. *)
Authenticate(c, p) == projects[p].key = R(c).key /\ projects[p].active

(* The middleware, and the handler's check that there is something to do:  *)
(* a declaration without jobs is refused, pruning or not.                  *)
ProjectKey(c) ==
    LET rows == GetByKeyPrefix(R(c).key.prefix) IN
    /\ At(c, "auth")
    /\ \/ \E p \in rows :
            /\ Authenticate(c, p) /\ Decls(c) # <<>>
            /\ req' = [req EXCEPT ![c].pc = "lookup", ![c].i = 1,
                                  ![c].in = [AnyInput EXCEPT !.project = p]]
       \/ /\ rows = {} \/ Decls(c) = <<>> \/ \E p \in rows : ~Authenticate(c, p)
          /\ Respond(c)
    /\ Reads

(* Links the job has already, by the code of the target, are left alone. *)
applyLinks(c) ==
    LET Have(l) == \E m \in ListLinks(req[c].job) :
                      jobs[m.to].code = l.code /\ m.condition = l.condition
        rest == SelectSeq(Decl(c).links, LAMBDA l : ~Have(l))
    IN  /\ At(c, "listLinks")
        /\ req' = [req EXCEPT ![c] = NextLink(c, [@ EXCEPT !.links = rest])]
        /\ Reads

Declared_Applied(c) ==
    {Decls(c)[k].code : k \in (1..Len(Decls(c))) \ req[c].failed}

(* A declared job counts as declared although it could not be applied. *)
Declared(c) == {Decls(c)[k].code : k \in 1..Len(Decls(c))}

(* One page of the project's jobs; the active ones not declared are next.  *)
ListForPrune(c) ==
    /\ At(c, "prune")
    /\ \E page \in List(jobFilter(Scope(c), req[c].in.project, FALSE), PageLimit) :
          req' = [req EXCEPT ![c].pc = "pruning", ![c].reach = Reach(c),
                    ![c].list = {j \in page : jobs[j].active /\ jobs[j].code \notin Declared(c)}]
    /\ Reads

PruneJob(c) ==
    /\ At(c, "pruning")
    /\ \E j \in req[c].list :
        /\ SetActiveRow(j, FALSE)
        /\ req' = [req EXCEPT ![c].list = @ \ {j}, ![c].pruned = @ \cup {j}]
    /\ UNCHANGED <<links, projects>> /\ Same

(* The answer; history: a sync that nothing interfered with has applied. *)
Answer(c) ==
    /\ \/ At(c, "answer")
       \/ At(c, "pruning") /\ req[c].list = {}
    /\ applied' = IF req[c].alone THEN req[c].id ELSE applied
    /\ Respond(c)
    /\ UNCHANGED <<tables, todo, faults, raced>>

---------------------------------------------------------------------------
(* Projects *)

(* A new key: a secret of its own, and a prefix that others may have. *)
newAPIKey(c) == {[prefix |-> x, secret |-> req[c].id] : x \in Prefixes}

(* ProjectService.validate, as one flag. *)
ProjectValid(c) == R(c).valid

CreateProject(c) ==
    /\ At(c, "newProject")
    /\ IF ProjectValid(c) THEN \E key \in newAPIKey(c) : InsertProject(R(c).project, key)
       ELSE UNCHANGED projects
    /\ Respond(c)
    /\ UNCHANGED <<jobs, links>> /\ Same

ReadProject(c) ==
    /\ At(c, "project")
    /\ IF Allows(Scope(c), R(c).project) /\ GetByID(R(c).project)
          /\ (R(c).kind = "saveProject" => ProjectValid(c))
       THEN Goto(c, R(c).kind) ELSE Respond(c)
    /\ Reads

UpdateProject(c) ==
    /\ At(c, "saveProject")
    /\ UpdateProjectRow(R(c).project, R(c).active)
    /\ Respond(c)
    /\ UNCHANGED <<jobs, links>> /\ Same

(* The old key is overwritten. *)
SetKey(c) ==
    /\ At(c, "rotateKey")
    /\ \E key \in newAPIKey(c) : SetKeyRow(R(c).project, key)
    /\ Respond(c)
    /\ UNCHANGED <<jobs, links>> /\ Same

(* Refused while an active job remains, unless the caller insists. *)
ListActive(c) ==
    /\ At(c, "listActive")
    /\ \E page \in List(jobFilter(Scope(c), R(c).project, TRUE), 1) :
          IF Allows(Scope(c), R(c).project) /\ (page = {} \/ R(c).force)
          THEN Goto(c, "deleteProject") ELSE Respond(c)
    /\ Reads

RemoveProject(c) ==
    /\ At(c, "deleteProject")
    /\ SoftDeleteProject(R(c).project)
    /\ Respond(c)
    /\ UNCHANGED links /\ Same

---------------------------------------------------------------------------
(* Failures *)

Fault ==
    /\ faults < MaxFaults
    /\ faults' = faults + 1
    /\ UNCHANGED <<tables, todo, raced, applied>>

(* A statement fails: an operator's request ends there; a sync notes the   *)
(* job or the link as failed and goes on, or ends when it cannot prune.    *)
StatementFails(c) ==
    LET r == [req[c] EXCEPT !.alone = FALSE] IN
    /\ ~At(c, "idle") /\ ~At(c, "answer")
    /\ req' = [req EXCEPT ![c] =
                 CASE ~IsSync(c) \/ r.pc \in {"auth", "prune", "pruning"} -> Idle
                   [] r.pc \in {"target", "reach", "insertLink"} -> LinkDone(c, r)
                   [] r.pc = "listLinks" -> LinksFrom(c, [r EXCEPT !.i = @ + 1])
                   [] OTHER -> JobDone(c, r, FALSE)]
    /\ Fault

(* The process stops, or the caller is gone, between two statements. *)
Abandon(c) ==
    /\ ~At(c, "idle")
    /\ Respond(c)
    /\ Fault

---------------------------------------------------------------------------
Handlers(c) ==
    \/ Save(c) \/ CreateJob(c) \/ UpdateJob(c) \/ DeleteJob(c)
    \/ Toggle(c) \/ Delete(c) \/ Clone(c)
    \/ AddSchedule(c) \/ RemoveSchedule(c) \/ AddLink(c) \/ RemoveLink(c)
    \/ Sync(c) \/ NewProject(c) \/ SaveProject(c) \/ RotateKey(c) \/ DeleteProject(c)

JobSteps(c) ==
    \/ Lookup(c) \/ ValidateNew(c) \/ Insert(c) \/ GetForUpdate(c) \/ Update(c)
    \/ WriteSchedules(c) \/ WriteHeaders(c) \/ ReadJob(c) \/ CloneJob(c)
    \/ SetActive(c) \/ SoftDelete(c) \/ CreateSchedule(c) \/ DeleteSchedule(c)
    \/ CountSchedules(c) \/ CountTriggers(c) \/ Deactivate(c)

LinkSteps(c) ==
    \/ DeleteLink(c) \/ ReadEnds(c) \/ CheckLoop(c) \/ CreateLink(c) \/ applyLinks(c)

OtherSteps(c) ==
    \/ ProjectKey(c) \/ ListForPrune(c) \/ PruneJob(c) \/ Answer(c)
    \/ CreateProject(c) \/ ReadProject(c) \/ UpdateProject(c) \/ SetKey(c)
    \/ ListActive(c) \/ RemoveProject(c)

(* Every request has been answered. *)
Done ==
    /\ todo = {} /\ \A c \in Clients : At(c, "idle")
    /\ UNCHANGED vars

Next ==
    \/ \E c \in Clients : Handlers(c) \/ JobSteps(c) \/ LinkSteps(c) \/ OtherSteps(c)
    \/ \E c \in Clients : StatementFails(c) \/ Abandon(c)
    \/ Done

Spec == Init /\ [][Next]_vars

---------------------------------------------------------------------------
(* Properties *)

(* A deleted job stays deleted and switched off, whatever a request that   *)
(* read it before the deletion still writes.                               *)
DeletedStaysDown ==
    [][\A j \in JobIds : jobs[j].state = "deleted" =>
          jobs'[j].state = "deleted" /\ ~jobs'[j].active]_vars

(* The loop check keeps short loops out of the chain: one of no more links *)
(* than the walk can close takes a link inserted between another request's *)
(* check and its insert.                                                   *)
LoopNeedsRace ==
    raced \/ \A n \in 1..(ChainMaxDepth + 1) : ~\E loop \in [1..n -> JobIds] :
        \A k \in 1..n : \E l \in links : l.from = loop[k] /\ l.to = loop[(k % n) + 1]

(* "prune deactivates jobs that exist but were not declared": never one    *)
(* the payload names, even when applying it failed.                        *)
PruneSparesDeclared ==
    \A c \in Clients : \A j \in req[c].pruned :
        \A k \in 1..Len(Decls(c)) : jobs[j].code # Decls(c)[k].code

(* "the same payload posted twice changes nothing the second time".        *)
SyncIdempotent ==
    [][applied # 0 => UNCHANGED <<jobs, links>>]_vars

(* A request only writes to jobs that were in its caller's scope when it   *)
(* looked at them or that it made, and moves and links them only within    *)
(* that scope.                                                             *)
InReach(c, j) ==
    \/ j \in req[c].reach
    \/ jobs[j].state = "none" /\ jobs'[j].project \in Scope(c)
    \/ jobs[j].project \in Scope(c)

WritesInReach ==
    [][\E c \in Clients :
         /\ ~At(c, "idle")
         /\ \A j \in JobIds : jobs'[j] # jobs[j] =>
               /\ InReach(c, j)
               /\ jobs'[j].project \in Scope(c) \cup {jobs[j].project}
         /\ \A l \in links' \ links : {l.from, l.to} \subseteq req[c].reach]_tables

(* "schedules: omit to leave them, send [] to clear them": writing the     *)
(* schedules of a declared job changes nothing when it declares none.      *)
OmittedSchedulesKept ==
    [][\A c \in Clients :
         (At(c, "schedules") /\ IsSync(c) /\ req[c].i > 0 /\ req'[c] # req[c]
              /\ Decl(c).schedules = Omitted)
           => jobs'[req[c].job].schedules = jobs[req[c].job].schedules]_vars
=============================================================================
