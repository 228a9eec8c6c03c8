------------------------- MODULE DefinitionsProofs -------------------------
(***************************************************************************)
(* The properties of module Definitions, for any jobs, requests, payloads  *)
(* and combinations of them, and any cap on the loop check.                *)
(***************************************************************************)
EXTENDS Definitions, Wellfounded

JobFields == {"state", "project", "code", "active", "singleRun", "schedules",
              "headers"}
InFields == JobFields \ {"state"}
ReqFields == {"id", "pc", "job", "to", "in", "i", "links", "failed", "ids", "list",
              "pruned", "saw", "reach", "alone"}

(* The rows: one that is deleted is switched off.                          *)
RowsSound ==
    /\ DOMAIN jobs = JobIds
    /\ \A j \in JobIds :
          /\ DOMAIN jobs[j] = JobFields
          /\ jobs[j].state \in {"none", "live", "deleted"}
          /\ jobs[j].state = "deleted" => jobs[j].active = FALSE

(* Where a request writes to the job it has read, or made.                 *)
WritesJob == {"update", "schedules", "headers", "setActive", "delete", "addSchedule",
              "removeSchedule", "count", "triggers", "deactivate", "removeLink"}
WritesLink == {"reach", "insertLink"}
TakesProject == {"insert", "update"}
OneJobKinds == {"setActive", "delete", "clone", "addSchedule", "removeSchedule",
                "removeLink"}

(* The loop check over the links E: ReachesJob with the table as it was.   *)
Walked(E, from, to) ==
    LET walk[d \in Nat] ==
          IF d = 0 THEN {from}
          ELSE walk[d - 1] \cup {l.to : l \in {m \in E : m.from \in walk[d - 1]}}
    IN  to \in walk[ChainMaxDepth]

(* The jobs that a request writes were in its caller's scope, and so is    *)
(* the project that it moves them to.  A link that it is about to insert   *)
(* closed no loop over the links it saw.                                   *)
Scoped(c) ==
    /\ req[c].pc \in WritesJob \cup WritesLink => req[c].job \in req[c].reach
    /\ req[c].pc \in WritesLink => req[c].to \in req[c].reach
    /\ req[c].pc \in TakesProject => req[c].in.project \in Scope(c)
    /\ req[c].pc = "pruning" => req[c].list \subseteq req[c].reach
    /\ req[c].pc = "deleteProject" => R(c).project \in Scope(c)
    /\ req[c].pc = "owned" => R(c).kind \in OneJobKinds
    /\ req[c].pc = "project" => R(c).kind \in {"saveProject", "rotateKey"}
    /\ req[c].pc = "insertLink" => ~Walked(req[c].saw, req[c].to, req[c].job)

(* What a sync prunes it has not declared.                                 *)
Undeclared(c) ==
    \A j \in req[c].list \cup req[c].pruned :
        /\ j \in JobIds /\ jobs[j].state # "none"
        /\ \A k \in 1..Len(Decls(c)) : jobs[j].code # Decls(c)[k].code

RequestSound(c) ==
    /\ DOMAIN req[c] = ReqFields /\ DOMAIN req[c].in = InFields
    /\ req[c].pc # "idle" => req[c].id \in DOMAIN Script
    /\ Scoped(c) /\ Undeclared(c)

RequestsSound ==
    /\ DOMAIN req = Clients /\ \A c \in Clients : RequestSound(c)
    /\ todo \subseteq DOMAIN Script

DefinitionsInv == RowsSound /\ RequestsSound

-----------------------------------------------------------------------------
(* The statements on the rows of jobs *)

(* No statement brings a deleted row back, and none takes a code away.     *)
RowKept(j) ==
    /\ jobs[j].state = "deleted" => jobs'[j].state = "deleted"
    /\ jobs[j].state # "none" =>
          jobs'[j].state # "none" /\ jobs'[j].code = jobs[j].code

(* The statement is about job j, which it may move to a project of ps.     *)
OnlyJob(j, ps) ==
    \A k \in JobIds :
        jobs'[k] # jobs[k] => k = j /\ jobs'[k].project \in ps \cup {jobs[k].project}

RowStep(j, ps) ==
    RowsSound' /\ (\A k \in JobIds : RowKept(k)) /\ OnlyJob(j, ps)

USE DEF JobFields

LEMMA RowsUnchanged ==
    ASSUME RowsSound, jobs' = jobs, NEW j
    PROVE  RowStep(j, {})
  BY DEF RowsSound, RowStep, RowKept, OnlyJob

LEMMA InsertRow ==
    ASSUME RowsSound, NEW j \in JobIds, NEW in, InsertJob(j, in)
    PROVE  /\ RowStep(j, {in.project})
           /\ jobs[j].state = "none" /\ jobs'[j].project = in.project
  <1> DEFINE row == [NoJob EXCEPT !.state = "live", !.project = in.project,
                                  !.active = in.active, !.singleRun = in.singleRun,
                                  !.code = in.code]
  <1>1. DOMAIN row = JobFields /\ row.state = "live" /\ row.project = in.project
    BY DEF NoJob
  <1>2. jobs' = [jobs EXCEPT ![j] = row] /\ jobs[j].state = "none"
    BY DEF InsertJob, toDomain
  <1> HIDE DEF row
  <1>3. QED
    BY <1>1, <1>2 DEF RowsSound, RowStep, RowKept, OnlyJob

LEMMA UpdateRow ==
    ASSUME RowsSound, NEW j, NEW in, UpdateJobRow(j, in)
    PROVE  RowStep(j, {in.project})
  <1>1. CASE j \in Live
    <2> DEFINE row == toDomain(in, jobs[j])
    <2>1. j \in JobIds /\ jobs[j].state = "live" /\ DOMAIN jobs[j] = JobFields
      BY <1>1 DEF Live, RowsSound
    <2>2. jobs[j] # NoJob
      BY <2>1 DEF NoJob
    <2>3. /\ DOMAIN row = JobFields /\ row.state = "live"
          /\ row.project = in.project /\ row.code = jobs[j].code
      BY <2>1, <2>2 DEF toDomain
    <2>4. jobs' = [jobs EXCEPT ![j] = row]
      BY <1>1 DEF UpdateJobRow
    <2> HIDE DEF row
    <2>5. QED
      BY <2>1, <2>3, <2>4 DEF RowsSound, RowStep, RowKept, OnlyJob
  <1>2. CASE j \notin Live
    BY <1>2 DEF UpdateJobRow, RowsSound, RowStep, RowKept, OnlyJob
  <1>3. QED
    BY <1>1, <1>2

LEMMA ActiveRow ==
    ASSUME RowsSound, NEW j, NEW b, SetActiveRow(j, b)
    PROVE  RowStep(j, {})
  BY DEF SetActiveRow, Live, RowsSound, RowStep, RowKept, OnlyJob

LEMMA DeleteRow ==
    ASSUME RowsSound, NEW j, SoftDeleteJob(j)
    PROVE  RowStep(j, {})
  BY DEF SoftDeleteJob, RowsSound, RowStep, RowKept, OnlyJob

LEMMA ListRow ==
    ASSUME RowsSound, NEW j, NEW x,
           \/ ReplaceSchedules(j, x) \/ ReplaceHeaders(j, x)
           \/ InsertSchedule(j, x) \/ DeleteScheduleRow(j, x)
    PROVE  RowStep(j, {})
  <1> USE DEF RowsSound, RowStep, RowKept, OnlyJob
  <1>1. CASE ReplaceSchedules(j, x)
    BY <1>1 DEF ReplaceSchedules
  <1>2. CASE ReplaceHeaders(j, x)
    BY <1>2 DEF ReplaceHeaders
  <1>3. CASE InsertSchedule(j, x)
    BY <1>3 DEF InsertSchedule
  <1>4. CASE DeleteScheduleRow(j, x)
    BY <1>4 DEF DeleteScheduleRow
  <1>5. QED
    BY <1>1, <1>2, <1>3, <1>4

LEMMA DeleteRows ==
    ASSUME RowsSound, NEW p, SoftDeleteProject(p)
    PROVE  /\ RowsSound' /\ \A k \in JobIds : RowKept(k)
           /\ \A k \in JobIds : jobs'[k] # jobs[k] =>
                 jobs[k].project = p /\ jobs'[k].project = jobs[k].project
  BY DEF SoftDeleteProject, Live, RowsSound, RowKept

-----------------------------------------------------------------------------
(* Where a request goes after one job, one link, or a failure *)

Between == {"lookup", "listLinks", "prune", "answer", "target"}

Onward(r, q) ==
    /\ DOMAIN q = ReqFields /\ q.pc \in Between
    /\ q.id = r.id /\ q.in = r.in /\ q.list = r.list /\ q.pruned = r.pruned
    /\ q.reach = r.reach

USE DEF ReqFields

LEMMA LinksFromOnward ==
    ASSUME NEW c, NEW r, DOMAIN r = ReqFields
    PROVE  Onward(r, LinksFrom(c, r))
  BY DEF LinksFrom, Onward, Between

LEMMA NextLinkOnward ==
    ASSUME NEW c, NEW r, DOMAIN r = ReqFields
    PROVE  Onward(r, NextLink(c, r))
  <1>1. CASE r.links # <<>>
    BY <1>1 DEF NextLink, Onward, Between
  <1>2. CASE r.links = <<>>
    <2> DEFINE s == [r EXCEPT !.i = @ + 1]
    <2>1. /\ DOMAIN s = ReqFields /\ s.id = r.id /\ s.in = r.in /\ s.list = r.list
          /\ s.pruned = r.pruned /\ s.reach = r.reach
      OBVIOUS
    <2>2. NextLink(c, r) = LinksFrom(c, s)
      BY <1>2 DEF NextLink
    <2> HIDE DEF s
    <2>3. QED
      BY <2>1, <2>2, LinksFromOnward DEF Onward
  <1>3. QED
    BY <1>1, <1>2

LEMMA JobDoneOnward ==
    ASSUME NEW c, NEW r, DOMAIN r = ReqFields, NEW ok
    PROVE  JobDone(c, r, ok) = Idle \/ Onward(r, JobDone(c, r, ok))
  <1> DEFINE noted == [r EXCEPT !.failed = IF ok THEN @ ELSE @ \cup {r.i},
                                !.ids = Append(@, IF ok THEN r.job ELSE 0)]
             s == [noted EXCEPT !.i = @ + 1, !.pc = "lookup"]
             t == [noted EXCEPT !.i = 1]
  <1>1. /\ DOMAIN noted = ReqFields /\ noted.id = r.id /\ noted.in = r.in
        /\ noted.list = r.list /\ noted.pruned = r.pruned /\ noted.reach = r.reach
    OBVIOUS
  <1> HIDE DEF noted
  <1>2. Onward(r, s)
    BY <1>1 DEF Onward, Between
  <1>3. /\ DOMAIN t = ReqFields /\ t.id = r.id /\ t.in = r.in
        /\ t.list = r.list /\ t.pruned = r.pruned /\ t.reach = r.reach
    BY <1>1
  <1> HIDE DEF s, t
  <1>4. Onward(r, LinksFrom(c, t))
    BY <1>3, LinksFromOnward DEF Onward
  <1>5. JobDone(c, r, ok) \in {Idle, s, LinksFrom(c, t)}
    BY DEF JobDone, noted, s, t
  <1>6. QED
    BY <1>2, <1>4, <1>5

LEMMA LinkDoneOnward ==
    ASSUME NEW c, NEW r, DOMAIN r = ReqFields
    PROVE  LinkDone(c, r) = Idle \/ Onward(r, LinkDone(c, r))
  <1> DEFINE s == [r EXCEPT !.links = Tail(@)]
  <1>1. /\ DOMAIN s = ReqFields /\ s.id = r.id /\ s.in = r.in /\ s.list = r.list
        /\ s.pruned = r.pruned /\ s.reach = r.reach
    OBVIOUS
  <1>2. LinkDone(c, r) \in {Idle, NextLink(c, s)}
    BY DEF LinkDone
  <1> HIDE DEF s
  <1>3. Onward(r, NextLink(c, s))
    BY <1>1, NextLinkOnward DEF Onward
  <1>4. QED
    BY <1>2, <1>3

-----------------------------------------------------------------------------
(* What makes a request sound after a step *)

(* What was pruned, or is to be, stays undeclared while no job is added to *)
(* it: no row is lost, and none changes its code.                          *)
LEMMA UndeclaredStays ==
    ASSUME NEW c \in Clients, Undeclared(c), \A j \in JobIds : RowKept(j),
           req'[c].id = req[c].id,
           req'[c].list \cup req'[c].pruned \subseteq req[c].list \cup req[c].pruned
    PROVE  Undeclared(c)'
  <1>1. Decls(c)' = Decls(c)
    BY DEF Decls, R
  <1> HIDE DEF ReqFields
  <1>2. SUFFICES ASSUME NEW j \in req[c].list \cup req[c].pruned
                 PROVE  /\ j \in JobIds /\ jobs'[j].state # "none"
                        /\ \A k \in 1..Len(Decls(c)) : jobs'[j].code # Decls(c)[k].code
    BY <1>1 DEF Undeclared
  <1>3. /\ j \in JobIds /\ jobs[j].state # "none"
        /\ \A k \in 1..Len(Decls(c)) : jobs[j].code # Decls(c)[k].code
    BY <1>2 DEF Undeclared
  <1>4. jobs'[j].state # "none" /\ jobs'[j].code = jobs[j].code
    BY <1>3 DEF RowKept
  <1>5. QED
    BY <1>3, <1>4

(* Between its steps a request has only its lists to answer for.           *)
LEMMA OnwardSound ==
    ASSUME RowsSound, NEW c \in Clients, RequestSound(c), ~At(c, "idle"),
           \A j \in JobIds : RowKept(j),
           Onward(req[c], req'[c])
    PROVE  RequestSound(c)'
  <1>1. Scoped(c)'
    BY DEF Scoped, Onward, Between, WritesJob, WritesLink, TakesProject
  <1>2. Undeclared(c)'
    BY UndeclaredStays DEF RequestSound, Onward
  <1>3. QED
    BY <1>1, <1>2 DEF RequestSound, Onward, At

LEMMA IdleSound ==
    ASSUME NEW c \in Clients, req'[c].list = {}, req'[c].pruned = {},
           DOMAIN req'[c] = ReqFields, DOMAIN req'[c].in = InFields,
           req'[c].pc # "idle" => req'[c].id \in DOMAIN Script,
           req'[c].pc \notin WritesJob \cup WritesLink \cup TakesProject
                              \cup {"pruning", "deleteProject", "owned", "project"}
    PROVE  RequestSound(c)'
  <1>1. Scoped(c)' /\ Undeclared(c)'
    BY DEF Scoped, Undeclared, WritesLink
  <1>2. QED
    BY <1>1 DEF RequestSound

LEMMA IdleIs ==
    /\ DOMAIN Idle = ReqFields /\ DOMAIN Idle.in = InFields
    /\ Idle.list = {} /\ Idle.pruned = {} /\ Idle.pc = "idle" /\ Idle.in = AnyInput
  BY DEF Idle, AnyInput, InFields

LEMMA EndSound ==
    ASSUME NEW c \in Clients, req'[c] = Idle
    PROVE  RequestSound(c)'
  BY IdleIs, IdleSound DEF WritesJob, WritesLink, TakesProject

(* Another client's step is nothing to a request.                          *)
LEMMA OtherSound ==
    ASSUME RowsSound, NEW c \in Clients, RequestSound(c),
           \A j \in JobIds : RowKept(j),
           req'[c] = req[c] \/ req'[c] = [req[c] EXCEPT !.alone = FALSE]
    PROVE  RequestSound(c)'
  <1>1. /\ DOMAIN req'[c] = ReqFields /\ req'[c].id = req[c].id
        /\ req'[c].pc = req[c].pc /\ req'[c].job = req[c].job
        /\ req'[c].to = req[c].to /\ req'[c].in = req[c].in
        /\ req'[c].list = req[c].list /\ req'[c].pruned = req[c].pruned
        /\ req'[c].reach = req[c].reach /\ req'[c].saw = req[c].saw
    BY DEF RequestSound
  <1>2. Scoped(c)'
    BY <1>1 DEF RequestSound, Scoped, R, Scope, IsSync
  <1>3. Undeclared(c)'
    BY <1>1, UndeclaredStays DEF RequestSound
  <1>4. QED
    BY <1>1, <1>2, <1>3 DEF RequestSound

-----------------------------------------------------------------------------
(* What one step of one request does *)

Others(c) ==
    /\ DOMAIN req' = Clients
    /\ \A d \in Clients \ {c} :
          req'[d] = req[d] \/ req'[d] = [req[d] EXCEPT !.alone = FALSE]

(* The body of WritesInReach, for the request that takes the step.         *)
WroteInReach(c) ==
    /\ ~At(c, "idle")
    /\ \A j \in JobIds : jobs'[j] # jobs[j] =>
          /\ InReach(c, j)
          /\ jobs'[j].project \in Scope(c) \cup {jobs[j].project}
    /\ \A l \in links' \ links : {l.from, l.to} \subseteq req[c].reach

StepSound(c) ==
    /\ RowsSound' /\ \A j \in JobIds : RowKept(j)
    /\ Others(c) /\ RequestSound(c)' /\ todo' \subseteq DOMAIN Script
    /\ UNCHANGED tables \/ WroteInReach(c)

LEMMA RespondSound ==
    ASSUME DefinitionsInv, NEW c \in Clients, Respond(c)
    PROVE  Others(c) /\ RequestSound(c)'
  BY EndSound DEF Respond, Others, DefinitionsInv, RequestsSound

LEMMA EndJobSound ==
    ASSUME DefinitionsInv, NEW c \in Clients, NEW ok, EndJob(c, ok), ~At(c, "idle"),
           \A j \in JobIds : RowKept(j)
    PROVE  Others(c) /\ RequestSound(c)'
  <1>1. RequestSound(c) /\ RowsSound /\ DOMAIN req = Clients
    BY DEF DefinitionsInv, RequestsSound
  <1>2. req' = [req EXCEPT ![c] = JobDone(c, req[c], ok)]
    BY DEF EndJob
  <1>3. req'[c] = Idle \/ Onward(req[c], req'[c])
    BY <1>1, <1>2, JobDoneOnward DEF RequestSound
  <1>4. QED
    BY <1>1, <1>2, <1>3, EndSound, OnwardSound DEF Others

LEMMA EndLinkSound ==
    ASSUME DefinitionsInv, NEW c \in Clients, EndLink(c), ~At(c, "idle"),
           \A j \in JobIds : RowKept(j)
    PROVE  Others(c) /\ RequestSound(c)'
  <1>1. RequestSound(c) /\ RowsSound /\ DOMAIN req = Clients
    BY DEF DefinitionsInv, RequestsSound
  <1>2. req' = [req EXCEPT ![c] = LinkDone(c, req[c])]
    BY DEF EndLink
  <1>3. req'[c] = Idle \/ Onward(req[c], req'[c])
    BY <1>1, <1>2, LinkDoneOnward DEF RequestSound
  <1>4. QED
    BY <1>1, <1>2, <1>3, EndSound, OnwardSound DEF Others

(* The next statement of a request, on the job that it has read.           *)
LEMMA GotoSound ==
    ASSUME DefinitionsInv, NEW c \in Clients, NEW p, Goto(c, p), ~At(c, "idle"),
           \A j \in JobIds : RowKept(j),
           p \notin WritesLink \cup TakesProject \cup {"pruning", "owned", "project"},
           p \in WritesJob => req[c].job \in req[c].reach,
           p = "deleteProject" => R(c).project \in Scope(c)
    PROVE  Others(c) /\ RequestSound(c)'
  <1>1. RequestSound(c) /\ RowsSound /\ DOMAIN req = Clients
    BY DEF DefinitionsInv, RequestsSound
  <1>2. req' = [req EXCEPT ![c].pc = p]
    BY DEF Goto
  <1>3. /\ DOMAIN req'[c] = ReqFields /\ req'[c].id = req[c].id
        /\ req'[c].pc = p /\ req'[c].job = req[c].job
        /\ req'[c].to = req[c].to /\ req'[c].in = req[c].in
        /\ req'[c].list = req[c].list /\ req'[c].pruned = req[c].pruned
        /\ req'[c].reach = req[c].reach
    BY <1>1, <1>2 DEF RequestSound
  <1>4. Scoped(c)'
    BY <1>3 DEF Scoped, R, Scope, IsSync, WritesLink, TakesProject
  <1>5. Undeclared(c)'
    BY <1>1, <1>3, UndeclaredStays DEF RequestSound
  <1>6. Others(c)
    BY <1>1, <1>2 DEF Others
  <1>7. QED
    BY <1>1, <1>3, <1>4, <1>5, <1>6 DEF RequestSound, At

(* A request that only reads.                                              *)
LEMMA ReadSound ==
    ASSUME DefinitionsInv, NEW c \in Clients, Reads, Others(c), RequestSound(c)'
    PROVE  StepSound(c)
  <1>1. RowsSound /\ jobs' = jobs /\ todo' = todo /\ UNCHANGED tables
    BY DEF DefinitionsInv, Reads, Same, tables
  <1>2. RowStep(0, {})
    BY <1>1, RowsUnchanged
  <1>3. QED
    BY <1>1, <1>2 DEF StepSound, RowStep, DefinitionsInv, RequestsSound

LEMMA KeptByReads ==
    ASSUME RowsSound, jobs' = jobs
    PROVE  RowsSound' /\ \A j \in JobIds : RowKept(j)
  BY RowsUnchanged DEF RowStep

(* A request that writes to the job that it has read.                      *)
LEMMA WriteSound ==
    ASSUME DefinitionsInv, NEW c \in Clients, NEW j, NEW ps, RowStep(j, ps),
           j \in req[c].reach \/ (jobs[j].state = "none" /\ jobs'[j].project \in ps),
           \A p \in ps : p \in Scope(c), ~At(c, "idle"),
           UNCHANGED <<links, projects>>, Same, Others(c), RequestSound(c)'
    PROVE  StepSound(c)
  <1>1. todo' \subseteq DOMAIN Script
    BY DEF DefinitionsInv, RequestsSound, Same
  <1>2. WroteInReach(c)
    BY DEF WroteInReach, RowStep, OnlyJob, InReach
  <1>3. QED
    BY <1>1, <1>2 DEF StepSound, RowStep

LEMMA OwnWriteSound ==
    ASSUME DefinitionsInv, NEW c \in Clients, NEW j, RowStep(j, {}),
           j \in req[c].reach, ~At(c, "idle"),
           UNCHANGED <<links, projects>>, Same, Others(c), RequestSound(c)'
    PROVE  StepSound(c)
  <1>1. todo' \subseteq DOMAIN Script
    BY DEF DefinitionsInv, RequestsSound, Same
  <1>2. WroteInReach(c)
    BY DEF WroteInReach, RowStep, OnlyJob, InReach
  <1>3. QED
    BY <1>1, <1>2 DEF StepSound, RowStep

-----------------------------------------------------------------------------
(* The steps of a request, one by one *)

LEMMA DefinitionsInit ==
    ASSUME Init
    PROVE  DefinitionsInv
  <1>1. \A j \in JobIds :
           /\ DOMAIN jobs[j] = JobFields /\ jobs[j].state \in {"none", "live", "deleted"}
           /\ jobs[j].state = "deleted" => jobs[j].active = FALSE
    <2> TAKE j \in JobIds
    <2>1. CASE j \in DOMAIN InitialJobs
      <3>1. jobs[j] = InitialJobs[j]
        BY <2>1 DEF Init
      <3>2. /\ InitialJobs[j] \in JobRow
            /\ InitialJobs[j].state = "deleted" => ~InitialJobs[j].active
        BY <2>1, DefinitionsAssumption
      <3>3. QED
        BY <3>1, <3>2 DEF JobRow
    <2>2. CASE j \notin DOMAIN InitialJobs
      <3>1. jobs[j] = NoJob
        BY <2>2 DEF Init
      <3>2. DOMAIN NoJob = JobFields /\ NoJob.state = "none"
        BY DEF NoJob
      <3>3. QED
        BY <3>1, <3>2
    <2>3. QED
      BY <2>1, <2>2
  <1>2. RowsSound
    BY <1>1 DEF Init, RowsSound
  <1>3. DOMAIN req = Clients /\ \A c \in Clients : req[c] = Idle
    BY DEF Init
  <1>4. \A c \in Clients : RequestSound(c)
    BY <1>3, IdleIs DEF RequestSound, Scoped, Undeclared, WritesJob, WritesLink,
                        TakesProject
  <1>5. todo \subseteq DOMAIN Script
    BY DefinitionsAssumption DEF Init
  <1>6. QED
    BY <1>2, <1>3, <1>4, <1>5 DEF DefinitionsInv, RequestsSound

LEMMA EnterSound ==
    ASSUME DefinitionsInv, NEW c \in Clients, NEW kind, NEW pc, Enter(c, kind, pc),
           pc \in {"validate", "get", "owned", "target", "auth", "project",
                   "newProject", "listActive"},
           pc = "owned" => kind \in OneJobKinds,
           pc = "project" => kind \in {"saveProject", "rotateKey"}
    PROVE  StepSound(c)
  <1> DEFINE alone == \A d \in Clients \ {c} : At(d, "idle")
  <1> HIDE DEF alone
  <1>1. PICK n \in todo :
          /\ Script[n].kind = kind /\ todo' = todo \ {n}
          /\ req' = [d \in Clients |->
                       IF d # c THEN [req[d] EXCEPT !.alone = FALSE]
                       ELSE IF kind # "sync" /\ Script[n].scope = {} THEN Idle
                       ELSE [Idle EXCEPT !.id = n, !.pc = pc, !.alone = alone]]
    BY DEF Enter, alone
  <1>2. UNCHANGED tables /\ jobs' = jobs /\ RowsSound /\ todo \subseteq DOMAIN Script
    BY DEF Enter, tables, DefinitionsInv, RequestsSound
  <1>3. Others(c)
    BY <1>1 DEF Others
  <1> DEFINE q == [Idle EXCEPT !.id = n, !.pc = pc, !.alone = alone]
  <1>4. /\ q.id = n /\ q.pc = pc /\ DOMAIN q = ReqFields /\ q.in = Idle.in
        /\ q.list = {} /\ q.pruned = {}
    BY IdleIs
  <1>5. req'[c] = Idle \/ req'[c] = q
    BY <1>1
  <1> HIDE DEF q
  <1>6. ASSUME req'[c] = q PROVE RequestSound(c)'
    <2>1. Scoped(c)'
      BY <1>1, <1>4, <1>6 DEF Scoped, WritesJob, WritesLink, TakesProject, R
    <2>2. Undeclared(c)'
      BY <1>4, <1>6 DEF Undeclared
    <2>3. QED
      BY <1>1, <1>2, <1>4, <1>6, <2>1, <2>2, IdleIs DEF RequestSound
  <1>7. RequestSound(c)'
    BY <1>5, <1>6, EndSound
  <1>8. QED
    BY <1>1, <1>2, <1>3, <1>7, KeptByReads DEF StepSound

LEMMA HandlersSound ==
    ASSUME DefinitionsInv, NEW c \in Clients, Handlers(c)
    PROVE  StepSound(c)
  <1> USE DEF OneJobKinds
  <1>1. CASE CreateJob(c) \/ UpdateJob(c) \/ Save(c)
    BY <1>1, EnterSound DEF CreateJob, UpdateJob, Save
  <1>2. CASE DeleteJob(c) \/ Toggle(c) \/ Delete(c) \/ Clone(c)
    BY <1>2, EnterSound DEF DeleteJob, Toggle, Delete, Clone
  <1>3. CASE AddSchedule(c) \/ RemoveSchedule(c) \/ AddLink(c) \/ RemoveLink(c)
    BY <1>3, EnterSound DEF AddSchedule, RemoveSchedule, AddLink, RemoveLink
  <1>4. CASE Sync(c) \/ NewProject(c) \/ DeleteProject(c)
    BY <1>4, EnterSound DEF Sync, NewProject, DeleteProject
  <1>5. CASE SaveProject(c) \/ RotateKey(c)
    BY <1>5, EnterSound DEF SaveProject, RotateKey
  <1>6. QED
    BY <1>1, <1>2, <1>3, <1>4, <1>5 DEF Handlers

LEMMA InvParts ==
    ASSUME DefinitionsInv, NEW c \in Clients
    PROVE  /\ RowsSound /\ DOMAIN req = Clients /\ RequestSound(c)
           /\ DOMAIN req[c] = ReqFields /\ DOMAIN req[c].in = InFields
           /\ req[c].pc # "idle" => req[c].id \in DOMAIN Script
           /\ Scoped(c) /\ Undeclared(c)
  BY DEF DefinitionsInv, RequestsSound, RequestSound

(* A request that keeps what it has pruned, with new values read.          *)
LEMMA ReadOn ==
    ASSUME DefinitionsInv, NEW c \in Clients, Reads, ~At(c, "idle"),
           DOMAIN req' = Clients, \A d \in Clients \ {c} : req'[d] = req[d],
           DOMAIN req'[c] = ReqFields, DOMAIN req'[c].in = InFields,
           req'[c].id = req[c].id, req'[c].list = req[c].list,
           req'[c].pruned = req[c].pruned, Scoped(c)'
    PROVE  StepSound(c)
  <1>1. jobs' = jobs
    BY DEF Reads, tables
  <1>2. Undeclared(c)'
    BY <1>1, InvParts, UndeclaredStays DEF RowKept
  <1>3. RequestSound(c)'
    BY <1>2, InvParts DEF RequestSound, At
  <1>4. QED
    BY <1>3, ReadSound DEF Others

LEMMA LookupSound ==
    ASSUME DefinitionsInv, NEW c \in Clients, Lookup(c)
    PROVE  StepSound(c)
  <1>1. PICK j, in, found : 
          /\ in.project = req[c].in.project /\ DOMAIN in = InFields
          /\ req' = [req EXCEPT ![c].job = j, ![c].in = in, ![c].reach = Reach(c),
                                ![c].pc = IF found = {} THEN "validate" ELSE "get"]
    <2> DEFINE p == req[c].in.project
               found == WithCode(p, Decl(c).code)
               row == IF found = {} THEN NoJob ELSE jobs[Min(found)]
               in == toInput(Decl(c), p, found # {}, row)
    <2>1. in.project = p /\ DOMAIN in = InFields
      BY DEF toInput, InFields
    <2>2. QED
      BY <2>1 DEF Lookup
  <1>2. /\ DOMAIN req' = Clients /\ \A d \in Clients \ {c} : req'[d] = req[d]
        /\ DOMAIN req'[c] = ReqFields /\ req'[c].in = in /\ req'[c].id = req[c].id
        /\ req'[c].list = req[c].list /\ req'[c].pruned = req[c].pruned
        /\ req'[c].pc \in {"validate", "get"}
    BY <1>1, InvParts
  <1>3. Scoped(c)'
    BY <1>2 DEF Scoped, WritesJob, WritesLink, TakesProject
  <1>4. Reads /\ ~At(c, "idle")
    BY DEF Lookup, At
  <1>5. QED
    BY <1>1, <1>2, <1>3, <1>4, ReadOn

(* What Create and Update take over from the payload or the row.           *)
LEMMA InputFields ==
    ASSUME DefinitionsInv, NEW c \in Clients, ~At(c, "idle")
    PROVE  DOMAIN Input(c) = InFields /\ DOMAIN applyDefaults(Input(c)) = InFields
  <1>1. DOMAIN Input(c) = InFields
    <2>1. CASE R(c).kind \in {"create", "update"}
      <3>1. R(c).in \in JobInput
        BY <2>1, InvParts, DefinitionsAssumption DEF R, At
      <3>2. QED
        BY <2>1, <3>1 DEF Input, JobInput, InFields
    <2>2. CASE R(c).kind \notin {"create", "update"}
      BY <2>2, InvParts DEF Input
    <2>3. QED
      BY <2>1, <2>2
  <1>2. QED
    BY <1>1 DEF applyDefaults

LEMMA ValidateNewSound ==
    ASSUME DefinitionsInv, NEW c \in Clients, ValidateNew(c)
    PROVE  StepSound(c)
  <1> DEFINE old == applyDefaults(Input(c))
             in == [old EXCEPT !.headers = IF @ = Omitted THEN {} ELSE @]
             go == Valid(c) /\ GetByID(old.project) /\ Allows(Scope(c), old.project)
  <1>1. Reads /\ ~At(c, "idle") /\ jobs' = jobs /\ RowsSound
    BY InvParts DEF ValidateNew, At, Reads, tables
  <1>2. DOMAIN in = InFields /\ in.project = old.project
    BY <1>1, InputFields DEF InFields
  <1>3. ASSUME go PROVE StepSound(c)
    <2>1. req' = [req EXCEPT ![c].pc = "insert", ![c].reach = Reach(c), ![c].in = in]
      BY <1>3 DEF ValidateNew
    <2>2. in.project \in Scope(c)
      BY <1>2, <1>3 DEF Allows
    <2> HIDE DEF old, in, go
    <2>3. /\ DOMAIN req' = Clients /\ \A d \in Clients \ {c} : req'[d] = req[d]
          /\ DOMAIN req'[c] = ReqFields /\ req'[c].in = in /\ req'[c].id = req[c].id
          /\ req'[c].list = req[c].list /\ req'[c].pruned = req[c].pruned
          /\ req'[c].pc = "insert"
      BY <2>1, InvParts
    <2>4. Scoped(c)'
      BY <2>2, <2>3 DEF Scoped, WritesJob, WritesLink, TakesProject, Scope, IsSync, R
    <2>5. QED
      BY <1>1, <1>2, <2>3, <2>4, ReadOn
  <1>4. ASSUME ~go PROVE StepSound(c)
    <2>1. EndJob(c, FALSE)
      BY <1>4 DEF ValidateNew
    <2>2. QED
      BY <1>1, <2>1, KeptByReads, EndJobSound, ReadSound
  <1>5. QED
    BY <1>3, <1>4

LEMMA InsertSound ==
    ASSUME DefinitionsInv, NEW c \in Clients, Insert(c)
    PROVE  StepSound(c)
  <1>1. /\ ~At(c, "idle") /\ RowsSound /\ DOMAIN req = Clients /\ RequestSound(c)
        /\ UNCHANGED <<links, projects>> /\ Same /\ req[c].in.project \in Scope(c)
    BY InvParts DEF Insert, At, Scoped, TakesProject
  <1>2. CASE \E j \in JobIds :
               /\ InsertJob(j, req[c].in)
               /\ req' = [req EXCEPT ![c].job = j, ![c].pc = "schedules",
                                     ![c].reach = @ \cup {j}]
    <2>1. PICK j \in JobIds :
               /\ InsertJob(j, req[c].in)
               /\ req' = [req EXCEPT ![c].job = j, ![c].pc = "schedules",
                                     ![c].reach = @ \cup {j}]
      BY <1>2
    <2>2. /\ RowStep(j, {req[c].in.project})
          /\ jobs[j].state = "none" /\ jobs'[j].project = req[c].in.project
      BY <1>1, <2>1, InsertRow
    <2>3. /\ DOMAIN req' = Clients /\ \A d \in Clients \ {c} : req'[d] = req[d]
          /\ DOMAIN req'[c] = ReqFields /\ req'[c].in = req[c].in /\ req'[c].id = req[c].id
          /\ req'[c].list = req[c].list /\ req'[c].pruned = req[c].pruned
          /\ req'[c].pc = "schedules" /\ req'[c].job = j
          /\ req'[c].reach = req[c].reach \cup {j}
      BY <1>1, <2>1 DEF RequestSound
    <2>4. Scoped(c)'
      BY <2>3 DEF Scoped, WritesLink, TakesProject
    <2>5. Undeclared(c)'
      BY <1>1, <2>2, <2>3, UndeclaredStays DEF RequestSound, RowStep
    <2>6. RequestSound(c)' /\ Others(c)
      BY <1>1, <2>3, <2>4, <2>5 DEF RequestSound, At, Others
    <2>7. QED
      BY <1>1, <2>2, <2>6, WriteSound
  <1>3. CASE EndJob(c, FALSE) /\ UNCHANGED jobs
    BY <1>1, <1>3, KeptByReads, EndJobSound, ReadSound DEF Reads, tables
  <1>4. QED
    BY <1>2, <1>3 DEF Insert

LEMMA GetForUpdateSound ==
    ASSUME DefinitionsInv, NEW c \in Clients, GetForUpdate(c)
    PROVE  StepSound(c)
  <1> DEFINE j == IF IsSync(c) THEN req[c].job ELSE R(c).job
             in == applyDefaults(Input(c))
             go == /\ owned(j, Scope(c)) /\ Allows(Scope(c), in.project)
                   /\ Valid(c) /\ GetByID(in.project)
  <1>1. Reads /\ ~At(c, "idle") /\ jobs' = jobs /\ RowsSound
    BY InvParts DEF GetForUpdate, At, Reads, tables
  <1>2. DOMAIN in = InFields
    BY <1>1, InputFields
  <1>3. ASSUME go PROVE StepSound(c)
    <2>1. req' = [req EXCEPT ![c].pc = "update", ![c].job = j, ![c].in = in,
                             ![c].reach = Reach(c)]
      BY <1>3 DEF GetForUpdate
    <2>2. in.project \in Scope(c) /\ j \in Reach(c)
      BY <1>3 DEF Allows, owned, Reach, Live
    <2> HIDE DEF j, in, go
    <2>3. /\ DOMAIN req' = Clients /\ \A d \in Clients \ {c} : req'[d] = req[d]
          /\ DOMAIN req'[c] = ReqFields /\ req'[c].in = in /\ req'[c].id = req[c].id
          /\ req'[c].list = req[c].list /\ req'[c].pruned = req[c].pruned
          /\ req'[c].pc = "update" /\ req'[c].job = j /\ req'[c].reach = Reach(c)
      BY <2>1, InvParts
    <2>4. Scoped(c)'
      BY <2>2, <2>3 DEF Scoped, WritesLink, Scope, IsSync, R
    <2>5. QED
      BY <1>1, <1>2, <2>3, <2>4, ReadOn
  <1>4. ASSUME ~go PROVE StepSound(c)
    <2>1. EndJob(c, FALSE)
      BY <1>4 DEF GetForUpdate
    <2>2. QED
      BY <1>1, <2>1, KeptByReads, EndJobSound, ReadSound
  <1>5. QED
    BY <1>3, <1>4

LEMMA UpdateSound ==
    ASSUME DefinitionsInv, NEW c \in Clients, Update(c)
    PROVE  StepSound(c)
  <1>1. /\ ~At(c, "idle") /\ RowsSound /\ UNCHANGED <<links, projects>> /\ Same
        /\ req[c].in.project \in Scope(c) /\ req[c].job \in req[c].reach
    BY InvParts DEF Update, At, Scoped, TakesProject, WritesJob
  <1>2. CASE EndJob(c, FALSE) /\ UNCHANGED jobs
    BY <1>1, <1>2, KeptByReads, EndJobSound, ReadSound DEF Reads, tables
  <1>3. CASE UpdateJobRow(req[c].job, req[c].in) /\ Goto(c, "schedules")
    <2>0. PICK j, p, ps : j = req[c].job /\ p = req[c].in.project /\ ps = {p}
      OBVIOUS
    <2>1. RowStep(j, ps)
      BY <1>1, <1>3, <2>0, UpdateRow
    <2>2. Others(c) /\ RequestSound(c)'
      BY <1>1, <1>3, <2>1, GotoSound DEF RowStep, WritesLink, TakesProject
    <2>3. (\A x \in ps : x \in Scope(c)) /\ j \in req[c].reach
      BY <1>1, <2>0
    <2>4. WroteInReach(c)
      BY <1>1, <2>1, <2>3 DEF WroteInReach, RowStep, OnlyJob, InReach
    <2>5. todo' \subseteq DOMAIN Script
      BY <1>1 DEF DefinitionsInv, RequestsSound, Same
    <2>6. QED
      BY <2>1, <2>2, <2>4, <2>5 DEF StepSound, RowStep
  <1>4. QED
    BY <1>2, <1>3 DEF Update

LEMMA WriteSchedulesSound ==
    ASSUME DefinitionsInv, NEW c \in Clients, WriteSchedules(c)
    PROVE  StepSound(c)
  <1>1. /\ ~At(c, "idle") /\ RowsSound /\ UNCHANGED <<links, projects>> /\ Same
        /\ req[c].job \in req[c].reach
    BY InvParts DEF WriteSchedules, At, Scoped, WritesJob
  <1>2. RowStep(req[c].job, {})
    BY <1>1, ListRow, RowsUnchanged DEF WriteSchedules
  <1>3. \A j \in JobIds : RowKept(j)
    BY <1>2 DEF RowStep
  <1>4. ASSUME Goto(c, "headers") PROVE Others(c) /\ RequestSound(c)'
    BY <1>1, <1>3, <1>4, GotoSound DEF WritesLink, TakesProject
  <1>5. ASSUME EndJob(c, TRUE) PROVE Others(c) /\ RequestSound(c)'
    BY <1>1, <1>3, <1>5, EndJobSound
  <1>6. Others(c) /\ RequestSound(c)'
    BY <1>4, <1>5 DEF WriteSchedules
  <1>7. QED
    BY <1>1, <1>2, <1>6, OwnWriteSound

LEMMA WriteHeadersSound ==
    ASSUME DefinitionsInv, NEW c \in Clients, WriteHeaders(c)
    PROVE  StepSound(c)
  <1>1. /\ ~At(c, "idle") /\ RowsSound /\ UNCHANGED <<links, projects>> /\ Same
        /\ req[c].job \in req[c].reach /\ EndJob(c, TRUE)
    BY InvParts DEF WriteHeaders, At, Scoped, WritesJob
  <1>2. RowStep(req[c].job, {})
    BY <1>1, ListRow DEF WriteHeaders
  <1>3. Others(c) /\ RequestSound(c)'
    BY <1>1, <1>2, EndJobSound DEF RowStep
  <1>4. QED
    BY <1>1, <1>2, <1>3, OwnWriteSound

LEMMA ReadJobSound ==
    ASSUME DefinitionsInv, NEW c \in Clients, ReadJob(c)
    PROVE  StepSound(c)
  <1> DEFINE go == owned(R(c).job, Scope(c)) /\ Valid(c)
  <1>1. /\ Reads /\ ~At(c, "idle") /\ jobs' = jobs /\ RowsSound
        /\ R(c).kind \in OneJobKinds \ {"clone"}
    BY InvParts DEF ReadJob, At, Reads, tables, Scoped
  <1>2. ASSUME go PROVE StepSound(c)
    <2>1. req' = [req EXCEPT ![c].pc = R(c).kind, ![c].job = R(c).job,
                             ![c].reach = Reach(c)]
      BY <1>2 DEF ReadJob
    <2>2. R(c).job \in Reach(c)
      BY <1>2 DEF Allows, owned, Reach, Live
    <2>3. /\ DOMAIN req' = Clients /\ \A d \in Clients \ {c} : req'[d] = req[d]
          /\ DOMAIN req'[c] = ReqFields /\ req'[c].in = req[c].in
          /\ req'[c].id = req[c].id /\ req'[c].list = req[c].list
          /\ req'[c].pruned = req[c].pruned /\ req'[c].pc = R(c).kind
          /\ req'[c].job = R(c).job /\ req'[c].reach = Reach(c)
      BY <2>1, InvParts
    <2>4. Scoped(c)'
      BY <1>1, <2>2, <2>3 DEF Scoped, WritesLink, TakesProject, OneJobKinds
    <2>5. QED
      BY <1>1, <2>3, <2>4, InvParts, ReadOn
  <1>3. ASSUME ~go PROVE StepSound(c)
    BY <1>1, <1>3, RespondSound, ReadSound DEF ReadJob
  <1>4. QED
    BY <1>2, <1>3

LEMMA CloneJobSound ==
    ASSUME DefinitionsInv, NEW c \in Clients, CloneJob(c)
    PROVE  StepSound(c)
  <1> DEFINE row == jobs[R(c).job]
             in == [project |-> row.project, code |-> R(c).code,
                    active |-> FALSE, singleRun |-> row.singleRun,
                    schedules |-> row.schedules, headers |-> row.headers]
  <1>1. Reads /\ ~At(c, "idle")
    BY DEF CloneJob, At
  <1>2. ASSUME owned(R(c).job, Scope(c)) PROVE StepSound(c)
    <2>1. req' = [req EXCEPT ![c].pc = "validate", ![c].reach = Reach(c), ![c].in = in]
      BY <1>2 DEF CloneJob
    <2>2. DOMAIN in = InFields
      BY DEF InFields
    <2> HIDE DEF in
    <2>3. /\ DOMAIN req' = Clients /\ \A d \in Clients \ {c} : req'[d] = req[d]
          /\ DOMAIN req'[c] = ReqFields /\ req'[c].in = in
          /\ req'[c].id = req[c].id /\ req'[c].list = req[c].list
          /\ req'[c].pruned = req[c].pruned /\ req'[c].pc = "validate"
      BY <2>1, InvParts
    <2>4. Scoped(c)'
      BY <2>3 DEF Scoped, WritesJob, WritesLink, TakesProject
    <2>5. QED
      BY <1>1, <2>2, <2>3, <2>4, ReadOn
  <1>3. ASSUME ~owned(R(c).job, Scope(c)) PROVE StepSound(c)
    BY <1>1, <1>3, RespondSound, ReadSound DEF CloneJob
  <1>4. QED
    BY <1>2, <1>3

(* The writes that end a request about one job, or leave it at a read.     *)
LEMMA JobWritesSound ==
    ASSUME DefinitionsInv, NEW c \in Clients,
           \/ SetActive(c) \/ SoftDelete(c) \/ CreateSchedule(c)
           \/ DeleteSchedule(c) \/ Deactivate(c)
    PROVE  StepSound(c)
  <1>1. /\ ~At(c, "idle") /\ RowsSound /\ UNCHANGED <<links, projects>> /\ Same
        /\ req[c].job \in req[c].reach
    BY InvParts DEF SetActive, SoftDelete, CreateSchedule, DeleteSchedule, Deactivate,
                    At, Scoped, WritesJob
  <1>2. RowStep(req[c].job, {})
    BY <1>1, ActiveRow, DeleteRow, ListRow
       DEF SetActive, SoftDelete, CreateSchedule, DeleteSchedule, Deactivate
  <1>3. ASSUME Goto(c, "count") PROVE Others(c) /\ RequestSound(c)'
    BY <1>1, <1>2, <1>3, GotoSound DEF RowStep, WritesLink, TakesProject
  <1>4. ASSUME Respond(c) PROVE Others(c) /\ RequestSound(c)'
    BY <1>4, RespondSound
  <1>5. Others(c) /\ RequestSound(c)'
    BY <1>3, <1>4 DEF SetActive, SoftDelete, CreateSchedule, DeleteSchedule, Deactivate
  <1>6. QED
    BY <1>1, <1>2, <1>5, OwnWriteSound

LEMMA CountsSound ==
    ASSUME DefinitionsInv, NEW c \in Clients, CountSchedules(c) \/ CountTriggers(c)
    PROVE  StepSound(c)
  <1>1. /\ ~At(c, "idle") /\ RowsSound /\ Reads /\ jobs' = jobs
        /\ req[c].job \in req[c].reach
    BY InvParts DEF CountSchedules, CountTriggers, Reads, tables, At, Scoped, WritesJob
  <1>2. CASE Goto(c, "triggers") \/ Goto(c, "deactivate")
    BY <1>1, <1>2, KeptByReads, GotoSound, ReadSound DEF WritesLink, TakesProject
  <1>3. CASE Respond(c)
    BY <1>1, <1>3, RespondSound, ReadSound
  <1>4. QED
    BY <1>2, <1>3 DEF CountSchedules, CountTriggers

LEMMA JobStepsSound ==
    ASSUME DefinitionsInv, NEW c \in Clients, JobSteps(c)
    PROVE  StepSound(c)
  BY LookupSound, ValidateNewSound, InsertSound, GetForUpdateSound, UpdateSound,
     WriteSchedulesSound, WriteHeadersSound, ReadJobSound, CloneJobSound,
     JobWritesSound, CountsSound DEF JobSteps

(* A request whose step leaves the tables alone and keeps what it pruned.  *)
LEMMA TablesLeft ==
    ASSUME DefinitionsInv, NEW c \in Clients, UNCHANGED tables,
           todo' = todo, Others(c), RequestSound(c)'
    PROVE  StepSound(c)
  <1>1. RowsSound /\ jobs' = jobs /\ todo \subseteq DOMAIN Script
    BY DEF DefinitionsInv, RequestsSound, tables
  <1>2. QED
    BY <1>1, KeptByReads DEF StepSound

LEMMA ReadEndsSound ==
    ASSUME DefinitionsInv, NEW c \in Clients, ReadEnds(c)
    PROVE  StepSound(c)
  <1> DEFINE from == IF IsSync(c) THEN req[c].job ELSE R(c).job
             found == IF IsSync(c)
                      THEN WithCode(req[c].in.project, Head(req[c].links).code)
                      ELSE {R(c).to}
             ends == {t \in found : /\ t # from /\ Valid(c)
                                    /\ owned(from, Scope(c)) /\ owned(t, Scope(c))}
  <1>1. Reads /\ ~At(c, "idle") /\ jobs' = jobs /\ RowsSound
    BY InvParts DEF ReadEnds, At, Reads, tables
  <1>2. ASSUME ends # {} PROVE StepSound(c)
    <2>1. req' = [req EXCEPT ![c].pc = "reach", ![c].job = from,
                             ![c].to = Min(ends), ![c].reach = Reach(c)]
      BY <1>2 DEF ReadEnds
    <2>2. \A t \in ends : t \in Live /\ t \in Reach(c) /\ from \in Reach(c)
      BY DEF owned, Allows, Reach, Live
    <2>3. ends \subseteq Nat
      BY <2>2, DefinitionsAssumption DEF Live
    <2> HIDE DEF ends, from
    <2>4. PICK t \in ends : \A u \in ends : t =< u
      BY <1>2, <2>3, LeastElement
    <2>5. Min(ends) \in ends
      BY <2>4 DEF Min
    <2>6. /\ DOMAIN req' = Clients /\ \A d \in Clients \ {c} : req'[d] = req[d]
          /\ DOMAIN req'[c] = ReqFields /\ req'[c].in = req[c].in
          /\ req'[c].id = req[c].id /\ req'[c].list = req[c].list
          /\ req'[c].pruned = req[c].pruned /\ req'[c].pc = "reach"
          /\ req'[c].job = from /\ req'[c].to = Min(ends) /\ req'[c].reach = Reach(c)
      BY <2>1, InvParts
    <2>7. Scoped(c)'
      BY <2>2, <2>5, <2>6 DEF Scoped, TakesProject
    <2>8. QED
      BY <1>1, <2>6, <2>7, InvParts, ReadOn
  <1>3. ASSUME ends = {} PROVE StepSound(c)
    BY <1>1, <1>3, KeptByReads, EndLinkSound, ReadSound DEF ReadEnds
  <1>4. QED
    BY <1>2, <1>3

LEMMA CheckLoopSound ==
    ASSUME DefinitionsInv, NEW c \in Clients, CheckLoop(c)
    PROVE  StepSound(c)
  <1>1. /\ Reads /\ ~At(c, "idle") /\ jobs' = jobs /\ RowsSound
        /\ req[c].job \in req[c].reach /\ req[c].to \in req[c].reach
    BY InvParts DEF CheckLoop, At, Reads, tables, Scoped, WritesLink
  <1>2. CASE /\ req' = [req EXCEPT ![c].pc = "insertLink", ![c].saw = links]
             /\ ~Walked(links, req[c].to, req[c].job)
    <2>1. /\ DOMAIN req' = Clients /\ \A d \in Clients \ {c} : req'[d] = req[d]
          /\ DOMAIN req'[c] = ReqFields /\ req'[c].in = req[c].in
          /\ req'[c].id = req[c].id /\ req'[c].list = req[c].list
          /\ req'[c].pruned = req[c].pruned /\ req'[c].pc = "insertLink"
          /\ req'[c].job = req[c].job /\ req'[c].to = req[c].to
          /\ req'[c].reach = req[c].reach /\ req'[c].saw = links
      BY <1>2, InvParts
    <2>2. ~Walked(links, req[c].to, req[c].job)
      BY <1>2
    <2>3. Scoped(c)'
      BY <1>1, <2>1, <2>2 DEF Scoped, TakesProject
    <2>4. QED
      BY <1>1, <2>1, <2>3, InvParts, ReadOn
  <1>3. CASE EndLink(c)
    BY <1>1, <1>3, KeptByReads, EndLinkSound, ReadSound
  <1>4. QED
    BY <1>2, <1>3 DEF CheckLoop, ReachesJob, Walked

LEMMA LinkWritesSound ==
    ASSUME DefinitionsInv, NEW c \in Clients, CreateLink(c) \/ DeleteLink(c)
    PROVE  StepSound(c)
  <1>1. /\ ~At(c, "idle") /\ jobs' = jobs /\ RowsSound /\ todo' = todo
        /\ todo \subseteq DOMAIN Script
    BY DEF CreateLink, DeleteLink, At, DefinitionsInv, RequestsSound, Same
  <1>2. RowsSound' /\ \A j \in JobIds : RowKept(j)
    BY <1>1, KeptByReads
  <1>3. Others(c) /\ RequestSound(c)'
    BY <1>1, <1>2, EndLinkSound, RespondSound DEF CreateLink, DeleteLink
  <1>4. \A l \in links' \ links : {l.from, l.to} \subseteq req[c].reach
    <2>1. CASE CreateLink(c)
      <3>1. req[c].job \in req[c].reach /\ req[c].to \in req[c].reach
        BY <2>1, InvParts DEF CreateLink, At, Scoped, WritesLink
      <3>2. \A l \in links' \ links : l.from = req[c].job /\ l.to = req[c].to
        BY <2>1 DEF CreateLink, InsertLink
      <3>3. QED
        BY <3>1, <3>2
    <2>2. CASE DeleteLink(c)
      BY <2>2 DEF DeleteLink, DeleteLinkRow
    <2>3. QED
      BY <2>1, <2>2
  <1>5. WroteInReach(c)
    BY <1>1, <1>4 DEF WroteInReach
  <1>6. QED
    BY <1>1, <1>2, <1>3, <1>5 DEF StepSound

LEMMA ApplyLinksSound ==
    ASSUME DefinitionsInv, NEW c \in Clients, applyLinks(c)
    PROVE  StepSound(c)
  <1>1. /\ Reads /\ ~At(c, "idle") /\ jobs' = jobs /\ RowsSound
        /\ DOMAIN req = Clients /\ RequestSound(c)
    BY InvParts DEF applyLinks, At, Reads, tables
  <1>2. PICK rest : req' = [req EXCEPT ![c] = NextLink(c, [req[c] EXCEPT !.links = rest])]
    BY DEF applyLinks
  <1> DEFINE r == [req[c] EXCEPT !.links = rest]
  <1>3. /\ DOMAIN r = ReqFields /\ r.id = req[c].id /\ r.in = req[c].in
        /\ r.list = req[c].list /\ r.pruned = req[c].pruned /\ r.reach = req[c].reach
    BY InvParts
  <1> HIDE DEF r
  <1>4. Onward(r, NextLink(c, r))
    BY <1>3, NextLinkOnward
  <1>5. req'[c] = NextLink(c, r) /\ Others(c)
    BY <1>1, <1>2 DEF r, Others
  <1>6. Onward(req[c], req'[c])
    BY <1>3, <1>4, <1>5 DEF Onward
  <1>7. QED
    BY <1>1, <1>5, <1>6, KeptByReads, OnwardSound, ReadSound

LEMMA LinkStepsSound ==
    ASSUME DefinitionsInv, NEW c \in Clients, LinkSteps(c)
    PROVE  StepSound(c)
  BY ReadEndsSound, CheckLoopSound, LinkWritesSound, ApplyLinksSound DEF LinkSteps

LEMMA ProjectKeySound ==
    ASSUME DefinitionsInv, NEW c \in Clients, ProjectKey(c)
    PROVE  StepSound(c)
  <1>1. Reads /\ ~At(c, "idle")
    BY DEF ProjectKey, At
  <1>2. ASSUME NEW p, req' = [req EXCEPT ![c].pc = "lookup", ![c].i = 1,
                                         ![c].in = [AnyInput EXCEPT !.project = p]]
        PROVE  StepSound(c)
    <2> DEFINE in == [AnyInput EXCEPT !.project = p]
    <2>1. DOMAIN in = InFields
      BY IdleIs
    <2> HIDE DEF in
    <2>2. /\ DOMAIN req' = Clients /\ \A d \in Clients \ {c} : req'[d] = req[d]
          /\ DOMAIN req'[c] = ReqFields /\ req'[c].in = in
          /\ req'[c].id = req[c].id /\ req'[c].list = req[c].list
          /\ req'[c].pruned = req[c].pruned /\ req'[c].pc = "lookup"
      BY <1>2, InvParts DEF in
    <2>3. Scoped(c)'
      BY <2>2 DEF Scoped, WritesJob, WritesLink, TakesProject
    <2>4. QED
      BY <1>1, <2>1, <2>2, <2>3, ReadOn
  <1>3. CASE Respond(c)
    BY <1>1, <1>3, RespondSound, ReadSound
  <1>4. QED
    BY <1>2, <1>3 DEF ProjectKey

LEMMA ListForPruneSound ==
    ASSUME DefinitionsInv, NEW c \in Clients, ListForPrune(c)
    PROVE  StepSound(c)
  <1> DEFINE rows == jobFilter(Scope(c), req[c].in.project, FALSE)
  <1>1. Reads /\ ~At(c, "idle") /\ jobs' = jobs
    BY DEF ListForPrune, At, Reads, tables
  <1>2. PICK page \in List(rows, PageLimit) :
          req' = [req EXCEPT ![c].pc = "pruning", ![c].reach = Reach(c),
                    ![c].list = {j \in page : jobs[j].active /\ jobs[j].code \notin Declared(c)}]
    BY DEF ListForPrune
  <1>3. page \subseteq rows
    BY DEF List, kSubset
  <1> DEFINE list == {j \in page : jobs[j].active /\ jobs[j].code \notin Declared(c)}
  <1>4. list \subseteq Reach(c)
    BY <1>3 DEF jobFilter, Reach
  <1>5. \A j \in list : /\ j \in JobIds /\ jobs[j].state # "none"
                        /\ \A k \in 1..Len(Decls(c)) : jobs[j].code # Decls(c)[k].code
    BY <1>3 DEF jobFilter, Live, Declared
  <1> HIDE DEF list, rows
  <1>6. /\ DOMAIN req' = Clients /\ \A d \in Clients \ {c} : req'[d] = req[d]
        /\ DOMAIN req'[c] = ReqFields /\ req'[c].in = req[c].in
        /\ req'[c].id = req[c].id /\ req'[c].list = list
        /\ req'[c].pruned = req[c].pruned /\ req'[c].pc = "pruning"
        /\ req'[c].reach = Reach(c)
    BY <1>2, InvParts DEF list
  <1>7. Scoped(c)'
    BY <1>4, <1>6 DEF Scoped, WritesJob, WritesLink, TakesProject
  <1>8. Undeclared(c)'
    <2>1. Decls(c)' = Decls(c)
      BY <1>6 DEF Decls, R
    <2>2. Undeclared(c)
      BY InvParts
    <2>3. QED
      BY <1>1, <1>5, <1>6, <2>1, <2>2 DEF Undeclared
  <1>9. RequestSound(c)' /\ Others(c)
    BY <1>1, <1>6, <1>7, <1>8, InvParts DEF RequestSound, Others, At
  <1>10. QED
    BY <1>1, <1>9, ReadSound

LEMMA PruneJobSound ==
    ASSUME DefinitionsInv, NEW c \in Clients, PruneJob(c)
    PROVE  StepSound(c)
  <1>1. /\ ~At(c, "idle") /\ req[c].pc = "pruning" /\ UNCHANGED <<links, projects>>
        /\ Same /\ RowsSound /\ req[c].list \subseteq req[c].reach
    BY InvParts DEF PruneJob, At, Scoped
  <1>2. PICK j \in req[c].list :
          /\ SetActiveRow(j, FALSE)
          /\ req' = [req EXCEPT ![c].list = @ \ {j}, ![c].pruned = @ \cup {j}]
    BY DEF PruneJob
  <1>3. RowStep(j, {})
    BY <1>1, <1>2, ActiveRow
  <1>4. /\ DOMAIN req' = Clients /\ \A d \in Clients \ {c} : req'[d] = req[d]
        /\ DOMAIN req'[c] = ReqFields /\ req'[c].in = req[c].in
        /\ req'[c].id = req[c].id /\ req'[c].list = req[c].list \ {j}
        /\ req'[c].pruned = req[c].pruned \cup {j} /\ req'[c].pc = "pruning"
        /\ req'[c].reach = req[c].reach
    BY <1>1, <1>2, InvParts
  <1>5. Scoped(c)'
    BY <1>1, <1>4 DEF Scoped, WritesJob, WritesLink, TakesProject
  <1>6. Undeclared(c)'
    <2>1. req'[c].list \cup req'[c].pruned \subseteq req[c].list \cup req[c].pruned
      BY <1>2, <1>4
    <2>2. Undeclared(c) /\ \A k \in JobIds : RowKept(k)
      BY <1>3, InvParts DEF RowStep
    <2>3. QED
      BY <1>4, <2>1, <2>2, UndeclaredStays
  <1>7. RequestSound(c)' /\ Others(c)
    BY <1>1, <1>4, <1>5, <1>6, InvParts DEF RequestSound, Others, At
  <1>8. QED
    BY <1>1, <1>2, <1>3, <1>7, OwnWriteSound

LEMMA AnswerSound ==
    ASSUME DefinitionsInv, NEW c \in Clients, Answer(c)
    PROVE  StepSound(c)
  BY RespondSound, TablesLeft DEF Answer

(* A project's own row is of no account to the requests.                   *)
LEMMA ProjectStepsSound ==
    ASSUME DefinitionsInv, NEW c \in Clients,
           CreateProject(c) \/ UpdateProject(c) \/ SetKey(c)
    PROVE  StepSound(c)
  <1>1. /\ jobs' = jobs /\ links' = links /\ todo' = todo /\ RowsSound
        /\ todo \subseteq DOMAIN Script /\ Respond(c) /\ ~At(c, "idle")
    BY DEF CreateProject, UpdateProject, SetKey, DefinitionsInv, RequestsSound, Same, At
  <1>2. WroteInReach(c)
    BY <1>1 DEF WroteInReach
  <1>3. QED
    BY <1>1, <1>2, KeptByReads, RespondSound DEF StepSound

LEMMA ProjectReadsSound ==
    ASSUME DefinitionsInv, NEW c \in Clients, ReadProject(c) \/ ListActive(c)
    PROVE  StepSound(c)
  <1>1. Reads /\ ~At(c, "idle") /\ jobs' = jobs /\ RowsSound
    BY InvParts DEF ReadProject, ListActive, At, Reads, tables
  <1>2. \A j \in JobIds : RowKept(j)
    BY <1>1, KeptByReads
  <1>3. CASE Respond(c)
    BY <1>1, <1>3, RespondSound, ReadSound
  <1>4. CASE ReadProject(c) /\ Goto(c, R(c).kind)
    <2>1. R(c).kind \in {"saveProject", "rotateKey"}
      BY <1>4, InvParts DEF ReadProject, At, Scoped
    <2>2. R(c).kind \notin WritesJob \cup WritesLink \cup TakesProject
                             \cup {"pruning", "owned", "project", "deleteProject"}
      BY <2>1 DEF WritesJob, WritesLink, TakesProject
    <2>3. PICK p : p = R(c).kind
      OBVIOUS
    <2>4. Others(c) /\ RequestSound(c)'
      BY <1>1, <1>2, <1>4, <2>2, <2>3, GotoSound
    <2>5. QED
      BY <1>1, <2>4, ReadSound
  <1>5. CASE Goto(c, "deleteProject") /\ Allows(Scope(c), R(c).project)
    <2>1. Others(c) /\ RequestSound(c)'
      BY <1>1, <1>2, <1>5, GotoSound DEF WritesJob, WritesLink, TakesProject, Allows
    <2>2. QED
      BY <1>1, <2>1, ReadSound
  <1>6. QED
    BY <1>3, <1>4, <1>5 DEF ReadProject, ListActive

LEMMA RemoveProjectSound ==
    ASSUME DefinitionsInv, NEW c \in Clients, RemoveProject(c)
    PROVE  StepSound(c)
  <1>1. /\ SoftDeleteProject(R(c).project) /\ links' = links /\ todo' = todo /\ RowsSound
        /\ todo \subseteq DOMAIN Script /\ Respond(c) /\ ~At(c, "idle")
        /\ R(c).project \in Scope(c)
    BY InvParts DEF RemoveProject, DefinitionsInv, RequestsSound, Same, At, Scoped
  <1>2. PICK p : p = R(c).project
    OBVIOUS
  <1>3. /\ RowsSound' /\ \A k \in JobIds : RowKept(k)
        /\ \A k \in JobIds : jobs'[k] # jobs[k] =>
              jobs[k].project = p /\ jobs'[k].project = jobs[k].project
    BY <1>1, <1>2, DeleteRows
  <1>4. WroteInReach(c)
    BY <1>1, <1>2, <1>3 DEF WroteInReach, InReach
  <1>5. QED
    BY <1>1, <1>3, <1>4, RespondSound DEF StepSound

LEMMA OtherStepsSound ==
    ASSUME DefinitionsInv, NEW c \in Clients, OtherSteps(c)
    PROVE  StepSound(c)
  BY ProjectKeySound, ListForPruneSound, PruneJobSound, AnswerSound,
     ProjectStepsSound, ProjectReadsSound, RemoveProjectSound DEF OtherSteps

LEMMA StatementFailsSound ==
    ASSUME DefinitionsInv, NEW c \in Clients, StatementFails(c)
    PROVE  StepSound(c)
  <1> DEFINE r == [req[c] EXCEPT !.alone = FALSE]
             s == [r EXCEPT !.i = @ + 1]
  <1>1. /\ ~At(c, "idle") /\ jobs' = jobs /\ RowsSound /\ DOMAIN req = Clients
        /\ RequestSound(c) /\ UNCHANGED tables /\ todo' = todo
    BY InvParts DEF StatementFails, Fault, tables
  <1> DEFINE q == CASE ~IsSync(c) \/ r.pc \in {"auth", "prune", "pruning"} -> Idle
                    [] r.pc \in {"target", "reach", "insertLink"} -> LinkDone(c, r)
                    [] r.pc = "listLinks" -> LinksFrom(c, s)
                    [] OTHER -> JobDone(c, r, FALSE)
  <1>2. /\ req' = [req EXCEPT ![c] = q]
        /\ q \in {Idle, LinkDone(c, r), LinksFrom(c, s), JobDone(c, r, FALSE)}
    <2>1. req' = [req EXCEPT ![c] = q]
      BY DEF StatementFails
    <2> HIDE DEF r, s
    <2>2. q \in {Idle, LinkDone(c, r), LinksFrom(c, s), JobDone(c, r, FALSE)}
      OBVIOUS
    <2>3. QED
      BY <2>1, <2>2
  <1>3. /\ DOMAIN r = ReqFields /\ r.id = req[c].id /\ r.in = req[c].in
        /\ r.list = req[c].list /\ r.pruned = req[c].pruned /\ r.reach = req[c].reach
    BY InvParts
  <1>4. /\ DOMAIN s = ReqFields /\ s.id = req[c].id /\ s.in = req[c].in
        /\ s.list = req[c].list /\ s.pruned = req[c].pruned /\ s.reach = req[c].reach
    BY <1>3
  <1> HIDE DEF r, s, q
  <1>5. q = Idle \/ Onward(r, q) \/ Onward(s, q)
    BY <1>2, <1>3, <1>4, LinkDoneOnward, LinksFromOnward, JobDoneOnward
  <1>6. req'[c] = Idle \/ Onward(req[c], req'[c])
    BY <1>1, <1>2, <1>3, <1>4, <1>5 DEF Onward
  <1>7. RequestSound(c)'
    BY <1>1, <1>6, KeptByReads, EndSound, OnwardSound
  <1>8. Others(c)
    BY <1>1, <1>2 DEF Others
  <1>9. QED
    BY <1>1, <1>7, <1>8, TablesLeft

LEMMA AbandonSound ==
    ASSUME DefinitionsInv, NEW c \in Clients, Abandon(c)
    PROVE  StepSound(c)
  BY RespondSound, TablesLeft DEF Abandon, Fault

-----------------------------------------------------------------------------
(* The theorems *)

LEMMA StepIsOneRequests ==
    ASSUME DefinitionsInv, Next
    PROVE  UNCHANGED vars \/ \E c \in Clients : StepSound(c)
  BY HandlersSound, JobStepsSound, LinkStepsSound, OtherStepsSound,
     StatementFailsSound, AbandonSound DEF Next, Done

LEMMA DefinitionsKept ==
    ASSUME DefinitionsInv, NEW c \in Clients, StepSound(c)
    PROVE  DefinitionsInv'
  <1>1. ASSUME NEW d \in Clients \ {c} PROVE RequestSound(d)'
    BY OtherSound DEF StepSound, Others, DefinitionsInv, RequestsSound
  <1>2. QED
    BY <1>1 DEF StepSound, Others, DefinitionsInv, RequestsSound

LEMMA DefinitionsStutter ==
    ASSUME DefinitionsInv, UNCHANGED vars
    PROVE  DefinitionsInv' /\ \A j \in JobIds : RowKept(j)
  <1>1. RowsSound /\ jobs' = jobs /\ req' = req /\ todo' = todo
    BY DEF DefinitionsInv, vars
  <1>2. RowsSound' /\ \A j \in JobIds : RowKept(j)
    BY <1>1, KeptByReads
  <1>3. \A c \in Clients : RequestSound(c)'
    BY <1>1, <1>2, OtherSound DEF DefinitionsInv, RequestsSound
  <1>4. QED
    BY <1>1, <1>2, <1>3 DEF DefinitionsInv, RequestsSound

(* Whatever the requests are and however they interleave, the rows of jobs *)
(* stay well formed, and every request that is about to write to a job has *)
(* that job among those it found in its caller's scope.                    *)
THEOREM DefinitionsInvariant == Spec => []DefinitionsInv
  <1>1. DefinitionsInv /\ [Next]_vars => DefinitionsInv'
    BY StepIsOneRequests, DefinitionsKept, DefinitionsStutter
  <1>2. QED
    BY DefinitionsInit, <1>1, PTL DEF Spec

(* What was soft-deleted is never brought back or switched on again, by    *)
(* the requests that had read the row before it went either.               *)
THEOREM DeletionIsFinal == Spec => DeletedStaysDown
  <1>1. DefinitionsInv /\ [Next]_vars =>
          \A j \in JobIds : jobs[j].state = "deleted" =>
             jobs'[j].state = "deleted" /\ ~jobs'[j].active
    <2> SUFFICES ASSUME DefinitionsInv, [Next]_vars
                 PROVE  \A j \in JobIds : jobs[j].state = "deleted" =>
                           jobs'[j].state = "deleted" /\ ~jobs'[j].active
      OBVIOUS
    <2>1. RowsSound' /\ \A j \in JobIds : RowKept(j)
      BY StepIsOneRequests, DefinitionsStutter DEF StepSound, DefinitionsInv
    <2>2. QED
      BY <2>1 DEF RowsSound, RowKept
  <1>2. QED
    BY <1>1, DefinitionsInvariant, PTL DEF Spec, DeletedStaysDown

(* The prune of a sync never switches off a job the payload names.         *)
THEOREM PruningIsSafe == Spec => []PruneSparesDeclared
  <1>1. DefinitionsInv => PruneSparesDeclared
    BY DEF DefinitionsInv, RequestsSound, RequestSound, Undeclared, PruneSparesDeclared
  <1>2. QED
    BY <1>1, DefinitionsInvariant, PTL

(* Nothing a request writes is outside the scope its caller had.           *)
THEOREM ScopeIsKept == Spec => WritesInReach
  <1>1. DefinitionsInv /\ [Next]_vars =>
          [\E c \in Clients : WroteInReach(c)]_tables
    BY StepIsOneRequests DEF StepSound, vars, tables
  <1>2. QED
    BY <1>1, DefinitionsInvariant, PTL DEF Spec, WritesInReach, WroteInReach

-----------------------------------------------------------------------------
(* Short loops *)

Linked(E, i, j) == \E l \in E : l.from = i /\ l.to = j

(* The loop as LoopNeedsRace has it. *)
Loop(E, n, loop) == \A k \in 1..n : Linked(E, loop[k], loop[(k % n) + 1])

NoShortLoop(E) ==
    \A n \in 1..(ChainMaxDepth + 1) : \A loop \in [1..n -> JobIds] : ~Loop(E, n, loop)

LEMMA LoopNeedsRaceIs == LoopNeedsRace <=> raced \/ NoShortLoop(links)
  BY DEF LoopNeedsRace, NoShortLoop, Loop, Linked

LEMMA FewerLinks ==
    ASSUME NEW E, NEW F \in SUBSET E, NoShortLoop(E)
    PROVE  NoShortLoop(F)
  BY DEF NoShortLoop, Loop, Linked

(* The check follows every path that is no longer than the cap. *)
LEMMA CheckFindsPath ==
    ASSUME NEW E, NEW p, NEW m \in 0..ChainMaxDepth, Path(E, p, m)
    PROVE  Walked(E, p[0], p[m])
  <1> DEFINE walk == CHOOSE f : Walks(E, p[0], f)
  <1>1. Walks(E, p[0], walk)
    BY WalksExist
  <1>2. Walked(E, p[0], p[m]) <=> p[m] \in walk[ChainMaxDepth]
    BY DEF Walked, Walks
  <1> HIDE DEF walk
  <1>3. ChainMaxDepth \in Nat /\ m \in Nat /\ m <= ChainMaxDepth
    BY DefinitionsAssumption
  <1>4. p[m] \in walk[ChainMaxDepth]
    BY <1>1, <1>3, PathIsWalked
  <1>5. QED
    BY <1>2, <1>4

LEMMA Wrap ==
    ASSUME NEW n \in Nat \ {0}, NEW k \in 1..n
    PROVE  (k % n) + 1 = IF k = n THEN 1 ELSE k + 1
  OBVIOUS

(* A link that closes a loop no longer than the walk can close would have  *)
(* been refused by the check, over any links that include the table's.     *)
LEMMA NewLinkCloses ==
    ASSUME NEW E, NoShortLoop(E), NEW S, E \subseteq S, NEW new,
           ~Walked(S, new.to, new.from)
    PROVE  NoShortLoop(E \cup {new})
  <1> SUFFICES ASSUME NEW n \in 1..(ChainMaxDepth + 1), NEW loop \in [1..n -> JobIds],
                      Loop(E \cup {new}, n, loop)
               PROVE  FALSE
    BY DEF NoShortLoop
  <1>0. ChainMaxDepth \in Nat /\ n \in Nat \ {0}
    BY DefinitionsAssumption
  <1> DEFINE after(k) == IF k = n THEN 1 ELSE k + 1
  <1>1. \A k \in 1..n : Linked(E \cup {new}, loop[k], loop[after(k)])
    BY <1>0, Wrap DEF Loop
  <1>2. PICK k \in 1..n : ~Linked(E, loop[k], loop[after(k)])
    <2>1. PICK k \in 1..n : ~Linked(E, loop[k], loop[(k % n) + 1])
      BY DEF NoShortLoop, Loop
    <2>2. (k % n) + 1 = after(k)
      BY <1>0, Wrap
    <2> HIDE DEF after
    <2>3. QED
      BY <2>1, <2>2
  <1>3. loop[k] = new.from /\ loop[after(k)] = new.to
    BY <1>1, <1>2 DEF Linked
  <1> DEFINE at(i) == IF k + i + 1 <= n THEN k + i + 1 ELSE k + i + 1 - n
             p == [i \in 0..(n - 1) |-> loop[at(i)]]
             T == {i \in 0..(n - 1) : p[i] = new.from}
  <1>4. at(0) = after(k) /\ at(n - 1) = k
    BY <1>0
  <1>5. ASSUME NEW i \in 0..(n - 1), i # n - 1 PROVE at(i) \in 1..n /\ at(i + 1) = after(at(i))
    BY <1>0, <1>5
  <1>6. n - 1 \in T
    BY <1>0, <1>3, <1>4
  <1>7. p[0] = new.to
    <2>1. 0 \in 0..(n - 1)
      BY <1>0
    <2> HIDE DEF at, after
    <2>2. QED
      BY <1>3, <1>4, <2>1
  <1>8. PICK m \in T : \A i \in T : m <= i
    <2>1. T \in SUBSET Nat
      OBVIOUS
    <2> HIDE DEF T
    <2>2. QED
      BY <1>6, <2>1, LeastElement
  <1>9. m \in 0..(n - 1) /\ p[m] = new.from
    BY <1>8
  <1>10. Path(S, p, m)
    <2>1. SUFFICES ASSUME NEW i \in 0..(m - 1)
                   PROVE  \E l \in S : l.from = p[i] /\ l.to = p[i + 1]
      BY DEF Path
    <2>2. i \in 0..(n - 1) /\ i # n - 1 /\ i + 1 \in 0..(n - 1) /\ ~(m <= i)
      BY <1>0, <1>9
    <2>3. p[i] # new.from
      BY <1>8, <2>2
    <2>4. p[i] = loop[at(i)] /\ p[i + 1] = loop[after(at(i))] /\ at(i) \in 1..n
      BY <1>5, <2>2
    <2> HIDE DEF p, at, after
    <2>5. Linked(E \cup {new}, p[i], p[i + 1])
      BY <1>1, <2>4
    <2>6. QED
      BY <2>3, <2>5 DEF Linked
  <1>11. m \in 0..ChainMaxDepth
    BY <1>0, <1>9
  <1> HIDE DEF p
  <1>12. Walked(S, p[0], p[m])
    BY <1>10, <1>11, CheckFindsPath
  <1>13. QED
    BY <1>7, <1>9, <1>12

(* Only two statements touch the links. *)
LEMMA LinksKept ==
    ASSUME [Next]_vars
    PROVE  \/ links' = links /\ raced' = raced
           \/ \E c \in Clients : CreateLink(c) \/ DeleteLink(c)
  <1> USE DEF Same, Reads, tables
  <1>1. CASE \E c \in Clients : Handlers(c)
    BY <1>1 DEF Handlers, CreateJob, UpdateJob, Save, DeleteJob, Toggle, Delete, Clone,
                AddSchedule, RemoveSchedule, AddLink, RemoveLink, Sync, NewProject,
                DeleteProject, SaveProject, RotateKey, Enter
  <1>2. CASE \E c \in Clients : JobSteps(c)
    <2>1. PICK c \in Clients : JobSteps(c)
      BY <1>2
    <2>2. CASE \/ Lookup(c) \/ ValidateNew(c) \/ Insert(c) \/ GetForUpdate(c)
               \/ Update(c)
      BY <2>2 DEF Lookup, ValidateNew, Insert, GetForUpdate, Update
    <2>3. CASE \/ WriteSchedules(c) \/ WriteHeaders(c) \/ ReadJob(c) \/ CloneJob(c)
               \/ SetActive(c) \/ SoftDelete(c)
      BY <2>3 DEF WriteSchedules, WriteHeaders, ReadJob, CloneJob, SetActive, SoftDelete
    <2>4. CASE \/ CreateSchedule(c) \/ DeleteSchedule(c) \/ CountSchedules(c)
               \/ CountTriggers(c) \/ Deactivate(c)
      BY <2>4 DEF CreateSchedule, DeleteSchedule, CountSchedules, CountTriggers,
                  Deactivate
    <2>5. QED
      BY <2>1, <2>2, <2>3, <2>4 DEF JobSteps
  <1>3. CASE \E c \in Clients : LinkSteps(c)
    BY <1>3 DEF LinkSteps, ReadEnds, CheckLoop, applyLinks
  <1>4. CASE \E c \in Clients : OtherSteps(c)
    BY <1>4 DEF OtherSteps, ProjectKey, ListForPrune, PruneJob, Answer, CreateProject,
                ReadProject, UpdateProject, SetKey, ListActive, RemoveProject
  <1>5. CASE \E c \in Clients : StatementFails(c) \/ Abandon(c)
    BY <1>5 DEF StatementFails, Abandon, Fault
  <1>6. CASE UNCHANGED vars
    BY <1>6 DEF vars
  <1>7. QED
    BY <1>1, <1>2, <1>3, <1>4, <1>5, <1>6 DEF Next, Done

(* Unless a link went in between another one's check and its insert, no    *)
(* chain of links comes back to its start within the steps the check looks *)
(* ahead, whatever is deleted, moved, abandoned or fails in between.       *)
THEOREM NoLoopWithoutRace == Spec => []LoopNeedsRace
  <1>1. Init => LoopNeedsRace
    <2>1. Init => NoShortLoop(links)
      <3>1. SUFFICES ASSUME Init PROVE NoShortLoop({})
        BY DEF Init
      <3>2. ASSUME NEW n \in 1..(ChainMaxDepth + 1) PROVE 1 \in 1..n
        BY <3>2, DefinitionsAssumption
      <3>3. QED
        BY <3>2 DEF NoShortLoop, Loop, Linked
    <2>2. QED
      BY <2>1, LoopNeedsRaceIs
  <1>2. DefinitionsInv /\ LoopNeedsRace /\ [Next]_vars => LoopNeedsRace'
    <2> SUFFICES ASSUME DefinitionsInv, raced \/ NoShortLoop(links), [Next]_vars
                 PROVE  raced' \/ NoShortLoop(links')
      BY LoopNeedsRaceIs DEF LoopNeedsRace, NoShortLoop, Loop, Linked
    <2>1. CASE links' = links /\ raced' = raced
      BY <2>1
    <2>2. ASSUME NEW c \in Clients, DeleteLink(c) PROVE raced' \/ NoShortLoop(links')
      <3>1. links' \in SUBSET links /\ raced' = raced
        BY <2>2 DEF DeleteLink, DeleteLinkRow, Same
      <3>2. QED
        BY <3>1, FewerLinks
    <2>3. ASSUME NEW c \in Clients, CreateLink(c) PROVE raced' \/ NoShortLoop(links')
      <3>1. ~Walked(req[c].saw, req[c].to, req[c].job)
        BY <2>3, InvParts DEF CreateLink, At, Scoped
      <3>2. PICK new : /\ links' = links \cup {new}
                       /\ new.from = req[c].job /\ new.to = req[c].to
        <4>1. PICK condition : InsertLink(req[c].job, req[c].to, condition)
          BY <2>3 DEF CreateLink
        <4> DEFINE new == [from |-> req[c].job, to |-> req[c].to, condition |-> condition]
        <4>2. new.from = req[c].job /\ new.to = req[c].to /\ links' = links \cup {new}
          BY <4>1 DEF InsertLink
        <4> HIDE DEF new
        <4>3. QED
          BY <4>2
      <3>3. raced' = (raced \/ ~(links \subseteq req[c].saw))
        BY <2>3 DEF CreateLink
      <3>4. CASE raced \/ ~(links \subseteq req[c].saw)
        BY <3>3, <3>4
      <3>5. CASE NoShortLoop(links) /\ links \subseteq req[c].saw
        BY <3>1, <3>2, <3>5, NewLinkCloses
      <3>6. QED
        BY <3>4, <3>5
    <2>4. QED
      BY <2>1, <2>2, <2>3, LinksKept
  <1>3. QED
    BY <1>1, <1>2, DefinitionsInvariant, PTL DEF Spec
=============================================================================
