------------------------------ MODULE Services ------------------------------
(***************************************************************************)
(* The services that keep state of their own, side by side.  They share no *)
(* table, so a behaviour runs one of them: focus says which, and a         *)
(* variable that it does not have stays 0.                                 *)
(***************************************************************************)
EXTENDS Integers, Sequences, FiniteSets, TLC

CONSTANTS
    Replicas, Clients,
    PerSecond,                       \* moments in a second
    UserIds, LinkIds, Passwords, Weak, TokenTTL, ResetTTL,
    AccountScenarios, AccountsEnd,                                     \* Accounts
    Users, Admins, Projects, Every, CustomRoles, Binary, Custom,
    Assigned, MemberTodo,                                              \* Members
    RowIds, Hosts, Ports, AnyPort, NoHost, Addresses, Unusable,
    Rows0, Forms, MaxWrites, MaxRestarts,                              \* HostRoutes
    Problems, AlertRepeat, MaxSweeps, AlertsEnd,                       \* Alerts
    Sources, Proxies, Emails, NoEmail, Headers, Attempts, Limit,
    Period, MaxAttempts, LimitEnd,                                     \* RateLimit
    bounds, DaysOfWeek, Calendar, ScanDays, Written, Starts, MaxRuns,  \* CronExpr
    Commands, Pipelines, PageLimit, Day, MaxRows, CtlEnd,              \* Ctl
    Runs, Codes, SuccessMin, SuccessMax, QueueSize, DefaultFloor,
    MaxTimeout, DialTimeout, Lists, CallScenarios                      \* Calls

VARIABLES
    focus,
    users, resets, tokens, setupDone, hist,                         \* Accounts
    assign, perms, fields, deleted, cache, boot, version, done, top, \* Members
    rows, table, task, writes, restarts, answered, late, held,      \* HostRoutes
    exists, note, wrong, sweep, mails, lost,                        \* Alerts
    proxy, hits, lastGC, attempt, let,                               \* RateLimit
    expr, from, cursor, runs, ended,                                \* CronExpr
    queue, keyOk, wire, proc,                                       \* Ctl
    job, run, atWork, answers, list, server, box, sender, told,     \* Calls
    until, edits, faults,
    req, todo, clock, begun                                         \* of several

---------------------------------------------------------------------------
A == INSTANCE Accounts WITH Scenarios <- AccountScenarios, MaxClock <- AccountsEnd

(* Ids count up, and moments are no longer than a second. *)
ASSUME AccountsAssumption ==
    /\ UserIds \subseteq Nat /\ IsFiniteSet(UserIds)
    /\ LinkIds \subseteq Nat
    /\ TokenTTL \in Nat /\ ResetTTL \in Nat

M == INSTANCE Members WITH Todo <- MemberTodo

(* What the screens of members send, and a start of a version of the       *)
(* program, which brings its own permissions of the built-in roles.        *)
MemberRequests ==
    [kind : {"add", "remove"}, caller : Users, project : Projects, user : Users, role : M!Roles]
    \cup [kind : {"delete"}, caller : Users, user : Users]
    \cup [kind : {"visibility"}, caller : Users, role : M!Roles, view : SUBSET M!RunFields]
    \cup [kind : {"restart"}, bin : [M!Builtin -> SUBSET STRING]]

(* An assignment is of projects, or of every project, which is none.       *)
ASSUME MembersAssumption ==
    /\ Every \notin Projects
    /\ Binary \in [M!Builtin -> SUBSET STRING]
    /\ Custom \in [CustomRoles -> SUBSET STRING]
    /\ Assigned \in [Users -> [M!Roles -> SUBSET (Projects \cup {Every})]]
    /\ MemberTodo \subseteq Seq(MemberRequests)

H == INSTANCE HostRoutes

W == INSTANCE Alerts WITH MaxClock <- AlertsEnd

(* A pause in moments, and whole moments to a second. *)
ASSUME AlertsAssumption == AlertRepeat \in Nat /\ PerSecond \in Nat \ {0}

L == INSTANCE RateLimit WITH MaxClock <- LimitEnd

(* A limit lets something through; an attempt comes from an address, and   *)
(* may have anything in the header.                                        *)
ASSUME LimitAssumption ==
    /\ Limit \in Nat \ {0} /\ Period \in Nat
    /\ Proxies \in Seq(STRING)
    /\ \A a \in Attempts : /\ a.route \in L!Routes /\ a.source \in Sources
                           /\ a.email \in Emails \cup {NoEmail} /\ a.written \in Seq(STRING)

C == INSTANCE CronExpr

(* Fields have bounds, the calendar an end, and what is written is numbers. *)
ASSUME CronAssumption ==
    /\ bounds \in [C!Fields -> [min : Nat, max : Nat]]
    /\ Calendar \in Seq([month : Int, day : Int, weekday : Int])
    /\ ScanDays \in Nat /\ Starts \subseteq Nat
    /\ Written \subseteq Seq(Seq([kind : {"*", "value", "range"}, a : Int, z : Int, step : Int]))

X == INSTANCE Ctl WITH Clients <- Pipelines, MaxClock <- CtlEnd

(* What may be typed: a command, whether its flags parse and name the      *)
(* address and the key, and what the flags say.                            *)
CommandLines == [kind : STRING, flags : BOOLEAN, credentials : BOOLEAN, code : BOOLEAN,
                 known : BOOLEAN, wait : BOOLEAN, timeout : Int, file : STRING,
                 dryRun : BOOLEAN, declares : SUBSET STRING]

ASSUME CtlAssumption == Commands \subseteq CommandLines

P == INSTANCE Calls WITH Scenarios <- CallScenarios

(* A list of recipients as its tables hold it. *)
ListRows == [onSuccess : BOOLEAN, onFailure : BOOLEAN, active : BOOLEAN, deleted : BOOLEAN,
             emails : SUBSET STRING]

(* What the form of a job allows (job_service.go), and a default for the   *)
(* time a run may take that is no shorter than five retries of a second:   *)
(* it is 300.                                                              *)
ASSUME CallsAssumption ==
    /\ \A s \in CallScenarios :
        /\ s.job.retries \in 0..5 /\ s.job.timeout \in Nat \ {0}
        /\ s.job.maxDuration \in Nat /\ s.list \in ListRows /\ s.due \in [Runs -> Nat]
    /\ Lists \subseteq ListRows
    /\ MaxTimeout \in Nat \ {0} /\ DialTimeout \in Nat
    /\ DefaultFloor \in Nat /\ DefaultFloor >= 11

---------------------------------------------------------------------------
accountsOnly == <<users, resets, tokens, setupDone, hist>>
membersOnly == <<assign, perms, fields, deleted, cache, boot, done, top>>
routesOnly == <<rows, table, task, writes, restarts, answered, late, held>>
alertsOnly == <<exists, note, wrong, sweep, mails, lost>>
limitOnly == <<proxy, hits, lastGC, attempt, let>>
cronOnly == <<expr, from, cursor, runs, ended>>
ctlOnly == <<queue, keyOk, wire, proc>>
callsOnly == <<job, run, atWork, answers, list, server, box, sender, told, until, edits, faults>>

allVars == <<focus, accountsOnly, membersOnly, routesOnly, alertsOnly, limitOnly, cronOnly,
             ctlOnly, callsOnly, req, todo, clock, begun, version>>

NoAccounts == users = 0 /\ resets = 0 /\ tokens = 0 /\ setupDone = 0 /\ hist = 0
NoMembers == /\ assign = 0 /\ perms = 0 /\ fields = 0 /\ deleted = 0
             /\ cache = 0 /\ boot = 0 /\ done = 0 /\ top = 0
NoRoutes == /\ rows = 0 /\ table = 0 /\ task = 0 /\ writes = 0
            /\ restarts = 0 /\ answered = 0 /\ late = 0 /\ held = 0
NoAlerts == exists = 0 /\ note = 0 /\ wrong = 0 /\ sweep = 0 /\ mails = 0 /\ lost = 0
NoLimit == proxy = 0 /\ hits = 0 /\ lastGC = 0 /\ attempt = 0 /\ let = 0
NoCron == expr = 0 /\ from = 0 /\ cursor = 0 /\ runs = 0 /\ ended = 0
NoCtl == queue = 0 /\ keyOk = 0 /\ wire = 0 /\ proc = 0
NoCalls == /\ job = 0 /\ run = 0 /\ atWork = 0 /\ answers = 0 /\ list = 0 /\ server = 0
           /\ box = 0 /\ sender = 0 /\ told = 0 /\ until = 0 /\ edits = 0 /\ faults = 0

Init ==
    \/ /\ focus = "accounts" /\ A!Init
       /\ NoMembers /\ NoRoutes /\ NoAlerts /\ NoLimit /\ NoCron /\ NoCtl /\ NoCalls /\ begun = 0 /\ version = 0
    \/ /\ focus = "members" /\ M!Init
       /\ NoAccounts /\ NoRoutes /\ NoAlerts /\ NoLimit /\ NoCron /\ NoCtl /\ NoCalls /\ clock = 0 /\ begun = 0
    \/ /\ focus = "routes" /\ H!Init
       /\ NoAccounts /\ NoMembers /\ NoAlerts /\ NoLimit /\ NoCron /\ NoCtl /\ NoCalls
       /\ req = 0 /\ todo = 0 /\ clock = 0 /\ begun = 0
    \/ /\ focus = "alerts" /\ W!Init
       /\ NoAccounts /\ NoMembers /\ NoRoutes /\ NoLimit /\ NoCron /\ NoCtl /\ NoCalls
       /\ req = 0 /\ todo = 0 /\ version = 0
    \/ /\ focus = "limit" /\ L!Init
       /\ NoAccounts /\ NoMembers /\ NoRoutes /\ NoAlerts /\ NoCron /\ NoCtl /\ NoCalls
       /\ req = 0 /\ todo = 0 /\ version = 0
    \/ /\ focus = "cron" /\ C!Init
       /\ NoAccounts /\ NoMembers /\ NoRoutes /\ NoAlerts /\ NoLimit /\ NoCtl /\ NoCalls
       /\ req = 0 /\ todo = 0 /\ clock = 0 /\ begun = 0 /\ version = 0
    \/ /\ focus = "ctl" /\ X!Init
       /\ NoAccounts /\ NoMembers /\ NoRoutes /\ NoAlerts /\ NoLimit /\ NoCron /\ NoCalls
       /\ req = 0 /\ todo = 0 /\ begun = 0 /\ version = 0
    \/ /\ focus = "calls" /\ P!Init
       /\ NoAccounts /\ NoMembers /\ NoRoutes /\ NoAlerts /\ NoLimit /\ NoCron /\ NoCtl
       /\ req = 0 /\ todo = 0 /\ begun = 0 /\ version = 0

Next ==
    \/ /\ focus = "accounts" /\ A!Next
       /\ UNCHANGED <<focus, membersOnly, routesOnly, alertsOnly, limitOnly, cronOnly, ctlOnly, callsOnly, begun, version>>
    \/ /\ focus = "members" /\ M!Next
       /\ UNCHANGED <<focus, accountsOnly, routesOnly, alertsOnly, limitOnly, cronOnly, ctlOnly, callsOnly, clock, begun>>
    \/ /\ focus = "routes" /\ H!Next
       /\ UNCHANGED <<focus, accountsOnly, membersOnly, alertsOnly, limitOnly, cronOnly,
                      ctlOnly, callsOnly, req, todo, clock, begun>>
    \/ /\ focus = "alerts" /\ W!Next
       /\ UNCHANGED <<focus, accountsOnly, membersOnly, routesOnly, limitOnly, cronOnly,
                      ctlOnly, callsOnly, req, todo, version>>
    \/ /\ focus = "limit" /\ L!Next
       /\ UNCHANGED <<focus, accountsOnly, membersOnly, routesOnly, alertsOnly, cronOnly,
                      ctlOnly, callsOnly, req, todo, version>>
    \/ /\ focus = "cron" /\ C!Next
       /\ UNCHANGED <<focus, accountsOnly, membersOnly, routesOnly, alertsOnly, limitOnly,
                      ctlOnly, callsOnly, req, todo, clock, begun, version>>
    \/ /\ focus = "ctl" /\ X!Next
       /\ UNCHANGED <<focus, accountsOnly, membersOnly, routesOnly, alertsOnly, limitOnly, cronOnly,
                      callsOnly, req, todo, begun, version>>
    \/ /\ focus = "calls" /\ P!Next
       /\ UNCHANGED <<focus, accountsOnly, membersOnly, routesOnly, alertsOnly, limitOnly, cronOnly,
                      ctlOnly, req, todo, begun, version>>

Spec == Init /\ [][Next]_allVars

---------------------------------------------------------------------------
(* auth_service.go: a session that still works was opened with the present *)
(* password of its account.                                                *)
SessionsEndWithPassword == focus = "accounts" => A!SessionsEndWithPassword

(* auth_service.go: a reset ends every link the account was sent before,   *)
(* outside the three races that Accounts names.                            *)
OldLinksDieWithReset == focus = "accounts" => A!OldLinksDieWithReset

(* user_repo.go, CreateFirstAdmin: set-up makes one administrator, once. *)
FirstAdminOnce == focus = "accounts" => A!FirstAdminOnce

(* member_service.go: project administrators raise nobody above what there was. *)
NoEscalation == focus = "members" => M!NoEscalation

(* member_service.go: a replica decides from nothing older than the change *)
(* it has just answered.                                                   *)
ChangeSeenWhereMade == focus = "members" => M!ChangeSeenWhereMade

(* authz_repo.go, ReplaceRolePermissions: an upgrade widens no restriction. *)
NarrowedStaysNarrow == [][focus = "members" => M!OnlyNarrows]_allVars

(* host_override_service.go, Reload: a target routed all along stays routed. *)
RouteNeverLost == focus = "routes" => H!RouteNeverLost

(* host_override_service.go, Save: what was answered is in force. *)
AnsweredRouteInForce == focus = "routes" => H!AnsweredRouteInForce

(* watchdog.go, alert: only what was handed over as a mail is held back. *)
HeldBackOnlyIfAlerted == [][focus = "alerts" => W!HeldBackWasAlerted]_allVars

(* ratelimit.go: the limit holds over any span of a period. *)
AttemptsBounded == focus = "limit" => L!AttemptsBounded

(* cronexpr.go: the firings shown are the minutes that fire. *)
PreviewIsWhatFires == focus = "cron" => C!PreviewIsWhatFires

(* cronsolectl: an exit code says what happened at the server. *)
ExitCodeTruthful == focus = "ctl" => X!ExitCodeTruthful

(* runner.go: no two calls of a run, nor two runs of a job, at a time. *)
NoDoubleWork == focus = "calls" => P!NoDoubleWork

(* runner.go, notifier.go: rows and mails say what the target did. *)
ReportsAreTrue == focus = "calls" => P!ReportsAreTrue
=============================================================================
