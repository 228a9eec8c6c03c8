----------------------------- MODULE MCServices -----------------------------
(***************************************************************************)
(* An instance of Services for TLC: what the rows, requests, expressions   *)
(* and commands of each service are. The small values are in the cfg.      *)
(***************************************************************************)
EXTENDS Services

CONSTANTS r1, r2, c1, c2

---------------------------------------------------------------------------
(* Accounts *)

Admin == [pw |-> "p", admin |-> TRUE]

MCAccountScenarios ==
    {[accounts |-> a, todo |-> t] : a \in {<<>>},
        t \in {<<"setup", "setup", "login">>, <<"setup", "createUser", "deleteUser", "setup">>}}
    \cup {[accounts |-> <<Admin>>, todo |-> t] :
        t \in {<<"login", "changePassword", "login">>, <<"login", "changePassword", "logout">>,
               <<"login", "updateUser", "login">>, <<"forgot", "forgot", "reset", "reset">>,
               <<"login", "forgot", "reset", "changePassword">>}}
    \cup {[accounts |-> <<Admin, Admin>>,
           todo |-> t] : t \in {<<"login", "login", "deleteUser", "deleteUser">>,
                                <<"login", "forgot", "reset", "deleteUser">>}}

---------------------------------------------------------------------------
(* Members: 1 is a platform administrator; 3 administers A, and on B is a  *)
(* writer who may manage members.                                          *)

MCBinary == ("project_reader" :> {"runs.read"}) @@ ("project_writer" :> {"runs.read"})
            @@ ("project_admin" :> {"runs.read", "members.manage"})
Binary2 == ("project_reader" :> {}) @@ MCBinary

RoleKeys == {"project_reader", "project_writer", "project_admin", "steward"}
Held == {<<2, "project_admin", "A">>, <<3, "project_admin", "A">>,
         <<3, "project_writer", "B">>, <<3, "steward", "B">>, <<4, "project_reader", "every">>}
MCAssigned == [u \in 1..4 |-> [r \in RoleKeys |-> {h[3] : h \in {x \in Held : x[1] = u /\ x[2] = r}}]]

Member(k, ca, p, u, r) == [kind |-> k, caller |-> ca, project |-> p, user |-> u, role |-> r]
Changes(k) == {Member(k, ca, p, u, r) : ca \in {2, 3}, p \in {"A", "B"}, u \in {3, 4},
                                        r \in {"project_writer", "project_admin"}}
Narrow(v) == [kind |-> "visibility", caller |-> 1, role |-> "project_reader", view |-> v]
Upgrade(b) == [kind |-> "restart", bin |-> b]
Delete(u) == [kind |-> "delete", caller |-> 1, user |-> u]

MCMemberTodo ==
    {<<a, b>> : a \in Changes("add"), b \in Changes("add")}
    \cup {<<a, b>> : a \in Changes("remove"),
                     b \in {Member("add", 3, "A", 4, "project_admin"),
                            Member("add", 2, "A", 4, "project_writer")}}
    \cup {<<Member("add", 1, "B", 4, "steward"), Delete(4)>>,
          <<Member("add", 1, "B", 4, "project_admin"), Member("remove", 3, "B", 4, "project_admin")>>,
          <<Member("remove", 1, "A", 3, "project_admin"), Member("add", 3, "A", 4, "project_admin")>>,
          <<Delete(4), Member("add", 3, "A", 4, "project_admin")>>,
          <<Member("remove", 2, "A", 4, "project_reader"),
            Member("add", 1, "B", 4, "project_reader")>>}
    \cup {<<Narrow(v), Upgrade(b), Upgrade(MCBinary)>> :
            v \in {{}, {"error"}, {"output", "error", "request_url"}}, b \in {MCBinary, Binary2}}

MCCustom == "steward" :> {"members.manage"}

---------------------------------------------------------------------------
(* Host routes: a name is routed at the start, for every port *)

Form(i, h, p, a, x) == [id |-> i, host |-> h, port |-> p, addr |-> a, active |-> x]

MCRows0 == <<[host |-> "h", port |-> 0, addr |-> "a1", active |-> TRUE],
             [active |-> FALSE, host |-> ""]>>
MCForms == {Form(0, "h", 80, "a2", TRUE), Form(1, "h", 0, "a2", TRUE),
            Form(1, "h", 443, "a1", FALSE), Form(0, "h", 0, "private", TRUE)}

---------------------------------------------------------------------------
(* The login limiter: one caller, with and without another's address in    *)
(* the header it sends.                                                    *)
MCProxies == <<"p1">>
MCAttempts ==
    {[route |-> "form", source |-> "s1", email |-> "e1", written |-> <<>>],
     [route |-> "api", source |-> "s1", email |-> "", written |-> <<"s2">>]}

---------------------------------------------------------------------------
(* Cron expressions, in a calendar of months of three and two days and a   *)
(* week of three: the day a month lacks, and 0 and 3 for one weekday.      *)

Bounds(a, b) == [min |-> a, max |-> b]
MCCalendar == [d \in 1..13 |->
    LET i == (d - 1) % 5 IN [month |-> IF i < 3 THEN 1 ELSE 2,
                             day |-> IF i < 3 THEN i + 1 ELSE i - 2, weekday |-> d % 3]]
Star(s) == [kind |-> "*", a |-> 0, z |-> 0, step |-> s]
Value(n, s) == [kind |-> "value", a |-> n, z |-> 0, step |-> s]
Between(a, z, s) == [kind |-> "range", a |-> a, z |-> z, step |-> s]
MCWritten ==
    {<<mi, <<Value(1, 0)>>, dm, mo, dw>> :
        mi \in {<<Star(0)>>, <<Value(1, 0)>>},
        dm \in {<<Star(0)>>, <<Star(1)>>, <<Value(2, 0)>>, <<Value(3, 0)>>, <<Value(1, 2)>>,
                <<Between(3, 2, 0)>>},
        mo \in {<<Star(0)>>, <<Value(2, 0)>>},
        dw \in {<<Star(0)>>, <<Value(3, 0)>>, <<Value(1, 0), Value(2, 0)>>,
                <<Between(0, 3, 2)>>, <<Value(4, 0)>>, <<Value(4, 2)>>, <<Star(-1)>>}}

MCBounds == <<Bounds(0, 1), Bounds(0, 1), Bounds(1, 3), Bounds(1, 2), Bounds(0, 3)>>

---------------------------------------------------------------------------
(* The command line client: one process, with every outcome of a command.  *)
(* The runs that others queue stand for further clients, so one is enough. *)

Run == [kind |-> "run", flags |-> TRUE, credentials |-> TRUE, code |-> TRUE, known |-> TRUE,
        wait |-> FALSE, timeout |-> 1, file |-> "", dryRun |-> FALSE, declares |-> {"j1", "j2"}]
SyncFile(f) == [Run EXCEPT !.kind = "sync", !.file = f]
MCCommands ==
    {Run, [Run EXCEPT !.wait = TRUE], [Run EXCEPT !.known = FALSE], [Run EXCEPT !.code = FALSE],
     SyncFile("jobs"), SyncFile("emptyJobs"), SyncFile("broken"),
     [SyncFile("jobs") EXCEPT !.dryRun = TRUE, !.credentials = FALSE],
     [SyncFile("jobs") EXCEPT !.credentials = FALSE],
     [Run EXCEPT !.kind = "jobs"], [Run EXCEPT !.kind = "jobs", !.credentials = FALSE],
     [Run EXCEPT !.kind = "runs"],
     [Run EXCEPT !.kind = "runs", !.flags = FALSE],
     [Run EXCEPT !.kind = "unknown"], [Run EXCEPT !.kind = "help"]}

---------------------------------------------------------------------------
(* Calls: five retries with the default time a run may take, which only    *)
(* the floor makes long enough; a redirected and failing target whose list *)
(* changes; a max_duration_sec of one timeout; a target refused.           *)

Address == [given |-> TRUE, form |-> "full", scheme |-> TRUE, host |-> TRUE, credentials |-> FALSE]
NoBase == [Address EXCEPT !.given = FALSE]
Path == [Address EXCEPT !.form = "path"]
Job(b, t, s, n, m) ==
    [base |-> b, target |-> t, timeout |-> s, retries |-> n, maxDuration |-> m]
Recipients(s, f, e) ==
    [onSuccess |-> s, onFailure |-> f, active |-> TRUE, deleted |-> FALSE, emails |-> e]
Ops == Recipients(FALSE, TRUE, {"ops"})
Relay(t, st, u) == [tls |-> t, startTLS |-> st, user |-> u]
Scenario(j, l, s, d, e, f, c) ==
    [job |-> j, list |-> l, server |-> s, due |-> d, edits |-> e, faults |-> f, until |-> c]

MCLists == {Recipients(TRUE, FALSE, {"dev"}), Recipients(FALSE, FALSE, {"ops"})}
MCCallScenarios ==
    {Scenario(Job(Address, Path, 1, 5, 0), [Ops EXCEPT !.active = FALSE],
              Relay(FALSE, FALSE, FALSE), <<0, 11>>, 0, 0, 13),
     Scenario(Job(NoBase, Address, 2, 1, 0), Ops, Relay(FALSE, TRUE, TRUE), <<0, 1>>, 1, 1, 3),
     Scenario(Job(Address, Path, 1, 1, 1), Ops, Relay(FALSE, FALSE, TRUE), <<0, 2>>, 0, 1, 4),
     Scenario(Job(Address, Address, 1, 0, 0), Ops, Relay(TRUE, FALSE, TRUE), <<0, 0>>, 1, 1, 1)}
=============================================================================
