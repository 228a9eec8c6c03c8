-------------------------------- MODULE Ctl --------------------------------
(***************************************************************************)
(* The command line client (cmd/cronsolectl/main.go) against the project   *)
(* side of the API (internal/handler/api_handler.go).                      *)
(*                                                                         *)
(* A pipeline reads one thing of a command, its exit code.  Between the    *)
(* command and the server lies a network that may lose the request or the  *)
(* answer, with a timeout on the client's side only: a request the client  *)
(* has given up on may still be served.  Runs move on at the server while  *)
(* a command waits, and the list it polls is one page of the newest rows.  *)
(* What a sync does to the jobs is the subject of module Definitions; here *)
(* it applies some of the declared jobs and refuses the rest.              *)
(***************************************************************************)
EXTENDS Integers, Sequences, FiniteSets

CONSTANTS
    Clients,      \* processes of the client, one command each
    Commands,     \* command lines that may be typed
    PageLimit,    \* rows the waiting command asks for, 50 in the code
    Day,          \* how far back a list goes that names no start, 24 hours
    MaxRows, MaxClock

exitOK == 0
exitError == 1
exitUsage == 2
exitPartial == 3
exitRunBad == 4

VARIABLES
    queue,   \* job_runs, oldest first: [mine, status, created]
    keyOk,   \* whether the clients' key still is the key of their project
    wire,    \* per client: the request on its way or the answer to it
    proc,    \* per client: the command, its place in it, what it knows
    clock

vars == <<queue, keyOk, wire, proc, clock>>

Silent == [state |-> "none", path |-> "", code |-> 0, runID |-> 0, runs |-> {}, failed |-> {}]
Shell == [pc |-> "shell"]
Process(cmd, pc, exit) ==
    [cmd |-> cmd, pc |-> pc, runID |-> 0, deadline |-> 0, exit |-> exit, saw |-> ""]

Init ==
    /\ queue = <<>>
    /\ keyOk = TRUE
    /\ wire = [c \in Clients |-> Silent]
    /\ proc = [c \in Clients |-> Shell]
    /\ clock = 1

---------------------------------------------------------------------------
(* The command line *)

Cmd(c) == proc[c].cmd
At(c, p) == proc[c].pc = p
Exit(c, code, saw) ==
    proc' = [proc EXCEPT ![c].pc = "exited", ![c].exit = code, ![c].saw = saw]

(* main hands the arguments to a command; help and version are printed,   *)
(* and anything else is bad usage.                                         *)
run(c) ==
    /\ At(c, "shell")
    /\ \E cmd \in Commands :
        proc' = [proc EXCEPT ![c] =
                   IF cmd.kind \in {"sync", "jobs", "run", "runs"}
                   THEN Process(cmd, cmd.kind, exitOK)
                   ELSE Process(cmd, "exited", IF cmd.kind = "help" THEN exitOK ELSE exitUsage)]
    /\ UNCHANGED <<queue, keyOk, wire, clock>>

(* The address and the key are there, from the flags or the environment. *)
bind(c) == Cmd(c).credentials

(* A file that parses and has an entry for jobs, be it an empty one. *)
readDeclaration(c) == Cmd(c).file \in {"jobs", "emptyJobs"}

(* call: the request goes out, and the command waits for the answer. *)
call(c, path, pc) ==
    /\ wire' = [wire EXCEPT ![c] = [Silent EXCEPT !.state = "sent", !.path = path]]
    /\ proc' = [proc EXCEPT ![c].pc = pc]

cmdSync(c) ==
    /\ At(c, "sync")
    /\ CASE ~Cmd(c).flags \/ ~readDeclaration(c) -> Exit(c, exitUsage, "") /\ UNCHANGED wire
         [] Cmd(c).flags /\ readDeclaration(c) /\ Cmd(c).dryRun ->
              Exit(c, exitOK, "") /\ UNCHANGED wire
         [] OTHER -> IF bind(c) THEN call(c, "/sync", "syncing")
                     ELSE Exit(c, exitUsage, "") /\ UNCHANGED wire
    /\ UNCHANGED <<queue, keyOk, clock>>

(* The code of the job must be there, before or after the flags. *)
cmdRun(c) ==
    /\ At(c, "run")
    /\ IF Cmd(c).flags /\ Cmd(c).code /\ bind(c)
       THEN call(c, "/jobs/run", "running") ELSE Exit(c, exitUsage, "") /\ UNCHANGED wire
    /\ UNCHANGED <<queue, keyOk, clock>>

cmdJobs(c) ==
    /\ At(c, "jobs")
    /\ IF Cmd(c).flags /\ bind(c)
       THEN call(c, "/jobs", "listing") ELSE Exit(c, exitUsage, "") /\ UNCHANGED wire
    /\ UNCHANGED <<queue, keyOk, clock>>

cmdRuns(c) ==
    /\ At(c, "runs")
    /\ IF Cmd(c).flags /\ bind(c)
       THEN call(c, "/runs", "listing") ELSE Exit(c, exitUsage, "") /\ UNCHANGED wire
    /\ UNCHANGED <<queue, keyOk, clock>>

---------------------------------------------------------------------------
(* The server.  A request is served whether or not its client still waits. *)

Answer(c, code) == wire' = [wire EXCEPT ![c].state = "answered", ![c].code = code]

(* The middleware, and the failures any handler may answer with. *)
ProjectKey(c) ==
    /\ wire[c].state = "sent"
    /\ \/ ~keyOk /\ Answer(c, 401)
       \/ Answer(c, 500)
    /\ UNCHANGED <<queue, keyOk, proc, clock>>

(* projectScope: past the middleware there is a project. *)
projectScope(c, path) == wire[c].state = "sent" /\ wire[c].path = path /\ keyOk

(* An empty declaration is refused, pruning or not. *)
Sync(c) ==
    /\ projectScope(c, "/sync")
    /\ IF Cmd(c).file = "emptyJobs" THEN Answer(c, 400)
       ELSE \E failed \in SUBSET Cmd(c).declares :
              wire' = [wire EXCEPT ![c].state = "answered", ![c].failed = failed,
                                   ![c].code = IF failed # {} THEN 207 ELSE 200]
    /\ UNCHANGED <<queue, keyOk, proc, clock>>

Enqueue(mine) == Append(queue, [mine |-> mine, status |-> "pending", created |-> clock])

(* A code the project does not have is answered with 404. *)
ProjectTrigger(c) ==
    /\ projectScope(c, "/jobs/run")
    /\ IF Cmd(c).known
       THEN /\ Len(queue) < MaxRows
            /\ queue' = Enqueue(TRUE)
            /\ wire' = [wire EXCEPT ![c].state = "answered", ![c].code = 202,
                                    ![c].runID = Len(queue) + 1]
       ELSE Answer(c, 404) /\ UNCHANGED queue
    /\ UNCHANGED <<keyOk, proc, clock>>

ProjectJobs(c) ==
    /\ projectScope(c, "/jobs")
    /\ Answer(c, 200)
    /\ UNCHANGED <<queue, keyOk, proc, clock>>

(* RunRepo's conditions: the project of the key, and the last day. *)
runFilter == {r \in DOMAIN queue : queue[r].mine /\ clock - queue[r].created <= Day}

(* RunRepo.List: the newest rows that match, up to the limit. *)
List == {r \in runFilter : Cardinality({s \in runFilter : s > r}) < PageLimit}

ProjectRuns(c) ==
    /\ projectScope(c, "/runs")
    /\ wire' = [wire EXCEPT ![c].state = "answered", ![c].code = 200,
                            ![c].runs = {[id |-> r, status |-> queue[r].status] : r \in List}]
    /\ UNCHANGED <<queue, keyOk, proc, clock>>

---------------------------------------------------------------------------
(* What the client makes of the answer *)

Answered(c, pc) == At(c, pc) /\ wire[c].state = "answered"
Refused(c) == wire[c].code >= 400

codeForSync(status) == IF status = 207 THEN exitPartial ELSE exitOK

SyncAnswered(c) ==
    /\ Answered(c, "syncing")
    /\ Exit(c, IF Refused(c) THEN exitError ELSE codeForSync(wire[c].code), "")
    /\ UNCHANGED <<queue, keyOk, wire, clock>>

ListAnswered(c) ==
    /\ Answered(c, "listing")
    /\ Exit(c, IF Refused(c) THEN exitError ELSE exitOK, "")
    /\ UNCHANGED <<queue, keyOk, wire, clock>>

RunAnswered(c) ==
    /\ Answered(c, "running")
    /\ CASE Refused(c) -> Exit(c, exitError, "")
         [] ~Refused(c) /\ ~Cmd(c).wait ->
              proc' = [proc EXCEPT ![c].pc = "exited", ![c].runID = wire[c].runID]
         [] OTHER -> proc' = [proc EXCEPT ![c].pc = "waiting", ![c].runID = wire[c].runID,
                                          ![c].deadline = clock + Cmd(c).timeout]
    /\ UNCHANGED <<queue, keyOk, wire, clock>>

(* No answer: unreachable, lost on the way, too late, or not from the      *)
(* server.  The command fails, a wait goes on; the request may have        *)
(* arrived all the same.                                                   *)
NoAnswer(c) ==
    /\ \/ /\ At(c, "syncing") \/ At(c, "listing") \/ At(c, "running")
          /\ Exit(c, exitError, "")
       \/ /\ At(c, "polling")
          /\ proc' = [proc EXCEPT ![c].pc = "waiting"]
    /\ \/ UNCHANGED wire
       \/ wire[c].state = "sent" /\ wire' = [wire EXCEPT ![c] = Silent]
    /\ UNCHANGED <<queue, keyOk, clock>>

---------------------------------------------------------------------------
(* waitForRun *)

terminal == {"success", "failed", "timeout", "skipped"}

(* The head of the list is taken for the run. *)
Found_Newest(c) ==
    {r \in wire[c].runs : r.status \in terminal /\ \A s \in wire[c].runs : s.id <= r.id}

Found(c) == {r \in wire[c].runs : r.id = proc[c].runID /\ r.status \in terminal}

CheckDeadline(c) ==
    /\ At(c, "waiting")
    /\ IF clock > proc[c].deadline THEN Exit(c, exitRunBad, "deadline")
       ELSE proc' = [proc EXCEPT ![c].pc = "asleep"]
    /\ UNCHANGED <<queue, keyOk, wire, clock>>

Poll(c) ==
    /\ At(c, "asleep")
    /\ call(c, "/runs", "polling")
    /\ UNCHANGED <<queue, keyOk, clock>>

waitForRun(c) ==
    /\ Answered(c, "polling")
    /\ \/ \E r \in Found(c) :
            /\ ~Refused(c)
            /\ Exit(c, IF r.status = "success" THEN exitOK ELSE exitRunBad, r.status)
       \/ /\ Refused(c) \/ Found(c) = {}
          /\ proc' = [proc EXCEPT ![c].pc = "waiting"]
    /\ UNCHANGED <<queue, keyOk, wire, clock>>

---------------------------------------------------------------------------
(* Around them: the scheduler, other callers, the clock *)

OtherRun ==
    /\ Len(queue) < MaxRows
    /\ \E mine \in BOOLEAN : queue' = Enqueue(mine)
    /\ UNCHANGED <<keyOk, wire, proc, clock>>

(* The life of a row: module RunLifecycle, the late result included. *)
RunMoves ==
    /\ \E r \in DOMAIN queue : \E s \in terminal \cup {"running"} :
        /\ <<queue[r].status, s>> \in
             {"pending"} \X {"running", "skipped"} \cup {"running", "timeout"} \X {"success", "failed"}
             \cup {<<"running", "timeout">>}
        /\ queue' = [queue EXCEPT ![r].status = s]
    /\ UNCHANGED <<keyOk, wire, proc, clock>>

KeyRotated ==
    /\ keyOk /\ keyOk' = FALSE
    /\ UNCHANGED <<queue, wire, proc, clock>>

Tick ==
    /\ clock < MaxClock /\ clock' = clock + 1
    /\ UNCHANGED <<queue, keyOk, wire, proc>>

Next ==
    \/ \E c \in Clients :
        \/ run(c) \/ cmdSync(c) \/ cmdRun(c) \/ cmdJobs(c) \/ cmdRuns(c)
        \/ ProjectKey(c) \/ Sync(c) \/ ProjectTrigger(c) \/ ProjectJobs(c) \/ ProjectRuns(c)
        \/ SyncAnswered(c) \/ ListAnswered(c) \/ RunAnswered(c) \/ NoAnswer(c)
        \/ CheckDeadline(c) \/ Poll(c) \/ waitForRun(c)
    \/ OtherRun \/ RunMoves \/ KeyRotated \/ Tick

Spec == Init /\ [][Next]_vars

---------------------------------------------------------------------------
(* "A pipeline switches on these, so they are part of the contract": what  *)
(* each exit code says has happened at the server, whatever was lost on    *)
(* the way and whoever else queues runs meanwhile.                         *)
MeansQueued(c) == proc[c].runID \in DOMAIN queue /\ queue[proc[c].runID].mine

ExitCodeTruthful ==
    \A c \in Clients : At(c, "exited") =>
        CASE proc[c].exit = exitOK ->
               /\ Cmd(c).kind = "run" => MeansQueued(c)
               /\ (Cmd(c).kind = "run" /\ Cmd(c).wait)
                    => queue[proc[c].runID].status = "success"
               /\ Cmd(c).kind = "sync" =>
                    wire[c].failed = {} /\ (Cmd(c).dryRun <=> wire[c].state = "none")
          [] proc[c].exit = exitUsage -> wire[c].state = "none"
          [] proc[c].exit = exitPartial -> Cmd(c).kind = "sync" /\ wire[c].failed # {}
          [] proc[c].exit = exitRunBad ->
               /\ MeansQueued(c) /\ Cmd(c).wait
               /\ proc[c].saw # "deadline" =>
                    queue[proc[c].runID].status # "success" \/ proc[c].saw = "timeout"
          [] OTHER -> TRUE
=============================================================================
