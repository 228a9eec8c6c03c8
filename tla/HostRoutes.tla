----------------------------- MODULE HostRoutes -----------------------------
(***************************************************************************)
(* The dialer's routes: internal/service/host_override_service.go over     *)
(* host_override_repo.go, and its screen in settings_handler.go.           *)
(*                                                                         *)
(* Every replica dials from a table of its own.  A save or a delete writes *)
(* the row and reloads the table of its replica; a ticker reloads every    *)
(* table; a reload reads, and then replaces, and two of them may overlap.  *)
(***************************************************************************)
EXTENDS Integers, FiniteSets

CONSTANTS
    RowIds,        \* ids of host_overrides
    Hosts, Ports,  \* host names and ports; AnyPort stands for no port
    AnyPort, NoHost,
    Addresses, Unusable, \* addresses, and those the policy of this deployment refuses
    Replicas,
    Rows0,         \* rows at the start
    Forms,         \* what the screen may submit: [id, host, port, addr, active]
    MaxWrites, MaxRestarts

VARIABLES
    rows,      \* host_overrides: RowIds -> a route, or NoRow
    table,     \* HostResolver, per replica: the active rows it was made from
    task,      \* per replica, its request and its ticker
    writes, restarts,
    version,   \* history: writes made so far
    answered,  \* history: per replica, the last write whose request was answered
    late,      \* history: per replica, a reload put back an older reading
    held       \* history: the targets that were routed all along

vars == <<rows, table, task, writes, restarts, version, answered, late, held>>

NoRow == [active |-> FALSE, host |-> NoHost]
Idle == [pc |-> "idle"]
Targets == Hosts \X Ports

ActiveRows(rs) == {rs[i] : i \in {j \in RowIds : rs[j].active}}

(* HostResolver.Lookup: a row that names the port wins over one for every  *)
(* port; NoHost when the name is dialled as it is.                         *)
Lookup(routes, host, port) ==
    LET exact == {r \in routes : r.host = host /\ r.port = port}
        any   == {r \in routes : r.host = host /\ r.port = AnyPort}
    IN  CASE exact # {} -> (CHOOSE r \in exact : TRUE).addr
          [] exact = {} /\ any # {} -> (CHOOSE r \in any : TRUE).addr
          [] OTHER -> NoHost

Routed(routes) == {t \in Targets : Lookup(routes, t[1], t[2]) # NoHost}

(* A reload that no request waits for. *)
Scheduled == [pc |-> "read", wrote |-> 0]

(* A process starts with an empty table and reloads it before it serves. *)
Starting == [screen |-> Idle, ticker |-> Scheduled]
Empty == [routes |-> {}, loaded |-> FALSE, version |-> 0]

Init ==
    /\ rows = Rows0
    /\ table = [r \in Replicas |-> Empty]
    /\ task = [r \in Replicas |-> Starting]
    /\ writes = 0 /\ restarts = 0 /\ version = 0
    /\ answered = [r \in Replicas |-> 0]
    /\ late = [r \in Replicas |-> FALSE]
    /\ held = Routed(ActiveRows(Rows0))

---------------------------------------------------------------------------
Step(r, a, t) == task' = [task EXCEPT ![r][a] = t]

(* The unique index: no other row has this host and port. *)
Duplicate(f) == \E i \in RowIds \ {f.id} :
                   rows[i] # NoRow /\ rows[i].host = f.host /\ rows[i].port = f.port

(* The rules of Save on the form. *)
Accepted(f) == f.host \in Hosts /\ f.addr \in Addresses \ Unusable

Route(f) == [host |-> f.host, port |-> f.port, addr |-> f.addr, active |-> f.active]

(* The table is read before the row is written. *)
Write_ReadsFirst(r, new) ==
    /\ rows' = new
    /\ version' = version + 1
    /\ held' = held \cap Routed(ActiveRows(new))
    /\ Step(r, "screen", [pc |-> "replace", wrote |-> version + 1,
                          read |-> ActiveRows(rows), at |-> version])

(* Save and Delete write the row and then reload. *)
Write(r, new) ==
    /\ rows' = new
    /\ version' = version + 1
    /\ held' = held \cap Routed(ActiveRows(new))
    /\ Step(r, "screen", [pc |-> "read", wrote |-> version + 1])

(* The statements: a new row under any free id, or one that is there. *)
Create(f) == {[rows EXCEPT ![i] = Route(f)] : i \in {k \in RowIds : rows[k] = NoRow}}
Update(f) == {[rows EXCEPT ![i] = Route(f)] : i \in {k \in RowIds \cap {f.id} : rows[k] # NoRow}}
Delete(i) == [rows EXCEPT ![i] = NoRow]

SaveHostOverride(r, f) ==
    /\ task[r].screen.pc = "idle" /\ writes < MaxWrites
    /\ writes' = writes + 1
    /\ \E new \in IF f.id = 0 THEN Create(f) ELSE Update(f) :
         IF Accepted(f) /\ ~Duplicate(f) THEN Write(r, new)
         ELSE UNCHANGED <<rows, version, held, task>>
    /\ UNCHANGED <<table, restarts, answered, late>>

DeleteHostOverride(r, i) ==
    /\ task[r].screen.pc = "idle" /\ writes < MaxWrites
    /\ rows[i] # NoRow
    /\ writes' = writes + 1
    /\ Write(r, Delete(i))
    /\ UNCHANGED <<table, restarts, answered, late>>

(* Watch *)
Tick(r) ==
    /\ task[r].ticker.pc = "idle"
    /\ Step(r, "ticker", Scheduled)
    /\ UNCHANGED <<rows, table, writes, restarts, version, answered, late, held>>

(* Reload reads the active rows. *)
ListActive(r, a) ==
    /\ task[r][a].pc = "read"
    /\ Step(r, a, [pc |-> "replace", wrote |-> task[r][a].wrote,
                   read |-> ActiveRows(rows), at |-> version])
    /\ UNCHANGED <<rows, table, writes, restarts, version, answered, late, held>>

(* The table is emptied when it cannot be read. *)
KeptOnFailure_Nothing(r) == [table[r] EXCEPT !.routes = {}]

(* An unreachable database leaves the routes in force. *)
KeptOnFailure(r) == table[r]

(* The read fails, and the request is answered all the same. *)
ReloadFails(r, a) ==
    /\ task[r][a].pc = "read"
    /\ table' = [table EXCEPT ![r] = KeptOnFailure(r)]
    /\ Step(r, a, Idle)
    /\ UNCHANGED <<rows, writes, restarts, version, answered, late, held>>

(* HostResolver.Replace, and the end of the request that reloaded. *)
Replace(r, a) ==
    LET t == task[r][a] IN
    /\ t.pc = "replace"
    /\ table' = [table EXCEPT ![r] = [routes |-> t.read, loaded |-> TRUE, version |-> t.at]]
    /\ late' = [late EXCEPT ![r] = t.at < table[r].version]
    /\ Step(r, a, Idle)
    /\ answered' = IF a = "screen" THEN [answered EXCEPT ![r] = t.wrote] ELSE answered
    /\ UNCHANGED <<rows, writes, restarts, version, held>>

Restart(r) ==
    /\ restarts < MaxRestarts
    /\ restarts' = restarts + 1
    /\ table' = [table EXCEPT ![r] = Empty]
    /\ task' = [task EXCEPT ![r] = Starting]
    /\ answered' = [answered EXCEPT ![r] = 0]
    /\ late' = [late EXCEPT ![r] = FALSE]
    /\ UNCHANGED <<rows, writes, version, held>>

Next ==
    \E r \in Replicas :
        \/ \E f \in Forms : SaveHostOverride(r, f)
        \/ \E i \in RowIds : DeleteHostOverride(r, i)
        \/ Tick(r) \/ Restart(r)
        \/ \E a \in {"screen", "ticker"} : ListActive(r, a) \/ ReloadFails(r, a) \/ Replace(r, a)

Spec == Init /\ [][Next]_vars

---------------------------------------------------------------------------
(* Properties *)

(* A target that has had a route all along is never dialled by its public  *)
(* address, once the replica has read the table: not while routes are      *)
(* edited, not while the database is away, not when reloads overlap.       *)
RouteNeverLost ==
    \A r \in Replicas : table[r].loaded => held \subseteq Routed(table[r].routes)

(* "The screen never shows a row that is not yet in force": a replica      *)
(* dials from nothing older than the last change it reloaded for and       *)
(* answered, unless a reload that read before the change finished after it.*)
AnsweredRouteInForce ==
    \A r \in Replicas : ~late[r] => table[r].version >= answered[r]
=============================================================================
