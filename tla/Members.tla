------------------------------- MODULE Members -------------------------------
(***************************************************************************)
(* Who may do what on which project: internal/service/member_service.go    *)
(* over internal/authz and internal/repository/authz_repo.go, with the     *)
(* member screens of project_handler.go and the run visibility screen of   *)
(* settings_handler.go.                                                    *)
(*                                                                         *)
(* Decisions are taken from grants that each process caches for a while    *)
(* (the grantz library); ranks are read from the database every time.      *)
(***************************************************************************)
EXTENDS Integers, Sequences, FiniteSets, FiniteSetsExt

CONSTANTS
    Users, Admins,   \* accounts, and those with the platform flag
    Projects, Every, \* Every is the scope of an assignment without one
    CustomRoles,     \* roles made by hand: they rank zero
    Binary,          \* the permissions this version gives each built-in role
    Replicas, Clients,
    Assigned,        \* assignments at the start, as assign below
    Custom,          \* permissions of the custom roles
    Todo             \* the lists of requests that may come

Builtin == {"project_reader", "project_writer", "project_admin"}
Roles == Builtin \cup CustomRoles

VARIABLES
    assign,   \* grantz_user_roles: [user][role] is the set of projects, {} for no row
    perms,    \* grantz_role_permissions: the keys each role holds
    fields,   \* and the allow-list of each role's runs.read, or Unrestricted
    deleted,  \* accounts that are soft deleted
    cache,    \* grantz: [replica][user], the grants a process holds, or None
    boot,     \* per replica, the roles still to reconcile and its binary
    req, todo,
    version,  \* history: changes made to each user's assignments
    done,     \* history: [replica][user], the version of the last change it answered
    top       \* history: the highest rank an administrator, or the start, gave on a project

vars == <<assign, perms, fields, deleted, cache, boot, req, todo, version, done, top>>

Unrestricted == {"*"}
RunFields == {"output", "error", "request_url"}
None == [ver |-> -1]
Idle == [pc |-> "idle"]

RoleRank == [r \in Roles |-> CASE r = "project_reader" -> 1 [] r = "project_writer" -> 2
                               [] r = "project_admin" -> 3 [] OTHER -> 0]

Reaches(scope, p) == Every \in scope \/ p \in scope
HighestOn(a, p) == Max({0} \cup {RoleRank[r] : r \in
                     {q \in Roles : \E u \in Users : Reaches(a[u][q], p)}})

Init ==
    /\ assign = Assigned
    /\ perms = [r \in Roles |-> IF r \in Builtin THEN Binary[r] ELSE Custom[r]]
    /\ boot = [r \in Replicas |-> [left |-> {}, bin |-> Binary]]
    /\ fields = [r \in Roles |-> Unrestricted]
    /\ deleted = {}
    /\ cache = [r \in Replicas |-> [u \in Users |-> None]]
    /\ req = [c \in Clients |-> Idle]
    /\ todo \in Todo
    /\ version = [u \in Users |-> 0]
    /\ done = [r \in Replicas |-> [u \in Users |-> 0]]
    /\ top = [p \in Projects |-> HighestOn(Assigned, p)]

---------------------------------------------------------------------------
(* Decisions *)

(* scopeFromGrants over grantz's decision for members.manage: the projects *)
(* of every role that carries it.                                          *)
ManageScope(u) == UNION {assign[u][r] : r \in {q \in Roles : "members.manage" \in perms[q]}}

(* grantz loads a user's grants when it holds none. *)
Grants(rep, u) ==
    IF cache[rep][u] = None THEN [ver |-> version[u], scope |-> ManageScope(u)]
    ELSE cache[rep][u]

(* The entry's time is up. *)
CacheExpires(rep, u) ==
    /\ cache[rep][u] # None
    /\ cache' = [cache EXCEPT ![rep][u] = None]
    /\ UNCHANGED <<assign, perms, fields, deleted, boot, req, todo, version, done, top>>

At(c, pc) == req[c].pc = pc
Goto(c, pc) == req' = [req EXCEPT ![c].pc = pc]
Respond(c) == req' = [req EXCEPT ![c] = Idle]
GoOn(c, ok, pc) == IF ok THEN Goto(c, pc) ELSE Respond(c)

(* A platform administrator needs no grant, and none is read. *)
RequireProject(c) ==
    LET q == req[c] IN
    IF q.caller \in Admins THEN TRUE ELSE Reaches(Grants(q.rep, q.caller).scope, q.project)

Decide(c) ==
    LET q == req[c] IN
    cache' = IF q.caller \in Admins THEN cache
             ELSE [cache EXCEPT ![q.rep][q.caller] = Grants(q.rep, q.caller)]

NotSelf(c) == req[c].caller # req[c].user

(* The caller's standing counts the roles held on any project. *)
rankOf_AnyProject(u, p) ==
    Max({0} \cup {RoleRank[r] : r \in {q \in Roles : assign[u][q] # {}}})

(* The highest built-in role the caller holds that reaches the project. *)
rankOf(u, p) ==
    IF u \in Admins THEN RoleRank["project_admin"] + 1
    ELSE Max({0} \cup {RoleRank[r] : r \in {q \in Roles : Reaches(assign[u][q], p)}})

(* Nobody is told of the change. *)
Invalidate_Nobody(rep, u) == UNCHANGED cache

(* This process forgets what it held; the others do not hear of it. *)
Invalidate(rep, u) == cache' = [cache EXCEPT ![rep][u] = None]

---------------------------------------------------------------------------
(* Members of a project *)

Received(m, pc, rep) ==
    [k \in DOMAIN m \cup {"pc", "rep"} |->
        CASE k = "pc" -> pc [] k = "rep" -> rep [] OTHER -> m[k]]

(* The next request comes in on one of the replicas. *)
Arrive(c, kind, pc) ==
    /\ At(c, "idle")
    /\ todo # <<>> /\ Head(todo).kind = kind /\ todo' = Tail(todo)
    /\ Head(todo).caller \notin deleted
    /\ \E rep \in Replicas :
         /\ boot[rep].left = {}
         /\ req' = [req EXCEPT ![c] = Received(Head(todo), pc, rep)]
    /\ UNCHANGED <<assign, perms, fields, deleted, cache, boot, version, done, top>>

AddMember(c) == Arrive(c, "add", "byEmail")

(* GrantByEmail: the permission is checked before the address is looked up. *)
GrantByEmail(c) ==
    /\ At(c, "byEmail")
    /\ Decide(c)
    /\ GoOn(c, RequireProject(c), "lookup")
    /\ UNCHANGED <<assign, perms, fields, deleted, boot, todo, version, done, top>>

GetByEmail(c) ==
    /\ At(c, "lookup")
    /\ GoOn(c, req[c].user \notin deleted, "grant")
    /\ UNCHANGED <<assign, perms, fields, deleted, cache, boot, todo, version, done, top>>

Grant(c) ==
    /\ At(c, "grant")
    /\ Decide(c)
    /\ GoOn(c, RequireProject(c) /\ NotSelf(c), "target")
    /\ UNCHANGED <<assign, perms, fields, deleted, boot, todo, version, done, top>>

(* The account is read, and the rank of the caller after it. *)
GrantTarget(c) ==
    /\ At(c, "target")
    /\ GoOn(c, req[c].user \notin deleted \cup Admins, "rank")
    /\ UNCHANGED <<assign, perms, fields, deleted, cache, boot, todo, version, done, top>>

GrantRank(c) ==
    LET q == req[c]  rank == RoleRank[q.role] IN
    /\ At(c, "rank")
    /\ GoOn(c, q.caller \in Admins \/ (rank # 0 /\ rank <= rankOf(q.caller, q.project)), "write")
    /\ UNCHANGED <<assign, perms, fields, deleted, cache, boot, todo, version, done, top>>

(* One statement; an assignment that covers everything is not narrowed. *)
GrantProject(c) ==
    LET q == req[c] IN
    /\ At(c, "write") /\ q.kind = "add"
    /\ assign' = [assign EXCEPT ![q.user][q.role] =
                    IF Every \in @ THEN @ ELSE @ \cup {q.project}]
    /\ version' = [version EXCEPT ![q.user] = @ + 1]
    /\ top' = IF q.caller \in Admins
              THEN [top EXCEPT ![q.project] = Max({@, RoleRank[q.role]})] ELSE top
    /\ Goto(c, "invalidate")
    /\ UNCHANGED <<perms, fields, deleted, cache, boot, todo, done>>

RemoveMember(c) == Arrive(c, "remove", "revoke")

Revoke(c) ==
    /\ At(c, "revoke")
    /\ Decide(c)
    /\ GoOn(c, RequireProject(c) /\ NotSelf(c), "members")
    /\ UNCHANGED <<assign, perms, fields, deleted, boot, todo, version, done, top>>

(* ListProjectMembers *)
IsMember(u, role, p) == u \notin deleted /\ Reaches(assign[u][role], p)

RevokeListed(c) ==
    /\ At(c, "members")
    /\ GoOn(c, IsMember(req[c].user, req[c].role, req[c].project), "mayChange")
    /\ UNCHANGED <<assign, perms, fields, deleted, cache, boot, todo, version, done, top>>

(* Never somebody above the caller, nor a platform administrator unless    *)
(* the caller is one.                                                      *)
mayChange(c) ==
    LET q == req[c] IN
    /\ At(c, "mayChange")
    /\ GoOn(c, \/ q.caller \in Admins
               \/ /\ q.user \notin Admins
                  /\ RoleRank[q.role] <= rankOf(q.caller, q.project), "unscoped")
    /\ UNCHANGED <<assign, perms, fields, deleted, cache, boot, todo, version, done, top>>

(* The projects a user has a role on, all of them at once under one name. *)
ListUserRoles(u, role) == assign[u][role]

(* An assignment over every project is left alone. *)
RevokeUnscoped(c) ==
    /\ At(c, "unscoped")
    /\ GoOn(c, Every \notin ListUserRoles(req[c].user, req[c].role), "write")
    /\ UNCHANGED <<assign, perms, fields, deleted, cache, boot, todo, version, done, top>>

RevokeProject(c) ==
    LET q == req[c] IN
    /\ At(c, "write") /\ q.kind = "remove"
    /\ assign' = [assign EXCEPT ![q.user][q.role] =
                    IF Every \in @ THEN @ ELSE @ \ {q.project}]
    /\ version' = [version EXCEPT ![q.user] = @ + 1]
    /\ Goto(c, "invalidate")
    /\ UNCHANGED <<perms, fields, deleted, cache, boot, todo, done, top>>

Answer(c) ==
    LET q == req[c] IN
    /\ At(c, "invalidate")
    /\ Invalidate(q.rep, q.user)
    /\ done' = [done EXCEPT ![q.rep][q.user] = version[q.user]]
    /\ Respond(c)
    /\ UNCHANGED <<assign, perms, fields, deleted, boot, todo, version, top>>

---------------------------------------------------------------------------
(* Accounts and roles *)

(* AdminOnly, and never the account that is signed in. *)
DeleteUser(c) ==
    /\ Arrive(c, "delete", "revokeUser")
    /\ Head(todo).caller \in Admins \ {Head(todo).user}

RevokeUser(c) ==
    LET u == req[c].user IN
    /\ At(c, "revokeUser")
    /\ assign' = [assign EXCEPT ![u] = [r \in Roles |-> {}]]
    /\ version' = [version EXCEPT ![u] = @ + 1]
    /\ Goto(c, "softDelete")
    /\ UNCHANGED <<perms, fields, deleted, cache, boot, todo, done, top>>

SoftDelete(c) ==
    /\ At(c, "softDelete")
    /\ deleted' = deleted \cup {req[c].user}
    /\ Respond(c)
    /\ UNCHANGED <<assign, perms, fields, cache, boot, todo, version, done, top>>

(* The row of the permission, inserted where it is missing. *)
WriteRoleFields(role, visible) ==
    /\ fields' = [fields EXCEPT ![role] = visible]
    /\ perms' = [perms EXCEPT ![role] = @ \cup {"runs.read"}]

(* SetRunVisibility of a built-in role; naming every field clears the      *)
(* restriction.                                                            *)
SaveRunVisibility(c) ==
    /\ Arrive(c, "visibility", "setFields")
    /\ Head(todo).caller \in Admins /\ Head(todo).role \in Builtin

SetRoleFields(c) ==
    LET q == req[c] IN
    /\ At(c, "setFields")
    /\ WriteRoleFields(q.role, IF q.view = RunFields THEN Unrestricted ELSE q.view)
    /\ Respond(c)
    /\ UNCHANGED <<assign, deleted, cache, boot, todo, version, done, top>>

---------------------------------------------------------------------------
(* A replica starts *)

(* Another version may start, or the same one again: what the process held *)
(* is gone, and the built-in roles are written before it serves.           *)
Restart(rep) ==
    /\ todo # <<>> /\ Head(todo).kind = "restart" /\ todo' = Tail(todo)
    /\ boot' = [boot EXCEPT ![rep] = [left |-> Builtin, bin |-> Head(todo).bin]]
    /\ cache' = [cache EXCEPT ![rep] = [u \in Users |-> None]]
    /\ req' = [c \in Clients |-> IF ~At(c, "idle") /\ req[c].rep = rep THEN Idle ELSE req[c]]
    /\ UNCHANGED <<assign, perms, fields, deleted, version, done, top>>

(* Every row of the role goes, and the ones of the binary come anew. *)
ReplaceRolePermissions_Anew(role, keys) ==
    /\ perms' = [perms EXCEPT ![role] = keys]
    /\ fields' = [fields EXCEPT ![role] = Unrestricted]

(* Rows the binary does not name go, rows that are there stay as they are. *)
ReplaceRolePermissions(role, keys) ==
    /\ perms' = [perms EXCEPT ![role] = keys]
    /\ fields' = [fields EXCEPT ![role] = IF "runs.read" \in perms[role] \cap keys
                                          THEN @ ELSE Unrestricted]

(* Reconcile, one role in each transaction. *)
Reconcile(rep) ==
    \E role \in boot[rep].left :
        /\ ReplaceRolePermissions(role, boot[rep].bin[role])
        /\ boot' = [boot EXCEPT ![rep].left = @ \ {role}]
        /\ UNCHANGED <<assign, deleted, cache, req, todo, version, done, top>>

(* A statement fails, or the caller is gone. *)
Abandon(c) ==
    /\ ~At(c, "idle")
    /\ Respond(c)
    /\ UNCHANGED <<assign, perms, fields, deleted, cache, boot, todo, version, done, top>>

---------------------------------------------------------------------------
Arrivals(c) == AddMember(c) \/ RemoveMember(c) \/ DeleteUser(c) \/ SaveRunVisibility(c)

Steps(c) ==
    \/ GrantByEmail(c) \/ GetByEmail(c) \/ Grant(c) \/ GrantTarget(c) \/ GrantRank(c)
    \/ GrantProject(c) \/ Revoke(c) \/ RevokeListed(c) \/ mayChange(c) \/ RevokeUnscoped(c)
    \/ RevokeProject(c) \/ Answer(c) \/ RevokeUser(c) \/ SoftDelete(c) \/ SetRoleFields(c)
    \/ Abandon(c)

Next ==
    \/ \E c \in Clients : Arrivals(c) \/ Steps(c)
    \/ \E rep \in Replicas : Reconcile(rep) \/ Restart(rep)
                             \/ \E u \in Users : CacheExpires(rep, u)

Spec == Init /\ [][Next]_vars

---------------------------------------------------------------------------
(* Properties *)

(* No sequence of grants and removals by project administrators, through   *)
(* whichever replica and with whatever it holds in its cache, raises       *)
(* anybody's standing on a project above what the start or a platform      *)
(* administrator gave somebody there.                                      *)
NoEscalation == \A p \in Projects : HighestOn(assign, p) <= top[p]

(* "The person granted access should see it on their next request": once a *)
(* replica has answered a grant or a removal, it decides from nothing      *)
(* older than that change.                                                 *)
ChangeSeenWhereMade ==
    \A rep \in Replicas, u \in Users :
        cache[rep][u] # None => cache[rep][u].ver >= done[rep][u]

(* What an administrator narrowed stays narrowed, over every restart and   *)
(* upgrade that still gives the role the permission.                       *)
OnlyNarrows ==
    \A role \in Builtin :
        (fields[role] # Unrestricted /\ fields'[role] # fields[role])
            => \/ "runs.read" \notin perms'[role]
               \/ \E c \in Clients : At(c, "setFields") /\ req[c].role = role
=============================================================================
