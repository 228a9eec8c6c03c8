------------------------------ MODULE Accounts ------------------------------
(***************************************************************************)
(* Accounts, sessions, reset links and the first set-up:                   *)
(* internal/service/auth_service.go over user_repo.go and                  *)
(* password_reset_repo.go, the gate and the session checks of              *)
(* internal/middleware/middleware.go, pkg/token, and the handlers in front *)
(* of them (auth_handler.go, password_reset_handler.go, setup_handler.go,  *)
(* the accounts part of settings_handler.go).                              *)
(*                                                                         *)
(* A request passes the set-up gate, then the session check if its route   *)
(* has one, and then makes one step per SQL statement.  The moment a       *)
(* statement writes is read from the clock before it is sent, in a step of *)
(* its own.  A moment is shorter than a second: a token's issue time is    *)
(* cut down to the second, the cut-off kept on the account is not.         *)
(***************************************************************************)
EXTENDS Integers, Sequences, FiniteSets

CONSTANTS
    UserIds,      \* ids of the users table, 1..n
    LinkIds,      \* ids of password_resets, 1..n
    Passwords,    \* passwords an account may have
    Weak,         \* passwords that the rules refuse
    Clients,
    PerSecond,    \* moments in a second
    TokenTTL,     \* token.TTL, in moments
    ResetTTL,     \* service.ResetTokenTTL, in moments
    Scenarios,    \* [accounts, todo]: the accounts there are, each [pw, admin], and
                  \* the kinds of request that come, in the order they come
    MaxClock

VARIABLES
    users,     \* the rows of users; the address of an account is its id
    resets,    \* the rows of password_resets
    tokens,    \* every token that was signed
    setupDone, \* Set.setupDone, the latch of this process
    req,       \* what each client's request has read so far
    clock,     \* moments
    todo,      \* kinds of request still to come, a bound
    hist       \* history: races that the properties set apart

vars == <<users, resets, tokens, setupDone, req, clock, todo, hist>>

Row == [state: {"none", "live", "deleted"}, pw: Passwords \cup {""}, admin: BOOLEAN,
        active: BOOLEAN, cutoff: Nat, setup: BOOLEAN]

Live(u) == u \in UserIds /\ users[u].state = "live"
Count == Cardinality({u \in UserIds : Live(u)})
NeedsSetup == Count = 0
Idle == [pc |-> "idle"]

(* The rules on length, as one set. *)
validatePassword(pw) == pw \notin Weak

Init ==
    \E s \in Scenarios :
    /\ users = [u \in UserIds |->
                  IF u \in DOMAIN s.accounts
                  THEN [state |-> "live", pw |-> s.accounts[u].pw,
                        admin |-> s.accounts[u].admin, active |-> TRUE,
                        cutoff |-> 0, setup |-> FALSE]
                  ELSE [state |-> "none", pw |-> "", admin |-> FALSE, active |-> FALSE,
                        cutoff |-> 0, setup |-> FALSE]]
    /\ todo = s.todo
    /\ resets = [l \in LinkIds |-> [state |-> "none", user |-> 0, expires |-> 0]]
    /\ tokens = {}
    /\ setupDone = FALSE
    /\ req = [c \in Clients |-> Idle]
    /\ clock = PerSecond
    /\ hist = [outrun |-> FALSE, overlap |-> FALSE, crossed |-> FALSE, pruned |-> FALSE,
               slipped |-> FALSE, together |-> FALSE, dead |-> {}]

---------------------------------------------------------------------------
(* Steps of a request *)

At(c, pc) == req[c].pc = pc
Goto(c, pc) == req' = [req EXCEPT ![c].pc = pc]
Respond(c) == req' = [req EXCEPT ![c] = Idle]

(* time.Now: no two readings are the same moment. *)
Now == clock < MaxClock /\ clock' = clock + 1

Unused(ids, table) == {i \in ids : table[i].state = "none"}
Fresh(ids, table) == CHOOSE i \in Unused(ids, table) :
                        \A k \in Unused(ids, table) : i <= k

(* SetupGate: closed for good once an account is seen; until then nothing  *)
(* but the set-up screen is reachable.                                     *)
SetupGate(c, r) ==
    LET done == setupDone \/ ~NeedsSetup IN
    /\ At(c, "idle")
    /\ todo # <<>> /\ r.kind = Head(todo) /\ todo' = Tail(todo)
    /\ setupDone' = done
    /\ req' = [req EXCEPT ![c] = IF done = (r.kind = "setup") THEN Idle ELSE r]
    /\ UNCHANGED <<users, resets, tokens, clock, hist>>

(* Issuer.Issue: a signature is not modelled, a token that was signed is   *)
(* one of tokens.                                                          *)
Second(t) == (t \div PerSecond) * PerSecond

Issue(u, pw) ==
    tokens' = tokens \cup {[user |-> u, pw |-> pw, born |-> clock,
                            issued |-> Second(clock), expires |-> Second(clock + TokenTTL)]}

(* User.TokenRetired *)
TokenRetired(u, issued) == issued < users[u].cutoff

(* Issuer.Verify *)
Verify(t) == clock < t.expires

(* AuthService.Authenticate *)
Authenticate(t) ==
    /\ Verify(t)
    /\ Live(t.user) /\ users[t.user].active
    /\ ~TokenRetired(t.user, t.issued)

(* In front of the settings screens. *)
AdminOnly(c) == req[c].next = "settings" => users[req[c].token.user].admin

(* The account as it was read here stands for the rest of the request. *)
WebAuth(c) ==
    /\ At(c, "auth")
    /\ IF Authenticate(req[c].token) /\ AdminOnly(c)
       THEN Goto(c, IF req[c].next = "settings" THEN req[c].kind ELSE req[c].next)
       ELSE Respond(c)
    /\ UNCHANGED <<users, resets, tokens, setupDone, clock, todo, hist>>

Unstamped == {"logout", "changePassword", "deleteUser", "resetPassword", "complete"}

(* The request r, about to write, with the moment its write will carry. *)
Stamped(r, at) ==
    [f \in DOMAIN r \cup {"at"} |->
        IF f = "pc" THEN "write" ELSE IF f = "at" THEN at ELSE r[f]]

Stamp(c) ==
    /\ req[c].pc \in Unstamped
    /\ req' = [req EXCEPT ![c] = Stamped(@, clock)]
    /\ Now
    /\ UNCHANGED <<users, resets, tokens, setupDone, todo, hist>>

(* History: the moment was read before the stored cut-off, and moves it    *)
(* back, or before a login that has already been answered.                 *)
Cut(u, at) ==
    [hist EXCEPT !.outrun = @ \/ at < users[u].cutoff
                              \/ \E t \in tokens : t.user = u /\ t.born > at]

---------------------------------------------------------------------------
(* Signing in and out *)

Login(c, u, pw) ==
    SetupGate(c, [pc |-> "getByEmail", kind |-> "login", user |-> u, pw |-> pw])

(* The password is compared with the hash that was read here. *)
GetByEmail(c) ==
    LET u == req[c].user IN
    /\ At(c, "getByEmail")
    /\ IF Live(u) /\ users[u].pw = req[c].pw /\ users[u].active
       THEN Goto(c, "issue") ELSE Respond(c)
    /\ UNCHANGED <<users, resets, tokens, setupDone, clock, todo, hist>>

IssueToken(c) ==
    /\ At(c, "issue")
    /\ Issue(req[c].user, req[c].pw)
    /\ Now
    /\ hist' = [hist EXCEPT !.outrun = @ \/ users[req[c].user].pw # req[c].pw]
    /\ Respond(c)
    /\ UNCHANGED <<users, resets, setupDone, todo>>

Logout(c, t) ==
    SetupGate(c, [pc |-> "auth", kind |-> "logout", next |-> "logout", token |-> t])

InvalidateTokens(c) ==
    LET u == req[c].token.user IN
    /\ At(c, "write") /\ req[c].kind = "logout"
    /\ users' = [users EXCEPT ![u].cutoff = req[c].at]
    /\ hist' = Cut(u, req[c].at)
    /\ Respond(c)
    /\ UNCHANGED <<resets, tokens, setupDone, clock, todo>>

---------------------------------------------------------------------------
(* Passwords *)

(* UpdatePassword leaves the cut-off where it was. *)
UpdatePassword_KeepsTokens(u, pw, at) ==
    users' = [users EXCEPT ![u].pw = pw]

(* The hash and the cut-off in one statement, whatever the state of the row. *)
UpdatePassword(u, pw, at) ==
    users' = [users EXCEPT ![u].pw = pw, ![u].cutoff = at]

ChangePassword(c, t, current, next) ==
    SetupGate(c, [pc |-> "auth", kind |-> "changePassword", next |-> "getByID",
                  token |-> t, user |-> t.user, current |-> current, pw |-> next])

GetByID(c) ==
    /\ At(c, "getByID")
    /\ IF /\ Live(req[c].user) /\ users[req[c].user].pw = req[c].current
          /\ validatePassword(req[c].pw)
       THEN Goto(c, "changePassword") ELSE Respond(c)
    /\ UNCHANGED <<users, resets, tokens, setupDone, clock, todo, hist>>

(* The links an account has been sent, whatever has become of them.        *)
LinksOf(u) == {l \in LinkIds : resets[l].state # "none" /\ resets[l].user = u}

(* The last statement of a change, of an administrator's reset and of a    *)
(* reset by mail; after the last, the links sent so far are history.       *)
WritePassword(c) ==
    /\ \/ At(c, "write") /\ req[c].kind \in {"changePassword", "updateUser"}
       \/ At(c, "password")
    /\ UpdatePassword(req[c].user, req[c].pw, req[c].at)
    /\ hist' = [Cut(req[c].user, req[c].at) EXCEPT
                  !.dead = IF At(c, "password") THEN @ \cup LinksOf(req[c].user) ELSE @]
    /\ Respond(c)
    /\ UNCHANGED <<resets, tokens, setupDone, clock, todo>>

Forgot(c, u) == SetupGate(c, [pc |-> "forgot", kind |-> "forgot", user |-> u])

(* An unknown or disabled account is answered alike and gets no link. *)
RequestPasswordReset(c) ==
    LET u == req[c].user IN
    /\ At(c, "forgot")
    /\ IF Live(u) /\ users[u].active THEN Goto(c, "createReset") ELSE Respond(c)
    /\ UNCHANGED <<users, resets, tokens, setupDone, clock, todo, hist>>

InsertReset(u, expires) ==
    /\ Unused(LinkIds, resets) # {}
    /\ resets' = [resets EXCEPT ![Fresh(LinkIds, resets)] =
                    [state |-> "open", user |-> u, expires |-> expires]]

(* History: between the two statements of a reset of the same account.     *)
CreateReset(c) ==
    /\ At(c, "createReset")
    /\ InsertReset(req[c].user, clock + ResetTTL)
    /\ Now
    /\ hist' = [hist EXCEPT !.slipped = @ \/ \E d \in Clients :
                                  At(d, "password") /\ req[d].user = req[c].user]
    /\ Respond(c)
    /\ UNCHANGED <<users, tokens, setupDone, todo>>

Reset(c, l, pw) ==
    SetupGate(c, [pc |-> "find", kind |-> "reset", link |-> l, pw |-> pw])

(* PasswordReset.Live *)
LinkLive(l) == resets[l].state = "open" /\ clock < resets[l].expires

(* A password that the rules refuse costs nobody the link. *)
FindByTokenHash(c) ==
    /\ At(c, "find")
    /\ IF validatePassword(req[c].pw) /\ LinkLive(req[c].link)
       THEN req' = [req EXCEPT ![c] =
                      [pc |-> "owner", kind |-> "reset", link |-> req[c].link,
                       pw |-> req[c].pw, user |-> resets[req[c].link].user]]
       ELSE Respond(c)
    /\ UNCHANGED <<users, resets, tokens, setupDone, clock, todo, hist>>

LinkOwner(c) ==
    /\ At(c, "owner")
    /\ IF Live(req[c].user) /\ users[req[c].user].active
       THEN Goto(c, "complete") ELSE Respond(c)
    /\ UNCHANGED <<users, resets, tokens, setupDone, clock, todo, hist>>

(* A reset that has found its link live: nothing after this asks again.    *)
LinkFound == {"owner", "complete", "write", "password"}
InReset(c) == req[c].pc \in LinkFound /\ req[c].kind = "reset"

(* Only the link that was followed is spent. *)
MarkUsed_ThisLink(l) ==
    resets' = [resets EXCEPT ![l].state = "used"]

(* The link is spent, and every other one its account holds: nothing at    *)
(* all if retention has removed the row in the meantime.                   *)
MarkUsed(l) ==
    resets' = [k \in LinkIds |->
                 IF /\ resets[k].state = "open" /\ resets[l].state # "gone"
                    /\ resets[k].user = resets[l].user
                 THEN [resets[k] EXCEPT !.state = "used"] ELSE resets[k]]

(* That a link was open still when it is spent is not asked.  History:     *)
(* another reset of the account is past its look at a link.                *)
SpendLink(c) ==
    /\ At(c, "write") /\ req[c].kind = "reset"
    /\ MarkUsed(req[c].link)
    /\ hist' = [hist EXCEPT !.pruned = @ \/ resets[req[c].link].state = "gone",
                  !.together = @ \/ \E d \in Clients \ {c} :
                                       InReset(d) /\ req[d].user = req[c].user]
    /\ Goto(c, "password")
    /\ UNCHANGED <<users, tokens, setupDone, clock, todo>>

(* The watchdog's retention. *)
DeleteExpired ==
    /\ resets' = [l \in LinkIds |->
                    IF resets[l].state = "used" \/ clock > resets[l].expires
                    THEN [resets[l] EXCEPT !.state = IF @ = "none" THEN "none" ELSE "gone"]
                    ELSE resets[l]]
    /\ resets' # resets
    /\ UNCHANGED <<users, tokens, setupDone, req, clock, todo, hist>>

---------------------------------------------------------------------------
(* Accounts *)

SaveNewUser(c, t, admin, active, pw) ==
    SetupGate(c, [pc |-> "auth", kind |-> "createUser", next |-> "settings", token |-> t,
                  admin |-> admin, active |-> active, pw |-> pw])

InsertUser(pw, admin, active, setup) ==
    users' = [users EXCEPT ![Fresh(UserIds, users)] =
                [state |-> "live", pw |-> pw, admin |-> admin, active |-> active,
                 cutoff |-> 0, setup |-> setup]]

(* The address is new; a password that the rules refuse ends the request. *)
CreateUser(c) ==
    /\ At(c, "createUser")
    /\ Unused(UserIds, users) # {}
    /\ IF validatePassword(req[c].pw)
       THEN InsertUser(req[c].pw, req[c].admin, req[c].active, FALSE)
       ELSE UNCHANGED users
    /\ Respond(c)
    /\ UNCHANGED <<resets, tokens, setupDone, clock, todo, hist>>

SaveUser(c, t, u, admin, active, pw) ==
    SetupGate(c, [pc |-> "auth", kind |-> "updateUser", next |-> "settings", token |-> t,
                  user |-> u, admin |-> admin, active |-> active, pw |-> pw])

(* UpdateUser: the row is read, then written unless it was deleted since;  *)
(* a password in the form is a reset of its own.                           *)
UpdateUser(c) ==
    /\ At(c, "updateUser")
    /\ IF Live(req[c].user) THEN Goto(c, "profile") ELSE Respond(c)
    /\ UNCHANGED <<users, resets, tokens, setupDone, clock, todo, hist>>

(* A password in the form, if the rules allow it: the rest of the form has *)
(* been written by then.                                                   *)
ResetPassword(pw) == pw # "" /\ validatePassword(pw)

UpdateProfile(c) ==
    LET u == req[c].user IN
    /\ At(c, "profile")
    /\ users' = IF Live(u) THEN [users EXCEPT ![u].admin = req[c].admin,
                                              ![u].active = req[c].active]
                ELSE users
    /\ IF ResetPassword(req[c].pw) THEN Goto(c, "resetPassword") ELSE Respond(c)
    /\ UNCHANGED <<resets, tokens, setupDone, clock, todo, hist>>

(* Nobody deletes the account they are signed in with. *)
DeleteUser(c, t, u) ==
    /\ t.user # u
    /\ SetupGate(c, [pc |-> "auth", kind |-> "deleteUser", next |-> "settings",
                     token |-> t, user |-> u])

SoftDelete(c) ==
    LET u == req[c].user IN
    /\ At(c, "write") /\ req[c].kind = "deleteUser"
    /\ users' = [users EXCEPT ![u].state = IF @ = "none" THEN @ ELSE "deleted",
                              ![u].active = FALSE, ![u].cutoff = req[c].at]
    /\ hist' = [Cut(u, req[c].at) EXCEPT !.crossed = @ \/ ~Live(req[c].token.user)]
    /\ Respond(c)
    /\ UNCHANGED <<resets, tokens, setupDone, clock, todo>>

---------------------------------------------------------------------------
(* The first administrator *)

Setup(c, pw) == SetupGate(c, [pc |-> "snapshot", kind |-> "setup", pw |-> pw])

(* CreateFirstAdmin inserts whatever the table holds. *)
TableEmpty_Any == TRUE

TableEmpty == Count = 0

(* One statement, and still two moments: READ COMMITTED lets it see the    *)
(* rows that were committed when it began.                                 *)
BeginCreateFirstAdmin(c) ==
    /\ At(c, "snapshot")
    /\ IF validatePassword(req[c].pw) /\ TableEmpty
       THEN Goto(c, "insertFirst") ELSE Respond(c)
    /\ hist' = [hist EXCEPT !.overlap = @ \/ \E d \in Clients : At(d, "insertFirst")]
    /\ UNCHANGED <<users, resets, tokens, setupDone, clock, todo>>

CreateFirstAdmin(c) ==
    /\ At(c, "insertFirst")
    /\ Unused(UserIds, users) # {}
    /\ InsertUser(req[c].pw, TRUE, TRUE, TRUE)
    /\ setupDone' = TRUE
    /\ req' = [req EXCEPT ![c] = [pc |-> "issue", kind |-> "setup",
                                  user |-> Fresh(UserIds, users), pw |-> req[c].pw]]
    /\ UNCHANGED <<resets, tokens, clock, todo, hist>>

---------------------------------------------------------------------------
(* Faults *)

(* A statement fails, or the caller is gone: nothing after it happens. *)
Abandon(c) ==
    /\ ~At(c, "idle")
    /\ Respond(c)
    /\ UNCHANGED <<users, resets, tokens, setupDone, clock, todo, hist>>

Restart ==
    /\ setupDone
    /\ setupDone' = FALSE
    /\ req' = [c \in Clients |-> Idle]
    /\ UNCHANGED <<users, resets, tokens, clock, todo, hist>>

TimePasses == Now /\ UNCHANGED <<users, resets, tokens, setupDone, req, todo, hist>>

---------------------------------------------------------------------------
Typed == Passwords \cup Weak

Arrivals(c) ==
    \/ \E u \in UserIds, pw \in Passwords : Login(c, u, pw)
    \/ \E u \in UserIds : Forgot(c, u)
    \/ \E l \in LinkIds, pw \in Typed : Reset(c, l, pw)
    \/ \E pw \in Typed : Setup(c, pw)
    \/ \E t \in tokens :
        \/ Logout(c, t)
        \/ \E a \in Passwords, b \in Typed : ChangePassword(c, t, a, b)
        \/ \E a, b \in BOOLEAN, pw \in Typed : SaveNewUser(c, t, a, b, pw)
        \/ \E u \in UserIds, a, b \in BOOLEAN, pw \in Typed \cup {""} :
              SaveUser(c, t, u, a, b, pw)
        \/ \E u \in UserIds : DeleteUser(c, t, u)

Steps(c) ==
    \/ WebAuth(c) \/ Stamp(c) \/ GetByEmail(c) \/ IssueToken(c) \/ InvalidateTokens(c)
    \/ GetByID(c) \/ WritePassword(c) \/ RequestPasswordReset(c) \/ CreateReset(c)
    \/ FindByTokenHash(c) \/ LinkOwner(c) \/ SpendLink(c) \/ CreateUser(c)
    \/ UpdateUser(c) \/ UpdateProfile(c) \/ SoftDelete(c)
    \/ BeginCreateFirstAdmin(c) \/ CreateFirstAdmin(c) \/ Abandon(c)

Next ==
    \/ \E c \in Clients : Arrivals(c) \/ Steps(c)
    \/ DeleteExpired \/ Restart \/ TimePasses

Spec == Init /\ [][Next]_vars

---------------------------------------------------------------------------
(* Properties *)

(* "Every session opened before this moment stops working": a token that   *)
(* still authenticates was opened with the account's present password,     *)
(* unless a login passed its password check before the change and was      *)
(* signed after the change read its moment, or two moments were written in *)
(* the wrong order.                                                        *)
SessionsEndWithPassword ==
    ~hist.outrun => \A t \in tokens : Authenticate(t) => t.pw = users[t.user].pw

(* "There is no moment where the account has a new password and an older   *)
(* link that still works" (MarkUsed): once a reset by mail has written its *)
(* password, no link its account had been sent by then is live, and no     *)
(* request goes on with one that it found live before.  The code keeps     *)
(* this outside three cases, and in each of them it does not:              *)
(*   - two resets of the account were under way together;                  *)
(*   - a link was made between the two statements of a reset; or           *)
(*   - retention removed the link between its look-up and its spending.    *)
OldLinksDieWithReset ==
    hist.together \/ hist.slipped \/ hist.pruned \/
        \A l \in hist.dead :
            ~LinkLive(l) /\ \A c \in Clients : InReset(c) => req[c].link # l

(* Set-up makes one administrator and closes, over restarts too, unless    *)
(* two of its inserts overlapped or two administrators deleted each other. *)
FirstAdminOnce ==
    (hist.overlap \/ hist.crossed) \/
        Cardinality({u \in UserIds : users[u].setup}) <= 1
=============================================================================
