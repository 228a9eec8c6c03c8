---------------------------- MODULE AccessProofs ----------------------------
(***************************************************************************)
(* Safety of what callers meet: accounts with their sessions, reset links  *)
(* and first set-up, the limiters in front of the login, the preview of a  *)
(* cron expression, and the exit codes of the command line client.         *)
(*                                                                         *)
(* Each service has an inductive invariant of its own, about its own       *)
(* actions only: StepsOfOne of ServicesProofs says why that is enough.     *)
(***************************************************************************)
EXTENDS ServicesProofs

---------------------------------------------------------------------------
(* Accounts: the shape of rows, tokens and requests *)

UserFields == {"state", "pw", "admin", "active", "cutoff", "setup"}
LinkFields == {"state", "user", "expires"}
HistFields == {"outrun", "overlap", "crossed", "pruned", "slipped", "together", "dead"}

(* Where each kind of request can be, and what it carries.                 *)
PlacesOf ==
    [login          |-> {"getByEmail", "issue"},
     logout         |-> {"auth", "logout", "write"},
     changePassword |-> {"auth", "getByID", "changePassword", "write"},
     forgot         |-> {"forgot", "createReset"},
     reset          |-> {"find", "owner", "complete", "write", "password"},
     createUser     |-> {"auth", "createUser"},
     updateUser     |-> {"auth", "updateUser", "profile", "resetPassword", "write"},
     deleteUser     |-> {"auth", "deleteUser", "write"},
     setup          |-> {"snapshot", "insertFirst", "issue"}]

FieldsOf ==
    [login          |-> {"user", "pw"},
     logout         |-> {"next", "token"},
     changePassword |-> {"next", "token", "user", "current", "pw"},
     forgot         |-> {"user"},
     reset          |-> {"link", "pw"},
     createUser     |-> {"next", "token", "admin", "active", "pw"},
     updateUser     |-> {"next", "token", "user", "admin", "active", "pw"},
     deleteUser     |-> {"next", "token", "user"},
     setup          |-> {"pw"}]

NextOf ==
    [logout |-> "logout", changePassword |-> "getByID", createUser |-> "settings",
     updateUser |-> "settings", deleteUser |-> "settings"]

(* The places before the first account.                                    *)
BeforeFirst == {"snapshot", "insertFirst"}

(* A row, once written, stays, be it as a deleted one.                     *)
Known(u) == u \in UserIds /\ users[u].state # "none"
SomeKnown == \E u \in UserIds : Known(u)

AccountsShape ==
    /\ DOMAIN users = UserIds /\ DOMAIN resets = LinkIds
    /\ DOMAIN req = Clients /\ DOMAIN hist = HistFields
    /\ clock \in Int
    /\ \A u \in UserIds : DOMAIN users[u] = UserFields /\ users[u].cutoff \in Int
    /\ \A l \in LinkIds : DOMAIN resets[l] = LinkFields

(* A token is of an account there is or was; its birth is in the past, and *)
(* the issue time it carries no later than that.                           *)
TokenSound(t) ==
    /\ Known(t.user)
    /\ t.born \in Int /\ t.issued \in Int
    /\ t.issued <= t.born /\ t.born < clock

(* The moment a request is about to write is no token's birth.             *)
StampSound(r) ==
    /\ "at" \in DOMAIN r /\ r.at \in Int /\ r.at < clock
    /\ \A t \in tokens : t.born # r.at

LinkSound(r) ==
    /\ "user" \in DOMAIN r
    /\ resets[r.link].state # "none"
    /\ resets[r.link].user = r.user

AccountRequest(r) ==
    /\ {"pc", "kind"} \subseteq DOMAIN r
    /\ r.kind \in DOMAIN PlacesOf
    /\ r.pc \in PlacesOf[r.kind] /\ FieldsOf[r.kind] \subseteq DOMAIN r
    /\ r.pc \in BeforeFirst \/ SomeKnown
    /\ r.kind \in DOMAIN NextOf => r.next = NextOf[r.kind]
    /\ r.kind = "deleteUser" => r.user # r.token.user
    /\ r.pc = "issue" => "user" \in DOMAIN r /\ Known(r.user)
    /\ r.pc \in {"write", "password"} => StampSound(r)
    /\ r.kind = "reset" => r.link \in LinkIds
    /\ r.kind = "reset" /\ r.pc \in A!LinkFound => LinkSound(r)

AccountTokens == \A t \in tokens : TokenSound(t)
AccountRequests == \A c \in Clients : req[c] = A!Idle \/ AccountRequest(req[c])

---------------------------------------------------------------------------
(* Accounts: the invariant *)

(* A token that the cut-off lets through has the present password, whether *)
(* or not it has run out or its account is gone.                           *)
SessionsCurrent ==
    ~hist.outrun =>
        \A t \in tokens : users[t.user].cutoff <= t.issued => t.pw = users[t.user].pw

(* As long as administrators do not delete each other, a table that ever   *)
(* held an account holds one; so an insert that saw none is the first, and *)
(* the only one of its kind unless two overlap.                            *)
FirstAlone ==
    /\ setupDone => SomeKnown
    /\ ~hist.crossed => (SomeKnown => \E u \in UserIds : users[u].state = "live")
    /\ \A u \in UserIds : users[u].setup => Known(u)
    /\ ~hist.overlap =>
          \A c, d \in Clients : A!At(c, "insertFirst") /\ A!At(d, "insertFirst") => c = d
    /\ ~hist.overlap /\ ~hist.crossed =>
          /\ \A c \in Clients : A!At(c, "insertFirst") => ~SomeKnown
          /\ \A u, v \in UserIds : users[u].setup /\ users[v].setup => u = v

AccountsInv ==
    /\ AccountsShape /\ AccountTokens /\ AccountRequests
    /\ SessionsCurrent /\ FirstAlone

LEMMA NobodyLive ==
    /\ A!NeedsSetup => \A u \in UserIds : users[u].state # "live"
    /\ ~A!NeedsSetup => \E u \in UserIds : users[u].state = "live"
  <1> DEFINE live == {u \in UserIds : A!Live(u)}
  <1>1. IsFiniteSet(live)
    BY AccountsAssumption, FS_Subset
  <1>2. Cardinality(live) = 0 <=> live = {}
    BY <1>1, FS_EmptySet
  <1>3. A!NeedsSetup <=> live = {}
    BY <1>2 DEF A!NeedsSetup, A!Count, Cardinality, A!Cardinality, IsFiniteSet, A!IsFiniteSet
  <1>4. QED
    BY <1>3 DEF A!Live

(* The id the next row gets is one that has none.                          *)
LEMMA FreshIsUnused ==
    ASSUME NEW ids \in SUBSET Nat, NEW tab, A!Unused(ids, tab) # {}
    PROVE  A!Fresh(ids, tab) \in A!Unused(ids, tab)
  <1>1. A!Unused(ids, tab) \in SUBSET Nat
    BY DEF A!Unused
  <1>2. \E i \in A!Unused(ids, tab) : \A k \in A!Unused(ids, tab) : i <= k
    BY <1>1, LeastElement
  <1>3. QED
    BY <1>2 DEF A!Fresh

(* The second a moment lies in began no later.                             *)
LEMMA DivisionRest ==
    ASSUME NEW t \in Int, NEW p \in Nat \ {0}
    PROVE  t \div p \in Int /\ (p * (t \div p)) + (t % p) = t /\ t % p \in 0..p - 1
  OBVIOUS

LEMMA SecondBegan ==
    ASSUME NEW t \in Int
    PROVE  A!Second(t) \in Int /\ A!Second(t) <= t
  <1>1. PICK q \in Int, r \in Nat : q = t \div PerSecond /\ (PerSecond * q) + r = t
    BY AlertsAssumption, DivisionRest
  <1>2. QED
    BY <1>1, AlertsAssumption DEF A!Second

---------------------------------------------------------------------------
(* Accounts: what every step leaves as it was *)

AccountsStay ==
    /\ clock' \in Int /\ clock <= clock'
    /\ \A u \in UserIds : Known(u) => Known(u)'
    /\ \A l \in LinkIds : resets[l].state # "none" =>
          resets'[l].state # "none" /\ resets'[l].user = resets[l].user
    /\ \A t \in tokens' : t \in tokens \/ t.born = clock

LEMMA RequestStays ==
    ASSUME NEW r, AccountRequest(r), AccountsStay, clock \in Int
    PROVE  AccountRequest(r)'
  <1>1. SomeKnown => SomeKnown'
    BY DEF SomeKnown, AccountsStay, Known
  <1>2. r.pc = "issue" => Known(r.user)'
    BY DEF AccountRequest, AccountsStay, Known
  <1>3. StampSound(r) => StampSound(r)'
    <2> SUFFICES ASSUME StampSound(r) PROVE StampSound(r)'
      OBVIOUS
    <2>1. r.at \in Int /\ r.at < clock /\ clock <= clock' /\ clock' \in Int
      BY DEF StampSound, AccountsStay
    <2>2. \A t \in tokens' : t.born # r.at
      BY <2>1 DEF StampSound, AccountsStay
    <2>3. QED
      BY <2>1, <2>2 DEF StampSound
  <1>4. r.kind = "reset" /\ LinkSound(r) => LinkSound(r)'
    <2>1. AccountRequest(r) /\ r.kind = "reset" => r.link \in LinkIds
      BY DEF AccountRequest
    <2>2. QED
      BY <2>1 DEF LinkSound, AccountsStay
  <1>5. QED
    BY <1>1, <1>2, <1>3, <1>4 DEF AccountRequest

LEMMA TokensStay ==
    ASSUME AccountTokens, AccountsStay, clock \in Int, tokens' = tokens
    PROVE  AccountTokens'
  <1> SUFFICES ASSUME NEW t \in tokens PROVE TokenSound(t)'
    BY DEF AccountTokens
  <1>1. TokenSound(t)
    BY DEF AccountTokens
  <1>2. Known(t.user)'
    BY <1>1 DEF TokenSound, AccountsStay, Known
  <1>3. QED
    BY <1>1, <1>2 DEF TokenSound, AccountsStay

(* One request moves on to q, or is over.                                  *)
MovesTo(c, q) == DOMAIN req' = Clients /\ req'[c] = q
                 /\ \A d \in Clients : d # c => req'[d] = req[d]

LEMMA RequestsStay ==
    ASSUME AccountRequests, AccountsStay, clock \in Int, NEW c \in Clients, NEW q,
           MovesTo(c, q), q = A!Idle \/ AccountRequest(q)'
    PROVE  AccountRequests'
  <1> SUFFICES ASSUME NEW d \in Clients, req'[d] # A!Idle
               PROVE  AccountRequest(req[d])'
    BY DEF AccountRequests, A!Idle
  <1>1. CASE d = c
    BY <1>1 DEF MovesTo
  <1>2. CASE d # c
    <2>1. PICK r : r = req[d]
      OBVIOUS
    <2>2. req'[d] = r /\ AccountRequest(r)
      BY <1>2, <2>1 DEF MovesTo, AccountRequests
    <2>3. QED
      BY <2>2, RequestStays
  <1>3. QED
    BY <1>1, <1>2

(* First set-up sees only which rows there are and who is at the insert.   *)
LEMMA FirstStays ==
    ASSUME FirstAlone, AccountRequests,
           \A u \in UserIds : /\ users'[u].state = users[u].state
                              /\ users'[u].setup = users[u].setup,
           setupDone' => setupDone \/ SomeKnown,
           hist'.overlap = hist.overlap, hist'.crossed = hist.crossed,
           \A d \in Clients : A!At(d, "insertFirst")' => A!At(d, "insertFirst")
    PROVE  FirstAlone'
  <1>1. /\ SomeKnown' <=> SomeKnown
        /\ \A u \in UserIds : Known(u)' <=> Known(u)
    BY DEF SomeKnown, Known
  <1>2. QED
    BY <1>1 DEF FirstAlone

(* A request that only reads, or reads the clock.                          *)
LEMMA ReadKeepsAccounts ==
    ASSUME AccountsInv, NEW c \in Clients, NEW q, MovesTo(c, q),
           q = A!Idle \/ AccountRequest(q)', q.pc # "insertFirst",
           UNCHANGED <<users, resets, tokens, hist>>,
           clock' \in {clock, clock + 1}, setupDone' => setupDone \/ SomeKnown
    PROVE  AccountsInv'
  <1>1. AccountsStay
    BY DEF AccountsStay, AccountsInv, AccountsShape, Known
  <1>2. AccountsShape' /\ AccountTokens' /\ AccountRequests'
    BY <1>1, TokensStay, RequestsStay DEF AccountsInv, AccountsShape, MovesTo
  <1>3. FirstAlone'
    <2>1. \A d \in Clients : A!At(d, "insertFirst")' => A!At(d, "insertFirst")
      BY DEF A!At, MovesTo
    <2>2. QED
      BY <2>1, FirstStays DEF AccountsInv
  <1>4. SessionsCurrent'
    BY DEF AccountsInv, SessionsCurrent
  <1>5. QED
    BY <1>2, <1>3, <1>4 DEF AccountsInv

---------------------------------------------------------------------------
(* Accounts: arrivals, and the steps that only read *)

(* What the gate lets through came when there was an account, but set-up.  *)
LEMMA GateKeeps ==
    ASSUME AccountsInv, NEW c \in Clients, NEW r, A!SetupGate(c, r),
           r.kind = "setup" \/ SomeKnown => AccountRequest(r), r.pc # "insertFirst"
    PROVE  AccountsInv'
  <1>1. PICK seen : seen = (setupDone \/ ~A!NeedsSetup)
    OBVIOUS
  <1>2. seen \in BOOLEAN /\ (seen => SomeKnown)
    BY <1>1, NobodyLive DEF AccountsInv, FirstAlone, SomeKnown, Known
  <1>3. PICK q : q = IF seen = (r.kind = "setup") THEN A!Idle ELSE r
    OBVIOUS
  <1>4. setupDone' = seen /\ UNCHANGED <<users, resets, tokens, clock, hist>>
    BY <1>1 DEF A!SetupGate
  <1>5. MovesTo(c, q)
    BY <1>1, <1>3 DEF A!SetupGate, AccountsInv, AccountsShape, MovesTo
  <1>6. q = A!Idle \/ AccountRequest(q)'
    <2>1. q = A!Idle \/ (q = r /\ AccountRequest(q))
      BY <1>2, <1>3
    <2>2. AccountRequest(q) => AccountRequest(q)'
      BY <1>4, RequestStays DEF AccountsStay, AccountsInv, AccountsShape, Known
    <2>3. QED
      BY <2>1, <2>2
  <1>7. q.pc # "insertFirst"
    BY <1>3 DEF A!Idle
  <1>8. QED
    BY <1>2, <1>4, <1>5, <1>6, <1>7, ReadKeepsAccounts

LEMMA ArrivalsKeep ==
    ASSUME AccountsInv, NEW c \in Clients, A!Arrivals(c)
    PROVE  AccountsInv'
  <1> USE DEF AccountRequest, PlacesOf, FieldsOf, NextOf, BeforeFirst, A!LinkFound
  <1>1. ASSUME NEW u, NEW pw, A!Login(c, u, pw) PROVE AccountsInv'
    BY <1>1, GateKeeps DEF A!Login
  <1>2. ASSUME NEW u, A!Forgot(c, u) PROVE AccountsInv'
    BY <1>2, GateKeeps DEF A!Forgot
  <1>3. ASSUME NEW l \in LinkIds, NEW pw, A!Reset(c, l, pw) PROVE AccountsInv'
    BY <1>3, GateKeeps DEF A!Reset
  <1>4. ASSUME NEW pw, A!Setup(c, pw) PROVE AccountsInv'
    BY <1>4, GateKeeps DEF A!Setup
  <1>5. ASSUME NEW t, A!Logout(c, t) PROVE AccountsInv'
    BY <1>5, GateKeeps DEF A!Logout
  <1>6. ASSUME NEW t, NEW a, NEW b, A!ChangePassword(c, t, a, b) PROVE AccountsInv'
    BY <1>6, GateKeeps DEF A!ChangePassword
  <1>7. ASSUME NEW t, NEW a, NEW b, NEW pw, A!SaveNewUser(c, t, a, b, pw) PROVE AccountsInv'
    BY <1>7, GateKeeps DEF A!SaveNewUser
  <1>8. ASSUME NEW t, NEW u, NEW a, NEW b, NEW pw, A!SaveUser(c, t, u, a, b, pw)
        PROVE  AccountsInv'
    BY <1>8, GateKeeps DEF A!SaveUser
  <1>9. ASSUME NEW t, NEW u, A!DeleteUser(c, t, u) PROVE AccountsInv'
    BY <1>9, GateKeeps DEF A!DeleteUser
  <1>10. QED
    BY <1>1, <1>2, <1>3, <1>4, <1>5, <1>6, <1>7, <1>8, <1>9 DEF A!Arrivals

(* A request that goes to another of its places, as the same request.      *)
LEMMA GotoRight ==
    ASSUME NEW r, AccountRequest(r), NEW p, NEW q, q = [r EXCEPT !.pc = p],
           p \in PlacesOf[r.kind], p \in BeforeFirst \/ SomeKnown,
           p = "issue" => "user" \in DOMAIN r /\ Known(r.user),
           p \in {"write", "password"} => r.pc \in {"write", "password"},
           p \in A!LinkFound => r.pc \in A!LinkFound
    PROVE  AccountRequest(q) /\ q.pc = p
  <1>1. DOMAIN q = DOMAIN r /\ q.pc = p /\ \A f \in DOMAIN r : f # "pc" => q[f] = r[f]
    BY DEF AccountRequest
  <1>2. /\ {"pc", "kind"} \subseteq DOMAIN q /\ q.kind = r.kind
        /\ q.kind \in DOMAIN PlacesOf
        /\ q.pc \in PlacesOf[q.kind] /\ FieldsOf[q.kind] \subseteq DOMAIN q
    BY <1>1 DEF AccountRequest
  <1>3. q.kind \in DOMAIN NextOf => q.next = NextOf[q.kind]
    BY <1>1 DEF AccountRequest, FieldsOf, NextOf, PlacesOf
  <1>4. q.kind = "deleteUser" => q.user # q.token.user
    BY <1>1 DEF AccountRequest, FieldsOf
  <1>5. q.pc = "issue" => "user" \in DOMAIN q /\ Known(q.user)
    BY <1>1
  <1>6. q.kind = "reset" => q.link = r.link /\ q.link \in LinkIds
    BY <1>1 DEF AccountRequest, FieldsOf
  <1>7. q.kind = "reset" /\ q.pc \in A!LinkFound => LinkSound(q)
    BY <1>1, <1>6 DEF AccountRequest, LinkSound
  <1>8. q.pc \in {"write", "password"} => StampSound(q)
    BY <1>1 DEF AccountRequest, StampSound
  <1>9. QED
    BY <1>1, <1>2, <1>3, <1>4, <1>5, <1>6, <1>7, <1>8 DEF AccountRequest

LEMMA GotoKeeps ==
    ASSUME AccountsInv, NEW c \in Clients, ~A!At(c, "idle"), NEW p, p # "insertFirst",
           p \in PlacesOf[req[c].kind], p \notin {"write", "password"}, p \notin BeforeFirst,
           req[c].pc \notin BeforeFirst,
           p = "issue" => "user" \in DOMAIN req[c] /\ Known(req[c].user),
           p \in A!LinkFound => req[c].pc \in A!LinkFound,
           A!Goto(c, p), UNCHANGED <<users, resets, tokens, setupDone, hist, clock>>
    PROVE  AccountsInv'
  <1>1. PICK r : r = req[c]
    OBVIOUS
  <1>2. PICK q : q = [r EXCEPT !.pc = p]
    OBVIOUS
  <1>3. AccountRequest(r)
    BY <1>1 DEF AccountsInv, AccountRequests, A!At, A!Idle
  <1>4. MovesTo(c, q)
    BY <1>1, <1>2 DEF A!Goto, MovesTo, AccountsInv, AccountsShape
  <1>5. SomeKnown
    BY <1>1, <1>3 DEF AccountRequest
  <1>6. AccountRequest(q) /\ q.pc = p
    BY <1>1, <1>2, <1>3, <1>5, GotoRight
  <1>7. AccountRequest(q)'
    BY <1>6, RequestStays DEF AccountsStay, AccountsInv, AccountsShape, Known
  <1>8. QED
    BY <1>4, <1>6, <1>7, ReadKeepsAccounts

LEMMA RespondKeeps ==
    ASSUME AccountsInv, NEW c \in Clients,
           A!Respond(c), UNCHANGED <<users, resets, tokens, setupDone, hist, clock>>
    PROVE  AccountsInv'
  <1>1. MovesTo(c, A!Idle) /\ A!Idle.pc # "insertFirst"
    BY DEF A!Respond, MovesTo, AccountsInv, AccountsShape, A!Idle
  <1>2. QED
    BY <1>1, ReadKeepsAccounts

LEMMA AtWork ==
    ASSUME AccountsInv, NEW c \in Clients, ~A!At(c, "idle")
    PROVE  AccountRequest(req[c])
  BY DEF AccountsInv, AccountRequests, A!At, A!Idle

(* The kinds of request that a place has.                                  *)
LEMMA KindsAt ==
    ASSUME NEW r, AccountRequest(r)
    PROVE  /\ r.pc = "auth" => r.kind \in DOMAIN NextOf
           /\ r.pc = "getByEmail" => r.kind = "login"
           /\ r.pc = "getByID" => r.kind = "changePassword"
           /\ r.pc = "forgot" => r.kind = "forgot"
           /\ r.pc \in {"find", "owner"} => r.kind = "reset"
           /\ r.pc \in {"updateUser", "profile"} => r.kind = "updateUser"
           /\ r.pc \in BeforeFirst => r.kind = "setup"
           /\ r.pc = "createUser" => r.kind = "createUser"
           /\ r.pc = "password" => r.kind = "reset"
           /\ r.pc \in A!Unstamped => "write" \in PlacesOf[r.kind]
           /\ r.pc = "issue" => r.kind \in {"login", "setup"}
  BY DEF AccountRequest, PlacesOf, NextOf, BeforeFirst, A!Unstamped

LEMMA ReadsKeep ==
    ASSUME AccountsInv, NEW c \in Clients,
           A!WebAuth(c) \/ A!GetByEmail(c) \/ A!GetByID(c) \/ A!RequestPasswordReset(c)
           \/ A!LinkOwner(c) \/ A!UpdateUser(c) \/ A!Abandon(c)
    PROVE  AccountsInv'
  <1> USE DEF A!At
  <1>0. AccountRequest(req[c])
    BY AtWork DEF A!WebAuth, A!GetByEmail, A!GetByID, A!RequestPasswordReset, A!LinkOwner,
                  A!UpdateUser, A!Abandon
  <1>1. CASE A!WebAuth(c)
    <2>1. req[c].kind \in DOMAIN NextOf /\ req[c].next = NextOf[req[c].kind]
      BY <1>0, <1>1, KindsAt DEF A!WebAuth, AccountRequest
    <2>2. PICK p : p = IF req[c].next = "settings" THEN req[c].kind ELSE req[c].next
      OBVIOUS
    <2>3. /\ p \in PlacesOf[req[c].kind] /\ p \notin A!LinkFound /\ p \notin BeforeFirst
          /\ p # "issue"
      BY <2>1, <2>2 DEF NextOf, PlacesOf, A!LinkFound, BeforeFirst
    <2>4. p # "insertFirst" /\ p \notin {"write", "password"}
      BY <2>3 DEF A!LinkFound, BeforeFirst
    <2>5. CASE A!Respond(c)
      BY <1>1, <2>5, RespondKeeps DEF A!WebAuth
    <2>6. CASE A!Goto(c, p)
      BY <1>1, <2>3, <2>4, <2>6, GotoKeeps DEF A!WebAuth, BeforeFirst
    <2>7. QED
      BY <1>1, <2>2, <2>5, <2>6 DEF A!WebAuth
  <1>2. CASE A!GetByEmail(c)
    <2>1. req[c].kind = "login" /\ "user" \in DOMAIN req[c]
      BY <1>0, <1>2, KindsAt DEF A!GetByEmail, AccountRequest, FieldsOf
    <2>2. A!Live(req[c].user) => Known(req[c].user)
      BY DEF A!Live, Known
    <2>3. QED
      BY <1>2, <2>1, <2>2, GotoKeeps, RespondKeeps
         DEF A!GetByEmail, PlacesOf, A!LinkFound, BeforeFirst
  <1>3. CASE A!GetByID(c)
    <2>1. req[c].kind = "changePassword"
      BY <1>0, <1>3, KindsAt DEF A!GetByID
    <2>2. QED
      BY <1>3, <2>1, GotoKeeps, RespondKeeps DEF A!GetByID, PlacesOf, A!LinkFound, BeforeFirst
  <1>4. CASE A!RequestPasswordReset(c)
    <2>1. req[c].kind = "forgot"
      BY <1>0, <1>4, KindsAt DEF A!RequestPasswordReset
    <2>2. QED
      BY <1>4, <2>1, GotoKeeps, RespondKeeps
         DEF A!RequestPasswordReset, PlacesOf, A!LinkFound, BeforeFirst
  <1>5. CASE A!LinkOwner(c)
    <2>1. req[c].kind = "reset"
      BY <1>0, <1>5, KindsAt DEF A!LinkOwner
    <2>2. QED
      BY <1>5, <2>1, GotoKeeps, RespondKeeps DEF A!LinkOwner, PlacesOf, A!LinkFound, BeforeFirst
  <1>6. CASE A!UpdateUser(c)
    <2>1. req[c].kind = "updateUser"
      BY <1>0, <1>6, KindsAt DEF A!UpdateUser
    <2>2. QED
      BY <1>6, <2>1, GotoKeeps, RespondKeeps DEF A!UpdateUser, PlacesOf, A!LinkFound, BeforeFirst
  <1>7. CASE A!Abandon(c)
    BY <1>7, RespondKeeps DEF A!Abandon
  <1>8. QED
    BY <1>1, <1>2, <1>3, <1>4, <1>5, <1>6, <1>7

(* The reset has the account of the link it found.                         *)
LEMMA FindKeeps ==
    ASSUME AccountsInv, NEW c \in Clients, A!FindByTokenHash(c)
    PROVE  AccountsInv'
  <1>1. CASE A!Respond(c)
    BY <1>1, RespondKeeps DEF A!FindByTokenHash
  <1>2. CASE ~A!Respond(c)
    <2>1. PICK q : q = [pc |-> "owner", kind |-> "reset", link |-> req[c].link,
                        pw |-> req[c].pw, user |-> resets[req[c].link].user]
      OBVIOUS
    <2>2. MovesTo(c, q) /\ A!LinkLive(req[c].link)
          /\ UNCHANGED <<users, resets, tokens, setupDone, hist, clock>>
      BY <1>2, <2>1 DEF A!FindByTokenHash, MovesTo, AccountsInv, AccountsShape
    <2>3. AccountRequest(req[c]) /\ req[c].kind = "reset" /\ SomeKnown
      BY AtWork, KindsAt DEF A!FindByTokenHash, A!At, AccountRequest, BeforeFirst
    <2>4. req[c].link \in LinkIds
      BY <2>3 DEF AccountRequest
    <2>5. LinkSound(q)
      BY <2>1, <2>2, <2>4 DEF LinkSound, A!LinkLive
    <2>6. AccountRequest(q)
      BY <2>1, <2>3, <2>4, <2>5 DEF AccountRequest, PlacesOf, FieldsOf, NextOf
    <2>7. AccountRequest(q)'
      BY <2>2, <2>6, RequestStays DEF AccountsStay, AccountsInv, AccountsShape, Known
    <2>8. q.pc # "insertFirst"
      BY <2>1
    <2>9. QED
      BY <2>2, <2>7, <2>8, ReadKeepsAccounts
  <1>3. QED
    BY <1>1, <1>2

LEMMA StampKeeps ==
    ASSUME AccountsInv, NEW c \in Clients, A!Stamp(c)
    PROVE  AccountsInv'
  <1>1. PICK r : r = req[c]
    OBVIOUS
  <1>2. PICK q : q = A!Stamped(r, clock)
    OBVIOUS
  <1>3. r.pc \in A!Unstamped /\ clock' = clock + 1
        /\ UNCHANGED <<users, resets, tokens, setupDone, hist>>
    BY <1>1 DEF A!Stamp, A!Now
  <1>4. AccountRequest(r)
    BY <1>1, <1>3, AtWork DEF A!At, A!Unstamped
  <1>5. MovesTo(c, q)
    BY <1>1, <1>2 DEF A!Stamp, MovesTo, AccountsInv, AccountsShape
  <1>6. /\ DOMAIN q = DOMAIN r \cup {"at"} /\ q.pc = "write" /\ q.at = clock
        /\ \A f \in DOMAIN r : f \notin {"pc", "at"} => q[f] = r[f]
    BY <1>2, <1>4 DEF A!Stamped, AccountRequest
  <1>7. AccountsStay /\ clock \in Int /\ clock < clock'
    BY <1>3 DEF AccountsStay, AccountsInv, AccountsShape, Known
  <1>8. AccountRequest(r)'
    BY <1>4, <1>7, RequestStays
  <1>9. StampSound(q)'
    <2>1. \A t \in tokens : t.born < clock /\ t.born \in Int
      BY DEF AccountsInv, AccountTokens, TokenSound
    <2>2. \A t \in tokens' : t.born # q.at
      BY <1>3, <1>6, <1>7, <2>1
    <2>3. QED
      BY <1>6, <1>7, <2>2 DEF StampSound
  <1>10. AccountRequest(q)'
    <2>1. /\ {"pc", "kind"} \subseteq DOMAIN q /\ q.kind = r.kind
          /\ q.kind \in DOMAIN PlacesOf
          /\ q.pc \in PlacesOf[q.kind] /\ FieldsOf[q.kind] \subseteq DOMAIN q
          /\ SomeKnown'
      BY <1>3, <1>4, <1>6, <1>8, KindsAt DEF AccountRequest, BeforeFirst, A!Unstamped
    <2>2. q.kind \in DOMAIN NextOf => q.next = NextOf[q.kind]
      BY <1>4, <1>6, <2>1 DEF AccountRequest, FieldsOf, NextOf, PlacesOf
    <2>3. q.kind = "deleteUser" => q.user # q.token.user
      BY <1>4, <1>6, <2>1 DEF AccountRequest, FieldsOf
    <2>4. q.kind = "reset" => q.link = r.link /\ r.pc = "complete" /\ q.link \in LinkIds
      BY <1>3, <1>4, <1>6, <2>1 DEF AccountRequest, FieldsOf, PlacesOf, A!Unstamped
    <2>5. q.kind = "reset" => LinkSound(q)'
      BY <1>6, <1>8, <2>1, <2>4 DEF AccountRequest, LinkSound, A!LinkFound
    <2>6. QED
      BY <1>6, <1>9, <2>1, <2>2, <2>3, <2>4, <2>5 DEF AccountRequest
  <1>11. QED
    BY <1>3, <1>5, <1>6, <1>10, ReadKeepsAccounts

---------------------------------------------------------------------------
(* Accounts: writes *)

LEMMA IssueKeeps ==
    ASSUME AccountsInv, NEW c \in Clients, A!IssueToken(c)
    PROVE  AccountsInv'
  <1>1. PICK r : r = req[c]
    OBVIOUS
  <1>2. PICK n : n = [user |-> r.user, pw |-> r.pw, born |-> clock,
                      issued |-> A!Second(clock), expires |-> A!Second(clock + TokenTTL)]
    OBVIOUS
  <1>3. /\ tokens' = tokens \cup {n} /\ clock' = clock + 1 /\ r.pc = "issue"
        /\ UNCHANGED <<users, resets, setupDone>>
    BY <1>1, <1>2 DEF A!IssueToken, A!Issue, A!Now, A!At
  <1>4. Known(r.user)
    BY <1>1, <1>3, AtWork DEF A!At, AccountRequest
  <1>5. /\ DOMAIN hist' = HistFields /\ hist'.overlap = hist.overlap
        /\ hist'.crossed = hist.crossed
        /\ ~hist'.outrun => ~hist.outrun /\ users[r.user].pw = r.pw
    BY <1>1 DEF A!IssueToken, AccountsInv, AccountsShape, HistFields
  <1>6. MovesTo(c, A!Idle)
    BY DEF A!IssueToken, A!Respond, MovesTo, AccountsInv, AccountsShape
  <1>7. AccountsStay /\ clock \in Int
    BY <1>2, <1>3 DEF AccountsStay, AccountsInv, AccountsShape, Known
  <1>8. AccountTokens'
    <2>1. TokenSound(n)'
      <3>1. n.born \in Int /\ n.issued \in Int /\ n.issued <= n.born /\ n.born < clock'
        BY <1>2, <1>3, <1>7, SecondBegan
      <3>2. Known(n.user)'
        BY <1>2, <1>3, <1>4 DEF Known
      <3>3. QED
        BY <3>1, <3>2 DEF TokenSound
    <2>2. ASSUME NEW t \in tokens PROVE TokenSound(t)'
      BY <1>3, <1>7 DEF AccountsInv, AccountTokens, TokenSound, Known
    <2>3. QED
      BY <1>3, <2>1, <2>2 DEF AccountTokens
  <1>9. SessionsCurrent'
    BY <1>2, <1>3, <1>5 DEF SessionsCurrent, AccountsInv
  <1>10. FirstAlone'
    <2>1. \A d \in Clients : A!At(d, "insertFirst")' => A!At(d, "insertFirst")
      BY <1>6 DEF A!At, MovesTo, A!Idle
    <2>2. QED
      BY <1>3, <1>5, <2>1, FirstStays DEF AccountsInv
  <1>11. AccountsShape' /\ AccountRequests'
    BY <1>3, <1>5, <1>6, <1>7, RequestsStay DEF AccountsInv, AccountsShape, MovesTo
  <1>12. QED
    BY <1>8, <1>9, <1>10, <1>11 DEF AccountsInv

(* A cut-off moved to the moment at ends every token there is of u: none   *)
(* is younger, and none was born at that very moment.                      *)
LEMMA CutEndsTokens ==
    ASSUME AccountsInv, NEW r, StampSound(r), NEW u, tokens' = tokens,
           \A v \in UserIds : v # u => users'[v].cutoff = users[v].cutoff
                                     /\ users'[v].pw = users[v].pw,
           u \in UserIds => users'[u].cutoff = r.at,
           ~hist'.outrun => /\ ~hist.outrun
                            /\ \A t \in tokens : ~(t.user = u /\ t.born > r.at)
    PROVE  SessionsCurrent'
  <1> SUFFICES ASSUME ~hist'.outrun, NEW t \in tokens,
                      users'[t.user].cutoff <= t.issued
               PROVE  t.pw = users'[t.user].pw
    BY DEF SessionsCurrent
  <1>1. TokenSound(t) /\ t.user \in UserIds
    BY DEF AccountsInv, AccountTokens, TokenSound, Known
  <1>2. CASE t.user = u
    BY <1>1, <1>2 DEF StampSound, TokenSound
  <1>3. CASE t.user # u
    BY <1>1, <1>3 DEF AccountsInv, SessionsCurrent
  <1>4. QED
    BY <1>2, <1>3

(* A write of one account that leaves what rows there are.                 *)
LEMMA AccountWriteKeeps ==
    ASSUME AccountsInv, NEW c \in Clients, NEW q, MovesTo(c, q),
           q = A!Idle \/ AccountRequest(q), q.pc # "insertFirst",
           DOMAIN users' = UserIds, DOMAIN hist' = HistFields,
           \A v \in UserIds : /\ DOMAIN users'[v] = UserFields /\ users'[v].cutoff \in Int
                              /\ users'[v].setup = users[v].setup
                              /\ users[v].state # "none" <=> users'[v].state # "none",
           UNCHANGED <<resets, tokens, setupDone, clock>>,
           hist'.overlap = hist.overlap,
           ~hist'.crossed => /\ ~hist.crossed
                             /\ (\E u \in UserIds : users[u].state = "live") =>
                                   \E u \in UserIds : users'[u].state = "live",
           SessionsCurrent'
    PROVE  AccountsInv'
  <1>1. AccountsStay /\ clock \in Int
    BY DEF AccountsStay, AccountsInv, AccountsShape, Known
  <1>2. AccountTokens'
    BY <1>1, TokensStay DEF AccountsInv
  <1>3. AccountRequests'
    BY <1>1, RequestStays, RequestsStay DEF AccountsInv
  <1>4. FirstAlone'
    <2>1. /\ SomeKnown' <=> SomeKnown
          /\ \A u \in UserIds : Known(u)' <=> Known(u)
      BY DEF SomeKnown, Known
    <2>2. \A d \in Clients : A!At(d, "insertFirst")' => A!At(d, "insertFirst")
      BY DEF A!At, MovesTo
    <2>3. QED
      BY <2>1, <2>2 DEF FirstAlone, AccountsInv
  <1>5. AccountsShape'
    BY <1>1 DEF AccountsInv, AccountsShape, MovesTo
  <1>6. QED
    BY <1>2, <1>3, <1>4, <1>5 DEF AccountsInv

LEMMA CutHistory ==
    ASSUME AccountsInv, NEW u, NEW at, NEW h, h = A!Cut(u, at)
    PROVE  /\ DOMAIN h = HistFields
           /\ h.overlap = hist.overlap /\ h.crossed = hist.crossed
           /\ h.pruned = hist.pruned /\ h.slipped = hist.slipped
           /\ h.together = hist.together /\ h.dead = hist.dead
           /\ ~h.outrun => /\ ~hist.outrun
                           /\ \A t \in tokens : ~(t.user = u /\ t.born > at)
  BY DEF A!Cut, AccountsInv, AccountsShape, HistFields

LEMMA LogoutKeeps ==
    ASSUME AccountsInv, NEW c \in Clients, A!InvalidateTokens(c)
    PROVE  AccountsInv'
  <1>1. PICK r : r = req[c]
    OBVIOUS
  <1>2. PICK u : u = r.token.user
    OBVIOUS
  <1>3. StampSound(r)
    BY <1>1, AtWork DEF A!InvalidateTokens, A!At, AccountRequest
  <1>4. /\ users' = [users EXCEPT ![u].cutoff = r.at] /\ hist' = A!Cut(u, r.at)
        /\ UNCHANGED <<resets, tokens, setupDone, clock>>
    BY <1>1, <1>2 DEF A!InvalidateTokens
  <1>5. MovesTo(c, A!Idle)
    BY DEF A!InvalidateTokens, A!Respond, MovesTo, AccountsInv, AccountsShape
  <1>6. /\ DOMAIN users' = UserIds
        /\ \A v \in UserIds :
              /\ DOMAIN users'[v] = UserFields /\ users'[v].cutoff \in Int
              /\ users'[v].setup = users[v].setup /\ users'[v].state = users[v].state
              /\ users'[v].pw = users[v].pw
              /\ users'[v].cutoff = IF v = u THEN r.at ELSE users[v].cutoff
    BY <1>3, <1>4 DEF AccountsInv, AccountsShape, UserFields, StampSound
  <1>7. /\ DOMAIN hist' = HistFields
        /\ hist'.overlap = hist.overlap /\ hist'.crossed = hist.crossed
        /\ ~hist'.outrun => /\ ~hist.outrun
                            /\ \A t \in tokens : ~(t.user = u /\ t.born > r.at)
    BY <1>4, CutHistory
  <1>8. SessionsCurrent'
    BY <1>3, <1>4, <1>6, <1>7, CutEndsTokens
  <1>9. A!Idle.pc # "insertFirst"
    BY DEF A!Idle
  <1>10. QED
    BY <1>4, <1>5, <1>6, <1>7, <1>8, <1>9, AccountWriteKeeps

LEMMA PasswordKeeps ==
    ASSUME AccountsInv, NEW c \in Clients, A!WritePassword(c)
    PROVE  AccountsInv'
  <1>1. PICK r : r = req[c]
    OBVIOUS
  <1>2. PICK u : u = r.user
    OBVIOUS
  <1>3. StampSound(r)
    BY <1>1, AtWork DEF A!WritePassword, A!At, AccountRequest
  <1>4. /\ users' = [users EXCEPT ![u].pw = r.pw, ![u].cutoff = r.at]
        /\ UNCHANGED <<resets, tokens, setupDone, clock>>
    BY <1>1, <1>2 DEF A!WritePassword, A!UpdatePassword
  <1>5. MovesTo(c, A!Idle)
    BY DEF A!WritePassword, A!Respond, MovesTo, AccountsInv, AccountsShape
  <1>6. /\ DOMAIN users' = UserIds
        /\ \A v \in UserIds :
              /\ DOMAIN users'[v] = UserFields /\ users'[v].cutoff \in Int
              /\ users'[v].setup = users[v].setup /\ users'[v].state = users[v].state
              /\ v # u => users'[v].pw = users[v].pw
              /\ users'[v].cutoff = IF v = u THEN r.at ELSE users[v].cutoff
    BY <1>3, <1>4 DEF AccountsInv, AccountsShape, UserFields, StampSound
  <1>7. /\ DOMAIN hist' = HistFields
        /\ hist'.overlap = hist.overlap /\ hist'.crossed = hist.crossed
        /\ ~hist'.outrun => /\ ~hist.outrun
                            /\ \A t \in tokens : ~(t.user = u /\ t.born > r.at)
    <2>1. PICK h : h = A!Cut(u, r.at)
      OBVIOUS
    <2>2. PICK links : hist' = [h EXCEPT !.dead = links]
      <3>1. PICK links : links = IF A!At(c, "password") THEN h.dead \cup A!LinksOf(u) ELSE h.dead
        OBVIOUS
      <3>2. hist' = [h EXCEPT !.dead = links]
        BY <1>1, <1>2, <2>1, <3>1 DEF A!WritePassword
      <3>3. QED
        BY <3>2
    <2>3. /\ DOMAIN h = HistFields
          /\ h.overlap = hist.overlap /\ h.crossed = hist.crossed
          /\ ~h.outrun => /\ ~hist.outrun
                          /\ \A t \in tokens : ~(t.user = u /\ t.born > r.at)
      BY <2>1, CutHistory
    <2>4. DOMAIN hist' = HistFields /\ hist'.outrun = h.outrun
          /\ hist'.overlap = h.overlap /\ hist'.crossed = h.crossed
      BY <2>2, <2>3 DEF HistFields
    <2>5. QED
      BY <2>3, <2>4
  <1>8. SessionsCurrent'
    BY <1>3, <1>4, <1>6, <1>7, CutEndsTokens
  <1>9. A!Idle.pc # "insertFirst"
    BY DEF A!Idle
  <1>10. QED
    BY <1>4, <1>5, <1>6, <1>7, <1>8, <1>9, AccountWriteKeeps

(* The administrator who deletes another is left, unless that one was      *)
(* deleted in the meantime.                                                *)
LEMMA DeleteKeeps ==
    ASSUME AccountsInv, NEW c \in Clients, A!SoftDelete(c)
    PROVE  AccountsInv'
  <1>1. PICK r : r = req[c]
    OBVIOUS
  <1>2. PICK u : u = r.user
    OBVIOUS
  <1>3. StampSound(r) /\ r.token.user # u
    BY <1>1, <1>2, AtWork DEF A!SoftDelete, A!At, AccountRequest
  <1>4. /\ users' = [users EXCEPT ![u].state = IF @ = "none" THEN @ ELSE "deleted",
                                  ![u].active = FALSE, ![u].cutoff = r.at]
        /\ hist' = [A!Cut(u, r.at) EXCEPT !.crossed = @ \/ ~A!Live(r.token.user)]
        /\ UNCHANGED <<resets, tokens, setupDone, clock>>
    BY <1>1, <1>2 DEF A!SoftDelete
  <1>5. MovesTo(c, A!Idle)
    BY DEF A!SoftDelete, A!Respond, MovesTo, AccountsInv, AccountsShape
  <1>6. /\ DOMAIN users' = UserIds
        /\ \A v \in UserIds :
              /\ DOMAIN users'[v] = UserFields /\ users'[v].cutoff \in Int
              /\ users'[v].setup = users[v].setup /\ users'[v].pw = users[v].pw
              /\ v # u => users'[v].state = users[v].state
              /\ users[v].state # "none" <=> users'[v].state # "none"
              /\ users'[v].cutoff = IF v = u THEN r.at ELSE users[v].cutoff
    BY <1>3, <1>4 DEF AccountsInv, AccountsShape, UserFields, StampSound
  <1>7. PICK h : h = A!Cut(u, r.at)
    OBVIOUS
  <1>8. /\ DOMAIN h = HistFields
        /\ h.overlap = hist.overlap /\ h.crossed = hist.crossed
        /\ ~h.outrun => /\ ~hist.outrun
                        /\ \A t \in tokens : ~(t.user = u /\ t.born > r.at)
    BY <1>7, CutHistory
  <1>9. /\ DOMAIN hist' = HistFields /\ hist'.outrun = h.outrun
        /\ hist'.overlap = hist.overlap
        /\ ~hist'.crossed => ~hist.crossed /\ A!Live(r.token.user)
    BY <1>4, <1>7, <1>8 DEF HistFields
  <1>10. SessionsCurrent'
    <2>1. /\ StampSound(r) /\ tokens' = tokens
          /\ \A v \in UserIds : v # u => /\ users'[v].cutoff = users[v].cutoff
                                         /\ users'[v].pw = users[v].pw
          /\ u \in UserIds => users'[u].cutoff = r.at
      BY <1>3, <1>4, <1>6
    <2>2. ~hist'.outrun => /\ ~hist.outrun
                           /\ \A t \in tokens : ~(t.user = u /\ t.born > r.at)
      BY <1>8, <1>9
    <2>3. QED
      BY <2>1, <2>2, CutEndsTokens
  <1>11. A!Live(r.token.user) => \E v \in UserIds : users'[v].state = "live"
    BY <1>3, <1>6 DEF A!Live
  <1>12. A!Idle.pc # "insertFirst"
    BY DEF A!Idle
  <1>13. PICK q : q = A!Idle
    OBVIOUS
  <1>14. /\ MovesTo(c, q) /\ q.pc # "insertFirst"
         /\ ~hist'.crossed => /\ ~hist.crossed
                              /\ \E v \in UserIds : users'[v].state = "live"
    BY <1>5, <1>9, <1>11, <1>12, <1>13
  <1>15. /\ UNCHANGED <<resets, tokens, setupDone, clock>>
         /\ \A v \in UserIds : /\ DOMAIN users'[v] = UserFields /\ users'[v].cutoff \in Int
                               /\ users'[v].setup = users[v].setup
                               /\ users[v].state # "none" <=> users'[v].state # "none"
    BY <1>4, <1>6
  <1>16. QED
    BY <1>6, <1>9, <1>10, <1>13, <1>14, <1>15, AccountWriteKeeps

LEMMA ProfileKeeps ==
    ASSUME AccountsInv, NEW c \in Clients, A!UpdateProfile(c)
    PROVE  AccountsInv'
  <1>1. PICK r : r = req[c]
    OBVIOUS
  <1>2. PICK q : q = IF A!ResetPassword(r.pw) THEN [r EXCEPT !.pc = "resetPassword"] ELSE A!Idle
    OBVIOUS
  <1>3. AccountRequest(r) /\ r.kind = "updateUser" /\ SomeKnown
    BY <1>1, AtWork, KindsAt DEF A!UpdateProfile, A!At, AccountRequest, BeforeFirst
  <1>4. MovesTo(c, q)
    BY <1>1, <1>2 DEF A!UpdateProfile, A!Goto, A!Respond, MovesTo, AccountsInv, AccountsShape
  <1>5. (q = A!Idle \/ AccountRequest(q)) /\ q.pc # "insertFirst"
    <2>1. CASE A!ResetPassword(r.pw)
      <3>1. "resetPassword" \in PlacesOf[r.kind] /\ "resetPassword" \notin A!LinkFound
        BY <1>3 DEF PlacesOf, A!LinkFound
      <3>2. QED
        BY <1>2, <1>3, <2>1, <3>1, GotoRight
    <2>2. CASE ~A!ResetPassword(r.pw)
      BY <1>2, <2>2 DEF A!Idle
    <2>3. QED
      BY <2>1, <2>2
  <1>6. /\ DOMAIN users' = UserIds
        /\ \A v \in UserIds :
              /\ DOMAIN users'[v] = UserFields /\ users'[v].cutoff = users[v].cutoff
              /\ users'[v].setup = users[v].setup /\ users'[v].state = users[v].state
              /\ users'[v].pw = users[v].pw
    BY DEF A!UpdateProfile, AccountsInv, AccountsShape, UserFields
  <1>7. UNCHANGED <<resets, tokens, setupDone, clock, hist>>
    BY DEF A!UpdateProfile
  <1>8. SessionsCurrent'
    BY <1>6, <1>7 DEF AccountsInv, SessionsCurrent, AccountTokens, TokenSound, Known
  <1>9. DOMAIN hist' = HistFields /\ \A v \in UserIds : users'[v].cutoff \in Int
    BY <1>6, <1>7 DEF AccountsInv, AccountsShape
  <1>10. QED
    BY <1>4, <1>5, <1>6, <1>7, <1>8, <1>9, AccountWriteKeeps

(* A write of the links alone.                                             *)
LEMMA LinkWriteKeeps ==
    ASSUME AccountsInv, NEW c \in Clients, NEW q, MovesTo(c, q),
           q = A!Idle \/ AccountRequest(q), q.pc # "insertFirst",
           DOMAIN resets' = LinkIds,
           \A l \in LinkIds :
              /\ DOMAIN resets'[l] = LinkFields
              /\ resets[l].state # "none" =>
                    resets'[l].state # "none" /\ resets'[l].user = resets[l].user,
           UNCHANGED <<users, tokens, setupDone>>, clock' \in {clock, clock + 1},
           DOMAIN hist' = HistFields, hist'.overlap = hist.overlap,
           hist'.crossed = hist.crossed, hist'.outrun = hist.outrun
    PROVE  AccountsInv'
  <1>1. AccountsStay /\ clock \in Int
    BY DEF AccountsStay, AccountsInv, AccountsShape, Known
  <1>2. AccountTokens'
    BY <1>1, TokensStay DEF AccountsInv
  <1>3. AccountRequests'
    BY <1>1, RequestStays, RequestsStay DEF AccountsInv
  <1>4. FirstAlone'
    <2>1. \A d \in Clients : A!At(d, "insertFirst")' => A!At(d, "insertFirst")
      BY DEF A!At, MovesTo
    <2>2. QED
      BY <2>1, FirstStays DEF AccountsInv
  <1>5. AccountsShape' /\ SessionsCurrent'
    BY <1>1 DEF AccountsInv, AccountsShape, SessionsCurrent, MovesTo
  <1>6. QED
    BY <1>2, <1>3, <1>4, <1>5 DEF AccountsInv

LEMMA CreateResetKeeps ==
    ASSUME AccountsInv, NEW c \in Clients, A!CreateReset(c)
    PROVE  AccountsInv'
  <1>1. PICK f : f = A!Fresh(LinkIds, resets)
    OBVIOUS
  <1>2. f \in LinkIds /\ resets[f].state = "none"
    BY <1>1, FreshIsUnused, AccountsAssumption DEF A!CreateReset, A!InsertReset, A!Unused
  <1>3. PICK n : n = [state |-> "open", user |-> req[c].user, expires |-> clock + ResetTTL]
    OBVIOUS
  <1>4. /\ UNCHANGED <<users, tokens, setupDone>> /\ clock' = clock + 1
        /\ MovesTo(c, A!Idle) /\ A!Idle.pc # "insertFirst"
    BY DEF A!CreateReset, A!Respond, A!Now, MovesTo, AccountsInv, AccountsShape, A!Idle
  <1>5. /\ DOMAIN resets' = LinkIds
        /\ \A l \in LinkIds :
              /\ DOMAIN resets'[l] = LinkFields
              /\ resets[l].state # "none" => /\ resets'[l].state = resets[l].state
                                             /\ resets'[l].user = resets[l].user
    <2>1. resets' = [resets EXCEPT ![f] = n] /\ DOMAIN n = LinkFields
      BY <1>1, <1>3 DEF A!CreateReset, A!InsertReset, LinkFields
    <2>2. QED
      BY <1>2, <2>1 DEF AccountsInv, AccountsShape
  <1>6. /\ DOMAIN hist' = HistFields /\ hist'.overlap = hist.overlap
        /\ hist'.crossed = hist.crossed /\ hist'.outrun = hist.outrun
    BY DEF A!CreateReset, AccountsInv, AccountsShape, HistFields
  <1>7. QED
    BY <1>4, <1>5, <1>6, LinkWriteKeeps

LEMMA SpendKeeps ==
    ASSUME AccountsInv, NEW c \in Clients, A!SpendLink(c)
    PROVE  AccountsInv'
  <1>1. PICK r : r = req[c]
    OBVIOUS
  <1>2. PICK q : q = [r EXCEPT !.pc = "password"]
    OBVIOUS
  <1>3. r.kind = "reset" /\ r.pc = "write" /\ AccountRequest(r) /\ SomeKnown /\ LinkSound(r)
        /\ r.link \in LinkIds
    BY <1>1, AtWork DEF A!SpendLink, A!At, AccountRequest, BeforeFirst, A!LinkFound
  <1>4. AccountRequest(q) /\ q.pc # "insertFirst"
    <2>1. "password" \in PlacesOf[r.kind] /\ "write" \in A!LinkFound
      BY <1>3 DEF PlacesOf, A!LinkFound
    <2>2. QED
      BY <1>2, <1>3, <2>1, GotoRight
  <1>5. MovesTo(c, q) /\ UNCHANGED <<users, tokens, setupDone, clock>>
    BY <1>1, <1>2 DEF A!SpendLink, A!Goto, MovesTo, AccountsInv, AccountsShape
  <1>6. /\ DOMAIN resets' = LinkIds
        /\ \A k \in LinkIds :
              resets'[k] = IF /\ resets[k].state = "open" /\ resets[r.link].state # "gone"
                              /\ resets[k].user = resets[r.link].user
                           THEN [resets[k] EXCEPT !.state = "used"] ELSE resets[k]
    BY <1>1 DEF A!SpendLink, A!MarkUsed
  <1>7. \A l \in LinkIds :
           /\ DOMAIN resets'[l] = LinkFields /\ resets'[l].user = resets[l].user
           /\ resets'[l].state # resets[l].state => resets'[l].state = "used"
           /\ resets[l].state # "none" <=> resets'[l].state # "none"
    BY <1>6 DEF AccountsInv, AccountsShape, LinkFields
  <1>8. /\ DOMAIN hist' = HistFields /\ hist'.overlap = hist.overlap
        /\ hist'.crossed = hist.crossed /\ hist'.outrun = hist.outrun
    BY DEF A!SpendLink, AccountsInv, AccountsShape, HistFields
  <1>9. QED
    BY <1>4, <1>5, <1>6, <1>7, <1>8, LinkWriteKeeps

(* No request moves on: rows go, or every request is cut off.              *)
LEMMA NoneMoves ==
    ASSUME AccountsInv, AccountsStay, DOMAIN req' = Clients,
           \A d \in Clients : req'[d] = req[d] \/ req'[d] = A!Idle,
           UNCHANGED <<users, tokens, hist>>, setupDone' => setupDone
    PROVE  AccountTokens' /\ AccountRequests' /\ FirstAlone' /\ SessionsCurrent'
  <1>1. AccountTokens'
    BY TokensStay DEF AccountsInv, AccountsShape
  <1>2. ASSUME NEW d \in Clients, req'[d] # A!Idle PROVE AccountRequest(req[d])'
    <2>1. PICK r : r = req[d]
      OBVIOUS
    <2>2. req'[d] = r /\ AccountRequest(r)
      BY <1>2, <2>1 DEF AccountsInv, AccountRequests
    <2>3. QED
      BY <2>2, RequestStays DEF AccountsInv, AccountsShape
  <1>3. AccountRequests'
    BY <1>2 DEF AccountRequests, A!Idle
  <1>4. \A d \in Clients : A!At(d, "insertFirst")' => A!At(d, "insertFirst")
    BY DEF A!At, A!Idle
  <1>5. FirstAlone'
    BY <1>4, FirstStays DEF AccountsInv
  <1>6. QED
    BY <1>1, <1>3, <1>5 DEF AccountsInv, SessionsCurrent

LEMMA ExpireKeeps ==
    ASSUME AccountsInv, A!DeleteExpired
    PROVE  AccountsInv'
  <1>1. /\ DOMAIN resets' = LinkIds
        /\ \A l \in LinkIds :
              /\ DOMAIN resets'[l] = LinkFields /\ resets'[l].user = resets[l].user
              /\ resets'[l].state # resets[l].state => resets'[l].state = "gone"
    BY DEF A!DeleteExpired, AccountsInv, AccountsShape, LinkFields
  <1>2. UNCHANGED <<users, tokens, setupDone, req, clock, hist>>
    BY DEF A!DeleteExpired
  <1>3. \A l \in LinkIds : resets[l].state # "none" => resets'[l].state # "none"
    BY <1>1
  <1>4. AccountsStay
    BY <1>1, <1>2, <1>3 DEF AccountsStay, AccountsInv, AccountsShape, Known
  <1>5. AccountTokens' /\ AccountRequests' /\ FirstAlone' /\ SessionsCurrent'
    BY <1>2, <1>4, NoneMoves DEF AccountsInv, AccountsShape
  <1>6. AccountsShape'
    BY <1>1, <1>2 DEF AccountsShape, AccountsInv
  <1>7. QED
    BY <1>5, <1>6 DEF AccountsInv

LEMMA RestartKeepsAccounts ==
    ASSUME AccountsInv, A!Restart \/ A!TimePasses
    PROVE  AccountsInv'
  <1>1. /\ UNCHANGED <<users, resets, tokens, hist>> /\ clock' \in {clock, clock + 1}
        /\ DOMAIN req' = Clients /\ (setupDone' => setupDone)
        /\ \A d \in Clients : req'[d] = req[d] \/ req'[d] = A!Idle
    BY DEF A!Restart, A!TimePasses, A!Now, AccountsInv, AccountsShape
  <1>2. AccountsStay
    BY <1>1 DEF AccountsStay, AccountsInv, AccountsShape, Known
  <1>3. AccountTokens' /\ AccountRequests' /\ FirstAlone' /\ SessionsCurrent'
    BY <1>1, <1>2, NoneMoves
  <1>4. AccountsShape'
    BY <1>1, <1>2 DEF AccountsShape, AccountsInv, AccountsStay
  <1>5. QED
    BY <1>3, <1>4 DEF AccountsInv

(* A row more: the tokens there are belong to other rows.                  *)
LEMMA InsertIs ==
    ASSUME AccountsInv, NEW f, NEW n, users' = [users EXCEPT ![f] = n],
           f = A!Fresh(UserIds, users), A!Unused(UserIds, users) # {},
           DOMAIN n = UserFields, n.cutoff \in Int
    PROVE  /\ f \in UserIds /\ ~Known(f) /\ DOMAIN users' = UserIds
           /\ users'[f] = n
           /\ \A v \in UserIds :
                 DOMAIN users'[v] = UserFields /\ users'[v].cutoff \in Int
           /\ \A v \in UserIds : v # f => users'[v] = users[v]
  <1>1. f \in UserIds /\ ~Known(f)
    BY FreshIsUnused, AccountsAssumption DEF A!Unused, Known
  <1>2. QED
    BY <1>1 DEF AccountsInv, AccountsShape

LEMMA InsertKeeps ==
    ASSUME AccountsInv, NEW c \in Clients, NEW q, NEW f \in UserIds, ~Known(f), MovesTo(c, q),
           q = A!Idle \/ AccountRequest(q)', q.pc # "insertFirst", DOMAIN users' = UserIds,
           \A v \in UserIds : DOMAIN users'[v] = UserFields /\ users'[v].cutoff \in Int,
           \A v \in UserIds : v # f => users'[v] = users[v], users'[f].state = "live",
           UNCHANGED <<resets, tokens, clock, hist>>, FirstAlone'
    PROVE  AccountsInv'
  <1>1. AccountsStay /\ clock \in Int
    BY DEF AccountsStay, AccountsInv, AccountsShape, Known
  <1>2. AccountTokens' /\ AccountRequests'
    BY <1>1, TokensStay, RequestsStay DEF AccountsInv
  <1>3. \A t \in tokens : t.user \in UserIds /\ t.user # f
    BY DEF AccountsInv, AccountTokens, TokenSound, Known
  <1>4. SessionsCurrent'
    BY <1>3 DEF AccountsInv, SessionsCurrent
  <1>5. AccountsShape'
    BY <1>1 DEF AccountsInv, AccountsShape, MovesTo
  <1>6. QED
    BY <1>2, <1>4, <1>5 DEF AccountsInv

LEMMA CreateUserKeeps ==
    ASSUME AccountsInv, NEW c \in Clients, A!CreateUser(c)
    PROVE  AccountsInv'
  <1>1. UNCHANGED <<resets, tokens, setupDone, clock, hist>> /\ A!Respond(c)
    BY DEF A!CreateUser
  <1>2. CASE users' = users
    BY <1>1, <1>2, RespondKeeps
  <1>3. CASE users' # users
    <2>1. PICK f : f = A!Fresh(UserIds, users)
      OBVIOUS
    <2>2. /\ f \in UserIds /\ ~Known(f) /\ DOMAIN users' = UserIds
          /\ users'[f].state = "live" /\ ~users'[f].setup
          /\ \A v \in UserIds :
                DOMAIN users'[v] = UserFields /\ users'[v].cutoff \in Int
          /\ \A v \in UserIds : v # f => users'[v] = users[v]
      <3>1. PICK n : n = [state |-> "live", pw |-> req[c].pw, admin |-> req[c].admin,
                          active |-> req[c].active, cutoff |-> 0, setup |-> FALSE]
        OBVIOUS
      <3>2. users' = [users EXCEPT ![f] = n] /\ A!Unused(UserIds, users) # {}
        BY <1>3, <2>1, <3>1 DEF A!CreateUser, A!InsertUser
      <3>3. DOMAIN n = UserFields /\ n.cutoff \in Int /\ n.state = "live" /\ ~n.setup
        BY <3>1 DEF UserFields
      <3>4. QED
        BY <2>1, <3>2, <3>3, InsertIs
    <2>3. MovesTo(c, A!Idle) /\ A!Idle.pc # "insertFirst"
      BY <1>1 DEF A!Respond, MovesTo, AccountsInv, AccountsShape, A!Idle
    <2>4. SomeKnown
      BY AtWork DEF A!CreateUser, A!At, AccountRequest, BeforeFirst
    <2>5. SomeKnown' /\ (\E v \in UserIds : users'[v].state = "live")
          /\ \A v \in UserIds : users'[v].setup => Known(v)' /\ users[v].setup
      BY <2>2 DEF SomeKnown, Known, AccountsInv, FirstAlone
    <2>6. \A d \in Clients : A!At(d, "insertFirst")' => A!At(d, "insertFirst")
      BY <2>3 DEF A!At, MovesTo
    <2>7. FirstAlone'
      BY <1>1, <2>4, <2>5, <2>6 DEF FirstAlone, AccountsInv
    <2>8. QED
      BY <1>1, <2>2, <2>3, <2>7, InsertKeeps
  <1>4. QED
    BY <1>2, <1>3

LEMMA BeginFirstKeeps ==
    ASSUME AccountsInv, NEW c \in Clients, A!BeginCreateFirstAdmin(c)
    PROVE  AccountsInv'
  <1>1. PICK r : r = req[c]
    OBVIOUS
  <1>2. AccountRequest(r) /\ r.kind = "setup" /\ r.pc = "snapshot"
    BY <1>1, AtWork, KindsAt DEF A!BeginCreateFirstAdmin, A!At, BeforeFirst
  <1>3. /\ UNCHANGED <<users, resets, tokens, setupDone, clock>>
        /\ DOMAIN hist' = HistFields /\ hist'.crossed = hist.crossed
        /\ hist'.outrun = hist.outrun
        /\ ~hist'.overlap => ~hist.overlap /\ \A d \in Clients : ~A!At(d, "insertFirst")
    BY DEF A!BeginCreateFirstAdmin, AccountsInv, AccountsShape, HistFields
  <1>4. PICK q : q = IF A!validatePassword(r.pw) /\ A!TableEmpty
                     THEN [r EXCEPT !.pc = "insertFirst"] ELSE A!Idle
    OBVIOUS
  <1>5. MovesTo(c, q)
    BY <1>1, <1>4 DEF A!BeginCreateFirstAdmin, A!Goto, A!Respond, MovesTo,
                      AccountsInv, AccountsShape
  <1>6. (q = A!Idle \/ AccountRequest(q)) /\ (q.pc = "insertFirst" => A!TableEmpty)
    <2>1. "insertFirst" \in PlacesOf[r.kind] /\ "insertFirst" \in BeforeFirst
          /\ "insertFirst" \notin A!LinkFound
      BY <1>2 DEF PlacesOf, BeforeFirst, A!LinkFound
    <2>2. CASE q = A!Idle
      BY <2>2 DEF A!Idle
    <2>3. CASE q # A!Idle
      BY <1>2, <1>4, <2>1, <2>3, GotoRight
    <2>4. QED
      BY <2>2, <2>3
  <1>7. AccountsStay /\ clock \in Int
    BY <1>3 DEF AccountsStay, AccountsInv, AccountsShape, Known
  <1>8. AccountTokens' /\ AccountRequests'
    BY <1>3, <1>5, <1>6, <1>7, TokensStay, RequestStays, RequestsStay DEF AccountsInv
  <1>9. FirstAlone'
    <2>1. \A d \in Clients : A!At(d, "insertFirst")' =>
              A!At(d, "insertFirst") \/ (d = c /\ A!TableEmpty)
      BY <1>5, <1>6 DEF A!At, MovesTo
    <2>2. (SomeKnown' <=> SomeKnown) /\ \A u \in UserIds : Known(u)' <=> Known(u)
      BY <1>3 DEF SomeKnown, Known
    <2>3. ~hist.crossed /\ A!TableEmpty => ~SomeKnown
      BY NobodyLive DEF AccountsInv, FirstAlone, A!TableEmpty, A!NeedsSetup
    <2>4. QED
      BY <1>3, <2>1, <2>2, <2>3 DEF AccountsInv, FirstAlone
  <1>10. SessionsCurrent'
    BY <1>3 DEF SessionsCurrent, AccountsInv
  <1>11. AccountsShape'
    BY <1>3, <1>5 DEF AccountsShape, MovesTo, AccountsInv
  <1>12. QED
    BY <1>8, <1>9, <1>10, <1>11 DEF AccountsInv

LEMMA CreateFirstKeeps ==
    ASSUME AccountsInv, NEW c \in Clients, A!CreateFirstAdmin(c)
    PROVE  AccountsInv'
  <1>1. PICK f : f = A!Fresh(UserIds, users)
    OBVIOUS
  <1>2. /\ f \in UserIds /\ ~Known(f) /\ DOMAIN users' = UserIds
        /\ users'[f].state = "live" /\ users'[f].setup
        /\ \A v \in UserIds :
              DOMAIN users'[v] = UserFields /\ users'[v].cutoff \in Int
        /\ \A v \in UserIds : v # f => users'[v] = users[v]
    <2>1. PICK n : n = [state |-> "live", pw |-> req[c].pw, admin |-> TRUE,
                        active |-> TRUE, cutoff |-> 0, setup |-> TRUE]
      OBVIOUS
    <2>2. users' = [users EXCEPT ![f] = n] /\ A!Unused(UserIds, users) # {}
      BY <1>1, <2>1 DEF A!CreateFirstAdmin, A!InsertUser
    <2>3. DOMAIN n = UserFields /\ n.cutoff \in Int /\ n.state = "live" /\ n.setup
      BY <2>1 DEF UserFields
    <2>4. QED
      BY <1>1, <2>2, <2>3, InsertIs
  <1>3. PICK q : q = [pc |-> "issue", kind |-> "setup", user |-> f, pw |-> req[c].pw]
    OBVIOUS
  <1>4. MovesTo(c, q) /\ q.pc # "insertFirst" /\ A!At(c, "insertFirst")
        /\ UNCHANGED <<resets, tokens, clock, hist>>
    BY <1>1, <1>3 DEF A!CreateFirstAdmin, MovesTo, AccountsInv, AccountsShape
  <1>5. Known(f)' /\ SomeKnown'
    BY <1>2 DEF Known, SomeKnown
  <1>6. AccountRequest(q)'
    BY <1>3, <1>5 DEF AccountRequest, PlacesOf, FieldsOf, NextOf, BeforeFirst
  <1>7. FirstAlone'
    <2>1. \A d \in Clients : A!At(d, "insertFirst")' => A!At(d, "insertFirst") /\ d # c
      BY <1>4 DEF A!At, MovesTo
    <2>2. \A u \in UserIds : users'[u].setup => u = f \/ (users[u].setup /\ Known(u))
      BY <1>2 DEF AccountsInv, FirstAlone
    <2>3. \A u \in UserIds : users'[u].setup => Known(u)'
      BY <1>2, <1>5, <2>2 DEF Known
    <2>4. ~hist.overlap => \A d \in Clients : ~A!At(d, "insertFirst")'
      BY <1>4, <2>1 DEF AccountsInv, FirstAlone
    <2>5. ~hist.overlap /\ ~hist.crossed => \A u \in UserIds : users'[u].setup => u = f
      BY <1>4, <2>2 DEF AccountsInv, FirstAlone, SomeKnown
    <2>6. QED
      BY <1>2, <1>4, <1>5, <2>3, <2>4, <2>5 DEF FirstAlone
  <1>8. QED
    BY <1>2, <1>4, <1>6, <1>7, InsertKeeps

---------------------------------------------------------------------------
LEMMA AccountsInit == A!Init => AccountsInv
  <1> SUFFICES ASSUME A!Init PROVE AccountsInv
    OBVIOUS
  <1>1. /\ DOMAIN users = UserIds
        /\ \A u \in UserIds :
              /\ DOMAIN users[u] = UserFields /\ users[u].cutoff \in Int
              /\ ~users[u].setup /\ users[u].state \in {"live", "none"}
    <2>1. PICK s \in AccountScenarios :
            users = [u \in UserIds |->
                      IF u \in DOMAIN s.accounts
                      THEN [state |-> "live", pw |-> s.accounts[u].pw,
                            admin |-> s.accounts[u].admin, active |-> TRUE,
                            cutoff |-> 0, setup |-> FALSE]
                      ELSE [state |-> "none", pw |-> "", admin |-> FALSE, active |-> FALSE,
                            cutoff |-> 0, setup |-> FALSE]]
      BY DEF A!Init
    <2>2. ASSUME NEW u \in UserIds
          PROVE  /\ DOMAIN users[u] = UserFields /\ users[u].cutoff = 0
                 /\ users[u].setup = FALSE /\ users[u].state \in {"live", "none"}
      <3>1. CASE u \in DOMAIN s.accounts
        <4>1. PICK a : a = s.accounts[u].admin
          OBVIOUS
        <4>2. users[u] = [state |-> "live", pw |-> s.accounts[u].pw, admin |-> a,
                          active |-> TRUE, cutoff |-> 0, setup |-> FALSE]
          BY <2>1, <3>1, <4>1
        <4>3. QED
          BY <4>2 DEF UserFields
      <3>2. CASE u \notin DOMAIN s.accounts
        <4>1. PICK no, empty : no = FALSE /\ empty = ""
          OBVIOUS
        <4>2. users[u] = [state |-> "none", pw |-> empty, admin |-> no, active |-> no,
                          cutoff |-> 0, setup |-> no]
          BY <2>1, <3>2, <4>1
        <4>3. /\ DOMAIN users[u] = UserFields /\ users[u].cutoff = 0
              /\ users[u].setup = no /\ users[u].state = "none"
          BY <4>2 DEF UserFields
        <4>4. QED
          BY <4>1, <4>3
      <3>3. QED
        BY <3>1, <3>2
    <2>3. ASSUME NEW u \in UserIds
          PROVE  /\ DOMAIN users[u] = UserFields /\ users[u].cutoff \in Int
                 /\ ~users[u].setup /\ users[u].state \in {"live", "none"}
      <3>1. ~users[u].setup
        BY <2>2, Zenon
      <3>2. users[u].cutoff = 0
        BY <2>2, Zenon
      <3>3. users[u].cutoff \in Int
        BY <3>2
      <3>4. DOMAIN users[u] = UserFields /\ users[u].state \in {"live", "none"}
        BY <2>2, Zenon
      <3>5. QED
        BY <3>1, <3>3, <3>4
    <2>4. DOMAIN users = UserIds
      BY <2>1
    <2>5. QED
      BY <2>3, <2>4
  <1>2. /\ DOMAIN resets = LinkIds /\ tokens = {} /\ ~setupDone /\ DOMAIN req = Clients
        /\ \A l \in LinkIds : DOMAIN resets[l] = LinkFields
        /\ \A d \in Clients : req[d] = A!Idle
        /\ DOMAIN hist = HistFields
    <2>1. /\ resets = [l \in LinkIds |-> [state |-> "none", user |-> 0, expires |-> 0]]
          /\ tokens = {} /\ setupDone = FALSE /\ req = [d \in Clients |-> A!Idle]
          /\ hist = [outrun |-> FALSE, overlap |-> FALSE, crossed |-> FALSE,
                     pruned |-> FALSE, slipped |-> FALSE, together |-> FALSE, dead |-> {}]
      BY DEF A!Init
    <2>2. QED
      BY <2>1 DEF LinkFields, HistFields
  <1>3. clock \in Int
    <2>1. clock = PerSecond
      BY DEF A!Init
    <2>2. QED
      BY <2>1, AlertsAssumption
  <1>4. AccountsShape /\ AccountTokens /\ AccountRequests /\ SessionsCurrent
    BY <1>1, <1>2, <1>3
       DEF AccountsShape, AccountTokens, AccountRequests, SessionsCurrent
  <1>5. FirstAlone
    BY <1>1, <1>2 DEF FirstAlone, SomeKnown, Known, A!At, A!Idle
  <1>6. QED
    BY <1>4, <1>5 DEF AccountsInv

LEMMA AccountsStep ==
    ASSUME AccountsInv, [A!Next]_(A!vars)
    PROVE  AccountsInv'
  <1>1. CASE UNCHANGED A!vars
    <2>1. UNCHANGED <<users, resets, tokens, setupDone, req, clock, hist>>
      BY <1>1 DEF A!vars
    <2>2. AccountsStay
      BY <2>1 DEF AccountsStay, AccountsInv, AccountsShape, Known
    <2>3. AccountTokens' /\ AccountRequests' /\ FirstAlone' /\ SessionsCurrent'
      BY <2>1, <2>2, NoneMoves DEF AccountsInv, AccountsShape
    <2>4. AccountsShape'
      BY <2>1 DEF AccountsInv, AccountsShape
    <2>5. QED
      BY <2>3, <2>4 DEF AccountsInv
  <1>2. ASSUME NEW c \in Clients, A!Steps(c) PROVE AccountsInv'
    BY <1>2, ReadsKeep, FindKeeps, StampKeeps, IssueKeeps, LogoutKeeps, PasswordKeeps,
       CreateResetKeeps, SpendKeeps, CreateUserKeeps, ProfileKeeps, DeleteKeeps,
       BeginFirstKeeps, CreateFirstKeeps DEF A!Steps
  <1>3. CASE A!Next
    BY <1>2, <1>3, ArrivalsKeep, ExpireKeeps, RestartKeepsAccounts DEF A!Next
  <1>4. QED
    BY <1>1, <1>3

---------------------------------------------------------------------------
(* Accounts: what a reset ends.  While a reset is between its statements,  *)
(* its account has no open link and no other reset that has found one; so  *)
(* the links that its write makes history are not open, and nobody goes on *)
(* with them.                                                              *)
Apart == ~hist.together /\ ~hist.slipped /\ ~hist.pruned

LinksDead ==
    /\ \A l \in hist.dead : l \in LinkIds /\ resets[l].state # "none"
    /\ Apart => \A l \in hist.dead :
          /\ resets[l].state # "open"
          /\ \A d \in Clients : A!InReset(d) => req[d].link # l
    /\ Apart => \A c \in Clients : A!At(c, "password") =>
          /\ \A l \in LinkIds : resets[l].user = req[c].user => resets[l].state # "open"
          /\ \A d \in Clients \ {c} : A!InReset(d) => req[d].user # req[c].user

LEMMA ResetSound ==
    ASSUME AccountsInv, NEW c \in Clients
    PROVE  /\ A!InReset(c) => AccountRequest(req[c]) /\ LinkSound(req[c]) /\ req[c].link \in LinkIds
           /\ A!At(c, "password") => A!InReset(c)
  <1>1. A!InReset(c) => AccountRequest(req[c])
    BY AtWork DEF A!InReset, A!LinkFound, A!At
  <1>2. A!InReset(c) => LinkSound(req[c]) /\ req[c].link \in LinkIds
    BY <1>1 DEF A!InReset, AccountRequest
  <1>3. A!At(c, "password") => A!InReset(c)
    BY AtWork, KindsAt DEF A!InReset, A!LinkFound, A!At
  <1>4. QED
    BY <1>1, <1>2, <1>3

(* Links only end, and no request finds one.                               *)
LinksEnd ==
    \A l \in LinkIds : /\ resets'[l].user = resets[l].user
                       /\ resets'[l].state = "open" => resets[l].state = "open"
                       /\ resets[l].state # "none" => resets'[l].state # "none"

NoneFinds ==
    \A d \in Clients :
        /\ A!InReset(d)' => /\ A!InReset(d)
                            /\ req'[d].link = req[d].link /\ req'[d].user = req[d].user
        /\ A!At(d, "password")' => A!At(d, "password") /\ req'[d].user = req[d].user

SameRaces == hist'.pruned = hist.pruned /\ hist'.slipped = hist.slipped
             /\ hist'.together = hist.together

LEMMA LinksStay ==
    ASSUME LinksDead, LinksEnd, NoneFinds, SameRaces, hist'.dead = hist.dead
    PROVE  LinksDead'
  <1>1. Apart' <=> Apart
    BY DEF Apart, SameRaces
  <1>2. \A l \in hist'.dead : l \in LinkIds /\ resets'[l].state # "none"
    BY DEF LinksDead, LinksEnd
  <1>3. ASSUME Apart, NEW l \in hist.dead
        PROVE  /\ resets'[l].state # "open"
               /\ \A d \in Clients : A!InReset(d)' => req'[d].link # l
    BY <1>3 DEF LinksDead, LinksEnd, NoneFinds
  <1>4. ASSUME Apart, NEW c \in Clients, A!At(c, "password")'
        PROVE  /\ \A l \in LinkIds : resets'[l].user = req'[c].user => resets'[l].state # "open"
               /\ \A d \in Clients \ {c} : A!InReset(d)' => req'[d].user # req'[c].user
    <2>1. A!At(c, "password") /\ req'[c].user = req[c].user
      BY <1>4 DEF NoneFinds
    <2>2. /\ \A l \in LinkIds : resets[l].user = req[c].user => resets[l].state # "open"
          /\ \A d \in Clients \ {c} : A!InReset(d) => req[d].user # req[c].user
      BY <1>4, <2>1 DEF LinksDead
    <2>3. QED
      BY <2>1, <2>2 DEF LinksEnd, NoneFinds
  <1>5. QED
    BY <1>1, <1>2, <1>3, <1>4 DEF LinksDead

(* A request that goes where no reset is past its look-up.                 *)
LEMMA AsideStays ==
    ASSUME LinksDead, NEW c \in Clients, NEW q, MovesTo(c, q), q.pc \notin A!LinkFound,
           resets' = resets, SameRaces, hist'.dead = hist.dead
    PROVE  LinksDead'
  <1>1. LinksEnd
    BY DEF LinksEnd
  <1>2. NoneFinds
    BY DEF NoneFinds, MovesTo, A!InReset, A!At, A!LinkFound
  <1>3. QED
    BY <1>1, <1>2, LinksStay

LEMMA GateStays ==
    ASSUME AccountsInv, LinksDead, NEW c \in Clients, NEW r, A!SetupGate(c, r),
           r.pc \notin A!LinkFound
    PROVE  LinksDead'
  <1>1. PICK q : q = req'[c]
    OBVIOUS
  <1>2. q.pc \notin A!LinkFound
    BY <1>1 DEF A!SetupGate, AccountsInv, AccountsShape, A!Idle, A!LinkFound
  <1>3. MovesTo(c, q)
    BY <1>1 DEF A!SetupGate, MovesTo, AccountsInv, AccountsShape
  <1>4. resets' = resets /\ SameRaces /\ hist'.dead = hist.dead
    BY DEF A!SetupGate, SameRaces
  <1>5. QED
    BY <1>2, <1>3, <1>4, AsideStays

LEMMA ArrivalsStay ==
    ASSUME AccountsInv, LinksDead, NEW c \in Clients, A!Arrivals(c)
    PROVE  LinksDead'
  <1> USE DEF A!LinkFound
  <1>1. ASSUME NEW u, NEW pw, A!Login(c, u, pw) PROVE LinksDead'
    BY <1>1, GateStays DEF A!Login
  <1>2. ASSUME NEW u, A!Forgot(c, u) PROVE LinksDead'
    BY <1>2, GateStays DEF A!Forgot
  <1>3. ASSUME NEW l \in LinkIds, NEW pw, A!Reset(c, l, pw) PROVE LinksDead'
    BY <1>3, GateStays DEF A!Reset
  <1>4. ASSUME NEW pw, A!Setup(c, pw) PROVE LinksDead'
    BY <1>4, GateStays DEF A!Setup
  <1>5. ASSUME NEW t, A!Logout(c, t) PROVE LinksDead'
    BY <1>5, GateStays DEF A!Logout
  <1>6. ASSUME NEW t, NEW a, NEW b, A!ChangePassword(c, t, a, b) PROVE LinksDead'
    BY <1>6, GateStays DEF A!ChangePassword
  <1>7. ASSUME NEW t, NEW a, NEW b, NEW pw, A!SaveNewUser(c, t, a, b, pw) PROVE LinksDead'
    BY <1>7, GateStays DEF A!SaveNewUser
  <1>8. ASSUME NEW t, NEW u, NEW a, NEW b, NEW pw, A!SaveUser(c, t, u, a, b, pw)
        PROVE  LinksDead'
    BY <1>8, GateStays DEF A!SaveUser
  <1>9. ASSUME NEW t, NEW u, A!DeleteUser(c, t, u) PROVE LinksDead'
    BY <1>9, GateStays DEF A!DeleteUser
  <1>10. QED
    BY <1>1, <1>2, <1>3, <1>4, <1>5, <1>6, <1>7, <1>8, <1>9 DEF A!Arrivals

LEMMA RespondStays ==
    ASSUME AccountsInv, LinksDead, NEW c \in Clients, A!Respond(c),
           resets' = resets, SameRaces, hist'.dead = hist.dead
    PROVE  LinksDead'
  <1>1. MovesTo(c, A!Idle) /\ A!Idle.pc \notin A!LinkFound
    BY DEF A!Respond, MovesTo, AccountsInv, AccountsShape, A!Idle, A!LinkFound
  <1>2. QED
    BY <1>1, AsideStays

(* To another place of a request, unless it is a reset's.                  *)
LEMMA GotoStays ==
    ASSUME AccountsInv, LinksDead, NEW c \in Clients, NEW p, A!Goto(c, p), ~A!At(c, "idle"),
           p \notin A!LinkFound, resets' = resets, SameRaces, hist'.dead = hist.dead
    PROVE  LinksDead'
  <1>1. PICK r : r = req[c]
    OBVIOUS
  <1>2. PICK q : q = [r EXCEPT !.pc = p]
    OBVIOUS
  <1>3. q.pc = p
    BY <1>1, <1>2, AtWork DEF AccountRequest
  <1>4. MovesTo(c, q)
    BY <1>1, <1>2 DEF A!Goto, MovesTo, AccountsInv, AccountsShape
  <1>5. QED
    BY <1>3, <1>4, AsideStays

LEMMA ReadsStay ==
    ASSUME AccountsInv, LinksDead, NEW c \in Clients,
           A!WebAuth(c) \/ A!GetByEmail(c) \/ A!GetByID(c) \/ A!RequestPasswordReset(c)
           \/ A!UpdateUser(c) \/ A!Abandon(c)
    PROVE  LinksDead'
  <1> USE DEF A!At, A!LinkFound
  <1>1. resets' = resets /\ SameRaces /\ hist'.dead = hist.dead /\ ~A!At(c, "idle")
    BY DEF A!WebAuth, A!GetByEmail, A!GetByID, A!RequestPasswordReset, A!UpdateUser, A!Abandon,
           SameRaces
  <1>2. CASE A!Respond(c)
    BY <1>1, <1>2, RespondStays
  <1>3. ASSUME NEW p, A!Goto(c, p), p \in {"issue", "changePassword", "createReset", "profile"}
        PROVE  LinksDead'
    BY <1>1, <1>3, GotoStays
  <1>4. CASE A!WebAuth(c)
    <2>1. req[c].kind \in DOMAIN NextOf /\ req[c].next = NextOf[req[c].kind]
      BY <1>1, <1>4, AtWork, KindsAt DEF A!WebAuth, AccountRequest
    <2>2. PICK p : p = IF req[c].next = "settings" THEN req[c].kind ELSE req[c].next
      OBVIOUS
    <2>3. p \notin A!LinkFound
      BY <2>1, <2>2 DEF NextOf
    <2>4. A!Goto(c, p) \/ A!Respond(c)
      BY <1>4, <2>2 DEF A!WebAuth
    <2>5. QED
      BY <1>1, <1>2, <2>3, <2>4, GotoStays
  <1>5. QED
    BY <1>2, <1>3, <1>4 DEF A!GetByEmail, A!GetByID, A!RequestPasswordReset, A!UpdateUser,
                            A!Abandon

(* A reset that goes on with the link it found.                            *)
LEMMA ResetGoesOn ==
    ASSUME AccountsInv, LinksDead, NEW c \in Clients, A!LinkOwner(c) \/ A!Stamp(c)
    PROVE  LinksDead'
  <1>1. PICK r, q : r = req[c] /\ q = req'[c]
    OBVIOUS
  <1>2. resets' = resets /\ SameRaces /\ hist'.dead = hist.dead /\ MovesTo(c, q)
    BY <1>1 DEF A!LinkOwner, A!Stamp, A!Goto, A!Respond, SameRaces, MovesTo,
                AccountsInv, AccountsShape
  <1>3. AccountRequest(r) /\ r.pc \in {"owner"} \cup A!Unstamped
    BY <1>1, AtWork DEF A!LinkOwner, A!Stamp, A!At, A!Unstamped
  <1>4. q.pc # "password"
        /\ (q.pc \in A!LinkFound /\ q.kind = "reset" =>
              /\ r.kind = "reset" /\ r.pc \in A!LinkFound
              /\ q.link = r.link /\ q.user = r.user)
    <2>1. CASE q = A!Idle
      BY <2>1 DEF A!Idle, A!LinkFound
    <2>2. CASE q = [r EXCEPT !.pc = "complete"] /\ r.pc = "owner"
      BY <1>3, <2>2, KindsAt DEF AccountRequest, A!LinkFound
    <2>3. CASE q = A!Stamped(r, clock) /\ r.pc \in A!Unstamped
      <3>1. /\ q.pc = "write"
            /\ \A f \in DOMAIN r : f \notin {"pc", "at"} => q[f] = r[f]
        BY <1>3, <2>3 DEF A!Stamped, AccountRequest
      <3>2. q.kind = r.kind
        BY <1>3, <3>1 DEF AccountRequest
      <3>3. r.kind = "reset" => r.pc = "complete"
        BY <1>3, <2>3 DEF AccountRequest, PlacesOf, A!Unstamped
      <3>4. r.kind = "reset" => {"link", "user"} \subseteq DOMAIN r
        BY <1>3, <3>3 DEF AccountRequest, FieldsOf, LinkSound, A!LinkFound
      <3>5. QED
        BY <3>1, <3>2, <3>3, <3>4 DEF A!LinkFound
    <2>4. q = A!Idle \/ (q = [r EXCEPT !.pc = "complete"] /\ r.pc = "owner")
          \/ (q = A!Stamped(r, clock) /\ r.pc \in A!Unstamped)
      BY <1>1 DEF A!LinkOwner, A!Stamp, A!Goto, A!Respond, A!At, AccountsInv, AccountsShape
    <2>5. QED
      BY <2>1, <2>2, <2>3, <2>4
  <1>5. NoneFinds
    BY <1>1, <1>2, <1>4 DEF NoneFinds, MovesTo, A!InReset, A!At
  <1>6. LinksEnd
    BY <1>2 DEF LinksEnd
  <1>7. QED
    BY <1>2, <1>5, <1>6, LinksStay

(* A link that is found is open: not one a reset has ended, and not one of *)
(* an account whose reset is between its statements.                       *)
LEMMA FindStays ==
    ASSUME AccountsInv, LinksDead, NEW c \in Clients, A!FindByTokenHash(c)
    PROVE  LinksDead'
  <1>1. resets' = resets /\ SameRaces /\ hist'.dead = hist.dead
    BY DEF A!FindByTokenHash, SameRaces
  <1>2. CASE A!Respond(c)
    BY <1>1, <1>2, RespondStays
  <1>3. CASE ~A!Respond(c)
    <2>1. PICK l, u : l = req[c].link /\ u = resets[l].user
      OBVIOUS
    <2>2. PICK q : q = [pc |-> "owner", kind |-> "reset", link |-> l, pw |-> req[c].pw,
                        user |-> u]
      OBVIOUS
    <2>3. MovesTo(c, q) /\ resets[l].state = "open"
      BY <1>3, <2>1, <2>2 DEF A!FindByTokenHash, A!LinkLive, MovesTo, AccountsInv, AccountsShape
    <2>4. l \in LinkIds
      BY <2>1, AtWork, KindsAt DEF A!FindByTokenHash, A!At, AccountRequest
    <2>5. q.pc = "owner" /\ q.link = l /\ q.user = u
      BY <2>2
    <2>6. Apart => l \notin hist.dead
                   /\ \A d \in Clients : A!At(d, "password") => req[d].user # u
      BY <2>1, <2>3, <2>4 DEF LinksDead
    <2>7. Apart' <=> Apart
      BY <1>1 DEF Apart, SameRaces
    <2>8. \A d \in Clients : A!At(d, "password")' =>
              /\ d # c /\ A!At(d, "password") /\ req'[d] = req[d]
      BY <2>3, <2>5 DEF MovesTo, A!At
    <2>9. \A d \in Clients : A!InReset(d)' =>
              (d = c /\ req'[d] = q) \/ (A!InReset(d) /\ req'[d] = req[d])
      BY <2>3 DEF MovesTo, A!InReset
    <2>10. ASSUME Apart, NEW k \in hist.dead
           PROVE  resets[k].state # "open" /\ \A d \in Clients : A!InReset(d)' => req'[d].link # k
      BY <2>5, <2>6, <2>9, <2>10 DEF LinksDead
    <2>11. ASSUME Apart, NEW e \in Clients, A!At(e, "password")'
           PROVE  /\ \A k \in LinkIds : resets[k].user = req'[e].user => resets[k].state # "open"
                  /\ \A d \in Clients \ {e} : A!InReset(d)' => req'[d].user # req'[e].user
      <3>1. A!At(e, "password") /\ req'[e] = req[e] /\ req[e].user # u
        BY <2>6, <2>8, <2>11
      <3>2. /\ \A k \in LinkIds : resets[k].user = req[e].user => resets[k].state # "open"
            /\ \A d \in Clients \ {e} : A!InReset(d) => req[d].user # req[e].user
        BY <2>11, <3>1 DEF LinksDead
      <3>3. QED
        BY <2>5, <2>9, <3>1, <3>2
    <2>12. QED
      BY <1>1, <2>7, <2>10, <2>11 DEF LinksDead
  <1>4. QED
    BY <1>2, <1>3

(* The writes of accounts alone.                                           *)
LEMMA WritesStay ==
    ASSUME AccountsInv, LinksDead, NEW c \in Clients,
           A!IssueToken(c) \/ A!InvalidateTokens(c) \/ A!CreateUser(c) \/ A!UpdateProfile(c)
           \/ A!SoftDelete(c) \/ A!BeginCreateFirstAdmin(c) \/ A!CreateFirstAdmin(c)
    PROVE  LinksDead'
  <1> USE DEF A!At, A!LinkFound
  <1>1. resets' = resets /\ ~A!At(c, "idle")
    BY DEF A!IssueToken, A!InvalidateTokens, A!CreateUser, A!UpdateProfile, A!SoftDelete,
           A!BeginCreateFirstAdmin, A!CreateFirstAdmin
  <1>2. SameRaces /\ hist'.dead = hist.dead
    <2>1. CASE A!InvalidateTokens(c) \/ A!SoftDelete(c)
      <3>1. PICK u, h : h = A!Cut(u, req[c].at) /\ (hist' = h \/
                          \E x : hist' = [h EXCEPT !.crossed = x])
        BY <2>1 DEF A!InvalidateTokens, A!SoftDelete
      <3>2. /\ DOMAIN h = HistFields /\ h.pruned = hist.pruned /\ h.slipped = hist.slipped
            /\ h.together = hist.together /\ h.dead = hist.dead
        BY <3>1, CutHistory
      <3>3. QED
        BY <3>1, <3>2 DEF SameRaces, HistFields
    <2>2. CASE A!IssueToken(c) \/ A!CreateUser(c) \/ A!UpdateProfile(c)
               \/ A!BeginCreateFirstAdmin(c) \/ A!CreateFirstAdmin(c)
      BY <2>2 DEF A!IssueToken, A!CreateUser, A!UpdateProfile, A!BeginCreateFirstAdmin,
                  A!CreateFirstAdmin, SameRaces, AccountsInv, AccountsShape, HistFields
    <2>3. QED
      BY <2>1, <2>2
  <1>3. CASE A!Respond(c)
    BY <1>1, <1>2, <1>3, RespondStays
  <1>4. ASSUME NEW p, A!Goto(c, p), p \in {"resetPassword", "insertFirst"}
        PROVE  LinksDead'
    BY <1>1, <1>2, <1>4, GotoStays
  <1>5. CASE A!CreateFirstAdmin(c)
    <2>1. PICK q : q = [pc |-> "issue", kind |-> "setup", user |-> A!Fresh(UserIds, users),
                        pw |-> req[c].pw]
      OBVIOUS
    <2>2. MovesTo(c, q) /\ q.pc = "issue"
      BY <1>5, <2>1 DEF A!CreateFirstAdmin, MovesTo, AccountsInv, AccountsShape
    <2>3. QED
      BY <1>1, <1>2, <2>2, AsideStays
  <1>6. QED
    BY <1>3, <1>4, <1>5 DEF A!IssueToken, A!InvalidateTokens, A!CreateUser, A!UpdateProfile,
                            A!SoftDelete, A!BeginCreateFirstAdmin

(* The new link is nobody's that a reset has ended or goes on with.        *)
LEMMA CreateResetStays ==
    ASSUME AccountsInv, LinksDead, NEW c \in Clients, A!CreateReset(c)
    PROVE  LinksDead'
  <1>1. PICK f : f = A!Fresh(LinkIds, resets)
    OBVIOUS
  <1>2. f \in LinkIds /\ resets[f].state = "none"
    BY <1>1, FreshIsUnused, AccountsAssumption DEF A!CreateReset, A!InsertReset, A!Unused
  <1>3. PICK u, n : /\ u = req[c].user
                    /\ n = [state |-> "open", user |-> u, expires |-> clock + ResetTTL]
    OBVIOUS
  <1>4. MovesTo(c, A!Idle)
    BY DEF A!CreateReset, A!Respond, MovesTo, AccountsInv, AccountsShape
  <1>5. /\ resets'[f].user = u /\ resets'[f].state = "open"
        /\ \A l \in LinkIds : l # f => resets'[l] = resets[l]
    <2>1. resets' = [resets EXCEPT ![f] = n]
      BY <1>1, <1>3 DEF A!CreateReset, A!InsertReset
    <2>2. QED
      BY <1>2, <1>3, <2>1 DEF AccountsInv, AccountsShape
  <1>6. /\ hist'.dead = hist.dead /\ (Apart' => Apart)
        /\ Apart' => \A d \in Clients : A!At(d, "password") => req[d].user # u
    BY <1>3 DEF A!CreateReset, Apart, AccountsInv, AccountsShape, HistFields
  <1>7. \A d \in Clients : /\ A!InReset(d)' => A!InReset(d) /\ req'[d] = req[d]
                           /\ A!At(d, "password")' => A!At(d, "password") /\ req'[d] = req[d]
    BY <1>4 DEF MovesTo, A!InReset, A!At, A!Idle, A!LinkFound
  <1>8. \A l \in hist.dead : l \in LinkIds /\ l # f /\ resets'[l] = resets[l]
                             /\ resets[l].state # "none"
    BY <1>2, <1>5 DEF LinksDead
  <1>9. ASSUME Apart', NEW l \in hist.dead
        PROVE  /\ resets'[l].state # "open"
               /\ \A d \in Clients : A!InReset(d)' => req'[d].link # l
    BY <1>6, <1>7, <1>8, <1>9 DEF LinksDead
  <1>10. ASSUME Apart', NEW e \in Clients, A!At(e, "password")'
         PROVE  /\ \A l \in LinkIds : resets'[l].user = req'[e].user => resets'[l].state # "open"
                /\ \A d \in Clients \ {e} : A!InReset(d)' => req'[d].user # req'[e].user
    <2>1. A!At(e, "password") /\ req'[e] = req[e] /\ req[e].user # u
      BY <1>6, <1>7, <1>10
    <2>2. /\ \A l \in LinkIds : resets[l].user = req[e].user => resets[l].state # "open"
          /\ \A d \in Clients \ {e} : A!InReset(d) => req[d].user # req[e].user
      BY <1>6, <1>10, <2>1 DEF LinksDead
    <2>3. QED
      BY <1>5, <1>7, <2>1, <2>2
  <1>11. QED
    BY <1>6, <1>8, <1>9, <1>10 DEF LinksDead

(* The link that was found is of the account the reset is for, so unless   *)
(* it is gone every open link of the account is spent with it.             *)
LEMMA SpendStays ==
    ASSUME AccountsInv, LinksDead, NEW c \in Clients, A!SpendLink(c)
    PROVE  LinksDead'
  <1>1. PICK r, q : r = req[c] /\ q = [r EXCEPT !.pc = "password"]
    OBVIOUS
  <1>2. r.kind = "reset" /\ r.pc = "write" /\ A!InReset(c) /\ AccountRequest(r) /\ LinkSound(r)
        /\ r.link \in LinkIds
    BY <1>1, ResetSound DEF A!SpendLink, A!At, A!InReset, A!LinkFound
  <1>3. /\ q.pc = "password" /\ q.kind = "reset" /\ q.link = r.link /\ q.user = r.user
    BY <1>1, <1>2 DEF AccountRequest, FieldsOf, LinkSound
  <1>4. MovesTo(c, q)
    BY <1>1 DEF A!SpendLink, A!Goto, MovesTo, AccountsInv, AccountsShape
  <1>5. \A k \in LinkIds :
            resets'[k] = IF /\ resets[k].state = "open" /\ resets[r.link].state # "gone"
                            /\ resets[k].user = resets[r.link].user
                         THEN [resets[k] EXCEPT !.state = "used"] ELSE resets[k]
    BY <1>1 DEF A!SpendLink, A!MarkUsed
  <1>6. \A l \in LinkIds :
           /\ resets'[l].user = resets[l].user
           /\ resets'[l].state = "open" => resets[l].state = "open"
           /\ resets[l].state # "none" => resets'[l].state # "none"
           /\ resets[r.link].state # "gone" /\ resets[l].user = r.user =>
                 resets'[l].state # "open"
    BY <1>2, <1>5 DEF AccountsInv, AccountsShape, LinkFields, LinkSound
  <1>7. /\ hist'.dead = hist.dead /\ (Apart' => Apart)
        /\ Apart' => resets[r.link].state # "gone"
        /\ Apart' => \A d \in Clients \ {c} : A!InReset(d) => req[d].user # r.user
    BY <1>1 DEF A!SpendLink, Apart, AccountsInv, AccountsShape, HistFields
  <1>8. \A d \in Clients :
            /\ A!InReset(d)' => /\ A!InReset(d)
                                /\ req'[d].link = req[d].link /\ req'[d].user = req[d].user
            /\ d # c /\ A!At(d, "password")' => A!At(d, "password")
    <2> SUFFICES ASSUME NEW d \in Clients
                 PROVE  /\ A!InReset(d)' => /\ A!InReset(d) /\ req'[d].link = req[d].link
                                            /\ req'[d].user = req[d].user
                        /\ d # c /\ A!At(d, "password")' => A!At(d, "password")
      OBVIOUS
    <2>1. CASE d = c
      <3>1. req'[d] = q /\ A!InReset(d)
        BY <1>2, <1>4, <2>1 DEF MovesTo
      <3>2. req'[d].link = req[d].link /\ req'[d].user = req[d].user
        BY <1>1, <1>3, <2>1, <3>1
      <3>3. QED
        BY <2>1, <3>1, <3>2
    <2>2. CASE d # c
      <3>1. req'[d] = req[d]
        BY <1>4, <2>2 DEF MovesTo
      <3>2. QED
        BY <3>1 DEF A!InReset, A!At
    <2>3. QED
      BY <2>1, <2>2
  <1>9. \A l \in hist.dead : l \in LinkIds /\ resets'[l].state # "none"
    BY <1>6 DEF LinksDead
  <1>10. ASSUME Apart', NEW l \in hist.dead
         PROVE  /\ resets'[l].state # "open"
                /\ \A d \in Clients : A!InReset(d)' => req'[d].link # l
    BY <1>6, <1>7, <1>8, <1>10 DEF LinksDead
  <1>11. ASSUME Apart', NEW e \in Clients, A!At(e, "password")'
         PROVE  /\ \A l \in LinkIds : resets'[l].user = req'[e].user => resets'[l].state # "open"
                /\ \A d \in Clients \ {e} : A!InReset(d)' => req'[d].user # req'[e].user
    <2>1. CASE e = c
      <3>1. req'[e].user = r.user
        BY <1>3, <1>4, <2>1 DEF MovesTo
      <3>2. \A l \in LinkIds : resets'[l].user = r.user => resets'[l].state # "open"
        BY <1>6, <1>7, <1>11
      <3>3. \A d \in Clients \ {e} : A!InReset(d)' => req'[d].user # r.user
        BY <1>7, <1>8, <1>11, <2>1
      <3>4. QED
        BY <3>1, <3>2, <3>3
    <2>2. CASE e # c
      <3>1. A!At(e, "password") /\ req'[e] = req[e]
        BY <1>4, <1>8, <1>11, <2>2 DEF MovesTo
      <3>2. /\ \A l \in LinkIds : resets[l].user = req[e].user => resets[l].state # "open"
            /\ \A d \in Clients \ {e} : A!InReset(d) => req[d].user # req[e].user
        BY <1>7, <1>11, <3>1 DEF LinksDead
      <3>3. QED
        BY <1>6, <1>8, <3>1, <3>2
    <2>3. QED
      BY <2>1, <2>2
  <1>12. QED
    BY <1>7, <1>9, <1>10, <1>11 DEF LinksDead

(* After the second statement of a reset, the links of its account are     *)
(* history: none is open, and nobody else has found one.                   *)
LEMMA PasswordStays ==
    ASSUME AccountsInv, LinksDead, NEW c \in Clients, A!WritePassword(c)
    PROVE  LinksDead'
  <1>1. PICK u, h : u = req[c].user /\ h = A!Cut(u, req[c].at)
    OBVIOUS
  <1>2. /\ DOMAIN h = HistFields /\ h.pruned = hist.pruned /\ h.slipped = hist.slipped
        /\ h.together = hist.together /\ h.dead = hist.dead
    BY <1>1, CutHistory
  <1>3. PICK links : links = IF A!At(c, "password") THEN h.dead \cup A!LinksOf(u) ELSE h.dead
    OBVIOUS
  <1>4. hist' = [h EXCEPT !.dead = links]
    BY <1>1, <1>3 DEF A!WritePassword
  <1>5. SameRaces /\ hist'.dead = links
    BY <1>2, <1>4 DEF SameRaces, HistFields
  <1>6. resets' = resets /\ A!Respond(c)
    BY DEF A!WritePassword
  <1>7. CASE ~A!At(c, "password")
    BY <1>2, <1>3, <1>5, <1>6, <1>7, RespondStays
  <1>8. CASE A!At(c, "password")
    <2>1. hist'.dead = hist.dead \cup A!LinksOf(u)
      BY <1>2, <1>3, <1>5, <1>8
    <2>2. MovesTo(c, A!Idle)
      BY <1>6 DEF A!Respond, MovesTo, AccountsInv, AccountsShape
    <2>3. \A d \in Clients : /\ A!InReset(d)' => A!InReset(d) /\ req'[d] = req[d] /\ d # c
                             /\ A!At(d, "password")' => A!At(d, "password") /\ req'[d] = req[d]
      BY <2>2 DEF MovesTo, A!InReset, A!At, A!Idle, A!LinkFound
    <2>4. Apart' <=> Apart
      BY <1>5 DEF Apart, SameRaces
    <2>5. Apart => /\ \A l \in LinkIds : resets[l].user = u => resets[l].state # "open"
                   /\ \A d \in Clients \ {c} : A!InReset(d) => req[d].user # u
      BY <1>1, <1>8 DEF LinksDead
    <2>6. \A l \in hist'.dead : l \in LinkIds /\ resets'[l].state # "none"
      BY <1>6, <2>1 DEF LinksDead, A!LinksOf
    <2>7. ASSUME Apart, NEW l \in A!LinksOf(u)
          PROVE  /\ resets[l].state # "open"
                 /\ \A d \in Clients \ {c} : A!InReset(d) => req[d].link # l
      <3>1. l \in LinkIds /\ resets[l].user = u
        BY DEF A!LinksOf
      <3>2. \A d \in Clients : A!InReset(d) => resets[req[d].link].user = req[d].user
        BY ResetSound DEF LinkSound
      <3>3. QED
        BY <2>5, <2>7, <3>1, <3>2
    <2>8. ASSUME Apart, NEW l \in hist'.dead
          PROVE  /\ resets'[l].state # "open"
                 /\ \A d \in Clients : A!InReset(d)' => req'[d].link # l
      <3>1. CASE l \in hist.dead
        BY <1>6, <2>3, <2>8, <3>1 DEF LinksDead
      <3>2. CASE l \in A!LinksOf(u)
        BY <1>6, <2>3, <2>7, <2>8, <3>2
      <3>3. QED
        BY <2>1, <3>1, <3>2
    <2>9. Apart => \A e \in Clients : A!At(e, "password")' =>
            /\ \A l \in LinkIds : resets'[l].user = req'[e].user => resets'[l].state # "open"
            /\ \A d \in Clients \ {e} : A!InReset(d)' => req'[d].user # req'[e].user
      <3> SUFFICES ASSUME Apart, NEW e \in Clients, A!At(e, "password")'
                   PROVE
            /\ \A l \in LinkIds : resets'[l].user = req'[e].user => resets'[l].state # "open"
            /\ \A d \in Clients \ {e} : A!InReset(d)' => req'[d].user # req'[e].user
        OBVIOUS
      <3>1. A!At(e, "password") /\ req'[e] = req[e]
        BY <2>3
      <3>2. /\ \A l \in LinkIds : resets[l].user = req[e].user => resets[l].state # "open"
            /\ \A d \in Clients \ {e} : A!InReset(d) => req[d].user # req[e].user
        BY <3>1 DEF LinksDead
      <3>3. QED
        BY <1>6, <2>3, <3>1, <3>2
    <2>10. QED
      BY <2>4, <2>6, <2>8, <2>9 DEF LinksDead
  <1>9. QED
    BY <1>7, <1>8

LEMMA OthersStay ==
    ASSUME AccountsInv, LinksDead,
           A!DeleteExpired \/ A!Restart \/ A!TimePasses \/ UNCHANGED A!vars
    PROVE  LinksDead'
  <1>1. hist' = hist /\ \A d \in Clients : req'[d] = req[d] \/ req'[d] = A!Idle
    BY DEF A!DeleteExpired, A!Restart, A!TimePasses, A!vars
  <1>2. LinksEnd
    <2>1. CASE A!DeleteExpired
      <3>1. \A l \in LinkIds : /\ resets'[l].user = resets[l].user
                               /\ resets'[l].state # resets[l].state => resets'[l].state = "gone"
        BY <2>1 DEF A!DeleteExpired, AccountsInv, AccountsShape, LinkFields
      <3>2. QED
        BY <3>1 DEF LinksEnd
    <2>2. CASE resets' = resets
      BY <2>2 DEF LinksEnd
    <2>3. QED
      BY <2>1, <2>2 DEF A!Restart, A!TimePasses, A!vars
  <1>3. NoneFinds
    BY <1>1 DEF NoneFinds, A!InReset, A!At, A!Idle, A!LinkFound
  <1>4. SameRaces
    BY <1>1 DEF SameRaces
  <1>5. QED
    BY <1>1, <1>2, <1>3, <1>4, LinksStay

LEMMA LinksInit == A!Init => LinksDead
  <1> SUFFICES ASSUME A!Init PROVE LinksDead
    OBVIOUS
  <1>1. hist.dead = {}
    <2>1. hist = [outrun |-> FALSE, overlap |-> FALSE, crossed |-> FALSE, pruned |-> FALSE,
                  slipped |-> FALSE, together |-> FALSE, dead |-> {}]
      BY DEF A!Init
    <2>2. QED
      BY <2>1
  <1>2. \A c \in Clients : ~A!At(c, "password")
    <2>1. req = [c \in Clients |-> A!Idle]
      BY DEF A!Init
    <2>2. QED
      BY <2>1 DEF A!At, A!Idle
  <1>3. QED
    BY <1>1, <1>2 DEF LinksDead

LEMMA LinksStep ==
    ASSUME AccountsInv, LinksDead, [A!Next]_(A!vars)
    PROVE  LinksDead'
  <1>1. ASSUME NEW c \in Clients, A!Steps(c) PROVE LinksDead'
    BY <1>1, ReadsStay, ResetGoesOn, FindStays, WritesStay, CreateResetStays, SpendStays,
       PasswordStays DEF A!Steps
  <1>2. CASE A!Next
    BY <1>1, <1>2, ArrivalsStay, OthersStay DEF A!Next
  <1>3. QED
    BY <1>2, OthersStay

(* For every number of accounts, links and clients: a token younger than   *)
(* its account's cut-off has the present password, the links that a reset  *)
(* ended are neither open nor held outside the three races it names, and   *)
(* the first account is alone (auth_service.go, user_repo.go,              *)
(* password_reset_repo.go).                                                *)
THEOREM AccountsInvariant == Spec => [](focus = "accounts" => AccountsInv /\ LinksDead)
  <1>1. Init => (focus = "accounts" => AccountsInv /\ LinksDead)
    BY AccountsInit, LinksInit DEF Init
  <1>2. (focus = "accounts" => AccountsInv /\ LinksDead) /\ [Next]_allVars
            => (focus = "accounts" => AccountsInv /\ LinksDead)'
    BY StepsOfOne, AccountsStep, LinksStep
  <1>3. QED
    BY <1>1, <1>2, PTL DEF Spec

(* A session that still works was opened with the present password of its  *)
(* account, whatever requests crossed, but for the races hist.outrun names *)
(* (Authenticate compares the issue time with the cut-off that every       *)
(* change of a password writes in the same statement).                     *)
THEOREM OldSessionsEnd == Spec => []SessionsEndWithPassword
  <1>1. (focus = "accounts" => AccountsInv /\ LinksDead) => SessionsEndWithPassword
    <2> SUFFICES ASSUME focus = "accounts", AccountsInv, ~hist.outrun, NEW t \in tokens,
                        A!Authenticate(t)
                 PROVE  t.pw = users[t.user].pw
      BY DEF SessionsEndWithPassword, A!SessionsEndWithPassword
    <2>1. t.user \in UserIds /\ t.issued \in Int /\ users[t.user].cutoff \in Int
      BY DEF AccountsInv, AccountTokens, TokenSound, Known, AccountsShape
    <2>2. users[t.user].cutoff <= t.issued
      BY <2>1 DEF A!Authenticate, A!TokenRetired
    <2>3. QED
      BY <2>2 DEF AccountsInv, SessionsCurrent
  <1>2. QED
    BY <1>1, AccountsInvariant, PTL

(* After a reset by mail has written its password, no link its account was *)
(* sent by then is live or held by a request that found it live; but for   *)
(* two resets of one account at once, a link made between MarkUsed and     *)
(* UpdatePassword, and a link that retention removed before it was spent   *)
(* (MarkUsed spends every open link of the account, asks nothing of them,  *)
(* and UpdatePassword is a statement of its own).                          *)
THEOREM OldLinksStayDead == Spec => []OldLinksDieWithReset
  <1>1. (focus = "accounts" => AccountsInv /\ LinksDead) => OldLinksDieWithReset
    BY DEF OldLinksDieWithReset, A!OldLinksDieWithReset, A!LinkLive, LinksDead, Apart
  <1>2. QED
    BY <1>1, AccountsInvariant, PTL

(* Set-up never makes a second administrator, over any number of restarts  *)
(* (CreateFirstAdmin inserts only into a table that holds nobody).         *)
THEOREM OneFirstAdmin == Spec => []FirstAdminOnce
  <1>1. (focus = "accounts" => AccountsInv /\ LinksDead) => FirstAdminOnce
    <2> SUFFICES ASSUME AccountsInv, ~hist.overlap, ~hist.crossed
                 PROVE  Cardinality({u \in UserIds : users[u].setup}) <= 1
      BY DEF FirstAdminOnce, A!FirstAdminOnce, Cardinality, A!Cardinality, IsFiniteSet, A!IsFiniteSet
    <2> DEFINE first == {u \in UserIds : users[u].setup}
    <2>1. \A u, v \in first : u = v
      BY DEF AccountsInv, FirstAlone
    <2>2. CASE first = {}
      BY <2>2, FS_EmptySet
    <2>3. CASE first # {}
      <3>1. PICK u : first = {u}
        BY <2>1, <2>3
      <3>2. Cardinality({u}) = 1
        BY FS_Singleton
      <3> HIDE DEF first
      <3>3. Cardinality(first) <= 1
        BY <3>1, <3>2
      <3>4. QED
        BY <3>3 DEF first
    <2>4. QED
      BY <2>2, <2>3
  <1>2. QED
    BY <1>1, AccountsInvariant, PTL

---------------------------------------------------------------------------
(* The limiters in front of the login *)

Of(x) == {k \in let : k.who = x}
Since(x, t) == {k \in let : k.who = x /\ t <= k.at}
Earlier(x, a, b) == {k \in let : k.who = x /\ a <= k.at /\ k.at < b}

(* No window at the moment t: in the last period before it there was less  *)
(* than the limit.                                                         *)
Quiet(x, t) ==
    /\ \A k \in Of(x) : k.at < t
    /\ Cardinality(Since(x, t - Period)) < Limit

(* A window that began at s with an attempt that was let through, after a  *)
(* period with less than the limit, and has counted n.                     *)
Open(x, s, n) ==
    /\ \E k \in Of(x) : k.at = s
    /\ \A k \in Of(x) : k.at <= s + Period
    /\ Cardinality(Since(x, s)) <= n /\ Cardinality(Since(x, s)) <= Limit
    /\ Cardinality(Earlier(x, s - Period, s)) < Limit

WindowSound(x) ==
    LET w == hits["handler"][x] IN
    IF w = L!None THEN Quiet(x, clock)
    ELSE /\ DOMAIN w = {"count", "expires"} /\ w.count \in Nat \ {0} /\ w.expires \in Int
         /\ w.expires - Period <= clock
         /\ Open(x, w.expires - Period, w.count)

(* An attempt is counted against the address it comes from.                *)
AttemptSound(a) ==
    /\ DOMAIN a = {"pc", "n", "source", "email", "key"}
    /\ a.source \in Sources /\ a.key = a.source
    /\ a.email \in Emails \cup {NoEmail}
    /\ a.pc = "email" => a.email \in Emails

SpansBounded ==
    \A l \in let :
        Cardinality({k \in let : k.who = l.who /\ k.at \in l.at .. l.at + Period}) < 2 * Limit

TrustSound ==
    \/ proxy.header = ""
    \/ proxy.header = L!forwardedFor /\ proxy.hops \in 1..Len(Proxies)
    \/ proxy.header = "X-Real-Ip"

LimitShape ==
    /\ clock \in Nat /\ clock >= 1
    /\ DOMAIN hits = L!Limiters /\ DOMAIN hits["handler"] = L!Keys
    /\ DOMAIN attempt = Clients
    /\ IsFiniteSet(let)
    /\ \A k \in let : k.at \in Int /\ k.at <= clock

LimitInv ==
    /\ LimitShape /\ TrustSound /\ SpansBounded
    /\ \A c \in Clients : attempt[c] = L!Idle \/ AttemptSound(attempt[c])
    /\ \A x \in L!Keys : WindowSound(x)

(* Counting: fewer elements, one more, and two halves.                     *)
LEMMA CountOfPart ==
    ASSUME NEW S, IsFiniteSet(S), NEW T, T \subseteq S
    PROVE  /\ IsFiniteSet(T) /\ Cardinality(T) \in Nat /\ Cardinality(S) \in Nat
           /\ Cardinality(T) <= Cardinality(S)
  <1>1. IsFiniteSet(T) /\ Cardinality(T) <= Cardinality(S)
    BY FS_Subset
  <1>2. QED
    BY <1>1, FS_CardinalityType

LEMMA CountOfOneMore ==
    ASSUME NEW S, IsFiniteSet(S), NEW e, NEW T, T \subseteq S \cup {e}
    PROVE  Cardinality(T) <= Cardinality(S) + 1
  <1>1. IsFiniteSet(S \cup {e}) /\ Cardinality(S \cup {e}) <= Cardinality(S) + 1
    <2>1. PICK n \in Nat : n = Cardinality(S)
      BY FS_CardinalityType
    <2>2. IsFiniteSet(S \cup {e}) /\ Cardinality(S \cup {e}) = IF e \in S THEN n ELSE n + 1
      BY <2>1, FS_AddElement
    <2>3. QED
      BY <2>1, <2>2
  <1>2. Cardinality(T) <= Cardinality(S \cup {e}) /\ Cardinality(T) \in Nat
        /\ Cardinality(S \cup {e}) \in Nat
    BY <1>1, CountOfPart
  <1>3. QED
    BY <1>1, <1>2, FS_CardinalityType

LEMMA CountOfBoth ==
    ASSUME NEW S, IsFiniteSet(S), NEW T, IsFiniteSet(T), NEW U, U \subseteq S \cup T
    PROVE  Cardinality(U) <= Cardinality(S) + Cardinality(T)
  <1>1. IsFiniteSet(S \cup T)
        /\ Cardinality(S \cup T) = Cardinality(S) + Cardinality(T) - Cardinality(S \cap T)
    BY FS_Union
  <1>2. IsFiniteSet(S \cap T)
    BY FS_Subset
  <1>3. Cardinality(U) <= Cardinality(S \cup T) /\ Cardinality(U) \in Nat
    BY <1>1, CountOfPart
  <1>4. QED
    BY <1>1, <1>2, <1>3, FS_CardinalityType

LEMMA CountsFinite ==
    ASSUME IsFiniteSet(let), NEW x, NEW a, NEW b
    PROVE  /\ IsFiniteSet(Since(x, a)) /\ Cardinality(Since(x, a)) \in Nat
           /\ IsFiniteSet(Earlier(x, a, b)) /\ Cardinality(Earlier(x, a, b)) \in Nat
  BY CountOfPart DEF Since, Earlier

LEMMA ConcatIs ==
    ASSUME NEW S, NEW v \in Seq(S), NEW w \in Seq(S)
    PROVE  /\ Len(v \o w) = Len(v) + Len(w)
           /\ \A i \in 1..Len(w) : (v \o w)[Len(v) + i] = w[i]
  OBVIOUS

(* What the proxies add to the header decides, whatever was written there. *)
LEMMA CountedBySource ==
    ASSUME TrustSound, NEW a \in Attempts
    PROVE  L!ClientIP(L!socketIP(a.source), L!Header(a.source, a.written)) = a.source
  <1>1. a.source \in L!Callers /\ a.written \in Seq(STRING)
    BY LimitAssumption DEF L!Callers
  <1>2. CASE proxy.header = ""
    BY <1>2 DEF L!ClientIP, L!socketIP
  <1>3. CASE proxy.header = "X-Real-Ip"
    <2>1. L!Header(a.source, a.written) = <<a.source>> /\ proxy.header # L!forwardedFor
      BY <1>3 DEF L!Header, L!forwardedFor
    <2>2. QED
      BY <1>1, <1>3, <2>1 DEF L!ClientIP, L!parseIP
  <1>4. CASE proxy.header = L!forwardedFor /\ proxy.hops \in 1..Len(Proxies)
    <2>0. PICK s : s = a.source
      OBVIOUS
    <2>1. PICK n \in Nat, w \in Seq(STRING) : n = proxy.hops /\ w = a.written /\ s = a.source
      BY <1>1, <1>4, <2>0, LimitAssumption
    <2>2. PICK chain : chain = SubSeq(<<s>> \o Proxies, 1, n)
      OBVIOUS
    <2>3. chain \in Seq(STRING \cup {s}) /\ Len(chain) = n /\ chain[1] = s /\ n >= 1
      <3>1. PICK all : all = <<s>> \o Proxies
        OBVIOUS
      <3>2. /\ all \in Seq(STRING \cup {s}) /\ Len(all) = 1 + Len(Proxies) /\ all[1] = s
        <4>1. <<s>> \in Seq(STRING \cup {s}) /\ Proxies \in Seq(STRING \cup {s})
          BY LimitAssumption
        <4>2. QED
          BY <3>1, <4>1
      <3>3. n \in 1..Len(all)
        BY <1>4, <2>1, <3>2, LimitAssumption
      <3>4. QED
        BY <2>2, <3>1, <3>2, <3>3
    <2>4. PICK h : h = w \o chain
      OBVIOUS
    <2>5. Len(h) = Len(w) + n /\ h[Len(w) + 1] = s /\ h # <<>>
      <3>1. w \in Seq(STRING \cup {s}) /\ Len(w) \in Nat
        BY <2>1
      <3>2. /\ Len(w \o chain) = Len(w) + Len(chain)
            /\ \A i \in 1..Len(chain) : (w \o chain)[Len(w) + i] = chain[i]
        BY <2>3, <3>1, ConcatIs
      <3>3. 1 \in 1..Len(chain)
        BY <2>3
      <3>4. Len(h) = Len(w) + n /\ h[Len(w) + 1] = s
        BY <2>3, <2>4, <3>2, <3>3
      <3>5. h # <<>>
        BY <2>1, <2>3, <3>1, <3>4
      <3>6. QED
        BY <3>4, <3>5
    <2>6. L!Header(a.source, a.written) = h /\ proxy.header # ""
      BY <1>4, <2>1, <2>2, <2>4 DEF L!Header, L!forwardedFor
    <2>7. Len(h) - proxy.hops + 1 = Len(w) + 1 /\ ~(Len(w) + 1 < 1)
      <3>1. PICK l \in Nat : l = Len(w)
        BY <2>1
      <3>2. Len(h) = l + n /\ proxy.hops = n
        BY <2>1, <2>5, <3>1
      <3>3. (l + n) - n + 1 = l + 1 /\ ~(l + 1 < 1)
        OBVIOUS
      <3>4. QED
        BY <3>1, <3>2, <3>3
    <2>8. QED
      BY <1>1, <1>4, <2>1, <2>5, <2>6, <2>7 DEF L!ClientIP, L!parseIP
  <1>5. QED
    BY <1>2, <1>3, <1>4 DEF TrustSound

LEMMA QuietStays ==
    ASSUME IsFiniteSet(let), NEW x, NEW t \in Int, NEW u \in Int, t <= u, Quiet(x, t),
           \A k \in let : k.at \in Int
    PROVE  Quiet(x, u)
  <1>1. Since(x, u - Period) \subseteq Since(x, t - Period)
    BY LimitAssumption DEF Since
  <1>2. Cardinality(Since(x, u - Period)) < Limit
    BY <1>1, CountOfPart, CountsFinite, LimitAssumption DEF Quiet
  <1>3. QED
    BY <1>2 DEF Quiet, Of

(* A window that has run out left less than the limit in the last period:  *)
(* its first attempt lies before that.                                     *)
LEMMA RunOut ==
    ASSUME LimitInv, NEW x \in L!Keys,
           hits["handler"][x] = L!None \/ clock > hits["handler"][x].expires
    PROVE  Quiet(x, clock)
  <1>1. CASE hits["handler"][x] = L!None
    BY <1>1 DEF LimitInv, WindowSound
  <1>2. CASE hits["handler"][x] # L!None
    <2>1. PICK e \in Int, n \in Nat : e = hits["handler"][x].expires /\ Open(x, e - Period, n)
      BY <1>2 DEF LimitInv, WindowSound
    <2>2. clock > e /\ clock \in Int /\ Period \in Int /\ Limit \in Int /\ IsFiniteSet(let)
          /\ \A k \in let : k.at \in Int
      BY <1>2, <2>1, LimitAssumption DEF LimitInv, LimitShape
    <2>3. PICK f \in let : f.who = x /\ f.at = e - Period
      BY <2>1 DEF Open, Of
    <2>4. \A k \in Of(x) : k.at < clock
      BY <2>1, <2>2 DEF Open, Of
    <2>5. Since(x, clock - Period) \subseteq Since(x, e - Period) \ {f}
      BY <2>2, <2>3 DEF Since
    <2>6. Cardinality(Since(x, e - Period) \ {f}) = Cardinality(Since(x, e - Period)) - 1
          /\ IsFiniteSet(Since(x, e - Period) \ {f})
      <3>1. f \in Since(x, e - Period) /\ IsFiniteSet(Since(x, e - Period))
        <4>1. IsFiniteSet(Since(x, e - Period))
          BY <2>2, CountsFinite
        <4>2. f.at \in Int /\ e - Period <= f.at
          BY <2>2, <2>3
        <4>3. QED
          BY <2>3, <4>1, <4>2 DEF Since
      <3>2. QED
        BY <3>1, FS_RemoveElement
    <2>7. Cardinality(Since(x, clock - Period)) <= Cardinality(Since(x, e - Period) \ {f})
          /\ Cardinality(Since(x, clock - Period)) \in Nat
      BY <2>5, <2>6, CountOfPart
    <2>8. Cardinality(Since(x, e - Period)) <= Limit
          /\ Cardinality(Since(x, e - Period)) \in Nat
      BY <2>1, <2>2, CountsFinite DEF Open
    <2>9. QED
      BY <2>2, <2>4, <2>6, <2>7, <2>8 DEF Quiet
  <1>3. QED
    BY <1>1, <1>2

LEMMA WindowStays ==
    ASSUME LimitInv, NEW y \in L!Keys, clock' \in {clock, clock + 1},
           Of(y)' = Of(y), \A t \in Int : Since(y, t)' = Since(y, t),
           \A t, u \in Int : Earlier(y, t, u)' = Earlier(y, t, u),
           \/ hits'["handler"][y] = hits["handler"][y]
           \/ hits'["handler"][y] = L!None /\ clock > hits["handler"][y].expires
    PROVE  WindowSound(y)'
  <1>0. clock \in Int /\ clock' \in Int /\ clock <= clock' /\ Period \in Int
        /\ IsFiniteSet(let) /\ \A k \in let : k.at \in Int
    BY LimitAssumption DEF LimitInv, LimitShape
  <1>1. CASE hits'["handler"][y] = L!None
    <2>1. Quiet(y, clock)
      BY <1>1, RunOut
    <2>2. PICK u \in Int : u = clock'
      BY <1>0
    <2>3. Quiet(y, u)
      BY <1>0, <2>1, <2>2, QuietStays
    <2>4. Quiet(y, u)'
      BY <1>0, <2>3 DEF Quiet
    <2>5. QED
      BY <1>1, <2>2, <2>4 DEF WindowSound, L!None
  <1>2. CASE hits'["handler"][y] # L!None
    <2>1. PICK w : w = hits["handler"][y]
      OBVIOUS
    <2>2. hits'["handler"][y] = w /\ w # L!None
      BY <1>2, <2>1
    <2>3. /\ DOMAIN w = {"count", "expires"} /\ w.count \in Nat \ {0} /\ w.expires \in Int
          /\ w.expires - Period <= clock
          /\ Open(y, w.expires - Period, w.count)
      BY <2>1, <2>2 DEF LimitInv, WindowSound
    <2>4. Open(y, w.expires - Period, w.count)'
      <3>1. w.expires - Period \in Int /\ (w.expires - Period) - Period \in Int
        BY <1>0, <2>3
      <3>2. QED
        BY <2>3, <3>1 DEF Open
    <2>5. w.expires - Period <= clock'
      BY <1>0, <2>3
    <2>6. QED
      BY <2>2, <2>3, <2>4, <2>5 DEF WindowSound, L!None
  <1>3. QED
    BY <1>1, <1>2

(* The spans that end now, from the window there is and the one before it. *)
LEMMA SpanOfTwo ==
    ASSUME IsFiniteSet(let'), \A k \in let' : k.at \in Int, NEW x, NEW s \in Int, NEW t \in Int,
           s - Period <= t, Cardinality(Since(x, s)') <= Limit,
           Cardinality(Earlier(x, s - Period, s)') < Limit
    PROVE  Cardinality(Since(x, t)') < 2 * Limit
  <1>1. Since(x, t)' \subseteq Since(x, s)' \cup Earlier(x, s - Period, s)'
    <2>1. Period \in Int
      BY LimitAssumption
    <2>2. QED
      BY <2>1 DEF Since, Earlier
  <1>2. IsFiniteSet(Since(x, s)') /\ IsFiniteSet(Earlier(x, s - Period, s)')
        /\ IsFiniteSet(Since(x, t)')
    BY FS_Subset DEF Since, Earlier
  <1>3. Cardinality(Since(x, t)') <= Cardinality(Since(x, s)')
                                      + Cardinality(Earlier(x, s - Period, s)')
    BY <1>1, <1>2, CountOfBoth
  <1>4. Limit \in Nat /\ Cardinality(Since(x, t)') \in Nat /\ Cardinality(Since(x, s)') \in Nat
        /\ Cardinality(Earlier(x, s - Period, s)') \in Nat
    BY <1>2, FS_CardinalityType, LimitAssumption
  <1>5. QED
    BY <1>3, <1>4

(* One more in a window that has not run out.                              *)
LEMMA CountedInWindow ==
    ASSUME LimitInv, NEW x \in L!Keys, NEW e, e.who = x, e.at = clock, let' = let \cup {e},
           NEW w, w = hits["handler"][x], w # L!None, ~(clock > w.expires),
           w.count + 1 <= Limit, NEW t \in Int, t = clock - Period
    PROVE  /\ Open(x, w.expires - Period, w.count + 1)'
           /\ Cardinality(Since(x, t)') < 2 * Limit
  <1>1. PICK s \in Int, n \in Nat : /\ s = w.expires - Period /\ n = w.count /\ s <= clock
                                    /\ n + 1 <= Limit /\ clock <= s + Period /\ Open(x, s, n)
    BY LimitAssumption DEF LimitInv, WindowSound, LimitShape
  <1>2. /\ clock \in Int /\ Period \in Nat /\ Limit \in Nat /\ IsFiniteSet(let)
        /\ \A k \in let' : k.at \in Int
    BY LimitAssumption DEF LimitInv, LimitShape
  <1>3. /\ IsFiniteSet(let') /\ Of(x)' = Of(x) \cup {e}
        /\ Since(x, s)' = Since(x, s) \cup {e}
        /\ Earlier(x, s - Period, s)' = Earlier(x, s - Period, s)
    <2>1. IsFiniteSet(let')
      BY <1>2, FS_AddElement
    <2>2. QED
      BY <1>1, <1>2, <2>1 DEF Of, Since, Earlier
  <1>4. Cardinality(Since(x, s)') <= Cardinality(Since(x, s)) + 1
        /\ Cardinality(Since(x, s)) \in Nat /\ Cardinality(Since(x, s)') \in Nat
    <2>1. IsFiniteSet(Since(x, s)) /\ Cardinality(Since(x, s)) \in Nat
      BY <1>2, CountsFinite
    <2>2. Cardinality(Since(x, s)') <= Cardinality(Since(x, s)) + 1
      BY <1>3, <2>1, CountOfOneMore
    <2>3. IsFiniteSet(Since(x, s)')
      BY <1>3, <2>1, FS_AddElement
    <2>4. QED
      BY <2>1, <2>2, <2>3, FS_CardinalityType
  <1>5. Open(x, s, n + 1)'
    <2>1. Cardinality(Since(x, s)') <= n + 1 /\ Cardinality(Since(x, s)') <= Limit
      BY <1>1, <1>2, <1>4 DEF Open
    <2>2. (\E k \in Of(x)' : k.at = s) /\ \A k \in Of(x)' : k.at <= s + Period
      BY <1>1, <1>2, <1>3 DEF Open
    <2>3. Cardinality(Earlier(x, s - Period, s)') < Limit
      BY <1>1, <1>3 DEF Open
    <2>4. QED
      BY <2>1, <2>2, <2>3 DEF Open
  <1>6. s - Period <= t
    BY <1>1, <1>2
  <1>7. Cardinality(Since(x, t)') < 2 * Limit
    <2>1. Cardinality(Since(x, s)') <= Limit
          /\ Cardinality(Earlier(x, s - Period, s)') < Limit
      BY <1>5 DEF Open
    <2>2. QED
      BY <1>2, <1>3, <1>6, <2>1, SpanOfTwo
  <1>8. QED
    BY <1>1, <1>5, <1>7

(* The first of a new window, with less than the limit in the period       *)
(* before.                                                                 *)
LEMMA CountedFirst ==
    ASSUME LimitInv, NEW x \in L!Keys, NEW e, e.who = x, e.at = clock, let' = let \cup {e},
           Quiet(x, clock), NEW s \in Int, s = clock
    PROVE  /\ Open(x, s, 1)'
           /\ Cardinality(Since(x, s - Period)') < 2 * Limit
  <1>1. /\ clock \in Int /\ Period \in Nat /\ Limit \in Nat \ {0} /\ IsFiniteSet(let)
        /\ \A k \in let' : k.at \in Int
    BY LimitAssumption DEF LimitInv, LimitShape
  <1>2. PICK p \in Int : p = s - Period /\ p <= s
    BY <1>1
  <1>3. /\ IsFiniteSet(let') /\ Of(x)' = Of(x) \cup {e}
        /\ Since(x, s)' = Since(x, s) \cup {e}
        /\ Earlier(x, p, s)' = Earlier(x, p, s)
    <2>1. IsFiniteSet(let')
      BY <1>1, FS_AddElement
    <2>2. QED
      BY <1>1, <1>2, <2>1 DEF Of, Since, Earlier
  <1>4. Since(x, s) = {}
    BY <1>1 DEF Quiet, Since, Of
  <1>5. Cardinality(Since(x, s)') = 1
    <2>1. Since(x, s)' = {e}
      BY <1>3, <1>4
    <2>2. QED
      BY <2>1, FS_Singleton
  <1>6. Cardinality(Earlier(x, p, s)) < Limit
    <2>1. Earlier(x, p, s) \subseteq Since(x, p)
      BY DEF Earlier, Since
    <2>2. IsFiniteSet(Since(x, p))
      BY <1>1, CountsFinite
    <2>3. Cardinality(Earlier(x, p, s)) <= Cardinality(Since(x, p))
          /\ Cardinality(Earlier(x, p, s)) \in Nat /\ Cardinality(Since(x, p)) \in Nat
      BY <2>1, <2>2, CountOfPart
    <2>4. QED
      BY <1>1, <1>2, <2>3 DEF Quiet
  <1>7. Open(x, s, 1)'
    <2>1. (\E k \in Of(x)' : k.at = s) /\ \A k \in Of(x)' : k.at <= s + Period
      BY <1>1, <1>3 DEF Quiet, Of
    <2>2. QED
      BY <1>1, <1>2, <1>3, <1>5, <1>6, <2>1 DEF Open
  <1>8. Cardinality(Since(x, p)') < 2 * Limit
    <2>1. Cardinality(Since(x, s)') <= Limit /\ s - Period <= p
      BY <1>1, <1>2, <1>5
    <2>2. Cardinality(Earlier(x, s - Period, s)') < Limit
      BY <1>7 DEF Open
    <2>3. QED
      BY <1>1, <1>3, <2>1, <2>2, SpanOfTwo
  <1>9. QED
    BY <1>2, <1>7, <1>8

(* Spans that end before now are as they were.                             *)
LEMMA SpansStay ==
    ASSUME LimitInv, NEW x, NEW e, e.who = x, e.at = clock, let' = let \cup {e},
           NEW t \in Int, t = clock - Period, Cardinality(Since(x, t)') < 2 * Limit
    PROVE  SpansBounded'
  <1> DEFINE Span(S, l) == {k \in S : k.who = l.who /\ k.at \in l.at .. l.at + Period}
  <1>1. /\ clock \in Int /\ Period \in Nat /\ Limit \in Nat \ {0} /\ IsFiniteSet(let)
        /\ \A k \in let' : k.at \in Int /\ k.at <= clock
    BY LimitAssumption DEF LimitInv, LimitShape
  <1>2. SUFFICES ASSUME NEW l \in let' PROVE Cardinality(Span(let', l)) < 2 * Limit
    BY DEF SpansBounded
  <1>3. IsFiniteSet(let')
    BY <1>1, FS_AddElement
  <1>4. CASE l.who = x /\ t <= l.at
    <2>1. Span(let', l) \subseteq Since(x, t)'
      BY <1>1, <1>4 DEF Since
    <2>2. IsFiniteSet(Since(x, t)')
      BY <1>3, FS_Subset DEF Since
    <2>3. Cardinality(Span(let', l)) <= Cardinality(Since(x, t)')
          /\ Cardinality(Span(let', l)) \in Nat /\ Cardinality(Since(x, t)') \in Nat
      BY <2>1, <2>2, CountOfPart
    <2>4. QED
      BY <1>1, <2>3
  <1>5. CASE ~(l.who = x /\ t <= l.at)
    <2>1. e \notin Span(let', l) /\ l \in let
      BY <1>1, <1>5
    <2>2. Span(let', l) = Span(let, l)
      BY <2>1
    <2>3. Cardinality(Span(let, l)) < 2 * Limit
      BY <2>1 DEF LimitInv, SpansBounded
    <2>4. QED
      BY <2>2, <2>3
  <1>6. QED
    BY <1>4, <1>5

LEMMA CollectIs ==
    ASSUME LimitShape, NEW tab, tab = L!collect("handler", clock)
    PROVE  /\ DOMAIN tab = L!Keys
           /\ \A y \in L!Keys : \/ tab[y] = hits["handler"][y]
                                \/ tab[y] = L!None /\ clock > hits["handler"][y].expires
  BY DEF L!collect, LimitShape

LEMMA AllowKeeps ==
    ASSUME LimitInv, NEW c \in Clients, NEW x \in L!Keys, NEW r, AttemptSound(r),
           L!Allow(c, "handler", x, r, {x}), proxy' = proxy, clock' = clock
    PROVE  LimitInv'
  <1>1. PICK tab, w, e : /\ tab = L!collect("handler", clock) /\ w = L!Window(tab, x, clock)
                         /\ e = [n |-> r.n, who |-> x, at |-> clock]
    OBVIOUS
  <1>2. /\ DOMAIN tab = L!Keys
        /\ \A y \in L!Keys : \/ tab[y] = hits["handler"][y]
                             \/ tab[y] = L!None /\ clock > hits["handler"][y].expires
    BY <1>1, CollectIs DEF LimitInv
  <1>3. /\ hits' = [hits EXCEPT !["handler"] = [tab EXCEPT ![x] = w]]
        /\ attempt' = [attempt EXCEPT ![c] = IF w.count <= Limit THEN r ELSE L!Idle]
        /\ let' = IF w.count > Limit THEN let ELSE let \cup {e}
    <2>1. {[n |-> r.n, who |-> y, at |-> clock] : y \in {x}} = {e}
      BY <1>1
    <2>2. QED
      BY <1>1, <2>1 DEF L!Allow
  <1>4. /\ clock \in Nat /\ clock >= 1 /\ Period \in Nat /\ Limit \in Nat \ {0} /\ IsFiniteSet(let)
        /\ \A k \in let : k.at \in Int /\ k.at <= clock
        /\ e.who = x /\ e.at = clock
    BY <1>1, LimitAssumption DEF LimitInv, LimitShape
  <1>5. /\ DOMAIN hits' = L!Limiters /\ DOMAIN hits'["handler"] = L!Keys
        /\ hits'["handler"][x] = w
        /\ \A y \in L!Keys : y # x => hits'["handler"][y] = tab[y]
    <2>1. "handler" \in DOMAIN hits
      BY DEF LimitInv, LimitShape, L!Limiters
    <2>2. DOMAIN hits' = L!Limiters /\ hits'["handler"] = [tab EXCEPT ![x] = w]
      BY <1>3, <2>1 DEF LimitInv, LimitShape
    <2>3. QED
      BY <1>2, <2>2
  <1>6. ASSUME NEW y \in L!Keys, y # x PROVE WindowSound(y)'
    <2>1. Of(y)' = Of(y) /\ (\A t \in Int : Since(y, t)' = Since(y, t))
          /\ \A t, u \in Int : Earlier(y, t, u)' = Earlier(y, t, u)
      BY <1>3, <1>4, <1>6 DEF Of, Since, Earlier
    <2>2. \/ hits'["handler"][y] = hits["handler"][y]
          \/ hits'["handler"][y] = L!None /\ clock > hits["handler"][y].expires
      BY <1>2, <1>5, <1>6
    <2>3. QED
      BY <2>1, <2>2, WindowStays
  <1>7. WindowSound(x)' /\ SpansBounded'
    <2>1. CASE tab[x] = L!None \/ clock > tab[x].expires
      <3>1. w.count = 1 /\ w.expires = clock + Period /\ DOMAIN w = {"count", "expires"}
        BY <1>1, <2>1 DEF L!Window
      <3>2. let' = let \cup {e} /\ w # L!None
        BY <1>3, <1>4, <3>1 DEF L!None
      <3>3. Quiet(x, clock)
        BY <1>2, <2>1, RunOut
      <3>4. PICK s \in Int : s = clock
        BY <1>4
      <3>5. Open(x, s, 1)' /\ Cardinality(Since(x, s - Period)') < 2 * Limit
        BY <1>4, <3>2, <3>3, <3>4, CountedFirst
      <3>6. PICK t \in Int : t = s - Period
        BY <1>4
      <3>7. SpansBounded'
        BY <1>4, <3>2, <3>4, <3>5, <3>6, SpansStay
      <3>8. w.expires - Period = s /\ w.expires \in Int
        BY <1>4, <3>1, <3>4
      <3>9. QED
        BY <1>4, <1>5, <3>1, <3>2, <3>4, <3>5, <3>7, <3>8 DEF WindowSound, L!None
    <2>2. CASE ~(tab[x] = L!None \/ clock > tab[x].expires)
      <3>1. PICK v : v = hits["handler"][x]
        OBVIOUS
      <3>2. v = tab[x] /\ v # L!None /\ ~(clock > v.expires)
        BY <1>2, <2>2, <3>1
      <3>3. /\ DOMAIN v = {"count", "expires"} /\ v.count \in Nat \ {0} /\ v.expires \in Int
            /\ v.expires - Period <= clock /\ Open(x, v.expires - Period, v.count)
        BY <3>1, <3>2 DEF LimitInv, WindowSound
      <3>4. /\ w.count = v.count + 1 /\ w.expires = v.expires /\ w # L!None
            /\ DOMAIN w = {"count", "expires"}
        <4>1. w = [v EXCEPT !.count = @ + 1]
          BY <1>1, <2>2, <3>2 DEF L!Window
        <4>2. w.count = v.count + 1 /\ w.expires = v.expires /\ DOMAIN w = {"count", "expires"}
          BY <3>3, <4>1
        <4>3. QED
          BY <3>3, <4>2 DEF L!None
      <3>5. CASE w.count <= Limit
        <4>1. let' = let \cup {e} /\ v.count + 1 <= Limit
          BY <1>3, <1>4, <3>3, <3>4, <3>5
        <4>2. PICK t \in Int : t = clock - Period
          BY <1>4
        <4>3. Open(x, v.expires - Period, v.count + 1)' /\ Cardinality(Since(x, t)') < 2 * Limit
          BY <1>4, <3>1, <3>2, <4>1, <4>2, CountedInWindow
        <4>4. SpansBounded'
          BY <1>4, <4>1, <4>2, <4>3, SpansStay
        <4>5. w.count \in Nat \ {0} /\ w.expires \in Int /\ w.expires - Period <= clock'
          BY <3>3, <3>4
        <4>6. Open(x, w.expires - Period, w.count)'
          BY <3>4, <4>3
        <4>7. QED
          BY <1>5, <3>4, <4>4, <4>5, <4>6 DEF WindowSound, L!None
      <3>6. CASE ~(w.count <= Limit)
        <4>1. let' = let
          BY <1>3, <1>4, <3>3, <3>4, <3>6
        <4>2. PICK s \in Int, n \in Nat : s = v.expires - Period /\ n = v.count /\ Open(x, s, n)
          BY <1>4, <3>3
        <4>3. Open(x, s, n + 1)'
          <5>1. Cardinality(Since(x, s)) \in Nat
            BY <1>4, CountsFinite
          <5>2. Since(x, s)' = Since(x, s) /\ Of(x)' = Of(x)
                /\ Earlier(x, s - Period, s)' = Earlier(x, s - Period, s)
            BY <4>1 DEF Since, Earlier, Of
          <5>3. QED
            BY <4>2, <5>1, <5>2 DEF Open
        <4>4. SpansBounded'
          BY <4>1 DEF LimitInv, SpansBounded
        <4>5. w.count \in Nat \ {0} /\ w.expires \in Int /\ w.expires - Period <= clock'
          BY <3>3, <3>4
        <4>6. w.expires - Period = s /\ w.count = n + 1
          BY <3>4, <4>2
        <4>7. QED
          BY <1>5, <3>4, <4>3, <4>4, <4>5, <4>6 DEF WindowSound, L!None
      <3>7. QED
        BY <3>5, <3>6
    <2>3. QED
      BY <2>1, <2>2
  <1>8. DOMAIN attempt' = Clients
        /\ \A d \in Clients : attempt'[d] = L!Idle \/ AttemptSound(attempt'[d])
    BY <1>3 DEF LimitInv, LimitShape
  <1>9. LimitShape'
    <2>1. IsFiniteSet(let')
      BY <1>3, <1>4, FS_AddElement
    <2>2. \A k \in let' : k.at \in Int /\ k.at <= clock
      BY <1>3, <1>4
    <2>3. QED
      BY <1>4, <1>5, <1>8, <2>1, <2>2 DEF LimitShape
  <1>10. QED
    BY <1>6, <1>7, <1>8, <1>9 DEF LimitInv, TrustSound, AttemptSound, L!Idle

(* The limiter of a route counts and forgets on its own.                   *)
LEMMA RateLimitKeeps ==
    ASSUME LimitInv, NEW c \in Clients, NEW a \in Attempts, L!RateLimit(c, a)
    PROVE  LimitInv'
  <1>1. PICK key : key = L!ClientIP(L!socketIP(a.source), L!Header(a.source, a.written))
    OBVIOUS
  <1>2. PICK r : r = [pc |-> "address", n |-> begun, source |-> a.source,
                      email |-> a.email, key |-> key]
    OBVIOUS
  <1>3. AttemptSound(r)
    BY <1>1, <1>2, CountedBySource, LimitAssumption DEF AttemptSound, LimitInv
  <1>4. L!Allow(c, a.route, key, r, {}) /\ UNCHANGED <<proxy, clock>>
    BY <1>1, <1>2 DEF L!RateLimit
  <1>5. PICK m, w : /\ hits' = [hits EXCEPT ![a.route] = m]
                    /\ attempt' = [attempt EXCEPT ![c] = IF w.count <= Limit THEN r ELSE L!Idle]
    BY <1>4 DEF L!Allow
  <1>6. let' = let
    BY <1>4 DEF L!Allow
  <1>7. /\ DOMAIN hits' = L!Limiters /\ hits'["handler"] = hits["handler"]
        /\ DOMAIN attempt' = Clients
        /\ \A d \in Clients : attempt'[d] = L!Idle \/ AttemptSound(attempt'[d])
    BY <1>3, <1>5, LimitAssumption DEF LimitInv, LimitShape, L!Limiters, L!Routes
  <1>8. LimitShape' /\ SpansBounded' /\ TrustSound'
    BY <1>4, <1>6, <1>7 DEF LimitInv, LimitShape, SpansBounded, TrustSound
  <1>9. \A x \in L!Keys : WindowSound(x)'
    <2>1. ASSUME NEW x \in L!Keys
          PROVE  Of(x)' = Of(x) /\ (\A t \in Int : Since(x, t)' = Since(x, t))
                 /\ \A t, u \in Int : Earlier(x, t, u)' = Earlier(x, t, u)
      BY <1>6 DEF Of, Since, Earlier
    <2>2. clock' = clock
      BY <1>4
    <2>3. QED
      BY <1>7, <2>1, <2>2, WindowStays
  <1>10. QED
    BY <1>7, <1>8, <1>9 DEF LimitInv, AttemptSound, L!Idle

(* A success forgets the address and the account, window and history.      *)
LEMMA SuccessKeeps ==
    ASSUME LimitInv, NEW c \in Clients, L!loginSucceeded(c)
    PROVE  LimitInv'
  <1>1. PICK a, S : a = attempt[c] /\ S = {a.key, a.email}
    OBVIOUS
  <1>2. AttemptSound(a)
    BY <1>1 DEF L!loginSucceeded, LimitInv, L!Idle
  <1>3. /\ hits' = [hits EXCEPT !["handler"] = [k \in L!Keys |-> IF k \in S THEN L!None ELSE @[k]]]
        /\ let' = {l \in let : l.who \notin S}
        /\ attempt' = [attempt EXCEPT ![c] = L!Idle]
        /\ UNCHANGED <<proxy, clock>>
    BY <1>1, <1>2 DEF L!loginSucceeded, L!Reset, AttemptSound
  <1>4. /\ DOMAIN hits' = L!Limiters /\ DOMAIN hits'["handler"] = L!Keys
        /\ \A x \in L!Keys : hits'["handler"][x] = IF x \in S THEN L!None ELSE hits["handler"][x]
    BY <1>3 DEF LimitInv, LimitShape, L!Limiters
  <1>5. /\ clock \in Int /\ Period \in Nat /\ Limit \in Nat \ {0} /\ IsFiniteSet(let)
        /\ let' \subseteq let /\ IsFiniteSet(let')
    <2>1. let' \subseteq let
      BY <1>3
    <2>2. QED
      BY <2>1, FS_Subset, LimitAssumption DEF LimitInv, LimitShape
  <1>6. LimitShape'
    BY <1>3, <1>4, <1>5 DEF LimitInv, LimitShape
  <1>7. SpansBounded'
    <2> SUFFICES ASSUME NEW l \in let'
                 PROVE  Cardinality({k \in let' : k.who = l.who /\ k.at \in l.at .. l.at + Period})
                            < 2 * Limit
      BY DEF SpansBounded
    <2>1. PICK T, U : /\ T = {k \in let' : k.who = l.who /\ k.at \in l.at .. l.at + Period}
                      /\ U = {k \in let : k.who = l.who /\ k.at \in l.at .. l.at + Period}
      OBVIOUS
    <2>2. T \subseteq U /\ IsFiniteSet(U) /\ Cardinality(U) < 2 * Limit
      <3>1. T \subseteq U /\ U \subseteq let
        BY <1>5, <2>1
      <3>2. Cardinality(U) < 2 * Limit
        BY <1>5, <2>1 DEF LimitInv, SpansBounded
      <3>3. QED
        BY <1>5, <3>1, <3>2, FS_Subset
    <2>3. Cardinality(T) < 2 * Limit
      BY <1>5, <2>2, CountOfPart
    <2>4. QED
      BY <2>1, <2>3
  <1>8. ASSUME NEW x \in L!Keys PROVE WindowSound(x)'
    <2>1. CASE x \in S
      <3>1. Of(x)' = {} /\ \A t : Since(x, t)' = {}
        BY <1>3, <2>1 DEF Of, Since
      <3>2. PICK t \in Int : t = clock' - Period
        BY <1>3, <1>5
      <3>3. Since(x, clock - Period)' = {} /\ Cardinality({}) = 0
        BY <1>3, <2>1, FS_EmptySet DEF Since
      <3>4. Quiet(x, clock)'
        BY <1>5, <3>1, <3>3 DEF Quiet
      <3>5. QED
        BY <1>4, <2>1, <3>4 DEF WindowSound, L!None
    <2>2. CASE x \notin S
      <3>1. Of(x)' = Of(x) /\ (\A t \in Int : Since(x, t)' = Since(x, t))
            /\ \A t, u \in Int : Earlier(x, t, u)' = Earlier(x, t, u)
        BY <1>3, <2>2 DEF Of, Since, Earlier
      <3>2. QED
        BY <1>3, <1>4, <2>2, <3>1, WindowStays
    <2>3. QED
      BY <2>1, <2>2
  <1>9. \A d \in Clients : attempt'[d] = L!Idle \/ AttemptSound(attempt'[d])
    BY <1>3 DEF LimitInv, LimitShape
  <1>10. QED
    BY <1>3, <1>6, <1>7, <1>8, <1>9 DEF LimitInv, TrustSound, AttemptSound, L!Idle, LimitShape

LEMMA IdleKeepsLimit ==
    ASSUME LimitInv, UNCHANGED <<proxy, hits, let>>, clock' \in {clock, clock + 1},
           DOMAIN attempt' = Clients,
           \A d \in Clients : attempt'[d] = attempt[d] \/ attempt'[d] = L!Idle
    PROVE  LimitInv'
  <1>1. LimitShape' /\ SpansBounded' /\ TrustSound'
    <2>1. LimitShape'
      BY DEF LimitInv, LimitShape
    <2>2. SpansBounded'
      BY DEF LimitInv, SpansBounded
    <2>3. TrustSound'
      BY DEF LimitInv, TrustSound
    <2>4. QED
      BY <2>1, <2>2, <2>3
  <1>2. ASSUME NEW x \in L!Keys PROVE WindowSound(x)'
    <2>1. Of(x)' = Of(x) /\ (\A t \in Int : Since(x, t)' = Since(x, t))
          /\ \A t, u \in Int : Earlier(x, t, u)' = Earlier(x, t, u)
      BY DEF Of, Since, Earlier
    <2>2. QED
      BY <2>1, WindowStays
  <1>3. \A d \in Clients : attempt'[d] = L!Idle \/ AttemptSound(attempt'[d])
    BY DEF LimitInv
  <1>4. QED
    BY <1>1, <1>2, <1>3 DEF LimitInv, AttemptSound, L!Idle

LEMMA CountKeeps ==
    ASSUME LimitInv, NEW c \in Clients, L!loginAllowed(c) \/ L!emailKey(c)
    PROVE  LimitInv'
  <1>1. PICK a : a = attempt[c]
    OBVIOUS
  <1>2. AttemptSound(a)
    BY <1>1 DEF L!loginAllowed, L!emailKey, LimitInv, L!Idle
  <1>3. CASE L!loginAllowed(c)
    <2>1. PICK p, r : /\ p = IF a.email = NoEmail THEN "password" ELSE "email"
                      /\ r = [a EXCEPT !.pc = p]
      OBVIOUS
    <2>2. AttemptSound(r)
      BY <1>2, <2>1 DEF AttemptSound
    <2>3. L!Allow(c, "handler", a.key, r, {a.key}) /\ a.key \in L!Keys
          /\ UNCHANGED <<proxy, clock>>
      BY <1>1, <1>2, <1>3, <2>1 DEF L!loginAllowed, AttemptSound, L!Keys, L!Callers
    <2>4. QED
      BY <2>2, <2>3, AllowKeeps
  <1>4. CASE L!emailKey(c)
    <2>1. PICK r : r = [a EXCEPT !.pc = "password"]
      OBVIOUS
    <2>2. AttemptSound(r) /\ a.pc = "email"
      BY <1>1, <1>2, <1>4, <2>1 DEF AttemptSound, L!emailKey
    <2>3. L!Allow(c, "handler", a.email, r, {a.email}) /\ a.email \in L!Keys
          /\ UNCHANGED <<proxy, clock>>
      BY <1>1, <1>2, <1>4, <2>1, <2>2 DEF L!emailKey, AttemptSound, L!Keys
    <2>4. QED
      BY <2>2, <2>3, AllowKeeps
  <1>5. QED
    BY <1>3, <1>4

LEMMA LimitInit == L!Init => LimitInv
  <1> SUFFICES ASSUME L!Init PROVE LimitInv
    OBVIOUS
  <1>1. /\ hits = [l \in L!Limiters |-> [k \in L!Keys |-> L!None]]
        /\ attempt = [c \in Clients |-> L!Idle] /\ clock = 1 /\ let = {}
    BY DEF L!Init
  <1>2. LimitShape /\ SpansBounded
    BY <1>1, FS_EmptySet DEF LimitShape, SpansBounded, L!Limiters, L!Routes
  <1>3. TrustSound
    <2>1. PICK h \in Headers, n \in 0..Len(Proxies) : proxy \in L!NewTrustedProxy(h, n)
      BY DEF L!Init
    <2>2. Len(Proxies) \in Nat
      BY LimitAssumption
    <2>3. CASE h = ""
      <3>1. proxy = [header |-> "", hops |-> 0]
        BY <2>1, <2>3 DEF L!NewTrustedProxy, L!TrustNothing, L!forwardedFor, L!trustableHeaders
      <3>2. QED
        BY <3>1 DEF TrustSound
    <2>4. CASE h = L!forwardedFor /\ n >= 1
      <3>1. proxy = [header |-> h, hops |-> n]
        BY <2>1, <2>4 DEF L!NewTrustedProxy, L!forwardedFor
      <3>2. n \in 1..Len(Proxies)
        BY <2>1, <2>2, <2>4
      <3>3. proxy.header = L!forwardedFor /\ proxy.hops = n
        BY <2>4, <3>1
      <3>4. QED
        BY <3>2, <3>3 DEF TrustSound
    <2>5. CASE h \in L!trustableHeaders \ {L!forwardedFor}
      <3>1. h = "X-Real-Ip"
        BY <2>5 DEF L!trustableHeaders, L!forwardedFor
      <3>2. proxy = [header |-> h, hops |-> 0]
        BY <2>1, <3>1 DEF L!NewTrustedProxy, L!trustableHeaders, L!forwardedFor
      <3>3. QED
        BY <3>1, <3>2 DEF TrustSound
    <2>6. QED
      BY <2>1, <2>3, <2>4, <2>5 DEF L!NewTrustedProxy
  <1>4. ASSUME NEW x \in L!Keys PROVE WindowSound(x)
    <2>1. Of(x) = {} /\ Since(x, clock - Period) = {}
      BY <1>1 DEF Of, Since
    <2>2. Quiet(x, clock)
      <3>1. Cardinality(Since(x, clock - Period)) = 0
        BY <2>1, FS_EmptySet
      <3>2. QED
        BY <2>1, <3>1, LimitAssumption DEF Quiet
    <2>3. "handler" \in L!Limiters
      BY DEF L!Limiters
    <2>4. QED
      BY <1>1, <2>2, <2>3 DEF WindowSound
  <1>5. QED
    BY <1>1, <1>2, <1>3, <1>4 DEF LimitInv

LEMMA LimitStep ==
    ASSUME LimitInv, [L!Next]_(L!vars)
    PROVE  LimitInv'
  <1>1. CASE UNCHANGED L!vars \/ L!Tick
    <2>1. /\ UNCHANGED <<proxy, hits, let, attempt>> /\ clock' \in {clock, clock + 1}
      BY <1>1 DEF L!vars, L!Tick
    <2>2. QED
      BY <2>1, IdleKeepsLimit DEF LimitInv, LimitShape
  <1>2. ASSUME NEW c \in Clients, L!loginError(c) PROVE LimitInv'
    <2>1. /\ UNCHANGED <<proxy, hits, let, clock>> /\ DOMAIN attempt' = Clients
          /\ \A d \in Clients : attempt'[d] = attempt[d] \/ attempt'[d] = L!Idle
      BY <1>2 DEF L!loginError, LimitInv, LimitShape
    <2>2. QED
      BY <2>1, IdleKeepsLimit
  <1>3. CASE L!Next
    BY <1>1, <1>2, <1>3, RateLimitKeeps, CountKeeps, SuccessKeeps DEF L!Next
  <1>4. QED
    BY <1>1, <1>3

(* For every limit, period and number of callers: between the attempts of  *)
(* a window and those of the period before it lies the first of the        *)
(* window, and each holds at most the limit (Allow and collect of          *)
(* ratelimit.go).                                                          *)
THEOREM LimitInvariant == Spec => [](focus = "limit" => LimitInv)
  <1>1. Init => (focus = "limit" => LimitInv)
    BY LimitInit DEF Init
  <1>2. (focus = "limit" => LimitInv) /\ [Next]_allVars => (focus = "limit" => LimitInv)'
    BY StepsOfOne, LimitStep
  <1>3. QED
    BY <1>1, <1>2, PTL DEF Spec

(* Fewer than twice the limit get through in any span of one period, for   *)
(* one caller whatever it writes into the header, and for one account      *)
(* (loginAllowed of auth_handler.go counts both).                          *)
THEOREM AttemptsAreBounded == Spec => []AttemptsBounded
  <1>1. (focus = "limit" => LimitInv) => AttemptsBounded
    BY DEF AttemptsBounded, L!AttemptsBounded, LimitInv, SpansBounded,
           Cardinality, L!Cardinality, IsFiniteSet, L!IsFiniteSet
  <1>2. QED
    BY <1>1, LimitInvariant, PTL

---------------------------------------------------------------------------
(* Cron expressions: the next firing is the first minute that matches      *)

Hours == 0..(C!HoursADay - 1)
Minutes == 0..(C!MinutesAnHour - 1)

LEMMA DaySound ==
    /\ C!HoursADay \in Nat \ {0} /\ C!MinutesAnHour \in Nat \ {0}
    /\ C!MinutesADay = C!HoursADay * C!MinutesAnHour /\ C!MinutesADay \in Nat \ {0}
    /\ Len(Calendar) \in Nat /\ ScanDays \in Nat
  <1>1. /\ bounds[1] \in [min : Nat, max : Nat] /\ bounds[2] \in [min : Nat, max : Nat]
    BY CronAssumption DEF C!Fields
  <1>2. /\ C!HoursADay \in Nat \ {0} /\ C!MinutesAnHour \in Nat \ {0}
    BY <1>1 DEF C!HoursADay, C!MinutesAnHour, C!fieldHour, C!fieldMinute
  <1>3. PICK h \in Nat \ {0}, m \in Nat \ {0} : h = C!HoursADay /\ m = C!MinutesAnHour
    BY <1>2
  <1>4. h * m \in Nat \ {0}
    <2>1. 1 * m <= h * m /\ h * m \in Nat
      BY ProductGrows
    <2>2. QED
      BY <2>1
  <1>5. C!MinutesADay = h * m
    BY <1>3 DEF C!MinutesADay
  <1>6. QED
    BY <1>2, <1>3, <1>4, <1>5, CronAssumption

(* A field that is accepted holds values within its bounds.                *)
LEMMA FieldsBounded ==
    ASSUME NEW e \in Written, C!Validate(e)
    PROVE  /\ C!Parse(e).sets[C!fieldHour] \subseteq Hours
           /\ C!Parse(e).sets[C!fieldMinute] \subseteq Minutes
  <1>1. ASSUME NEW i \in {1, 2}
        PROVE  C!parseField(e[i], bounds[i]) \subseteq 0..bounds[i].max
    <2>1. C!FieldValid(e[i], bounds[i]) /\ i \in 1..Len(e)
      BY <1>1 DEF C!Validate, C!Fields
    <2> DEFINE Parts == [kind : {"*", "value", "range"}, a : Int, z : Int, step : Int]
    <2>2. PICK f \in Seq(Parts) : f = e[i]
      BY <2>1, CronAssumption
    <2>3. PICK b \in [min : Nat, max : Nat] : b = bounds[i]
      <3>1. i \in C!Fields /\ bounds \in [C!Fields -> [min : Nat, max : Nat]]
        BY <1>1, CronAssumption DEF C!Fields
      <3>2. QED
        BY <3>1
    <2>4. ASSUME NEW k \in DOMAIN f PROVE C!parsePart(f[k], b) \subseteq 0..b.max
      <3>1. PICK q \in Parts : q = f[k]
        <4> HIDE DEF Parts
        <4>1. k \in 1..Len(f)
          BY <2>2
        <4>2. QED
          BY <2>2, <4>1
      <3>2. C!PartStart(q, b) >= b.min /\ C!PartEnd(q, b) <= b.max
        BY <2>1, <2>2, <2>3, <3>1 DEF C!FieldValid, C!PartValid
      <3>3. C!PartStart(q, b) \in Int /\ C!PartEnd(q, b) \in Int
        BY DEF C!PartStart, C!PartEnd
      <3>4. C!parsePart(q, b) \subseteq C!PartStart(q, b)..C!PartEnd(q, b)
        BY DEF C!parsePart
      <3>5. C!PartStart(q, b)..C!PartEnd(q, b) \subseteq 0..b.max
        <4>1. PICK a \in Int, z \in Int : a = C!PartStart(q, b) /\ z = C!PartEnd(q, b)
          BY <3>3
        <4>2. PICK lo \in Nat, hi \in Nat : lo = b.min /\ hi = b.max
          OBVIOUS
        <4>3. a >= lo /\ z <= hi
          BY <3>2, <4>1, <4>2
        <4>4. a..z \subseteq 0..hi
          BY <4>3
        <4>5. QED
          BY <4>1, <4>2, <4>4
      <3>6. QED
        BY <3>1, <3>4, <3>5
    <2>5. QED
      BY <2>2, <2>3, <2>4 DEF C!parseField
  <1>2. /\ C!Parse(e).sets[2] = C!parseField(e[2], bounds[2])
        /\ C!Parse(e).sets[1] = C!parseField(e[1], bounds[1])
    BY DEF C!Parse, C!Fields, C!fieldDayOfWeek
  <1>3. bounds[1].max \in Int /\ bounds[2].max \in Int
    BY CronAssumption DEF C!Fields
  <1>4. Hours = 0..bounds[2].max /\ Minutes = 0..bounds[1].max
    <2>1. PICK h \in Int, m \in Int : h = bounds[2].max /\ m = bounds[1].max
      BY <1>3
    <2>2. C!HoursADay - 1 = h /\ C!MinutesAnHour - 1 = m
      BY <2>1 DEF C!HoursADay, C!MinutesAnHour, C!fieldHour, C!fieldMinute
    <2>3. QED
      BY <2>1, <2>2 DEF Hours, Minutes
  <1>5. QED
    BY <1>1, <1>2, <1>4 DEF C!fieldHour, C!fieldMinute

DayFits(p, d) ==
    d < Len(Calendar) /\ Calendar[d + 1].month \in p.sets[C!fieldMonth]
    /\ C!dayMatches(p, Calendar[d + 1])

(* What the day scan builds of a day is what matches within that day.      *)
LEMMA CandidatesMatch ==
    ASSUME NEW p, p.sets[C!fieldHour] \subseteq Hours, p.sets[C!fieldMinute] \subseteq Minutes,
           NEW s \in Nat, NEW d \in Nat, NEW start \in Nat, DayFits(p, d)
    PROVE  s \in C!Candidates(p, d, start)
              <=> (s >= start /\ s \div C!MinutesADay = d /\ C!Matches(p, s))
  <1>1. PICK hh \in Nat \ {0}, mm \in Nat \ {0}, dd \in Nat \ {0} :
            hh = C!HoursADay /\ mm = C!MinutesAnHour /\ dd = C!MinutesADay /\ IsDay(dd, hh, mm)
    BY DaySound DEF IsDay
  <1>2. PICK hs \in SUBSET (0..(hh - 1)), ms \in SUBSET (0..(mm - 1)) :
            hs = p.sets[C!fieldHour] /\ ms = p.sets[C!fieldMinute]
    BY <1>1 DEF Hours, Minutes
  <1>3. s \in C!Candidates(p, d, start)
          <=> (s >= start /\ \E h \in hs, m \in ms : s = Moment(dd, mm, d, h, m))
    BY <1>1, <1>2 DEF C!Candidates, Moment
  <1>4. s \div dd = d => (C!Matches(p, s) <=> (s % mm \in ms /\ (s \div mm) % hh \in hs))
    BY <1>1, <1>2 DEF C!Matches, C!DayOf, DayFits
  <1>5. ASSUME NEW h \in hs, NEW m \in ms, s = Moment(dd, mm, d, h, m)
        PROVE  s \div dd = d /\ s % mm \in ms /\ (s \div mm) % hh \in hs
    <2>1. h \in 0..(hh - 1) /\ m \in 0..(mm - 1)
      OBVIOUS
    <2>2. s \div dd = d /\ (s \div mm) % hh = h /\ s % mm = m
      BY <1>1, <1>5, <2>1, MomentIs
    <2>3. QED
      BY <2>2
  <1>6. ASSUME s \div dd = d, s % mm \in ms, (s \div mm) % hh \in hs
        PROVE  \E h \in hs, m \in ms : s = Moment(dd, mm, d, h, m)
    <2>1. s = Moment(dd, mm, s \div dd, (s \div mm) % hh, s % mm)
      <3>1. IsDay(dd, hh, mm)
        BY <1>1
      <3>2. QED
        BY <3>1, hh \in Nat \ {0}, mm \in Nat \ {0}, s \in Nat, MomentSplits, Zenon
    <2>2. QED
      BY <1>6, <2>1
  <1>7. QED
    BY <1>1, <1>3, <1>4, <1>5, <1>6

LEMMA LeastIs ==
    ASSUME NEW T \in SUBSET Nat, T # {}
    PROVE  C!Min(T) \in T /\ \A k \in T : C!Min(T) <= k
  BY LeastElement DEF C!Min

(* A minute that matches is on a day that fits.                            *)
LEMMA MatchesFits ==
    ASSUME NEW p, NEW s \in Nat, C!Matches(p, s), s \div C!MinutesADay < Len(Calendar)
    PROVE  DayFits(p, s \div C!MinutesADay)
  BY DEF C!Matches, C!DayOf, DayFits

ScanDaysOf(p, t) ==
    {d \in (t + 1) \div C!MinutesADay .. (t + 1) \div C!MinutesADay + ScanDays :
        DayFits(p, d) /\ C!Candidates(p, d, t + 1) # {}}

LEMMA ScanIs ==
    ASSUME NEW p, NEW t \in Nat
    PROVE  C!NextRun(p, t) =
             IF ScanDaysOf(p, t) = {} THEN -1
             ELSE C!Min(C!Candidates(p, C!Min(ScanDaysOf(p, t)), t + 1))
  BY DEF C!NextRun, ScanDaysOf, DayFits

(* A minute that matches and that the scan reaches is a candidate of its   *)
(* day.                                                                    *)
LEMMA MatchIsScanned ==
    ASSUME NEW p, p.sets[C!fieldHour] \subseteq Hours, p.sets[C!fieldMinute] \subseteq Minutes,
           NEW t \in Nat, NEW s \in Nat, t < s, C!Matches(p, s),
           s \div C!MinutesADay < Len(Calendar),
           s \div C!MinutesADay <= (t + 1) \div C!MinutesADay + ScanDays
    PROVE  /\ s \div C!MinutesADay \in ScanDaysOf(p, t)
           /\ s \in C!Candidates(p, s \div C!MinutesADay, t + 1)
  <1>1. PICK dd \in Nat \ {0} : dd = C!MinutesADay
    BY DaySound
  <1>2. PICK d \in Nat, f \in Nat : d = s \div dd /\ f = (t + 1) \div dd
    <2>1. t + 1 \in Nat
      OBVIOUS
    <2>2. QED
      BY <2>1, DivisionIs
  <1>3. f <= d
    <2>1. t + 1 \in Nat /\ t + 1 <= s
      OBVIOUS
    <2>2. QED
      BY <1>2, <2>1, DaysFollow
  <1>4. DayFits(p, d)
    BY <1>1, <1>2, MatchesFits
  <1>5. s \in C!Candidates(p, d, t + 1)
    <2>1. t + 1 \in Nat /\ s >= t + 1
      OBVIOUS
    <2>2. QED
      BY <1>1, <1>2, <1>4, <2>1, CandidatesMatch
  <1>6. d \in f..(f + ScanDays)
    BY <1>1, <1>2, <1>3, DaySound
  <1>7. QED
    BY <1>1, <1>2, <1>4, <1>5, <1>6 DEF ScanDaysOf

(* The scan ends with the first minute after t that matches, or there is   *)
(* none on the days it looked at.                                          *)
LEMMA NextRunIs ==
    ASSUME NEW p, p.sets[C!fieldHour] \subseteq Hours, p.sets[C!fieldMinute] \subseteq Minutes,
           NEW t \in Nat, NEW n, n = C!NextRun(p, t)
    PROVE  \/ /\ n = -1
              /\ \A s \in Nat :
                    t < s /\ C!Matches(p, s) =>
                        ~(/\ s \div C!MinutesADay < Len(Calendar)
                          /\ s \div C!MinutesADay <= (t + 1) \div C!MinutesADay + ScanDays)
           \/ /\ n \in Nat /\ t < n /\ C!Matches(p, n) /\ n <= C!Horizon
              /\ \A s \in Nat : t < s /\ s < n => ~C!Matches(p, s)
  <1>1. PICK dd \in Nat \ {0} : dd = C!MinutesADay
    BY DaySound
  <1>2. PICK f \in Nat : f = (t + 1) \div dd
    <2>1. t + 1 \in Nat
      OBVIOUS
    <2>2. QED
      BY <2>1, DivisionIs
  <1>3. PICK days : days = ScanDaysOf(p, t)
    OBVIOUS
  <1>4. CASE days = {}
    <2>1. n = -1
      BY <1>3, <1>4, ScanIs
    <2>2. QED
      BY <1>3, <1>4, <2>1, MatchIsScanned
  <1>5. CASE days # {}
    <2>1. days \in SUBSET Nat
      <3>1. f \in Nat /\ ScanDays \in Nat
        BY DaySound
      <3>2. f..(f + ScanDays) \subseteq Nat
        BY <3>1
      <3>3. QED
        BY <1>1, <1>2, <1>3, <3>2 DEF ScanDaysOf
    <2>2. PICK d \in days : d = C!Min(days) /\ \A k \in days : d <= k
      BY <1>5, <2>1, LeastIs
    <2>3. d \in Nat /\ DayFits(p, d) /\ C!Candidates(p, d, t + 1) # {} /\ d <= f + ScanDays
          /\ d < Len(Calendar)
      <3>1. d \in f..(f + ScanDays) /\ DayFits(p, d) /\ C!Candidates(p, d, t + 1) # {}
        BY <1>1, <1>2, <1>3, <2>2 DEF ScanDaysOf
      <3>2. QED
        BY <2>1, <2>2, <3>1 DEF DayFits
    <2>4. t + 1 \in Nat
      OBVIOUS
    <2>5. C!Candidates(p, d, t + 1) \subseteq Nat
      <3>1. PICK hh \in Nat \ {0}, mm \in Nat \ {0} : hh = C!HoursADay /\ mm = C!MinutesAnHour
        BY DaySound
      <3>2. ASSUME NEW h \in 0..(hh - 1), NEW m \in 0..(mm - 1) PROVE d * dd + h * mm + m \in Nat
        <4>1. d * dd \in Nat /\ h * mm \in Nat
          BY <2>3, ProductGrows
        <4>2. QED
          BY <4>1
      <3>3. QED
        BY <1>1, <3>1, <3>2 DEF C!Candidates, Hours, Minutes
    <2>6. /\ n = C!Min(C!Candidates(p, d, t + 1))
          /\ n \in C!Candidates(p, d, t + 1)
          /\ \A k \in C!Candidates(p, d, t + 1) : n <= k
      BY <1>3, <1>5, <2>2, <2>3, <2>5, ScanIs, LeastIs
    <2>7. n \in Nat /\ n >= t + 1 /\ n \div dd = d /\ C!Matches(p, n)
      BY <1>1, <2>3, <2>4, <2>5, <2>6, CandidatesMatch
    <2>8. ASSUME NEW s \in Nat, t < s, s < n, C!Matches(p, s) PROVE FALSE
      <3>1. PICK e \in Nat : e = s \div dd
        BY DivisionIs
      <3>2. e <= d
        <4>1. s <= n
          BY <2>7, <2>8
        <4>2. QED
          BY <2>7, <3>1, <4>1, DaysFollow
      <3>3. e < Len(Calendar) /\ e <= f + ScanDays
        BY <2>3, <3>2, DaySound
      <3>4. e \in days /\ s \in C!Candidates(p, e, t + 1)
        BY <1>1, <1>2, <1>3, <2>8, <3>1, <3>3, MatchIsScanned
      <3>5. e = d
        BY <2>1, <2>2, <3>2, <3>4
      <3>6. n <= s
        BY <2>6, <3>4, <3>5
      <3>7. QED
        BY <2>7, <2>8, <3>6
    <2>9. n <= C!Horizon
      <3>1. PICK k \in Nat, c \in Nat : k = c * dd /\ c = Len(Calendar)
        <4>1. PICK c \in Nat : c = Len(Calendar)
          BY DaySound
        <4>2. c * dd \in Nat
          BY ProductGrows
        <4>3. QED
          BY <4>1, <4>2
      <3>2. n < k
        BY <2>3, <2>7, <3>1, DaysFollow
      <3>3. C!Horizon = k - 1
        BY <1>1, <3>1 DEF C!Horizon
      <3>4. QED
        BY <2>7, <3>1, <3>2, <3>3
    <2>10. QED
      BY <2>7, <2>8, <2>9
  <1>6. QED
    BY <1>4, <1>5

---------------------------------------------------------------------------
(* The preview *)

Shown(last) == {t \in from + 1 .. last : C!Matches(C!Parse(expr), t)}

(* How far the preview has looked when it has ended.                       *)
LookedAt(t) == ((t + 1) \div C!MinutesADay + ScanDays + 1) * C!MinutesADay - 1

CronInv ==
    /\ expr \in Written /\ from \in Nat /\ cursor \in Nat /\ from <= cursor
    /\ cursor = from \/ cursor <= C!Horizon
    /\ ended \in BOOLEAN
    /\ C!Validate(expr) =>
          runs = Shown(IF ended THEN C!Min({C!Horizon, LookedAt(cursor)}) ELSE cursor)

LEMMA CronInit == C!Init => CronInv
  <1> SUFFICES ASSUME C!Init PROVE CronInv
    OBVIOUS
  <1>1. /\ expr \in Written /\ from \in Nat /\ cursor = from /\ runs = {} /\ ended = FALSE
    BY CronAssumption DEF C!Init
  <1>2. from + 1 .. cursor = {}
    BY <1>1
  <1>3. Shown(cursor) = {}
    BY <1>2 DEF Shown
  <1>4. runs = Shown(cursor) /\ from <= cursor
    BY <1>1, <1>3
  <1>5. QED
    BY <1>1, <1>4, Zenon DEF CronInv

(* Whoever ends the preview at t has looked at every day of the scan.      *)
LEMMA EndShowsAll ==
    ASSUME NEW t \in Nat, NEW s \in Nat, t < s, s <= C!Min({C!Horizon, LookedAt(t)})
    PROVE  /\ s \div C!MinutesADay < Len(Calendar)
           /\ s \div C!MinutesADay <= (t + 1) \div C!MinutesADay + ScanDays
  <1>1. PICK dd \in Nat \ {0} : dd = C!MinutesADay
    BY DaySound
  <1>2. PICK f \in Nat : f = (t + 1) \div dd
    <2>1. t + 1 \in Nat
      OBVIOUS
    <2>2. QED
      BY <2>1, DivisionIs
  <1>3. PICK c \in Nat, g \in Nat : c = Len(Calendar) /\ g = f + ScanDays
    BY DaySound
  <1>4. c * dd \in Nat /\ (g + 1) * dd \in Nat
    <2>1. g + 1 \in Nat
      OBVIOUS
    <2>2. QED
      BY <2>1, ProductGrows
  <1>5. PICK x \in Nat, y \in Nat : x = c * dd /\ y = (g + 1) * dd
    BY <1>4
  <1>6. C!Horizon = x - 1 /\ LookedAt(t) = y - 1
    <2>1. f + ScanDays + 1 = g + 1
      BY <1>3
    <2>2. QED
      BY <1>1, <1>2, <1>3, <1>5, <2>1 DEF C!Horizon, LookedAt
  <1>7. \E k \in {x - 1, y - 1} : \A j \in {x - 1, y - 1} : k <= j
    BY <1>5
  <1>8. C!Min({x - 1, y - 1}) <= x - 1 /\ C!Min({x - 1, y - 1}) <= y - 1
        /\ C!Min({x - 1, y - 1}) \in {x - 1, y - 1}
    BY <1>7 DEF C!Min
  <1>9. s < x /\ s < y
    <2>1. PICK k \in Int : k = C!Min({x - 1, y - 1})
      BY <1>8
    <2>2. s <= k /\ k <= x - 1 /\ k <= y - 1
      BY <1>6, <1>8, <2>1
    <2>3. QED
      BY <2>2
  <1>10. s \div dd < c
    <2>1. s < c * dd
      BY <1>5, <1>9
    <2>2. QED
      BY <2>1, DaysFollow
  <1>11. s \div dd <= g
    <2>1. s < (g + 1) * dd
      BY <1>5, <1>9
    <2>2. QED
      BY <2>1, DaysFollow
  <1>12. QED
    BY <1>1, <1>2, <1>3, <1>10, <1>11

(* The preview never ends before the last firing it showed.                *)
LEMMA EndIsLater ==
    ASSUME NEW t \in Nat
    PROVE  /\ C!Min({C!Horizon, LookedAt(t)}) \in Int
           /\ t <= C!Horizon => t <= C!Min({C!Horizon, LookedAt(t)})
           /\ C!Min({C!Horizon, LookedAt(t)}) >= -1
  <1>1. PICK dd \in Nat \ {0} : dd = C!MinutesADay
    BY DaySound
  <1>2. PICK f \in Nat, g \in Nat, c \in Nat :
            f = (t + 1) \div dd /\ g = f + ScanDays + 1 /\ c = Len(Calendar)
    <2>1. t + 1 \in Nat /\ ScanDays \in Nat /\ Len(Calendar) \in Nat
      BY DaySound
    <2>2. PICK f \in Nat : f = (t + 1) \div dd
      BY <2>1, DivisionIs
    <2>3. f + ScanDays + 1 \in Nat
      BY <2>1
    <2>4. QED
      BY <2>1, <2>2, <2>3
  <1>3. PICK x \in Nat, y \in Nat : x = c * dd /\ y = g * dd
    BY ProductGrows
  <1>4. C!Horizon = x - 1 /\ LookedAt(t) = y - 1
    BY <1>1, <1>2, <1>3 DEF C!Horizon, LookedAt
  <1>5. t + 1 < y
    <2>1. f < g /\ t + 1 \in Nat
      BY <1>2, DaySound
    <2>2. t + 1 < g * dd
      BY <1>2, <2>1, DaysFollow
    <2>3. QED
      BY <1>3, <2>2
  <1>6. \E k \in {x - 1, y - 1} : \A j \in {x - 1, y - 1} : k <= j
    BY <1>3
  <1>7. C!Min({x - 1, y - 1}) \in {x - 1, y - 1}
    BY <1>6 DEF C!Min
  <1>8. QED
    BY <1>3, <1>4, <1>5, <1>7

LEMMA CronNext == CronInv /\ [C!Next]_(C!vars) => CronInv'
  <1> SUFFICES ASSUME CronInv, [C!Next]_(C!vars) PROVE CronInv'
    OBVIOUS
  <1>1. CASE UNCHANGED C!vars
    BY <1>1 DEF C!vars, CronInv, Shown, LookedAt
  <1>2. CASE C!Next
    <2>1. PICK p : p = C!Parse(expr)
      OBVIOUS
    <2>2. PICK t \in Nat, a \in Nat : t = cursor /\ a = from /\ a <= t
      BY DEF CronInv
    <2>3. PICK n : n = C!NextRun(p, t)
      OBVIOUS
    <2>4. /\ C!Validate(expr) /\ ended = FALSE /\ expr' = expr /\ from' = from
          /\ IF n = -1 THEN ended' = TRUE /\ cursor' = cursor /\ runs' = runs
             ELSE cursor' = n /\ runs' = runs \cup {n} /\ ended' = ended
      BY <1>2, <2>1, <2>2, <2>3 DEF C!Next, C!NextRuns, CronInv
    <2>5. expr \in Written /\ runs = {s \in a + 1 .. t : C!Matches(p, s)}
      BY <2>1, <2>2, <2>4 DEF CronInv, Shown
    <2>6. p.sets[C!fieldHour] \subseteq Hours /\ p.sets[C!fieldMinute] \subseteq Minutes
      BY <2>1, <2>4, <2>5, FieldsBounded
    <2>7. CASE n = -1
      <3>1. PICK last : last = C!Min({C!Horizon, LookedAt(t)})
        OBVIOUS
      <3>2. ASSUME NEW s \in Nat, t < s, s <= last PROVE ~C!Matches(p, s)
        <4>1. /\ s \div C!MinutesADay < Len(Calendar)
              /\ s \div C!MinutesADay <= (t + 1) \div C!MinutesADay + ScanDays
          BY <3>1, <3>2, EndShowsAll
        <4>2. C!Matches(p, s) =>
                ~(/\ s \div C!MinutesADay < Len(Calendar)
                  /\ s \div C!MinutesADay <= (t + 1) \div C!MinutesADay + ScanDays)
          <5>1. -1 \notin Nat
            OBVIOUS
          <5>2. QED
            BY <2>3, <2>6, <2>7, <3>2, <5>1, NextRunIs, Zenon
        <4>3. QED
          BY <4>1, <4>2
      <3>3. last \in Int /\ (t = a \/ t <= last) /\ (t = a => last >= -1)
        BY <2>2, <3>1, EndIsLater DEF CronInv
      <3>4. {s \in a + 1 .. last : C!Matches(p, s)} = {s \in a + 1 .. t : C!Matches(p, s)}
        <4>1. ASSUME NEW s \in a + 1 .. last, C!Matches(p, s) PROVE s \in a + 1 .. t
          <5>1. s \in Nat /\ s >= a + 1 /\ s <= last
            BY <3>3
          <5>2. ~(t < s)
            BY <3>2, <4>1, <5>1
          <5>3. QED
            BY <5>1, <5>2
        <4>2. ASSUME NEW s \in a + 1 .. t PROVE s \in a + 1 .. last
          BY <2>2, <3>3
        <4>3. QED
          BY <4>1, <4>2
      <3>5. ended' = TRUE /\ cursor' = t /\ runs' = runs /\ expr' = expr /\ from' = a
        BY <2>2, <2>4, <2>7
      <3>6. runs' = {s \in a + 1 .. last : C!Matches(p, s)}
        BY <2>5, <3>4, <3>5
      <3>7. runs' = Shown(last)'
        BY <2>1, <3>5, <3>6 DEF Shown
      <3>8. C!Min({C!Horizon, LookedAt(cursor')}) = last
        BY <3>1, <3>5
      <3>9. QED
        BY <2>2, <3>5, <3>7, <3>8, Zenon DEF CronInv
    <2>8. CASE n # -1
      <3>1. /\ n \in Nat /\ t < n /\ C!Matches(p, n) /\ n <= C!Horizon
            /\ \A s \in Nat : t < s /\ s < n => ~C!Matches(p, s)
        BY <2>3, <2>6, <2>8, NextRunIs
      <3>2. {s \in a + 1 .. n : C!Matches(p, s)} = runs \cup {n}
        <4>1. ASSUME NEW s \in a + 1 .. n, C!Matches(p, s) PROVE s \in a + 1 .. t \/ s = n
          BY <2>2, <3>1, <4>1
        <4>2. ASSUME NEW s \in a + 1 .. t PROVE s \in a + 1 .. n
          BY <2>2, <3>1
        <4>3. n \in a + 1 .. n
          BY <2>2, <3>1
        <4>4. QED
          BY <2>5, <3>1, <4>1, <4>2, <4>3
      <3>3. /\ ended' = FALSE /\ cursor' = n /\ runs' = runs \cup {n}
            /\ expr' = expr /\ from' = a
        BY <2>2, <2>4, <2>8
      <3>4. runs' = Shown(n)'
        BY <2>1, <3>2, <3>3 DEF Shown
      <3>5. a <= n /\ expr' \in Written
        BY <2>2, <2>5, <3>1, <3>3
      <3>6. QED
        BY <2>2, <3>1, <3>3, <3>4, <3>5, Zenon DEF CronInv
    <2>9. QED
      BY <2>7, <2>8
  <1>3. QED
    BY <1>1, <1>2

(* The invariant of a preview: what it shows so far is what fires.         *)
THEOREM CronInvariant == Spec => [](focus = "cron" => CronInv)
  <1>1. Init => (focus = "cron" => CronInv)
    BY CronInit DEF Init
  <1>2. (focus = "cron" => CronInv) /\ [Next]_allVars => (focus = "cron" => CronInv)'
    BY StepsOfOne, CronNext
  <1>3. QED
    BY <1>1, <1>2, PTL DEF Spec

(* cronexpr.go: the firings the form shows are the minutes that match, all *)
(* of them, and after the last one none within the days it looked at.      *)
THEOREM PreviewHolds == Spec => []PreviewIsWhatFires
  <1>1. (focus = "cron" => CronInv) => PreviewIsWhatFires
    <2>1. SUFFICES ASSUME CronInv PROVE C!PreviewIsWhatFires
      BY DEF PreviewIsWhatFires
    <2>2. QED
      BY <2>1 DEF CronInv, Shown, LookedAt, C!PreviewIsWhatFires
  <1>2. QED
    BY <1>1, CronInvariant, PTL
---------------------------------------------------------------------------
(* The command line client: rows, requests and commands *)

Final == {"success", "failed", "skipped"}
FromShell == {"sync", "run", "jobs", "runs"}
CommandPlaces == {"sync", "run", "jobs", "runs", "syncing", "running", "listing",
           "waiting", "asleep", "polling", "exited"}
Statuses == {"pending", "running", "timeout", "success", "failed", "skipped"}

QueuedRows == [mine : BOOLEAN, status : Statuses, created : Int]
ListedRows == [id : Nat, status : Statuses]
Paths == {"", "/sync", "/jobs", "/jobs/run", "/runs"}
Wires == [state : {"none", "sent", "answered"}, path : Paths, code : Nat, runID : Nat,
          runs : SUBSET ListedRows, failed : SUBSET STRING]
Saws == {"", "deadline"} \cup X!terminal
Processes == [cmd : Commands, pc : CommandPlaces, runID : Nat, deadline : Int, exit : Nat,
              saw : Saws]

(* A run of the project of the key, in the queue q.                        *)
Queued(q, r) == r \in 1..Len(q) /\ q[r].mine

(* A row listed is a row of the project, which stays what it was then once *)
(* it is final.                                                            *)
ListedTruly(q, x) == Queued(q, x.id) /\ (x.status \in Final => q[x.id].status = x.status)

(* What an answer w says has happened at the server, whose queue is q.     *)
AnswerTrue(q, w) ==
    /\ w.state # "answered" => w.failed = {}
    /\ (w.state = "answered" /\ w.code < 400 /\ w.path = "/sync")
         => (w.code = 207 <=> w.failed # {})
    /\ (w.state = "answered" /\ w.code < 400 /\ w.path = "/jobs/run") => Queued(q, w.runID)
    /\ \A x \in w.runs : ListedTruly(q, x)

(* What an exit code says: ExitCodeTruthful, with the run that ended badly *)
(* as it was seen.                                                         *)
ExitTrue(q, w, p) ==
    /\ p.exit = X!exitOK =>
         /\ p.cmd.kind = "run" => Queued(q, p.runID)
         /\ (p.cmd.kind = "run" /\ p.cmd.wait) => q[p.runID].status = "success"
         /\ p.cmd.kind = "sync" => 
              /\ w.failed = {}
              /\ IF p.cmd.dryRun THEN w.state = "none" ELSE w.state = "answered"
    /\ p.exit = X!exitUsage => w.state = "none"
    /\ p.exit = X!exitPartial => (p.cmd.kind = "sync" /\ w.failed # {})
    /\ p.exit = X!exitRunBad =>
         /\ Queued(q, p.runID) /\ p.cmd.wait
         /\ \/ p.saw \in {"deadline", "timeout"}
            \/ p.saw \in {"failed", "skipped"} /\ q[p.runID].status = p.saw

(* Where a command is, and what it has asked of the server by then.        *)
PlaceTrue(q, w, p) ==
    /\ p.pc \in FromShell => (w.state = "none" /\ p.cmd.kind = p.pc)
    /\ p.pc = "syncing" => (p.cmd.kind = "sync" /\ ~p.cmd.dryRun /\ w.path = "/sync")
    /\ p.pc = "running" => (p.cmd.kind = "run" /\ w.path = "/jobs/run")
    /\ p.pc = "listing" => p.cmd.kind \in {"jobs", "runs"}
    /\ p.pc \in {"waiting", "asleep", "polling"} =>
         (p.cmd.kind = "run" /\ p.cmd.wait /\ Queued(q, p.runID))
    /\ p.pc # "exited" => p.exit = X!exitOK
    /\ p.pc = "exited" => ExitTrue(q, w, p)

ClientTrue(q, w, p) ==
    /\ AnswerTrue(q, w)
    /\ p = X!Shell => w.state = "none"
    /\ p # X!Shell => (p \in Processes /\ p.pc # "shell" /\ PlaceTrue(q, w, p))

CtlInv ==
    /\ clock \in Int /\ queue \in Seq(QueuedRows)
    /\ wire \in [Pipelines -> Wires] /\ proc \in [Pipelines -> {X!Shell} \cup Processes]
    /\ \A c \in Pipelines : ClientTrue(queue, wire[c], proc[c])

---------------------------------------------------------------------------
(* What the queue may do to a client, and a client to the rest *)

(* Rows stay, and stay final.                                              *)
Later(q, z) ==
    \A r \in 1..Len(q) :
        /\ r \in 1..Len(z) /\ z[r].mine = q[r].mine
        /\ q[r].status \in Final => z[r].status = q[r].status

LEMMA QueuedLater ==
    ASSUME NEW q, NEW z, Later(q, z), NEW r, Queued(q, r)
    PROVE  /\ Queued(z, r)
           /\ q[r].status \in Final => z[r].status = q[r].status
  BY DEF Later, Queued

LEMMA AnswerLater ==
    ASSUME NEW q, NEW z, Later(q, z), NEW w, AnswerTrue(q, w)
    PROVE  AnswerTrue(z, w)
  <1>1. ASSUME NEW x \in w.runs PROVE ListedTruly(z, x)
    <2>1. ListedTruly(q, x)
      BY <1>1 DEF AnswerTrue
    <2>2. Queued(z, x.id) /\ (q[x.id].status \in Final => z[x.id].status = q[x.id].status)
      BY <2>1, QueuedLater DEF ListedTruly
    <2>3. QED
      BY <2>1, <2>2 DEF ListedTruly
  <1>2. (w.state = "answered" /\ w.code < 400 /\ w.path = "/jobs/run") => Queued(z, w.runID)
    BY QueuedLater DEF AnswerTrue
  <1>3. QED
    BY <1>1, <1>2 DEF AnswerTrue

LEMMA PlaceLater ==
    ASSUME NEW q, NEW z, Later(q, z), NEW w, NEW p, PlaceTrue(q, w, p)
    PROVE  PlaceTrue(z, w, p)
  <1>1. Queued(q, p.runID) =>
          (Queued(z, p.runID)
           /\ (q[p.runID].status \in Final => z[p.runID].status = q[p.runID].status))
    BY QueuedLater
  <1>2. ExitTrue(q, w, p) => ExitTrue(z, w, p)
    BY <1>1 DEF ExitTrue, Final, X!exitOK, X!exitRunBad
  <1>3. QED
    BY <1>1, <1>2 DEF PlaceTrue

LEMMA ClientLater ==
    ASSUME NEW q, NEW z, Later(q, z), NEW w, NEW p, ClientTrue(q, w, p)
    PROVE  ClientTrue(z, w, p)
  BY AnswerLater, PlaceLater DEF ClientTrue

(* A step of the server or the clock, which the clients do not see.        *)
LEMMA OthersStep ==
    ASSUME CtlInv, clock' \in Int, queue' \in Seq(QueuedRows), Later(queue, queue'),
           wire' = wire, proc' = proc
    PROVE  CtlInv'
  <1>1. PICK q \in Seq(QueuedRows) : q = queue'
    OBVIOUS
  <1>2. \A c \in Pipelines : ClientTrue(q, wire[c], proc[c])
    BY <1>1, ClientLater DEF CtlInv
  <1>3. QED
    BY <1>1, <1>2 DEF CtlInv

(* A step of one client, or of the server for it.                          *)
LEMMA ClientStep ==
    ASSUME CtlInv, NEW c \in Pipelines, NEW w \in Wires, NEW p \in {X!Shell} \cup Processes,
           wire' = [wire EXCEPT ![c] = w], proc' = [proc EXCEPT ![c] = p], clock' = clock,
           queue' \in Seq(QueuedRows), Later(queue, queue'), ClientTrue(queue', w, p)
    PROVE  CtlInv'
  <1>1. PICK q \in Seq(QueuedRows) : q = queue'
    OBVIOUS
  <1>2. \A d \in Pipelines : ClientTrue(q, wire[d], proc[d])
    BY <1>1, ClientLater DEF CtlInv
  <1>3. /\ wire' \in [Pipelines -> Wires] /\ proc' \in [Pipelines -> {X!Shell} \cup Processes]
        /\ wire'[c] = w /\ proc'[c] = p
        /\ \A d \in Pipelines : d # c => (wire'[d] = wire[d] /\ proc'[d] = proc[d])
    BY DEF CtlInv
  <1>4. ASSUME NEW d \in Pipelines PROVE ClientTrue(q, wire'[d], proc'[d])
    BY <1>1, <1>2, <1>3
  <1>5. clock' \in Int
    BY DEF CtlInv
  <1>6. QED
    BY <1>1, <1>3, <1>4, <1>5 DEF CtlInv

(* The queue is the same, or longer by a row.                              *)
LEMMA QueueStays ==
    ASSUME NEW q
    PROVE  Later(q, q)
  BY DEF Later

LEMMA QueueLonger ==
    ASSUME NEW q \in Seq(QueuedRows), NEW x \in QueuedRows
    PROVE  /\ Append(q, x) \in Seq(QueuedRows) /\ Later(q, Append(q, x))
           /\ Len(Append(q, x)) = Len(q) + 1 /\ Append(q, x)[Len(q) + 1] = x
  BY DEF Later

LEMMA CtlInit == X!Init => CtlInv
  <1> SUFFICES ASSUME X!Init PROVE CtlInv
    OBVIOUS
  <1>1. X!Silent \in Wires
    BY DEF X!Silent, Wires, Paths
  <1>2. ClientTrue(queue, X!Silent, X!Shell)
    BY DEF ClientTrue, AnswerTrue, X!Silent
  <1>3. /\ clock \in Int /\ queue \in Seq(QueuedRows)
        /\ wire \in [Pipelines -> Wires] /\ proc \in [Pipelines -> {X!Shell} \cup Processes]
    BY <1>1 DEF X!Init
  <1>4. ASSUME NEW c \in Pipelines PROVE ClientTrue(queue, wire[c], proc[c])
    BY <1>2 DEF X!Init
  <1>5. QED
    BY <1>3, <1>4 DEF CtlInv

---------------------------------------------------------------------------
(* What a step makes of a process and of its request *)

(* What changing fields of a process and of a request leaves.              *)
Exited(o, code, s) == [o EXCEPT !.pc = "exited", !.exit = code, !.saw = s]

LEMMA ProcessMoves ==
    ASSUME NEW o \in Processes, NEW pc \in CommandPlaces, NEW x, x = [o EXCEPT !.pc = pc]
    PROVE  /\ x \in Processes /\ x.pc = pc /\ x.cmd = o.cmd
           /\ x.runID = o.runID /\ x.exit = o.exit
  BY DEF Processes

LEMMA ProcessExits ==
    ASSUME NEW o \in Processes, NEW code \in Nat, NEW s \in Saws,
           NEW x, x = Exited(o, code, s)
    PROVE  /\ x \in Processes /\ x.pc = "exited" /\ x.cmd = o.cmd
           /\ x.runID = o.runID /\ x.exit = code /\ x.saw = s
  <1>1. x \in Processes
    <2>1. "exited" \in CommandPlaces
      BY DEF CommandPlaces
    <2>2. QED
      BY <2>1 DEF Processes, Exited
  <1>2. x.pc = "exited" /\ x.exit = code /\ x.saw = s
    BY DEF Processes, Exited
  <1>3. x.cmd = o.cmd /\ x.runID = o.runID
    BY DEF Processes, Exited
  <1>4. QED
    BY <1>1, <1>2, <1>3

LEMMA ClientOf ==
    ASSUME CtlInv, NEW c \in Pipelines
    PROVE  /\ wire[c] \in Wires /\ proc[c] \in {X!Shell} \cup Processes
           /\ queue \in Seq(QueuedRows) /\ clock \in Int /\ Later(queue, queue)
           /\ ClientTrue(queue, wire[c], proc[c]) /\ AnswerTrue(queue, wire[c])
           /\ proc[c].pc = "shell" => wire[c].state = "none"
           /\ proc[c].pc # "shell" => (proc[c] \in Processes /\ PlaceTrue(queue, wire[c], proc[c]))
           /\ wire = [wire EXCEPT ![c] = wire[c]] /\ proc = [proc EXCEPT ![c] = proc[c]]
  <1>1. X!Shell.pc = "shell"
    BY DEF X!Shell
  <1>2. /\ wire[c] \in Wires /\ proc[c] \in {X!Shell} \cup Processes
        /\ ClientTrue(queue, wire[c], proc[c])
    BY DEF CtlInv
  <1>3. wire = [wire EXCEPT ![c] = wire[c]] /\ proc = [proc EXCEPT ![c] = proc[c]]
    BY DEF CtlInv
  <1>4. queue \in Seq(QueuedRows) /\ clock \in Int /\ Later(queue, queue)
    BY QueueStays DEF CtlInv
  <1>5. QED
    BY <1>1, <1>2, <1>3, <1>4 DEF ClientTrue

(* The command ends with an exit code, which is true whatever else it held.*)
MayExit(c, w, code, s) ==
    \A p \in Processes :
        (p.cmd = proc[c].cmd /\ p.runID = proc[c].runID /\ p.exit = code /\ p.saw = s)
          => ExitTrue(queue, w, p)

LEMMA ClientExits ==
    ASSUME CtlInv, NEW c \in Pipelines, proc[c].pc # "shell",
           NEW w \in Wires, AnswerTrue(queue, w), wire' = [wire EXCEPT ![c] = w],
           NEW code \in Nat, NEW s \in Saws, X!Exit(c, code, s),
           queue' = queue, clock' = clock, MayExit(c, w, code, s)
    PROVE  CtlInv'
  <1>1. PICK p \in Processes :
            /\ proc' = [proc EXCEPT ![c] = p] /\ p.pc = "exited"
            /\ p.cmd = proc[c].cmd /\ p.runID = proc[c].runID /\ p.exit = code /\ p.saw = s
    <2>1. PICK o \in Processes : o = proc[c]
      BY ClientOf
    <2>2. PICK x : x = Exited(o, code, s)
      OBVIOUS
    <2>3. /\ x \in Processes /\ x.pc = "exited" /\ x.cmd = o.cmd /\ x.runID = o.runID
          /\ x.exit = code /\ x.saw = s
      BY <2>1, <2>2, ProcessExits
    <2>4. proc' = [proc EXCEPT ![c] = x]
      BY <2>1, <2>2 DEF X!Exit, CtlInv, Exited
    <2>5. QED
      BY <2>1, <2>3, <2>4
  <1>2. ExitTrue(queue, w, p)
    BY <1>1 DEF MayExit
  <1>3. PlaceTrue(queue, w, p)
    BY <1>1, <1>2 DEF PlaceTrue, FromShell
  <1>4. p # X!Shell
    <2>1. X!Shell.pc = "shell"
      BY DEF X!Shell
    <2>2. QED
      BY <1>1, <2>1
  <1>5. ClientTrue(queue', w, p)
    BY <1>1, <1>3, <1>4 DEF ClientTrue
  <1>6. queue' \in Seq(QueuedRows) /\ Later(queue, queue')
    BY ClientOf
  <1>7. QED
    BY <1>1, <1>5, <1>6, ClientStep

(* The command goes on to another place, where it knows a run or not.      *)
LEMMA ClientMoves ==
    ASSUME CtlInv, NEW c \in Pipelines, proc[c].pc # "shell",
           NEW w \in Wires, AnswerTrue(queue, w), wire' = [wire EXCEPT ![c] = w],
           NEW p \in Processes, proc' = [proc EXCEPT ![c] = p], p.pc # "shell",
           queue' = queue, clock' = clock, PlaceTrue(queue, w, p)
    PROVE  CtlInv'
  <1>1. p # X!Shell
    BY DEF X!Shell
  <1>2. ClientTrue(queue', w, p)
    BY <1>1 DEF ClientTrue
  <1>3. queue' \in Seq(QueuedRows) /\ Later(queue, queue')
    BY ClientOf
  <1>4. QED
    BY <1>2, <1>3, ClientStep

(* A request goes out.                                                     *)
LEMMA CallGoesOut ==
    ASSUME CtlInv, NEW c \in Pipelines, proc[c].pc # "shell", NEW path \in Paths,
           NEW pc \in {"syncing", "running", "listing", "polling"}, X!call(c, path, pc),
           queue' = queue, clock' = clock,
           \A w \in Wires, p \in Processes :
               (w.path = path /\ p.pc = pc /\ p.cmd = proc[c].cmd /\ p.runID = proc[c].runID
                /\ p.exit = proc[c].exit) => PlaceTrue(queue, w, p)
    PROVE  CtlInv'
  <1>1. PICK w \in Wires : /\ wire' = [wire EXCEPT ![c] = w]
                           /\ w.state = "sent" /\ w.path = path /\ w.failed = {} /\ w.runs = {}
    <2>1. PICK x : x = [X!Silent EXCEPT !.state = "sent", !.path = path]
      OBVIOUS
    <2>2. x \in Wires /\ x.state = "sent" /\ x.path = path /\ x.failed = {} /\ x.runs = {}
      BY <2>1 DEF X!Silent, Wires, Paths
    <2>3. QED
      BY <2>1, <2>2 DEF X!call
  <1>2. AnswerTrue(queue, w)
    BY <1>1 DEF AnswerTrue
  <1>3. PICK o \in Processes : o = proc[c]
    BY ClientOf
  <1>4. PICK p \in Processes : /\ proc' = [proc EXCEPT ![c] = p] /\ p.pc = pc /\ p.cmd = o.cmd
                               /\ p.runID = o.runID /\ p.exit = o.exit
    <2>1. PICK x : x = [o EXCEPT !.pc = pc]
      OBVIOUS
    <2>2. x \in Processes /\ x.pc = pc /\ x.cmd = o.cmd /\ x.runID = o.runID /\ x.exit = o.exit
      BY <2>1, ProcessMoves DEF CommandPlaces
    <2>3. proc' = [proc EXCEPT ![c] = x]
      BY <1>3, <2>1 DEF X!call
    <2>4. QED
      BY <2>2, <2>3
  <1>5. PlaceTrue(queue, w, p)
    BY <1>1, <1>3, <1>4
  <1>6. QED
    BY <1>1, <1>2, <1>4, <1>5, ClientMoves

(* The server answers, perhaps with a run more in its queue.               *)
LEMMA ServerAnswers ==
    ASSUME CtlInv, NEW c \in Pipelines, wire[c].state = "sent",
           NEW w \in Wires, wire' = [wire EXCEPT ![c] = w], w.path = wire[c].path,
           w.state = "answered", queue' \in Seq(QueuedRows), Later(queue, queue'),
           AnswerTrue(queue', w), proc' = proc, clock' = clock
    PROVE  CtlInv'
  <1>1. PICK q \in Seq(QueuedRows), p \in {X!Shell} \cup Processes : q = queue' /\ p = proc[c]
    BY ClientOf
  <1>2. ClientTrue(q, wire[c], p)
    BY <1>1, ClientOf, ClientLater
  <1>3. wire[c].failed = {}
    BY ClientOf DEF AnswerTrue
  <1>4. PlaceTrue(q, wire[c], p) => PlaceTrue(q, w, p)
    <2>1. ExitTrue(q, wire[c], p) => ExitTrue(q, w, p)
      BY <1>3 DEF ExitTrue
    <2>2. QED
      BY <2>1 DEF PlaceTrue
  <1>5. ClientTrue(q, w, p)
    BY <1>1, <1>2, <1>4 DEF ClientTrue
  <1>6. proc' = [proc EXCEPT ![c] = p] /\ p \in {X!Shell} \cup Processes
    BY <1>1, ClientOf
  <1>7. QED
    BY <1>1, <1>5, <1>6, ClientStep

---------------------------------------------------------------------------
(* The actions of the client *)

LEMMA NothingSeen == "" \in Saws
  BY DEF Saws

LEMMA ExitCodes ==
    /\ X!exitOK = 0 /\ X!exitError = 1 /\ X!exitUsage = 2 /\ X!exitPartial = 3
    /\ X!exitRunBad = 4
  BY DEF X!exitOK, X!exitError, X!exitUsage, X!exitPartial, X!exitRunBad

LEMMA CommandIs ==
    ASSUME NEW cmd \in Commands
    PROVE  /\ cmd.flags \in BOOLEAN /\ cmd.credentials \in BOOLEAN /\ cmd.code \in BOOLEAN
           /\ cmd.wait \in BOOLEAN /\ cmd.dryRun \in BOOLEAN /\ cmd.timeout \in Int
           /\ cmd.declares \in SUBSET STRING
  BY CtlAssumption DEF CommandLines

LEMMA ShellStep ==
    ASSUME CtlInv, NEW c \in Pipelines, X!run(c)
    PROVE  CtlInv'
  <1>1. PICK cmd \in Commands :
            proc' = [proc EXCEPT ![c] =
                       IF cmd.kind \in {"sync", "jobs", "run", "runs"}
                       THEN X!Process(cmd, cmd.kind, X!exitOK)
                       ELSE X!Process(cmd, "exited",
                                IF cmd.kind = "help" THEN X!exitOK ELSE X!exitUsage)]
    BY DEF X!run
  <1>2. /\ wire[c].state = "none" /\ AnswerTrue(queue, wire[c]) /\ wire[c] \in Wires
        /\ proc[c].pc = "shell" /\ UNCHANGED <<queue, wire, clock>>
    BY ClientOf DEF X!run, X!At
  <1>3. PICK p : /\ proc' = [proc EXCEPT ![c] = p]
                 /\ p = IF cmd.kind \in {"sync", "jobs", "run", "runs"}
                        THEN X!Process(cmd, cmd.kind, X!exitOK)
                        ELSE X!Process(cmd, "exited",
                                 IF cmd.kind = "help" THEN X!exitOK ELSE X!exitUsage)
    BY <1>1
  <1>4. p \in Processes /\ p.pc # "shell" /\ PlaceTrue(queue, wire[c], p)
    <2>1. ASSUME NEW pc \in CommandPlaces, NEW code \in Nat
          PROVE  /\ X!Process(cmd, pc, code) \in Processes
                 /\ X!Process(cmd, pc, code).pc = pc /\ X!Process(cmd, pc, code).exit = code
                 /\ X!Process(cmd, pc, code).cmd = cmd
      <3>1. "" \in Saws
        BY NothingSeen
      <3>2. 0 \in Nat /\ 0 \in Int
        OBVIOUS
      <3>3. QED
        BY <3>1, <3>2, Zenon DEF X!Process, Processes
    <2>2. CASE cmd.kind \in {"sync", "jobs", "run", "runs"}
      <3>1. cmd.kind \in CommandPlaces
        BY <2>2 DEF CommandPlaces
      <3>2. /\ p \in Processes /\ p.pc = cmd.kind /\ p.exit = X!exitOK /\ p.cmd = cmd
        BY <1>3, <2>1, <2>2, <3>1, ExitCodes
      <3>3. QED
        BY <1>2, <2>2, <3>2 DEF PlaceTrue
    <2>3. CASE cmd.kind \notin {"sync", "jobs", "run", "runs"}
      <3>1. "exited" \in CommandPlaces
        BY DEF CommandPlaces
      <3>2. PICK code \in Nat : /\ code \in {X!exitOK, X!exitUsage}
                                /\ p = X!Process(cmd, "exited", code)
        BY <1>3, <2>3, ExitCodes
      <3>3. p \in Processes /\ p.pc = "exited" /\ p.exit = code /\ p.cmd = cmd
        BY <2>1, <3>1, <3>2
      <3>4. ExitTrue(queue, wire[c], p)
        BY <1>2, <2>3, <3>2, <3>3, ExitCodes DEF ExitTrue
      <3>5. QED
        BY <3>3, <3>4 DEF PlaceTrue, FromShell
    <2>4. QED
      BY <2>2, <2>3
  <1>5. /\ wire' = [wire EXCEPT ![c] = wire[c]] /\ queue' = queue /\ clock' = clock
    BY <1>2, ClientOf
  <1>6. p # X!Shell
    <2>1. X!Shell.pc = "shell"
      BY DEF X!Shell
    <2>2. QED
      BY <1>4, <2>1
  <1>7. ClientTrue(queue', wire[c], p)
    BY <1>2, <1>4, <1>5, <1>6 DEF ClientTrue
  <1>8. queue' \in Seq(QueuedRows) /\ Later(queue, queue')
    BY <1>5, ClientOf
  <1>9. QED
    BY <1>2, <1>3, <1>4, <1>5, <1>7, <1>8, ClientStep

(* A command that ends before it has asked for anything.                   *)
LEMMA ExitsUnasked ==
    ASSUME CtlInv, NEW c \in Pipelines, proc[c].pc \in FromShell,
           NEW code \in {X!exitOK, X!exitUsage}, NEW s \in Saws, X!Exit(c, code, s),
           UNCHANGED <<queue, wire, clock>>,
           code = X!exitOK => (proc[c].pc = "sync" /\ proc[c].cmd.dryRun)
    PROVE  CtlInv'
  <1>1. proc[c].pc # "shell"
    BY DEF FromShell
  <1>2. PICK w \in Wires : w = wire[c] /\ w.state = "none" /\ w.failed = {}
    BY <1>1, ClientOf DEF PlaceTrue, AnswerTrue
  <1>3. AnswerTrue(queue, w) /\ wire' = [wire EXCEPT ![c] = w]
    BY <1>2, ClientOf
  <1>4. proc[c].cmd.kind = proc[c].pc
    BY <1>1, ClientOf DEF PlaceTrue
  <1>5. code \in Nat
    BY ExitCodes
  <1>6. ASSUME NEW p \in Processes, p.cmd = proc[c].cmd, p.exit = code
        PROVE  ExitTrue(queue, w, p)
    <2>1. CASE code = X!exitUsage
      BY <1>2, <1>6, <2>1, ExitCodes DEF ExitTrue
    <2>2. CASE code = X!exitOK
      <3>1. p.cmd.kind = "sync" /\ p.cmd.dryRun
        BY <1>4, <1>6, <2>2
      <3>2. QED
        BY <1>2, <1>6, <2>2, <3>1, ExitCodes DEF ExitTrue
    <2>3. QED
      BY <2>1, <2>2
  <1>7. MayExit(c, w, code, s)
    BY <1>6 DEF MayExit
  <1>8. QED
    BY <1>1, <1>3, <1>5, <1>7, ClientExits

LEMMA SyncStarts ==
    ASSUME CtlInv, NEW c \in Pipelines, X!cmdSync(c)
    PROVE  CtlInv'
  <1>1. PICK cmd \in Commands : cmd = proc[c].cmd
    <2>1. proc[c].pc # "shell"
      BY DEF X!cmdSync, X!At
    <2>2. proc[c] \in Processes
      BY <2>1, ClientOf
    <2>3. QED
      BY <2>2 DEF Processes
  <1>2. proc[c].pc = "sync" /\ queue' = queue /\ clock' = clock
    BY DEF X!cmdSync, X!At
  <1>3. /\ proc[c].pc \in FromShell /\ proc[c].pc # "shell" /\ cmd.kind = "sync"
    BY <1>1, <1>2, ClientOf DEF PlaceTrue, FromShell
  <1>4. PICK s \in Saws :
            \/ X!Exit(c, X!exitUsage, s) /\ wire' = wire
            \/ X!Exit(c, X!exitOK, s) /\ wire' = wire /\ cmd.dryRun
            \/ X!call(c, "/sync", "syncing") /\ ~cmd.dryRun
    <2>1. cmd.flags \in BOOLEAN /\ cmd.dryRun \in BOOLEAN
      BY CommandIs
    <2>2. QED
      BY <1>1, <2>1, NothingSeen, Zenon DEF X!cmdSync, X!Cmd
  <1>5. CASE X!Exit(c, X!exitUsage, s) /\ wire' = wire
    <2>1. X!exitUsage # X!exitOK
      BY ExitCodes
    <2>2. QED
      BY <1>2, <1>3, <1>5, <2>1, ExitsUnasked, Zenon
  <1>6. CASE X!Exit(c, X!exitOK, s) /\ wire' = wire /\ cmd.dryRun
    BY <1>1, <1>2, <1>3, <1>6, ExitsUnasked, ExitCodes
  <1>7. CASE X!call(c, "/sync", "syncing") /\ ~cmd.dryRun
    <2>1. proc[c].exit = X!exitOK
      BY <1>2, ClientOf DEF PlaceTrue
    <2>2. ASSUME NEW w \in Wires, NEW p \in Processes, w.path = "/sync", p.pc = "syncing",
                 p.cmd = proc[c].cmd, p.exit = proc[c].exit
          PROVE  PlaceTrue(queue, w, p)
      BY <1>1, <1>3, <1>7, <2>1, <2>2 DEF PlaceTrue, FromShell
    <2>3. "/sync" \in Paths
      BY DEF Paths
    <2>4. QED
      BY <1>2, <1>3, <1>7, <2>2, <2>3, CallGoesOut
  <1>8. QED
    BY <1>4, <1>5, <1>6, <1>7

(* A run is asked for, or a list of jobs or of runs.                       *)
LEMMA AskStarts ==
    ASSUME CtlInv, NEW c \in Pipelines, NEW path \in Paths, NEW pc \in {"running", "listing"},
           \/ proc[c].pc = "run" /\ pc = "running" /\ path = "/jobs/run"
           \/ proc[c].pc \in {"jobs", "runs"} /\ pc = "listing",
           NEW s \in Saws,
           X!call(c, path, pc) \/ (X!Exit(c, X!exitUsage, s) /\ wire' = wire),
           queue' = queue, clock' = clock
    PROVE  CtlInv'
  <1>1. proc[c].pc \in FromShell /\ proc[c].pc # "shell" /\ proc[c].pc # "sync"
    BY DEF FromShell
  <1>2. CASE X!Exit(c, X!exitUsage, s) /\ wire' = wire
    <2>1. X!exitUsage # X!exitOK
      BY ExitCodes
    <2>2. QED
      BY <1>1, <1>2, <2>1, ExitsUnasked, Zenon
  <1>3. CASE X!call(c, path, pc)
    <2>1. proc[c].exit = X!exitOK /\ proc[c].cmd.kind = proc[c].pc
      BY <1>1, ClientOf DEF PlaceTrue, FromShell
    <2>2. ASSUME NEW w \in Wires, NEW p \in Processes, w.path = path, p.pc = pc,
                 p.cmd = proc[c].cmd, p.exit = proc[c].exit
          PROVE  PlaceTrue(queue, w, p)
      BY <2>1, <2>2 DEF PlaceTrue, FromShell
    <2>3. QED
      BY <1>1, <1>3, <2>2, CallGoesOut
  <1>4. QED
    BY <1>2, <1>3

LEMMA RunStarts ==
    ASSUME CtlInv, NEW c \in Pipelines, X!cmdRun(c)
    PROVE  CtlInv'
  <1>1. /\ X!call(c, "/jobs/run", "running") \/ (X!Exit(c, X!exitUsage, "") /\ wire' = wire)
        /\ proc[c].pc = "run" /\ queue' = queue /\ clock' = clock
    BY Zenon DEF X!cmdRun, X!At
  <1>2. "/jobs/run" \in Paths
    BY DEF Paths
  <1>3. QED
    BY <1>1, <1>2, NothingSeen, AskStarts, Zenon

LEMMA ListStarts ==
    ASSUME CtlInv, NEW c \in Pipelines, X!cmdJobs(c) \/ X!cmdRuns(c)
    PROVE  CtlInv'
  <1>1. PICK path \in {"/jobs", "/runs"} :
            /\ X!call(c, path, "listing") \/ (X!Exit(c, X!exitUsage, "") /\ wire' = wire)
            /\ proc[c].pc \in {"jobs", "runs"} /\ queue' = queue /\ clock' = clock
    <2>1. CASE X!cmdJobs(c)
      BY <2>1, Zenon DEF X!cmdJobs, X!At
    <2>2. CASE X!cmdRuns(c)
      BY <2>2, Zenon DEF X!cmdRuns, X!At
    <2>3. QED
      BY <2>1, <2>2
  <1>2. path \in Paths
    BY Zenon DEF Paths
  <1>3. QED
    BY <1>1, <1>2, NothingSeen, AskStarts, Zenon

(* What an answer lets the client conclude.                                *)
LEMMA SyncEnds ==
    ASSUME CtlInv, NEW c \in Pipelines, X!SyncAnswered(c)
    PROVE  CtlInv'
  <1>1. PICK w \in Wires : w = wire[c] /\ w.state = "answered"
    BY ClientOf DEF X!SyncAnswered, X!Answered
  <1>2. proc[c].pc = "syncing" /\ queue' = queue /\ clock' = clock /\ wire' = wire
    BY DEF X!SyncAnswered, X!Answered, X!At
  <1>3. /\ proc[c].cmd.kind = "sync" /\ ~proc[c].cmd.dryRun /\ w.path = "/sync"
        /\ AnswerTrue(queue, w) /\ wire' = [wire EXCEPT ![c] = w] /\ proc[c].pc # "shell"
    BY <1>1, <1>2, ClientOf DEF PlaceTrue
  <1>4. PICK code \in Nat : /\ code = IF w.code >= 400 THEN X!exitError
                                      ELSE X!codeForSync(w.code)
                            /\ X!Exit(c, code, "")
    <2>1. X!codeForSync(w.code) \in Nat /\ X!exitError \in Nat
      BY ExitCodes DEF X!codeForSync
    <2>2. QED
      BY <1>1, <2>1, Zenon DEF X!SyncAnswered, X!Refused
  <1>5. PICK s \in Saws : X!Exit(c, code, s)
    BY <1>4, NothingSeen, Zenon
  <1>6. \/ code = X!exitError
        \/ code = X!exitOK /\ w.failed = {}
        \/ code = X!exitPartial /\ w.failed # {}
    <2>1. w.code \in Nat
      BY DEF Wires
    <2>2. w.code < 400 => (w.code = 207 <=> w.failed # {})
      BY <1>1, <1>3 DEF AnswerTrue
    <2>3. code = IF w.code >= 400 THEN X!exitError ELSE X!codeForSync(w.code)
      BY <1>4, Zenon
    <2>4. QED
      BY <2>1, <2>2, <2>3 DEF X!codeForSync
  <1>7. ASSUME NEW p \in Processes, p.cmd = proc[c].cmd, p.exit = code
        PROVE  ExitTrue(queue, w, p)
    BY <1>1, <1>3, <1>6, <1>7, ExitCodes DEF ExitTrue
  <1>8. MayExit(c, w, code, s)
    BY <1>7 DEF MayExit
  <1>9. QED
    BY <1>2, <1>3, <1>5, <1>8, ClientExits

LEMMA ListEnds ==
    ASSUME CtlInv, NEW c \in Pipelines, X!ListAnswered(c)
    PROVE  CtlInv'
  <1>1. PICK w \in Wires : w = wire[c]
    BY ClientOf
  <1>2. proc[c].pc = "listing" /\ queue' = queue /\ clock' = clock /\ wire' = wire
    BY DEF X!ListAnswered, X!Answered, X!At
  <1>3. /\ proc[c].cmd.kind \in {"jobs", "runs"}
        /\ AnswerTrue(queue, w) /\ wire' = [wire EXCEPT ![c] = w] /\ proc[c].pc # "shell"
    BY <1>1, <1>2, ClientOf DEF PlaceTrue
  <1>4. PICK s \in Saws, code \in {X!exitOK, X!exitError} : X!Exit(c, code, s)
    BY NothingSeen, Zenon DEF X!ListAnswered
  <1>5. code \in Nat
    BY ExitCodes
  <1>6. ASSUME NEW p \in Processes, p.cmd = proc[c].cmd, p.exit = code
        PROVE  ExitTrue(queue, w, p)
    BY <1>3, <1>6, ExitCodes DEF ExitTrue
  <1>7. MayExit(c, w, code, s)
    BY <1>6 DEF MayExit
  <1>8. QED
    BY <1>2, <1>3, <1>4, <1>5, <1>7, ClientExits

LEMMA RunEnds ==
    ASSUME CtlInv, NEW c \in Pipelines, X!RunAnswered(c)
    PROVE  CtlInv'
  <1>1. PICK w \in Wires, o \in Processes : w = wire[c] /\ o = proc[c] /\ w.state = "answered"
    <2>1. proc[c].pc # "shell" /\ wire[c].state = "answered"
      BY DEF X!RunAnswered, X!Answered, X!At
    <2>2. QED
      BY <2>1, ClientOf
  <1>2. o.pc = "running" /\ queue' = queue /\ clock' = clock /\ wire' = wire
    BY <1>1 DEF X!RunAnswered, X!Answered, X!At
  <1>3. /\ o.cmd.kind = "run" /\ w.path = "/jobs/run" /\ o.exit = X!exitOK
        /\ AnswerTrue(queue, w) /\ wire' = [wire EXCEPT ![c] = w] /\ proc[c].pc # "shell"
    BY <1>1, <1>2, ClientOf DEF PlaceTrue
  <1>4. w.code >= 400 \/ Queued(queue, w.runID)
    BY <1>1, <1>3 DEF AnswerTrue, Wires
  <1>5. \/ w.code >= 400 /\ X!Exit(c, X!exitError, "")
        \/ /\ ~(w.code >= 400) /\ ~o.cmd.wait
           /\ proc' = [proc EXCEPT ![c].pc = "exited", ![c].runID = wire[c].runID]
        \/ /\ ~(w.code >= 400) /\ o.cmd.wait
           /\ proc' = [proc EXCEPT ![c].pc = "waiting", ![c].runID = wire[c].runID,
                                   ![c].deadline = clock + o.cmd.timeout]
    <2>1. /\ X!Refused(c) => X!Exit(c, X!exitError, "")
          /\ ~X!Refused(c) /\ ~X!Cmd(c).wait =>
               proc' = [proc EXCEPT ![c].pc = "exited", ![c].runID = wire[c].runID]
      BY Zenon DEF X!RunAnswered
    <2>2. ~X!Refused(c) /\ X!Cmd(c).wait =>
             proc' = [proc EXCEPT ![c].pc = "waiting", ![c].runID = wire[c].runID,
                                  ![c].deadline = clock + X!Cmd(c).timeout]
      BY Zenon DEF X!RunAnswered
    <2>3. X!Cmd(c) = o.cmd /\ (X!Refused(c) <=> w.code >= 400)
      BY <1>1 DEF X!Refused, X!Cmd
    <2>4. QED
      BY <2>1, <2>2, <2>3
  <1>6. CASE w.code >= 400 /\ X!Exit(c, X!exitError, "")
    <2>1. PICK s \in Saws : X!Exit(c, X!exitError, s)
      BY <1>6, NothingSeen, Zenon
    <2>2. ASSUME NEW p \in Processes, p.exit = X!exitError
          PROVE  ExitTrue(queue, w, p)
      BY <2>2, ExitCodes DEF ExitTrue
    <2>3. X!exitError \in Nat
      BY ExitCodes
    <2>4. MayExit(c, w, X!exitError, s)
      BY <2>2 DEF MayExit
    <2>5. QED
      BY <1>2, <1>3, <2>1, <2>3, <2>4, ClientExits
  <1>7. ASSUME NEW pc \in {"exited", "waiting"}, NEW p \in Processes, p.pc = pc,
               p.cmd = o.cmd, p.runID = w.runID, p.exit = o.exit,
               ~(w.code >= 400), o.cmd.wait <=> pc = "waiting",
               proc' = [proc EXCEPT ![c] = p]
        PROVE  CtlInv'
    <2>1. Queued(queue, p.runID)
      BY <1>4, <1>7
    <2>2. pc = "exited" => ExitTrue(queue, w, p)
      BY <1>3, <1>7, <2>1, ExitCodes DEF ExitTrue
    <2>3. PlaceTrue(queue, w, p)
      BY <1>3, <1>7, <2>1, <2>2 DEF PlaceTrue, FromShell
    <2>4. p.pc # "shell"
      BY <1>7
    <2>5. QED
      BY <1>2, <1>3, <1>7, <2>3, <2>4, ClientMoves
  <1>8. CASE /\ ~(w.code >= 400) /\ ~o.cmd.wait
             /\ proc' = [proc EXCEPT ![c].pc = "exited", ![c].runID = wire[c].runID]
    <2>1. PICK p : p = [o EXCEPT !.pc = "exited", !.runID = w.runID]
      OBVIOUS
    <2>2. /\ p \in Processes /\ p.pc = "exited" /\ p.cmd = o.cmd /\ p.runID = w.runID
          /\ p.exit = o.exit
      <3>1. w.runID \in Nat
        BY DEF Wires
      <3>2. "exited" \in CommandPlaces
        BY DEF CommandPlaces
      <3>3. QED
        BY <2>1, <3>1, <3>2 DEF Processes
    <2>3. proc' = [proc EXCEPT ![c] = p]
      BY <1>1, <1>8, <2>1 DEF CtlInv
    <2>4. QED
      BY <1>7, <1>8, <2>2, <2>3
  <1>9. CASE /\ ~(w.code >= 400) /\ o.cmd.wait
             /\ proc' = [proc EXCEPT ![c].pc = "waiting", ![c].runID = wire[c].runID,
                                     ![c].deadline = clock + o.cmd.timeout]
    <2>1. PICK p : p = [o EXCEPT !.pc = "waiting", !.runID = w.runID,
                                 !.deadline = clock + o.cmd.timeout]
      OBVIOUS
    <2>2. /\ p \in Processes /\ p.pc = "waiting" /\ p.cmd = o.cmd /\ p.runID = w.runID
          /\ p.exit = o.exit
      <3>1. w.runID \in Nat
        BY DEF Wires
      <3>2. "waiting" \in CommandPlaces
        BY DEF CommandPlaces
      <3>3. clock + o.cmd.timeout \in Int
        <4>1. o.cmd \in Commands
          BY DEF Processes
        <4>2. QED
          BY <4>1, CommandIs DEF CtlInv
      <3>4. QED
        BY <2>1, <3>1, <3>2, <3>3 DEF Processes
    <2>3. proc' = [proc EXCEPT ![c] = p]
      BY <1>1, <1>9, <2>1 DEF CtlInv
    <2>4. QED
      BY <1>7, <1>9, <2>2, <2>3
  <1>10. QED
    BY <1>5, <1>6, <1>8, <1>9

(* No answer: the command fails, a wait goes on.                           *)
LEMMA NothingComes ==
    ASSUME CtlInv, NEW c \in Pipelines, X!NoAnswer(c)
    PROVE  CtlInv'
  <1>1. /\ proc[c].pc # "shell" /\ queue' = queue /\ clock' = clock
        /\ \/ X!Exit(c, X!exitError, "")
           \/ proc[c].pc = "polling" /\ proc' = [proc EXCEPT ![c].pc = "waiting"]
        /\ \/ wire' = wire
           \/ wire[c].state = "sent" /\ wire' = [wire EXCEPT ![c] = X!Silent]
    <2>1. \/ /\ proc[c].pc \in {"syncing", "listing", "running"}
             /\ X!Exit(c, X!exitError, "")
          \/ proc[c].pc = "polling" /\ proc' = [proc EXCEPT ![c].pc = "waiting"]
      BY Zenon DEF X!NoAnswer, X!At
    <2>2. proc[c].pc # "shell"
      <3>1. proc[c].pc \in {"syncing", "listing", "running", "polling"}
        BY <2>1, Zenon
      <3>2. QED
        BY <3>1
    <2>3. /\ queue' = queue /\ clock' = clock
          /\ \/ wire' = wire
             \/ wire[c].state = "sent" /\ wire' = [wire EXCEPT ![c] = X!Silent]
      BY Zenon DEF X!NoAnswer
    <2>4. QED
      BY <2>1, <2>2, <2>3, Zenon
  <1>2. PICK w \in Wires : wire' = [wire EXCEPT ![c] = w] /\ AnswerTrue(queue, w)
    <2>1. CASE wire' = wire
      BY <2>1, ClientOf
    <2>2. CASE wire' = [wire EXCEPT ![c] = X!Silent]
      <3>1. X!Silent \in Wires /\ AnswerTrue(queue, X!Silent)
        <4>1. X!Silent \in Wires
          BY DEF X!Silent, Wires, Paths
        <4>2. X!Silent.state = "none" /\ X!Silent.failed = {} /\ X!Silent.runs = {}
          BY DEF X!Silent
        <4>3. QED
          BY <4>1, <4>2 DEF AnswerTrue
      <3>2. QED
        BY <2>2, <3>1
    <2>3. QED
      BY <1>1, <2>1, <2>2
  <1>3. CASE X!Exit(c, X!exitError, "")
    <2>1. PICK s \in Saws : X!Exit(c, X!exitError, s)
      BY <1>3, NothingSeen, Zenon
    <2>2. X!exitError \in Nat
      BY ExitCodes
    <2>3. MayExit(c, w, X!exitError, s)
      BY ExitCodes DEF MayExit, ExitTrue
    <2>4. QED
      BY <1>1, <1>2, <2>1, <2>2, <2>3, ClientExits
  <1>4. CASE proc[c].pc = "polling" /\ proc' = [proc EXCEPT ![c].pc = "waiting"]
    <2>1. PICK o \in Processes : o = proc[c]
      BY <1>1, ClientOf
    <2>2. PICK p : p = [o EXCEPT !.pc = "waiting"]
      OBVIOUS
    <2>3. "waiting" \in CommandPlaces
      BY DEF CommandPlaces
    <2>4. /\ p \in Processes /\ p.pc = "waiting" /\ p.cmd = o.cmd /\ p.runID = o.runID
          /\ p.exit = o.exit
      BY <2>2, <2>3, ProcessMoves
    <2>5. proc' = [proc EXCEPT ![c] = p]
      BY <1>4, <2>1, <2>2 DEF CtlInv
    <2>6. PlaceTrue(queue, wire[c], o)
      BY <1>1, <2>1, ClientOf
    <2>7. PlaceTrue(queue, w, p)
      BY <1>4, <2>1, <2>4, <2>6 DEF PlaceTrue, FromShell
    <2>8. p.pc # "shell"
      BY <2>4
    <2>9. QED
      BY <1>1, <1>2, <2>4, <2>5, <2>7, <2>8, ClientMoves
  <1>5. QED
    BY <1>1, <1>3, <1>4

(* The wait looks at its deadline, and asks again.                         *)
LEMMA WaitLooks ==
    ASSUME CtlInv, NEW c \in Pipelines, X!CheckDeadline(c)
    PROVE  CtlInv'
  <1>1. /\ proc[c].pc = "waiting" /\ queue' = queue /\ clock' = clock /\ wire' = wire
        /\ \/ X!Exit(c, X!exitRunBad, "deadline")
           \/ proc' = [proc EXCEPT ![c].pc = "asleep"]
    BY DEF X!CheckDeadline, X!At
  <1>2. PICK w \in Wires, o \in Processes :
            /\ w = wire[c] /\ o = proc[c] /\ o.pc = "waiting" /\ PlaceTrue(queue, w, o)
            /\ wire' = [wire EXCEPT ![c] = w] /\ AnswerTrue(queue, w) /\ proc[c].pc # "shell"
    BY <1>1, ClientOf
  <1>3. o.cmd.kind = "run" /\ o.cmd.wait /\ Queued(queue, o.runID) /\ o.exit = X!exitOK
    BY <1>2 DEF PlaceTrue
  <1>4. CASE X!Exit(c, X!exitRunBad, "deadline")
    <2>1. "deadline" \in Saws /\ X!exitRunBad \in Nat
      BY ExitCodes, Zenon DEF Saws
    <2>2. MayExit(c, w, X!exitRunBad, "deadline")
      BY <1>2, <1>3, ExitCodes DEF MayExit, ExitTrue
    <2>3. QED
      BY <1>1, <1>2, <1>4, <2>1, <2>2, ClientExits
  <1>5. CASE proc' = [proc EXCEPT ![c].pc = "asleep"]
    <2>1. PICK p : p = [o EXCEPT !.pc = "asleep"]
      OBVIOUS
    <2>2. "asleep" \in CommandPlaces
      BY DEF CommandPlaces
    <2>3. /\ p \in Processes /\ p.pc = "asleep" /\ p.cmd = o.cmd /\ p.runID = o.runID
          /\ p.exit = o.exit
      BY <2>1, <2>2, ProcessMoves
    <2>4. proc' = [proc EXCEPT ![c] = p]
      BY <1>2, <1>5, <2>1 DEF CtlInv
    <2>5. PlaceTrue(queue, w, p)
      BY <1>3, <2>3 DEF PlaceTrue, FromShell
    <2>6. p.pc # "shell"
      BY <2>3
    <2>7. QED
      BY <1>1, <1>2, <2>3, <2>4, <2>5, <2>6, ClientMoves
  <1>6. QED
    BY <1>1, <1>4, <1>5

LEMMA WaitAsks ==
    ASSUME CtlInv, NEW c \in Pipelines, X!Poll(c)
    PROVE  CtlInv'
  <1>1. /\ proc[c].pc = "asleep" /\ proc[c].pc # "shell" /\ queue' = queue /\ clock' = clock
        /\ X!call(c, "/runs", "polling")
    BY DEF X!Poll, X!At
  <1>2. /\ proc[c].cmd.kind = "run" /\ proc[c].cmd.wait /\ Queued(queue, proc[c].runID)
        /\ proc[c].exit = X!exitOK
    BY <1>1, ClientOf DEF PlaceTrue
  <1>3. ASSUME NEW w \in Wires, NEW p \in Processes, p.pc = "polling",
               p.cmd = proc[c].cmd, p.runID = proc[c].runID, p.exit = proc[c].exit
        PROVE  PlaceTrue(queue, w, p)
    BY <1>2, <1>3 DEF PlaceTrue, FromShell
  <1>4. "/runs" \in Paths
    BY DEF Paths
  <1>5. QED
    BY <1>1, <1>3, <1>4, CallGoesOut

(* What the wait makes of the list: the run is found, and has ended.       *)
LEMMA WaitEnds ==
    ASSUME CtlInv, NEW c \in Pipelines, X!waitForRun(c)
    PROVE  CtlInv'
  <1>1. /\ proc[c].pc = "polling" /\ queue' = queue /\ clock' = clock /\ wire' = wire
        /\ \/ \E r \in X!Found(c) :
                X!Exit(c, IF r.status = "success" THEN X!exitOK ELSE X!exitRunBad, r.status)
           \/ proc' = [proc EXCEPT ![c].pc = "waiting"]
    BY DEF X!waitForRun, X!Answered, X!At
  <1>2. PICK w \in Wires, o \in Processes :
            /\ w = wire[c] /\ o = proc[c] /\ o.pc = "polling" /\ PlaceTrue(queue, w, o)
            /\ wire' = [wire EXCEPT ![c] = w] /\ AnswerTrue(queue, w) /\ proc[c].pc # "shell"
    BY <1>1, ClientOf
  <1>3. o.cmd.kind = "run" /\ o.cmd.wait /\ Queued(queue, o.runID) /\ o.exit = X!exitOK
    BY <1>2 DEF PlaceTrue
  <1>4. ASSUME NEW r \in X!Found(c),
               X!Exit(c, IF r.status = "success" THEN X!exitOK ELSE X!exitRunBad, r.status)
        PROVE  CtlInv'
    <2>1. r \in w.runs /\ r.id = o.runID /\ r.status \in X!terminal
      BY <1>2 DEF X!Found
    <2>2. PICK code \in Nat, s \in Saws :
              /\ s = r.status /\ code = IF s = "success" THEN X!exitOK ELSE X!exitRunBad
              /\ X!Exit(c, code, s)
      <3>1. r.status \in Saws
        BY <2>1, Zenon DEF Saws
      <3>2. (IF r.status = "success" THEN X!exitOK ELSE X!exitRunBad) \in Nat
        BY ExitCodes
      <3>3. QED
        BY <1>4, <3>1, <3>2
    <2>3. s \in {"timeout"} \cup Final /\ (s \in Final => queue[o.runID].status = s)
      <3>1. ListedTruly(queue, r)
        BY <1>2, <2>1 DEF AnswerTrue
      <3>2. QED
        BY <2>1, <2>2, <3>1 DEF ListedTruly, X!terminal, Final
    <2>4. CASE s = "success"
      <3>1. code = X!exitOK /\ queue[o.runID].status = "success"
        BY <2>2, <2>3, <2>4 DEF Final
      <3>2. MayExit(c, w, code, s)
        BY <1>2, <1>3, <3>1, ExitCodes DEF MayExit, ExitTrue
      <3>3. QED
        BY <1>1, <1>2, <2>2, <3>2, ClientExits
    <2>5. CASE s # "success"
      <3>1. /\ code = X!exitRunBad
            /\ \/ s \in {"deadline", "timeout"}
               \/ s \in {"failed", "skipped"} /\ queue[o.runID].status = s
        BY <2>2, <2>3, <2>5 DEF Final
      <3>2. MayExit(c, w, code, s)
        BY <1>2, <1>3, <3>1, ExitCodes DEF MayExit, ExitTrue
      <3>3. QED
        BY <1>1, <1>2, <2>2, <3>2, ClientExits
    <2>6. QED
      BY <2>4, <2>5
  <1>5. CASE proc' = [proc EXCEPT ![c].pc = "waiting"]
    <2>1. PICK p : p = [o EXCEPT !.pc = "waiting"]
      OBVIOUS
    <2>2. "waiting" \in CommandPlaces
      BY DEF CommandPlaces
    <2>3. /\ p \in Processes /\ p.pc = "waiting" /\ p.cmd = o.cmd /\ p.runID = o.runID
          /\ p.exit = o.exit
      BY <2>1, <2>2, ProcessMoves
    <2>4. proc' = [proc EXCEPT ![c] = p]
      BY <1>2, <1>5, <2>1 DEF CtlInv
    <2>5. PlaceTrue(queue, w, p)
      BY <1>3, <2>3 DEF PlaceTrue, FromShell
    <2>6. p.pc # "shell"
      BY <2>3
    <2>7. QED
      BY <1>1, <1>2, <2>3, <2>4, <2>5, <2>6, ClientMoves
  <1>6. QED
    BY <1>1, <1>4, <1>5

---------------------------------------------------------------------------
(* The actions of the server and of the rest *)

(* A plain answer: of the middleware, or to the wire of a list.            *)
LEMMA PlainAnswer ==
    ASSUME CtlInv, NEW c \in Pipelines, wire[c].state = "sent", NEW code \in Nat,
           X!Answer(c, code), queue' = queue, proc' = proc, clock' = clock,
           code >= 400 \/ wire[c].path \notin {"/sync", "/jobs/run"}
    PROVE  CtlInv'
  <1>1. PICK w \in Wires : w = wire[c] /\ AnswerTrue(queue, w) /\ w.state = "sent"
    BY ClientOf
  <1>2. PICK x : x = [w EXCEPT !.state = "answered", !.code = code]
    OBVIOUS
  <1>3. /\ x \in Wires /\ x.state = "answered" /\ x.code = code /\ x.path = w.path
        /\ x.failed = w.failed /\ x.runs = w.runs
    BY <1>2 DEF Wires
  <1>4. wire' = [wire EXCEPT ![c] = x]
    BY <1>1, <1>2 DEF X!Answer, CtlInv
  <1>5. AnswerTrue(queue, x)
    BY <1>1, <1>3 DEF AnswerTrue
  <1>6. queue' \in Seq(QueuedRows) /\ Later(queue, queue') /\ AnswerTrue(queue', x)
    BY <1>5, ClientOf
  <1>7. QED
    BY <1>1, <1>3, <1>4, <1>6, ServerAnswers

LEMMA KeyRefused ==
    ASSUME CtlInv, NEW c \in Pipelines, X!ProjectKey(c)
    PROVE  CtlInv'
  <1>1. PICK code \in {401, 500} : X!Answer(c, code)
    BY DEF X!ProjectKey
  <1>2. wire[c].state = "sent" /\ queue' = queue /\ proc' = proc /\ clock' = clock
    BY DEF X!ProjectKey
  <1>3. code \in Nat /\ code >= 400
    OBVIOUS
  <1>4. QED
    BY <1>1, <1>2, <1>3, PlainAnswer

LEMMA SyncServed ==
    ASSUME CtlInv, NEW c \in Pipelines, X!Sync(c)
    PROVE  CtlInv'
  <1>1. wire[c].state = "sent" /\ wire[c].path = "/sync"
        /\ queue' = queue /\ proc' = proc /\ clock' = clock
    BY DEF X!Sync, X!projectScope
  <1>2. CASE X!Answer(c, 400)
    <2>1. 400 \in Nat /\ 400 >= 400
      OBVIOUS
    <2>2. QED
      BY <1>1, <1>2, <2>1, PlainAnswer
  <1>3. ASSUME NEW f \in SUBSET proc[c].cmd.declares,
               wire' = [wire EXCEPT ![c].state = "answered", ![c].failed = f,
                                    ![c].code = IF f # {} THEN 207 ELSE 200]
        PROVE  CtlInv'
    <2>1. PICK w \in Wires : w = wire[c] /\ AnswerTrue(queue, w) /\ w.state = "sent"
      BY <1>1, ClientOf
    <2>2. f \in SUBSET STRING
      <3>1. proc[c].pc # "shell"
        BY <1>1, ClientOf
      <3>2. proc[c].cmd \in Commands
        BY <3>1, ClientOf DEF Processes
      <3>3. QED
        BY <3>2, CommandIs
    <2>3. PICK code \in Nat : code = IF f # {} THEN 207 ELSE 200
      OBVIOUS
    <2>4. PICK x : x = [w EXCEPT !.state = "answered", !.failed = f, !.code = code]
      OBVIOUS
    <2>5. /\ x \in Wires /\ x.state = "answered" /\ x.code = code /\ x.path = w.path
          /\ x.failed = f /\ x.runs = w.runs
      <3>1. x \in Wires
        BY <2>2, <2>4 DEF Wires
      <3>2. x.state = "answered" /\ x.code = code /\ x.failed = f
        BY <2>4 DEF Wires
      <3>3. x.path = w.path /\ x.runs = w.runs
        BY <2>4 DEF Wires
      <3>4. QED
        BY <3>1, <3>2, <3>3
    <2>6. wire' = [wire EXCEPT ![c] = x]
      <3>1. wire \in [Pipelines -> Wires]
        BY DEF CtlInv
      <3>2. wire' = [wire EXCEPT ![c].state = "answered", ![c].failed = f, ![c].code = code]
        BY <1>3, <2>3
      <3>3. QED
        BY <2>1, <2>4, <3>1, <3>2
    <2>7. AnswerTrue(queue, x)
      BY <1>1, <2>1, <2>3, <2>5 DEF AnswerTrue
    <2>8. queue' \in Seq(QueuedRows) /\ Later(queue, queue') /\ AnswerTrue(queue', x)
      BY <1>1, <2>7, ClientOf
    <2>9. QED
      BY <1>1, <2>1, <2>5, <2>6, <2>8, ServerAnswers
  <1>4. QED
    BY <1>2, <1>3 DEF X!Sync, X!Cmd

LEMMA RunServed ==
    ASSUME CtlInv, NEW c \in Pipelines, X!ProjectTrigger(c)
    PROVE  CtlInv'
  <1>1. /\ wire[c].state = "sent" /\ wire[c].path = "/jobs/run"
        /\ proc' = proc /\ clock' = clock
        /\ \/ X!Answer(c, 404) /\ queue' = queue
           \/ /\ queue' = X!Enqueue(TRUE)
              /\ wire' = [wire EXCEPT ![c].state = "answered", ![c].code = 202,
                                      ![c].runID = Len(queue) + 1]
    BY DEF X!ProjectTrigger, X!projectScope
  <1>2. CASE X!Answer(c, 404) /\ queue' = queue
    <2>1. 404 \in Nat /\ 404 >= 400
      OBVIOUS
    <2>2. QED
      BY <1>1, <1>2, <2>1, PlainAnswer
  <1>3. CASE /\ queue' = X!Enqueue(TRUE)
             /\ wire' = [wire EXCEPT ![c].state = "answered", ![c].code = 202,
                                     ![c].runID = Len(queue) + 1]
    <2>1. PICK w \in Wires, q \in Seq(QueuedRows) :
              w = wire[c] /\ q = queue /\ AnswerTrue(q, w) /\ w.state = "sent"
      BY <1>1, ClientOf
    <2>2. PICK n \in Nat \ {0} : n = Len(q) + 1
      OBVIOUS
    <2>3. PICK x : x = [w EXCEPT !.state = "answered", !.code = 202, !.runID = n]
      OBVIOUS
    <2>4. /\ x \in Wires /\ x.state = "answered" /\ x.path = w.path
          /\ x.failed = w.failed /\ x.runs = w.runs /\ x.runID = n
      <3>1. x \in Wires
        <4>1. PICK k \in Nat : k = 202
          OBVIOUS
        <4>2. x = [w EXCEPT !.state = "answered", !.code = k, !.runID = n]
          BY <2>3, <4>1
        <4>3. QED
          BY <4>2 DEF Wires
      <3>2. x.state = "answered" /\ x.runID = n
        BY <2>3 DEF Wires
      <3>3. x.path = w.path /\ x.failed = w.failed /\ x.runs = w.runs
        BY <2>3 DEF Wires
      <3>4. QED
        BY <3>1, <3>2, <3>3
    <2>5. wire' = [wire EXCEPT ![c] = x]
      <3>1. wire \in [Pipelines -> Wires]
        BY DEF CtlInv
      <3>2. wire' = [wire EXCEPT ![c].state = "answered", ![c].code = 202, ![c].runID = n]
        BY <1>3, <2>1, <2>2
      <3>3. QED
        BY <2>1, <2>3, <3>1, <3>2
    <2>6. PICK y \in QueuedRows : y.mine /\ queue' = Append(q, y)
      <3>1. [mine |-> TRUE, status |-> "pending", created |-> clock] \in QueuedRows
        BY DEF CtlInv, QueuedRows, Statuses
      <3>2. QED
        BY <1>3, <2>1, <3>1 DEF X!Enqueue
    <2>7. /\ queue' \in Seq(QueuedRows) /\ Later(queue, queue')
          /\ Len(queue') = n /\ queue'[n] = y
      BY <2>1, <2>2, <2>6, QueueLonger
    <2>8. Queued(queue', n)
      BY <2>6, <2>7 DEF Queued
    <2>9. AnswerTrue(queue', x)
      <3>1. AnswerTrue(queue', w)
        BY <2>1, <2>7, AnswerLater
      <3>2. QED
        BY <1>1, <2>1, <2>4, <2>8, <3>1 DEF AnswerTrue
    <2>10. QED
      BY <1>1, <2>1, <2>4, <2>5, <2>7, <2>9, ServerAnswers
  <1>4. QED
    BY <1>1, <1>2, <1>3

LEMMA JobsServed ==
    ASSUME CtlInv, NEW c \in Pipelines, X!ProjectJobs(c)
    PROVE  CtlInv'
  <1>1. /\ wire[c].state = "sent" /\ wire[c].path = "/jobs" /\ X!Answer(c, 200)
        /\ queue' = queue /\ proc' = proc /\ clock' = clock
    BY DEF X!ProjectJobs, X!projectScope
  <1>2. wire[c].path \notin {"/sync", "/jobs/run"} /\ 200 \in Nat
    BY <1>1
  <1>3. QED
    BY <1>1, <1>2, PlainAnswer

LEMMA RunsServed ==
    ASSUME CtlInv, NEW c \in Pipelines, X!ProjectRuns(c)
    PROVE  CtlInv'
  <1>1. PICK w \in Wires, q \in Seq(QueuedRows) :
            /\ w = wire[c] /\ q = queue /\ AnswerTrue(q, w) /\ w.state = "sent"
            /\ w.path = "/runs"
    BY ClientOf DEF X!ProjectRuns, X!projectScope
  <1>2. queue' = queue /\ proc' = proc /\ clock' = clock
    BY DEF X!ProjectRuns
  <1>3. PICK page : page = {[id |-> r, status |-> queue[r].status] : r \in X!List}
    OBVIOUS
  <1>4. ASSUME NEW y \in page PROVE y \in ListedRows /\ ListedTruly(q, y)
    <2>1. PICK r \in X!List : y = [id |-> r, status |-> q[r].status]
      BY <1>1, <1>3
    <2>2. r \in 1..Len(q) /\ q[r].mine
      BY <1>1 DEF X!List, X!runFilter
    <2>3. q[r].status \in Statuses
      <3>1. q[r] \in QueuedRows
        BY <2>2
      <3>2. QED
        BY <3>1 DEF QueuedRows
    <2>4. y \in ListedRows
      BY <2>1, <2>2, <2>3 DEF ListedRows
    <2>5. y.id = r /\ y.status = q[r].status
      BY <2>1
    <2>6. QED
      BY <2>2, <2>4, <2>5 DEF ListedTruly, Queued
  <1>5. PICK x : x = [w EXCEPT !.state = "answered", !.code = 200, !.runs = page]
    OBVIOUS
  <1>6. /\ x \in Wires /\ x.state = "answered" /\ x.path = w.path
        /\ x.failed = w.failed /\ x.runs = page
    <2>1. page \in SUBSET ListedRows
      BY <1>4
    <2>2. x \in Wires
      <3>1. PICK k \in Nat, l \in SUBSET ListedRows : k = 200 /\ l = page
        BY <2>1
      <3>2. x = [w EXCEPT !.state = "answered", !.code = k, !.runs = l]
        BY <1>5, <3>1
      <3>3. QED
        BY <3>2 DEF Wires
    <2>3. x.state = "answered" /\ x.runs = page
      BY <1>5 DEF Wires
    <2>4. x.path = w.path /\ x.failed = w.failed
      BY <1>5 DEF Wires
    <2>5. QED
      BY <2>2, <2>3, <2>4
  <1>7. wire' = [wire EXCEPT ![c] = x]
    <2>1. wire' = [wire EXCEPT ![c].state = "answered", ![c].code = 200, ![c].runs = page]
      BY <1>3, Zenon DEF X!ProjectRuns
    <2>2. wire \in [Pipelines -> Wires]
      BY DEF CtlInv
    <2>3. QED
      BY <1>1, <1>5, <2>1, <2>2
  <1>8. AnswerTrue(queue, x)
    BY <1>1, <1>4, <1>6 DEF AnswerTrue
  <1>9. queue' \in Seq(QueuedRows) /\ Later(queue, queue') /\ AnswerTrue(queue', x)
    BY <1>2, <1>8, ClientOf
  <1>10. QED
    BY <1>1, <1>2, <1>6, <1>7, <1>9, ServerAnswers

(* Others queue runs, and runs move on.                                    *)
LEMMA QueueMoves ==
    ASSUME CtlInv, X!OtherRun \/ X!RunMoves
    PROVE  CtlInv'
  <1>1. PICK q \in Seq(QueuedRows) : q = queue
    BY DEF CtlInv
  <1>2. wire' = wire /\ proc' = proc /\ clock' = clock /\ clock' \in Int
    BY DEF X!OtherRun, X!RunMoves, CtlInv
  <1>3. CASE X!OtherRun
    <2>1. PICK y \in QueuedRows : queue' = Append(q, y)
      <3>1. PICK mine \in BOOLEAN : queue' = X!Enqueue(mine)
        BY <1>3 DEF X!OtherRun
      <3>2. [mine |-> mine, status |-> "pending", created |-> clock] \in QueuedRows
        BY DEF CtlInv, QueuedRows, Statuses
      <3>3. QED
        BY <1>1, <3>1, <3>2 DEF X!Enqueue
    <2>2. queue' \in Seq(QueuedRows) /\ Later(queue, queue')
      BY <1>1, <2>1, QueueLonger
    <2>3. QED
      BY <1>2, <2>2, OthersStep
  <1>4. CASE X!RunMoves
    <2>1. PICK r \in DOMAIN q : \E s \in X!terminal \cup {"running"} :
              /\ <<q[r].status, s>> \in
                   {"pending"} \X {"running", "skipped"}
                   \cup {"running", "timeout"} \X {"success", "failed"}
                   \cup {<<"running", "timeout">>}
              /\ queue' = [q EXCEPT ![r].status = s]
      BY <1>1, <1>4 DEF X!RunMoves
    <2>2. PICK s \in Statuses : /\ q[r].status \in {"pending", "running", "timeout"}
                                /\ queue' = [q EXCEPT ![r].status = s]
      BY <2>1 DEF Statuses, X!terminal
    <2>3. PICK y : y = [q[r] EXCEPT !.status = s]
      OBVIOUS
    <2>4. y \in QueuedRows /\ y.mine = q[r].mine
      <3>1. PICK o \in QueuedRows : o = q[r]
        OBVIOUS
      <3>2. QED
        BY <2>3, <3>1 DEF QueuedRows
    <2>5. PICK z \in Seq(QueuedRows) :
              z = queue' /\ Len(z) = Len(q) /\ z[r] = y
              /\ \A k \in 1..Len(q) : k # r => z[k] = q[k]
      BY <2>2, <2>3, <2>4
    <2>6. Later(q, z)
      <3>1. ASSUME NEW k \in 1..Len(q)
            PROVE  /\ k \in 1..Len(z) /\ z[k].mine = q[k].mine
                   /\ q[k].status \in Final => z[k].status = q[k].status
        BY <2>2, <2>4, <2>5 DEF Final
      <3>2. QED
        BY <3>1 DEF Later
    <2>7. QED
      BY <1>1, <1>2, <2>5, <2>6, OthersStep
  <1>5. QED
    BY <1>3, <1>4

LEMMA AroundMoves ==
    ASSUME CtlInv, X!KeyRotated \/ X!Tick \/ UNCHANGED <<queue, wire, proc, clock>>
    PROVE  CtlInv'
  <1>1. queue' = queue /\ wire' = wire /\ proc' = proc /\ clock' \in Int
    BY DEF X!KeyRotated, X!Tick, CtlInv
  <1>2. queue' \in Seq(QueuedRows) /\ Later(queue, queue')
    BY <1>1, QueueStays DEF CtlInv
  <1>3. QED
    BY <1>1, <1>2, OthersStep

LEMMA CtlNext == CtlInv /\ [X!Next]_X!vars => CtlInv'
  <1> SUFFICES ASSUME CtlInv, [X!Next]_X!vars PROVE CtlInv'
    OBVIOUS
  <1>1. ASSUME NEW c \in Pipelines,
               \/ X!run(c) \/ X!cmdSync(c) \/ X!cmdRun(c) \/ X!cmdJobs(c) \/ X!cmdRuns(c)
        PROVE  CtlInv'
    BY <1>1, ShellStep, SyncStarts, RunStarts, ListStarts, Zenon
  <1>2. ASSUME NEW c \in Pipelines,
               \/ X!ProjectKey(c) \/ X!Sync(c) \/ X!ProjectTrigger(c)
               \/ X!ProjectJobs(c) \/ X!ProjectRuns(c)
        PROVE  CtlInv'
    BY <1>2, KeyRefused, SyncServed, RunServed, JobsServed, RunsServed, Zenon
  <1>3. ASSUME NEW c \in Pipelines,
               \/ X!SyncAnswered(c) \/ X!ListAnswered(c) \/ X!RunAnswered(c) \/ X!NoAnswer(c)
               \/ X!CheckDeadline(c) \/ X!Poll(c) \/ X!waitForRun(c)
        PROVE  CtlInv'
    BY <1>3, SyncEnds, ListEnds, RunEnds, NothingComes, WaitLooks, WaitAsks, WaitEnds, Zenon
  <1>4. CASE X!OtherRun \/ X!RunMoves
    BY <1>4, QueueMoves, Zenon
  <1>5. CASE X!KeyRotated \/ X!Tick \/ UNCHANGED X!vars
    <2>1. UNCHANGED X!vars => UNCHANGED <<queue, wire, proc, clock>>
      BY DEF X!vars
    <2>2. QED
      BY <1>5, <2>1, AroundMoves, Zenon
  <1>6. QED
    BY <1>1, <1>2, <1>3, <1>4, <1>5, Zenon DEF X!Next

(* The invariant of the client: a command knows no more than is so.        *)
THEOREM CtlInvariant == Spec => [](focus = "ctl" => CtlInv)
  <1>1. Init => (focus = "ctl" => CtlInv)
    BY CtlInit DEF Init
  <1>2. (focus = "ctl" => CtlInv) /\ [Next]_allVars => (focus = "ctl" => CtlInv)'
    BY StepsOfOne, CtlNext
  <1>3. QED
    BY <1>1, <1>2, PTL DEF Spec

(* cronsolectl: what an exit code says has happened at the server has,     *)
(* whatever requests and answers were lost or late.                        *)
THEOREM ExitCodesHold == Spec => []ExitCodeTruthful
  <1>1. (focus = "ctl" => CtlInv) => ExitCodeTruthful
    <2>1. SUFFICES ASSUME CtlInv, NEW c \in Pipelines, proc[c].pc = "exited"
                   PROVE  CASE proc[c].exit = X!exitOK ->
                                 /\ X!Cmd(c).kind = "run" => X!MeansQueued(c)
                                 /\ (X!Cmd(c).kind = "run" /\ X!Cmd(c).wait)
                                      => queue[proc[c].runID].status = "success"
                                 /\ X!Cmd(c).kind = "sync" =>
                                      wire[c].failed = {}
                                      /\ (X!Cmd(c).dryRun <=> wire[c].state = "none")
                            [] proc[c].exit = X!exitUsage -> wire[c].state = "none"
                            [] proc[c].exit = X!exitPartial ->
                                 X!Cmd(c).kind = "sync" /\ wire[c].failed # {}
                            [] proc[c].exit = X!exitRunBad ->
                                 /\ X!MeansQueued(c) /\ X!Cmd(c).wait
                                 /\ proc[c].saw # "deadline" =>
                                      queue[proc[c].runID].status # "success"
                                      \/ proc[c].saw = "timeout"
                            [] OTHER -> TRUE
      BY DEF ExitCodeTruthful, X!ExitCodeTruthful, X!At
    <2>2. ExitTrue(queue, wire[c], proc[c])
      BY <2>1, ClientOf DEF PlaceTrue
    <2>3. X!MeansQueued(c) <=> Queued(queue, proc[c].runID)
      BY DEF X!MeansQueued, Queued, CtlInv
    <2>4. QED
      BY <2>2, <2>3, ExitCodes DEF ExitTrue, X!Cmd
  <1>2. QED
    BY <1>1, CtlInvariant, PTL
=============================================================================
