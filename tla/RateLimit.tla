------------------------------ MODULE RateLimit ------------------------------
(***************************************************************************)
(* The login limiters: pkg/auth/ratelimit.go as the login routes           *)
(* (internal/router/router.go) and auth_handler.go use it.                 *)
(*                                                                         *)
(* An attempt reads the clock, takes the lock and is counted against the   *)
(* address it comes from: by the limiter of its route, and again by the    *)
(* handler's, which counts the account it names as well.  The address is   *)
(* taken from a header when the deployment names one to trust, and a       *)
(* caller may write into that header what it likes before the proxies set  *)
(* it or add to it.                                                        *)
(***************************************************************************)
EXTENDS Integers, Sequences, FiniteSets

CONSTANTS
    Sources, Proxies,   \* addresses of callers, and of the proxies in order
    Emails, NoEmail,    \* NoEmail: the field is left empty
    Clients,
    Headers,            \* header names that a configuration may give
    Attempts,           \* [route, source, email, written]: what may come
    Limit, Period,
    MaxAttempts, MaxClock

Routes == {"form", "api"}
Limiters == Routes \cup {"handler"}
Callers == Sources \cup {Proxies[i] : i \in DOMAIN Proxies}
Keys == Callers \cup Emails

VARIABLES
    proxy,     \* TrustedProxy: the header to trust, if any, and its hops
    hits,      \* per limiter: key -> [count, expires], None when there is no window
    lastGC,    \* per limiter
    attempt,   \* per client
    clock, begun,
    let        \* history: what was let through, for a caller or an account, since it
               \* last signed in

vars == <<proxy, hits, lastGC, attempt, clock, begun, let>>

None == [count |-> 0, expires |-> 0]
Idle == [pc |-> "idle"]

---------------------------------------------------------------------------
(* TrustedProxy *)

forwardedFor == "X-Forwarded-For"
trustableHeaders == {forwardedFor, "X-Real-Ip"}
TrustNothing == [header |-> "", hops |-> 0]

(* The configurations the service starts with: a header it does not know,  *)
(* or no hops for the one that accumulates, stops it.                      *)
NewTrustedProxy(header, hops) ==
    CASE header = "" -> {TrustNothing}
      [] header = forwardedFor /\ hops >= 1 -> {[header |-> header, hops |-> hops]}
      [] header \in trustableHeaders \ {forwardedFor} -> {[header |-> header, hops |-> 0]}
      [] OTHER -> {}

parseIP(raw, otherwise) == IF raw \in Callers THEN raw ELSE otherwise

(* The first entry is taken for the client. *)
ClientIP_Leftmost(socket, header) ==
    IF proxy.header = "" \/ header = <<>> THEN socket ELSE parseIP(header[1], socket)

(* The client is counted from the right; a chain too short, or an entry    *)
(* that is no address, falls back to the socket.  Header.Get reads the     *)
(* first line of that name only: header is that line.                      *)
ClientIP(socket, header) ==
    LET index == IF proxy.header = forwardedFor THEN Len(header) - proxy.hops + 1 ELSE 1 IN
    IF proxy.header = "" \/ header = <<>> \/ index < 1 THEN socket
    ELSE parseIP(header[index], socket)

(* What the proxies make of a request.  Each appends the address it was    *)
(* called from to the line there is, as proxies do by default (one that    *)
(* adds a line of its own would leave the caller's as the first), or the   *)
(* one there is sets the header anew; the last one is at the socket.       *)
Header(source, written) ==
    IF proxy.header = forwardedFor THEN written \o SubSeq(<<source>> \o Proxies, 1, proxy.hops)
    ELSE IF proxy.header # "" THEN <<source>> ELSE written

socketIP(source) ==
    IF proxy.header = "" THEN source
    ELSE IF proxy.header = forwardedFor THEN Proxies[proxy.hops] ELSE Proxies[1]

---------------------------------------------------------------------------
(* Limiter *)

(* At most once in a period. *)
collect(l, now) ==
    IF now - lastGC[l] < Period THEN hits[l]
    ELSE [k \in Keys |-> IF now > hits[l][k].expires THEN None ELSE hits[l][k]]

(* The window an attempt is counted in: a new one, or one more in this. *)
Window(table, key, now) ==
    IF table[key] = None \/ now > table[key].expires
    THEN [count |-> 1, expires |-> now + Period]
    ELSE [table[key] EXCEPT !.count = @ + 1]

(* The reading of the clock and the lock after it in one step: r is the    *)
(* attempt and who it is let through for, in the history.                  *)
Allow(c, l, key, r, who) ==
    LET table == collect(l, clock)
        w == Window(table, key, clock)
    IN  /\ hits' = [hits EXCEPT ![l] = [table EXCEPT ![key] = w]]
        /\ lastGC' = [lastGC EXCEPT ![l] = IF clock - @ < Period THEN @ ELSE clock]
        /\ attempt' = [attempt EXCEPT ![c] = IF w.count <= Limit THEN r ELSE Idle]
        /\ let' = IF w.count > Limit THEN let
                  ELSE let \cup {[n |-> r.n, who |-> x, at |-> clock] : x \in who}

(* The counters of the handler's limiter that a success drops. *)
Reset(keys) ==
    [hits EXCEPT !["handler"] = [k \in Keys |-> IF k \in keys THEN None ELSE @[k]]]

Init ==
    /\ proxy \in UNION {NewTrustedProxy(h, n) : h \in Headers, n \in 0..Len(Proxies)}
    /\ hits = [l \in Limiters |-> [k \in Keys |-> None]]
    /\ lastGC = [l \in Limiters |-> 0]
    /\ attempt = [c \in Clients |-> Idle]
    /\ clock = 1 /\ begun = 0
    /\ let = {}

---------------------------------------------------------------------------
(* Signing in *)

(* The middleware in front of both routes, each with a limiter of its own. *)
RateLimit(c, a) ==
    LET key == ClientIP(socketIP(a.source), Header(a.source, a.written)) IN
    /\ attempt[c] = Idle /\ begun < MaxAttempts
    /\ begun' = begun + 1
    /\ Allow(c, a.route, key, [pc |-> "address", n |-> begun, source |-> a.source,
                               email |-> a.email, key |-> key], {})
    /\ UNCHANGED <<proxy, clock>>

(* The address first, then the account if one is named. *)
loginAllowed(c) ==
    LET a == attempt[c] IN
    /\ a.pc = "address"
    /\ Allow(c, "handler", a.key,
             [a EXCEPT !.pc = IF a.email = NoEmail THEN "password" ELSE "email"], {a.source})
    /\ UNCHANGED <<proxy, clock, begun>>

emailKey(c) ==
    LET a == attempt[c] IN
    /\ a.pc = "email"
    /\ Allow(c, "handler", a.email, [a EXCEPT !.pc = "password"], {a.email})
    /\ UNCHANGED <<proxy, clock, begun>>

(* The password is wrong, or there is no such account. *)
loginError(c) ==
    /\ attempt[c].pc = "password"
    /\ attempt' = [attempt EXCEPT ![c] = Idle]
    /\ UNCHANGED <<proxy, hits, lastGC, clock, begun, let>>

(* The handler forgets both counters, the route's limiter forgets nothing. *)
loginSucceeded(c) ==
    LET a == attempt[c] IN
    /\ a.pc = "password" /\ a.email # NoEmail
    /\ hits' = Reset({a.key, a.email})
    /\ let' = {l \in let : l.who \notin {a.source, a.email}}
    /\ attempt' = [attempt EXCEPT ![c] = Idle]
    /\ UNCHANGED <<proxy, lastGC, clock, begun>>

Tick ==
    /\ clock < MaxClock /\ clock' = clock + 1
    /\ UNCHANGED <<proxy, hits, lastGC, attempt, begun, let>>

Next ==
    \/ Tick
    \/ \E c \in Clients :
        \/ \E a \in Attempts : RateLimit(c, a)
        \/ loginAllowed(c) \/ emailKey(c) \/ loginError(c) \/ loginSucceeded(c)

Spec == Init /\ [][Next]_vars

---------------------------------------------------------------------------
(* The limit holds over any span of one period, not only within a window:  *)
(* two windows meet in it and their first attempts are more than a period  *)
(* apart, so fewer than twice the limit are let through for one caller,    *)
(* whatever it writes into the forwarding header, and for one account,     *)
(* counted since the last one that succeeded.                              *)
AttemptsBounded ==
    \A l \in let :
        Cardinality({k \in let : k.who = l.who /\ k.at \in l.at .. l.at + Period}) < 2 * Limit
=============================================================================
