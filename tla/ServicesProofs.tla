--------------------------- MODULE ServicesProofs ---------------------------
(***************************************************************************)
(* Safety of the services that keep state of their own: host routes,       *)
(* alerts, members of projects, and the calls and messages of runs.        *)
(*                                                                         *)
(* focus never changes and a step of one service leaves the others alone,  *)
(* so each service has an inductive invariant of its own, about its own    *)
(* actions only.                                                           *)
(***************************************************************************)
EXTENDS Services, Wellfounded

LEMMA StepsOfOne ==
    ASSUME [Next]_allVars
    PROVE  /\ focus' = focus
           /\ focus = "accounts" => [A!Next]_(A!vars)
           /\ focus = "routes" => [H!Next]_(H!vars)
           /\ focus = "alerts" => [W!Next]_(W!vars)
           /\ focus = "members" => [M!Next]_(M!vars)
           /\ focus = "limit" => [L!Next]_(L!vars)
           /\ focus = "cron" => [C!Next]_(C!vars)
           /\ focus = "ctl" => [X!Next]_(X!vars)
           /\ focus = "calls" => [P!Next]_(P!vars)
  <1>1. CASE UNCHANGED allVars
    BY <1>1 DEF allVars, accountsOnly, membersOnly, routesOnly, alertsOnly, limitOnly, cronOnly,
                ctlOnly, callsOnly, A!vars, H!vars, W!vars, W!mailVars, M!vars, L!vars, C!vars, X!vars,
                P!vars, P!runVars, P!mailVars
  <1>2. CASE Next
    BY <1>2 DEF Next, allVars
  <1>3. QED
    BY <1>1, <1>2

---------------------------------------------------------------------------
(* Host routes: what a task has read covers the targets that were routed   *)
(* all along, and is at least as new as what its own request wrote.        *)

Tasks == {"screen", "ticker"}

TaskSound(r, a) ==
    LET t == task[r][a] IN
    \/ t = H!Idle
    \/ t.pc = "read" /\ t.wrote \in Int /\ t.wrote <= version
    \/ /\ t.pc = "replace" /\ held \subseteq H!Routed(t.read)
       /\ t.at \in Int /\ t.at <= version
       /\ t.wrote \in Int /\ t.wrote <= t.at

TableSound(r) ==
    /\ table[r].version \in Int
    /\ answered[r] \in Int /\ answered[r] <= version
    /\ table[r].loaded => held \subseteq H!Routed(table[r].routes)

(* A replica that serves something older than it answered has just put     *)
(* back a late reading, and whatever it is about to put there is newer.    *)
AnswerSound(r) ==
    \/ answered[r] <= table[r].version
    \/ /\ late[r]
       /\ task[r]["ticker"].pc = "replace" => answered[r] <= task[r]["ticker"].at

RoutesShape ==
    /\ DOMAIN task = Replicas /\ DOMAIN table = Replicas
    /\ DOMAIN answered = Replicas /\ DOMAIN late = Replicas
    /\ \A r \in Replicas : DOMAIN task[r] = Tasks /\ DOMAIN table[r] = {"routes", "loaded", "version"}

RoutesInv ==
    /\ RoutesShape
    /\ version \in Int /\ 0 <= version
    /\ held \subseteq H!Routed(H!ActiveRows(rows))
    /\ \A r \in Replicas : /\ TableSound(r) /\ AnswerSound(r)
                           /\ \A a \in Tasks : TaskSound(r, a)

LEMMA RoutesInit == H!Init => RoutesInv
  BY DEF H!Init, H!Scheduled, RoutesInv, RoutesShape, Tasks, TableSound, AnswerSound, TaskSound,
         H!Starting, H!Empty, H!Idle

(* A step on one task touches no other one.                                *)
LEMMA OneTask ==
    ASSUME RoutesShape, NEW r \in Replicas, NEW a \in Tasks, NEW t, H!Step(r, a, t)
    PROVE  /\ task'[r][a] = t
           /\ \A q \in Replicas, b \in Tasks : q # r \/ b # a => task'[q][b] = task[q][b]
           /\ DOMAIN task' = Replicas /\ \A q \in Replicas : DOMAIN task'[q] = Tasks
  BY DEF H!Step, RoutesShape

(* Writing the rows.                                                       *)
LEMMA WriteKeeps ==
    ASSUME RoutesInv, NEW r \in Replicas, NEW new, H!Write(r, new),
           task[r].screen.pc = "idle", UNCHANGED <<table, restarts, answered, late>>
    PROVE  RoutesInv'
  <1> USE DEF RoutesInv, Tasks
  <1>0. /\ version' = version + 1
        /\ held' \subseteq held /\ held' \subseteq H!Routed(H!ActiveRows(rows'))
        /\ H!Step(r, "screen", [pc |-> "read", wrote |-> version + 1])
    BY DEF H!Write
  <1>1. /\ task'[r]["screen"] = [pc |-> "read", wrote |-> version + 1]
        /\ \A q \in Replicas, b \in Tasks :
              q # r \/ b # "screen" => task'[q][b] = task[q][b]
        /\ DOMAIN task' = Replicas /\ \A q \in Replicas : DOMAIN task'[q] = Tasks
    BY <1>0, OneTask
  <1>2. RoutesShape'
    BY <1>1 DEF RoutesShape
  <1>3. \A q \in Replicas : TableSound(q)'
    BY <1>0 DEF TableSound
  <1>4. \A q \in Replicas : AnswerSound(q)'
    BY <1>1 DEF AnswerSound
  <1>5. TaskSound(r, "screen")'
    BY <1>0, <1>1 DEF TaskSound
  <1>6. ASSUME NEW q \in Replicas, NEW b \in Tasks, q # r \/ b # "screen"
        PROVE  TaskSound(q, b)'
    <2>1. task'[q][b] = task[q][b] /\ TaskSound(q, b)
      BY <1>1, <1>6
    <2>2. QED
      BY <1>0, <2>1 DEF TaskSound
  <1>7. QED
    BY <1>0, <1>2, <1>3, <1>4, <1>5, <1>6

(* Tasks begin, read and fail without touching what is served.             *)
LEMMA TaskKeeps ==
    ASSUME RoutesInv, NEW r \in Replicas, NEW a \in Tasks, NEW t, H!Step(r, a, t),
           UNCHANGED <<rows, version, answered, late, held>>,
           DOMAIN table' = Replicas, \A q \in Replicas : table'[q] = table[q],
           TaskSound(r, a)',
           (a = "ticker" /\ t.pc = "replace") => answered[r] <= t.at
    PROVE  RoutesInv'
  <1> USE DEF RoutesInv
  <1>1. /\ task'[r][a] = t
        /\ \A q \in Replicas, b \in Tasks : q # r \/ b # a => task'[q][b] = task[q][b]
        /\ DOMAIN task' = Replicas /\ \A q \in Replicas : DOMAIN task'[q] = Tasks
    BY OneTask
  <1>2. RoutesShape'
    BY <1>1 DEF RoutesShape
  <1>3. \A q \in Replicas : TableSound(q)'
    BY DEF TableSound
  <1>4. ASSUME NEW q \in Replicas PROVE AnswerSound(q)'
    <2>1. AnswerSound(q) /\ "ticker" \in Tasks
      BY DEF Tasks
    <2>2. CASE q = r /\ a = "ticker"
      BY <1>1, <2>1, <2>2 DEF AnswerSound
    <2>3. CASE q # r \/ a # "ticker"
      <3>1. task'[q]["ticker"] = task[q]["ticker"]
        BY <1>1, <2>1, <2>3
      <3>2. QED
        BY <2>1, <3>1 DEF AnswerSound
    <2>4. QED
      BY <2>2, <2>3
  <1>5. ASSUME NEW q \in Replicas, NEW b \in Tasks, q # r \/ b # a
        PROVE  TaskSound(q, b)'
    <2>1. task'[q][b] = task[q][b] /\ TaskSound(q, b)
      BY <1>1, <1>5
    <2>2. QED
      BY <2>1 DEF TaskSound
  <1>6. QED
    BY <1>2, <1>3, <1>4, <1>5

LEMMA ReadKeeps ==
    ASSUME RoutesInv, NEW r \in Replicas, NEW a \in Tasks, H!ListActive(r, a)
    PROVE  RoutesInv'
  <1> USE DEF RoutesInv
  <1> PICK m : m = [pc |-> "replace", wrote |-> task[r][a].wrote,
                    read |-> H!ActiveRows(rows), at |-> version]
    OBVIOUS
  <1>1. task[r][a].wrote \in Int /\ task[r][a].wrote <= version
    BY DEF H!ListActive, TaskSound, H!Idle
  <1>2. /\ H!Step(r, a, m) /\ UNCHANGED <<rows, version, answered, late, held>>
        /\ DOMAIN table' = Replicas /\ \A q \in Replicas : table'[q] = table[q]
    BY DEF H!ListActive, RoutesShape
  <1>3. task'[r][a] = m
    BY <1>2, OneTask
  <1>4. TaskSound(r, a)'
    BY <1>1, <1>2, <1>3 DEF TaskSound
  <1>5. QED
    BY <1>2, <1>4, TaskKeeps DEF TableSound

LEMMA EndKeeps ==
    ASSUME RoutesInv, NEW r \in Replicas, NEW a \in Tasks, H!ReloadFails(r, a)
    PROVE  RoutesInv'
  <1>1. /\ H!Step(r, a, H!Idle) /\ UNCHANGED <<rows, version, answered, late, held>>
        /\ DOMAIN table' = Replicas /\ \A q \in Replicas : table'[q] = table[q]
    BY DEF H!ReloadFails, H!KeptOnFailure, RoutesInv, RoutesShape
  <1>2. task'[r][a] = H!Idle
    BY <1>1, OneTask DEF RoutesInv
  <1>3. TaskSound(r, a)'
    BY <1>2 DEF TaskSound
  <1>4. QED
    BY <1>1, <1>3, TaskKeeps DEF H!Idle

LEMMA TickKeeps ==
    ASSUME RoutesInv, NEW r \in Replicas, H!Tick(r)
    PROVE  RoutesInv'
  <1> "ticker" \in Tasks
    BY DEF Tasks
  <1>1. /\ H!Step(r, "ticker", H!Scheduled) /\ UNCHANGED <<rows, version, answered, late, held>>
        /\ DOMAIN table' = Replicas /\ \A q \in Replicas : table'[q] = table[q]
    BY DEF H!Tick, RoutesInv, RoutesShape
  <1>2. task'[r]["ticker"] = H!Scheduled
    BY <1>1, OneTask DEF RoutesInv
  <1>3. TaskSound(r, "ticker")'
    BY <1>1, <1>2 DEF TaskSound, RoutesInv, H!Scheduled
  <1>4. QED
    BY <1>1, <1>3, TaskKeeps DEF H!Scheduled

(* What was read comes into force, in time or late.                        *)
LEMMA ReplaceKeeps ==
    ASSUME RoutesInv, NEW r \in Replicas, NEW a \in Tasks, H!Replace(r, a)
    PROVE  RoutesInv'
  <1> DEFINE t == task[r][a]
  <1>1. /\ held \subseteq H!Routed(t.read) /\ t.at \in Int /\ t.at <= version
        /\ t.wrote \in Int /\ t.wrote <= t.at
    BY DEF H!Replace, TaskSound, RoutesInv, H!Idle
  <1>2. /\ task'[r][a] = H!Idle
        /\ \A q \in Replicas, b \in Tasks : q # r \/ b # a => task'[q][b] = task[q][b]
        /\ DOMAIN task' = Replicas /\ \A q \in Replicas : DOMAIN task'[q] = Tasks
    BY OneTask DEF H!Replace, RoutesInv
  <1>3. /\ table'[r] = [routes |-> t.read, loaded |-> TRUE, version |-> t.at]
        /\ late'[r] = (t.at < table[r].version)
        /\ answered'[r] = IF a = "screen" THEN t.wrote ELSE answered[r]
    BY DEF H!Replace, RoutesInv, RoutesShape
  <1>4. /\ \A q \in Replicas \ {r} : /\ table'[q] = table[q] /\ late'[q] = late[q]
                                     /\ answered'[q] = answered[q]
        /\ DOMAIN table' = Replicas /\ DOMAIN late' = Replicas /\ DOMAIN answered' = Replicas
        /\ UNCHANGED <<rows, version, held>>
    BY DEF H!Replace, RoutesInv, RoutesShape
  <1> HIDE DEF t
  <1>5. RoutesShape'
    BY <1>2, <1>3, <1>4 DEF RoutesShape, RoutesInv
  <1>6. ASSUME NEW q \in Replicas PROVE TableSound(q)'
    BY <1>1, <1>3, <1>4 DEF TableSound, RoutesInv
  <1>7. ASSUME NEW q \in Replicas PROVE AnswerSound(q)'
    <2>1. AnswerSound(q) /\ TableSound(q) /\ "ticker" \in Tasks
      BY DEF RoutesInv, Tasks
    <2>2. CASE q # r
      <3>1. task'[q]["ticker"] = task[q]["ticker"]
        BY <1>2, <2>1, <2>2
      <3>2. QED
        BY <1>4, <2>1, <2>2, <3>1 DEF AnswerSound
    <2>3. CASE q = r /\ a = "screen"
      BY <1>1, <1>3, <2>3 DEF AnswerSound
    <2>4. CASE q = r /\ a = "ticker"
      <3>1. task'[r]["ticker"].pc # "replace"
        BY <1>2, <2>4 DEF H!Idle
      <3>2. /\ table'[r].version = t.at /\ answered'[r] = answered[r]
            /\ t.at \in Int /\ table[r].version \in Int /\ answered[r] \in Int
        BY <1>1, <1>3, <2>1, <2>4 DEF TableSound
      <3>3. CASE t.at < table[r].version
        BY <1>3, <2>4, <3>1, <3>3 DEF AnswerSound
      <3>4. CASE table[r].version <= t.at
        <4>1. answered[r] <= table[r].version \/ answered[r] <= t.at
          BY <2>1, <2>4 DEF AnswerSound, H!Replace, t
        <4>2. QED
          BY <2>4, <3>2, <3>4, <4>1 DEF AnswerSound
      <3>5. QED
        BY <3>2, <3>3, <3>4
    <2>5. QED
      BY <2>2, <2>3, <2>4 DEF Tasks
  <1>8. ASSUME NEW q \in Replicas, NEW b \in Tasks PROVE TaskSound(q, b)'
    <2>1. TaskSound(q, b)
      BY DEF RoutesInv
    <2>2. CASE q = r /\ b = a
      BY <1>2, <2>2 DEF TaskSound
    <2>3. CASE q # r \/ b # a
      BY <1>2, <1>4, <2>1, <2>3 DEF TaskSound
    <2>4. QED
      BY <2>2, <2>3
  <1>9. QED
    BY <1>4, <1>5, <1>6, <1>7, <1>8 DEF RoutesInv

LEMMA RestartKeeps ==
    ASSUME RoutesInv, NEW r \in Replicas, H!Restart(r)
    PROVE  RoutesInv'
  <1>1. /\ task'[r] = H!Starting /\ table'[r] = H!Empty
        /\ answered'[r] = 0 /\ late'[r] = FALSE
        /\ \A q \in Replicas \ {r} : /\ table'[q] = table[q] /\ late'[q] = late[q]
                                     /\ answered'[q] = answered[q] /\ task'[q] = task[q]
        /\ DOMAIN table' = Replicas /\ DOMAIN late' = Replicas
        /\ DOMAIN answered' = Replicas /\ DOMAIN task' = Replicas
        /\ UNCHANGED <<rows, version, held>>
    BY DEF H!Restart, RoutesInv, RoutesShape
  <1>2. RoutesShape'
    BY <1>1 DEF RoutesShape, RoutesInv, H!Starting, H!Empty, Tasks
  <1>3. ASSUME NEW q \in Replicas PROVE TableSound(q)' /\ AnswerSound(q)'
    <2>1. CASE q = r
      BY <1>1, <2>1 DEF TableSound, AnswerSound, RoutesInv, H!Empty
    <2>2. CASE q # r
      BY <1>1, <2>2 DEF TableSound, AnswerSound, RoutesInv
    <2>3. QED
      BY <2>1, <2>2
  <1>4. ASSUME NEW q \in Replicas, NEW b \in Tasks PROVE TaskSound(q, b)'
    <2>1. CASE q = r
      BY <1>1, <2>1 DEF TaskSound, RoutesInv, H!Starting, H!Scheduled, H!Idle, Tasks
    <2>2. CASE q # r
      BY <1>1, <2>2 DEF TaskSound, RoutesInv
    <2>3. QED
      BY <2>1, <2>2
  <1>5. QED
    BY <1>1, <1>2, <1>3, <1>4 DEF RoutesInv

LEMMA RoutesStep ==
    ASSUME RoutesInv, [H!Next]_(H!vars)
    PROVE  RoutesInv'
  <1>1. CASE UNCHANGED H!vars
    BY <1>1 DEF H!vars, RoutesInv, RoutesShape, TableSound, AnswerSound, TaskSound
  <1>2. ASSUME NEW r \in Replicas, NEW f \in Forms, H!SaveHostOverride(r, f)
        PROVE  RoutesInv'
    <2>1. CASE \E new : H!Write(r, new)
      BY <1>2, <2>1, WriteKeeps DEF H!SaveHostOverride
    <2>2. CASE UNCHANGED <<rows, version, held, task>>
      <3>1. UNCHANGED <<rows, version, held, task, table, answered, late>>
        BY <1>2, <2>2 DEF H!SaveHostOverride
      <3>2. QED
        BY <3>1 DEF RoutesInv, RoutesShape, TableSound, AnswerSound, TaskSound
    <2>3. QED
      BY <1>2, <2>1, <2>2 DEF H!SaveHostOverride
  <1>3. ASSUME NEW r \in Replicas, NEW i \in RowIds, H!DeleteHostOverride(r, i)
        PROVE  RoutesInv'
    BY <1>3, WriteKeeps DEF H!DeleteHostOverride
  <1>4. CASE H!Next
    BY <1>2, <1>3, <1>4, TickKeeps, RestartKeeps, ReadKeeps, EndKeeps, ReplaceKeeps
       DEF H!Next, Tasks
  <1>5. QED
    BY <1>1, <1>4

(* For every table of overrides and any number of replicas: what the       *)
(* running tasks read covers the targets that kept their route, and no     *)
(* reading is older than its request (Save, Delete, Reload, Replace of     *)
(* host_override_service.go and hostmap.go).                               *)
THEOREM RoutesInvariant == Spec => [](focus = "routes" => RoutesInv)
  <1>1. Init => (focus = "routes" => RoutesInv)
    BY RoutesInit DEF Init
  <1>2. (focus = "routes" => RoutesInv) /\ [Next]_allVars => (focus = "routes" => RoutesInv)'
    BY StepsOfOne, RoutesStep
  <1>3. QED
    BY <1>1, <1>2, PTL DEF Spec

(* No edit, no outage and no overlap of reloads leaves a replica without   *)
(* the route of a target that was routed throughout (Reload replaces the   *)
(* table whole, and keeps it when it cannot read).                         *)
THEOREM RoutesAreKept == Spec => []RouteNeverLost
  <1>1. (focus = "routes" => RoutesInv) => RouteNeverLost
    BY DEF RouteNeverLost, H!RouteNeverLost, RoutesInv, TableSound
  <1>2. QED
    BY <1>1, RoutesInvariant, PTL

(* A replica dials from nothing older than the change it last reloaded for *)
(* and answered, unless it has just put back a late reading (Save answers  *)
(* after its reload).                                                      *)
THEOREM AnswersAreInForce == Spec => []AnsweredRouteInForce
  <1>1. (focus = "routes" => RoutesInv) => AnsweredRouteInForce
    BY DEF AnsweredRouteInForce, H!AnsweredRouteInForce, RoutesInv, TableSound, AnswerSound
  <1>2. QED
    BY <1>1, RoutesInvariant, PTL

---------------------------------------------------------------------------
(* Alerts: every mark, in the row or on its way there, is of a set of      *)
(* warnings that was handed over no earlier than the mark says.            *)

Handed == mails \cup lost

Stands(n) == n # W!NoNote =>
    n.at \in Int /\ \E m \in Handed : m.set = n.mark /\ n.at <= m.at

AlertsInv ==
    /\ clock \in Int
    /\ DOMAIN sweep = Replicas
    /\ \A m \in Handed : m.at \in Int /\ m.at <= clock
    /\ Stands(note)
    /\ \A r \in Replicas : sweep[r].pc \in {"alert", "mark"} => Stands(sweep[r].note)

LEMMA AlertsInit == W!Init => AlertsInv
  BY AlertsAssumption DEF W!Init, AlertsInv, Handed, Stands, W!Idle

(* Everything but a new mail, the loss of an old one among it.             *)
LEMMA QuietKeeps ==
    ASSUME AlertsInv, Handed' = Handed, clock' \in Int, clock <= clock',
           DOMAIN sweep' = Replicas,
           Stands(note'),
           \A r \in Replicas : \/ sweep'[r] = sweep[r]
                               \/ sweep'[r].pc = "idle"
                               \/ Stands(sweep'[r].note)
    PROVE  AlertsInv'
  <1>1. \A m \in Handed' : m.at \in Int /\ m.at <= clock'
    BY DEF AlertsInv
  <1>2. \A r \in Replicas : sweep'[r].pc \in {"alert", "mark"} => Stands(sweep'[r].note)
    BY DEF AlertsInv
  <1>3. ASSUME NEW n, Stands(n)
        PROVE  n # W!NoNote => n.at \in Int /\ \E m \in Handed' : m.set = n.mark /\ n.at <= m.at
    BY <1>3 DEF Stands
  <1>4. /\ Stands(note)'
        /\ \A r \in Replicas : sweep'[r].pc \in {"alert", "mark"} => Stands(sweep[r].note)'
    BY <1>2, <1>3 DEF Stands
  <1>5. QED
    BY <1>1, <1>4 DEF AlertsInv

(* The second that a mark keeps is not after the moment of its mail.       *)
LEMMA CutDown ==
    ASSUME NEW n \in Int
    PROVE  (n \div PerSecond) * PerSecond \in Int /\ (n \div PerSecond) * PerSecond <= n
  BY AlertsAssumption

LEMMA MailKeeps ==
    ASSUME AlertsInv, NEW r \in Replicas, W!Alert(r), ~W!Suppressed(sweep[r].warnings, sweep[r].note)
    PROVE  AlertsInv'
  <1> PICK w : w = sweep[r].warnings
    OBVIOUS
  <1> PICK s : s = [pc |-> "mark", note |-> [mark |-> w, at |-> (clock \div PerSecond) * PerSecond]]
    OBVIOUS
  <1> PICK last : last = [set |-> w, at |-> clock]
    OBVIOUS
  <1>1. /\ Handed' = Handed \cup {last}
        /\ sweep' = [sweep EXCEPT ![r] = s]
        /\ UNCHANGED <<clock, note>>
    BY DEF W!Alert, W!Set, W!enqueue, Handed
  <1>2. ASSUME NEW n, Stands(n)
        PROVE  n # W!NoNote => n.at \in Int /\ \E m \in Handed' : m.set = n.mark /\ n.at <= m.at
    BY <1>1, <1>2 DEF Stands
  <1>3. s.note.at \in Int /\ last \in Handed' /\ last.set = s.note.mark /\ s.note.at <= last.at
    BY <1>1, CutDown DEF AlertsInv
  <1>4. \A m \in Handed' : m.at \in Int /\ m.at <= clock'
    BY <1>1 DEF AlertsInv
  <1>5. DOMAIN sweep' = Replicas /\ sweep'[r] = s
        /\ \A q \in Replicas \ {r} : sweep'[q] = sweep[q]
    BY <1>1 DEF AlertsInv
  <1>6. Stands(note)'
    BY <1>1, <1>2 DEF AlertsInv, Stands
  <1>7. ASSUME NEW q \in Replicas, sweep'[q].pc \in {"alert", "mark"}
        PROVE  Stands(sweep[q].note)'
    <2>1. CASE q = r
      BY <1>3, <1>5, <2>1 DEF Stands
    <2>2. CASE q # r
      <3>1. sweep'[q] = sweep[q] /\ Stands(sweep[q].note)
        BY <1>5, <1>7, <2>2 DEF AlertsInv
      <3>2. QED
        BY <1>2, <3>1 DEF Stands
    <2>3. QED
      BY <2>1, <2>2
  <1>8. QED
    BY <1>1, <1>4, <1>5, <1>6, <1>7 DEF AlertsInv

LEMMA AlertsStep ==
    ASSUME AlertsInv, [W!Next]_(W!vars)
    PROVE  AlertsInv'
  <1> USE DEF AlertsInv, Handed
  <1>1. CASE UNCHANGED W!vars
    BY <1>1, QuietKeeps DEF W!vars, W!mailVars
  <1>2. CASE W!Change \/ W!TouchHeartbeat \/ W!Tick
    BY <1>2, QuietKeeps DEF W!Change, W!TouchHeartbeat, W!Tick, W!mailVars
  <1>3. ASSUME NEW r \in Replicas, W!Sweep(r) PROVE AlertsInv'
    <2>1. PICK s : sweep' = [sweep EXCEPT ![r] = s] /\ s.note \in {note, W!NoNote}
      BY <1>3 DEF W!Sweep, W!Warn, W!Set
    <2>2. Stands(s.note)
      BY <2>1 DEF Stands
    <2>3. QED
      BY <1>3, <2>1, <2>2, QuietKeeps DEF W!Sweep, W!mailVars
  <1>4. ASSUME NEW r \in Replicas, W!AlertRecovered(r) PROVE AlertsInv'
    <2> PICK s : s = IF sweep[r].note = W!NoNote THEN W!Idle
                     ELSE [pc |-> "mark", note |-> W!NoNote]
      OBVIOUS
    <2>1. sweep' = [sweep EXCEPT ![r] = s] /\ (s.pc = "idle" \/ s.note = W!NoNote)
      BY <1>4 DEF W!AlertRecovered, W!Set, W!Idle
    <2>2. QED
      BY <1>4, <2>1, QuietKeeps DEF W!AlertRecovered, W!mailVars, Stands
  <1>5. ASSUME NEW r \in Replicas, W!Alert(r) PROVE AlertsInv'
    <2>1. CASE W!Suppressed(sweep[r].warnings, sweep[r].note)
      BY <1>5, <2>1, QuietKeeps DEF W!Alert, W!Set, W!Idle, W!mailVars
    <2>2. QED
      BY <1>5, <2>1, MailKeeps
  <1>6. ASSUME NEW r \in Replicas, W!SetWarningMarker(r) PROVE AlertsInv'
    <2>1. Stands(note')
      BY <1>6 DEF W!SetWarningMarker
    <2>2. sweep' = [sweep EXCEPT ![r] = W!Idle] /\ UNCHANGED <<mails, lost, clock>>
      BY <1>6 DEF W!SetWarningMarker, W!Set, W!mailVars
    <2>3. QED
      BY <2>1, <2>2, QuietKeeps DEF W!Idle
  <1>7. ASSUME NEW m \in mails, W!Lose(m) PROVE AlertsInv'
    <2>1. Handed' = Handed
      BY <1>7 DEF W!Lose
    <2>2. QED
      BY <1>7, <2>1, QuietKeeps DEF W!Lose
  <1>8. QED
    BY <1>1, <1>2, <1>3, <1>4, <1>5, <1>6, <1>7 DEF W!Next

(* Marks, wherever they are, stand for mails that were handed over, those  *)
(* that the notifier dropped or lost among them (alert of watchdog.go,     *)
(* enqueue and run of notifier.go, SetWarningMarker of exec_repo.go).      *)
THEOREM AlertsInvariant == Spec => [](focus = "alerts" => AlertsInv)
  <1>1. Init => (focus = "alerts" => AlertsInv)
    BY AlertsInit DEF Init
  <1>2. (focus = "alerts" => AlertsInv) /\ [Next]_allVars => (focus = "alerts" => AlertsInv)'
    BY StepsOfOne, AlertsStep
  <1>3. QED
    BY <1>1, <1>2, PTL DEF Spec

(* For any number of replicas whose sweeps overlap in any way: warnings    *)
(* are held back only if the same ones were handed to a notifier within    *)
(* AlertRepeat, which may have lost them (alert of watchdog.go).           *)
THEOREM OnlyRepeatsHeldBack == Spec => HeldBackOnlyIfAlerted
  <1>1. (focus = "alerts" => AlertsInv) /\ [Next]_allVars
            => [focus = "alerts" => W!HeldBackWasAlerted]_allVars
    <2> SUFFICES ASSUME focus = "alerts", AlertsInv, [W!Next]_(W!vars), NEW r \in Replicas,
                        sweep[r].pc = "alert", sweep[r].warnings # {}, sweep'[r].pc = "idle"
                 PROVE  \E m \in Handed : m.set = sweep[r].warnings /\ clock - m.at < AlertRepeat
      BY StepsOfOne DEF W!HeldBackWasAlerted, W!HeldBack, W!Lately, Handed
    <2>1. W!Suppressed(sweep[r].warnings, sweep[r].note)
      <3>1. sweep'[r] # sweep[r]
        OBVIOUS
      <3>2. W!Alert(r)
        BY <3>1 DEF W!Next, W!vars, W!Change, W!TouchHeartbeat, W!Tick, W!Sweep, W!Warn,
                    W!AlertRecovered, W!Alert, W!SetWarningMarker, W!Lose,
                    W!Set, AlertsInv
      <3>3. QED
        BY <3>2 DEF W!Alert, W!Set, AlertsInv
    <2> PICK n : n = sweep[r].note
      OBVIOUS
    <2>2. n # W!NoNote /\ n.mark = sweep[r].warnings /\ clock - n.at < AlertRepeat
      BY <2>1 DEF W!Suppressed
    <2>3. PICK m \in Handed : m.set = n.mark /\ n.at <= m.at
      BY <2>2 DEF AlertsInv, Stands
    <2>4. n.at \in Int /\ m.at \in Int /\ clock \in Int
      BY <2>2 DEF AlertsInv, Stands
    <2>5. clock - m.at < AlertRepeat
      BY <2>2, <2>3, <2>4, AlertsAssumption
    <2>6. QED
      BY <2>2, <2>3, <2>5
  <1>2. QED
    BY <1>1, AlertsInvariant, PTL DEF Spec, HeldBackOnlyIfAlerted

---------------------------------------------------------------------------
(* Members.  Ranks: the standing of an account is a largest element.       *)

LEMMA LargestRank ==
    ASSUME NEW S \in SUBSET (0..3), S # {}
    PROVE  M!Max(S) \in S /\ \A x \in S : x <= M!Max(S)
  <1>1. \E m \in S : \A x \in S : m >= x
    <2>1. CASE 3 \in S
      BY <2>1
    <2>2. CASE 3 \notin S /\ 2 \in S
      BY <2>2
    <2>3. CASE 3 \notin S /\ 2 \notin S /\ 1 \in S
      BY <2>3
    <2>4. CASE 3 \notin S /\ 2 \notin S /\ 1 \notin S
      <3>1. \A x \in S : x = 0
        BY <2>4
      <3>2. PICK m \in S : TRUE
        OBVIOUS
      <3>3. QED
        BY <3>1, <3>2
    <2>5. QED
      BY <2>1, <2>2, <2>3, <2>4
  <1>2. QED
    BY <1>1 DEF M!Max

LEMMA RanksAreSmall == \A r \in M!Roles : M!RoleRank[r] \in 0..3
  BY DEF M!RoleRank

(* The highest rank of some roles is the rank of one of them, or none.     *)
Highest(R) == M!Max({0} \cup {M!RoleRank[r] : r \in R})

LEMMA HighestRank ==
    ASSUME NEW R \in SUBSET M!Roles, NEW h, h = Highest(R)
    PROVE  /\ h \in 0..3
           /\ h = 0 \/ \E r \in R : h = M!RoleRank[r]
           /\ \A r \in R : M!RoleRank[r] <= h
  <1> DEFINE S == {0} \cup {M!RoleRank[r] : r \in R}
  <1>1. S \in SUBSET (0..3) /\ S # {} /\ 0 \in S
    BY RanksAreSmall
  <1>2. h \in S /\ \A x \in S : x <= h
    BY <1>1, LargestRank DEF Highest
  <1>3. \A r \in R : M!RoleRank[r] \in S
    OBVIOUS
  <1>4. h = 0 \/ \E r \in R : h = M!RoleRank[r]
    BY <1>2
  <1> HIDE DEF S
  <1>5. h \in 0..3
    BY <1>1, <1>2
  <1>6. QED
    BY <1>2, <1>3, <1>4, <1>5

---------------------------------------------------------------------------
(* Members: a rank that a project administrator is about to give was held  *)
(* by somebody, a cache is no older than what its replica answered, and a  *)
(* restricted role has the permission it restricts.                        *)

ChangePcs == {"byEmail", "lookup", "grant", "target", "rank", "write", "invalidate",
              "revoke", "members", "mayChange", "unscoped"}

RequestSound(q) ==
    /\ "pc" \in DOMAIN q
    /\ q.pc \in ChangePcs => /\ q.rep \in Replicas /\ q.caller \in Users /\ q.user \in Users
                             /\ q.role \in M!Roles /\ q.project \in Projects
    /\ q.pc \in {"revoke", "members", "mayChange", "unscoped"} => q.kind = "remove"
    /\ (q.pc = "write" /\ q.kind = "add" /\ q.caller \notin Admins)
          => M!RoleRank[q.role] <= top[q.project]
    /\ q.pc = "revokeUser" => q.user \in Users
    /\ q.pc = "setFields" => q.role \in M!Roles

RequestsShape ==
    /\ DOMAIN req = Clients
    /\ todo \in Seq(MemberRequests)
    /\ \A c \in Clients : RequestSound(req[c])

RanksSound ==
    /\ DOMAIN assign = Users /\ \A u \in Users : DOMAIN assign[u] = M!Roles
    /\ top \in [Projects -> Int]
    /\ \A p \in Projects :
          /\ 0 <= top[p]
          /\ \A u \in Users, r \in M!Roles :
                M!Reaches(assign[u][r], p) => M!RoleRank[r] <= top[p]

CacheSound ==
    /\ version \in [Users -> Int] /\ done \in [Replicas -> [Users -> Int]]
    /\ DOMAIN cache = Replicas /\ \A rep \in Replicas : DOMAIN cache[rep] = Users
    /\ \A rep \in Replicas, u \in Users :
          /\ done[rep][u] <= version[u]
          /\ cache[rep][u] # M!None =>
                cache[rep][u].ver \in Int /\ done[rep][u] <= cache[rep][u].ver

FieldsSound ==
    /\ DOMAIN fields = M!Roles /\ DOMAIN perms = M!Roles
    /\ DOMAIN boot = Replicas
    /\ \A rep \in Replicas : boot[rep].left \subseteq M!Builtin /\ DOMAIN boot[rep] = {"left", "bin"}
    /\ \A r \in M!Roles : fields[r] # M!Unrestricted => "runs.read" \in perms[r]

MembersInv == RequestsShape /\ RanksSound /\ CacheSound /\ FieldsSound

LEMMA MembersInit == M!Init => MembersInv
  <1> SUFFICES ASSUME M!Init PROVE MembersInv
    OBVIOUS
  <1>1. RequestsShape
    BY MembersAssumption DEF M!Init, RequestsShape, RequestSound, M!Idle, ChangePcs
  <1>2. RanksSound
    <2>1. DOMAIN assign = Users /\ \A u \in Users : DOMAIN assign[u] = M!Roles
      BY MembersAssumption DEF M!Init
    <2>2. ASSUME NEW p \in Projects
          PROVE  /\ top[p] \in Int /\ 0 <= top[p]
                 /\ \A u \in Users, r \in M!Roles :
                       M!Reaches(assign[u][r], p) => M!RoleRank[r] <= top[p]
      <3> DEFINE R == {r \in M!Roles : \E u \in Users : M!Reaches(assign[u][r], p)}
      <3>1. top[p] = Highest(R)
        BY DEF M!Init, M!HighestOn, Highest
      <3> HIDE DEF R
      <3>2. R \in SUBSET M!Roles
        BY DEF R
      <3>3. top[p] \in Int /\ 0 <= top[p] /\ \A r \in R : M!RoleRank[r] <= top[p]
        <4> PICK h : h = top[p]
          OBVIOUS
        <4>1. h \in 0..3 /\ \A r \in R : M!RoleRank[r] <= h
          BY <3>1, <3>2, HighestRank
        <4>2. QED
          BY <4>1
      <3>4. QED
        BY <3>3 DEF R
    <2>3. top \in [Projects -> Int]
      BY <2>2 DEF M!Init
    <2>4. QED
      BY <2>1, <2>2, <2>3 DEF RanksSound
  <1>3. CacheSound
    BY DEF M!Init, CacheSound
  <1>4. FieldsSound
    BY DEF M!Init, FieldsSound, M!Builtin
  <1>5. QED
    BY <1>1, <1>2, <1>3, <1>4 DEF MembersInv

(* One request goes on, and nothing that the others rely on changes.       *)
LEMMA RequestKeeps ==
    ASSUME RequestsShape, NEW c \in Clients, DOMAIN req' = Clients,
           \A d \in Clients \ {c} : req'[d] = req[d],
           top' \in [Projects -> Int], top \in [Projects -> Int],
           \A p \in Projects : top[p] <= top'[p],
           RequestSound(req[c])', todo' \in Seq(MemberRequests)
    PROVE  RequestsShape'
  <1> SUFFICES ASSUME NEW d \in Clients, d # c PROVE RequestSound(req[d])'
    BY DEF RequestsShape
  <1> PICK q : q = req[d]
    OBVIOUS
  <1>1. RequestSound(q) /\ req'[d] = q
    BY DEF RequestsShape
  <1>2. (q.pc = "write" /\ q.kind = "add" /\ q.caller \notin Admins)
           => M!RoleRank[q.role] <= top'[q.project]
    <2> SUFFICES ASSUME q.pc = "write", q.kind = "add", q.caller \notin Admins
                 PROVE  M!RoleRank[q.role] <= top'[q.project]
      OBVIOUS
    <2>1. q.role \in M!Roles /\ q.project \in Projects
          /\ M!RoleRank[q.role] <= top[q.project]
      BY <1>1 DEF RequestSound, ChangePcs
    <2>2. M!RoleRank[q.role] \in Int
      BY <2>1, RanksAreSmall
    <2>3. QED
      BY <2>1, <2>2
  <1>3. QED
    BY <1>1, <1>2 DEF RequestSound

LEMMA GoOnIs ==
    ASSUME RequestsShape, NEW c \in Clients, NEW ok, NEW pc, M!GoOn(c, ok, pc)
    PROVE  /\ DOMAIN req' = Clients /\ \A d \in Clients \ {c} : req'[d] = req[d]
           /\ \/ req'[c] = M!Idle
              \/ ok /\ req'[c] = [req[c] EXCEPT !.pc = pc]
  BY DEF M!GoOn, M!Goto, M!Respond, RequestsShape

LEMMA IdleSound == RequestSound(M!Idle)
  BY DEF RequestSound, M!Idle, ChangePcs

(* Reading steps of a change of members, from pc from to pc to.            *)
LEMMA GoOnKeeps ==
    ASSUME MembersInv, NEW c \in Clients, NEW ok, NEW to \in ChangePcs, M!GoOn(c, ok, to),
           req[c].pc \in ChangePcs, UNCHANGED <<assign, perms, fields, boot, todo, version, done, top>>,
           CacheSound',
           ok /\ to = "write" /\ req[c].kind = "add" /\ req[c].caller \notin Admins
               => M!RoleRank[req[c].role] <= top[req[c].project],
           to \in {"revoke", "members", "mayChange", "unscoped"} => req[c].kind = "remove"
    PROVE  MembersInv'
  <1> USE DEF MembersInv
  <1>1. /\ DOMAIN req' = Clients /\ \A d \in Clients \ {c} : req'[d] = req[d]
        /\ \/ req'[c] = M!Idle
           \/ ok /\ req'[c] = [req[c] EXCEPT !.pc = to]
    BY GoOnIs
  <1>2. RequestSound(req[c])'
    <2>1. CASE req'[c] = M!Idle
      BY <2>1 DEF RequestSound, M!Idle, ChangePcs
    <2>2. CASE ok /\ req'[c] = [req[c] EXCEPT !.pc = to]
      <3> PICK q : q = req[c]
        OBVIOUS
      <3>1. RequestSound(q) /\ q.pc \in ChangePcs
        BY DEF RequestsShape
      <3> PICK n : n = [q EXCEPT !.pc = to]
        OBVIOUS
      <3>2. /\ n.pc = to /\ "pc" \in DOMAIN n /\ n.rep = q.rep /\ n.caller = q.caller
            /\ n.user = q.user /\ n.role = q.role /\ n.project = q.project /\ n.kind = q.kind
        BY <3>1 DEF RequestSound
      <3>3. req'[c] = n
        BY <2>2
      <3>4. to # "revokeUser" /\ to # "setFields"
        BY DEF ChangePcs
      <3>5. QED
        BY <2>2, <3>1, <3>2, <3>3, <3>4 DEF RequestSound
    <2>3. QED
      BY <1>1, <2>1, <2>2
  <1>3. RequestsShape'
    <2>1. todo' \in Seq(MemberRequests) /\ top' \in [Projects -> Int] /\ top \in [Projects -> Int]
          /\ \A p \in Projects : top[p] <= top'[p]
      BY DEF RequestsShape, RanksSound
    <2>2. QED
      BY <1>1, <1>2, <2>1, RequestKeeps
  <1>4. RanksSound' /\ FieldsSound'
    BY DEF RanksSound, FieldsSound
  <1>5. QED
    BY <1>3, <1>4

(* Deciding fills the cache with what is in the database at the moment.    *)
LEMMA DecideKeeps ==
    ASSUME CacheSound, NEW c \in Clients, M!Decide(c), UNCHANGED <<version, done>>,
           req[c].rep \in Replicas, req[c].caller \in Users
    PROVE  CacheSound'
  <1> PICK rep \in Replicas, u \in Users : rep = req[c].rep /\ u = req[c].caller
    OBVIOUS
  <1> PICK g : g = M!Grants(rep, u)
    OBVIOUS
  <1>1. g.ver \in Int /\ done[rep][u] <= g.ver
    BY DEF CacheSound, M!Grants
  <1>2. cache' = cache \/ cache' = [cache EXCEPT ![rep][u] = g]
    BY DEF M!Decide
  <1>3. CASE cache' = cache
    BY <1>3 DEF CacheSound
  <1>4. CASE cache' = [cache EXCEPT ![rep][u] = g]
    <2>1. /\ DOMAIN cache' = Replicas /\ \A q \in Replicas : DOMAIN cache'[q] = Users
          /\ \A q \in Replicas, v \in Users :
                cache'[q][v] = IF q = rep /\ v = u THEN g ELSE cache[q][v]
      BY <1>4 DEF CacheSound
    <2>2. QED
      BY <1>1, <2>1 DEF CacheSound
  <1>5. QED
    BY <1>2, <1>3, <1>4

LEMMA UnchangedCache ==
    ASSUME CacheSound, UNCHANGED <<cache, version, done>>
    PROVE  CacheSound'
  BY DEF CacheSound

LEMMA ReceivedSound ==
    ASSUME NEW m \in MemberRequests, NEW pc, NEW rep \in Replicas,
           NEW q, q = M!Received(m, pc, rep),
           \/ m.kind = "add" /\ pc = "byEmail"
           \/ m.kind = "remove" /\ pc = "revoke"
           \/ m.kind = "delete" /\ pc = "revokeUser"
           \/ m.kind = "visibility" /\ pc = "setFields"
    PROVE  RequestSound(q)
  <1>1. /\ DOMAIN q = DOMAIN m \cup {"pc", "rep"} /\ q.pc = pc /\ q.rep = rep
        /\ \A k \in DOMAIN m \ {"pc", "rep"} : q[k] = m[k]
    BY DEF M!Received
  <1>2. CASE m.kind \in {"add", "remove"}
    <2>1. /\ m.caller \in Users /\ m.project \in Projects /\ m.user \in Users /\ m.role \in M!Roles
          /\ DOMAIN m = {"kind", "caller", "project", "user", "role"}
      BY <1>2 DEF MemberRequests
    <2>2. /\ q.caller = m.caller /\ q.project = m.project /\ q.user = m.user
          /\ q.role = m.role /\ q.kind = m.kind
      BY <1>1, <2>1
    <2>3. QED
      BY <1>1, <1>2, <2>1, <2>2 DEF RequestSound, ChangePcs
  <1>3. CASE m.kind = "delete"
    <2>1. m.user \in Users /\ "user" \in DOMAIN m
      BY <1>3 DEF MemberRequests
    <2>2. QED
      BY <1>1, <1>3, <2>1 DEF RequestSound, ChangePcs
  <1>4. CASE m.kind = "visibility"
    <2>1. m.role \in M!Roles /\ "role" \in DOMAIN m
      BY <1>4 DEF MemberRequests
    <2>2. QED
      BY <1>1, <1>4, <2>1 DEF RequestSound, ChangePcs
  <1>5. QED
    BY <1>2, <1>3, <1>4

LEMMA ArriveKeeps ==
    ASSUME MembersInv, NEW c \in Clients, NEW kind, NEW pc, M!Arrive(c, kind, pc),
           \/ kind = "add" /\ pc = "byEmail"
           \/ kind = "remove" /\ pc = "revoke"
           \/ kind = "delete" /\ pc = "revokeUser"
           \/ kind = "visibility" /\ pc = "setFields"
    PROVE  MembersInv'
  <1> USE DEF MembersInv
  <1> PICK m : m = Head(todo)
    OBVIOUS
  <1>1. m \in MemberRequests /\ m.kind = kind /\ todo' \in Seq(MemberRequests)
    BY DEF M!Arrive, RequestsShape
  <1> PICK rep \in Replicas : req' = [req EXCEPT ![c] = M!Received(m, pc, rep)]
    BY DEF M!Arrive
  <1> PICK q : q = M!Received(m, pc, rep)
    OBVIOUS
  <1>2. RequestSound(q)
    BY <1>1, ReceivedSound
  <1>3. /\ DOMAIN req' = Clients /\ req'[c] = q
        /\ \A d \in Clients \ {c} : req'[d] = req[d]
    BY DEF RequestsShape
  <1>4. UNCHANGED <<assign, perms, fields, cache, boot, version, done, top>>
    BY DEF M!Arrive
  <1>5. RequestSound(req[c])'
    BY <1>2, <1>3, <1>4 DEF RequestSound
  <1>6. RequestsShape'
    <2>1. top' \in [Projects -> Int] /\ top \in [Projects -> Int]
          /\ \A p \in Projects : top[p] <= top'[p]
      BY <1>4 DEF RanksSound
    <2>2. QED
      BY <1>1, <1>3, <1>5, <2>1, RequestKeeps
  <1>7. RanksSound' /\ CacheSound' /\ FieldsSound'
    BY <1>4 DEF RanksSound, CacheSound, FieldsSound
  <1>8. QED
    BY <1>6, <1>7

(* Somebody of the caller's standing or above was there already.           *)
LEMMA StandingIsNoNews ==
    ASSUME RanksSound, NEW u \in Users \ Admins, NEW p \in Projects
    PROVE  M!rankOf(u, p) \in Int /\ M!rankOf(u, p) <= top[p]
  <1>0. PICK R : R = {r \in M!Roles : M!Reaches(assign[u][r], p)}
    OBVIOUS
  <1>1. PICK h : h = Highest(R)
    OBVIOUS
  <1>2. M!rankOf(u, p) = h
    BY <1>0, <1>1 DEF M!rankOf, Highest
  <1>3. R \in SUBSET M!Roles /\ \A r \in R : M!RoleRank[r] <= top[p]
    BY <1>0 DEF RanksSound
  <1>4. h \in 0..3 /\ (h = 0 \/ \E r \in R : h = M!RoleRank[r])
    BY <1>1, <1>3, HighestRank
  <1>5. top[p] \in Int /\ 0 <= top[p]
    BY DEF RanksSound
  <1>6. QED
    BY <1>2, <1>3, <1>4, <1>5

LEMMA ReadingKeeps ==
    ASSUME MembersInv, NEW c \in Clients,
           \/ M!GrantByEmail(c) \/ M!GetByEmail(c) \/ M!Grant(c) \/ M!GrantTarget(c)
           \/ M!GrantRank(c) \/ M!Revoke(c) \/ M!RevokeListed(c) \/ M!mayChange(c)
           \/ M!RevokeUnscoped(c)
    PROVE  MembersInv'
  <1> DEFINE Rest == UNCHANGED <<assign, perms, fields, boot, todo, version, done, top>>
  <1> DEFINE q == req[c]
  <1>0. /\ RequestSound(q) /\ CacheSound /\ RanksSound
        /\ q.pc \in ChangePcs => /\ q.rep \in Replicas /\ q.caller \in Users /\ q.user \in Users
                                 /\ q.role \in M!Roles /\ q.project \in Projects
    BY DEF MembersInv, RequestsShape, RequestSound
  <1>1. CASE M!GrantByEmail(c)
    <2>1. M!GoOn(c, M!RequireProject(c), "lookup") /\ Rest /\ M!Decide(c) /\ q.pc = "byEmail"
      BY <1>1 DEF M!GrantByEmail, M!At
    <2>2. CacheSound' /\ "lookup" \in ChangePcs /\ q.pc \in ChangePcs
      BY <1>0, <2>1, DecideKeeps DEF ChangePcs
    <2>3. QED
      BY <2>1, <2>2, GoOnKeeps
  <1>2. CASE M!GetByEmail(c)
    <2>1. M!GoOn(c, q.user \notin deleted, "grant") /\ Rest /\ UNCHANGED cache /\ q.pc = "lookup"
      BY <1>2 DEF M!GetByEmail, M!At
    <2>2. CacheSound' /\ "grant" \in ChangePcs /\ q.pc \in ChangePcs
      BY <1>0, <2>1, UnchangedCache DEF ChangePcs
    <2>3. QED
      BY <2>1, <2>2, GoOnKeeps
  <1>3. CASE M!Grant(c)
    <2>1. M!GoOn(c, M!RequireProject(c) /\ M!NotSelf(c), "target") /\ Rest /\ M!Decide(c)
          /\ q.pc = "grant"
      BY <1>3 DEF M!Grant, M!At
    <2>2. CacheSound' /\ "target" \in ChangePcs /\ q.pc \in ChangePcs
      BY <1>0, <2>1, DecideKeeps DEF ChangePcs
    <2>3. QED
      BY <2>1, <2>2, GoOnKeeps
  <1>4. CASE M!GrantTarget(c)
    <2>1. M!GoOn(c, q.user \notin deleted \cup Admins, "rank") /\ Rest /\ UNCHANGED cache
          /\ q.pc = "target"
      BY <1>4 DEF M!GrantTarget, M!At
    <2>2. CacheSound' /\ "rank" \in ChangePcs /\ q.pc \in ChangePcs
      BY <1>0, <2>1, UnchangedCache DEF ChangePcs
    <2>3. QED
      BY <2>1, <2>2, GoOnKeeps
  <1>5. CASE M!GrantRank(c)
    <2> DEFINE ok == \/ q.caller \in Admins
                     \/ (M!RoleRank[q.role] # 0 /\ M!RoleRank[q.role] <= M!rankOf(q.caller, q.project))
    <2>1. M!GoOn(c, ok, "write") /\ Rest /\ UNCHANGED cache /\ q.pc = "rank"
      BY <1>5 DEF M!GrantRank, M!At
    <2>2. CacheSound' /\ "write" \in ChangePcs /\ q.pc \in ChangePcs
      BY <1>0, <2>1, UnchangedCache DEF ChangePcs
    <2>3. ok /\ q.caller \notin Admins => M!RoleRank[q.role] <= top[q.project]
      <3> SUFFICES ASSUME ok, q.caller \notin Admins
                   PROVE  M!RoleRank[q.role] <= top[q.project]
        OBVIOUS
      <3>1. /\ M!rankOf(q.caller, q.project) \in Int
            /\ M!rankOf(q.caller, q.project) <= top[q.project]
        BY <1>0, <2>2, StandingIsNoNews
      <3>2. M!RoleRank[q.role] \in Int /\ top[q.project] \in Int
        BY <1>0, <2>2, RanksAreSmall DEF RanksSound
      <3>3. QED
        BY <3>1, <3>2
    <2> HIDE DEF ok
    <2>4. QED
      BY <2>1, <2>2, <2>3, GoOnKeeps
  <1>6. CASE M!Revoke(c)
    <2>1. M!GoOn(c, M!RequireProject(c) /\ M!NotSelf(c), "members") /\ Rest /\ M!Decide(c)
          /\ q.pc = "revoke"
      BY <1>6 DEF M!Revoke, M!At
    <2>2. CacheSound' /\ "members" \in ChangePcs /\ q.pc \in ChangePcs /\ q.kind = "remove"
      BY <1>0, <2>1, DecideKeeps DEF ChangePcs, RequestSound
    <2>3. QED
      BY <2>1, <2>2, GoOnKeeps
  <1>7. CASE M!RevokeListed(c)
    <2>1. M!GoOn(c, M!IsMember(q.user, q.role, q.project), "mayChange") /\ Rest /\ UNCHANGED cache
          /\ q.pc = "members"
      BY <1>7 DEF M!RevokeListed, M!At
    <2>2. CacheSound' /\ "mayChange" \in ChangePcs /\ q.pc \in ChangePcs /\ q.kind = "remove"
      BY <1>0, <2>1, UnchangedCache DEF ChangePcs, RequestSound
    <2>3. QED
      BY <2>1, <2>2, GoOnKeeps
  <1>8. CASE M!mayChange(c)
    <2> DEFINE ok == \/ q.caller \in Admins
                     \/ /\ q.user \notin Admins
                        /\ M!RoleRank[q.role] <= M!rankOf(q.caller, q.project)
    <2>1. M!GoOn(c, ok, "unscoped") /\ Rest /\ UNCHANGED cache /\ q.pc = "mayChange"
      BY <1>8 DEF M!mayChange, M!At
    <2>2. CacheSound' /\ "unscoped" \in ChangePcs /\ q.pc \in ChangePcs /\ q.kind = "remove"
      BY <1>0, <2>1, UnchangedCache DEF ChangePcs, RequestSound
    <2> HIDE DEF ok
    <2>3. QED
      BY <2>1, <2>2, GoOnKeeps
  <1>9. CASE M!RevokeUnscoped(c)
    <2>1. M!GoOn(c, Every \notin M!ListUserRoles(q.user, q.role), "write") /\ Rest
          /\ UNCHANGED cache /\ q.pc = "unscoped"
      BY <1>9 DEF M!RevokeUnscoped, M!At
    <2>2. CacheSound' /\ "write" \in ChangePcs /\ q.pc \in ChangePcs /\ q.kind = "remove"
      BY <1>0, <2>1, UnchangedCache DEF ChangePcs, RequestSound
    <2>3. QED
      BY <2>1, <2>2, GoOnKeeps
  <1>10. QED
    BY <1>1, <1>2, <1>3, <1>4, <1>5, <1>6, <1>7, <1>8, <1>9

(* A request that goes to a place where its rank is not asked for.         *)
LEMMA GotoSound ==
    ASSUME RequestsShape, NEW c \in Clients, NEW to, M!Goto(c, to),
           req[c].pc \in ChangePcs \/ to = "softDelete",
           to \in {"invalidate", "softDelete"}
    PROVE  /\ DOMAIN req' = Clients /\ \A d \in Clients \ {c} : req'[d] = req[d]
           /\ RequestSound(req[c])'
  <1> PICK q : q = req[c]
    OBVIOUS
  <1> PICK n : n = [q EXCEPT !.pc = to]
    OBVIOUS
  <1>1. RequestSound(q)
    BY DEF RequestsShape
  <1>2. /\ n.pc = to /\ "pc" \in DOMAIN n /\ n.rep = q.rep /\ n.caller = q.caller
        /\ n.user = q.user /\ n.role = q.role /\ n.project = q.project /\ n.kind = q.kind
    BY <1>1 DEF RequestSound
  <1>3. /\ DOMAIN req' = Clients /\ \A d \in Clients \ {c} : req'[d] = req[d]
        /\ req'[c] = n
    BY DEF M!Goto, RequestsShape
  <1>4. RequestSound(req[c])'
    BY <1>1, <1>2, <1>3 DEF RequestSound, ChangePcs
  <1>5. QED
    BY <1>3, <1>4

LEMMA RespondSound ==
    ASSUME RequestsShape, NEW c \in Clients, M!Respond(c)
    PROVE  /\ DOMAIN req' = Clients /\ \A d \in Clients \ {c} : req'[d] = req[d]
           /\ RequestSound(req[c])'
  <1>1. /\ DOMAIN req' = Clients /\ \A d \in Clients \ {c} : req'[d] = req[d]
        /\ req'[c] = M!Idle
    BY DEF M!Respond, RequestsShape
  <1>2. RequestSound(req[c])'
    BY <1>1 DEF RequestSound, M!Idle, ChangePcs
  <1>3. QED
    BY <1>1, <1>2

(* One row of assignments is written, and nothing is added to it but what  *)
(* top allows for.                                                         *)
LEMMA AssignKeeps ==
    ASSUME RanksSound, top' \in [Projects -> Int], \A p \in Projects : top[p] <= top'[p],
           DOMAIN assign' = Users, \A u \in Users : DOMAIN assign'[u] = M!Roles,
           \A p \in Projects, u \in Users, r \in M!Roles :
              M!Reaches(assign'[u][r], p)
                 => M!Reaches(assign[u][r], p) \/ M!RoleRank[r] <= top'[p]
    PROVE  RanksSound'
  <1> SUFFICES ASSUME NEW p \in Projects
               PROVE  /\ 0 <= top'[p]
                      /\ \A u \in Users, r \in M!Roles :
                            M!Reaches(assign'[u][r], p) => M!RoleRank[r] <= top'[p]
    BY DEF RanksSound, M!Reaches
  <1>1. top[p] \in Int /\ top'[p] \in Int /\ 0 <= top[p] /\ top[p] <= top'[p]
    BY DEF RanksSound
  <1>2. ASSUME NEW u \in Users, NEW r \in M!Roles, M!Reaches(assign'[u][r], p)
        PROVE  M!RoleRank[r] <= top'[p]
    <2>1. M!RoleRank[r] \in Int
      BY RanksAreSmall
    <2>2. M!RoleRank[r] <= top'[p] \/ M!RoleRank[r] <= top[p]
      BY <1>2 DEF RanksSound
    <2>3. QED
      BY <1>1, <2>1, <2>2
  <1>3. QED
    BY <1>1, <1>2

LEMMA VersionKeeps ==
    ASSUME CacheSound, NEW u \in Users, version' = [version EXCEPT ![u] = @ + 1],
           UNCHANGED <<cache, done>>
    PROVE  CacheSound'
  BY DEF CacheSound

LEMMA GrantKeeps ==
    ASSUME MembersInv, NEW c \in Clients, M!GrantProject(c)
    PROVE  MembersInv'
  <1> PICK q : q = req[c]
    OBVIOUS
  <1>1. /\ RequestSound(q) /\ RequestsShape /\ RanksSound /\ CacheSound /\ FieldsSound
        /\ q.pc = "write" /\ q.kind = "add"
    BY DEF MembersInv, RequestsShape, M!GrantProject, M!At
  <1>2. q.user \in Users /\ q.role \in M!Roles /\ q.project \in Projects /\ q.pc \in ChangePcs
    BY <1>1 DEF RequestSound, ChangePcs
  <1>3. q.caller \notin Admins => M!RoleRank[q.role] <= top[q.project]
    BY <1>1 DEF RequestSound
  <1>4. /\ assign' = [assign EXCEPT ![q.user][q.role] =
                         IF Every \in @ THEN @ ELSE @ \cup {q.project}]
        /\ version' = [version EXCEPT ![q.user] = @ + 1]
        /\ top' = IF q.caller \in Admins
                  THEN [top EXCEPT ![q.project] = M!Max({@, M!RoleRank[q.role]})] ELSE top
        /\ M!Goto(c, "invalidate")
        /\ UNCHANGED <<perms, fields, deleted, cache, boot, todo, done>>
    BY DEF M!GrantProject
  <1>5. /\ top' \in [Projects -> Int] /\ \A p \in Projects : top[p] <= top'[p]
        /\ M!RoleRank[q.role] <= top'[q.project]
    <2>1. top \in [Projects -> Int] /\ M!RoleRank[q.role] \in Int
      BY <1>1, <1>2, RanksAreSmall DEF RanksSound
    <2>2. CASE q.caller \in Admins
      <3> PICK old : old = top[q.project]
        OBVIOUS
      <3> PICK rank : rank = M!RoleRank[q.role]
        OBVIOUS
      <3> PICK new : new = M!Max({old, rank})
        OBVIOUS
      <3>1. new \in {old, rank} /\ old <= new /\ rank <= new
        <4>1. old \in Int /\ rank \in Int
          BY <1>2, <2>1
        <4>2. \E m \in {old, rank} : \A x \in {old, rank} : m >= x
          BY <4>1
        <4>3. new \in {old, rank} /\ \A x \in {old, rank} : new >= x
          BY <4>2 DEF M!Max
        <4>4. QED
          BY <4>1, <4>3
      <3>2. top' = [top EXCEPT ![q.project] = new]
        BY <1>4, <2>2
      <3>3. QED
        BY <1>2, <2>1, <3>1, <3>2
    <2>3. CASE q.caller \notin Admins
      BY <1>3, <1>4, <2>1, <2>3
    <2>4. QED
      BY <2>2, <2>3
  <1>6. RanksSound'
    <2>1. /\ DOMAIN assign' = Users /\ \A u \in Users : DOMAIN assign'[u] = M!Roles
          /\ \A u \in Users, r \in M!Roles :
                assign'[u][r] = IF u = q.user /\ r = q.role /\ Every \notin assign[u][r]
                                THEN assign[u][r] \cup {q.project} ELSE assign[u][r]
      BY <1>1, <1>2, <1>4 DEF RanksSound
    <2>2. ASSUME NEW p \in Projects, NEW u \in Users, NEW r \in M!Roles,
                 M!Reaches(assign'[u][r], p)
          PROVE  M!Reaches(assign[u][r], p) \/ M!RoleRank[r] <= top'[p]
      <3>1. CASE u = q.user /\ r = q.role /\ p = q.project
        BY <1>5, <3>1
      <3>2. CASE ~(u = q.user /\ r = q.role /\ p = q.project)
        <4>1. Every # q.project
          BY <1>2, MembersAssumption
        <4>2. CASE assign'[u][r] = assign[u][r]
          BY <2>2, <4>2
        <4>3. CASE assign'[u][r] = assign[u][r] \cup {q.project} /\ p # q.project
          BY <2>2, <4>1, <4>3 DEF M!Reaches
        <4>4. QED
          BY <2>1, <3>2, <4>2, <4>3
      <3>3. QED
        BY <3>1, <3>2
    <2>3. QED
      BY <1>1, <1>5, <2>1, <2>2, AssignKeeps
  <1>7. CacheSound'
    BY <1>1, <1>2, <1>4, VersionKeeps
  <1>8. RequestsShape'
    <2>1. /\ DOMAIN req' = Clients /\ \A d \in Clients \ {c} : req'[d] = req[d]
          /\ RequestSound(req[c])'
      BY <1>1, <1>2, <1>4, GotoSound
    <2>2. todo' \in Seq(MemberRequests) /\ top \in [Projects -> Int]
      BY <1>1, <1>4 DEF RequestsShape, RanksSound
    <2>3. QED
      BY <1>1, <1>5, <2>1, <2>2, RequestKeeps
  <1>9. FieldsSound'
    BY <1>1, <1>4 DEF FieldsSound
  <1>10. QED
    BY <1>6, <1>7, <1>8, <1>9 DEF MembersInv

(* The other steps write no assignment that reaches further than before.   *)
LEMMA NoRaiseKeeps ==
    ASSUME MembersInv, NEW c \in Clients,
           DOMAIN req' = Clients, \A d \in Clients \ {c} : req'[d] = req[d],
           RequestSound(req[c])', UNCHANGED <<todo, top>>,
           DOMAIN assign' = Users, \A u \in Users : DOMAIN assign'[u] = M!Roles,
           \A p \in Projects, u \in Users, r \in M!Roles :
              M!Reaches(assign'[u][r], p) => M!Reaches(assign[u][r], p),
           CacheSound', FieldsSound'
    PROVE  MembersInv'
  <1>1. /\ RequestsShape /\ RanksSound /\ top \in [Projects -> Int]
        /\ \A p \in Projects : top[p] <= top'[p]
    BY DEF MembersInv, RanksSound
  <1>2. RanksSound'
    BY <1>1, AssignKeeps
  <1>3. RequestsShape'
    <2>1. todo' \in Seq(MemberRequests) /\ top' \in [Projects -> Int]
      BY <1>1 DEF RequestsShape
    <2>2. QED
      BY <1>1, <2>1, RequestKeeps
  <1>4. QED
    BY <1>2, <1>3 DEF MembersInv

LEMMA RemoveKeeps ==
    ASSUME MembersInv, NEW c \in Clients, M!RevokeProject(c) \/ M!RevokeUser(c)
    PROVE  MembersInv'
  <1> PICK q : q = req[c]
    OBVIOUS
  <1>1. /\ RequestSound(q) /\ RequestsShape /\ RanksSound /\ CacheSound /\ FieldsSound
        /\ q.pc = "write" \/ q.pc = "revokeUser"
    BY DEF MembersInv, RequestsShape, M!RevokeProject, M!RevokeUser, M!At
  <1>2. q.user \in Users
    BY <1>1 DEF RequestSound, ChangePcs
  <1>3. /\ version' = [version EXCEPT ![q.user] = @ + 1]
        /\ UNCHANGED <<perms, fields, deleted, cache, boot, todo, done, top>>
    BY DEF M!RevokeProject, M!RevokeUser
  <1>4. CacheSound' /\ FieldsSound'
    BY <1>1, <1>2, <1>3, VersionKeeps DEF FieldsSound
  <1>5. /\ DOMAIN assign' = Users /\ \A u \in Users : DOMAIN assign'[u] = M!Roles
        /\ \A u \in Users, r \in M!Roles : assign'[u][r] \subseteq assign[u][r]
    <2>1. CASE M!RevokeProject(c)
      <3>1. assign' = [assign EXCEPT ![q.user][q.role] =
                          IF Every \in @ THEN @ ELSE @ \ {q.project}]
        BY <2>1 DEF M!RevokeProject
      <3>2. DOMAIN assign = Users /\ \A u \in Users : DOMAIN assign[u] = M!Roles
        BY <1>1 DEF RanksSound
      <3>3. QED
        BY <1>2, <3>1, <3>2
    <2>2. CASE M!RevokeUser(c)
      BY <1>1, <1>2, <2>2 DEF M!RevokeUser, RanksSound
    <2>3. QED
      BY <2>1, <2>2
  <1>6. \A p \in Projects, u \in Users, r \in M!Roles :
           M!Reaches(assign'[u][r], p) => M!Reaches(assign[u][r], p)
    BY <1>5 DEF M!Reaches
  <1>7. /\ DOMAIN req' = Clients /\ \A d \in Clients \ {c} : req'[d] = req[d]
        /\ RequestSound(req[c])'
    <2>1. CASE M!RevokeProject(c)
      <3>1. M!Goto(c, "invalidate") /\ req[c].pc \in ChangePcs
        BY <2>1 DEF M!RevokeProject, M!At, ChangePcs
      <3>2. QED
        BY <1>1, <3>1, GotoSound
    <2>2. CASE M!RevokeUser(c)
      <3>1. M!Goto(c, "softDelete")
        BY <2>2 DEF M!RevokeUser
      <3>2. QED
        BY <1>1, <3>1, GotoSound
    <2>3. QED
      BY <2>1, <2>2
  <1>8. QED
    BY <1>3, <1>4, <1>5, <1>6, <1>7, NoRaiseKeeps

(* What the process held of the account is gone when it answers.           *)
LEMMA AnswerKeeps ==
    ASSUME MembersInv, NEW c \in Clients, M!Answer(c)
    PROVE  MembersInv'
  <1> PICK rep, u : rep = req[c].rep /\ u = req[c].user
    OBVIOUS
  <1>1. /\ RequestSound(req[c]) /\ RequestsShape /\ RanksSound /\ CacheSound /\ FieldsSound
        /\ req[c].pc = "invalidate"
    BY DEF MembersInv, RequestsShape, M!Answer, M!At
  <1>2. rep \in Replicas /\ u \in Users
    BY <1>1 DEF RequestSound, ChangePcs
  <1>3. /\ cache' = [cache EXCEPT ![rep][u] = M!None]
        /\ done' = [done EXCEPT ![rep][u] = version[u]]
        /\ M!Respond(c)
        /\ UNCHANGED <<assign, perms, fields, deleted, boot, todo, version, top>>
    BY DEF M!Answer, M!Invalidate
  <1>4. CacheSound'
    <2>1. /\ DOMAIN cache' = Replicas /\ \A q \in Replicas : DOMAIN cache'[q] = Users
          /\ \A q \in Replicas, v \in Users :
                cache'[q][v] = IF q = rep /\ v = u THEN M!None ELSE cache[q][v]
      BY <1>1, <1>2, <1>3 DEF CacheSound
    <2>2. /\ done' \in [Replicas -> [Users -> Int]] /\ version' \in [Users -> Int]
          /\ \A q \in Replicas, v \in Users :
                done'[q][v] = IF q = rep /\ v = u THEN version[u] ELSE done[q][v]
      BY <1>1, <1>2, <1>3 DEF CacheSound
    <2>3. ASSUME NEW q \in Replicas, NEW v \in Users
          PROVE  /\ done'[q][v] <= version'[v]
                 /\ cache'[q][v] # M!None =>
                       cache'[q][v].ver \in Int /\ done'[q][v] <= cache'[q][v].ver
      <3>1. version[v] \in Int /\ version' = version
        BY <1>1, <1>3 DEF CacheSound
      <3>2. CASE q = rep /\ v = u
        BY <2>1, <2>2, <3>1, <3>2
      <3>3. CASE ~(q = rep /\ v = u)
        BY <1>1, <2>1, <2>2, <3>1, <3>3 DEF CacheSound
      <3>4. QED
        BY <3>2, <3>3
    <2>4. QED
      BY <2>1, <2>2, <2>3 DEF CacheSound
  <1>5. /\ DOMAIN req' = Clients /\ \A d \in Clients \ {c} : req'[d] = req[d]
        /\ RequestSound(req[c])'
    BY <1>1, <1>3, RespondSound
  <1>6. DOMAIN assign' = Users /\ (\A v \in Users : DOMAIN assign'[v] = M!Roles) /\ FieldsSound'
    BY <1>1, <1>3 DEF RanksSound, FieldsSound
  <1>7. QED
    BY <1>3, <1>4, <1>5, <1>6, NoRaiseKeeps

LEMMA EndOfRequestKeeps ==
    ASSUME MembersInv, NEW c \in Clients, M!SoftDelete(c) \/ M!Abandon(c)
    PROVE  MembersInv'
  <1>1. /\ M!Respond(c)
        /\ UNCHANGED <<assign, perms, fields, cache, boot, todo, version, done, top>>
    BY DEF M!SoftDelete, M!Abandon
  <1>2. /\ DOMAIN req' = Clients /\ \A d \in Clients \ {c} : req'[d] = req[d]
        /\ RequestSound(req[c])'
    BY <1>1, RespondSound DEF MembersInv
  <1>3. /\ DOMAIN assign' = Users /\ \A v \in Users : DOMAIN assign'[v] = M!Roles
        /\ CacheSound' /\ FieldsSound'
    BY <1>1 DEF MembersInv, RanksSound, FieldsSound, CacheSound
  <1>4. QED
    BY <1>1, <1>2, <1>3, NoRaiseKeeps

(* The permission comes with its restriction.                              *)
LEMMA SetFieldsKeeps ==
    ASSUME MembersInv, NEW c \in Clients, M!SetRoleFields(c)
    PROVE  MembersInv'
  <1> PICK q : q = req[c]
    OBVIOUS
  <1>1. /\ RequestSound(q) /\ RequestsShape /\ RanksSound /\ CacheSound /\ FieldsSound
        /\ q.pc = "setFields"
    BY DEF MembersInv, RequestsShape, M!SetRoleFields, M!At
  <1>2. /\ M!Respond(c) /\ UNCHANGED <<assign, deleted, cache, boot, todo, version, done, top>>
        /\ perms' = [perms EXCEPT ![q.role] = @ \cup {"runs.read"}]
    BY DEF M!SetRoleFields, M!WriteRoleFields
  <1>3. /\ DOMAIN fields' = M!Roles /\ \A r \in M!Roles \ {q.role} : fields'[r] = fields[r]
    BY <1>1 DEF M!SetRoleFields, M!WriteRoleFields, FieldsSound
  <1>4. FieldsSound'
    BY <1>1, <1>2, <1>3 DEF FieldsSound
  <1>5. /\ DOMAIN req' = Clients /\ \A d \in Clients \ {c} : req'[d] = req[d]
        /\ RequestSound(req[c])'
    BY <1>1, <1>2, RespondSound
  <1>6. DOMAIN assign' = Users /\ (\A v \in Users : DOMAIN assign'[v] = M!Roles) /\ CacheSound'
    BY <1>1, <1>2 DEF RanksSound, CacheSound
  <1>7. QED
    BY <1>2, <1>4, <1>5, <1>6, NoRaiseKeeps

LEMMA CacheExpiresKeeps ==
    ASSUME MembersInv, NEW rep \in Replicas, NEW u \in Users, M!CacheExpires(rep, u)
    PROVE  MembersInv'
  <1>1. /\ cache' = [cache EXCEPT ![rep][u] = M!None]
        /\ UNCHANGED <<assign, perms, fields, boot, req, todo, version, done, top>>
    BY DEF M!CacheExpires
  <1>2. /\ DOMAIN cache' = Replicas /\ \A q \in Replicas : DOMAIN cache'[q] = Users
        /\ \A q \in Replicas, v \in Users :
              cache'[q][v] = IF q = rep /\ v = u THEN M!None ELSE cache[q][v]
    BY <1>1 DEF CacheSound, MembersInv
  <1>3. CacheSound'
    BY <1>1, <1>2 DEF CacheSound, MembersInv
  <1>4. RequestsShape' /\ RanksSound' /\ FieldsSound'
    BY <1>1 DEF MembersInv, RequestsShape, RequestSound, RanksSound, FieldsSound
  <1>5. QED
    BY <1>3, <1>4 DEF MembersInv

LEMMA ReconcileKeeps ==
    ASSUME MembersInv, NEW rep \in Replicas, M!Reconcile(rep)
    PROVE  MembersInv'
  <1> PICK role \in boot[rep].left :
        /\ M!ReplaceRolePermissions(role, boot[rep].bin[role])
        /\ boot' = [boot EXCEPT ![rep].left = @ \ {role}]
        /\ UNCHANGED <<assign, deleted, cache, req, todo, version, done, top>>
    BY DEF M!Reconcile
  <1> PICK keys : keys = boot[rep].bin[role]
    OBVIOUS
  <1>1. FieldsSound /\ RanksSound /\ CacheSound /\ RequestsShape
    BY DEF MembersInv
  <1>2. role \in M!Roles
    BY <1>1 DEF FieldsSound, M!Roles
  <1>3. /\ DOMAIN perms' = M!Roles /\ DOMAIN fields' = M!Roles
        /\ perms'[role] = keys
        /\ fields'[role] = IF "runs.read" \in perms[role] \cap keys THEN fields[role]
                           ELSE M!Unrestricted
        /\ \A r \in M!Roles \ {role} : perms'[r] = perms[r] /\ fields'[r] = fields[r]
    BY <1>1, <1>2 DEF M!ReplaceRolePermissions, FieldsSound
  <1>4. /\ DOMAIN boot' = Replicas
        /\ \A q \in Replicas : boot'[q].left \subseteq M!Builtin /\ DOMAIN boot'[q] = {"left", "bin"}
    BY <1>1 DEF FieldsSound
  <1>5. FieldsSound'
    BY <1>1, <1>3, <1>4 DEF FieldsSound
  <1>6. RanksSound' /\ CacheSound' /\ RequestsShape'
    BY <1>1 DEF RanksSound, CacheSound, RequestsShape, RequestSound
  <1>7. QED
    BY <1>5, <1>6 DEF MembersInv

LEMMA RestartOfMembersKeeps ==
    ASSUME MembersInv, NEW rep \in Replicas, M!Restart(rep)
    PROVE  MembersInv'
  <1>1. FieldsSound /\ RanksSound /\ CacheSound /\ RequestsShape
    BY DEF MembersInv
  <1>2. /\ UNCHANGED <<assign, perms, fields, deleted, version, done, top>>
        /\ todo # <<>> /\ todo' = Tail(todo)
    BY DEF M!Restart
  <1>3. FieldsSound'
    BY <1>1, <1>2 DEF M!Restart, FieldsSound
  <1>4. RanksSound'
    BY <1>1, <1>2 DEF RanksSound
  <1>5. CacheSound'
    <2>1. /\ DOMAIN cache' = Replicas /\ \A q \in Replicas : DOMAIN cache'[q] = Users
          /\ \A q \in Replicas, v \in Users : cache'[q][v] = cache[q][v] \/ cache'[q][v] = M!None
      BY <1>1 DEF M!Restart, CacheSound
    <2>2. QED
      BY <1>1, <1>2, <2>1 DEF CacheSound
  <1>6. RequestsShape'
    <2>1. DOMAIN req' = Clients /\ \A c \in Clients : req'[c] = req[c] \/ req'[c] = M!Idle
      BY <1>1 DEF M!Restart, RequestsShape
    <2>2. ASSUME NEW c \in Clients PROVE RequestSound(req[c])'
      <3>1. CASE req'[c] = M!Idle
        BY <3>1 DEF RequestSound, M!Idle, ChangePcs
      <3>2. CASE req'[c] = req[c]
        BY <1>1, <1>2, <3>2 DEF RequestsShape, RequestSound
      <3>3. QED
        BY <2>1, <3>1, <3>2
    <2>3. todo' \in Seq(MemberRequests)
      BY <1>1, <1>2 DEF RequestsShape
    <2>4. QED
      BY <2>1, <2>2, <2>3 DEF RequestsShape
  <1>7. QED
    BY <1>3, <1>4, <1>5, <1>6 DEF MembersInv

LEMMA MembersStep ==
    ASSUME MembersInv, [M!Next]_(M!vars)
    PROVE  MembersInv'
  <1>1. CASE UNCHANGED M!vars
    BY <1>1 DEF M!vars, MembersInv, RequestsShape, RequestSound, RanksSound, CacheSound, FieldsSound
  <1>2. ASSUME NEW c \in Clients, M!Arrivals(c)
        PROVE  MembersInv'
    BY <1>2, ArriveKeeps DEF M!Arrivals, M!AddMember, M!RemoveMember, M!DeleteUser,
                             M!SaveRunVisibility
  <1>3. ASSUME NEW c \in Clients, M!Steps(c)
        PROVE  MembersInv'
    BY <1>3, ReadingKeeps, GrantKeeps, RemoveKeeps, AnswerKeeps, EndOfRequestKeeps, SetFieldsKeeps
       DEF M!Steps
  <1>4. ASSUME NEW rep \in Replicas,
               M!Reconcile(rep) \/ M!Restart(rep) \/ \E u \in Users : M!CacheExpires(rep, u)
        PROVE  MembersInv'
    BY <1>4, ReconcileKeeps, RestartOfMembersKeeps, CacheExpiresKeeps
  <1>5. QED
    BY <1>1, <1>2, <1>3, <1>4 DEF M!Next

(* For any accounts, projects, roles and replicas: a rank on its way to    *)
(* the table was held by somebody when it was compared, no cache is older  *)
(* than the last answer of its replica, and a restricted role holds the    *)
(* permission (member_service.go, authz_repo.go).                          *)
THEOREM MembersInvariant == Spec => [](focus = "members" => MembersInv)
  <1>1. Init => (focus = "members" => MembersInv)
    BY MembersInit DEF Init
  <1>2. (focus = "members" => MembersInv) /\ [Next]_allVars => (focus = "members" => MembersInv)'
    BY StepsOfOne, MembersStep
  <1>3. QED
    BY <1>1, <1>2, PTL DEF Spec

(* Project administrators, however many act at once and through whichever  *)
(* replica, raise nobody above what the start or a platform administrator  *)
(* gave on the project (Grant and rankOf of member_service.go).            *)
THEOREM NobodyIsRaised == Spec => []NoEscalation
  <1>1. (focus = "members" => MembersInv) => NoEscalation
    <2> SUFFICES ASSUME MembersInv, NEW p \in Projects
                 PROVE  M!HighestOn(assign, p) <= top[p]
      BY DEF NoEscalation, M!NoEscalation
    <2>1. PICK R : R = {r \in M!Roles : \E u \in Users : M!Reaches(assign[u][r], p)}
      OBVIOUS
    <2>2. PICK h : h = Highest(R)
      OBVIOUS
    <2>3. M!HighestOn(assign, p) = h
      BY <2>1, <2>2 DEF M!HighestOn, Highest
    <2>4. R \in SUBSET M!Roles /\ \A r \in R : M!RoleRank[r] <= top[p]
      BY <2>1 DEF MembersInv, RanksSound
    <2>5. h \in 0..3 /\ (h = 0 \/ \E r \in R : h = M!RoleRank[r])
      BY <2>2, <2>4, HighestRank
    <2>6. top[p] \in Int /\ 0 <= top[p]
      BY DEF MembersInv, RanksSound
    <2>7. QED
      BY <2>3, <2>4, <2>5, <2>6
  <1>2. QED
    BY <1>1, MembersInvariant, PTL

(* A replica that has answered a change decides from nothing older (the    *)
(* invalidation at the end of Grant and Revoke).                           *)
THEOREM ChangesAreSeen == Spec => []ChangeSeenWhereMade
  <1>1. (focus = "members" => MembersInv) => ChangeSeenWhereMade
    BY DEF ChangeSeenWhereMade, M!ChangeSeenWhereMade, MembersInv, CacheSound
  <1>2. QED
    BY <1>1, MembersInvariant, PTL

(* A restart or an upgrade never widens what an administrator narrowed, as *)
(* long as the role keeps the permission (ReplaceRolePermissions of        *)
(* authz_repo.go).                                                         *)
THEOREM RestrictionsStand == Spec => NarrowedStaysNarrow
  <1>1. (focus = "members" => MembersInv) /\ [Next]_allVars
            => [focus = "members" => M!OnlyNarrows]_allVars
    <2> SUFFICES ASSUME MembersInv, [M!Next]_(M!vars), NEW role \in M!Builtin,
                        fields[role] # M!Unrestricted, fields'[role] # fields[role]
                 PROVE  \/ "runs.read" \notin perms'[role]
                        \/ \E c \in Clients : M!At(c, "setFields") /\ req[c].role = role
      BY StepsOfOne DEF M!OnlyNarrows
    <2>1. FieldsSound /\ role \in M!Roles
      BY DEF MembersInv, M!Roles
    <2>2. CASE \E c \in Clients : M!SetRoleFields(c)
      <3> PICK c \in Clients : M!SetRoleFields(c)
        BY <2>2
      <3>1. req[c].role = role
        BY <2>1 DEF M!SetRoleFields, M!WriteRoleFields, FieldsSound
      <3>2. QED
        BY <3>1 DEF M!SetRoleFields
    <2>3. CASE \E rep \in Replicas : M!Reconcile(rep)
      <3> PICK rep \in Replicas, r \in M!Builtin :
             M!ReplaceRolePermissions(r, boot[rep].bin[r])
        BY <2>1, <2>3 DEF M!Reconcile, FieldsSound
      <3>1. r = role
        BY <2>1 DEF M!ReplaceRolePermissions, FieldsSound
      <3>2. "runs.read" \in perms[role]
        BY <2>1 DEF FieldsSound
      <3>3. "runs.read" \notin perms'[role]
        BY <2>1, <3>1, <3>2 DEF M!ReplaceRolePermissions, FieldsSound
      <3>4. QED
        BY <3>3
    <2>4. (\E c \in Clients : M!SetRoleFields(c)) \/ (\E rep \in Replicas : M!Reconcile(rep))
      <3>1. fields' # fields
        OBVIOUS
      <3>2. M!Next
        BY <3>1 DEF M!vars
      <3>3. CASE \E c \in Clients : M!Arrivals(c)
        BY <3>1, <3>3 DEF M!Arrivals, M!AddMember, M!RemoveMember, M!DeleteUser,
                          M!SaveRunVisibility, M!Arrive
      <3>4. CASE \E c \in Clients : M!Steps(c)
        BY <3>1, <3>4 DEF M!Steps, M!GrantByEmail, M!GetByEmail, M!Grant, M!GrantTarget,
              M!GrantRank, M!GrantProject, M!Revoke, M!RevokeListed, M!mayChange,
              M!RevokeUnscoped, M!RevokeProject, M!Answer, M!RevokeUser, M!SoftDelete, M!Abandon
      <3>5. CASE \E rep \in Replicas : M!Restart(rep) \/ \E u \in Users : M!CacheExpires(rep, u)
        BY <3>1, <3>5 DEF M!Restart, M!CacheExpires
      <3>6. QED
        BY <3>2, <3>3, <3>4, <3>5 DEF M!Next
    <2>5. QED
      BY <2>2, <2>3, <2>4
  <1>2. QED
    BY <1>1, MembersInvariant, PTL DEF Spec, NarrowedStaysNarrow

---------------------------------------------------------------------------
(* Calls: where a run is, and what its target still works on *)

RunFields == {"pc", "row", "rowAttempt", "started", "attempt", "since", "status", "beside"}
Places == {"queued", "claim", "resolve", "send", "waiting", "pause", "finish", "notify", "end"}
Outcomes == {"success", "failed", "timeout"}

(* As far as its own job says, the watchdog leaves its attempts alone.     *)
Fits == job.maxDuration \notin 1..(P!AttemptsTake - 1)

WorkOf(r) == {c \in atWork : c.run = r}
Accepted(r, n) ==
    \E a \in answers : a.run = r /\ a.attempt = n /\ P!SuccessfulStatus(a.code)

(* Before the next attempt every call of an earlier one is broken.         *)
PlaceSound(u, r) ==
    /\ DOMAIN u = RunFields /\ u.pc \in Places
    /\ u.attempt \in Int /\ u.since \in Int /\ u.started \in Int
    /\ u.pc \in {"queued", "claim", "resolve"} => WorkOf(r) = {}
    /\ u.pc \in {"send", "waiting", "pause"} =>
          /\ u.attempt \in 1..(job.retries + 1)
          /\ \A c \in WorkOf(r) : c.attempt <= u.attempt
          /\ \A c \in WorkOf(r) : c.attempt < u.attempt => c.broken
    /\ u.pc = "send" => (\A c \in WorkOf(r) : c.attempt # u.attempt)
    /\ u.pc = "pause" => (u.attempt <= job.retries /\ \A c \in WorkOf(r) : c.broken)

(* A success is backed by the answer to the last attempt.                  *)
SaysSound(u, r) ==
    /\ u.pc \in {"finish", "notify"} => u.status \in Outcomes
    /\ u.pc = "finish" /\ u.status = "success" => Accepted(r, u.attempt)
    /\ u.pc = "notify" => u.row = u.status
    /\ u.row = "success" => (u.pc \in {"notify", "end"} /\ Accepted(r, u.rowAttempt))

(* Every attempt before this one took its timeout and its pause at most.   *)
TimeSound(u) ==
    /\ u.pc = "resolve" => clock = u.started
    /\ u.pc = "send" => clock - u.started <= (u.attempt - 1) * (P!Timeout + 1)
    /\ u.pc = "waiting" => (/\ u.since - u.started <= (u.attempt - 1) * (P!Timeout + 1)
                            /\ clock - u.since <= P!Timeout)
    /\ u.pc = "pause" => (/\ u.since - u.started <= (u.attempt - 1) * (P!Timeout + 1) + P!Timeout
                          /\ clock - u.since <= 1)

RowSound(u) == Fits /\ u.pc \in P!Calling => u.row = "running"

RunSound(u, r) == PlaceSound(u, r) /\ SaysSound(u, r) /\ TimeSound(u) /\ RowSound(u)

WorkSound ==
    /\ \A c \in atWork : /\ DOMAIN c = {"run", "attempt", "broken"} /\ c.run \in Runs
                         /\ c.attempt \in Int /\ c.broken \in BOOLEAN
    /\ \A c, d \in atWork : c.run = d.run /\ c.attempt = d.attempt => c = d
    /\ \A c, d \in atWork : c.run = d.run /\ c.attempt < d.attempt => c.broken
    /\ \A c \in atWork, a \in answers : ~(c.run = a.run /\ c.attempt = a.attempt)

(* Between its count and the end of its attempts.                          *)
Counted == P!Calling \cup {"claim"}

(* One that counted while the other was past its count did so before the   *)
(* other had claimed: later its running row would have been counted.       *)
CountsRaced ==
    Fits => \A r, s \in Runs :
        run[r].pc \in Counted /\ run[s].pc \in Counted /\ r # s => P!Raced(r, s)

(* The same of a run r that is about to become u.                          *)
FitsIn(r, u) ==
    Fits /\ u.pc \in Counted =>
        \A o \in Runs : o # r /\ run[o].pc \in Counted => r \in run[o].beside \/ o \in u.beside

Messages == [run : Runs, status : Outcomes, to : SUBSET STRING]

(* A message says what is, and stays, on the row of its run.               *)
MessageSound(m) ==
    m \in Messages /\ run[m.run].pc = "end" /\ run[m.run].row = m.status

MessagesSound ==
    /\ list \in ListRows
    /\ box \in Seq(Messages) /\ \A i \in 1..Len(box) : MessageSound(box[i])
    /\ sender.pc = "idle" \/ MessageSound(sender.message)
    /\ DOMAIN sender \in {{"pc"}, {"pc", "message"}}
    /\ \A m \in told : MessageSound(m)

CallsShape ==
    /\ DOMAIN run = Runs /\ clock \in Int
    /\ job.retries \in 0..5 /\ job.timeout \in Nat \ {0} /\ job.maxDuration \in Nat

CallsInv ==
    /\ CallsShape /\ WorkSound /\ CountsRaced /\ MessagesSound
    /\ \A r \in Runs : RunSound(run[r], r)

LEMMA TimeoutIs ==
    ASSUME CallsShape
    PROVE  P!Timeout \in Nat /\ 1 <= P!Timeout /\ P!Timeout <= job.timeout
  <1>1. job.timeout \in Nat \ {0} /\ MaxTimeout \in Nat \ {0}
    BY CallsAssumption DEF CallsShape
  <1>2. \E x \in {job.timeout, MaxTimeout} : \A y \in {job.timeout, MaxTimeout} : x <= y
    BY <1>1
  <1>3. /\ P!Timeout \in {job.timeout, MaxTimeout}
        /\ \A y \in {job.timeout, MaxTimeout} : P!Timeout <= y
    BY <1>2 DEF P!Timeout, P!Min
  <1>4. QED
    BY <1>1, <1>3

(* While a run is at its attempts they have not taken all their time.      *)
LEMMA AttemptsInTime ==
    ASSUME CallsShape, NEW r, NEW u, PlaceSound(u, r), TimeSound(u), u.pc \in P!Calling
    PROVE  clock - u.started <= P!AttemptsTake /\ P!AttemptsTake \in Nat
  <1> DEFINE T == P!Timeout
             R == job.retries
  <1>1. T \in Nat /\ R \in 0..5 /\ clock \in Int /\ u.started \in Int /\ u.since \in Int
    BY TimeoutIs DEF CallsShape, PlaceSound
  <1>2. P!AttemptsTake = R * (T + 1) + T /\ R * (T + 1) \in Nat
    <2>1. R * T \in Nat /\ (R + 1) * T = R * T + T /\ R * (T + 1) = R * T + R
      <3>1. R \in {0, 1, 2, 3, 4, 5}
        BY <1>1
      <3>2. R * (T + 1) = R * T + R
        BY <1>1, <3>1
      <3>3. QED
        BY <1>1, <3>2, ProductGrows
    <2>2. QED
      BY <1>1, <2>1 DEF P!AttemptsTake
  <1>3. CASE u.pc = "resolve"
    BY <1>1, <1>2, <1>3 DEF TimeSound
  <1>4. CASE u.pc # "resolve"
    <2>1. u.pc \in {"send", "waiting", "pause"}
      BY <1>4 DEF P!Calling
    <2>2. u.attempt \in 1..(R + 1) /\ (u.pc = "pause" => u.attempt <= R)
      BY <2>1 DEF PlaceSound
    <2>3. PICK n \in 0..5 : n = u.attempt - 1
      BY <1>1, <2>2
    <2>4. /\ n <= R /\ n * (T + 1) \in Nat /\ n * (T + 1) <= R * (T + 1)
      <3>1. n <= R /\ T + 1 \in Nat
        BY <1>1, <2>2, <2>3
      <3>2. PICK t \in Nat : t = T + 1
        BY <3>1
      <3>3. n * t \in Nat /\ n * t <= R * t
        BY <1>1, <2>3, <3>1, ProductGrows
      <3>4. QED
        BY <3>1, <3>2, <3>3
    <2>5. CASE u.pc = "send"
      BY <1>1, <1>2, <2>3, <2>4, <2>5 DEF TimeSound
    <2>6. CASE u.pc = "waiting"
      <3>1. u.since - u.started <= n * (T + 1) /\ clock - u.since <= T
        BY <2>3, <2>6 DEF TimeSound
      <3>2. QED
        BY <1>1, <1>2, <2>4, <3>1
    <2>7. CASE u.pc = "pause"
      <3>1. u.since - u.started <= n * (T + 1) + T /\ clock - u.since <= 1
        BY <2>3, <2>7 DEF TimeSound
      <3>2. n + 1 \in 0..5 /\ n + 1 <= R
        BY <1>1, <2>2, <2>3, <2>7
      <3>3. (n + 1) * (T + 1) = n * (T + 1) + T + 1 /\ (n + 1) * (T + 1) <= R * (T + 1)
        BY <1>1, <3>2, ProductGrows
      <3>4. QED
        BY <1>1, <1>2, <2>4, <3>1, <3>3
    <2>8. QED
      BY <2>1, <2>5, <2>6, <2>7
  <1>5. QED
    BY <1>3, <1>4

(* A job that fits is given its attempts.                                  *)
LEMMA MaxDurationCovers ==
    ASSUME CallsShape, Fits
    PROVE  P!AttemptsTake <= P!MaxDuration /\ P!MaxDuration \in Nat /\ P!AttemptsTake \in Nat
  <1>1. PICK R \in 0..5 : R = job.retries
    BY DEF CallsShape
  <1>2. PICK T \in Nat : T = P!Timeout
    BY TimeoutIs
  <1>3. PICK J \in Nat : J = job.timeout
    BY DEF CallsShape
  <1>4. 1 <= T /\ T <= J
    BY <1>2, <1>3, TimeoutIs
  <1>5. PICK k \in Nat : P!AttemptsTake = k + T + R /\ k = R * T /\ k <= 5 * T
    <2>1. (R + 1) * T = R * T + T /\ R * T \in Nat
      BY ProductGrows
    <2>2. R * T <= 5 * T
      BY ProductGrows
    <2>3. P!AttemptsTake = (R + 1) * T + R
      BY <1>1, <1>2 DEF P!AttemptsTake
    <2>4. QED
      BY <2>1, <2>2, <2>3
  <1>6. CASE job.maxDuration = 0
    <2>1. P!MaxDuration = P!Max({10 * J, DefaultFloor})
      BY <1>3, <1>6 DEF P!MaxDuration
    <2>2. 10 * J \in Nat /\ DefaultFloor \in Nat /\ DefaultFloor >= 11
      BY <1>3, CallsAssumption
    <2>3. \E x \in {10 * J, DefaultFloor} : \A y \in {10 * J, DefaultFloor} : x >= y
      BY <2>2
    <2>4. /\ P!MaxDuration \in {10 * J, DefaultFloor}
          /\ P!MaxDuration >= 10 * J /\ P!MaxDuration >= DefaultFloor
      BY <2>1, <2>3 DEF P!Max
    <2>5. P!MaxDuration \in Nat
      BY <2>2, <2>4
    <2>6. k + T + R <= 10 * J \/ k + T + R <= 11
      BY <1>1, <1>2, <1>3, <1>4, <1>5
    <2>7. QED
      BY <1>5, <2>2, <2>4, <2>5, <2>6
  <1>7. CASE job.maxDuration # 0
    <2>1. P!MaxDuration = job.maxDuration /\ job.maxDuration \in Nat
      BY <1>7 DEF P!MaxDuration, CallsShape
    <2>2. P!AttemptsTake \in Nat
      <3>1. P!AttemptsTake = k + T + R
        BY <1>5
      <3>2. R \in Nat
        OBVIOUS
      <3>3. k + T + R \in Nat
        BY <3>2
      <3>4. QED
        BY <3>1, <3>3
    <2>3. QED
      BY <1>7, <2>1, <2>2 DEF Fits
  <1>8. QED
    BY <1>6, <1>7

---------------------------------------------------------------------------
(* Calls: what leaves a run as sound as it was *)

LEMMA RunKept ==
    ASSUME NEW o, NEW u, RunSound(u, o), run'[o] = u, UNCHANGED <<job, clock>>,
           WorkOf(o)' \subseteq WorkOf(o),
           u.pc = "waiting" \/ \A n : Accepted(o, n) => Accepted(o, n)'
    PROVE  RunSound(run[o], o)'
  <1>1. P!Timeout' = P!Timeout /\ Fits' = Fits
    BY DEF P!Timeout, Fits, P!AttemptsTake
  <1>2. PlaceSound(run[o], o)'
    BY DEF RunSound, PlaceSound
  <1>3. SaysSound(run[o], o)'
    BY DEF RunSound, SaysSound
  <1>4. TimeSound(run[o])'
    BY <1>1 DEF RunSound, TimeSound
  <1>5. RowSound(run[o])'
    BY <1>1 DEF RunSound, RowSound
  <1>6. QED
    BY <1>2, <1>3, <1>4, <1>5 DEF RunSound

(* No run passes its count, and none that did forgets it.                  *)
LEMMA CountsStay ==
    ASSUME CallsInv, UNCHANGED job,
           \A o \in Runs : run'[o].pc = run[o].pc /\ run'[o].beside = run[o].beside
    PROVE  CountsRaced'
  <1>1. Fits' = Fits
    BY DEF Fits, P!AttemptsTake, P!Timeout
  <1>2. QED
    BY <1>1 DEF CallsInv, CountsRaced, P!Raced

LEMMA StaysCounted ==
    ASSUME CallsInv, NEW r \in Runs, NEW u,
           u.pc \in Counted => run[r].pc \in Counted /\ u.beside = run[r].beside
    PROVE  FitsIn(r, u)
  BY DEF CallsInv, CountsRaced, FitsIn, P!Raced

LEMMA CallsStutter ==
    ASSUME CallsInv, UNCHANGED P!vars
    PROVE  CallsInv'
  <1>1. UNCHANGED <<job, run, atWork, answers, clock, list, box, sender, told>>
    BY DEF P!vars, P!runVars, P!mailVars
  <1>2. (CallsShape /\ WorkSound)'
    BY <1>1 DEF CallsInv, CallsShape, WorkSound
  <1>3. MessagesSound'
    BY <1>1 DEF CallsInv, MessagesSound, MessageSound
  <1>4. ASSUME NEW o \in Runs PROVE RunSound(run[o], o)'
    <2>1. RunSound(run[o], o)
      BY DEF CallsInv
    <2>2. PICK u : u = run[o]
      OBVIOUS
    <2>3. WorkOf(o)' = WorkOf(o) /\ \A n : Accepted(o, n) => Accepted(o, n)'
      BY <1>1 DEF WorkOf, Accepted
    <2>4. QED
      BY <1>1, <2>1, <2>2, <2>3, RunKept
  <1>5. \A o \in Runs : RunSound(run[o], o)'
    BY <1>4
  <1>6. QED
    BY <1>1, <1>2, <1>3, <1>5, CountsStay DEF CallsInv

(* A message tells of a run that is over: it stays true when another run   *)
(* goes on.                                                                *)
LEMMA MessagesStay ==
    ASSUME MessagesSound, UNCHANGED <<list, box, sender, told>>,
           \A o \in Runs : run[o].pc = "end" /\ run[o].row \in Outcomes => run'[o] = run[o]
    PROVE  MessagesSound'
  <1>1. ASSUME NEW m, MessageSound(m) PROVE MessageSound(m)'
    BY <1>1 DEF MessageSound, Messages
  <1>2. QED
    BY <1>1 DEF MessagesSound

(* A run goes on; nothing else does.                                       *)
LEMMA OneRunSteps ==
    ASSUME CallsInv, NEW r \in Runs, NEW u, run[r].pc # "end", P!Set(r, u),
           UNCHANGED <<job, clock, answers>>,
           WorkSound', MessagesSound',
           \A o \in Runs : o # r => WorkOf(o)' = WorkOf(o),
           RunSound(u, r)', FitsIn(r, u)
    PROVE  CallsInv'
  <1>1. /\ DOMAIN run = Runs /\ DOMAIN run' = Runs /\ run'[r] = u
        /\ \A o \in Runs : o # r => run'[o] = run[o]
    BY DEF CallsInv, CallsShape, P!Set
  <1>2. CallsShape'
    BY <1>1 DEF CallsInv, CallsShape
  <1>3. CountsRaced'
    <2>1. Fits' = Fits
      BY DEF Fits, P!AttemptsTake, P!Timeout
    <2>2. CountsRaced
      BY DEF CallsInv
    <2>3. QED
      BY <1>1, <2>1, <2>2 DEF CountsRaced, FitsIn, P!Raced
  <1>4. ASSUME NEW o \in Runs PROVE RunSound(run[o], o)'
    <2>1. CASE o = r
      BY <1>1, <2>1
    <2>2. CASE o # r
      <3>1. run'[o] = run[o] /\ RunSound(run[o], o)
        BY <1>1, <2>2 DEF CallsInv
      <3>2. PICK v : v = run[o]
        OBVIOUS
      <3>3. \A n : Accepted(o, n) => Accepted(o, n)'
        BY DEF Accepted
      <3>4. QED
        BY <2>2, <3>1, <3>2, <3>3, RunKept
    <2>3. QED
      BY <2>1, <2>2
  <1>5. \A o \in Runs : RunSound(run[o], o)'
    BY <1>4
  <1>6. QED
    BY <1>2, <1>3, <1>5 DEF CallsInv

(* The same, where not even its calls change: what the new state must be   *)
(* is said of the old one.                                                 *)
LEMMA RunSteps ==
    ASSUME CallsInv, NEW r \in Runs, NEW u, run[r].pc # "end", P!Set(r, u),
           UNCHANGED <<job, clock, answers, atWork>>,
           MessagesSound', RunSound(u, r), FitsIn(r, u)
    PROVE  CallsInv'
  <1>1. WorkSound' /\ \A o \in Runs : WorkOf(o)' = WorkOf(o)
    BY DEF CallsInv, WorkSound, WorkOf
  <1>2. DOMAIN run = Runs /\ run'[r] = u
    BY DEF CallsInv, CallsShape, P!Set
  <1>3. \A n : Accepted(r, n) => Accepted(r, n)'
    BY DEF Accepted
  <1>4. RunSound(run[r], r)'
    BY <1>1, <1>2, <1>3, RunKept
  <1>5. RunSound(u, r)'
    BY <1>2, <1>4
  <1>6. QED
    BY <1>1, <1>5, OneRunSteps

(* And where it tells nothing.                                             *)
LEMMA QuietRunSteps ==
    ASSUME CallsInv, NEW r \in Runs, NEW u, run[r].pc # "end", P!Set(r, u),
           UNCHANGED <<job, clock, answers, atWork>>, UNCHANGED P!mailVars,
           RunSound(u, r), FitsIn(r, u)
    PROVE  CallsInv'
  <1>1. \A o \in Runs : run[o].pc = "end" => run'[o] = run[o]
    BY DEF CallsInv, CallsShape, P!Set
  <1>2. MessagesSound'
    BY <1>1, MessagesStay DEF CallsInv, P!mailVars
  <1>3. QED
    BY <1>2, RunSteps

---------------------------------------------------------------------------
(* Calls: the steps of a run *)

(* Beyond its attempts a run has only to say what is true.                 *)
LEMMA DoneSound ==
    ASSUME NEW u, NEW r, NEW q, RunSound(q, r),
           DOMAIN u = RunFields, u.pc \in {"notify", "end"},
           u.attempt = q.attempt, u.since = q.since, u.started = q.started, SaysSound(u, r)
    PROVE  RunSound(u, r)
  <1>1. PlaceSound(u, r)
    BY DEF RunSound, PlaceSound, Places
  <1>2. TimeSound(u) /\ RowSound(u)
    BY DEF TimeSound, RowSound, P!Calling
  <1>3. QED
    BY <1>1, <1>2 DEF RunSound

(* A count finds the row of every run at its attempts, if they fit, and    *)
(* keeps what it cannot find.                                              *)
LEMMA CountingKeeps ==
    ASSUME CallsInv, NEW r \in Runs, P!CheckSingleRun(r) PROVE CallsInv'
  <1>1. PICK q : q = run[r]
    OBVIOUS
  <1>2. /\ q.pc = "queued"
        /\ UNCHANGED <<job, clock, answers, atWork>> /\ UNCHANGED P!mailVars
    BY <1>1 DEF P!CheckSingleRun, P!At
  <1>3. RunSound(q, r)
    BY <1>1 DEF CallsInv
  <1>4. CASE P!RunningBeside(r) # {}
    <2>1. PICK u : u = [q EXCEPT !.pc = "end", !.row = "skipped"]
      OBVIOUS
    <2>2. P!Set(r, u)
      BY <1>1, <1>4, <2>1 DEF P!CheckSingleRun
    <2>3. /\ DOMAIN u = RunFields /\ u.pc = "end" /\ u.row = "skipped"
          /\ u.started = q.started /\ u.attempt = q.attempt /\ u.since = q.since
      BY <1>3, <2>1 DEF RunSound, PlaceSound, RunFields
    <2>4. SaysSound(u, r)
      BY <2>3 DEF SaysSound
    <2>5. RunSound(u, r)
      BY <1>3, <2>3, <2>4, DoneSound
    <2>6. FitsIn(r, u)
      BY <2>3 DEF FitsIn, Counted, P!Calling
    <2>7. QED
      BY <1>1, <1>2, <2>2, <2>5, <2>6, QuietRunSteps
  <1>5. CASE P!RunningBeside(r) = {}
    <2>1. PICK b : b = {o \in Runs \ {r} : run[o].pc = "claim"}
      OBVIOUS
    <2>2. PICK u : u = [q EXCEPT !.pc = "claim", !.since = 0, !.beside = b]
      OBVIOUS
    <2>3. P!Set(r, u)
      BY <1>1, <1>5, <2>1, <2>2 DEF P!CheckSingleRun, P!At
    <2>4. /\ DOMAIN u = RunFields /\ u.pc = "claim" /\ u.row = q.row /\ u.beside = b
          /\ u.started = q.started /\ u.attempt = q.attempt /\ u.since = 0
      BY <1>3, <2>2 DEF RunSound, PlaceSound, RunFields
    <2>5. PlaceSound(u, r)
      BY <1>2, <1>3, <2>4 DEF RunSound, PlaceSound, Places
    <2>6. SaysSound(u, r)
      BY <1>2, <1>3, <2>4 DEF RunSound, SaysSound
    <2>7. TimeSound(u) /\ RowSound(u)
      BY <2>4 DEF TimeSound, RowSound, P!Calling
    <2>8. FitsIn(r, u)
      <3>1. ASSUME Fits, NEW o \in Runs, o # r, run[o].pc \in Counted PROVE o \in u.beside
        <4>1. run[o].row # "running"
          BY <1>5, <3>1 DEF P!RunningBeside
        <4>2. run[o].pc \notin P!Calling
          BY <3>1, <4>1 DEF CallsInv, RunSound, RowSound
        <4>3. QED
          BY <2>1, <2>4, <3>1, <4>2 DEF Counted
      <3>2. QED
        BY <3>1 DEF FitsIn
    <2>9. QED
      BY <1>1, <1>2, <2>3, <2>5, <2>6, <2>7, <2>8, QuietRunSteps DEF RunSound
  <1>6. QED
    BY <1>4, <1>5

LEMMA ClaimKeeps ==
    ASSUME CallsInv, NEW r \in Runs, NEW pc \in {"resolve", "end"},
           run[r].pc = "claim", P!ClaimRun(r, pc),
           UNCHANGED <<job, clock, answers, atWork>>, UNCHANGED P!mailVars
    PROVE  CallsInv'
  <1>1. PICK q : q = run[r]
    OBVIOUS
  <1>2. PICK u : u = [q EXCEPT !.pc = pc, !.row = "running", !.started = clock]
    OBVIOUS
  <1>3. P!Set(r, u) /\ q.pc = "claim"
    BY <1>1, <1>2 DEF P!ClaimRun
  <1>4. RunSound(q, r) /\ clock \in Int
    BY <1>1 DEF CallsInv, CallsShape
  <1>5. /\ DOMAIN q = RunFields /\ DOMAIN u = RunFields
        /\ u.pc = pc /\ u.row = "running" /\ u.started = clock
        /\ u.attempt = q.attempt /\ u.since = q.since /\ u.beside = q.beside
    BY <1>2, <1>4 DEF RunSound, PlaceSound, RunFields
  <1>6. PlaceSound(u, r)
    BY <1>3, <1>4, <1>5 DEF RunSound, PlaceSound, Places
  <1>7. SaysSound(u, r) /\ TimeSound(u) /\ RowSound(u)
    BY <1>5 DEF SaysSound, TimeSound, RowSound
  <1>8. FitsIn(r, u)
    BY <1>1, <1>3, <1>5, StaysCounted DEF Counted
  <1>9. QED
    BY <1>1, <1>3, <1>6, <1>7, <1>8, QuietRunSteps DEF RunSound

LEMMA ClaimFailsKeeps ==
    ASSUME CallsInv, NEW r \in Runs, P!Claim(r) \/ P!ClaimFails(r) PROVE CallsInv'
  <1>1. /\ run[r].pc = "claim" /\ UNCHANGED <<job, clock, answers, atWork>>
        /\ UNCHANGED P!mailVars
    BY DEF P!Claim, P!ClaimFails, P!At
  <1>2. CASE P!ClaimRun(r, "resolve") \/ P!ClaimRun(r, "end")
    BY <1>1, <1>2, ClaimKeeps
  <1>3. CASE P!Set(r, [run[r] EXCEPT !.pc = "queued"])
    <2>1. PICK q : q = run[r]
      OBVIOUS
    <2>2. PICK u : u = [q EXCEPT !.pc = "queued"]
      OBVIOUS
    <2>3. P!Set(r, u) /\ RunSound(q, r)
      BY <1>3, <2>1, <2>2 DEF CallsInv
    <2>4. /\ DOMAIN u = RunFields /\ u.pc = "queued" /\ u.row = q.row /\ u.started = q.started
          /\ u.attempt = q.attempt /\ u.since = q.since
      BY <2>2, <2>3 DEF RunSound, PlaceSound, RunFields
    <2>5. PlaceSound(u, r)
      BY <1>1, <2>1, <2>3, <2>4 DEF RunSound, PlaceSound, Places
    <2>6. SaysSound(u, r)
      BY <1>1, <2>1, <2>3, <2>4 DEF RunSound, SaysSound
    <2>7. TimeSound(u) /\ RowSound(u) /\ FitsIn(r, u)
      BY <2>4 DEF TimeSound, RowSound, FitsIn, Counted, P!Calling
    <2>8. QED
      BY <1>1, <2>1, <2>3, <2>5, <2>6, <2>7, QuietRunSteps DEF RunSound
  <1>4. QED
    BY <1>2, <1>3 DEF P!Claim, P!ClaimFails

LEMMA ExecuteKeeps ==
    ASSUME CallsInv, NEW r \in Runs, P!execute(r) PROVE CallsInv'
  <1>1. PICK q : q = run[r]
    OBVIOUS
  <1>2. /\ q.pc = "resolve" /\ UNCHANGED <<job, clock, answers, atWork>> /\ UNCHANGED P!mailVars
    BY <1>1 DEF P!execute, P!At
  <1>3. RunSound(q, r) /\ clock \in Int /\ job.retries \in 0..5
    BY <1>1 DEF CallsInv, CallsShape
  <1>4. ASSUME NEW u, P!Set(r, u), DOMAIN u = RunFields, u.row = q.row, u.started = q.started,
               u.since = q.since, u.beside = q.beside, u.attempt \in Int,
               \/ u.pc = "send" /\ u.attempt = 1
               \/ u.pc = "finish" /\ u.status = "failed"
        PROVE  CallsInv'
    <2>1. q.row # "success" /\ WorkOf(r) = {} /\ clock = q.started
      BY <1>2, <1>3 DEF RunSound, PlaceSound, SaysSound, TimeSound
    <2>2. PlaceSound(u, r)
      BY <1>3, <1>4, <2>1 DEF RunSound, PlaceSound, Places
    <2>3. SaysSound(u, r)
      BY <1>4, <2>1 DEF SaysSound, Outcomes
    <2>4. TimeSound(u)
      <3>1. CASE u.pc = "send"
        <4>1. P!Timeout \in Nat
          BY TimeoutIs DEF CallsInv
        <4>2. (u.attempt - 1) * (P!Timeout + 1) = 0
          BY <1>4, <3>1, <4>1
        <4>3. clock - u.started = 0
          BY <1>3, <1>4, <2>1
        <4>4. QED
          BY <3>1, <4>2, <4>3 DEF TimeSound
      <3>2. CASE u.pc = "finish"
        BY <3>2 DEF TimeSound
      <3>3. QED
        BY <1>4, <3>1, <3>2
    <2>5. RowSound(u)
      BY <1>2, <1>3, <1>4 DEF RunSound, RowSound, P!Calling
    <2>6. FitsIn(r, u)
      BY <1>1, <1>2, <1>4, StaysCounted DEF Counted, P!Calling
    <2>7. QED
      BY <1>1, <1>2, <1>4, <2>2, <2>3, <2>4, <2>5, <2>6, QuietRunSteps DEF RunSound
  <1>5. DOMAIN q = RunFields /\ q.attempt \in Int
    BY <1>3 DEF RunSound, PlaceSound
  <1>6. CASE P!Resolve
    <2>1. PICK u : u = [q EXCEPT !.pc = "send", !.attempt = 1]
      OBVIOUS
    <2>2. P!Set(r, u)
      BY <1>1, <1>6, <2>1 DEF P!execute
    <2>3. /\ DOMAIN u = RunFields /\ u.row = q.row /\ u.started = q.started
          /\ u.since = q.since /\ u.beside = q.beside
      BY <1>5, <2>1 DEF RunFields
    <2>4. u.attempt = 1 /\ u.pc = "send"
      BY <1>5, <2>1 DEF RunFields
    <2>5. QED
      BY <1>4, <1>5, <2>2, <2>3, <2>4
  <1>7. CASE ~P!Resolve
    <2>1. PICK u : u = [q EXCEPT !.pc = "finish", !.status = "failed"]
      OBVIOUS
    <2>2. P!Set(r, u)
      BY <1>1, <1>7, <2>1 DEF P!execute
    <2>3. /\ DOMAIN u = RunFields /\ u.row = q.row /\ u.started = q.started
          /\ u.since = q.since /\ u.beside = q.beside
      BY <1>5, <2>1 DEF RunFields
    <2>4. u.attempt = q.attempt /\ u.pc = "finish" /\ u.status = "failed"
      BY <1>5, <2>1 DEF RunFields
    <2>5. QED
      BY <1>4, <1>5, <2>2, <2>3, <2>4
  <1>8. QED
    BY <1>6, <1>7

LEMMA AttemptKeeps ==
    ASSUME CallsInv, NEW r \in Runs, P!attempt(r) PROVE CallsInv'
  <1>1. PICK q : q = run[r]
    OBVIOUS
  <1>2. PICK u : u = [q EXCEPT !.pc = "waiting", !.since = clock]
    OBVIOUS
  <1>3. /\ P!Set(r, u) /\ q.pc = "send"
        /\ UNCHANGED <<job, clock, answers, atWork>> /\ UNCHANGED P!mailVars
    BY <1>1, <1>2 DEF P!attempt, P!At
  <1>4. RunSound(q, r) /\ clock \in Int
    BY <1>1 DEF CallsInv, CallsShape
  <1>5. /\ DOMAIN q = RunFields /\ DOMAIN u = RunFields
        /\ u.pc = "waiting" /\ u.row = q.row /\ u.started = q.started
        /\ u.attempt = q.attempt /\ u.since = clock /\ u.beside = q.beside
    BY <1>2, <1>4 DEF RunSound, PlaceSound, RunFields
  <1>6. PlaceSound(u, r)
    BY <1>3, <1>4, <1>5 DEF RunSound, PlaceSound, Places
  <1>7. SaysSound(u, r)
    BY <1>3, <1>4, <1>5 DEF RunSound, SaysSound
  <1>8. TimeSound(u)
    <2>1. P!Timeout \in Nat /\ clock - u.since = 0
      BY <1>4, <1>5, TimeoutIs DEF CallsInv
    <2>2. u.since - u.started <= (u.attempt - 1) * (P!Timeout + 1)
      BY <1>3, <1>4, <1>5 DEF RunSound, TimeSound
    <2>3. QED
      BY <1>5, <2>1, <2>2 DEF TimeSound
  <1>9. RowSound(u)
    BY <1>3, <1>4, <1>5 DEF RunSound, RowSound, P!Calling
  <1>10. FitsIn(r, u)
    BY <1>1, <1>3, <1>5, StaysCounted DEF Counted, P!Calling
  <1>11. QED
    BY <1>1, <1>3, <1>5, <1>6, <1>7, <1>8, <1>9, <1>10, QuietRunSteps DEF RunSound

LEMMA PauseKeeps ==
    ASSUME CallsInv, NEW r \in Runs, P!Pause(r) PROVE CallsInv'
  <1>1. PICK q : q = run[r]
    OBVIOUS
  <1>2. PICK u : u = [q EXCEPT !.pc = "send", !.attempt = @ + 1]
    OBVIOUS
  <1>3. /\ P!Set(r, u) /\ q.pc = "pause"
        /\ UNCHANGED <<job, clock, answers, atWork>> /\ UNCHANGED P!mailVars
    BY <1>1, <1>2 DEF P!Pause, P!At
  <1>4. RunSound(q, r) /\ clock \in Int /\ job.retries \in 0..5
    BY <1>1 DEF CallsInv, CallsShape
  <1>5. /\ DOMAIN q = RunFields /\ DOMAIN u = RunFields
        /\ u.pc = "send" /\ u.row = q.row /\ u.started = q.started
        /\ u.attempt = q.attempt + 1 /\ u.since = q.since /\ u.beside = q.beside
    BY <1>2, <1>4 DEF RunSound, PlaceSound, RunFields
  <1>6. q.attempt \in 1..5 /\ q.attempt <= job.retries
    BY <1>3, <1>4 DEF RunSound, PlaceSound
  <1>7. PlaceSound(u, r)
    <2>1. \A c \in WorkOf(r) : c.attempt <= q.attempt /\ c.broken /\ c.attempt \in Int
      BY <1>3, <1>4 DEF RunSound, PlaceSound, CallsInv, WorkSound, WorkOf
    <2>2. \A c \in WorkOf(r) : c.attempt <= u.attempt /\ c.broken /\ c.attempt # u.attempt
      BY <1>5, <1>6, <2>1
    <2>3. u.attempt \in 1..(job.retries + 1)
      BY <1>4, <1>5, <1>6
    <2>4. u.started \in Int /\ u.since \in Int
      BY <1>4, <1>5 DEF RunSound, PlaceSound
    <2>5. QED
      BY <1>5, <2>2, <2>3, <2>4 DEF PlaceSound, Places
  <1>8. SaysSound(u, r)
    BY <1>3, <1>4, <1>5 DEF RunSound, SaysSound
  <1>9. TimeSound(u)
    <2>1. PICK n \in 0..5 : n = q.attempt - 1 /\ n + 1 \in 0..5
      BY <1>6
    <2>2. PICK t \in Nat : t = P!Timeout
      BY TimeoutIs DEF CallsInv
    <2>3. (n + 1) * (t + 1) = n * (t + 1) + t + 1 /\ n * (t + 1) \in Nat
      <3>1. PICK k \in Nat : k = t + 1
        BY <2>2
      <3>2. (n + 1) * k = n * k + k /\ n * k \in Nat
        BY ProductGrows
      <3>3. QED
        BY <3>1, <3>2
    <2>4. /\ q.since - q.started <= n * (t + 1) + t /\ clock - q.since <= 1
          /\ q.started \in Int /\ q.since \in Int
      BY <1>3, <1>4, <2>1, <2>2 DEF RunSound, TimeSound, PlaceSound
    <2>5. clock - q.started <= (n + 1) * (t + 1)
      BY <1>4, <2>3, <2>4
    <2>6. u.attempt - 1 = n + 1
      BY <1>5, <1>6, <2>1
    <2>7. QED
      BY <1>5, <2>2, <2>5, <2>6 DEF TimeSound
  <1>10. RowSound(u)
    BY <1>3, <1>4, <1>5 DEF RunSound, RowSound, P!Calling
  <1>11. FitsIn(r, u)
    BY <1>1, <1>3, <1>5, StaysCounted DEF Counted, P!Calling
  <1>12. QED
    BY <1>1, <1>3, <1>5, <1>7, <1>8, <1>9, <1>10, <1>11, QuietRunSteps DEF RunSound

(* An attempt ends: it is tried again only where its call is broken, and   *)
(* counts as a success only where an answer was accepted.                  *)
LEMMA AfterKeeps ==
    ASSUME CallsInv, NEW r \in Runs, NEW status \in Outcomes, run[r].pc = "waiting",
           P!After(r, status), UNCHANGED <<job, clock, answers>>, UNCHANGED P!mailVars,
           WorkSound', \A o \in Runs : o # r => WorkOf(o)' = WorkOf(o),
           \A c \in WorkOf(r)' : c.attempt <= run[r].attempt,
           \A c \in WorkOf(r)' : c.attempt < run[r].attempt => c.broken,
           status = "failed" => (\A c \in WorkOf(r)' : c.broken),
           status = "success" => Accepted(r, run[r].attempt)
    PROVE  CallsInv'
  <1>1. PICK q : q = run[r]
    OBVIOUS
  <1>2. RunSound(q, r) /\ clock \in Int /\ job.retries \in 0..5
    BY <1>1 DEF CallsInv, CallsShape
  <1>3. /\ DOMAIN q = RunFields /\ q.attempt \in 1..(job.retries + 1)
        /\ q.since \in Int /\ q.started \in Int
    BY <1>1, <1>2 DEF RunSound, PlaceSound
  <1>4. ASSUME NEW u, P!Set(r, u), DOMAIN u = RunFields, u.row = q.row, u.started = q.started,
               u.attempt = q.attempt, u.beside = q.beside,
               \/ /\ u.pc = "pause" /\ u.since = clock /\ status = "failed"
                  /\ q.attempt <= job.retries
               \/ u.pc = "finish" /\ u.since = 0 /\ u.status = status
        PROVE  CallsInv'
    <2>1. PlaceSound(u, r)'
      <3>1. /\ u.pc \in {"pause", "finish"} /\ u.attempt \in Int /\ u.since \in Int
            /\ u.started \in Int /\ job' = job
        BY <1>2, <1>3, <1>4
      <3>2. u.pc = "pause" => (u.attempt <= job.retries /\ status = "failed")
        BY <1>4
      <3>3. QED
        BY <1>1, <1>2, <1>3, <1>4, <3>1, <3>2 DEF PlaceSound, Places
    <2>2. SaysSound(u, r)'
      <3>1. Accepted(r, q.attempt) => Accepted(r, q.attempt)'
        BY DEF Accepted
      <3>2. q.row # "success"
        BY <1>1, <1>2 DEF RunSound, SaysSound
      <3>3. QED
        BY <1>1, <1>4, <3>1, <3>2 DEF SaysSound
    <2>3. TimeSound(u)'
      <3>1. CASE u.pc = "finish"
        BY <3>1 DEF TimeSound
      <3>2. CASE u.pc = "pause"
        <4>1. P!Timeout' = P!Timeout /\ clock' = clock
          BY DEF P!Timeout
        <4>2. PICK n \in Int : n = (q.attempt - 1) * (P!Timeout + 1)
          BY <1>3, TimeoutIs DEF CallsInv
        <4>3. PICK t \in Nat : t = P!Timeout
          BY TimeoutIs DEF CallsInv
        <4>4. q.since - q.started <= n /\ clock - q.since <= t
          BY <1>1, <1>2, <4>2, <4>3 DEF RunSound, TimeSound
        <4>5. u.since = clock /\ u.started = q.started /\ u.attempt = q.attempt
          BY <1>4, <3>2
        <4>6. u.since - u.started <= n + t /\ clock - u.since <= 1
          BY <1>2, <1>3, <4>4, <4>5
        <4>7. n + t = (u.attempt - 1) * (P!Timeout + 1) + P!Timeout
          BY <4>2, <4>3, <4>5
        <4>8. QED
          BY <3>2, <4>1, <4>6, <4>7 DEF TimeSound
      <3>3. QED
        BY <1>4, <3>1, <3>2
    <2>4. RowSound(u)'
      <3>1. Fits' = Fits
        BY DEF Fits, P!AttemptsTake, P!Timeout
      <3>2. QED
        BY <1>1, <1>2, <1>4, <3>1 DEF RunSound, RowSound, P!Calling
    <2>5. MessagesSound'
      <3>1. \A o \in Runs : run[o].pc = "end" => run'[o] = run[o]
        BY <1>4 DEF CallsInv, CallsShape, P!Set
      <3>2. QED
        BY <3>1, MessagesStay DEF CallsInv, P!mailVars
    <2>6. FitsIn(r, u)
      BY <1>1, <1>4, StaysCounted DEF Counted, P!Calling
    <2>7. QED
      BY <1>1, <1>4, <2>1, <2>2, <2>3, <2>4, <2>5, <2>6, OneRunSteps DEF RunSound
  <1>5. CASE P!Again(r, status)
    <2>1. PICK u : u = [q EXCEPT !.pc = "pause", !.since = clock]
      OBVIOUS
    <2>2. P!Set(r, u) /\ status = "failed" /\ q.attempt <= job.retries
      BY <1>1, <1>2, <1>3, <1>5, <2>1 DEF P!After, P!Again
    <2>3. /\ DOMAIN u = RunFields /\ u.row = q.row /\ u.started = q.started
          /\ u.attempt = q.attempt /\ u.pc = "pause" /\ u.since = clock
          /\ u.beside = q.beside
      BY <1>3, <2>1 DEF RunFields
    <2>4. QED
      BY <1>4, <2>2, <2>3
  <1>6. CASE ~P!Again(r, status)
    <2>1. PICK u : u = [q EXCEPT !.pc = "finish", !.since = 0, !.status = status]
      OBVIOUS
    <2>2. P!Set(r, u)
      BY <1>1, <1>6, <2>1 DEF P!After
    <2>3. /\ DOMAIN u = RunFields /\ u.row = q.row /\ u.started = q.started
          /\ u.attempt = q.attempt /\ u.pc = "finish" /\ u.since = 0 /\ u.status = status
          /\ u.beside = q.beside
      BY <1>3, <2>1 DEF RunFields
    <2>4. QED
      BY <1>4, <2>2, <2>3
  <1>7. QED
    BY <1>5, <1>6

(* Its calls are as they were.                                             *)
LEMMA QuietAfterKeeps ==
    ASSUME CallsInv, NEW r \in Runs, NEW status \in Outcomes, run[r].pc = "waiting",
           P!After(r, status), UNCHANGED <<job, clock, answers, atWork>>, UNCHANGED P!mailVars,
           status = "failed" => (\A c \in WorkOf(r) : c.attempt # run[r].attempt),
           status = "success" => Accepted(r, run[r].attempt)
    PROVE  CallsInv'
  <1>1. PICK q : q = run[r]
    OBVIOUS
  <1>2. RunSound(q, r) /\ WorkSound
    BY <1>1 DEF CallsInv
  <1>3. WorkSound' /\ \A o \in Runs : WorkOf(o)' = WorkOf(o)
    BY <1>2 DEF WorkSound, WorkOf
  <1>4. /\ \A c \in WorkOf(r) : c.attempt <= q.attempt
        /\ \A c \in WorkOf(r) : c.attempt < q.attempt => c.broken
        /\ \A c \in WorkOf(r) : c.attempt \in Int
        /\ q.attempt \in Int
    BY <1>1, <1>2 DEF RunSound, PlaceSound, WorkSound, WorkOf
  <1>5. status = "failed" => \A c \in WorkOf(r) : c.broken
    BY <1>1, <1>4
  <1>6. /\ \A c \in WorkOf(r)' : c.attempt <= run[r].attempt
        /\ \A c \in WorkOf(r)' : c.attempt < run[r].attempt => c.broken
        /\ status = "failed" => \A c \in WorkOf(r)' : c.broken
    BY <1>1, <1>3, <1>4, <1>5
  <1>7. QED
    BY <1>3, <1>6, AfterKeeps

LEMMA ReceiveKeeps ==
    ASSUME CallsInv, NEW r \in Runs, P!Receive(r) PROVE CallsInv'
  <1>1. PICK a \in answers :
            /\ a.run = r /\ a.attempt = run[r].attempt
            /\ P!After(r, IF P!SuccessfulStatus(a.code) THEN "success" ELSE "failed")
    BY DEF P!Receive
  <1>2. /\ run[r].pc = "waiting" /\ UNCHANGED <<job, clock, answers, atWork>>
        /\ UNCHANGED P!mailVars
    BY DEF P!Receive, P!At
  <1>3. \A c \in WorkOf(r) : c.attempt # run[r].attempt
    BY <1>1 DEF CallsInv, WorkSound, WorkOf
  <1>4. CASE P!SuccessfulStatus(a.code)
    <2>1. Accepted(r, run[r].attempt) /\ P!After(r, "success") /\ "success" \in Outcomes
      BY <1>1, <1>4 DEF Accepted, Outcomes
    <2>2. QED
      BY <1>2, <2>1, QuietAfterKeeps
  <1>5. CASE ~P!SuccessfulStatus(a.code)
    <2>1. P!After(r, "failed") /\ "failed" \in Outcomes
      BY <1>1, <1>5 DEF Outcomes
    <2>2. QED
      BY <1>2, <1>3, <2>1, QuietAfterKeeps
  <1>6. QED
    BY <1>4, <1>5

LEMMA DeadlineKeeps ==
    ASSUME CallsInv, NEW r \in Runs, P!Deadline(r) PROVE CallsInv'
  <1>1. /\ run[r].pc = "waiting" /\ UNCHANGED <<job, clock, answers, atWork>>
        /\ UNCHANGED P!mailVars /\ P!After(r, "timeout") /\ "timeout" \in Outcomes
    BY DEF P!Deadline, P!At, Outcomes
  <1>2. QED
    BY <1>1, QuietAfterKeeps

LEMMA BreakKeeps ==
    ASSUME CallsInv, NEW r \in Runs, P!Break(r) PROVE CallsInv'
  <1>1. PICK q : q = run[r]
    OBVIOUS
  <1>2. /\ q.pc = "waiting" /\ UNCHANGED <<job, clock, answers>>
        /\ UNCHANGED P!mailVars /\ P!After(r, "failed") /\ "failed" \in Outcomes
        /\ atWork' = {IF c.run = r /\ c.attempt = q.attempt THEN [c EXCEPT !.broken = TRUE]
                      ELSE c : c \in atWork}
    BY <1>1 DEF P!Break, P!At, P!Broken, Outcomes
  <1>3. RunSound(q, r) /\ WorkSound
    BY <1>1 DEF CallsInv
  <1>4. \A d \in atWork' : \E c \in atWork :
            /\ d.run = c.run /\ d.attempt = c.attempt /\ DOMAIN d = DOMAIN c
            /\ d.broken \in BOOLEAN /\ (c.broken => d.broken)
            /\ IF c.run = r /\ c.attempt = q.attempt THEN d.broken /\ d = [c EXCEPT !.broken = TRUE]
               ELSE d = c
    BY <1>2, <1>3 DEF WorkSound
  <1>5. WorkSound'
    <2>1. \A d \in atWork' : /\ DOMAIN d = {"run", "attempt", "broken"} /\ d.run \in Runs
                             /\ d.attempt \in Int /\ d.broken \in BOOLEAN
      BY <1>3, <1>4 DEF WorkSound
    <2>2. ASSUME NEW d \in atWork', NEW e \in atWork', d.run = e.run, d.attempt = e.attempt
          PROVE  d = e
      BY <1>3, <1>4, <2>2 DEF WorkSound
    <2>3. ASSUME NEW d \in atWork', NEW e \in atWork', d.run = e.run, d.attempt < e.attempt
          PROVE  d.broken
      <3>1. PICK c \in atWork : d.run = c.run /\ d.attempt = c.attempt /\ (c.broken => d.broken)
        BY <1>4
      <3>2. PICK b \in atWork : e.run = b.run /\ e.attempt = b.attempt
        BY <1>4
      <3>3. c.broken
        BY <1>3, <2>3, <3>1, <3>2 DEF WorkSound
      <3>4. QED
        BY <3>1, <3>3
    <2>4. \A d \in atWork', a \in answers' : ~(d.run = a.run /\ d.attempt = a.attempt)
      BY <1>2, <1>3, <1>4 DEF WorkSound
    <2>5. QED
      BY <2>1, <2>2, <2>3, <2>4 DEF WorkSound
  <1>6. ASSUME NEW o \in Runs, o # r PROVE WorkOf(o)' = WorkOf(o)
    <2>1. ASSUME NEW d \in WorkOf(o)' PROVE d \in WorkOf(o)
      BY <1>4, <1>6 DEF WorkOf
    <2>2. ASSUME NEW d \in WorkOf(o) PROVE d \in WorkOf(o)'
      BY <1>2, <1>6 DEF WorkOf
    <2>3. QED
      BY <2>1, <2>2 DEF WorkOf
  <1>7. ASSUME NEW d \in WorkOf(r)' PROVE d.attempt <= q.attempt /\ d.broken
    <2>1. PICK c \in WorkOf(r) :
              /\ d.attempt = c.attempt /\ (c.broken => d.broken)
              /\ (c.attempt = q.attempt => d.broken)
      BY <1>4 DEF WorkOf
    <2>2. /\ c.attempt <= q.attempt /\ (c.attempt < q.attempt => c.broken)
          /\ c.attempt \in Int /\ q.attempt \in Int
      BY <1>2, <1>3, <2>1 DEF RunSound, PlaceSound, WorkSound, WorkOf
    <2>3. QED
      BY <2>1, <2>2
  <1>8. QED
    BY <1>1, <1>2, <1>5, <1>6, <1>7, AfterKeeps

LEMMA PanicKeeps ==
    ASSUME CallsInv, NEW r \in Runs, P!Panic(r) PROVE CallsInv'
  <1>1. PICK q : q = run[r]
    OBVIOUS
  <1>2. PICK u : u = [q EXCEPT !.pc = "finish", !.status = "failed", !.attempt = 0]
    OBVIOUS
  <1>3. /\ P!Set(r, u) /\ q.pc \in {"resolve", "send", "waiting"}
        /\ UNCHANGED <<job, clock, answers, atWork>> /\ UNCHANGED P!mailVars
    BY <1>1, <1>2 DEF P!Panic
  <1>4. RunSound(q, r)
    BY <1>1 DEF CallsInv
  <1>5. /\ DOMAIN q = RunFields /\ DOMAIN u = RunFields
        /\ u.pc = "finish" /\ u.row = q.row /\ u.started = q.started
        /\ u.attempt = 0 /\ u.since = q.since /\ u.status = "failed"
    BY <1>2, <1>4 DEF RunSound, PlaceSound, RunFields
  <1>6. PlaceSound(u, r)
    BY <1>3, <1>4, <1>5 DEF RunSound, PlaceSound, Places
  <1>7. SaysSound(u, r)
    BY <1>3, <1>4, <1>5 DEF RunSound, SaysSound, Outcomes
  <1>8. TimeSound(u) /\ RowSound(u) /\ FitsIn(r, u)
    BY <1>5 DEF TimeSound, RowSound, FitsIn, Counted, P!Calling
  <1>9. QED
    BY <1>1, <1>3, <1>5, <1>6, <1>7, <1>8, QuietRunSteps DEF RunSound

LEMMA FinishKeeps ==
    ASSUME CallsInv, NEW r \in Runs, NEW pc \in {"notify", "end"},
           run[r].pc = "finish", P!FinishRun(r, pc),
           UNCHANGED <<job, clock, answers, atWork>>, UNCHANGED P!mailVars
    PROVE  CallsInv'
  <1>1. PICK q : q = run[r]
    OBVIOUS
  <1>2. PICK u : u = [q EXCEPT !.row = q.status, !.rowAttempt = q.attempt, !.pc = pc]
    OBVIOUS
  <1>3. P!Set(r, u)
    BY <1>1, <1>2 DEF P!FinishRun
  <1>4. RunSound(q, r)
    BY <1>1 DEF CallsInv
  <1>5. /\ DOMAIN q = RunFields /\ DOMAIN u = RunFields
        /\ u.pc = pc /\ u.row = q.status /\ u.started = q.started /\ u.status = q.status
        /\ u.attempt = q.attempt /\ u.since = q.since /\ u.rowAttempt = q.attempt
    BY <1>2, <1>4 DEF RunSound, PlaceSound, RunFields
  <1>6. SaysSound(u, r) /\ FitsIn(r, u)
    BY <1>1, <1>4, <1>5 DEF RunSound, SaysSound, FitsIn, Counted, P!Calling
  <1>7. RunSound(u, r)
    BY <1>4, <1>5, <1>6, DoneSound
  <1>8. QED
    BY <1>3, <1>6, <1>7, QuietRunSteps

LEMMA ResultKeeps ==
    ASSUME CallsInv, NEW r \in Runs, P!finish(r) \/ P!FinishFails(r) PROVE CallsInv'
  <1>1. /\ run[r].pc = "finish" /\ UNCHANGED <<job, clock, answers, atWork>>
        /\ UNCHANGED P!mailVars
    BY DEF P!finish, P!FinishFails, P!At
  <1>2. CASE P!FinishRun(r, "notify") \/ P!FinishRun(r, "end")
    BY <1>1, <1>2, FinishKeeps
  <1>3. CASE P!Set(r, [run[r] EXCEPT !.pc = "end"])
    <2>1. PICK q : q = run[r]
      OBVIOUS
    <2>2. PICK u : u = [q EXCEPT !.pc = "end"]
      OBVIOUS
    <2>3. P!Set(r, u) /\ RunSound(q, r)
      BY <1>3, <2>1, <2>2 DEF CallsInv
    <2>4. /\ DOMAIN u = RunFields /\ u.pc = "end" /\ u.row = q.row /\ u.started = q.started
          /\ u.attempt = q.attempt /\ u.since = q.since
      BY <2>2, <2>3 DEF RunSound, PlaceSound, RunFields
    <2>5. SaysSound(u, r)
      BY <1>1, <2>1, <2>3, <2>4 DEF RunSound, SaysSound
    <2>6. RunSound(u, r) /\ FitsIn(r, u)
      BY <2>3, <2>4, <2>5, DoneSound DEF FitsIn, Counted, P!Calling
    <2>7. QED
      BY <1>1, <2>1, <2>3, <2>4, <2>6, QuietRunSteps
  <1>4. QED
    BY <1>2, <1>3 DEF P!finish, P!FinishFails

(* A run that has told, or could not, is over.                             *)
LEMMA ToldSound ==
    ASSUME CallsInv, NEW r \in Runs, run[r].pc = "notify",
           NEW u, u = [run[r] EXCEPT !.pc = "end"]
    PROVE  RunSound(u, r) /\ u.row = run[r].row /\ u.pc = "end" /\ FitsIn(r, u)
  <1>1. PICK q : q = run[r]
    OBVIOUS
  <1>2. RunSound(q, r)
    BY <1>1 DEF CallsInv
  <1>3. /\ DOMAIN u = RunFields /\ u.pc = "end" /\ u.row = q.row /\ u.started = q.started
        /\ u.attempt = q.attempt /\ u.since = q.since /\ u.rowAttempt = q.rowAttempt
    BY <1>1, <1>2 DEF RunSound, PlaceSound, RunFields
  <1>4. SaysSound(u, r)
    BY <1>1, <1>2, <1>3 DEF RunSound, SaysSound
  <1>5. QED
    BY <1>1, <1>2, <1>3, <1>4, DoneSound DEF FitsIn, Counted, P!Calling

LEMMA UnreadableKeeps ==
    ASSUME CallsInv, NEW r \in Runs, P!TargetUnreadable(r) PROVE CallsInv'
  <1>1. PICK u : u = [run[r] EXCEPT !.pc = "end"]
    OBVIOUS
  <1>2. /\ run[r].pc = "notify" /\ UNCHANGED <<job, clock, answers, atWork>>
        /\ UNCHANGED P!mailVars /\ P!Set(r, u)
    BY <1>1 DEF P!TargetUnreadable, P!At
  <1>3. RunSound(u, r) /\ FitsIn(r, u)
    BY <1>1, <1>2, ToldSound
  <1>4. QED
    BY <1>2, <1>3, QuietRunSteps

LEMMA NotificationKeeps ==
    ASSUME CallsInv, NEW r \in Runs, P!sendNotification(r) PROVE CallsInv'
  <1>1. PICK q : q = run[r]
    OBVIOUS
  <1>2. PICK u : u = [q EXCEPT !.pc = "end"]
    OBVIOUS
  <1>3. /\ q.pc = "notify" /\ UNCHANGED <<job, clock, answers, atWork>>
        /\ UNCHANGED <<list, sender, told>> /\ P!Set(r, u)
    BY <1>1, <1>2 DEF P!sendNotification, P!At
  <1>4. RunSound(u, r) /\ u.row = q.row /\ u.pc = "end" /\ FitsIn(r, u)
    BY <1>1, <1>2, <1>3, ToldSound
  <1>5. RunSound(q, r) /\ MessagesSound /\ DOMAIN run = Runs
    BY <1>1 DEF CallsInv, CallsShape
  <1>6. run'[r] = u /\ \A o \in Runs : o # r => run'[o] = run[o]
    BY <1>3, <1>5 DEF P!Set
  <1> DEFINE Lasts(m) == m \in Messages /\ run'[m.run].pc = "end" /\ run'[m.run].row = m.status
  <1>7. ASSUME NEW m, MessageSound(m) PROVE Lasts(m)
    <2>1. m.run \in Runs /\ m.run # r
      BY <1>1, <1>3, <1>7 DEF MessageSound, Messages
    <2>2. QED
      BY <1>6, <1>7, <2>1 DEF MessageSound, Messages
  <1>8. PICK m : m = [run |-> r, status |-> q.status, to |-> P!TargetForJob]
    OBVIOUS
  <1>9. Lasts(m)
    <2>1. q.status \in Outcomes /\ q.row = q.status
      BY <1>3, <1>5 DEF RunSound, SaysSound
    <2>2. P!TargetForJob \in SUBSET STRING
      BY <1>5 DEF P!TargetForJob, MessagesSound, ListRows
    <2>3. QED
      BY <1>4, <1>6, <1>8, <2>1, <2>2 DEF MessageSound, Messages
  <1>10. box' = box \/ box' = Append(box, m)
    BY <1>1, <1>8 DEF P!sendNotification, P!enqueue
  <1>11. box' \in Seq(Messages) /\ \A i \in 1..Len(box') : Lasts(box'[i])
    <2>1. box \in Seq(Messages) /\ \A i \in 1..Len(box) : MessageSound(box[i])
      BY <1>5 DEF MessagesSound
    <2>2. CASE box' = box
      BY <1>7, <2>1, <2>2
    <2>3. CASE box' = Append(box, m)
      <3>1. m \in Messages
        BY <1>9
      <3>2. /\ box' \in Seq(Messages) /\ Len(box') = Len(box) + 1
            /\ box'[Len(box) + 1] = m /\ \A i \in 1..Len(box) : box'[i] = box[i]
        BY <2>1, <2>3, <3>1
      <3>3. ASSUME NEW i \in 1..Len(box') PROVE Lasts(box'[i])
        <4>1. i \in 1..Len(box) \/ i = Len(box) + 1
          BY <2>1, <3>2
        <4>2. CASE i \in 1..Len(box)
          <5>1. MessageSound(box[i]) /\ box'[i] = box[i]
            BY <2>1, <3>2, <4>2
          <5>2. QED
            BY <1>7, <5>1
        <4>3. CASE i = Len(box) + 1
          <5>1. box'[i] = m
            BY <3>2, <4>3
          <5>2. QED
            BY <1>9, <5>1
        <4>4. QED
          BY <4>1, <4>2, <4>3
      <3>4. QED
        BY <3>2, <3>3
    <2>4. QED
      BY <1>10, <2>2, <2>3
  <1>12. MessagesSound'
    <2>1. \A i \in 1..Len(box') : Lasts(box'[i])
      BY <1>11
    <2>2. sender.pc = "idle" \/ Lasts(sender.message)
      BY <1>5, <1>7 DEF MessagesSound
    <2>3. \A n \in told : Lasts(n)
      BY <1>5, <1>7 DEF MessagesSound
    <2>4. QED
      BY <1>3, <1>5, <1>11, <2>1, <2>2, <2>3 DEF MessagesSound, MessageSound
  <1>13. QED
    BY <1>1, <1>3, <1>4, <1>12, RunSteps

---------------------------------------------------------------------------
(* Calls: the steps of the others *)

(* A request arrives or is answered: the calls and answers of one run.     *)
LEMMA WorkSteps ==
    ASSUME CallsInv, NEW r \in Runs, UNCHANGED <<job, run, clock>>, UNCHANGED P!mailVars,
           WorkSound', RunSound(run[r], r)',
           \A o \in Runs : o # r => WorkOf(o)' = WorkOf(o),
           \A o \in Runs : \A n : o # r /\ Accepted(o, n) => Accepted(o, n)'
    PROVE  CallsInv'
  <1>1. CallsShape' /\ CountsRaced'
    BY CountsStay DEF CallsInv, CallsShape
  <1>2. MessagesSound'
    BY MessagesStay DEF CallsInv, P!mailVars
  <1>3. ASSUME NEW o \in Runs PROVE RunSound(run[o], o)'
    <2>1. CASE o = r
      BY <2>1
    <2>2. CASE o # r
      <3>1. PICK u : u = run[o]
        OBVIOUS
      <3>2. RunSound(u, o) /\ run'[o] = u
        BY <3>1 DEF CallsInv
      <3>3. WorkOf(o)' \subseteq WorkOf(o) /\ \A n : Accepted(o, n) => Accepted(o, n)'
        BY <2>2
      <3>4. QED
        BY <3>2, <3>3, RunKept
    <2>3. QED
      BY <2>1, <2>2
  <1>4. QED
    BY <1>1, <1>2, <1>3 DEF CallsInv

LEMMA CallArrives ==
    ASSUME CallsInv, NEW r \in Runs, P!Arrive(r) PROVE CallsInv'
  <1>1. PICK q : q = run[r]
    OBVIOUS
  <1>2. PICK c : c = [run |-> r, attempt |-> q.attempt, broken |-> FALSE]
    OBVIOUS
  <1>3. /\ q.pc = "waiting" /\ ~P!Arrived(r) /\ atWork' = atWork \cup {c}
        /\ UNCHANGED <<job, run, answers, clock>> /\ UNCHANGED P!mailVars
    BY <1>1, <1>2 DEF P!Arrive, P!At
  <1>4. RunSound(q, r) /\ WorkSound
    BY <1>1 DEF CallsInv
  <1>5. /\ \A d \in WorkOf(r) : d.attempt \in Int /\ d.attempt < q.attempt /\ d.broken
        /\ \A a \in answers : a.run = r => a.attempt # q.attempt
        /\ q.attempt \in Int
    <2>1. /\ \A d \in WorkOf(r) : d.attempt <= q.attempt
          /\ \A d \in WorkOf(r) : d.attempt < q.attempt => d.broken
          /\ q.attempt \in Int
      BY <1>3, <1>4 DEF RunSound, PlaceSound
    <2>2. \A d \in WorkOf(r) : d.attempt \in Int /\ d.attempt # q.attempt
      BY <1>1, <1>3, <1>4 DEF P!Arrived, WorkOf, WorkSound
    <2>3. \A a \in answers : a.run = r => a.attempt # q.attempt
      BY <1>1, <1>3 DEF P!Arrived
    <2>4. QED
      BY <2>1, <2>2, <2>3
  <1>6. WorkSound'
    <2>1. /\ DOMAIN c = {"run", "attempt", "broken"} /\ c.run = r /\ c.attempt = q.attempt
          /\ c.broken = FALSE
      BY <1>2
    <2>2. \A d \in atWork : d.run = r => d.attempt < c.attempt /\ d.attempt \in Int /\ d.broken
      BY <1>5, <2>1 DEF WorkOf
    <2>3. \A d \in atWork' : /\ DOMAIN d = {"run", "attempt", "broken"} /\ d.run \in Runs
                             /\ d.attempt \in Int /\ d.broken \in BOOLEAN
      BY <1>3, <1>4, <1>5, <2>1 DEF WorkSound
    <2>4. \A d, e \in atWork' : d.run = e.run /\ d.attempt = e.attempt => d = e
      BY <1>3, <1>4, <1>5, <2>1, <2>2 DEF WorkSound
    <2>5. \A d, e \in atWork' : d.run = e.run /\ d.attempt < e.attempt => d.broken
      BY <1>3, <1>4, <1>5, <2>1, <2>2 DEF WorkSound
    <2>6. \A d \in atWork', a \in answers' : ~(d.run = a.run /\ d.attempt = a.attempt)
      BY <1>3, <1>4, <1>5, <2>1 DEF WorkSound
    <2>7. QED
      BY <2>3, <2>4, <2>5, <2>6 DEF WorkSound
  <1>7. RunSound(run[r], r)'
    <2>1. WorkOf(r)' = WorkOf(r) \cup {c}
      BY <1>2, <1>3 DEF WorkOf
    <2>2. PlaceSound(run[r], r)'
      <3>1. \A d \in WorkOf(r)' : d.attempt <= q.attempt
        BY <1>2, <1>5, <2>1
      <3>2. \A d \in WorkOf(r)' : d.attempt < q.attempt => d.broken
        BY <1>2, <1>5, <2>1
      <3>3. QED
        BY <1>1, <1>3, <1>4, <3>1, <3>2 DEF RunSound, PlaceSound
    <2>3. SaysSound(run[r], r)'
      BY <1>1, <1>3, <1>4 DEF RunSound, SaysSound
    <2>4. TimeSound(run[r])'
      BY <1>1, <1>3, <1>4 DEF RunSound, TimeSound, P!Timeout
    <2>5. RowSound(run[r])'
      BY <1>1, <1>3, <1>4 DEF RunSound, RowSound, Fits, P!AttemptsTake, P!Timeout
    <2>6. QED
      BY <2>2, <2>3, <2>4, <2>5 DEF RunSound
  <1>8. /\ \A o \in Runs : o # r => WorkOf(o)' = WorkOf(o)
        /\ \A o \in Runs : \A n : o # r /\ Accepted(o, n) => Accepted(o, n)'
    BY <1>2, <1>3 DEF WorkOf, Accepted
  <1>9. QED
    BY <1>3, <1>6, <1>7, <1>8, WorkSteps

LEMMA AnswersKeep ==
    ASSUME CallsInv, NEW c \in atWork, P!TargetAnswers(c) PROVE CallsInv'
  <1>1. PICK r \in Runs : r = c.run
    BY DEF CallsInv, WorkSound
  <1>2. /\ atWork' = atWork \ {c} /\ UNCHANGED <<job, run, clock>> /\ UNCHANGED P!mailVars
    BY DEF P!TargetAnswers
  <1>3. PICK q : q = run[r]
    OBVIOUS
  <1>4. RunSound(q, r) /\ WorkSound
    BY <1>3 DEF CallsInv
  <1>5. \/ answers' = answers
        \/ /\ q.pc = "waiting"
           /\ \E code \in Codes : answers' = {a \in answers : a.run # r}
                                   \cup {[run |-> r, attempt |-> c.attempt, code |-> code]}
    BY <1>1, <1>3 DEF P!TargetAnswers, P!At
  <1>6. WorkSound'
    <2>1. \A d \in atWork' : ~(d.run = r /\ d.attempt = c.attempt)
      BY <1>1, <1>2, <1>4 DEF WorkSound
    <2>2. \A d \in atWork', a \in answers' : ~(d.run = a.run /\ d.attempt = a.attempt)
      BY <1>2, <1>4, <1>5, <2>1 DEF WorkSound
    <2>3. QED
      BY <1>2, <1>4, <2>2 DEF WorkSound
  <1>7. \A o \in Runs : \A n : (o # r \/ q.pc # "waiting") /\ Accepted(o, n) => Accepted(o, n)'
    BY <1>5 DEF Accepted
  <1>8. \A o \in Runs : WorkOf(o)' \subseteq WorkOf(o) /\ (o # r => WorkOf(o)' = WorkOf(o))
    BY <1>1, <1>2 DEF WorkOf
  <1>9. RunSound(run[r], r)'
    <2>1. q.pc = "waiting" \/ \A n : Accepted(r, n) => Accepted(r, n)'
      BY <1>7
    <2>2. run'[r] = q /\ WorkOf(r)' \subseteq WorkOf(r)
      BY <1>2, <1>3, <1>8
    <2>3. QED
      BY <1>2, <1>4, <2>1, <2>2, RunKept
  <1>10. QED
    BY <1>2, <1>6, <1>7, <1>8, <1>9, WorkSteps

(* The watchdog leaves alone what is at its attempts, if they fit.         *)
LEMMA WatchdogKeeps ==
    ASSUME CallsInv, P!CloseStuckRuns PROVE CallsInv'
  <1> DEFINE Stuck(r) == run[r].row = "running" /\ clock - run[r].started > P!MaxDuration
  <1>1. /\ run' = [r \in Runs |-> IF Stuck(r) THEN [run[r] EXCEPT !.row = "timeout"] ELSE run[r]]
        /\ UNCHANGED <<job, atWork, answers, clock>> /\ UNCHANGED P!mailVars
    BY DEF P!CloseStuckRuns
  <1>2. CallsShape' /\ WorkSound'
    BY <1>1 DEF CallsInv, CallsShape, WorkSound
  <1>3. \A o \in Runs : DOMAIN run[o] = RunFields
    BY DEF CallsInv, RunSound, PlaceSound
  <1>4. \A o \in Runs : ~Stuck(o) => run'[o] = run[o]
    BY <1>1
  <1>5. \A o \in Runs : Stuck(o) => run'[o].row = "timeout"
    BY <1>1, <1>3 DEF RunFields
  <1>6. CountsRaced'
    <2>1. \A o \in Runs : run'[o].pc = run[o].pc /\ run'[o].beside = run[o].beside
      BY <1>1, <1>3, <1>4 DEF RunFields
    <2>2. QED
      BY <1>1, <2>1, CountsStay
  <1>7. MessagesSound'
    <2>1. \A o \in Runs : run[o].row \in Outcomes => run'[o] = run[o]
      BY <1>4 DEF Outcomes
    <2>2. QED
      BY <1>1, <2>1, MessagesStay DEF CallsInv, P!mailVars
  <1>8. ASSUME NEW o \in Runs PROVE RunSound(run[o], o)'
    <2>1. PICK q : q = run[o]
      OBVIOUS
    <2>2. RunSound(q, o)
      BY <2>1 DEF CallsInv
    <2>3. WorkOf(o)' \subseteq WorkOf(o) /\ \A n : Accepted(o, n) => Accepted(o, n)'
      BY <1>1 DEF WorkOf, Accepted
    <2>4. CASE ~Stuck(o)
      BY <1>1, <1>4, <2>1, <2>2, <2>3, <2>4, RunKept
    <2>5. CASE Stuck(o)
      <3>1. PICK u : u = [q EXCEPT !.row = "timeout"]
        OBVIOUS
      <3>2. run'[o] = u /\ q.row = "running" /\ clock - q.started > P!MaxDuration
        BY <1>1, <2>1, <2>5, <3>1
      <3>3. /\ DOMAIN q = RunFields /\ DOMAIN u = RunFields /\ u.row = "timeout"
            /\ u.pc = q.pc /\ u.attempt = q.attempt /\ u.since = q.since
            /\ u.started = q.started /\ u.status = q.status
        BY <2>2, <3>1 DEF RunSound, PlaceSound, RunFields
      <3>4. PlaceSound(u, o)
        BY <2>2, <3>3 DEF RunSound, PlaceSound
      <3>5. SaysSound(u, o)
        BY <2>2, <3>2, <3>3 DEF RunSound, SaysSound, Outcomes
      <3>6. TimeSound(u)
        BY <2>2, <3>3 DEF RunSound, TimeSound
      <3>7. RowSound(u)
        <4>1. CASE Fits /\ q.pc \in P!Calling
          <5>1. /\ clock - q.started <= P!AttemptsTake /\ P!AttemptsTake <= P!MaxDuration
                /\ P!AttemptsTake \in Nat /\ P!MaxDuration \in Nat
            BY <2>2, <4>1, AttemptsInTime, MaxDurationCovers DEF CallsInv, RunSound
          <5>2. clock \in Int /\ q.started \in Int
            BY <2>2 DEF CallsInv, CallsShape, RunSound, PlaceSound
          <5>3. QED
            BY <3>2, <5>1, <5>2
        <4>2. QED
          BY <3>3, <4>1 DEF RowSound
      <3>8. RunSound(u, o)
        BY <3>4, <3>5, <3>6, <3>7 DEF RunSound
      <3>9. QED
        BY <1>1, <2>3, <3>2, <3>8, RunKept
    <2>6. QED
      BY <2>4, <2>5
  <1>9. QED
    BY <1>2, <1>6, <1>7, <1>8 DEF CallsInv

LEMMA SecondPasses ==
    ASSUME CallsInv, P!Tick PROVE CallsInv'
  <1>1. clock' = clock + 1 /\ UNCHANGED <<job, run, atWork, answers>> /\ UNCHANGED P!mailVars
    BY DEF P!Tick
  <1>2. CallsShape' /\ WorkSound' /\ CountsRaced'
    BY <1>1, CountsStay DEF CallsInv, CallsShape, WorkSound
  <1>3. MessagesSound'
    BY <1>1, MessagesStay DEF CallsInv, P!mailVars
  <1>4. ASSUME NEW o \in Runs PROVE RunSound(run[o], o)'
    <2>1. PICK q : q = run[o]
      OBVIOUS
    <2>2. RunSound(q, o) /\ run'[o] = q /\ clock \in Int
      BY <1>1, <2>1 DEF CallsInv, CallsShape
    <2>3. /\ q.pc \notin {"resolve", "send"}
          /\ q.pc = "waiting" => clock - q.since < P!Timeout
          /\ q.pc = "pause" => clock - q.since < 1
      BY <2>1 DEF P!Tick, P!At
    <2>4. PlaceSound(run[o], o)'
      BY <1>1, <2>2 DEF RunSound, PlaceSound, WorkOf
    <2>5. SaysSound(run[o], o)'
      BY <1>1, <2>2 DEF RunSound, SaysSound, Accepted
    <2>6. P!Timeout' = P!Timeout /\ Fits' = Fits
      BY <1>1 DEF P!Timeout, Fits, P!AttemptsTake
    <2>7. TimeSound(q)'
      <3>1. q.since \in Int /\ P!Timeout \in Nat
        BY <2>2, TimeoutIs DEF CallsInv, RunSound, PlaceSound
      <3>2. q.pc = "waiting" => clock + 1 - q.since <= P!Timeout
        BY <2>2, <2>3, <3>1
      <3>3. q.pc = "pause" => clock + 1 - q.since <= 1
        BY <2>2, <2>3, <3>1
      <3>4. TimeSound(q) /\ clock' = clock + 1 /\ P!Timeout' = P!Timeout
        BY <1>1, <2>2, <2>6 DEF RunSound
      <3>5. PICK n : n = (q.attempt - 1) * (P!Timeout + 1)
        OBVIOUS
      <3>6. PICK t : t = P!Timeout
        OBVIOUS
      <3>7. CASE q.pc = "waiting"
        <4>1. q.since - q.started <= n /\ clock' - q.since <= t
          <5>1. clock + 1 - q.since <= t
            BY <3>2, <3>6, <3>7
          <5>2. q.since - q.started <= n
            BY <3>4, <3>5, <3>7 DEF TimeSound
          <5>3. QED
            <6>1. clock' = clock + 1
              BY <1>1
            <6>2. clock' - q.since = clock + 1 - q.since
              BY <2>2, <3>1, <6>1
            <6>3. QED
              BY <5>1, <5>2, <6>2
        <4>2. n = (q.attempt - 1) * (P!Timeout' + 1) /\ t = P!Timeout'
          BY <3>4, <3>5, <3>6
        <4>3. QED
          BY <3>7, <4>1, <4>2 DEF TimeSound
      <3>8. CASE q.pc = "pause"
        <4>1. q.since - q.started <= n + t /\ clock' - q.since <= 1
          <5>1. clock + 1 - q.since <= 1
            BY <3>3, <3>8
          <5>2. q.since - q.started <= n + t
            BY <3>4, <3>5, <3>6, <3>8 DEF TimeSound
          <5>3. QED
            <6>1. clock' = clock + 1
              BY <1>1
            <6>2. clock' - q.since = clock + 1 - q.since
              BY <2>2, <3>1, <6>1
            <6>3. QED
              BY <5>1, <5>2, <6>2
        <4>2. n + t = (q.attempt - 1) * (P!Timeout' + 1) + P!Timeout'
          BY <3>4, <3>5, <3>6
        <4>3. QED
          BY <3>8, <4>1, <4>2 DEF TimeSound
      <3>9. CASE q.pc \notin {"waiting", "pause"}
        BY <2>3, <3>9 DEF TimeSound
      <3>10. QED
        BY <3>7, <3>8, <3>9
    <2>8. RowSound(q)'
      BY <2>2, <2>6 DEF RunSound, RowSound
    <2>9. QED
      BY <2>2, <2>4, <2>5, <2>7, <2>8 DEF RunSound
  <1>5. \A o \in Runs : RunSound(run[o], o)'
    BY <1>4
  <1>6. QED
    BY <1>2, <1>3, <1>5 DEF CallsInv

(* What changes in the list, the queue and the mail changes no run.        *)
LEMMA MailSteps ==
    ASSUME CallsInv, UNCHANGED P!runVars, MessagesSound' PROVE CallsInv'
  <1>1. UNCHANGED <<job, run, atWork, answers, clock>>
    BY DEF P!runVars
  <1>2. CallsShape' /\ WorkSound' /\ CountsRaced'
    BY <1>1, CountsStay DEF CallsInv, CallsShape, WorkSound
  <1>3. ASSUME NEW o \in Runs PROVE RunSound(run[o], o)'
    <2>1. PICK u : u = run[o]
      OBVIOUS
    <2>2. RunSound(u, o) /\ run'[o] = u
      BY <1>1, <2>1 DEF CallsInv
    <2>3. WorkOf(o)' \subseteq WorkOf(o) /\ \A n : Accepted(o, n) => Accepted(o, n)'
      BY <1>1 DEF WorkOf, Accepted
    <2>4. QED
      BY <1>1, <2>2, <2>3, RunKept
  <1>4. QED
    BY <1>2, <1>3 DEF CallsInv

LEMMA ListSteps ==
    ASSUME CallsInv, P!DeleteNotification \/ \E l \in Lists : P!SaveNotification(l)
    PROVE  CallsInv'
  <1>1. /\ UNCHANGED P!runVars /\ UNCHANGED <<run, box, sender, told>>
        /\ \/ list' = [list EXCEPT !.active = FALSE, !.deleted = TRUE]
           \/ \E l \in Lists : list' = IF list.deleted THEN [list EXCEPT !.emails = l.emails]
                                       ELSE l
    BY DEF P!DeleteNotification, P!SoftDeleteList, P!SaveNotification, P!UpdateList, P!runVars
  <1>2. MessagesSound
    BY DEF CallsInv
  <1>3. list' \in ListRows
    <2>1. list \in ListRows
      BY <1>2 DEF MessagesSound
    <2>2. CASE list' = [list EXCEPT !.active = FALSE, !.deleted = TRUE]
      BY <2>1, <2>2 DEF ListRows
    <2>3. CASE \E l \in Lists : list' = IF list.deleted THEN [list EXCEPT !.emails = l.emails]
                                        ELSE l
      <3>1. PICK l \in Lists : list' = IF list.deleted THEN [list EXCEPT !.emails = l.emails] ELSE l
        BY <2>3
      <3>2. l \in ListRows /\ l.emails \in SUBSET STRING
        BY CallsAssumption DEF ListRows
      <3>3. QED
        BY <2>1, <3>1, <3>2 DEF ListRows
    <2>4. QED
      BY <1>1, <2>2, <2>3
  <1>4. MessagesSound'
    BY <1>1, <1>2, <1>3 DEF MessagesSound, MessageSound
  <1>5. QED
    BY <1>1, <1>4, MailSteps

LEMMA SenderSteps ==
    ASSUME CallsInv, P!Take \/ P!connect \/ P!Send PROVE CallsInv'
  <1> DEFINE Lasts(m) == m \in Messages /\ run'[m.run].pc = "end" /\ run'[m.run].row = m.status
  <1>1. UNCHANGED P!runVars /\ run' = run /\ list' = list
    BY DEF P!Take, P!connect, P!Send, P!runVars
  <1>2. MessagesSound
    BY DEF CallsInv
  <1>3. \A m : MessageSound(m) => Lasts(m)
    BY <1>1 DEF MessageSound
  <1>4. /\ list \in ListRows /\ box \in Seq(Messages)
        /\ \A i \in 1..Len(box) : Lasts(box[i])
        /\ sender.pc = "idle" \/ Lasts(sender.message)
        /\ \A m \in told : Lasts(m)
        /\ DOMAIN sender \in {{"pc"}, {"pc", "message"}}
    BY <1>2, <1>3 DEF MessagesSound
  <1>5. CASE P!Take
    <2>1. /\ sender' = [pc |-> "connect", message |-> Head(box)] /\ box' = Tail(box)
          /\ told' = told /\ box # <<>>
      BY <1>5 DEF P!Take
    <2>2. /\ box' \in Seq(Messages) /\ Head(box) = box[1] /\ 1 \in 1..Len(box)
          /\ \A i \in 1..Len(box') : i + 1 \in 1..Len(box) /\ box'[i] = box[i + 1]
      BY <1>4, <2>1
    <2>3. Lasts(Head(box)) /\ \A i \in 1..Len(box') : Lasts(box'[i])
      BY <1>4, <2>2
    <2>4. Lasts(sender'.message) /\ DOMAIN sender' \in {{"pc"}, {"pc", "message"}}
      BY <2>1, <2>3
    <2>5. MessagesSound'
      BY <1>1, <1>4, <2>1, <2>2, <2>3, <2>4 DEF MessagesSound, MessageSound
    <2>6. QED
      BY <1>1, <2>5, MailSteps
  <1>6. CASE P!connect
    <2>1. /\ box' = box /\ told' = told /\ sender.pc = "connect"
          /\ sender' = [sender EXCEPT !.pc = "envelope"] \/ sender' = P!Idle
      BY <1>6 DEF P!connect
    <2>2. Lasts(sender.message)
      BY <1>4, <2>1
    <2>3. CASE sender' = P!Idle
      <3>1. sender'.pc = "idle" /\ DOMAIN sender' \in {{"pc"}, {"pc", "message"}}
        BY <2>3 DEF P!Idle
      <3>2. MessagesSound'
        BY <1>1, <1>4, <2>1, <3>1 DEF MessagesSound, MessageSound
      <3>3. QED
        BY <1>1, <3>2, MailSteps
    <2>4. CASE sender' = [sender EXCEPT !.pc = "envelope"]
      <3>1. DOMAIN sender' \in {{"pc"}, {"pc", "message"}}
        BY <1>4, <2>4
      <3>2. sender'.pc = "idle" \/ Lasts(sender'.message)
        <4>1. CASE "message" \in DOMAIN sender
          BY <2>2, <2>4, <4>1
        <4>2. CASE "message" \notin DOMAIN sender
          BY <2>2, <2>4, <4>2
        <4>3. QED
          BY <4>1, <4>2
      <3>3. MessagesSound'
        BY <1>1, <1>4, <2>1, <3>1, <3>2 DEF MessagesSound, MessageSound
      <3>4. QED
        BY <1>1, <3>3, MailSteps
    <2>5. QED
      BY <2>1, <2>3, <2>4
  <1>7. CASE P!Send
    <2>1. /\ box' = box /\ sender.pc = "envelope" /\ sender' = P!Idle
          /\ told' \subseteq told \cup {sender.message}
      BY <1>7 DEF P!Send
    <2>2. sender'.pc = "idle" /\ DOMAIN sender' \in {{"pc"}, {"pc", "message"}}
      BY <2>1 DEF P!Idle
    <2>3. \A m \in told' : Lasts(m)
      BY <1>4, <2>1
    <2>4. MessagesSound'
      BY <1>1, <1>4, <2>1, <2>2, <2>3 DEF MessagesSound, MessageSound
    <2>5. QED
      BY <1>1, <2>4, MailSteps
  <1>8. QED
    BY <1>5, <1>6, <1>7

LEMMA CallsInit == P!Init => CallsInv
  <1> SUFFICES ASSUME P!Init PROVE CallsInv
    OBVIOUS
  <1>1. PICK s \in CallScenarios :
            job = s.job /\ list = s.list /\ run = [r \in Runs |-> P!Queued(s.due[r])]
    BY DEF P!Init
  <1>2. /\ atWork = {} /\ answers = {}
        /\ box = <<>> /\ sender = P!Idle /\ told = {} /\ clock = 0
    BY DEF P!Init
  <1>3. CallsShape /\ \A r \in Runs : s.due[r] \in Nat
    BY <1>1, <1>2, CallsAssumption DEF CallsShape
  <1>4. WorkSound /\ CountsRaced
    BY <1>1, <1>2 DEF WorkSound, CountsRaced, Counted, P!Calling, P!Queued
  <1>5. MessagesSound
    <2>1. list \in ListRows
      BY <1>1, CallsAssumption
    <2>2. box \in Seq(Messages) /\ Len(box) = 0
      BY <1>2
    <2>3. sender.pc = "idle" /\ DOMAIN sender = {"pc"}
      BY <1>2 DEF P!Idle
    <2>4. QED
      BY <1>2, <2>1, <2>2, <2>3 DEF MessagesSound
  <1>6. ASSUME NEW r \in Runs PROVE RunSound(run[r], r)
    <2>1. PICK u : u = run[r]
      OBVIOUS
    <2>2. /\ DOMAIN u = RunFields /\ u.pc = "queued" /\ u.row = "pending"
          /\ u.attempt = 0 /\ u.since \in Int /\ u.started = 0
      <3>1. PICK n \in Nat : u = P!Queued(n)
        BY <1>1, <1>3, <2>1
      <3>2. /\ u.pc = "queued" /\ u.row = "pending"
            /\ u.attempt = 0 /\ u.since = n /\ u.started = 0
        BY <3>1 DEF P!Queued
      <3>3. DOMAIN u = RunFields
        BY <3>1 DEF P!Queued, RunFields
      <3>4. QED
        BY <3>2, <3>3
    <2>3. WorkOf(r) = {}
      BY <1>2 DEF WorkOf
    <2>4. PlaceSound(u, r)
      BY <2>2, <2>3 DEF PlaceSound, Places
    <2>5. SaysSound(u, r) /\ TimeSound(u) /\ RowSound(u)
      BY <2>2 DEF SaysSound, TimeSound, RowSound, P!Calling
    <2>6. QED
      BY <2>1, <2>4, <2>5 DEF RunSound
  <1>7. QED
    BY <1>3, <1>4, <1>5, <1>6 DEF CallsInv

LEMMA CallsNext == CallsInv /\ [P!Next]_(P!vars) => CallsInv'
  <1> SUFFICES ASSUME CallsInv, [P!Next]_(P!vars) PROVE CallsInv'
    OBVIOUS
  <1>1. CASE UNCHANGED P!vars
    BY <1>1, CallsStutter
  <1>2. ASSUME NEW r \in Runs,
               \/ P!CheckSingleRun(r) \/ P!Claim(r) \/ P!ClaimFails(r)
               \/ P!execute(r) \/ P!attempt(r) \/ P!Arrive(r) \/ P!Receive(r)
               \/ P!Deadline(r) \/ P!Break(r) \/ P!Pause(r) \/ P!Panic(r)
               \/ P!finish(r) \/ P!FinishFails(r) \/ P!sendNotification(r)
               \/ P!TargetUnreadable(r)
        PROVE  CallsInv'
    BY <1>2, CountingKeeps, ClaimFailsKeeps, ExecuteKeeps, AttemptKeeps, CallArrives, ReceiveKeeps, DeadlineKeeps,
       BreakKeeps, PauseKeeps, PanicKeeps, ResultKeeps, NotificationKeeps, UnreadableKeeps
  <1>3. CASE \E c \in atWork : P!TargetAnswers(c)
    BY <1>3, AnswersKeep
  <1>4. CASE P!CloseStuckRuns \/ P!Tick
    BY <1>4, WatchdogKeeps, SecondPasses
  <1>5. CASE P!DeleteNotification \/ \E l \in Lists : P!SaveNotification(l)
    BY <1>5, ListSteps
  <1>6. CASE P!Take \/ P!connect \/ P!Send
    BY <1>6, SenderSteps
  <1>7. QED
    BY <1>1, <1>2, <1>3, <1>4, <1>5, <1>6 DEF P!Next

(* The invariant of a job's runs, their calls and the messages about them. *)
THEOREM CallsInvariant == Spec => [](focus = "calls" => CallsInv)
  <1>1. Init => (focus = "calls" => CallsInv)
    BY CallsInit DEF Init
  <1>2. (focus = "calls" => CallsInv) /\ [Next]_allVars => (focus = "calls" => CallsInv)'
    BY StepsOfOne, CallsNext
  <1>3. QED
    BY <1>1, <1>2, PTL DEF Spec

(* runner.go: a target is called a second time for a run only after the    *)
(* connection of the call before broke.  For any number of runs of a       *)
(* single_run job, two are at their attempts together only by the race the *)
(* code leaves open, where one counted the running rows while the other    *)
(* had counted and not yet claimed, or where max_duration_sec is shorter   *)
(* than the attempts: nothing else, no failed claim and no watchdog, gets  *)
(* a second run past the count.                                            *)
THEOREM WorksOnce == Spec => []NoDoubleWork
  <1>1. (focus = "calls" => CallsInv) => NoDoubleWork
    <2>1. SUFFICES ASSUME CallsInv PROVE P!NoDoubleWork
      BY DEF NoDoubleWork
    <2>2. \A c, d \in atWork : c.run = d.run /\ c.attempt < d.attempt => c.broken
      BY <2>1 DEF CallsInv, WorkSound
    <2>3. ASSUME Fits, NEW r \in Runs, NEW s \in Runs, run[r].pc \in P!Calling,
                 run[s].pc \in P!Calling, r # s
          PROVE  P!Raced(r, s)
      BY <2>1, <2>3 DEF CallsInv, CountsRaced, Counted
    <2>4. QED
      BY <2>2, <2>3 DEF P!NoDoubleWork, Fits
  <1>2. QED
    BY <1>1, CallsInvariant, PTL

(* runner.go, notifier.go: a row says success where an answer to the       *)
(* attempt it names was accepted, and a message what its row says.         *)
THEOREM ReportsHold == Spec => []ReportsAreTrue
  <1>1. (focus = "calls" => CallsInv) => ReportsAreTrue
    <2>1. SUFFICES ASSUME CallsInv PROVE P!ReportsAreTrue
      BY DEF ReportsAreTrue
    <2>2. ASSUME NEW r \in Runs, run[r].row = "success"
          PROVE  Accepted(r, run[r].rowAttempt)
      BY <2>1, <2>2 DEF CallsInv, RunSound, SaysSound
    <2>3. \A m \in told : run[m.run].row = m.status
      BY <2>1 DEF CallsInv, MessagesSound, MessageSound
    <2>4. QED
      BY <2>2, <2>3 DEF P!ReportsAreTrue, Accepted
  <1>2. QED
    BY <1>1, CallsInvariant, PTL
=============================================================================
