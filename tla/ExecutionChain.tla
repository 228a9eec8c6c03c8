--------------------------- MODULE ExecutionChain ---------------------------
(***************************************************************************)
(* The chain of module Execution, for every value of its constants: which  *)
(* rows a finished run leaves behind it, how deep they go, what the job    *)
(* summary shows, and when a single_run job is alone.                      *)
(***************************************************************************)
EXTENDS ExecutionProofs, Wellfounded

(* The positions of a worker that has recorded its result. *)
After   == {"summary", "chain", "handOff"}
Looping == {"chain", "handOff"}

(* The steps written behind run p that target job j, the links that ask    *)
(* for one, and the targets worker w has left there.                       *)
Children(p, j) == {r \in Rows : runs[r].parent = p /\ runs[r].job = j}

Asked(p, j) ==
    {l \in FiredLinks(runs[p].job, Outcome(runs[p].status)) : l.to = j}

Left(w, j) == {t \in worker[w].todo : t.link.to = j}

-----------------------------------------------------------------------------
(* Every step is one of three kinds, seen from the chain. *)

(* One iteration of the loop: w writes the row r for its target t. *)
WritesTarget(w, t, r) ==
    /\ worker[w].pc = "chain" /\ t \in worker[w].todo
    /\ Fresh(r) /\ OpenRow(r)
    /\ runs'[r].parent = worker[w].run /\ runs'[r].job = t.link.to
    /\ runs'[r].status = "skipped"
         \/ ChainStepCount[worker[w].run] < ChainMaxDepth
    /\ \A v \in Workers \ {w} : worker'[v] = worker[v]
    /\ worker'[w].pc \in Looping \cup {"idle"}
    /\ worker'[w].pc \in Looping =>
         /\ worker'[w].run = worker[w].run
         /\ worker'[w].result = worker[w].result
         /\ worker'[w].todo = worker[w].todo \ {t}
    /\ lastStatus' = lastStatus

(* The dispatcher or a hand writes a row that follows no other. *)
OpensRoot(r) ==
    /\ Fresh(r) /\ OpenRow(r) /\ runs'[r].parent = NoRun
    /\ UNCHANGED <<worker, lastStatus>>

(* A worker past its result came there by recording it, by reading its     *)
(* targets, or has no more targets than it had.                            *)
Follows(v) ==
    worker'[v].pc \in After =>
        /\ worker'[v].run = worker[v].run
        /\ worker'[v].result = worker[v].result
        /\ \/ /\ worker[v].pc = "finish" /\ worker'[v].pc = "summary"
              /\ FinishRun(worker[v].run, worker[v].result)
           \/ worker[v].pc = "summary" /\ worker'[v].pc = "summary"
           \/ /\ worker[v].pc = "summary" /\ worker'[v].pc = "chain"
              /\ worker'[v].todo = ChainTargets(v)
              /\ worker'[v].todo # {} /\ runs' = runs
           \/ /\ worker[v].pc \in Looping /\ worker'[v].pc \in Looping
              /\ worker'[v].todo \subseteq worker[v].todo

NoneOpened == \A r \in RunIds : Exists(r)' => Exists(r)

OpensNone ==
    /\ NoneOpened
    /\ \A v \in Workers : Follows(v)
    /\ \/ lastStatus' = lastStatus
       \/ \E w \in Workers :
            /\ worker[w].pc = "summary"
            /\ WriteJobSummary(runs[worker[w].run].job, worker[w].result)

(* An update makes no row. *)
LEMMA UpdatesOpenNone ==
    ASSUME TableTypeOK, NEW q \in RunIds, Exists(q),
           \/ SkipRun(q) \/ RunAfterArrives(q) \/ Overstay(q) \/ ClaimRun(q)
           \/ \E s \in Results : FinishRun(q, s)
           \/ CloseStuckRuns
    PROVE  NoneOpened
  <1>1. CASE SkipRun(q) \/ RunAfterArrives(q) \/ Overstay(q) \/ ClaimRun(q)
    BY <1>1 DEF NoneOpened, SkipRun, RunAfterArrives, Overstay, ClaimRun, HasStatus,
       Exists, TableTypeOK, Row
  <1>2. ASSUME NEW s \in Results, FinishRun(q, s) PROVE NoneOpened
    BY <1>2 DEF NoneOpened, FinishRun, Exists, TableTypeOK, Row
  <1>3. CASE CloseStuckRuns
    BY <1>3 DEF NoneOpened, CloseStuckRuns, Stuck, Running, HasStatus, Exists,
       TableTypeOK, Row
  <1>4. QED
    BY <1>1, <1>2, <1>3

(* A step that leaves the rows alone makes none. *)
LEMMA SameRowsOpenNone == ASSUME runs' = runs PROVE NoneOpened
  BY DEF NoneOpened, Exists

(* Workers that did not move follow. *)
LEMMA SameFollow == ASSUME worker' = worker PROVE \A v \in Workers : Follows(v)
  BY DEF Follows, After, Looping

(* One worker moves, and follows. *)
LEMMA OneFollows ==
    ASSUME TypeOK, NEW w \in Workers, NEW k, worker' = [worker EXCEPT ![w] = k],
           k.pc \in After =>
             /\ k.run = worker[w].run /\ k.result = worker[w].result
             /\ \/ /\ worker[w].pc = "finish" /\ k.pc = "summary"
                   /\ FinishRun(worker[w].run, worker[w].result)
                \/ /\ worker[w].pc = "summary" /\ k.pc = "chain"
                   /\ k.todo = ChainTargets(w) /\ k.todo # {} /\ runs' = runs
                \/ /\ worker[w].pc \in Looping /\ k.pc \in Looping
                   /\ k.todo \subseteq worker[w].todo
    PROVE  \A v \in Workers : Follows(v)
  <1>1. worker \in [Workers -> WorkType]
    BY TypeParts DEF WorkersOK
  <1>2. worker'[w] = k /\ \A v \in Workers \ {w} : worker'[v] = worker[v]
    BY <1>1
  <1>3. \A v \in Workers \ {w} : Follows(v)
    BY <1>2 DEF Follows, After, Looping
  <1>4. Follows(w)
    BY <1>2 DEF Follows
  <1>5. QED
    BY <1>3, <1>4

(* The fields of the next position in the chain loop. *)
LEMMA NextTargetFields ==
    ASSUME NEW w \in Workers, worker[w] \in WorkType, NEW todo
    PROVE  /\ NextTarget(w, todo).pc = IF todo = {} THEN "idle" ELSE "chain"
           /\ todo # {} =>
                /\ NextTarget(w, todo).run = worker[w].run
                /\ NextTarget(w, todo).result = worker[w].result
                /\ NextTarget(w, todo).todo = todo
  BY DEF NextTarget, NoWork, WorkType

(* Goto changes nothing but the position. *)
LEMMA GotoFields ==
    ASSUME TypeOK, NEW w \in Workers, NEW pc, Goto(w, pc)
    PROVE  \E k : /\ worker' = [worker EXCEPT ![w] = k]
                  /\ k.pc = pc /\ k.run = worker[w].run
                  /\ k.result = worker[w].result /\ k.todo = worker[w].todo
  <1> DEFINE k == [worker[w] EXCEPT !.pc = pc]
  <1>1. worker[w] \in WorkType
    BY TypeParts DEF WorkersOK
  <1>2. k.pc = pc /\ k.run = worker[w].run /\ k.result = worker[w].result
        /\ k.todo = worker[w].todo
    BY <1>1 DEF WorkType
  <1>3. worker' = [worker EXCEPT ![w] = k]
    BY DEF Goto
  <1>4. QED
    BY <1>2, <1>3

(* Resting, or going to a position before the result, follows. *)
LEMMA EarlyFollows ==
    ASSUME TypeOK, NEW w \in Workers,
           Rest(w) \/ \E pc \in WorkerPC \ After : Goto(w, pc)
    PROVE  \A v \in Workers : Follows(v)
  <1>1. CASE Rest(w)
    <2>1. PICK k : k = NoWork
      OBVIOUS
    <2>2. k.pc \notin After
      BY <2>1 DEF NoWork, After
    <2>3. worker' = [worker EXCEPT ![w] = k]
      BY <1>1, <2>1 DEF Rest
    <2>4. QED
      BY <2>2, <2>3, OneFollows
  <1>2. ASSUME NEW pc \in WorkerPC \ After, Goto(w, pc)
        PROVE  \A v \in Workers : Follows(v)
    <2>1. PICK k : worker' = [worker EXCEPT ![w] = k] /\ k.pc = pc
      BY <1>2, GotoFields
    <2>2. QED
      BY <1>2, <2>1, OneFollows
  <1>3. QED
    BY <1>1, <1>2

(* Reading the targets, or going on with no more than were left, follows. *)
LEMMA LoopFollows ==
    ASSUME TypeOK, NEW w \in Workers, NEW todo,
           worker' = [worker EXCEPT ![w] = NextTarget(w, todo)],
           \/ worker[w].pc = "summary" /\ todo = ChainTargets(w) /\ runs' = runs
           \/ worker[w].pc \in Looping /\ todo \subseteq worker[w].todo
    PROVE  \A v \in Workers : Follows(v)
  <1>1. worker[w] \in WorkType
    BY TypeParts DEF WorkersOK
  <1>2. PICK k : k = NextTarget(w, todo)
    OBVIOUS
  <1>3. CASE todo = {}
    <2>1. k.pc \notin After
      BY <1>1, <1>2, <1>3, NextTargetFields DEF After
    <2>2. QED
      BY <1>2, <2>1, OneFollows
  <1>4. CASE todo # {}
    <2>1. /\ k.pc = "chain" /\ k.run = worker[w].run
          /\ k.result = worker[w].result /\ k.todo = todo
      BY <1>1, <1>2, <1>4, NextTargetFields
    <2>2. QED
      BY <1>2, <1>4, <2>1, OneFollows DEF Looping
  <1>5. QED
    BY <1>3, <1>4

(* An insert takes the next id. *)
LEMMA InsertFresh ==
    ASSUME TypeOK, NEW r \in RunIds, NEW j \in Jobs, NEW s \in {"pending", "skipped"},
           NEW m \in Minutes \cup {NoMinute}, NEW p \in RunIds \cup {NoRun},
           NEW b \in BOOLEAN,
           Insert(r, NewRow(j, s, m, p, b)), UNCHANGED <<active, lastStatus, claims>>
    PROVE  /\ Fresh(r) /\ runs'[r].parent = p /\ runs'[r].job = j
           /\ runs'[r].status = s
  <1>1. s \in Statuses
    BY DEF Statuses
  <1>2. runs'[r] = NewRow(j, s, m, p, b)
    BY <1>1, InsertFacts, TypeParts
  <1>3. QED
    BY <1>2 DEF NewRow, Insert

(* A dispatcher opens roots or nothing. *)
LEMMA DispatcherKinds ==
    ASSUME TypeOK, NEW i \in Replicas, DispatcherStep(i) \/ DispatcherFault(i)
    PROVE  OpensNone \/ \E r \in RunIds : OpensRoot(r)
  <1>0. TableTypeOK
    BY TypeParts
  <1>1. ASSUME NEW j \in Jobs, NEW m \in Minutes, QueueDue(i, j, m)
        PROVE  \E r \in RunIds : OpensRoot(r)
    <2>1. PICK r \in RunIds : Insert(r, NewRow(j, "pending", m, NoRun, TRUE))
      BY <1>1 DEF QueueDue, QueueRun
    <2>2. /\ UNCHANGED <<active, lastStatus, claims>>
          /\ ~\E q \in Rows : runs[q].job = j /\ runs[q].minute = m
      BY <1>1 DEF QueueDue, QueueRun
    <2>3. PICK s \in {"pending", "skipped"}, p \in RunIds \cup {NoRun}, b \in BOOLEAN :
                s = "pending" /\ p = NoRun /\ b = TRUE
      OBVIOUS
    <2>4. Insert(r, NewRow(j, s, m, p, b)) /\ m \in Minutes \cup {NoMinute}
      BY <2>1, <2>3
    <2>5. OpenRow(r)
      BY <2>2, <2>4, OpenRowFacts
    <2>6. Fresh(r) /\ runs'[r].parent = NoRun
      BY <2>2, <2>3, <2>4, InsertFresh
    <2>7. QED
      BY <1>1, <2>2, <2>5, <2>6 DEF OpensRoot, QueueDue, memVars
  <1>2. ASSUME NEW r \in RunIds, DispatchSkip(i, r) PROVE OpensNone
    <2>1. Exists(r) /\ SkipRun(r) /\ worker' = worker /\ lastStatus' = lastStatus
      BY <1>0, <1>2, TypeParts
         DEF DispatchSkip, NextInBatch, SkipRun, DispOK, TickOK, Rows
    <2>2. QED
      BY <1>0, <2>1, UpdatesOpenNone, SameFollow DEF OpensNone
  <1>3. ASSUME UNCHANGED <<runs, lastStatus, worker>> PROVE OpensNone
    BY <1>3, SameRowsOpenNone, SameFollow DEF OpensNone
  <1>4. CASE \/ BeginTick(i) \/ TakeQuota(i) \/ ReadRunningJobs(i) \/ ReadPending(i)
             \/ TickFails(i) \/ \E r \in RunIds : DispatchRow(i, r) \/ SkipFails(i, r)
    BY <1>3, <1>4 DEF BeginTick, TakeQuota, ReadRunningJobs, ReadPending, TickFails,
       DispatchRow, SkipFails, tableVars
  <1>5. QED
    BY <1>1, <1>2, <1>4 DEF DispatcherStep, DispatcherFault

(* So do hands, timers, crashes, the watchdog, the clocks and the operator. *)
LEMMA OutsideKinds ==
    ASSUME TypeOK,
           \/ \E i \in Replicas, j \in Jobs : Trigger(i, j)
           \/ \E i \in Replicas, r \in RunIds : TimerFires(i, r)
           \/ \E i \in Replicas : Crash(i)
           \/ Sweep
           \/ \E r \in RunIds : RunAfter(r) \/ GrowOld(r)
           \/ \E j \in Jobs : Suspend(j)
    PROVE  OpensNone \/ \E r \in RunIds : OpensRoot(r)
  <1>0. TableTypeOK
    BY TypeParts
  <1>1. ASSUME NEW i \in Replicas, NEW j \in Jobs, Trigger(i, j)
        PROVE  \E r \in RunIds : OpensRoot(r)
    <2>1. PICK r \in RunIds : Enqueue(r, j)
      BY <1>1 DEF Trigger
    <2>2. OpenRow(r)
      BY <2>1, OpenRowFacts DEF Enqueue
    <2>3. Fresh(r) /\ runs'[r].parent = NoRun /\ lastStatus' = lastStatus
      BY <2>1, InsertFresh DEF Enqueue
    <2>4. QED
      BY <1>1, <2>2, <2>3 DEF OpensRoot, Trigger
  <1>2. ASSUME UNCHANGED <<runs, lastStatus, worker>> PROVE OpensNone
    BY <1>2, SameRowsOpenNone, SameFollow DEF OpensNone
  <1>3. ASSUME NEW i \in Replicas, NEW r \in RunIds, TimerFires(i, r)
        PROVE  OpensNone
    BY <1>2, <1>3 DEF TimerFires, tableVars
  <1>4. ASSUME NEW i \in Replicas, Crash(i) PROVE OpensNone
    <2>1. \A v \in Workers : worker'[v] = NoWork \/ worker'[v] = worker[v]
      BY <1>4 DEF Crash
    <2>2. NoWork.pc \notin After
      BY DEF NoWork, After
    <2>3. \A v \in Workers : Follows(v)
      BY <2>1, <2>2 DEF Follows, After, Looping
    <2>4. UNCHANGED <<runs, lastStatus>>
      BY <1>4 DEF Crash, tableVars
    <2>5. QED
      BY <2>3, <2>4, SameRowsOpenNone DEF OpensNone
  <1>5. CASE Sweep
    <2>1. CloseStuckRuns /\ worker' = worker /\ lastStatus' = lastStatus
      BY <1>5 DEF Sweep, CloseStuckRuns, memVars
    <2>2. PICK r \in RunIds : Exists(r)
      BY <2>1 DEF CloseStuckRuns, Stuck, Running, HasStatus, Exists
    <2>3. QED
      BY <1>0, <2>1, <2>2, UpdatesOpenNone, SameFollow DEF OpensNone
  <1>6. ASSUME NEW r \in RunIds, RunAfter(r) \/ GrowOld(r) PROVE OpensNone
    <2>1. /\ RunAfterArrives(r) \/ Overstay(r)
          /\ worker' = worker /\ lastStatus' = lastStatus /\ Exists(r)
      BY <1>6 DEF RunAfter, GrowOld, RunAfterArrives, Overstay, memVars, HasStatus,
         Exists
    <2>2. QED
      BY <1>0, <2>1, UpdatesOpenNone, SameFollow DEF OpensNone
  <1>7. ASSUME NEW j \in Jobs, Suspend(j) PROVE OpensNone
    BY <1>2, <1>7 DEF Suspend, SetActive, memVars
  <1>8. QED
    BY <1>1, <1>3, <1>4, <1>5, <1>6, <1>7

(* A worker up to its result opens nothing. *)
LEMMA ExecuteKinds ==
    ASSUME TypeOK, NEW w \in Workers,
           \/ StartWork(w) \/ CheckSingleRun(w) \/ SkipBusy(w) \/ Claim(w)
           \/ Execute(w) \/ Finish(w) \/ GiveUp(w) \/ ClaimAnswerLost(w)
           \/ FinishFails(w)
    PROVE  OpensNone
  <1>0. /\ TableTypeOK /\ worker \in [Workers -> WorkType] /\ worker[w] \in WorkType
        /\ {"check", "skip", "claim", "execute"} \subseteq WorkerPC \ After
    BY TypeParts DEF WorkersOK, WorkerPC, After
  <1>1. worker[w].pc # "idle" => worker[w].run \in RunIds /\ Exists(worker[w].run)
    BY BusyWorker
  <1>2. worker[w].pc = "finish" => worker[w].result \in Results
    BY TypeParts DEF WorkersOK, WorkOK
  <1>3. ASSUME NEW k, worker' = [worker EXCEPT ![w] = k], k.pc \notin After
        PROVE  \A v \in Workers : Follows(v)
    BY <1>3, OneFollows
  <1>4. CASE StartWork(w)
    <2> DEFINE i == Home(w)
               k == [worker[w] EXCEPT
                       !.run = Head(queue[i]),
                       !.pc = IF runs[Head(queue[i])].job \in SingleRun
                              THEN "check" ELSE "claim"]
    <2>1. worker' = [worker EXCEPT ![w] = k] /\ UNCHANGED <<runs, lastStatus>>
      BY <1>4 DEF StartWork, tableVars
    <2>2. k.pc \notin After
      BY <1>0 DEF WorkType, After
    <2>3. QED
      BY <1>3, <2>1, <2>2, SameRowsOpenNone DEF OpensNone
  <1>5. CASE CheckSingleRun(w)
    <2>1. /\ UNCHANGED <<runs, lastStatus>>
          /\ Goto(w, "claim") \/ Goto(w, "skip")
      BY <1>5 DEF CheckSingleRun, tableVars
    <2>2. QED
      BY <1>0, <2>1, EarlyFollows, SameRowsOpenNone DEF OpensNone
  <1>6. CASE SkipBusy(w)
    <2>1. /\ SkipRun(worker[w].run) /\ Rest(w) /\ worker[w].pc = "skip"
          /\ lastStatus' = lastStatus
      BY <1>6 DEF SkipBusy, SkipRun
    <2>2. QED
      BY <1>0, <1>1, <2>1, EarlyFollows, UpdatesOpenNone DEF OpensNone
  <1>7. CASE Claim(w) \/ GiveUp(w) \/ ClaimAnswerLost(w)
    <2>1. /\ worker[w].pc # "idle"
          /\ Rest(w) \/ Goto(w, "execute")
          /\ ClaimRun(worker[w].run) \/ UNCHANGED tableVars
      BY <1>7 DEF Claim, GiveUp, ClaimAnswerLost
    <2>2. lastStatus' = lastStatus /\ NoneOpened
      BY <1>0, <1>1, <2>1, UpdatesOpenNone, SameRowsOpenNone DEF ClaimRun, tableVars
    <2>3. QED
      BY <1>0, <2>1, <2>2, EarlyFollows DEF OpensNone
  <1>8. CASE Execute(w)
    <2>1. PICK result \in Results :
            worker' = [worker EXCEPT ![w].pc = "finish", ![w].result = result]
      BY <1>8 DEF Execute
    <2> DEFINE k == [worker[w] EXCEPT !.pc = "finish", !.result = result]
    <2>2. worker' = [worker EXCEPT ![w] = k] /\ UNCHANGED <<runs, lastStatus>>
      BY <1>0, <1>8, <2>1 DEF Execute, tableVars
    <2>3. k.pc \notin After
      BY <1>0 DEF WorkType, After
    <2>4. QED
      BY <1>3, <2>2, <2>3, SameRowsOpenNone DEF OpensNone
  <1>9. CASE Finish(w)
    <2>1. /\ worker[w].pc = "finish" /\ Goto(w, "summary")
          /\ FinishRun(worker[w].run, worker[w].result)
          /\ lastStatus' = lastStatus
      BY <1>9 DEF Finish, FinishRun
    <2>2. \E k : /\ worker' = [worker EXCEPT ![w] = k]
                 /\ k.pc = "summary" /\ k.run = worker[w].run
                 /\ k.result = worker[w].result
      BY <2>1, GotoFields
    <2>3. \A v \in Workers : Follows(v)
      BY <2>1, <2>2, OneFollows
    <2>4. NoneOpened
      BY <1>0, <1>1, <1>2, <2>1, UpdatesOpenNone
    <2>5. QED
      BY <2>1, <2>3, <2>4 DEF OpensNone
  <1>10. CASE FinishFails(w)
    <2>1. /\ worker[w].pc = "finish" /\ Rest(w)
          /\ UNCHANGED tableVars \/ FinishRun(worker[w].run, worker[w].result)
      BY <1>10 DEF FinishFails
    <2>2. lastStatus' = lastStatus /\ NoneOpened
      BY <1>0, <1>1, <1>2, <2>1, UpdatesOpenNone, SameRowsOpenNone
         DEF FinishRun, tableVars
    <2>3. QED
      BY <2>1, <2>2, EarlyFollows DEF OpensNone
  <1>11. QED
    BY <1>4, <1>5, <1>6, <1>7, <1>8, <1>9, <1>10

(* The summary and the positions between two targets open nothing. *)
LEMMA SummaryKinds ==
    ASSUME TypeOK, NEW w \in Workers,
           \/ Summarise(w) \/ HandOff(w) \/ SummaryFails(w) \/ ChainUnread(w)
           \/ HandOffFails(w) \/ \E t \in worker[w].todo : ChainFails(w, t)
    PROVE  OpensNone
  <1>1. ASSUME runs' = runs, worker[w].pc = "summary", BeginChain(w),
               \/ lastStatus' = lastStatus
               \/ WriteJobSummary(runs[worker[w].run].job, worker[w].result)
        PROVE  OpensNone
    <2>1. \A v \in Workers : Follows(v)
      BY <1>1, LoopFollows DEF BeginChain
    <2>2. QED
      BY <1>1, <2>1, SameRowsOpenNone DEF OpensNone
  <1>2. ASSUME UNCHANGED tableVars, worker[w].pc \in Looping,
               NEW todo \in SUBSET worker[w].todo,
               worker' = [worker EXCEPT ![w] = NextTarget(w, todo)]
        PROVE  OpensNone
    <2>1. \A v \in Workers : Follows(v)
      BY <1>2, LoopFollows
    <2>2. QED
      BY <1>2, <2>1, SameRowsOpenNone DEF OpensNone, tableVars
  <1>3. CASE Summarise(w)
    BY <1>1, <1>3 DEF Summarise, WriteJobSummary
  <1>4. CASE SummaryFails(w)
    BY <1>1, <1>4 DEF SummaryFails, tableVars
  <1>5. CASE HandOff(w) \/ HandOffFails(w)
    BY <1>2, <1>5 DEF HandOff, HandOffFails, Looping
  <1>6. ASSUME NEW t \in worker[w].todo, ChainFails(w, t) PROVE OpensNone
    <2>1. worker[w].todo \ {t} \in SUBSET worker[w].todo
      OBVIOUS
    <2>2. QED
      BY <1>2, <1>6, <2>1 DEF ChainFails, AtTarget, AfterTarget, Looping
  <1>7. CASE ChainUnread(w)
    <2>1. /\ worker[w].pc = "summary" /\ Rest(w)
          /\ WriteJobSummary(runs[worker[w].run].job, worker[w].result)
      BY <1>7 DEF ChainUnread
    <2>2. QED
      BY <2>1, EarlyFollows, SameRowsOpenNone DEF OpensNone, WriteJobSummary
  <1>8. QED
    BY <1>3, <1>4, <1>5, <1>6, <1>7

(* One iteration of the loop writes a row, or gives up on its target. *)
LEMMA TargetKinds ==
    ASSUME TypeOK, NEW w \in Workers, NEW t \in worker[w].todo,
           ChainSkip(w, t) \/ ChainQueue(w, t)
    PROVE  \E r \in RunIds : WritesTarget(w, t, r)
  <1>0. /\ worker \in [Workers -> WorkType] /\ worker[w] \in WorkType
        /\ worker[w].pc = "chain" /\ t.link.to \in Jobs /\ worker[w].run \in RunIds
    BY TypeParts, BusyWorker, TodoType, ConstantFacts
       DEF ChainSkip, ChainQueue, AtTarget, Targets, WorkersOK
  <1> DEFINE todo == worker[w].todo \ {t}
             Moves == /\ \A v \in Workers \ {w} : worker'[v] = worker[v]
                      /\ worker'[w].pc \in Looping \cup {"idle"}
                      /\ worker'[w].pc \in Looping =>
                           /\ worker'[w].run = worker[w].run
                           /\ worker'[w].result = worker[w].result
                           /\ worker'[w].todo = todo
  <1>1. ASSUME AfterTarget(w, t) PROVE Moves
    <2>1. PICK k : k = NextTarget(w, todo)
      OBVIOUS
    <2>2. worker' = [worker EXCEPT ![w] = k]
      BY <1>1, <2>1 DEF AfterTarget
    <2>3. /\ k.pc = IF todo = {} THEN "idle" ELSE "chain"
          /\ todo # {} => /\ k.run = worker[w].run /\ k.result = worker[w].result
                          /\ k.todo = todo
      BY <1>0, <2>1, NextTargetFields
    <2>4. QED
      BY <1>0, <2>2, <2>3 DEF Looping
  <1>2. CASE ChainSkip(w, t)
    <2>1. PICK r \in RunIds : Insert(r, NewRow(t.link.to, "skipped", NoMinute,
                                              worker[w].run, TRUE))
      BY <1>2 DEF ChainSkip, CreateChainSkipped
    <2>2. UNCHANGED <<active, lastStatus, claims>>
      BY <1>2 DEF ChainSkip, CreateChainSkipped
    <2>3. Moves
      BY <1>1, <1>2 DEF ChainSkip
    <2>4. PICK j \in Jobs, p \in RunIds \cup {NoRun} :
                j = t.link.to /\ p = worker[w].run
      BY <1>0
    <2>5. /\ "skipped" \in {"pending", "skipped"} /\ TRUE \in BOOLEAN
          /\ NoMinute \in Minutes \cup {NoMinute}
          /\ Insert(r, NewRow(j, "skipped", NoMinute, p, TRUE))
      BY <2>1, <2>4
    <2>6. OpenRow(r)
      BY <2>2, <2>5, OpenRowFacts
    <2>7. /\ Fresh(r) /\ runs'[r].parent = worker[w].run
          /\ runs'[r].job = t.link.to /\ runs'[r].status = "skipped"
      BY <2>2, <2>4, <2>5, InsertFresh
    <2>8. QED
      BY <1>0, <2>2, <2>3, <2>6, <2>7 DEF WritesTarget
  <1>3. CASE ChainQueue(w, t)
    <2>1. PICK r \in RunIds :
            /\ CreateChainRun(r, t.link.to, worker[w].run)
            /\ IF t.link.delay = "long" THEN AfterTarget(w, t)
               ELSE worker' = [worker EXCEPT ![w].pc = "handOff", ![w].step = r,
                                             ![w].todo = worker[w].todo \ {t}]
      BY <1>3 DEF ChainQueue
    <2>2. /\ ChainStepCount[worker[w].run] < ChainMaxDepth
          /\ UNCHANGED <<active, lastStatus, claims>>
          /\ Insert(r, NewRow(t.link.to, "pending", NoMinute, worker[w].run, FALSE))
      BY <1>3, <2>1 DEF ChainQueue, MayChain, CreateChainRun
    <2>3. OpenRow(r)
      BY <1>0, <2>2, OpenRowFacts
    <2>4. Fresh(r) /\ runs'[r].parent = worker[w].run /\ runs'[r].job = t.link.to
      BY <1>0, <2>2, InsertFresh
    <2>5. Moves
      <3>1. CASE t.link.delay = "long"
        BY <1>1, <2>1, <3>1
      <3>2. CASE t.link.delay # "long"
        <4> DEFINE k == [worker[w] EXCEPT !.pc = "handOff", !.step = r, !.todo = todo]
        <4>1. worker' = [worker EXCEPT ![w] = k]
          BY <1>0, <2>1, <3>2
        <4>2. /\ k.pc = "handOff" /\ k.run = worker[w].run
              /\ k.result = worker[w].result /\ k.todo = todo
          BY <1>0 DEF WorkType
        <4> HIDE DEF k
        <4>3. QED
          BY <1>0, <4>1, <4>2 DEF Looping
      <3>3. QED
        BY <3>1, <3>2
    <2>6. QED
      BY <1>0, <2>2, <2>3, <2>4, <2>5 DEF WritesTarget
  <1>4. QED
    BY <1>2, <1>3

(* Every step writes a target, opens a root, or opens nothing. *)
LEMMA ChainKinds ==
    ASSUME TypeOK, [Next]_vars
    PROVE  \/ OpensNone
           \/ \E r \in RunIds : OpensRoot(r)
           \/ \E w \in Workers, r \in RunIds : \E t \in worker[w].todo :
                WritesTarget(w, t, r)
  <1>1. CASE UNCHANGED vars
    BY <1>1, SameRowsOpenNone, SameFollow DEF vars, tableVars, memVars, OpensNone
  <1>2. ASSUME NEW w \in Workers, RunnerStep(w) \/ RunnerFault(w)
        PROVE  OpensNone \/ \E r \in RunIds : \E t \in worker[w].todo :
                              WritesTarget(w, t, r)
    <2>1. ASSUME NEW t \in worker[w].todo, ChainSkip(w, t) \/ ChainQueue(w, t)
          PROVE  \E r \in RunIds : WritesTarget(w, t, r)
      BY <2>1, TargetKinds
    <2>2. QED
      BY <1>2, <2>1, ExecuteKinds, SummaryKinds DEF RunnerStep, RunnerFault
  <1>3. CASE Next
    BY <1>2, <1>3, DispatcherKinds, OutsideKinds DEF Next
  <1>4. QED
    BY <1>1, <1>3
-----------------------------------------------------------------------------
(* The invariant. *)

(* Ids are handed out in order, and a parent is an earlier row. *)
EarlierRowsExist == \A r \in Rows, q \in RunIds : q < r => Exists(q)

ParentsEarlier ==
    \A r \in Rows : runs[r].parent # NoRun =>
        runs[r].parent \in Rows /\ runs[r].parent < r

(* A worker past its result has that result in the history, and its        *)
(* targets are different links the result asks for.                        *)
Told ==
    \A w \in Workers :
        /\ worker[w].pc \in After =>
             runs[worker[w].run].status = worker[w].result
        /\ worker[w].pc \in Looping =>
             /\ worker[w].result \in {"success", "failed"}
             /\ \A t \in worker[w].todo :
                  t.link \in FiredLinks(runs[worker[w].run].job,
                                        Outcome(worker[w].result))
             /\ \A t, u \in worker[w].todo : t.link = u.link => t = u

(* Nothing was written behind a run whose chain has not begun. *)
NoStepYet ==
    \A w \in Workers : worker[w].pc = "summary" =>
        \A r \in Rows : runs[r].parent # worker[w].run

(* What the loop has written and what it may still write are together no   *)
(* more than what the result asks for.                                     *)
StepsLeft ==
    \A w \in Workers : worker[w].pc \in Looping =>
        \A j \in Jobs :
            Cardinality(Children(worker[w].run, j)) + Cardinality(Left(w, j))
                <= Cardinality(Asked(worker[w].run, j))

(* A summary comes from a row that nobody is about to rewrite. *)
SummaryBacked ==
    \A j \in Jobs : lastStatus[j] # "none" =>
        \E r \in Rows :
            /\ runs[r].job = j /\ runs[r].status = lastStatus[j]
            /\ \A w \in Workers : worker[w].pc \in Recording => worker[w].run # r

ChainInv ==
    /\ IInv
    /\ EarlierRowsExist /\ ParentsEarlier /\ ChainFollowsResult
    /\ Told /\ NoStepYet /\ StepsLeft /\ ChainFiresOnce /\ SummaryBacked

-----------------------------------------------------------------------------
(* What a step leaves alone. *)

(* A row stays, with its job, its minute and its parent. *)
LEMMA RowStays ==
    ASSUME IInv, [Next]_vars, NEW r \in Rows
    PROVE  /\ r \in Rows' /\ runs'[r].job = runs[r].job
           /\ runs'[r].parent = runs[r].parent
  <1>0. r \in RunIds /\ Exists(r)
    BY DEF Rows
  <1>1. QuietStep \/ ClaimStep \/ FinishStep
    BY ThreeKinds DEF IInv
  <1>2. ASSUME NEW o \in RunIds, OpenRow(o)
        PROVE  runs'[r] = runs[r] /\ Exists(r)'
    BY <1>0, <1>2 DEF OpenRow, Exists
  <1>3. CASE ~\E o \in RunIds : OpenRow(o)
    <2>1. runs'[r].job = runs[r].job /\ runs'[r].parent = runs[r].parent
      BY <1>0, <1>1, <1>3, KeysKept
    <2>2. Exists(r)'
      <3>1. CASE QuietStep
        BY <1>0, <3>1, QuietRows
           DEF Exists, RowSkips, RowOpens, RowGivenUp
      <3>2. CASE ClaimStep
        <4>1. PICK w \in Workers : worker[w].pc = "claim" /\ ClaimRun(worker[w].run)
          BY <3>2 DEF ClaimStep
        <4>2. worker[w].run \in RunIds
          BY <4>1, BusyWorker DEF IInv
        <4>3. QED
          BY <1>0, <4>1, <4>2, ClaimRows DEF Exists, RowClaimed
      <3>3. CASE FinishStep
        BY <1>0, <3>3, FinishRows DEF FinishStep, Exists, RowCloses, Results
      <3>4. QED
        BY <1>1, <3>1, <3>2, <3>3
    <2>3. QED
      BY <1>0, <2>1, <2>2 DEF Rows, Exists
  <1>4. QED
    BY <1>0, <1>2, <1>3 DEF Rows, Exists

(* A closed row nobody records on keeps its status, and nobody comes to    *)
(* record on it: the claim takes pending rows only.                        *)
LEMMA ClosedStays ==
    ASSUME IInv, [Next]_vars, NEW r \in RunIds, runs[r].status \in Results,
           \A v \in Workers : worker[v].pc \in Recording => worker[v].run # r
    PROVE  /\ runs'[r].status = runs[r].status
           /\ \A v \in Workers : worker'[v].pc \in Recording => worker'[v].run # r
  <1>1. CASE QuietStep
    <2>1. runs'[r].status = runs[r].status
      BY <1>1, QuietRows DEF RowSkips, RowOpens, RowGivenUp, Results
    <2>2. QED
      BY <1>1, <2>1 DEF QuietStep, QuietWorkers, Holding
  <1>2. CASE ClaimStep
    <2>1. PICK w \in Workers :
            /\ worker[w].pc = "claim" /\ ClaimRun(worker[w].run)
            /\ worker'[w].pc \in Holding => worker'[w].run = worker[w].run
            /\ \A v \in Workers \ {w} : worker'[v] = worker[v]
      BY <1>2 DEF ClaimStep
    <2>2. worker[w].run \in RunIds /\ worker[w].run # r
      BY <2>1, BusyWorker DEF IInv, ClaimRun, HasStatus, Results
    <2>3. runs'[r] = runs[r]
      BY <2>1, <2>2, ClaimRows
    <2>4. QED
      BY <2>1, <2>2, <2>3 DEF Holding
  <1>3. CASE FinishStep
    <2>1. PICK w \in Workers :
            /\ worker[w].pc = "finish" /\ FinishRun(worker[w].run, worker[w].result)
            /\ QuietWorkers
      BY <1>3 DEF FinishStep
    <2>2. worker[w].run # r
      BY <2>1 DEF Recording
    <2>3. runs'[r] = runs[r]
      BY <2>1, <2>2, FinishRows
    <2>4. QED
      BY <2>1, <2>3 DEF QuietWorkers, Holding
  <1>4. QED
    BY <1>1, <1>2, <1>3, ThreeKinds DEF IInv

(* Of a worker past its result: its row is closed, and is its own. *)
LEMMA AfterFacts ==
    ASSUME ChainInv, NEW w \in Workers, worker[w].pc \in After
    PROVE  /\ worker[w].run \in RunIds /\ worker[w].run \in Rows
           /\ worker[w].run # NoRun
           /\ worker[w].pc \in Holding
           /\ runs[worker[w].run].status \in Results
           /\ \A v \in Workers : worker[v].pc \in Recording
                                 => worker[v].run # worker[w].run
           /\ \A v \in Workers \ {w} : worker[v].pc \in Holding
                                       => worker[v].run # worker[w].run
  <1>1. /\ worker[w].pc # "idle" /\ worker[w].pc \in Holding
        /\ worker[w].pc \notin Recording
    BY DEF After, Holding, Recording
  <1>2. worker[w].run \in RunIds /\ Exists(worker[w].run)
    BY <1>1, BusyWorker DEF ChainInv, IInv
  <1>3. \A v \in Workers \ {w} : worker[v].pc \in Holding
                                 => worker[v].run # worker[w].run
    BY <1>1 DEF ChainInv, IInv, Exclusive
  <1>4. runs[worker[w].run].status \in Results
    <2>1. CASE worker[w].pc \in Looping
      BY <2>1 DEF ChainInv, Told, Results
    <2>2. CASE worker[w].pc = "summary"
      BY <2>2, TypeParts DEF ChainInv, IInv, Told, WorkersOK, WorkOK
    <2>3. QED
      BY <2>1, <2>2 DEF After, Looping
  <1>5. QED
    BY <1>1, <1>2, <1>3, <1>4, ConstantFacts DEF Rows, Holding

(* The row of a worker past its result keeps its status. *)
LEMMA AfterStays ==
    ASSUME ChainInv, [Next]_vars, NEW w \in Workers, worker[w].pc \in After
    PROVE  /\ runs'[worker[w].run].status = runs[worker[w].run].status
           /\ runs'[worker[w].run].job = runs[worker[w].run].job
  BY AfterFacts, ClosedStays, RowStays DEF ChainInv

(* The rows after a step: the ones before it, and the one it opened. *)
LEMMA RowsAfter ==
    ASSUME IInv, [Next]_vars
    PROVE  /\ NoneOpened => Rows' = Rows
           /\ \A r \in RunIds : OpenRow(r) =>
                /\ Rows' = Rows \cup {r} /\ r \notin Rows
                /\ \A q \in Rows : runs'[q] = runs[q]
  <1>1. Rows \subseteq Rows'
    BY RowStays
  <1>2. NoneOpened => Rows' \subseteq Rows
    BY DEF NoneOpened, Rows
  <1>3. ASSUME NEW r \in RunIds, OpenRow(r)
        PROVE  /\ Rows' = Rows \cup {r} /\ r \notin Rows
               /\ \A q \in Rows : runs'[q] = runs[q]
    BY <1>1, <1>3 DEF OpenRow, Rows, Exists
  <1>4. QED
    BY <1>1, <1>2, <1>3

(* The children of a run after a step. *)
LEMMA ChildrenAfter ==
    ASSUME IInv, [Next]_vars, NEW p, NEW j
    PROVE  /\ NoneOpened => Children(p, j)' = Children(p, j)
           /\ \A r \in RunIds : OpenRow(r) =>
                Children(p, j)' =
                  IF runs'[r].parent = p /\ runs'[r].job = j
                  THEN Children(p, j) \cup {r} ELSE Children(p, j)
  <1>1. CASE NoneOpened
    <2>1. Rows' = Rows
      BY <1>1, RowsAfter
    <2>2. \A r \in Rows : runs'[r].parent = runs[r].parent /\ runs'[r].job = runs[r].job
      BY RowStays
    <2>3. QED
      BY <2>1, <2>2, RowsAfter DEF Children, OpenRow, NoneOpened, Exists
  <1>2. ASSUME NEW r \in RunIds, OpenRow(r)
        PROVE  Children(p, j)' =
                 IF runs'[r].parent = p /\ runs'[r].job = j
                 THEN Children(p, j) \cup {r} ELSE Children(p, j)
    <2>1. /\ Rows' = Rows \cup {r} /\ r \notin Rows
          /\ \A q \in Rows : runs'[q] = runs[q]
      BY <1>2, RowsAfter
    <2>2. QED
      BY <2>1 DEF Children
  <1>3. ~NoneOpened \/ ~\E r \in RunIds : OpenRow(r)
    BY DEF NoneOpened, OpenRow, Exists
  <1>4. QED
    BY <1>1, <1>2

(* What a run asks for does not change once it has a result of its own. *)
LEMMA AskedStays ==
    ASSUME NEW p, NEW j, runs'[p].job = runs[p].job,
           runs'[p].status = runs[p].status
    PROVE  Asked(p, j)' = Asked(p, j)
  BY DEF Asked

(* A run has finitely many children, and asks for finitely many. *)
LEMMA CountsFinite ==
    ASSUME NEW p, NEW j
    PROVE  /\ IsFiniteSet(Children(p, j)) /\ Cardinality(Children(p, j)) \in Nat
           /\ IsFiniteSet(Asked(p, j)) /\ Cardinality(Asked(p, j)) \in Nat
           /\ IsFiniteSet(Asked(p, j)') /\ Cardinality(Asked(p, j)') \in Nat
  <1>1. /\ Children(p, j) \in SUBSET RunIds
        /\ Asked(p, j) \in SUBSET Links /\ Asked(p, j)' \in SUBSET Links
    BY DEF Children, Rows, Asked, FiredLinks
  <1>2. IsFiniteSet(RunIds) /\ IsFiniteSet(Links)
    BY JobRunsAssumption
  <1>3. QED
    BY <1>1, <1>2, FS_Subset, FS_CardinalityType

(* Targets with different links are as many as links at most. *)
LEMMA TargetsCount ==
    ASSUME NEW T, NEW L, IsFiniteSet(L),
           \A t \in T : t.link \in L,
           \A t, u \in T : t.link = u.link => t = u
    PROVE  IsFiniteSet(T) /\ Cardinality(T) <= Cardinality(L)
  <1> DEFINE f == [t \in T |-> t.link]
  <1>1. f \in Injection(T, L)
    BY DEF Injection, IsInjective
  <1>2. QED
    BY <1>1, FS_Injection

(* The targets a worker has left are finitely many. *)
LEMMA LeftFinite ==
    ASSUME Told, NEW w \in Workers, worker[w].pc \in Looping, NEW j
    PROVE  /\ IsFiniteSet(Left(w, j)) /\ Cardinality(Left(w, j)) \in Nat
           /\ \A S \in SUBSET Left(w, j) :
                /\ IsFiniteSet(S) /\ Cardinality(S) \in Nat
                /\ Cardinality(S) <= Cardinality(Left(w, j))
  <1>1. IsFiniteSet(Links)
    BY JobRunsAssumption
  <1>2. /\ \A t \in Left(w, j) : t.link \in Links
        /\ \A t, u \in Left(w, j) : t.link = u.link => t = u
    BY DEF Told, Left, FiredLinks
  <1>3. IsFiniteSet(Left(w, j))
    BY <1>1, <1>2, TargetsCount
  <1>4. QED
    BY <1>3, FS_CardinalityType, FS_Subset

-----------------------------------------------------------------------------
(* Each part is kept. *)

(* Ids stay in order, and so do parents. *)
LEMMA OrderKept ==
    ASSUME ChainInv, [Next]_vars
    PROVE  EarlierRowsExist' /\ ParentsEarlier'
  <1>0. IInv /\ EarlierRowsExist /\ ParentsEarlier /\ RunIds \subseteq Nat
        /\ (Rows \subseteq RunIds) /\ TypeOK
    BY JobRunsAssumption DEF ChainInv, Rows, IInv
  <1>1. \A q \in Rows : q \in Rows' /\ runs'[q].parent = runs[q].parent
    BY <1>0, RowStays
  <1>2. CASE OpensNone
    <2>1. Rows' = Rows
      BY <1>0, <1>2, RowsAfter DEF OpensNone
    <2>2. QED
      BY <1>0, <1>1, <2>1 DEF EarlierRowsExist, ParentsEarlier, Rows
  <1>3. ASSUME NEW r \in RunIds, Fresh(r), OpenRow(r),
               runs'[r].parent = NoRun \/ runs'[r].parent \in Rows
        PROVE  EarlierRowsExist' /\ ParentsEarlier'
    <2>1. Rows' = Rows \cup {r} /\ r \notin Rows
      BY <1>0, <1>3, RowsAfter
    <2>2. ASSUME NEW x \in Rows', NEW q \in RunIds, q < x PROVE q \in Rows'
      BY <1>0, <1>3, <2>1, <2>2 DEF Fresh, EarlierRowsExist, Rows
    <2>3. ASSUME NEW x \in Rows', runs'[x].parent # NoRun
          PROVE  runs'[x].parent \in Rows' /\ runs'[x].parent < x
      <3>1. CASE x \in Rows
        BY <1>0, <1>1, <2>3, <3>1 DEF ParentsEarlier
      <3>2. CASE x = r
        <4>1. runs'[r].parent \in Rows /\ runs'[r].parent # r
          BY <1>3, <2>1, <2>3, <3>2
        <4>2. ~(r < runs'[r].parent)
          BY <1>0, <1>3, <4>1, <2>1 DEF EarlierRowsExist, Rows
        <4>3. runs'[r].parent \in Nat /\ r \in Nat
          BY <1>0, <4>1
        <4>4. QED
          BY <2>1, <3>2, <4>1, <4>2, <4>3
      <3>3. QED
        BY <2>1, <3>1, <3>2
    <2>4. EarlierRowsExist'
      BY <2>2 DEF EarlierRowsExist, Rows
    <2>5. ParentsEarlier'
      BY <2>3 DEF ParentsEarlier
    <2>6. QED
      BY <2>4, <2>5
  <1>4. ASSUME NEW w \in Workers, NEW r \in RunIds, NEW t \in worker[w].todo,
               WritesTarget(w, t, r)
        PROVE  Fresh(r) /\ OpenRow(r) /\ runs'[r].parent \in Rows
    BY <1>4, AfterFacts DEF WritesTarget, After
  <1>5. QED
    BY <1>0, <1>2, <1>3, <1>4, ChainKinds DEF OpensRoot

(* A worker past its result still has it in the history. *)
LEMMA ToldKept ==
    ASSUME ChainInv, [Next]_vars
    PROVE  Told'
  <1>0. IInv /\ TypeOK /\ Told
    BY DEF ChainInv, IInv
  <1> DEFINE ToldOf(k, row) ==
               /\ k.pc \in After => row.status = k.result
               /\ k.pc \in Looping =>
                    /\ k.result \in {"success", "failed"}
                    /\ \A t \in k.todo :
                         t.link \in FiredLinks(row.job, Outcome(k.result))
                    /\ \A t, u \in k.todo : t.link = u.link => t = u
  <1>1. ASSUME NEW v \in Workers, worker[v].pc \in After, worker'[v].pc \in After,
               worker'[v].run = worker[v].run, worker'[v].result = worker[v].result,
               worker'[v].pc \in Looping =>
                 worker[v].pc \in Looping /\ worker'[v].todo \subseteq worker[v].todo
        PROVE  ToldOf(worker'[v], runs'[worker'[v].run])
    <2>1. /\ runs'[worker[v].run].status = runs[worker[v].run].status
          /\ runs'[worker[v].run].job = runs[worker[v].run].job
      BY <1>1, AfterStays
    <2>2. QED
      BY <1>0, <1>1, <2>1 DEF Told
  <1>2. ASSUME NEW v \in Workers, Follows(v)
        PROVE  ToldOf(worker'[v], runs'[worker'[v].run])
    <2>1. CASE worker'[v].pc \notin After
      BY <2>1 DEF After, Looping
    <2>2. CASE /\ worker[v].pc = "finish" /\ worker'[v].pc = "summary"
               /\ FinishRun(worker[v].run, worker[v].result)
               /\ worker'[v].run = worker[v].run
               /\ worker'[v].result = worker[v].result
      <3>1. worker[v].run \in RunIds /\ TableTypeOK
        BY <1>0, <2>2, BusyWorker, TypeParts
      <3>2. runs'[worker[v].run].status = worker[v].result
        BY <2>2, <3>1 DEF FinishRun, TableTypeOK, Row
      <3>3. QED
        BY <2>2, <3>2 DEF Looping
    <2>3. CASE /\ worker[v].pc = "summary" /\ worker'[v].pc = "chain"
               /\ worker'[v].todo = ChainTargets(v)
               /\ worker'[v].todo # {} /\ runs' = runs
               /\ worker'[v].run = worker[v].run
               /\ worker'[v].result = worker[v].result
      <3>1. /\ worker[v].result # "timeout" /\ worker[v].result \in Results
            /\ runs[worker[v].run].status = worker[v].result
        BY <1>0, <2>3, TypeParts DEF ChainTargets, Told, After, WorkersOK, WorkOK
      <3>2. worker'[v].todo =
              ListChainTargets(runs[worker[v].run].job, Outcome(worker[v].result))
        BY <2>3, <3>1 DEF ChainTargets
      <3>3. /\ \A t \in worker'[v].todo :
                 t.link \in FiredLinks(runs[worker[v].run].job,
                                       Outcome(worker[v].result))
            /\ \A t, u \in worker'[v].todo : t.link = u.link => t = u
        BY <3>2 DEF ListChainTargets
      <3>4. worker[v].result \in {"success", "failed"}
        BY <3>1 DEF Results
      <3>5. QED
        BY <2>3, <3>1, <3>3, <3>4
    <2>4. CASE /\ worker[v].pc \in After /\ worker'[v].pc \in After
               /\ worker'[v].run = worker[v].run
               /\ worker'[v].result = worker[v].result
               /\ worker'[v].pc \in Looping =>
                    worker[v].pc \in Looping /\ worker'[v].todo \subseteq worker[v].todo
      BY <1>1, <2>4
    <2> HIDE DEF ToldOf
    <2>5. QED
      BY <1>2, <2>1, <2>2, <2>3, <2>4 DEF Follows, After, Looping
  <1>3. ASSUME NEW w \in Workers, NEW r \in RunIds, NEW t \in worker[w].todo,
               WritesTarget(w, t, r), NEW v \in Workers
        PROVE  ToldOf(worker'[v], runs'[worker'[v].run])
    <2>1. CASE v # w /\ worker[v].pc \in After
      BY <1>1, <1>3, <2>1 DEF WritesTarget, Looping
    <2>2. CASE v # w /\ worker[v].pc \notin After
      BY <1>3, <2>2 DEF WritesTarget, After, Looping
    <2>3. CASE v = w /\ worker'[v].pc \in Looping
      BY <1>1, <1>3, <2>3 DEF WritesTarget, After, Looping
    <2>4. CASE v = w /\ worker'[v].pc \notin Looping
      BY <1>3, <2>4 DEF WritesTarget, After, Looping
    <2>5. QED
      BY <2>1, <2>2, <2>3, <2>4
  <1>4. ASSUME NEW r \in RunIds, OpensRoot(r), NEW v \in Workers
        PROVE  ToldOf(worker'[v], runs'[worker'[v].run])
    <2>1. CASE worker[v].pc \in After
      BY <1>1, <1>4, <2>1 DEF OpensRoot, Looping
    <2>2. CASE worker[v].pc \notin After
      BY <1>4, <2>2 DEF OpensRoot, After, Looping
    <2>3. QED
      BY <2>1, <2>2
  <1>5. \A v \in Workers : ToldOf(worker'[v], runs'[worker'[v].run])
    <2> HIDE DEF ToldOf
    <2>1. QED
      BY <1>0, <1>2, <1>3, <1>4, ChainKinds DEF OpensNone
  <1>6. QED
    BY <1>5 DEF Told

(* Every chain step stands behind a recorded result that asks for it. *)
LEMMA FollowsKept ==
    ASSUME ChainInv, [Next]_vars
    PROVE  ChainFollowsResult'
  <1> DEFINE Behind(x) ==
               LET p == runs[x].parent IN
               /\ runs[p].status \in {"success", "failed"}
               /\ \E l \in FiredLinks(runs[p].job, Outcome(runs[p].status)) :
                     l.to = runs[x].job
  <1>0. IInv /\ ParentsEarlier /\ ChainFollowsResult /\ Told
    BY DEF ChainInv
  <1>1. ASSUME NEW x \in Rows, runs[x].parent # NoRun PROVE Behind(x)'
    <2>1. /\ runs'[x].parent = runs[x].parent /\ runs'[x].job = runs[x].job
      BY <1>0, RowStays
    <2>2. Behind(x)
      BY <1>0, <1>1 DEF ChainFollowsResult
    <2>3. runs[x].parent \in RunIds
      BY <1>0, <1>1 DEF ParentsEarlier, Rows
    <2>4. runs'[runs[x].parent] = runs[runs[x].parent]
      BY <1>0, <2>2, <2>3, SettledKept
    <2>5. QED
      BY <2>1, <2>2, <2>4
  <1>2. ASSUME NEW w \in Workers, NEW r \in RunIds, NEW t \in worker[w].todo,
               WritesTarget(w, t, r)
        PROVE  Behind(r)'
    <2>1. /\ worker[w].pc \in After /\ worker[w].pc \in Looping
          /\ runs'[r].parent = worker[w].run /\ runs'[r].job = t.link.to
      BY <1>2 DEF WritesTarget, After, Looping
    <2>2. /\ runs[worker[w].run].status \in {"success", "failed"}
          /\ t.link \in FiredLinks(runs[worker[w].run].job,
                                   Outcome(runs[worker[w].run].status))
      BY <1>0, <2>1 DEF Told
    <2>3. runs'[worker[w].run] = runs[worker[w].run]
      BY <1>0, <2>1, <2>2, AfterFacts, SettledKept
    <2>4. QED
      BY <2>1, <2>2, <2>3
  <1>3. ASSUME NEW x \in Rows', runs'[x].parent # NoRun PROVE Behind(x)'
    <2>1. CASE x \in Rows
      <3>1. runs[x].parent # NoRun
        BY <1>0, <1>3, <2>1, RowStays
      <3>2. QED
        BY <1>1, <2>1, <3>1
    <2>2. CASE x \notin Rows
      <3>1. ~NoneOpened
        BY <1>0, <1>3, <2>2, RowsAfter
      <3>2. ASSUME NEW r \in RunIds, OpensRoot(r) PROVE FALSE
        BY <1>0, <1>3, <2>2, <3>2, RowsAfter DEF OpensRoot
      <3>3. PICK w \in Workers, r \in RunIds : \E t \in worker[w].todo :
              WritesTarget(w, t, r)
        BY <1>0, <3>1, <3>2, ChainKinds DEF IInv, OpensNone
      <3>4. x = r
        BY <1>0, <1>3, <2>2, <3>3, RowsAfter DEF WritesTarget
      <3>5. QED
        BY <1>2, <3>3, <3>4
    <2>3. QED
      BY <2>1, <2>2
  <1>4. QED
    BY <1>3 DEF ChainFollowsResult

(* A worker before its chain has written nothing yet: nobody writes behind *)
(* a run that is still to be recorded, and only its own worker afterwards. *)
LEMMA NoStepKept ==
    ASSUME ChainInv, [Next]_vars
    PROVE  NoStepYet'
  <1>0. IInv /\ TypeOK /\ NoStepYet /\ ChainFollowsResult /\ ClaimedRowsHeld
    BY DEF ChainInv, IInv
  <1> SUFFICES ASSUME NEW v \in Workers, worker'[v].pc = "summary",
                      NEW x \in Rows', runs'[x].parent = worker'[v].run
               PROVE  FALSE
    BY DEF NoStepYet
  <1>1. CASE OpensNone
    <2>1. x \in Rows /\ runs[x].parent = worker'[v].run
      BY <1>0, <1>1, RowsAfter, RowStays DEF OpensNone
    <2>2. Follows(v)
      BY <1>1 DEF OpensNone
    <2>3. CASE worker[v].pc = "summary"
      BY <1>0, <2>1, <2>2, <2>3 DEF Follows, After, NoStepYet
    <2>4. CASE worker[v].pc = "finish"
      <3>1. /\ runs[x].parent = worker[v].run /\ worker[v].run \in RunIds
            /\ runs[worker[v].run].status \in {"running", "timeout"}
        BY <1>0, <2>1, <2>2, <2>4, BusyWorker
           DEF Follows, After, ClaimedRowsHeld, Recording
      <3>2. runs[x].parent # NoRun
        BY <3>1, ConstantFacts
      <3>3. QED
        BY <1>0, <2>1, <3>1, <3>2 DEF ChainFollowsResult
    <2>5. QED
      BY <2>2, <2>3, <2>4 DEF Follows, After, Looping
  <1>2. ASSUME NEW r \in RunIds, OpensRoot(r) PROVE FALSE
    <2>1. worker[v].pc = "summary" /\ worker'[v] = worker[v]
      BY <1>2 DEF OpensRoot
    <2>2. worker[v].run # NoRun
      BY <2>1, AfterFacts DEF After
    <2>3. x # r
      BY <1>2, <2>1, <2>2 DEF OpensRoot
    <2>4. x \in Rows
      BY <1>0, <1>2, <2>3, RowsAfter DEF OpensRoot
    <2>5. QED
      BY <1>0, <2>1, <2>4, RowStays DEF NoStepYet
  <1>3. ASSUME NEW w \in Workers, NEW r \in RunIds, NEW t \in worker[w].todo,
               WritesTarget(w, t, r)
        PROVE  FALSE
    <2>1. worker[v].pc = "summary" /\ worker'[v] = worker[v] /\ v # w
      BY <1>3 DEF WritesTarget, Looping
    <2>2. worker[v].run # worker[w].run
      BY <1>3, <2>1, AfterFacts DEF WritesTarget, After, Holding
    <2>3. x # r
      BY <1>3, <2>1, <2>2 DEF WritesTarget
    <2>4. x \in Rows
      BY <1>0, <1>3, <2>3, RowsAfter DEF WritesTarget
    <2>5. QED
      BY <1>0, <2>1, <2>4, RowStays DEF NoStepYet
  <1>4. QED
    BY <1>0, <1>1, <1>2, <1>3, ChainKinds

(* The loop never writes more than the result asks for. *)
LEMMA StepsLeftKept ==
    ASSUME ChainInv, [Next]_vars
    PROVE  StepsLeft'
  <1>0. IInv /\ TypeOK /\ Told /\ StepsLeft /\ NoStepYet
    BY DEF ChainInv, IInv
  <1>t. Told'
    BY ToldKept
  <1> SUFFICES ASSUME NEW v \in Workers, worker'[v].pc \in Looping, NEW j \in Jobs
               PROVE  (Cardinality(Children(worker[v].run, j))
                         + Cardinality(Left(v, j))
                         <= Cardinality(Asked(worker[v].run, j)))'
    BY DEF StepsLeft
  <1>1. ASSUME NEW p, worker[v].pc \in Looping, worker[v].run = p,
               worker'[v].run = p,
               Children(p, j)' = Children(p, j), Left(v, j)' \subseteq Left(v, j)
        PROVE  (Cardinality(Children(worker[v].run, j)) + Cardinality(Left(v, j))
                  <= Cardinality(Asked(worker[v].run, j)))'
    <2>1. Asked(p, j)' = Asked(p, j)
      BY <1>1, AfterStays, AskedStays DEF After, Looping
    <2>2. Cardinality(Children(p, j)) + Cardinality(Left(v, j))
            <= Cardinality(Asked(p, j))
      BY <1>0, <1>1 DEF StepsLeft
    <2>3. /\ Cardinality(Left(v, j)') \in Nat /\ Cardinality(Left(v, j)) \in Nat
          /\ Cardinality(Left(v, j)') <= Cardinality(Left(v, j))
      BY <1>0, <1>1, LeftFinite
    <2>4. Cardinality(Children(p, j)) \in Nat /\ Cardinality(Asked(p, j)) \in Nat
      BY CountsFinite
    <2>5. Cardinality(Children(p, j)) + Cardinality(Left(v, j)')
            <= Cardinality(Asked(p, j))
      BY <2>2, <2>3, <2>4
    <2>6. QED
      BY <1>1, <2>1, <2>5
  <1>2. CASE OpensNone
    <2>1. Follows(v) /\ NoneOpened
      BY <1>2 DEF OpensNone
    <2>2. PICK p : p = worker[v].run
      OBVIOUS
    <2>3. worker'[v].run = p /\ Children(p, j)' = Children(p, j)
      BY <1>0, <2>1, <2>2, ChildrenAfter DEF Follows, After, Looping
    <2>4. CASE worker[v].pc \in Looping
      <3>1. worker'[v].todo \subseteq worker[v].todo
        BY <2>1, <2>4 DEF Follows, After, Looping
      <3>2. Left(v, j)' \subseteq Left(v, j)
        BY <3>1 DEF Left
      <3>3. QED
        BY <1>1, <2>2, <2>3, <2>4, <3>2
    <2>5. CASE worker[v].pc = "summary"
      <3>1. Children(p, j) = {}
        BY <1>0, <2>2, <2>5 DEF NoStepYet, Children
      <3>2. /\ runs'[p].status = worker'[v].result
            /\ \A t \in worker'[v].todo :
                 t.link \in FiredLinks(runs'[p].job, Outcome(worker'[v].result))
            /\ \A t, u \in worker'[v].todo : t.link = u.link => t = u
        BY <1>t, <2>3 DEF Told, After, Looping, FiredLinks
      <3>3. /\ \A t \in Left(v, j)' : t.link \in Asked(p, j)'
            /\ \A t, u \in Left(v, j)' : t.link = u.link => t = u
        BY <3>2 DEF Left, Asked, FiredLinks
      <3>4. /\ IsFiniteSet(Left(v, j)')
            /\ Cardinality(Left(v, j)') <= Cardinality(Asked(p, j)')
        BY <3>3, CountsFinite, TargetsCount
      <3>5. Cardinality(Left(v, j)') \in Nat /\ Cardinality({}) = 0
        BY <3>4, FS_CardinalityType, FS_EmptySet
      <3>6. Cardinality(Children(p, j)') + Cardinality(Left(v, j)')
              <= Cardinality(Asked(p, j)')
        BY <2>3, <3>1, <3>4, <3>5
      <3>7. QED
        BY <2>3, <3>6
    <2>6. QED
      BY <2>1, <2>4, <2>5 DEF Follows, After, Looping
  <1>3. ASSUME NEW r \in RunIds, OpensRoot(r)
        PROVE  (Cardinality(Children(worker[v].run, j)) + Cardinality(Left(v, j))
                  <= Cardinality(Asked(worker[v].run, j)))'
    <2>1. PICK p : p = worker[v].run
      OBVIOUS
    <2>2. worker'[v] = worker[v] /\ p # NoRun
      BY <1>3, <2>1, AfterFacts DEF OpensRoot, After, Looping
    <2>3. Children(p, j)' = Children(p, j)
      BY <1>0, <1>3, <2>2, ChildrenAfter DEF OpensRoot
    <2>4. Left(v, j)' = Left(v, j)
      BY <2>2 DEF Left
    <2>5. QED
      BY <1>1, <2>1, <2>2, <2>3, <2>4
  <1>4. ASSUME NEW w \in Workers, NEW r \in RunIds, NEW t \in worker[w].todo,
               WritesTarget(w, t, r)
        PROVE  (Cardinality(Children(worker[v].run, j)) + Cardinality(Left(v, j))
                  <= Cardinality(Asked(worker[v].run, j)))'
    <2>1. PICK p : p = worker[v].run
      OBVIOUS
    <2>2. CASE v # w
      <3>1. worker'[v] = worker[v] /\ worker[v].pc \in Looping
        BY <1>4, <2>2 DEF WritesTarget
      <3>2. p # worker[w].run
        BY <1>4, <2>1, <2>2, <3>1, AfterFacts
           DEF WritesTarget, After, Looping, Holding
      <3>3. Children(p, j)' = Children(p, j)
        BY <1>0, <1>4, <3>2, ChildrenAfter DEF WritesTarget
      <3>4. Left(v, j)' = Left(v, j)
        BY <3>1 DEF Left
      <3>5. QED
        BY <1>1, <2>1, <3>1, <3>3, <3>4
    <2>3. CASE v = w
      <3>1. /\ worker[v].pc \in Looping /\ worker'[v].run = p
            /\ worker'[v].todo = worker[v].todo \ {t} /\ t \in worker[v].todo
            /\ OpenRow(r) /\ runs'[r].parent = p /\ runs'[r].job = t.link.to
        BY <1>4, <2>1, <2>3 DEF WritesTarget, Looping
      <3>2. CASE t.link.to # j
        <4>1. Children(p, j)' = Children(p, j)
          BY <1>0, <3>1, <3>2, ChildrenAfter
        <4>2. Left(v, j)' \subseteq Left(v, j)
          BY <3>1 DEF Left
        <4>3. QED
          BY <1>1, <2>1, <3>1, <4>1, <4>2
      <3>3. CASE t.link.to = j
        <4>1. Children(p, j)' = Children(p, j) \cup {r} /\ r \notin Children(p, j)
          BY <1>0, <3>1, <3>3, ChildrenAfter DEF Children, OpenRow, Rows
        <4>2. Left(v, j)' = Left(v, j) \ {t} /\ t \in Left(v, j)
          BY <3>1, <3>3 DEF Left
        <4>3. Cardinality(Children(p, j)') = Cardinality(Children(p, j)) + 1
          BY <4>1, CountsFinite, FS_AddElement
        <4>4. Cardinality(Left(v, j)') = Cardinality(Left(v, j)) - 1
          BY <1>0, <3>1, <4>2, LeftFinite, FS_RemoveElement
        <4>5. Cardinality(Children(p, j)) + Cardinality(Left(v, j))
                <= Cardinality(Asked(p, j))
          BY <1>0, <2>1, <3>1 DEF StepsLeft
        <4>6. Asked(p, j)' = Asked(p, j)
          BY <2>1, <3>1, AfterStays, AskedStays DEF After, Looping
        <4>7. /\ Cardinality(Children(p, j)) \in Nat
              /\ Cardinality(Asked(p, j)) \in Nat
              /\ Cardinality(Left(v, j)) \in Nat
          BY <1>0, <3>1, CountsFinite, LeftFinite
        <4>8. Cardinality(Children(p, j)') + Cardinality(Left(v, j)')
                <= Cardinality(Asked(p, j)')
          BY <4>3, <4>4, <4>5, <4>6, <4>7
        <4>9. QED
          BY <3>1, <4>8
      <3>4. QED
        BY <3>2, <3>3
    <2>4. QED
      BY <2>2, <2>3
  <1>5. QED
    BY <1>0, <1>2, <1>3, <1>4, ChainKinds

(* Nobody fires a link twice. *)
LEMMA FiresOnceKept ==
    ASSUME ChainInv, [Next]_vars
    PROVE  ChainFiresOnce'
  <1> DEFINE Bounded(p, j) ==
               Cardinality(Children(p, j)) <= Cardinality(Asked(p, j))
  <1>0. /\ IInv /\ TypeOK /\ Told /\ StepsLeft /\ ChainFollowsResult
        /\ ParentsEarlier /\ NoRun \notin RunIds
        /\ \A p \in Rows, j \in Jobs : Bounded(p, j)
    BY ConstantFacts DEF ChainInv, IInv, ChainFiresOnce, Children, Asked
  <1> SUFFICES ASSUME NEW p \in Rows', NEW j \in Jobs PROVE Bounded(p, j)'
    BY DEF ChainFiresOnce, Children, Asked
  <1>1. p \in RunIds /\ p # NoRun
    BY <1>0 DEF Rows
  <1>2. Cardinality({}) = 0
    BY FS_EmptySet
  <1>3. ASSUME p \in Rows, Children(p, j)' = Children(p, j) PROVE Bounded(p, j)'
    <2>1. CASE Children(p, j) = {}
      BY <1>2, <1>3, <2>1, CountsFinite
    <2>2. CASE Children(p, j) # {}
      <3>1. runs[p].status \in {"success", "failed"}
        BY <1>0, <1>1, <2>2 DEF Children, ChainFollowsResult
      <3>2. runs'[p] = runs[p]
        BY <1>0, <1>1, <3>1, SettledKept
      <3>3. Asked(p, j)' = Asked(p, j)
        BY <3>2, AskedStays
      <3>4. QED
        BY <1>0, <1>3, <3>3
    <2>3. QED
      BY <2>1, <2>2
  <1>4. ASSUME p \notin Rows PROVE Children(p, j) = {}
    BY <1>0, <1>1, <1>4 DEF Children, ParentsEarlier
  <1>5. CASE OpensNone
    BY <1>0, <1>3, <1>5, RowsAfter, ChildrenAfter DEF OpensNone
  <1>6. ASSUME NEW r \in RunIds, OpensRoot(r) PROVE Bounded(p, j)'
    <2>1. Children(p, j)' = Children(p, j)
      BY <1>0, <1>1, <1>6, ChildrenAfter DEF OpensRoot
    <2>2. CASE p \in Rows
      BY <1>3, <2>1, <2>2
    <2>3. CASE p \notin Rows
      BY <1>2, <1>4, <2>1, <2>3, CountsFinite
    <2>4. QED
      BY <2>2, <2>3
  <1>7. ASSUME NEW w \in Workers, NEW r \in RunIds, NEW t \in worker[w].todo,
               WritesTarget(w, t, r)
        PROVE  Bounded(p, j)'
    <2>1. /\ worker[w].pc \in Looping /\ worker[w].pc \in After /\ OpenRow(r)
          /\ runs'[r].parent = worker[w].run /\ runs'[r].job = t.link.to
      BY <1>7 DEF WritesTarget, Looping, After
    <2>2. worker[w].run \in Rows
      BY <2>1, AfterFacts
    <2>3. CASE ~(p = worker[w].run /\ j = t.link.to)
      <3>1. Children(p, j)' = Children(p, j)
        BY <1>0, <2>1, <2>3, ChildrenAfter
      <3>2. CASE p \in Rows
        BY <1>3, <3>1, <3>2
      <3>3. CASE p \notin Rows
        BY <1>2, <1>4, <3>1, <3>3, CountsFinite
      <3>4. QED
        BY <3>2, <3>3
    <2>4. CASE p = worker[w].run /\ j = t.link.to
      <3>0. r \notin Children(p, j)
        BY <2>1 DEF Children, OpenRow, Rows
      <3>1. Children(p, j)' = Children(p, j) \cup {r}
        <4>1. runs'[r].parent = p /\ runs'[r].job = j /\ IInv
          BY <1>0, <2>1, <2>4
        <4>2. QED
          BY <2>1, <4>1, ChildrenAfter
      <3>2. Cardinality(Children(p, j)') = Cardinality(Children(p, j)) + 1
        BY <3>0, <3>1, CountsFinite, FS_AddElement
      <3>3. t \in Left(w, j)
        BY <2>4 DEF Left
      <3>4. Cardinality(Left(w, j)) \in Nat /\ Cardinality(Left(w, j)) # 0
        BY <1>0, <2>1, <3>3, LeftFinite, FS_EmptySet
      <3>5. Cardinality(Children(p, j)) + Cardinality(Left(w, j))
              <= Cardinality(Asked(p, j))
        BY <1>0, <2>1, <2>4 DEF StepsLeft
      <3>6. Asked(p, j)' = Asked(p, j)
        BY <2>1, <2>4, AfterStays, AskedStays
      <3>7. Cardinality(Children(p, j)) \in Nat /\ Cardinality(Asked(p, j)) \in Nat
        BY CountsFinite
      <3>8. QED
        BY <3>2, <3>4, <3>5, <3>6, <3>7
    <2>5. QED
      BY <2>3, <2>4
  <1> HIDE DEF Bounded
  <1>8. QED
    BY <1>0, <1>5, <1>6, <1>7, ChainKinds

(* The row a summary came from stays as it is. *)
LEMMA SummaryKept ==
    ASSUME ChainInv, [Next]_vars
    PROVE  SummaryBacked'
  <1> DEFINE Backs(r, j, s) ==
               /\ runs[r].job = j /\ runs[r].status = s
               /\ \A w \in Workers : worker[w].pc \in Recording => worker[w].run # r
  <1>0. /\ IInv /\ TypeOK /\ TableTypeOK /\ Told /\ SummaryBacked
        /\ \A j \in Jobs : lastStatus[j] \in Results \cup {"none"}
        /\ Rows \subseteq RunIds
    BY TypeParts DEF ChainInv, IInv, TableTypeOK, Rows
  <1>1. ASSUME NEW r \in Rows, NEW j, NEW s \in Results, Backs(r, j, s)
        PROVE  r \in Rows' /\ Backs(r, j, s)'
    <2>1. r \in RunIds
      BY <1>0
    <2>2. /\ runs'[r].status = runs[r].status
          /\ \A v \in Workers : worker'[v].pc \in Recording => worker'[v].run # r
      BY <1>0, <1>1, <2>1, ClosedStays
    <2>3. r \in Rows' /\ runs'[r].job = runs[r].job
      BY <1>0, RowStays
    <2>4. QED
      BY <1>1, <2>2, <2>3
  <1>2. ASSUME NEW j \in Jobs, lastStatus'[j] = lastStatus[j], lastStatus[j] # "none"
        PROVE  \E r \in Rows' : Backs(r, j, lastStatus[j])'
    <2>1. lastStatus[j] \in Results
      BY <1>0, <1>2
    <2>2. PICK s \in Results : s = lastStatus[j]
      BY <2>1
    <2>3. PICK r \in Rows : Backs(r, j, s)
      BY <1>0, <1>2, <2>2 DEF SummaryBacked
    <2>4. r \in Rows' /\ Backs(r, j, s)'
      BY <1>1, <2>3
    <2>5. QED
      BY <1>2, <2>2, <2>4
  <1>3. ASSUME NEW w \in Workers, worker[w].pc = "summary",
               WriteJobSummary(runs[worker[w].run].job, worker[w].result),
               NEW j \in Jobs, lastStatus'[j] # "none"
        PROVE  \E r \in Rows' : Backs(r, j, lastStatus[j])'
    <2>1. CASE j # runs[worker[w].run].job
      BY <1>0, <1>2, <1>3, <2>1 DEF WriteJobSummary, TableTypeOK
    <2>2. CASE j = runs[worker[w].run].job
      <3>1. PICK r, s : r = worker[w].run /\ s = worker[w].result
        OBVIOUS
      <3>2. /\ r \in Rows /\ runs[r].status = s /\ s \in Results
            /\ \A v \in Workers : worker[v].pc \in Recording => worker[v].run # r
        BY <1>0, <1>3, <3>1, AfterFacts DEF After, Told
      <3>3. r \in Rows' /\ Backs(r, j, s)'
        BY <1>1, <2>2, <3>1, <3>2
      <3>4. lastStatus'[j] = s
        BY <1>0, <1>3, <2>2, <3>1 DEF WriteJobSummary, TableTypeOK
      <3>5. QED
        BY <3>3, <3>4
    <2>3. QED
      BY <2>1, <2>2
  <1>4. ASSUME NEW j \in Jobs, lastStatus'[j] # "none"
        PROVE  \E r \in Rows' : Backs(r, j, lastStatus[j])'
    <2>1. \/ lastStatus' = lastStatus
          \/ \E w \in Workers :
               /\ worker[w].pc = "summary"
               /\ WriteJobSummary(runs[worker[w].run].job, worker[w].result)
      BY <1>0, ChainKinds DEF OpensNone, OpensRoot, WritesTarget
    <2> HIDE DEF Backs
    <2>2. QED
      BY <1>2, <1>3, <1>4, <2>1
  <1>5. QED
    BY <1>4 DEF SummaryBacked

(* The first state satisfies the invariant. *)
LEMMA ChainInit == Init => ChainInv
  <1> SUFFICES ASSUME Init PROVE ChainInv
    OBVIOUS
  <1>1. Rows = {} /\ \A j \in Jobs : lastStatus[j] = "none"
    BY DEF Init, TableInit, NoRow, NewRow, Rows, Exists
  <1>2. \A w \in Workers : worker[w].pc \notin After \cup Looping
    BY DEF Init, NoWork, After, Looping
  <1>3. IInv
    BY InitInv
  <1>4. QED
    BY <1>1, <1>2, <1>3 DEF ChainInv, EarlierRowsExist, ParentsEarlier,
       ChainFollowsResult, Told, NoStepYet, StepsLeft, ChainFiresOnce, SummaryBacked,
       After

(* Every step keeps it. *)
LEMMA ChainStepInv == ChainInv /\ [Next]_vars => ChainInv'
  <1> SUFFICES ASSUME ChainInv, [Next]_vars PROVE ChainInv'
    OBVIOUS
  <1>1. IInv'
    BY StepInv DEF ChainInv
  <1>2. QED
    BY <1>1, OrderKept, FollowsKept, ToldKept, NoStepKept, StepsLeftKept,
       FiresOnceKept, SummaryKept DEF ChainInv

-----------------------------------------------------------------------------
(* The theorems. *)

(* The invariant of the chain holds. *)
THEOREM ChainInvariant == Spec => []ChainInv
  BY ChainInit, ChainStepInv, PTL DEF Spec

(* A chain step stands behind a recorded success or failure its link asks  *)
(* for: FinishRun comes before triggerChain, and a timeout triggers none.  *)
THEOREM StepsFollowResults == Spec => []ChainFollowsResult
  <1>1. ChainInv => ChainFollowsResult
    BY DEF ChainInv
  <1>2. QED
    BY <1>1, ChainInvariant, PTL

(* A run fires each link at most once, whatever was handed over twice,     *)
(* given up on or crashed: only the worker that recorded it writes behind  *)
(* it, once for each target it read.                                       *)
THEOREM LinksFireOnce == Spec => []ChainFiresOnce
  <1>1. ChainInv => ChainFiresOnce
    BY DEF ChainInv
  <1>2. QED
    BY <1>1, ChainInvariant, PTL

(* What WriteJobSummary leaves on a job is the status of one of its rows,  *)
(* and stays so until retention deletes the row: a row nobody records on   *)
(* is never rewritten.                                                     *)
THEOREM SummaryComesFromHistory == Spec => []SummaryFromHistory
  <1>1. ChainInv => SummaryFromHistory
    BY DEF ChainInv, SummaryBacked, SummaryFromHistory
  <1>2. QED
    BY <1>1, ChainInvariant, PTL

-----------------------------------------------------------------------------
(* The depth of the chain. *)

(* The parents the walk of ChainStepCount goes up, 0 at a root. *)
Up == [r \in RunIds |->
         IF Exists(r) /\ runs[r].parent # NoRun THEN runs[r].parent ELSE 0]

ShallowRows ==
    \A r \in Rows : ~HasStatus(r, "skipped") => ChainStepCount[r] <= ChainMaxDepth

(* The walk up ends, so that ChainStepCount is the number of its steps. *)
LEMMA CountsSteps ==
    ParentsEarlier => /\ Climbs(RunIds, Up)
                      /\ Depths(RunIds, Up, ChainStepCount)
  <1> SUFFICES ASSUME ParentsEarlier
               PROVE  Climbs(RunIds, Up) /\ Depths(RunIds, Up, ChainStepCount)
    OBVIOUS
  <1> DEFINE Body(f) == [r \in RunIds |->
                           IF Exists(r) /\ runs[r].parent # NoRun
                           THEN f[runs[r].parent] + 1 ELSE 0]
  <1>1. Climbs(RunIds, Up)
    BY DEF Climbs, Up, ParentsEarlier, Rows
  <1>2. RunIds \in SUBSET (Nat \ {0}) /\ IsFiniteSet(RunIds)
    BY JobRunsAssumption DEF NoRun
  <1>3. ASSUME NEW f PROVE Depths(RunIds, Up, f) <=> f = Body(f)
    <2>1. ASSUME NEW r \in RunIds
          PROVE  (IF Up[r] = 0 THEN 0 ELSE f[Up[r]] + 1)
                   = (IF Exists(r) /\ runs[r].parent # NoRun
                      THEN f[runs[r].parent] + 1 ELSE 0)
      BY DEF Up, NoRun
    <2>2. QED
      BY <2>1 DEF Depths
  <1>4. \E f : f = Body(f)
    <2>1. PICK up : up = Up
      OBVIOUS
    <2>2. \E f : Depths(RunIds, up, f)
      BY <1>1, <1>2, <2>1, DepthsExist
    <2>3. QED
      BY <1>3, <2>1, <2>2
  <1>5. ChainStepCount = CHOOSE f : f = Body(f)
    BY DEF ChainStepCount
  <1>6. ChainStepCount = Body(ChainStepCount)
    <2> HIDE DEF Body
    <2>1. QED
      BY <1>4, <1>5
  <1>7. QED
    BY <1>1, <1>3, <1>6

(* The same of the next state. *)
LEMMA CountsStepsNext ==
    ParentsEarlier' => /\ Climbs(RunIds, Up)'
                       /\ Depths(RunIds, Up, ChainStepCount)'
  BY CountsSteps, PTL

(* No row that may be executed lies deeper than the cap. *)
LEMMA ShallowKept ==
    ASSUME ChainInv, ChainInv', ShallowRows, [Next]_vars
    PROVE  ShallowRows'
  <1> USE DEF ChainInv
  <1>0. /\ TypeOK /\ Rows \subseteq RunIds
        /\ ChainMaxDepth \in Nat /\ RunIds \in SUBSET (Nat \ {0})
    BY ExecutionAssumption, JobRunsAssumption DEF IInv, Rows, NoRun
  <1>1. PICK up, f : /\ up = Up /\ f = ChainStepCount
                     /\ Climbs(RunIds, up) /\ Depths(RunIds, up, f)
    BY CountsSteps
  <1>2. PICK vp, g : /\ vp = Up' /\ g = ChainStepCount'
                     /\ Climbs(RunIds, vp) /\ Depths(RunIds, vp, g)
    BY CountsStepsNext
  <1>3. Climbs(Rows, up)
    BY <1>0, <1>1 DEF Climbs, Up, ParentsEarlier, NoRun
  <1>4. \A r \in Rows : vp[r] = up[r]
    <2>1. ASSUME NEW r \in Rows PROVE vp[r] = up[r]
      <3>1. r \in RunIds /\ Exists(r) /\ Exists(r)' /\ runs'[r].parent = runs[r].parent
        BY <1>0, RowStays DEF Rows
      <3>2. QED
        BY <1>1, <1>2, <3>1 DEF Up, Exists
    <2>2. QED
      BY <2>1
  <1>5. \A r \in Rows : g[r] = f[r]
    <2>1. PICK S \in SUBSET (Nat \ {0}) : S = RunIds
      BY <1>0
    <2>2. PICK D \in SUBSET S : D = Rows
      BY <1>0, <2>1
    <2>3. /\ Depths(S, up, f) /\ Depths(S, vp, g)
          /\ Climbs(D, up) /\ \A r \in D : vp[r] = up[r]
      BY <1>1, <1>2, <1>3, <1>4, <2>1, <2>2
    <2>4. \A r \in D : g[r] = f[r]
      BY <2>3, DepthsAgree
    <2>5. QED
      BY <2>2, <2>4
  <1>6. \A r \in RunIds : f[r] \in Nat
    BY <1>0, <1>1, DepthsNat
  <1>7. ASSUME NEW r \in RunIds
        PROVE  g[r] = IF vp[r] = 0 THEN 0 ELSE g[vp[r]] + 1
    BY <1>2 DEF Depths
  <1>8. ASSUME NEW r \in RunIds, OpensRoot(r) PROVE g[r] = 0
    BY <1>2, <1>7, <1>8 DEF OpensRoot, Up
  <1>9. ASSUME NEW w \in Workers, NEW r \in RunIds, NEW t \in worker[w].todo,
               WritesTarget(w, t, r), runs'[r].status # "skipped"
        PROVE  g[r] <= ChainMaxDepth
    <2>1. worker[w].run \in Rows /\ worker[w].run \in RunIds /\ worker[w].run # NoRun
      BY <1>9, AfterFacts DEF WritesTarget, After
    <2>2. f[worker[w].run] < ChainMaxDepth
      BY <1>1, <1>9 DEF WritesTarget
    <2>3. Exists(r)'
      BY <1>9 DEF WritesTarget, OpenRow, Exists
    <2>4. vp[r] = worker[w].run
      BY <1>2, <1>9, <2>1, <2>3 DEF WritesTarget, Up
    <2>5. g[r] = f[worker[w].run] + 1
      BY <1>5, <1>7, <2>1, <2>4 DEF NoRun
    <2>6. QED
      BY <1>0, <1>6, <2>1, <2>2, <2>5
  <1>10. ASSUME NEW x \in Rows', runs'[x].status # "skipped"
         PROVE  g[x] <= ChainMaxDepth
    <2>1. CASE x \in Rows
      <3>1. runs[x].status # "skipped"
        BY <1>0, <1>10, <2>1, SettledKept
      <3>2. QED
        BY <1>1, <1>5, <2>1, <3>1 DEF ShallowRows, HasStatus
    <2>2. CASE x \notin Rows
      <3>1. ~NoneOpened
        BY <1>10, <2>2, RowsAfter
      <3>2. ASSUME NEW r \in RunIds, OpensRoot(r) PROVE g[x] <= ChainMaxDepth
        <4>1. x = r
          BY <1>10, <2>2, <3>2, RowsAfter DEF OpensRoot
        <4>2. QED
          BY <1>0, <1>8, <3>2, <4>1
      <3>3. ASSUME NEW w \in Workers, NEW r \in RunIds, NEW t \in worker[w].todo,
                   WritesTarget(w, t, r)
            PROVE  g[x] <= ChainMaxDepth
        <4>1. x = r
          BY <1>10, <2>2, <3>3, RowsAfter DEF WritesTarget
        <4>2. QED
          BY <1>9, <1>10, <3>3, <4>1
      <3>4. QED
        BY <1>0, <3>1, <3>2, <3>3, ChainKinds DEF OpensNone
    <2>3. QED
      BY <2>1, <2>2
  <1>11. QED
    BY <1>2, <1>10 DEF ShallowRows, HasStatus

(* No run deeper than the cap is executed, whatever cycles the links form: *)
(* a row the loop may hand over is one step deeper than a run below the    *)
(* cap, and a parent never changes afterwards.                             *)
THEOREM DepthBounded == Spec => []ChainDepthBounded
  <1>1. Init => ShallowRows
    BY DEF Init, TableInit, NoRow, NewRow, ShallowRows, Rows, Exists
  <1>2. ChainInv /\ ChainInv' /\ ShallowRows /\ [Next]_vars => ShallowRows'
    BY ShallowKept
  <1>3. ChainInv /\ ShallowRows => ChainDepthBounded
    BY DEF ChainInv, IInv, ClaimedRowsHeld, ShallowRows, HasStatus, ChainDepthBounded,
       Rows
  <1>4. QED
    BY <1>1, <1>2, <1>3, ChainInvariant, PTL DEF Spec

-----------------------------------------------------------------------------
(* A single_run job alone. *)

(* Two workers never stand between the check of a single_run job and its   *)
(* claim at the same time.  The code does not see to it: CheckSingleRun    *)
(* and ClaimRun are two statements.                                        *)
OneAtATime ==
    \A v, w \in Workers :
        /\ worker[v].pc = "claim" /\ worker[w].pc = "claim"
        /\ runs[worker[v].run].job = runs[worker[w].run].job
        /\ runs[worker[v].run].job \in SingleRun
        => v = w

(* What the check saw is still so when the worker claims. *)
ClaimAlone ==
    \A w \in Workers :
        /\ worker[w].pc = "claim" /\ runs[worker[w].run].job \in SingleRun
        => RunningForJob(runs[worker[w].run].job, worker[w].run) = {}

(* A worker comes to the claim past the check, or the job needs none. *)
Admitted(v) ==
    /\ runs' = runs
    /\ runs[worker'[v].run].job \in SingleRun
         => RunningForJob(runs[worker'[v].run].job, worker'[v].run) = {}

(* Only StartWork and CheckSingleRun lead to the claim. *)
LEMMA ClaimArrives ==
    ASSUME TypeOK, [Next]_vars, NEW v \in Workers, worker'[v].pc = "claim"
    PROVE  worker'[v] = worker[v] \/ Admitted(v)
  <1>0. worker \in [Workers -> WorkType] /\ \A w \in Workers : worker[w] \in WorkType
    BY TypeParts DEF WorkersOK
  <1>1. ASSUME NEW w \in Workers, NEW k, worker' = [worker EXCEPT ![w] = k],
               k.pc # "claim"
        PROVE  worker'[v] = worker[v]
    BY <1>0, <1>1
  <1>2. ASSUME NEW w \in Workers, NEW pc, Goto(w, pc), pc # "claim"
        PROVE  worker'[v] = worker[v]
    <2>1. PICK k : worker' = [worker EXCEPT ![w] = k] /\ k.pc = pc
      BY <1>2, GotoFields
    <2>2. QED
      BY <1>1, <1>2, <2>1
  <1>3. ASSUME NEW w \in Workers, Rest(w) PROVE worker'[v] = worker[v]
    <2>1. PICK k : k = NoWork
      OBVIOUS
    <2>2. k.pc # "claim"
      BY <2>1 DEF NoWork
    <2>3. QED
      BY <1>1, <1>3, <2>1, <2>2 DEF Rest
  <1>4. ASSUME NEW w \in Workers, NEW todo,
               worker' = [worker EXCEPT ![w] = NextTarget(w, todo)]
        PROVE  worker'[v] = worker[v]
    <2>1. PICK k : k = NextTarget(w, todo)
      OBVIOUS
    <2>2. k.pc # "claim"
      BY <1>0, <2>1, NextTargetFields
    <2>3. QED
      BY <1>1, <1>4, <2>1, <2>2
  <1>5. ASSUME NEW w \in Workers, StartWork(w)
        PROVE  worker'[v] = worker[v] \/ Admitted(v)
    <2> DEFINE head == Head(queue[Home(w)])
               k == [worker[w] EXCEPT
                       !.run = head,
                       !.pc = IF runs[head].job \in SingleRun
                              THEN "check" ELSE "claim"]
    <2>1. worker' = [worker EXCEPT ![w] = k] /\ runs' = runs
      BY <1>5 DEF StartWork, tableVars
    <2>2. /\ k.pc = IF runs[head].job \in SingleRun THEN "check" ELSE "claim"
          /\ k.run = head
      BY <1>0 DEF WorkType
    <2> HIDE DEF k
    <2>3. CASE v = w
      BY <1>0, <2>1, <2>2, <2>3 DEF Admitted
    <2>4. CASE v # w
      BY <1>0, <2>1, <2>4
    <2>5. QED
      BY <2>3, <2>4
  <1>6. ASSUME NEW w \in Workers, CheckSingleRun(w)
        PROVE  worker'[v] = worker[v] \/ Admitted(v)
    <2>1. CASE RunningForJob(runs[worker[w].run].job, worker[w].run) = {}
      <3>1. Goto(w, "claim") /\ runs' = runs
        BY <1>6, <2>1 DEF CheckSingleRun, tableVars
      <3>2. PICK k : worker' = [worker EXCEPT ![w] = k] /\ k.run = worker[w].run
        BY <3>1, GotoFields
      <3>3. QED
        BY <1>0, <2>1, <3>1, <3>2 DEF Admitted
    <2>2. CASE RunningForJob(runs[worker[w].run].job, worker[w].run) # {}
      BY <1>2, <1>6, <2>2 DEF CheckSingleRun
    <2>3. QED
      BY <2>1, <2>2
  <1>7. ASSUME NEW w \in Workers, Execute(w) PROVE worker'[v] = worker[v]
    <2>1. PICK result \in Results :
            worker' = [worker EXCEPT ![w].pc = "finish", ![w].result = result]
      BY <1>7 DEF Execute
    <2> DEFINE k == [worker[w] EXCEPT !.pc = "finish", !.result = result]
    <2>2. worker' = [worker EXCEPT ![w] = k] /\ k.pc # "claim"
      BY <1>0, <2>1 DEF WorkType
    <2>3. QED
      BY <1>1, <2>2
  <1>8. ASSUME NEW w \in Workers, RunnerStep(w) \/ RunnerFault(w)
        PROVE  worker'[v] = worker[v] \/ Admitted(v)
    <2>1. CASE SkipBusy(w) \/ Claim(w) \/ Finish(w) \/ GiveUp(w)
               \/ ClaimAnswerLost(w) \/ FinishFails(w) \/ ChainUnread(w)
      BY <1>2, <1>3, <2>1
         DEF SkipBusy, Claim, Finish, GiveUp, ClaimAnswerLost, FinishFails, ChainUnread
    <2>2. CASE Summarise(w) \/ SummaryFails(w) \/ HandOff(w) \/ HandOffFails(w)
               \/ \E t \in worker[w].todo : ChainFails(w, t)
      BY <1>4, <2>2 DEF Summarise, SummaryFails, HandOff, HandOffFails, ChainFails,
         BeginChain, AfterTarget
    <2>3. ASSUME NEW t \in worker[w].todo, ChainSkip(w, t) \/ ChainQueue(w, t)
          PROVE  worker'[v] = worker[v]
      <3>1. PICK r \in RunIds : WritesTarget(w, t, r)
        BY <2>3, TargetKinds
      <3>2. QED
        BY <3>1 DEF WritesTarget, Looping
    <2>4. QED
      BY <1>5, <1>6, <1>7, <1>8, <2>1, <2>2, <2>3 DEF RunnerStep, RunnerFault
  <1>9. ASSUME NEW i \in Replicas, Crash(i) PROVE worker'[v] = worker[v]
    BY <1>9 DEF Crash, NoWork
  <1>10. CASE UNCHANGED worker
    BY <1>10
  <1>11. QED
    BY <1>8, <1>9, <1>10
       DEF Next, vars, memVars, DispatcherStep, DispatcherFault, BeginTick, QueueDue,
       TakeQuota, ReadRunningJobs, ReadPending, DispatchSkip, DispatchRow, TickFails,
       SkipFails, Trigger, TimerFires, Sweep, RunAfter, GrowOld, Suspend

(* A run starts by a claim and by nothing else. *)
LEMMA RunningAfter ==
    ASSUME IInv, [Next]_vars
    PROVE  \/ Running' \subseteq Running
           \/ \E w \in Workers :
                /\ worker[w].pc = "claim" /\ worker[w].run \in RunIds
                /\ worker[w].run \in Rows
                /\ Running' \subseteq Running \cup {worker[w].run}
                /\ \A v \in Workers \ {w} : worker'[v] = worker[v]
                /\ runs' # runs
  <1>1. CASE QuietStep
    <2>1. \A r \in RunIds : runs'[r].status = "running" => runs[r].status = "running"
      BY <1>1, QuietRows DEF RowSkips, RowOpens, RowGivenUp
    <2>2. QED
      BY <2>1 DEF Running, HasStatus
  <1>2. CASE FinishStep
    <2>1. \A r \in RunIds : runs'[r].status = "running" => runs[r].status = "running"
      BY <1>2, FinishRows DEF FinishStep, RowCloses, Results
    <2>2. QED
      BY <2>1 DEF Running, HasStatus
  <1>3. CASE ClaimStep
    <2>1. PICK w \in Workers :
            /\ worker[w].pc = "claim" /\ ClaimRun(worker[w].run)
            /\ \A v \in Workers \ {w} : worker'[v] = worker[v]
      BY <1>3 DEF ClaimStep
    <2>2. worker[w].run \in RunIds /\ worker[w].run \in Rows
      BY <2>1, BusyWorker DEF IInv, Rows
    <2>3. \A r \in RunIds \ {worker[w].run} : runs'[r] = runs[r]
      BY <2>1, <2>2, ClaimRows
    <2>4. runs'[worker[w].run].status # runs[worker[w].run].status
      BY <2>1, <2>2, ClaimRows DEF RowClaimed
    <2>5. Running' \subseteq Running \cup {worker[w].run} /\ runs' # runs
      BY <2>3, <2>4 DEF Running, HasStatus
    <2>6. QED
      BY <2>1, <2>2, <2>5
  <1>4. QED
    BY <1>1, <1>2, <1>3, ThreeKinds DEF IInv

(* One job at a time through check and claim keeps a single_run job alone. *)
LEMMA AloneKept ==
    ASSUME IInv, OneAtATime, ClaimAlone, SingleRunExclusive, [Next]_vars
    PROVE  ClaimAlone' /\ SingleRunExclusive'
  <1>0. TypeOK /\ (Running \subseteq Rows) /\ IInv'
        /\ \A r \in Rows : runs'[r].job = runs[r].job
    BY StepInv, RowStays DEF IInv, Running, HasStatus, Rows, Exists
  <1>1. ASSUME NEW v \in Workers, worker'[v].pc = "claim", worker'[v] = worker[v]
        PROVE  worker[v].run \in Rows /\ runs'[worker[v].run].job = runs[worker[v].run].job
    BY <1>0, <1>1, BusyWorker DEF Rows
  <1>2. CASE Running' \subseteq Running
    <2>1. SingleRunExclusive'
      BY <1>0, <1>2 DEF SingleRunExclusive
    <2>2. ASSUME NEW v \in Workers, worker'[v].pc = "claim",
                 runs'[worker'[v].run].job \in SingleRun,
                 NEW x \in RunningForJob(runs[worker[v].run].job, worker[v].run)'
          PROVE  FALSE
      <3>1. x \in Running /\ x \in Rows /\ x # worker'[v].run
            /\ runs'[x].job = runs'[worker'[v].run].job /\ runs'[x].job = runs[x].job
        BY <1>0, <1>2, <2>2 DEF RunningForJob
      <3>2. CASE worker'[v] = worker[v]
        <4>1. runs[worker[v].run].job = runs'[worker'[v].run].job
          BY <1>1, <2>2, <3>2
        <4>2. RunningForJob(runs[worker[v].run].job, worker[v].run) = {}
          BY <2>2, <3>2, <4>1 DEF ClaimAlone
        <4>3. QED
          BY <3>1, <3>2, <4>1, <4>2 DEF RunningForJob
      <3>3. CASE Admitted(v)
        BY <2>2, <3>1, <3>3 DEF Admitted, RunningForJob
      <3>4. QED
        BY <1>0, <2>2, <3>2, <3>3, ClaimArrives
    <2>3. ClaimAlone'
      BY <2>2 DEF ClaimAlone
    <2>4. QED
      BY <2>1, <2>3
  <1>3. ASSUME NEW w \in Workers,
               worker[w].pc = "claim", worker[w].run \in RunIds,
               worker[w].run \in Rows,
               Running' \subseteq Running \cup {worker[w].run},
               \A v \in Workers \ {w} : worker'[v] = worker[v],
               runs' # runs
        PROVE  ClaimAlone' /\ SingleRunExclusive'
    <2>1. ASSUME NEW q \in Running', NEW r \in Running', q # r,
                 runs'[q].job = runs'[r].job, runs'[q].job \in SingleRun
          PROVE  FALSE
      <3>1. q \in Rows /\ r \in Rows /\ runs[q].job = runs[r].job
            /\ runs[q].job \in SingleRun
        BY <1>0, <1>3, <2>1
      <3>2. CASE q # worker[w].run /\ r # worker[w].run
        BY <1>3, <2>1, <3>1, <3>2 DEF SingleRunExclusive
      <3>3. CASE q = worker[w].run \/ r = worker[w].run
        <4>1. RunningForJob(runs[worker[w].run].job, worker[w].run) = {}
          BY <1>3, <3>1, <3>3 DEF ClaimAlone
        <4>2. QED
          BY <1>3, <2>1, <3>1, <3>3, <4>1 DEF RunningForJob
      <3>4. QED
        BY <3>2, <3>3
    <2>2. SingleRunExclusive'
      BY <2>1 DEF SingleRunExclusive
    <2>3. ASSUME NEW v \in Workers, worker'[v].pc = "claim",
                 runs'[worker'[v].run].job \in SingleRun,
                 NEW x \in RunningForJob(runs[worker[v].run].job, worker[v].run)'
          PROVE  FALSE
      <3>1. worker'[v] = worker[v]
        BY <1>0, <1>3, <2>3, ClaimArrives DEF Admitted
      <3>2. worker[v].run \in Rows
            /\ runs'[worker[v].run].job = runs[worker[v].run].job
        BY <1>1, <2>3, <3>1
      <3>3. /\ x \in Running' /\ x \in Rows /\ x # worker[v].run
            /\ runs[x].job = runs[worker[v].run].job
        BY <1>0, <1>3, <2>3, <3>1, <3>2 DEF RunningForJob
      <3>4. RunningForJob(runs[worker[v].run].job, worker[v].run) = {}
        BY <2>3, <3>1, <3>2 DEF ClaimAlone
      <3>5. x = worker[w].run
        BY <1>3, <3>3, <3>4 DEF RunningForJob
      <3>6. v = w
        BY <1>3, <2>3, <3>1, <3>2, <3>3, <3>5 DEF OneAtATime
      <3>7. QED
        BY <3>3, <3>5, <3>6
    <2>4. ClaimAlone'
      BY <2>3 DEF ClaimAlone
    <2>5. QED
      BY <2>2, <2>4
  <1>4. QED
    BY <1>2, <1>3, RunningAfter

(* single_run holds in every behaviour in which two workers are never      *)
(* between the check and the claim of the same job: the window between     *)
(* RunningForJob and ClaimRun is all that can break it.                    *)
THEOREM AloneUnlessRaced == Spec /\ []OneAtATime => []SingleRunExclusive
  <1>1. Init => ClaimAlone /\ SingleRunExclusive
    BY DEF Init, TableInit, NoRow, NewRow, NoWork, ClaimAlone, SingleRunExclusive,
       Running, HasStatus
  <1>2. IInv /\ OneAtATime /\ ClaimAlone /\ SingleRunExclusive /\ [Next]_vars
          => ClaimAlone' /\ SingleRunExclusive'
    BY AloneKept
  <1>3. QED
    BY <1>1, <1>2, Invariant, PTL DEF Spec

(* With one worker in the whole service there is no such window. *)
THEOREM AloneWithOneWorker ==
    ASSUME \A v, w \in Workers : v = w
    PROVE  Spec => []SingleRunExclusive
  <1>1. OneAtATime
    BY DEF OneAtATime
  <1>2. []OneAtATime
    BY <1>1, PTL
  <1>3. QED
    BY <1>2, AloneUnlessRaced, PTL
=============================================================================
