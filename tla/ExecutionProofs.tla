-------------------------- MODULE ExecutionProofs --------------------------
(***************************************************************************)
(* Proofs about module Execution, for every number of replicas, workers,   *)
(* jobs, links and rows.  First the types; then the safety of a run: one   *)
(* execution per row and per planned minute, a skipped row is never        *)
(* executed, a recorded result stands, and run records go through the life *)
(* cycle of module RunLifecycle.                                           *)
(***************************************************************************)
EXTENDS Execution, FiniteSetTheorems, TLAPS

-----------------------------------------------------------------------------
(* Facts about the constants and the vocabulary *)

(* A worker belongs to a replica. *)
LEMMA HomeReplica == \A w \in Workers : Home(w) \in Replicas
  BY DEF Workers, Home

(* Row ids and planned minutes are positive; the constants' other facts.   *)
LEMMA ConstantFacts ==
    /\ NoRun \notin RunIds
    /\ NoMinute \notin Minutes
    /\ NoJob \notin Jobs
    /\ \A l \in Links : l.to \in Jobs
  BY JobRunsAssumption DEF NoRun, NoMinute

(* Counting rows gives a number. *)
LEMMA RunningFinite == IsFiniteSet(Running)
  BY FS_Subset, JobRunsAssumption DEF Running

(* The blank row and a freshly built row are rows. *)
LEMMA RowShapes ==
    /\ NoRow \in Row
    /\ \A j \in Jobs, s \in Statuses, m \in Minutes \cup {NoMinute},
         p \in RunIds \cup {NoRun}, b \in BOOLEAN :
         /\ NewRow(j, s, m, p, b) \in Row
         /\ NewRow(j, s, m, p, b).status = s
         /\ NewRow(j, s, m, p, b).job = j
         /\ NewRow(j, s, m, p, b).minute = m
         /\ NewRow(j, s, m, p, b).parent = p
  BY DEF NoRow, NewRow, Row, Statuses

-----------------------------------------------------------------------------
(* What the statements of module JobRuns do to the table.                  *)
(* Each keeps TableTypeOK and loses no row.                                *)

RowsKept == \A r \in RunIds : Exists(r) => Exists(r)'

(* INSERT: one row that was not there is there now. *)
LEMMA InsertFacts ==
    ASSUME TableTypeOK, NEW r \in RunIds, NEW j \in Jobs, NEW s \in Statuses,
           NEW m \in Minutes \cup {NoMinute}, NEW p \in RunIds \cup {NoRun},
           NEW b \in BOOLEAN,
           Insert(r, NewRow(j, s, m, p, b)), UNCHANGED <<active, lastStatus, claims>>
    PROVE  /\ TableTypeOK' /\ RowsKept
           /\ ~Exists(r) /\ Exists(r)'
           /\ runs'[r] = NewRow(j, s, m, p, b)
           /\ \A q \in RunIds \ {r} : runs'[q] = runs[q]
  <1>1. /\ ~Exists(r) /\ runs' = [runs EXCEPT ![r] = NewRow(j, s, m, p, b)]
    BY DEF Insert, Fresh
  <1>2. /\ NewRow(j, s, m, p, b) \in Row
        /\ NewRow(j, s, m, p, b).status = s
        /\ NewRow(j, s, m, p, b).job = j
    BY RowShapes
  <1>3. s # "absent"
    BY DEF Statuses, Results
  <1>4. /\ runs'[r] = NewRow(j, s, m, p, b)
        /\ \A q \in RunIds \ {r} : runs'[q] = runs[q]
        /\ runs' \in [RunIds -> Row]
    BY <1>1, <1>2 DEF TableTypeOK
  <1>5. QED
    BY <1>1, <1>2, <1>3, <1>4 DEF TableTypeOK, RowsKept, Exists

(* An update of one existing row's status and flags. *)
LEMMA UpdateFacts ==
    ASSUME TableTypeOK, NEW r \in RunIds, Exists(r), NEW s \in Statuses,
           NEW row \in Row,
           row.status = s, row.job = runs[r].job,
           runs' = [runs EXCEPT ![r] = row],
           active' \subseteq Jobs, lastStatus' = lastStatus,
           claims' \in [RunIds -> Nat]
    PROVE  TableTypeOK' /\ RowsKept
  <1>1. s # "absent"
    BY DEF Statuses, Results
  <1>2. runs' \in [RunIds -> Row] /\ runs'[r] = row
        /\ \A q \in RunIds \ {r} : runs'[q] = runs[q]
    BY DEF TableTypeOK
  <1>3. QED
    BY <1>1, <1>2 DEF TableTypeOK, RowsKept, Exists

(* SkipRun closes a pending row and leaves any other row alone. *)
LEMMA SkipRunFacts ==
    ASSUME TableTypeOK, NEW r \in RunIds, SkipRun(r)
    PROVE  TableTypeOK' /\ RowsKept
  <1>1. CASE ~HasStatus(r, "pending")
    BY <1>1 DEF SkipRun, TableTypeOK, RowsKept, Exists
  <1>2. CASE HasStatus(r, "pending")
    <2> DEFINE row == [runs[r] EXCEPT !.status = "skipped"]
    <2>1. row \in Row /\ row.status = "skipped" /\ row.job = runs[r].job
      BY DEF TableTypeOK, Row, Statuses
    <2>2. runs' = [runs EXCEPT ![r] = row]
      BY <1>2 DEF SkipRun
    <2>3. Exists(r) /\ "skipped" \in Statuses
      BY <1>2 DEF Exists, HasStatus, Statuses
    <2> QED
      BY <2>1, <2>2, <2>3, UpdateFacts DEF SkipRun, TableTypeOK
  <1>3. QED
    BY <1>1, <1>2

(* ClaimRun turns a pending row into a running one, once. *)
LEMMA ClaimRunFacts ==
    ASSUME TableTypeOK, NEW r \in RunIds, ClaimRun(r)
    PROVE  TableTypeOK' /\ RowsKept
  <1> DEFINE row == [runs[r] EXCEPT !.status = "running"]
  <1>1. row \in Row /\ row.status = "running" /\ row.job = runs[r].job
    BY DEF TableTypeOK, Row, Statuses
  <1>2. Exists(r) /\ "running" \in Statuses
    BY DEF ClaimRun, Exists, HasStatus, Statuses
  <1>3. runs' = [runs EXCEPT ![r] = row] /\ claims' \in [RunIds -> Nat]
    BY DEF ClaimRun, TableTypeOK
  <1>4. QED
    BY <1>1, <1>2, <1>3, UpdateFacts DEF ClaimRun, TableTypeOK

(* FinishRun writes a result on an existing row. *)
LEMMA FinishRunFacts ==
    ASSUME TableTypeOK, NEW r \in RunIds, Exists(r), NEW s \in Results,
           FinishRun(r, s)
    PROVE  TableTypeOK' /\ RowsKept
  <1> DEFINE row == [runs[r] EXCEPT !.status = s, !.old = FALSE]
  <1>1. row \in Row /\ row.status = s /\ row.job = runs[r].job /\ s \in Statuses
    BY DEF TableTypeOK, Row, Statuses
  <1>2. runs' = [runs EXCEPT ![r] = row]
    BY DEF FinishRun, TableTypeOK
  <1>3. /\ active' \subseteq Jobs /\ lastStatus' = lastStatus
        /\ claims' \in [RunIds -> Nat]
    BY DEF FinishRun, TableTypeOK
  <1>4. PICK x : x = row
    OBVIOUS
  <1>5. QED
    BY <1>1, <1>2, <1>3, <1>4, UpdateFacts

(* CloseStuckRuns turns running rows into timeouts and nothing else. *)
LEMMA CloseStuckFacts ==
    ASSUME TableTypeOK, CloseStuckRuns
    PROVE  TableTypeOK' /\ RowsKept
  <1>1. \A r \in RunIds : runs'[r] \in Row /\ (Exists(r) => Exists(r)')
                          /\ (Exists(r)' => runs'[r].job \in Jobs)
    <2> SUFFICES ASSUME NEW r \in RunIds
                 PROVE  runs'[r] \in Row /\ (Exists(r) => Exists(r)')
                        /\ (Exists(r)' => runs'[r].job \in Jobs)
      OBVIOUS
    <2>1. runs[r] \in Row /\ (Exists(r) => runs[r].job \in Jobs)
      BY DEF TableTypeOK
    <2>2. CASE r \in Stuck
      <3> DEFINE row == [runs[r] EXCEPT !.status = "timeout", !.old = FALSE]
      <3>1. runs'[r] = row
        BY <2>2 DEF CloseStuckRuns
      <3>2. row \in Row /\ row.status = "timeout" /\ row.job = runs[r].job
        BY <2>1 DEF Row, Statuses, Results
      <3>3. Exists(r)
        BY <2>2 DEF Stuck, Running, HasStatus, Exists
      <3>4. QED
        BY <2>1, <3>1, <3>2, <3>3 DEF Exists
    <2>3. CASE r \notin Stuck
      BY <2>1, <2>3 DEF CloseStuckRuns, Exists
    <2>4. QED
      BY <2>2, <2>3
  <1>2. runs' \in [RunIds -> Row]
    BY <1>1 DEF CloseStuckRuns
  <1>3. QED
    BY <1>1, <1>2 DEF TableTypeOK, RowsKept, CloseStuckRuns

(* Time passing changes a flag of an existing row. *)
LEMMA FlagFacts ==
    ASSUME TableTypeOK, NEW r \in RunIds, RunAfterArrives(r) \/ Overstay(r)
    PROVE  TableTypeOK' /\ RowsKept
  <1>1. PICK row \in Row : /\ runs' = [runs EXCEPT ![r] = row]
                           /\ row.status = runs[r].status
                           /\ row.job = runs[r].job
    <2>1. CASE RunAfterArrives(r)
      <3> DEFINE new == [runs[r] EXCEPT !.ripe = TRUE]
      <3>1. new \in Row /\ new.status = runs[r].status /\ new.job = runs[r].job
        BY DEF TableTypeOK, Row
      <3>2. runs' = [runs EXCEPT ![r] = new]
        BY <2>1 DEF RunAfterArrives
      <3>3. QED
        BY <3>1, <3>2
    <2>2. CASE Overstay(r)
      <3> DEFINE new == [runs[r] EXCEPT !.old = TRUE]
      <3>1. new \in Row /\ new.status = runs[r].status /\ new.job = runs[r].job
        BY DEF TableTypeOK, Row
      <3>2. runs' = [runs EXCEPT ![r] = new]
        BY <2>2 DEF Overstay
      <3>3. QED
        BY <3>1, <3>2
    <2>3. QED
      BY <2>1, <2>2
  <1>2. Exists(r) /\ row.status \in Statuses
    BY <1>1 DEF RunAfterArrives, Overstay, HasStatus, Exists, Statuses
  <1>3. UNCHANGED <<active, lastStatus, claims>>
    BY DEF RunAfterArrives, Overstay
  <1>4. QED
    BY <1>1, <1>2, <1>3, UpdateFacts DEF TableTypeOK

(* A summary and a switch change no row. *)
LEMMA SummaryFacts ==
    ASSUME TableTypeOK, NEW j \in Jobs,
           SetActive(j) \/ \E s \in Results : WriteJobSummary(j, s)
    PROVE  TableTypeOK' /\ RowsKept
  BY DEF SetActive, WriteJobSummary, TableTypeOK, RowsKept, Exists

(* The two ways a chain target becomes a row, and a schedule's row. *)
LEMMA OpenFacts ==
    ASSUME TableTypeOK, NEW j \in Jobs, NEW r \in RunIds, NEW p \in RunIds,
           NEW m \in Minutes,
           QueueRun(j, m) \/ Enqueue(r, j) \/ CreateChainRun(r, j, p)
             \/ CreateChainSkipped(j, p)
    PROVE  TableTypeOK' /\ RowsKept
  <1>1. {"pending", "skipped"} \subseteq Statuses
    BY DEF Statuses
  <1>2. QED
    BY <1>1, InsertFacts
       DEF QueueRun, Enqueue, CreateChainRun, CreateChainSkipped
-----------------------------------------------------------------------------
(* What a step does to the memory of a replica, given that no row is lost. *)

QueueOK(i) == \A n \in 1..Len(queue[i]) : Exists(queue[i][n])

TickOK(t) == t \in TickType /\ t.batch \subseteq Rows

WorkOK(k) ==
    /\ k \in WorkType
    /\ k.pc # "idle" => k.run \in Rows
    /\ k.pc = "handOff" => k.step \in Rows
    /\ k.pc \in {"finish", "summary"} => k.result \in Results

(* MemoryTypeOK and MemoryNamesRows, variable by variable. *)
DispOK  == disp \in [Replicas -> TickType] /\ \A i \in Replicas : TickOK(disp[i])
QueuesOK == queue \in [Replicas -> Seq(RunIds)] /\ \A i \in Replicas : QueueOK(i)
WorkersOK == worker \in [Workers -> WorkType] /\ \A w \in Workers : WorkOK(worker[w])
TimersOK == timers \in [Replicas -> SUBSET RunIds]
            /\ \A i \in Replicas : timers[i] \subseteq Rows

(* The memory part of TypeOK, taken apart by component. *)
LEMMA MemoryParts ==
    MemoryTypeOK /\ MemoryNamesRows
      <=> DispOK /\ QueuesOK /\ WorkersOK /\ TimersOK /\ faults \in Nat
  BY DEF MemoryTypeOK, MemoryNamesRows, DispOK, QueuesOK, WorkersOK, TimersOK,
         TickOK, QueueOK, WorkOK

(* The same of the next state. *)
LEMMA MemoryPartsNext ==
    (MemoryTypeOK /\ MemoryNamesRows)'
      <=> (DispOK /\ QueuesOK /\ WorkersOK /\ TimersOK /\ faults \in Nat)'
  BY DEF MemoryTypeOK, MemoryNamesRows, DispOK, QueuesOK, WorkersOK, TimersOK,
         TickOK, QueueOK, WorkOK

(* Rows that existed still do. *)
LEMMA RowsGrow == ASSUME RowsKept PROVE Rows \subseteq Rows'
  BY DEF RowsKept, Rows

(* What a component holds stays fine while it and the rows it names stay. *)
LEMMA KeepDisp == ASSUME DispOK, RowsKept, disp' = disp PROVE DispOK'
  BY RowsGrow DEF DispOK, TickOK

(* The same of the pool's channel. *)
LEMMA KeepQueue == ASSUME QueuesOK, RowsKept, queue' = queue PROVE QueuesOK'
  <1>1. ASSUME NEW i \in Replicas PROVE QueueOK(i)'
    <2>1. ASSUME NEW n \in 1..Len(queue[i]) PROVE Exists(queue[i][n])'
      <3>1. queue[i] \in Seq(RunIds) /\ Exists(queue[i][n])
        BY DEF QueuesOK, QueueOK
      <3>2. queue[i][n] \in RunIds
        BY <3>1
      <3>3. QED
        BY <3>1, <3>2 DEF RowsKept, Exists
    <2>2. QED
      BY <2>1 DEF QueueOK, Exists
  <1>2. QED
    BY <1>1 DEF QueuesOK

(* The same of the workers. *)
LEMMA KeepWorkers == ASSUME WorkersOK, RowsKept, worker' = worker PROVE WorkersOK'
  BY RowsGrow DEF WorkersOK, WorkOK

(* The same of the chain timers. *)
LEMMA KeepTimers == ASSUME TimersOK, RowsKept, timers' = timers PROVE TimersOK'
  BY RowsGrow DEF TimersOK

(* One replica's tick moves on. *)
LEMMA MoveDisp ==
    ASSUME DispOK, RowsKept, NEW i \in Replicas, NEW t, TickOK(t),
           disp' = [disp EXCEPT ![i] = t]
    PROVE  DispOK'
  BY RowsGrow DEF DispOK, TickOK

(* One worker moves on. *)
LEMMA MoveWorker ==
    ASSUME WorkersOK, RowsKept, NEW w \in Workers, NEW k, WorkOK(k)',
           worker' = [worker EXCEPT ![w] = k]
    PROVE  WorkersOK'
  <1>1. ASSUME NEW v \in Workers PROVE WorkOK(worker[v])'
    <2>1. CASE v = w
      BY <2>1 DEF WorkersOK
    <2>2. CASE v # w
      BY <2>2, RowsGrow DEF WorkersOK, WorkOK
    <2>3. QED
      BY <2>1, <2>2
  <1>2. k \in WorkType
    BY DEF WorkOK
  <1>3. QED
    BY <1>1, <1>2 DEF WorkersOK

(* A submitted row lands in the channel or nowhere. *)
LEMMA SubmitFacts ==
    ASSUME QueuesOK, RowsKept, NEW i \in Replicas, NEW r \in RunIds, Exists(r)',
           Submit(i, r)
    PROVE  QueuesOK'
  <1>1. CASE ~(Len(queue[i]) < QueueSize)
    BY <1>1, KeepQueue DEF Submit
  <1>2. CASE Len(queue[i]) < QueueSize
    <2>1. /\ queue' = [queue EXCEPT ![i] = Append(queue[i], r)]
          /\ queue \in [Replicas -> Seq(RunIds)]
          /\ queue[i] \in Seq(RunIds)
      BY <1>2 DEF Submit, QueuesOK
    <2>2. queue' \in [Replicas -> Seq(RunIds)]
      BY <2>1
    <2>3. ASSUME NEW h \in Replicas, NEW n \in 1..Len(queue'[h])
          PROVE  Exists(queue[h][n])'
      <3>1. CASE h # i \/ n # Len(queue[i]) + 1
        <4>1. queue'[h][n] = queue[h][n] /\ n \in 1..Len(queue[h])
          BY <3>1, <2>1, <2>3
        <4>2. queue[h] \in Seq(RunIds) /\ Exists(queue[h][n])
          BY <4>1 DEF QueuesOK, QueueOK
        <4>3. queue[h][n] \in RunIds
          BY <4>1, <4>2
        <4>4. QED
          BY <4>1, <4>2, <4>3 DEF RowsKept, Exists
      <3>2. CASE h = i /\ n = Len(queue[i]) + 1
        <4>1. queue'[h][n] = r
          BY <3>2, <2>1
        <4>2. QED
          BY <4>1 DEF Exists
      <3>3. QED
        BY <3>1, <3>2
    <2>4. QED
      BY <2>2, <2>3 DEF QueuesOK, QueueOK, Exists
  <1>3. QED
    BY <1>1, <1>2
-----------------------------------------------------------------------------
(* TypeOK is inductive: one lemma for each actor. *)

(* Everything TypeOK says, as the lemmas above use it. *)
LEMMA TypeParts ==
    TypeOK <=> /\ TableTypeOK /\ DispOK /\ QueuesOK /\ WorkersOK /\ TimersOK
               /\ faults \in Nat
  BY MemoryParts DEF TypeOK

(* The same of the next state. *)
LEMMA TypePartsNext ==
    TypeOK' <=> (/\ TableTypeOK /\ DispOK /\ QueuesOK /\ WorkersOK /\ TimersOK
                 /\ faults \in Nat)'
  BY MemoryPartsNext DEF TypeOK

(* A step that leaves the table alone loses no row. *)
LEMMA TableUnchanged ==
    ASSUME TableTypeOK, UNCHANGED tableVars
    PROVE  TableTypeOK' /\ RowsKept
  BY DEF TableTypeOK, RowsKept, Exists, tableVars

(* A step that only writes the table keeps the memory part. *)
LEMMA TableOnly ==
    ASSUME TypeOK, TableTypeOK', RowsKept, UNCHANGED <<memVars, faults>>
    PROVE  TypeOK'
  BY TypeParts, TypePartsNext, KeepDisp, KeepQueue, KeepWorkers, KeepTimers
     DEF memVars

(* A dispatcher between two ticks is fine. *)
LEMMA NoTickOK == TickOK(NoTick)
  BY DEF TickOK, TickType, NoTick, DispPC

(* The next tick position of one dispatcher, the table untouched. *)
LEMMA TickMoves ==
    ASSUME TypeOK, NEW i \in Replicas, NEW t, TickOK(t),
           disp' = [disp EXCEPT ![i] = t],
           UNCHANGED <<tableVars, queue, worker, timers>>, faults' \in Nat
    PROVE  TypeOK'
  <1>1. TableTypeOK' /\ RowsKept
    BY TypeParts, TableUnchanged DEF tableVars
  <1>2. QED
    BY <1>1, TypeParts, TypePartsNext, MoveDisp, KeepQueue, KeepWorkers, KeepTimers

(* Every step of Dispatcher.Tick keeps the types. *)
LEMMA DispatcherType ==
    ASSUME TypeOK, NEW i \in Replicas, DispatcherStep(i) \/ DispatcherFault(i)
    PROVE  TypeOK'
  <1> DEFINE d == disp[i]
  <1>0. TypeOK /\ TableTypeOK /\ d \in TickType /\ d.batch \subseteq Rows
        /\ faults \in Nat /\ QueuesOK /\ DispOK /\ WorkersOK /\ TimersOK
    BY TypeParts DEF DispOK, TickOK
  <1>1. CASE BeginTick(i)
    <2> DEFINE t == [d EXCEPT !.pc = "queueDue", !.jobs = active]
    <2>1. TickOK(t) /\ disp' = [disp EXCEPT ![i] = t] /\ faults' \in Nat
      BY <1>0, <1>1 DEF BeginTick, TickOK, TickType, DispPC, TableTypeOK
    <2>2. QED
      BY <1>0, <1>1, <2>1, TickMoves DEF BeginTick
  <1>2. CASE TakeQuota(i)
    <2>1. PICK t \in TickType : /\ t.batch \subseteq Rows
                                /\ disp' = [disp EXCEPT ![i] = t]
      <3>1. CASE MaxConcurrent > CountRunning
        <4> DEFINE t == [d EXCEPT !.pc = "runningJobs", !.jobs = {},
                                  !.quota = MaxConcurrent - CountRunning]
        <4>1. MaxConcurrent - CountRunning \in Nat
          <5>1. IsFiniteSet(Running) => CountRunning \in Nat
            BY FS_CardinalityType DEF CountRunning
          <5>2. QED
            BY <3>1, <5>1, RunningFinite, ExecutionAssumption, <1>0
        <4>2. t \in TickType /\ t.batch = d.batch
          BY <1>0, <4>1 DEF TickType, DispPC
        <4>3. QED
          BY <1>0, <1>2, <3>1, <4>2 DEF TakeQuota
      <3>2. CASE ~(MaxConcurrent > CountRunning)
        BY <3>2, <1>2, NoTickOK DEF TakeQuota, TickOK
      <3>3. QED
        BY <3>1, <3>2
    <2>2. QED
      BY <1>0, <1>2, <2>1, TickMoves DEF TakeQuota, TickOK
  <1>3. CASE ReadRunningJobs(i)
    <2> DEFINE t == [d EXCEPT !.pc = "listPending", !.busy = RunningJobIDs]
    <2>1. RunningJobIDs \subseteq Jobs
      BY <1>0 DEF RunningJobIDs, Running, HasStatus, TableTypeOK, Exists
    <2>2. TickOK(t) /\ disp' = [disp EXCEPT ![i] = t] /\ faults' \in Nat
      BY <1>0, <1>3, <2>1 DEF ReadRunningJobs, TickOK, TickType, DispPC
    <2>3. QED
      BY <1>0, <1>3, <2>2, TickMoves DEF ReadRunningJobs
  <1>4. CASE ReadPending(i)
    <2> DEFINE batch == ListPending(d.quota)
               t == IF batch = {} THEN NoTick
                    ELSE [d EXCEPT !.pc = "handOver", !.batch = batch]
    <2>1. batch \subseteq Rows
      BY DEF ListPending, Deliverable, HasStatus, Rows, Exists
    <2>2. TickOK(t)
      BY <1>0, <2>1, NoTickOK DEF TickOK, TickType, DispPC, Rows
    <2>3. disp' = [disp EXCEPT ![i] = t] /\ faults' \in Nat
      BY <1>0, <1>4 DEF ReadPending
    <2>4. QED
      BY <1>0, <1>4, <2>2, <2>3, TickMoves DEF ReadPending
  <1>5. ASSUME NEW j \in Jobs, NEW m \in Minutes, QueueDue(i, j, m)
        PROVE  TypeOK'
    <2>1. TableTypeOK' /\ RowsKept
      <3>1. PICK r \in RunIds : Insert(r, NewRow(j, "pending", m, NoRun, TRUE))
        BY <1>5 DEF QueueDue, QueueRun
      <3>2. "pending" \in Statuses /\ UNCHANGED <<active, lastStatus, claims>>
        BY <1>5 DEF QueueDue, QueueRun, Statuses
      <3>3. QED
        BY <1>0, <3>1, <3>2, InsertFacts
    <2>2. QED
      BY <1>0, <1>5, <2>1, TableOnly DEF QueueDue
  <1>6. ASSUME NEW r \in RunIds, NextInBatch(i, r), NEW busy \in SUBSET Jobs,
               LeaveBatch(i, r, busy), TableTypeOK', RowsKept,
               QueuesOK', UNCHANGED <<worker, timers>>, faults' \in Nat
        PROVE  TypeOK'
    <2> DEFINE t == IF d.batch = {r} THEN NoTick
                    ELSE [d EXCEPT !.batch = d.batch \ {r}, !.busy = busy]
    <2>1. TickOK(t)
      BY <1>0, NoTickOK DEF TickOK, TickType, Rows
    <2>2. disp' = [disp EXCEPT ![i] = t]
      BY <1>6 DEF LeaveBatch
    <2>3. DispOK'
      BY <1>0, <1>6, <2>1, <2>2, MoveDisp
    <2>4. QED
      BY <1>0, <1>6, <2>3, TypePartsNext, KeepWorkers, KeepTimers
  <1>7. ASSUME NEW r \in RunIds, DispatchSkip(i, r) PROVE TypeOK'
    <2>1. TableTypeOK' /\ RowsKept
      BY <1>0, <1>7, SkipRunFacts DEF DispatchSkip
    <2>2. QueuesOK' /\ d.busy \in SUBSET Jobs
      BY <1>0, <1>7, <2>1, KeepQueue DEF DispatchSkip, TickType
    <2>3. QED
      BY <1>0, <1>6, <1>7, <2>1, <2>2 DEF DispatchSkip
  <1>8. ASSUME NEW r \in RunIds, DispatchRow(i, r) PROVE TypeOK'
    <2>1. TableTypeOK' /\ RowsKept
      BY <1>0, <1>8, TableUnchanged DEF DispatchRow
    <2>2. Exists(r) /\ Exists(r)' /\ runs[r].job \in Jobs
      BY <1>0, <1>8, <2>1 DEF DispatchRow, NextInBatch, Rows, RowsKept, TableTypeOK
    <2>3. QueuesOK'
      BY <1>0, <1>8, <2>1, <2>2, SubmitFacts DEF DispatchRow
    <2>4. d.busy \cup {runs[r].job} \in SUBSET Jobs
      BY <1>0, <2>2 DEF TickType
    <2>5. QED
      BY <1>0, <1>6, <1>8, <2>1, <2>3, <2>4 DEF DispatchRow
  <1>9. CASE TickFails(i)
    <2>1. faults' \in Nat
      BY <1>0, <1>9 DEF TickFails, Fault
    <2>2. QED
      BY <1>0, <1>9, <2>1, NoTickOK, TickMoves DEF TickFails
  <1>10. ASSUME NEW r \in RunIds, SkipFails(i, r) PROVE TypeOK'
    <2>1. TableTypeOK' /\ RowsKept /\ faults' \in Nat
      BY <1>0, <1>10, TableUnchanged DEF SkipFails, Fault
    <2>2. QueuesOK' /\ d.busy \in SUBSET Jobs
      BY <1>0, <1>10, <2>1, KeepQueue DEF SkipFails, TickType
    <2>3. QED
      BY <1>6, <1>10, <2>1, <2>2 DEF SkipFails
  <1>11. QED
    BY <1>1, <1>2, <1>3, <1>4, <1>5, <1>7, <1>8, <1>9, <1>10
       DEF DispatcherStep, DispatcherFault
-----------------------------------------------------------------------------
(* The workers *)

(* A worker's next position, whatever its statement did to the table. *)
LEMMA WorkerMoves ==
    ASSUME TypeOK, TableTypeOK', RowsKept, NEW w \in Workers, NEW k, WorkOK(k)',
           worker' = [worker EXCEPT ![w] = k],
           UNCHANGED <<disp, queue, timers>>, faults' \in Nat
    PROVE  TypeOK'
  BY TypeParts, TypePartsNext, MoveWorker, KeepDisp, KeepQueue, KeepTimers

(* A position that is fine before a step that loses no row is fine after. *)
LEMMA WorkOKKept == ASSUME RowsKept, NEW k, WorkOK(k) PROVE WorkOK(k)'
  BY RowsGrow DEF WorkOK

(* An idle worker is fine. *)
LEMMA NoWorkOK == WorkOK(NoWork) /\ WorkOK(NoWork)'
  BY DEF WorkOK, WorkType, NoWork, WorkerPC

(* Of a worker that is not idle: its position and its row. *)
LEMMA BusyWorker ==
    ASSUME TypeOK, NEW w \in Workers, worker[w].pc # "idle"
    PROVE  /\ worker[w] \in WorkType /\ WorkOK(worker[w])
           /\ worker[w].run \in RunIds /\ Exists(worker[w].run)
           /\ runs[worker[w].run].job \in Jobs
  <1>1. WorkOK(worker[w]) /\ TableTypeOK
    BY TypeParts DEF WorkersOK
  <1>2. QED
    BY <1>1 DEF WorkOK, Rows, TableTypeOK

(* Rest, after any statement. *)
LEMMA RestMoves ==
    ASSUME TypeOK, TableTypeOK', RowsKept, NEW w \in Workers, Rest(w),
           UNCHANGED <<disp, queue, timers>>, faults' \in Nat
    PROVE  TypeOK'
  BY WorkerMoves, NoWorkOK DEF Rest

(* Goto, after any statement. *)
LEMMA GotoMoves ==
    ASSUME TypeOK, TableTypeOK', RowsKept, NEW w \in Workers,
           worker[w].pc # "idle", NEW pc \in WorkerPC, Goto(w, pc),
           pc \notin {"handOff", "finish"},
           pc = "summary" => worker[w].pc = "finish",
           UNCHANGED <<disp, queue, timers>>, faults' \in Nat
    PROVE  TypeOK'
  <1> DEFINE k == [worker[w] EXCEPT !.pc = pc]
  <1>1. WorkOK(k)
    BY BusyWorker DEF WorkOK, WorkType, Rows
  <1>2. worker' = [worker EXCEPT ![w] = k]
    BY DEF Goto
  <1>3. QED
    BY <1>1, <1>2, WorkOKKept, WorkerMoves

(* The targets a finished run fires, and the position they lead to. *)
Targets == [link : Links, active : BOOLEAN]

(* A worker in the chain loop, with these targets left, is fine. *)
LEMMA NextTargetOK ==
    ASSUME TypeOK, NEW w \in Workers, worker[w].pc # "idle",
           NEW todo \in SUBSET Targets
    PROVE  WorkOK(NextTarget(w, todo))
  <1>1. CASE todo = {}
    BY <1>1, NoWorkOK DEF NextTarget
  <1>2. CASE todo # {}
    <2> DEFINE k == [worker[w] EXCEPT !.pc = "chain", !.todo = todo, !.step = NoRun]
    <2>1. WorkOK(k)
      BY BusyWorker DEF WorkOK, WorkType, WorkerPC, Targets, Rows
    <2>2. NextTarget(w, todo) = k
      BY <1>2 DEF NextTarget
    <2>3. QED
      BY <2>1, <2>2
  <1>3. QED
    BY <1>1, <1>2

(* ListChainTargets returns links with a switch. *)
LEMMA ChainTargetsType ==
    ASSUME NEW w PROVE ChainTargets(w) \in SUBSET Targets
  <1>1. ASSUME NEW l \in Links
        PROVE  [link |-> l, active |-> l.to \in active] \in Targets
    <2>1. CASE l.to \in active
      BY <2>1 DEF Targets
    <2>2. CASE l.to \notin active
      BY <2>2 DEF Targets
    <2>3. QED
      BY <2>1, <2>2
  <1>2. ASSUME NEW j, NEW outcome PROVE ListChainTargets(j, outcome) \in SUBSET Targets
    BY <1>1 DEF ListChainTargets, FiredLinks
  <1>3. QED
    BY <1>2 DEF ChainTargets

(* The targets a worker has left are links with a switch. *)
LEMMA TodoType ==
    ASSUME TypeOK, NEW w \in Workers
    PROVE  worker[w].todo \in SUBSET Targets
  BY TypeParts DEF WorkersOK, WorkOK, WorkType, Targets

(* On to the chain loop, its next target, or past it. *)
LEMMA ChainMoves ==
    ASSUME TypeOK, TableTypeOK', RowsKept, NEW w \in Workers,
           worker[w].pc # "idle", NEW todo \in SUBSET Targets,
           worker' = [worker EXCEPT ![w] = NextTarget(w, todo)],
           UNCHANGED <<disp, queue, timers>>, faults' \in Nat
    PROVE  TypeOK'
  <1>1. PICK k : k = NextTarget(w, todo)
    OBVIOUS
  <1>2. WorkOK(k)'
    BY <1>1, NextTargetOK, WorkOKKept
  <1>3. QED
    BY <1>1, <1>2, WorkerMoves

(* Taking a task and working it up to its result. *)
LEMMA ExecuteType ==
    ASSUME TypeOK, NEW w \in Workers,
           StartWork(w) \/ CheckSingleRun(w) \/ SkipBusy(w) \/ Claim(w)
             \/ Execute(w) \/ Finish(w)
    PROVE  TypeOK'
  <1>0. TypeOK /\ TableTypeOK /\ WorkOK(worker[w]) /\ worker[w] \in WorkType
        /\ faults \in Nat /\ QueuesOK /\ DispOK /\ WorkersOK /\ TimersOK
    BY TypeParts DEF WorkersOK, WorkOK
  <1>1. UNCHANGED tableVars => TableTypeOK' /\ RowsKept
    BY <1>0, TableUnchanged
  <1>2. CASE StartWork(w)
    <2> DEFINE i == Home(w)
               head == Head(queue[i])
               k == [worker[w] EXCEPT
                       !.run = head,
                       !.pc = IF runs[head].job \in SingleRun
                              THEN "check" ELSE "claim"]
    <2>1. /\ i \in Replicas /\ queue[i] \in Seq(RunIds) /\ queue[i] # <<>>
          /\ \A n \in 1..Len(queue[i]) : Exists(queue[i][n])
          /\ queue \in [Replicas -> Seq(RunIds)]
      BY <1>0, <1>2, HomeReplica DEF StartWork, QueuesOK, QueueOK
    <2>2. head \in RunIds /\ Exists(head)
      BY <2>1
    <2>3. WorkOK(k)
      BY <1>0, <2>2 DEF WorkOK, WorkType, WorkerPC, Rows
    <2>4. worker' = [worker EXCEPT ![w] = k]
      BY <1>2 DEF StartWork
    <2>5. RowsKept /\ TableTypeOK' /\ runs' = runs
      BY <1>1, <1>2 DEF StartWork, tableVars
    <2>6. WorkersOK'
      BY <1>0, <2>3, <2>4, <2>5, WorkOKKept, MoveWorker
    <2>7. QueuesOK'
      <3>1. queue' = [queue EXCEPT ![i] = Tail(queue[i])]
        BY <1>2 DEF StartWork
      <3>2. queue' \in [Replicas -> Seq(RunIds)]
        BY <2>1, <3>1
      <3>3. ASSUME NEW h \in Replicas, NEW n \in 1..Len(queue'[h])
            PROVE  Exists(queue[h][n])'
        <4>1. CASE h # i
          BY <1>0, <2>5, <3>1, <3>3, <4>1 DEF QueuesOK, QueueOK, Exists
        <4>2. CASE h = i
          <5>1. queue'[h][n] = queue[i][n + 1] /\ n + 1 \in 1..Len(queue[i])
            BY <2>1, <3>1, <3>3, <4>2
          <5>2. QED
            BY <2>1, <2>5, <5>1 DEF Exists
        <4>3. QED
          BY <4>1, <4>2
      <3>4. QED
        BY <3>2, <3>3 DEF QueuesOK, QueueOK, Exists
    <2>8. QED
      BY <1>0, <1>2, <2>5, <2>6, <2>7, TypePartsNext, KeepDisp, KeepTimers
         DEF StartWork
  <1>3. CASE CheckSingleRun(w)
    <2>1. /\ worker[w].pc # "idle" /\ UNCHANGED tableVars
          /\ UNCHANGED <<disp, queue, timers>> /\ faults' \in Nat
      BY <1>0, <1>3 DEF CheckSingleRun
    <2>2. Goto(w, "claim") \/ Goto(w, "skip")
      BY <1>3 DEF CheckSingleRun
    <2>3. QED
      BY <1>0, <1>1, <2>1, <2>2, GotoMoves DEF WorkerPC
  <1>4. CASE SkipBusy(w)
    <2>1. /\ worker[w].pc # "idle" /\ SkipRun(worker[w].run) /\ Rest(w)
          /\ UNCHANGED <<disp, queue, timers>> /\ faults' \in Nat
      BY <1>0, <1>4 DEF SkipBusy
    <2>2. TableTypeOK' /\ RowsKept
      BY <1>0, <2>1, BusyWorker, SkipRunFacts
    <2>3. QED
      BY <1>0, <2>1, <2>2, RestMoves
  <1>5. CASE Claim(w)
    <2>1. /\ worker[w].pc # "idle" /\ worker[w].run \in RunIds
          /\ UNCHANGED <<disp, queue, timers>> /\ faults' \in Nat
      BY <1>0, <1>5, BusyWorker DEF Claim
    <2>2. CASE ClaimRun(worker[w].run) /\ Goto(w, "execute")
      BY <1>0, <2>1, <2>2, ClaimRunFacts, GotoMoves DEF WorkerPC
    <2>3. CASE Rest(w) /\ UNCHANGED tableVars
      BY <1>0, <1>1, <2>1, <2>3, RestMoves
    <2>4. QED
      BY <1>5, <2>2, <2>3 DEF Claim
  <1>6. CASE Execute(w)
    <2>1. PICK result \in Results :
            worker' = [worker EXCEPT ![w].pc = "finish", ![w].result = result]
      BY <1>6 DEF Execute
    <2> DEFINE k == [worker[w] EXCEPT !.pc = "finish", !.result = result]
    <2>2. WorkOK(k)
      BY <1>0, <1>6 DEF Execute, WorkOK, WorkType, WorkerPC
    <2>3. worker' = [worker EXCEPT ![w] = k]
      BY <1>0, <2>1 DEF WorkersOK
    <2>4. QED
      BY <1>0, <1>1, <1>6, <2>2, <2>3, WorkOKKept, WorkerMoves DEF Execute
  <1>7. CASE Finish(w)
    <2>1. /\ worker[w].pc = "finish" /\ Goto(w, "summary")
          /\ FinishRun(worker[w].run, worker[w].result)
          /\ UNCHANGED <<disp, queue, timers>> /\ faults' \in Nat
      BY <1>0, <1>7 DEF Finish
    <2>2. worker[w].result \in Results
      BY <1>0, <2>1 DEF WorkOK
    <2>3. TableTypeOK' /\ RowsKept
      BY <1>0, <2>1, <2>2, BusyWorker, FinishRunFacts
    <2>4. QED
      BY <1>0, <2>1, <2>3, GotoMoves DEF WorkerPC
  <1>8. QED
    BY <1>2, <1>3, <1>4, <1>5, <1>6, <1>7

(* The summary, and the chain steps behind a finished run. *)
LEMMA ChainType ==
    ASSUME TypeOK, NEW w \in Workers,
           \/ Summarise(w) \/ HandOff(w)
           \/ \E t \in worker[w].todo : ChainSkip(w, t) \/ ChainQueue(w, t)
    PROVE  TypeOK'
  <1>0. TypeOK /\ TableTypeOK /\ WorkOK(worker[w]) /\ worker[w] \in WorkType
        /\ faults \in Nat /\ QueuesOK /\ DispOK /\ WorkersOK /\ TimersOK
        /\ worker[w].todo \in SUBSET Targets
    BY TypeParts, TodoType DEF WorkersOK, WorkOK
  <1>1. CASE Summarise(w)
    <2>1. /\ worker[w].pc # "idle" /\ worker[w].result \in Results
          /\ UNCHANGED <<disp, queue, timers>> /\ faults' \in Nat
          /\ WriteJobSummary(runs[worker[w].run].job, worker[w].result)
      BY <1>0, <1>1 DEF Summarise, WorkOK
    <2>2. TableTypeOK' /\ RowsKept
      BY <1>0, <2>1, BusyWorker, SummaryFacts
    <2>3. QED
      BY <1>0, <1>1, <2>1, <2>2, ChainTargetsType, ChainMoves
         DEF Summarise, BeginChain
  <1>2. ASSUME NEW t \in worker[w].todo, ChainSkip(w, t)
        PROVE  TypeOK'
    <2>1. /\ worker[w].pc # "idle" /\ t.link.to \in Jobs /\ worker[w].run \in RunIds
          /\ UNCHANGED <<disp, queue, timers>> /\ faults' \in Nat
      BY <1>0, <1>2, BusyWorker, ConstantFacts DEF ChainSkip, AtTarget, Targets
    <2>2. TableTypeOK' /\ RowsKept
      <3>1. PICK r \in RunIds : Insert(r, NewRow(t.link.to, "skipped", NoMinute,
                                                worker[w].run, TRUE))
        BY <1>2 DEF ChainSkip, CreateChainSkipped
      <3>2. "skipped" \in Statuses /\ UNCHANGED <<active, lastStatus, claims>>
        BY <1>2 DEF ChainSkip, CreateChainSkipped, Statuses
      <3>3. QED
        BY <1>0, <2>1, <3>1, <3>2, InsertFacts
    <2>3. worker[w].todo \ {t} \in SUBSET Targets
      BY <1>0
    <2>4. QED
      BY <1>0, <1>2, <2>1, <2>2, <2>3, ChainMoves DEF ChainSkip, AfterTarget
  <1>3. ASSUME NEW t \in worker[w].todo, ChainQueue(w, t)
        PROVE  TypeOK'
    <2>1. /\ worker[w].pc = "chain" /\ t.link.to \in Jobs /\ worker[w].run \in RunIds
          /\ UNCHANGED <<disp, queue, timers>> /\ faults' \in Nat
      BY <1>0, <1>3, BusyWorker, ConstantFacts DEF ChainQueue, AtTarget, Targets
    <2> DEFINE todo == worker[w].todo \ {t}
    <2>2. PICK r \in RunIds :
            /\ CreateChainRun(r, t.link.to, worker[w].run)
            /\ IF t.link.delay = "long" THEN AfterTarget(w, t)
               ELSE worker' = [worker EXCEPT ![w].pc = "handOff", ![w].step = r,
                                             ![w].todo = todo]
      BY <1>3 DEF ChainQueue
    <2>3. TableTypeOK' /\ RowsKept /\ Exists(r)'
      <3>1. "pending" \in Statuses
        BY DEF Statuses
      <3>2. QED
        BY <1>0, <2>1, <2>2, <3>1, InsertFacts DEF CreateChainRun
    <2>4. todo \in SUBSET Targets
      BY <1>0
    <2>5. CASE t.link.delay = "long"
      BY <1>0, <2>1, <2>2, <2>3, <2>4, <2>5, ChainMoves DEF AfterTarget
    <2>6. CASE t.link.delay # "long"
      <3> DEFINE k == [worker[w] EXCEPT !.pc = "handOff", !.step = r, !.todo = todo]
      <3>1. worker' = [worker EXCEPT ![w] = k]
        BY <1>0, <2>2, <2>6 DEF WorkersOK
      <3>2. k \in WorkType /\ k.pc = "handOff" /\ k.step = r
            /\ k.run = worker[w].run
        BY <1>0, <2>4 DEF WorkType, WorkerPC, Targets
      <3>3. r \in Rows' /\ worker[w].run \in Rows'
        BY <1>0, <2>1, <2>3, BusyWorker DEF Rows, RowsKept, Exists
      <3>4. PICK kk : kk = k
        OBVIOUS
      <3>5. WorkOK(kk)'
        BY <3>2, <3>3, <3>4 DEF WorkOK
      <3>6. QED
        BY <1>0, <2>1, <2>3, <3>1, <3>4, <3>5, WorkerMoves
    <2>7. QED
      BY <2>5, <2>6
  <1>4. CASE HandOff(w)
    <2>1. /\ worker[w].pc = "handOff" /\ worker[w].step \in Rows
          /\ UNCHANGED <<tableVars, disp, queue, faults>>
          /\ worker' = [worker EXCEPT ![w] = NextTarget(w, worker[w].todo)]
      BY <1>0, <1>4 DEF HandOff, WorkOK
    <2>2. TableTypeOK' /\ RowsKept
      BY <1>0, <2>1, TableUnchanged
    <2>3. WorkersOK'
      <3>1. PICK k : k = NextTarget(w, worker[w].todo)
        OBVIOUS
      <3>2. WorkOK(k)'
        BY <1>0, <2>1, <2>2, <3>1, NextTargetOK, WorkOKKept
      <3>3. QED
        BY <1>0, <2>1, <2>2, <3>1, <3>2, MoveWorker
    <2>4. TimersOK'
      <3>1. Home(w) \in Replicas
        BY HomeReplica
      <3>2. \/ timers' = timers
            \/ timers' = [timers EXCEPT ![Home(w)] =
                             timers[Home(w)] \cup {worker[w].step}]
        BY <1>4 DEF HandOff
      <3>3. QED
        BY <1>0, <2>1, <2>2, <3>1, <3>2, RowsGrow DEF TimersOK, Rows
    <2>5. QED
      BY <1>0, <2>1, <2>2, <2>3, <2>4, TypePartsNext, KeepDisp, KeepQueue
  <1>5. QED
    BY <1>1, <1>2, <1>3, <1>4

(* One statement of a run fails. *)
LEMMA FaultType ==
    ASSUME TypeOK, NEW w \in Workers, RunnerFault(w)
    PROVE  TypeOK'
  <1>0. TypeOK /\ TableTypeOK /\ WorkOK(worker[w]) /\ worker[w] \in WorkType
        /\ faults \in Nat /\ worker[w].todo \in SUBSET Targets
        /\ (Fault => faults' \in Nat)
    BY TypeParts, TodoType DEF WorkersOK, WorkOK, Fault
  <1>1. UNCHANGED tableVars => TableTypeOK' /\ RowsKept
    BY <1>0, TableUnchanged
  <1>2. CASE GiveUp(w)
    BY <1>0, <1>1, <1>2, RestMoves DEF GiveUp
  <1>3. CASE ClaimAnswerLost(w)
    <2>1. worker[w].pc # "idle"
      BY <1>3 DEF ClaimAnswerLost
    <2>2. TableTypeOK' /\ RowsKept
      BY <1>0, <1>3, <2>1, BusyWorker, ClaimRunFacts DEF ClaimAnswerLost
    <2>3. QED
      BY <1>0, <1>3, <2>2, RestMoves DEF ClaimAnswerLost
  <1>4. CASE FinishFails(w)
    <2>1. worker[w].pc # "idle" /\ worker[w].result \in Results
      BY <1>0, <1>4 DEF FinishFails, WorkOK
    <2>2. TableTypeOK' /\ RowsKept
      BY <1>0, <1>1, <1>4, <2>1, BusyWorker, FinishRunFacts DEF FinishFails
    <2>3. QED
      BY <1>0, <1>4, <2>2, RestMoves DEF FinishFails
  <1>5. CASE SummaryFails(w)
    <2>1. worker[w].pc # "idle" /\ UNCHANGED tableVars
      BY <1>5 DEF SummaryFails
    <2>2. QED
      BY <1>0, <1>1, <1>5, <2>1, ChainTargetsType, ChainMoves
         DEF SummaryFails, BeginChain
  <1>6. CASE ChainUnread(w)
    <2>1. worker[w].pc # "idle" /\ worker[w].result \in Results
      BY <1>0, <1>6 DEF ChainUnread, WorkOK
    <2>2. TableTypeOK' /\ RowsKept
      BY <1>0, <1>6, <2>1, BusyWorker, SummaryFacts DEF ChainUnread
    <2>3. QED
      BY <1>0, <1>6, <2>2, RestMoves DEF ChainUnread
  <1>7. CASE HandOffFails(w)
    <2>1. worker[w].pc # "idle" /\ UNCHANGED tableVars
      BY <1>7 DEF HandOffFails
    <2>2. QED
      BY <1>0, <1>1, <1>7, <2>1, ChainMoves DEF HandOffFails
  <1>8. ASSUME NEW t \in worker[w].todo, ChainFails(w, t)
        PROVE  TypeOK'
    <2>1. worker[w].pc # "idle" /\ UNCHANGED tableVars
      BY <1>8 DEF ChainFails, AtTarget
    <2>2. worker[w].todo \ {t} \in SUBSET Targets
      BY <1>0
    <2>3. QED
      BY <1>0, <1>1, <1>8, <2>1, <2>2, ChainMoves DEF ChainFails, AfterTarget
  <1>9. QED
    BY <1>2, <1>3, <1>4, <1>5, <1>6, <1>7, <1>8 DEF RunnerFault
-----------------------------------------------------------------------------
(* The other actors: hands, timers, crashes, the watchdog, the clocks and  *)
(* the operator.                                                           *)
LEMMA OutsideType ==
    ASSUME TypeOK,
           \/ \E i \in Replicas, j \in Jobs : Trigger(i, j)
           \/ \E i \in Replicas, r \in RunIds : TimerFires(i, r)
           \/ \E i \in Replicas : Crash(i)
           \/ Sweep
           \/ \E r \in RunIds : RunAfter(r) \/ GrowOld(r)
           \/ \E j \in Jobs : Suspend(j)
    PROVE  TypeOK'
  <1>0. TypeOK /\ TableTypeOK /\ faults \in Nat /\ QueuesOK /\ DispOK
        /\ WorkersOK /\ TimersOK
    BY TypeParts
  <1>1. ASSUME NEW i \in Replicas, NEW j \in Jobs, Trigger(i, j)
        PROVE  TypeOK'
    <2>1. PICK r \in RunIds : Enqueue(r, j) /\ Submit(i, r)
      BY <1>1 DEF Trigger
    <2>2. "pending" \in Statuses
      BY DEF Statuses
    <2>3. TableTypeOK' /\ RowsKept /\ Exists(r)'
      BY <1>0, <2>1, <2>2, InsertFacts DEF Enqueue
    <2>4. QueuesOK'
      BY <1>0, <2>1, <2>3, SubmitFacts
    <2>5. QED
      BY <1>0, <1>1, <2>3, <2>4, TypePartsNext, KeepDisp, KeepWorkers, KeepTimers
         DEF Trigger
  <1>2. ASSUME NEW i \in Replicas, NEW r \in RunIds, TimerFires(i, r)
        PROVE  TypeOK'
    <2>1. TableTypeOK' /\ RowsKept
      BY <1>0, <1>2, TableUnchanged DEF TimerFires
    <2>2. Exists(r)'
      BY <1>0, <1>2, <2>1, RowsGrow DEF TimerFires, TimersOK, Rows, Exists
    <2>3. QueuesOK'
      BY <1>0, <1>2, <2>1, <2>2, SubmitFacts DEF TimerFires
    <2>4. TimersOK'
      BY <1>0, <1>2, <2>1, RowsGrow DEF TimerFires, TimersOK
    <2>5. QED
      BY <1>0, <1>2, <2>1, <2>3, <2>4, TypePartsNext, KeepDisp, KeepWorkers
         DEF TimerFires
  <1>3. ASSUME NEW i \in Replicas, Crash(i)
        PROVE  TypeOK'
    <2>1. TableTypeOK' /\ RowsKept /\ faults' \in Nat
      BY <1>0, <1>3, TableUnchanged DEF Crash, Fault
    <2>2. DispOK'
      BY <1>0, <1>3, <2>1, NoTickOK, MoveDisp DEF Crash
    <2>3. QueuesOK'
      <3>1. queue' = [queue EXCEPT ![i] = <<>>] /\ runs' = runs
        BY <1>3 DEF Crash, tableVars
      <3>2. queue' \in [Replicas -> Seq(RunIds)]
        BY <1>0, <3>1 DEF QueuesOK
      <3>3. ASSUME NEW h \in Replicas, NEW n \in 1..Len(queue'[h])
            PROVE  Exists(queue[h][n])'
        BY <1>0, <3>1, <3>3 DEF QueuesOK, QueueOK, Exists
      <3>4. QED
        BY <3>2, <3>3 DEF QueuesOK, QueueOK, Exists
    <2>4. WorkersOK'
      <3>1. ASSUME NEW w \in Workers
            PROVE  worker'[w] = NoWork \/ worker'[w] = worker[w]
        BY <1>3 DEF Crash
      <3>2. ASSUME NEW w \in Workers PROVE WorkOK(worker[w])'
        <4>1. PICK k : k = worker'[w]
          OBVIOUS
        <4>2. WorkOK(k)'
          BY <1>0, <2>1, <3>1, <4>1, NoWorkOK, WorkOKKept DEF WorkersOK
        <4>3. QED
          BY <4>1, <4>2 DEF WorkOK
      <3>3. worker' \in [Workers -> WorkType]
        BY <1>3, <3>2 DEF Crash, WorkOK
      <3>4. QED
        BY <3>2, <3>3 DEF WorkersOK
    <2>5. TimersOK'
      BY <1>0, <1>3, <2>1, RowsGrow DEF Crash, TimersOK
    <2>6. QED
      BY <2>1, <2>2, <2>3, <2>4, <2>5, TypePartsNext
  <1>4. CASE Sweep
    BY <1>0, <1>4, CloseStuckFacts, TableOnly DEF Sweep
  <1>5. ASSUME NEW r \in RunIds, RunAfter(r) \/ GrowOld(r)
        PROVE  TypeOK'
    BY <1>0, <1>5, FlagFacts, TableOnly DEF RunAfter, GrowOld
  <1>6. ASSUME NEW j \in Jobs, Suspend(j)
        PROVE  TypeOK'
    BY <1>0, <1>6, SummaryFacts, TableOnly DEF Suspend
  <1>7. QED
    BY <1>1, <1>2, <1>3, <1>4, <1>5, <1>6

(* The first state has the types. *)
LEMMA InitType == Init => TypeOK
  <1> SUFFICES ASSUME Init PROVE TypeOK
    OBVIOUS
  <1>1. TableTypeOK
    BY RowShapes DEF Init, TableInit, TableTypeOK, Exists, NoRow, NewRow
  <1>2. DispOK /\ TimersOK /\ faults \in Nat
    BY NoTickOK DEF Init, DispOK, TickOK, TimersOK
  <1>3. WorkersOK
    BY NoWorkOK DEF Init, WorkersOK, WorkOK
  <1>4. QueuesOK
    BY DEF Init, QueuesOK, QueueOK
  <1>5. QED
    BY <1>1, <1>2, <1>3, <1>4, TypeParts

(* Every step keeps the types. *)
LEMMA StepType == TypeOK /\ [Next]_vars => TypeOK'
  <1> SUFFICES ASSUME TypeOK, [Next]_vars PROVE TypeOK'
    OBVIOUS
  <1>1. CASE UNCHANGED vars
    BY <1>1, TypeParts, TableUnchanged, TableOnly DEF vars, memVars
  <1>2. CASE Next
    BY <1>2, DispatcherType, ExecuteType, ChainType, FaultType, OutsideType
       DEF Next, RunnerStep
  <1>3. QED
    BY <1>1, <1>2

(* The tables and the memory of every replica keep their types, and what a *)
(* replica remembers about a run always names a row that was written: a    *)
(* chain step is inserted before its timer is armed.                       *)
THEOREM TypeCorrect == Spec => []TypeOK
  BY InitType, StepType, PTL DEF Spec

-----------------------------------------------------------------------------
(* The safety of a run *)

(* Two rows never stand for the same planned minute of the same job. *)
UniqueMinute ==
    \A q, r \in Rows :
        /\ runs[q].job = runs[r].job
        /\ runs[q].minute = runs[r].minute /\ runs[q].minute # NoMinute
        => q = r

(* No two workers are busy with the same run. *)
Exclusive ==
    \A v, w \in Workers :
        /\ worker[v].pc \in Holding /\ worker[w].pc \in Holding
        /\ worker[v].run = worker[w].run
        => v = w

IInv == TypeOK /\ ClaimedRowsHeld /\ UniqueMinute /\ Exclusive

-----------------------------------------------------------------------------
(* Every step is one of three kinds. *)

(* No worker comes to hold a run, and none goes back to recording one. *)
QuietWorkers ==
    \A v \in Workers : worker'[v].pc \in Holding =>
        /\ worker[v].pc \in Holding /\ worker'[v].run = worker[v].run
        /\ worker'[v].pc \in Recording => worker[v].pc \in Recording

OpenRow(r) ==
    /\ ~Exists(r) /\ runs' \in [RunIds -> Row]
    /\ runs'[r].status \in {"pending", "skipped"}
    /\ \A q \in RunIds \ {r} : runs'[q] = runs[q]
    /\ \A q \in Rows : ~(/\ runs[q].job = runs'[r].job
                         /\ runs[q].minute = runs'[r].minute
                         /\ runs[q].minute # NoMinute)
    /\ claims' = claims

QuietStep ==
    /\ QuietWorkers
    /\ \/ UNCHANGED <<runs, claims>>
       \/ \E r \in RunIds : OpenRow(r)
       \/ \E r \in RunIds : SkipRun(r) \/ RunAfterArrives(r) \/ Overstay(r)
       \/ CloseStuckRuns

ClaimStep ==
    \E w \in Workers :
        /\ worker[w].pc = "claim" /\ ClaimRun(worker[w].run)
        /\ worker'[w].pc \in Holding => worker'[w].run = worker[w].run
        /\ \A v \in Workers \ {w} : worker'[v] = worker[v]

FinishStep ==
    \E w \in Workers :
        /\ worker[w].pc = "finish" /\ FinishRun(worker[w].run, worker[w].result)
        /\ QuietWorkers
        /\ worker'[w].pc \notin Recording
        /\ \A v \in Workers \ {w} : worker'[v] = worker[v]

(* An insert without a planned minute, or one the unique index let pass. *)
LEMMA OpenRowFacts ==
    ASSUME TypeOK, NEW r \in RunIds, NEW j \in Jobs, NEW s \in {"pending", "skipped"},
           NEW m \in Minutes \cup {NoMinute}, NEW p \in RunIds \cup {NoRun},
           NEW b \in BOOLEAN,
           Insert(r, NewRow(j, s, m, p, b)), UNCHANGED <<active, lastStatus, claims>>,
           m # NoMinute => ~\E q \in Rows : runs[q].job = j /\ runs[q].minute = m
    PROVE  OpenRow(r)
  <1>1. s \in Statuses
    BY DEF Statuses
  <1>2. /\ ~Exists(r) /\ TableTypeOK'
        /\ runs'[r] = NewRow(j, s, m, p, b)
        /\ \A q \in RunIds \ {r} : runs'[q] = runs[q]
    BY <1>1, InsertFacts, TypeParts
  <1>3. NewRow(j, s, m, p, b).status = s /\ NewRow(j, s, m, p, b).job = j
        /\ NewRow(j, s, m, p, b).minute = m
    BY DEF NewRow
  <1>4. ASSUME NEW q \in Rows, runs[q].job = j, runs[q].minute = m, m # NoMinute
        PROVE  FALSE
    BY <1>4
  <1>5. runs'[r].status \in {"pending", "skipped"} /\ runs' \in [RunIds -> Row]
    BY <1>2, <1>3 DEF TableTypeOK
  <1>6. QED
    BY <1>2, <1>3, <1>4, <1>5 DEF OpenRow

(* Workers that did not move, or of which one moved on. *)
LEMMA SameWorkers == ASSUME worker' = worker PROVE QuietWorkers
  BY DEF QuietWorkers

(* One worker moves to a position that holds nothing new. *)
LEMMA OneWorkerQuiet ==
    ASSUME TypeOK, NEW w \in Workers, NEW k, worker' = [worker EXCEPT ![w] = k],
           k.pc \in Holding =>
             /\ worker[w].pc \in Holding /\ k.run = worker[w].run
             /\ k.pc \in Recording => worker[w].pc \in Recording
    PROVE  QuietWorkers
  BY TypeParts DEF QuietWorkers, WorkersOK

(* Goto, Rest and the positions of the chain loop come to hold nothing. *)
LEMMA PositionFacts ==
    ASSUME NEW w, NEW todo, WorkOK(worker[w])
    PROVE  /\ NoWork.pc \notin Holding
           /\ NextTarget(w, todo).pc \notin Recording
           /\ NextTarget(w, todo).pc \in Holding
              => NextTarget(w, todo).run = worker[w].run
  BY DEF NoWork, NextTarget, Holding, Recording, WorkOK, WorkType

(* A worker that rests holds nothing. *)
LEMMA RestQuiet ==
    ASSUME TypeOK, NEW w \in Workers, Rest(w)
    PROVE  QuietWorkers /\ worker'[w].pc \notin Holding
  <1>1. worker' = [worker EXCEPT ![w] = NoWork] /\ WorkOK(worker[w])
    BY TypeParts DEF Rest, WorkersOK
  <1>2. NoWork.pc \notin Holding
    BY DEF NoWork, Holding, Recording
  <1>3. QED
    BY <1>1, <1>2, OneWorkerQuiet, TypeParts DEF WorkersOK

(* Goto keeps the run a worker holds. *)
LEMMA GotoQuiet ==
    ASSUME TypeOK, NEW w \in Workers, NEW pc, Goto(w, pc),
           pc \in Holding => worker[w].pc \in Holding,
           pc \in Recording => worker[w].pc \in Recording
    PROVE  QuietWorkers /\ worker'[w].pc = pc
  <1> DEFINE k == [worker[w] EXCEPT !.pc = pc]
  <1>1. worker' = [worker EXCEPT ![w] = k] /\ WorkOK(worker[w])
    BY TypeParts DEF Goto, WorkersOK
  <1>2. k.pc = pc /\ k.run = worker[w].run
    BY <1>1 DEF WorkOK, WorkType
  <1>3. QED
    BY <1>1, <1>2, OneWorkerQuiet, TypeParts DEF WorkersOK

(* The chain loop keeps the run a worker holds. *)
LEMMA ChainQuiet ==
    ASSUME TypeOK, NEW w \in Workers, NEW todo, worker[w].pc \in Holding,
           worker' = [worker EXCEPT ![w] = NextTarget(w, todo)]
    PROVE  QuietWorkers
  <1>1. WorkOK(worker[w])
    BY TypeParts DEF WorkersOK
  <1>2. PICK k : k = NextTarget(w, todo)
    OBVIOUS
  <1>3. QED
    BY <1>1, <1>2, PositionFacts, OneWorkerQuiet

-----------------------------------------------------------------------------
(* The three kinds, actor by actor. *)

(* A dispatcher opens or skips rows; it never claims or finishes one. *)
LEMMA DispatcherSteps ==
    ASSUME TypeOK, NEW i \in Replicas, DispatcherStep(i) \/ DispatcherFault(i)
    PROVE  QuietStep
  <1>1. QuietWorkers
    BY SameWorkers DEF DispatcherStep, BeginTick, TakeQuota, ReadRunningJobs,
       ReadPending, QueueDue, DispatchSkip, DispatchRow, TickFails, SkipFails,
       DispatcherFault, memVars
  <1>2. ASSUME NEW j \in Jobs, NEW m \in Minutes, QueueDue(i, j, m)
        PROVE  \E r \in RunIds : OpenRow(r)
    <2>1. PICK r \in RunIds : Insert(r, NewRow(j, "pending", m, NoRun, TRUE))
      BY <1>2 DEF QueueDue, QueueRun
    <2>2. /\ UNCHANGED <<active, lastStatus, claims>>
          /\ ~\E q \in Rows : runs[q].job = j /\ runs[q].minute = m
      BY <1>2 DEF QueueDue, QueueRun
    <2>3. PICK s \in {"pending", "skipped"}, p \in RunIds \cup {NoRun}, b \in BOOLEAN :
                s = "pending" /\ p = NoRun /\ b = TRUE
      OBVIOUS
    <2>4. Insert(r, NewRow(j, s, m, p, b)) /\ m \in Minutes \cup {NoMinute}
      BY <2>1, <2>3
    <2>5. OpenRow(r)
      BY <2>2, <2>4, OpenRowFacts
    <2>6. QED
      BY <2>5
  <1>3. ASSUME NEW r \in RunIds, DispatchSkip(i, r) PROVE SkipRun(r)
    BY <1>3 DEF DispatchSkip
  <1>4. ASSUME NEW r \in RunIds, DispatchRow(i, r)
        PROVE  UNCHANGED <<runs, claims>>
    BY <1>4 DEF DispatchRow, tableVars
  <1>5. CASE BeginTick(i) \/ TakeQuota(i) \/ ReadRunningJobs(i) \/ ReadPending(i)
             \/ TickFails(i)
    BY <1>1, <1>5 DEF BeginTick, TakeQuota, ReadRunningJobs, ReadPending, TickFails,
       tableVars, QuietStep
  <1>6. ASSUME NEW r \in RunIds, SkipFails(i, r) PROVE UNCHANGED <<runs, claims>>
    BY <1>6 DEF SkipFails, tableVars
  <1>7. QED
    BY <1>1, <1>2, <1>3, <1>4, <1>5, <1>6 DEF DispatcherStep, DispatcherFault, QuietStep

(* A worker's step is quiet, a claim or a finish. *)
LEMMA RunnerSteps ==
    ASSUME TypeOK, NEW w \in Workers, RunnerStep(w)
    PROVE  QuietStep \/ ClaimStep \/ FinishStep
  <1>0. WorkersOK /\ WorkOK(worker[w]) /\ worker[w] \in WorkType
        /\ worker \in [Workers -> WorkType]
    BY TypeParts DEF WorkersOK, WorkOK
  <1>1. CASE StartWork(w)
    <2> DEFINE i == Home(w)
               k == [worker[w] EXCEPT
                       !.run = Head(queue[i]),
                       !.pc = IF runs[Head(queue[i])].job \in SingleRun
                              THEN "check" ELSE "claim"]
    <2>1. worker' = [worker EXCEPT ![w] = k] /\ UNCHANGED <<runs, claims>>
      BY <1>1 DEF StartWork, tableVars
    <2>2. k.pc \notin Holding
      BY <1>0 DEF WorkType, Holding, Recording
    <2>3. QED
      BY <2>1, <2>2, OneWorkerQuiet DEF QuietStep
  <1>2. CASE CheckSingleRun(w)
    <2>1. (Goto(w, "claim") \/ Goto(w, "skip")) /\ UNCHANGED <<runs, claims>>
      BY <1>2 DEF CheckSingleRun, tableVars
    <2>2. QED
      BY <2>1, GotoQuiet DEF Holding, Recording, QuietStep
  <1>3. CASE SkipBusy(w)
    <2>1. SkipRun(worker[w].run) /\ Rest(w) /\ worker[w].run \in RunIds
      BY <1>3, BusyWorker DEF SkipBusy
    <2>2. QED
      BY <2>1, RestQuiet DEF QuietStep
  <1>4. CASE Claim(w)
    <2>1. CASE ClaimRun(worker[w].run) /\ Goto(w, "execute")
      <3>1. worker'[w].run = worker[w].run
            /\ \A v \in Workers \ {w} : worker'[v] = worker[v]
        BY <1>0, <2>1 DEF Goto, WorkType
      <3>2. QED
        BY <1>4, <2>1, <3>1 DEF Claim, ClaimStep
    <2>2. CASE Rest(w) /\ UNCHANGED tableVars
      BY <2>2, RestQuiet DEF QuietStep, tableVars
    <2>3. QED
      BY <1>4, <2>1, <2>2 DEF Claim
  <1>5. CASE Execute(w)
    <2>1. PICK result \in Results :
            worker' = [worker EXCEPT ![w].pc = "finish", ![w].result = result]
      BY <1>5 DEF Execute
    <2> DEFINE k == [worker[w] EXCEPT !.pc = "finish", !.result = result]
    <2>2. /\ worker' = [worker EXCEPT ![w] = k] /\ UNCHANGED <<runs, claims>>
          /\ worker[w].pc = "execute"
      BY <1>0, <1>5, <2>1 DEF Execute, tableVars
    <2>3. k.run = worker[w].run
      BY <1>0 DEF WorkType
    <2>4. QED
      BY <2>2, <2>3, OneWorkerQuiet DEF Holding, Recording, QuietStep
  <1>6. CASE Finish(w)
    <2>1. /\ worker[w].pc = "finish" /\ Goto(w, "summary")
          /\ FinishRun(worker[w].run, worker[w].result)
      BY <1>6 DEF Finish
    <2>2. QuietWorkers /\ worker'[w].pc = "summary"
      BY <2>1, GotoQuiet DEF Holding, Recording
    <2>3. \A v \in Workers \ {w} : worker'[v] = worker[v]
      BY <1>0, <2>1 DEF Goto
    <2>4. QED
      BY <2>1, <2>2, <2>3 DEF FinishStep, Recording
  <1>7. CASE Summarise(w)
    <2>1. worker[w].pc \in Holding /\ UNCHANGED <<runs, claims>>
      BY <1>7 DEF Summarise, WriteJobSummary, Holding
    <2>2. QED
      BY <1>7, <2>1, ChainQuiet DEF Summarise, BeginChain, QuietStep
  <1>8. CASE HandOff(w)
    <2>1. worker[w].pc \in Holding /\ UNCHANGED <<runs, claims>>
      BY <1>8 DEF HandOff, tableVars, Holding
    <2>2. QED
      BY <1>8, <2>1, ChainQuiet DEF HandOff, QuietStep
  <1>9. ASSUME NEW t \in worker[w].todo, ChainSkip(w, t) PROVE QuietStep
    <2>1. /\ worker[w].pc # "idle" /\ worker[w].pc \in Holding
          /\ t.link.to \in Jobs /\ worker[w].run \in RunIds
      BY <1>9, BusyWorker, TodoType, ConstantFacts
         DEF ChainSkip, AtTarget, Targets, Holding
    <2>2. PICK r \in RunIds : Insert(r, NewRow(t.link.to, "skipped", NoMinute,
                                              worker[w].run, TRUE))
      BY <1>9 DEF ChainSkip, CreateChainSkipped
    <2>3. UNCHANGED <<active, lastStatus, claims>>
      BY <1>9 DEF ChainSkip, CreateChainSkipped
    <2>4. OpenRow(r)
      BY <2>1, <2>2, <2>3, OpenRowFacts
    <2>5. QED
      BY <1>9, <2>1, <2>4, ChainQuiet DEF ChainSkip, AfterTarget, QuietStep
  <1>10. ASSUME NEW t \in worker[w].todo, ChainQueue(w, t) PROVE QuietStep
    <2>1. /\ worker[w].pc = "chain" /\ worker[w].pc # "idle" /\ worker[w].pc \in Holding
          /\ t.link.to \in Jobs /\ worker[w].run \in RunIds
      BY <1>10, BusyWorker, TodoType, ConstantFacts
         DEF ChainQueue, AtTarget, Targets, Holding
    <2> DEFINE todo == worker[w].todo \ {t}
    <2>2. PICK r \in RunIds :
            /\ CreateChainRun(r, t.link.to, worker[w].run)
            /\ IF t.link.delay = "long" THEN AfterTarget(w, t)
               ELSE worker' = [worker EXCEPT ![w].pc = "handOff", ![w].step = r,
                                             ![w].todo = todo]
      BY <1>10 DEF ChainQueue
    <2>3. OpenRow(r)
      BY <2>1, <2>2, OpenRowFacts DEF CreateChainRun
    <2>4. CASE t.link.delay = "long"
      BY <2>1, <2>2, <2>3, <2>4, ChainQuiet DEF AfterTarget, QuietStep
    <2>5. CASE t.link.delay # "long"
      <3> DEFINE k == [worker[w] EXCEPT !.pc = "handOff", !.step = r, !.todo = todo]
      <3>1. worker' = [worker EXCEPT ![w] = k]
        BY <1>0, <2>2, <2>5
      <3>2. k.pc = "handOff" /\ k.run = worker[w].run
        BY <1>0 DEF WorkType
      <3>3. QED
        BY <2>1, <2>3, <3>1, <3>2, OneWorkerQuiet DEF Recording, QuietStep
    <2>6. QED
      BY <2>4, <2>5
  <1>11. QED
    BY <1>1, <1>2, <1>3, <1>4, <1>5, <1>6, <1>7, <1>8, <1>9, <1>10 DEF RunnerStep

(* So is a step of a worker one of whose statements fails. *)
LEMMA FaultSteps ==
    ASSUME TypeOK, NEW w \in Workers, RunnerFault(w)
    PROVE  QuietStep \/ ClaimStep \/ FinishStep
  <1>0. worker \in [Workers -> WorkType]
    BY TypeParts DEF WorkersOK
  <1>1. CASE GiveUp(w)
    BY <1>1, RestQuiet DEF GiveUp, QuietStep, tableVars
  <1>2. CASE ClaimAnswerLost(w)
    <2>1. /\ worker[w].pc = "claim" /\ ClaimRun(worker[w].run) /\ Rest(w)
      BY <1>2 DEF ClaimAnswerLost
    <2>2. worker'[w].pc \notin Holding
      BY <2>1, RestQuiet
    <2>3. \A v \in Workers \ {w} : worker'[v] = worker[v]
      BY <1>0, <2>1 DEF Rest
    <2>4. QED
      BY <2>1, <2>2, <2>3 DEF ClaimStep
  <1>3. CASE FinishFails(w)
    <2>1. worker[w].pc = "finish" /\ Rest(w)
      BY <1>3 DEF FinishFails
    <2>2. QuietWorkers /\ worker'[w].pc \notin Recording
      BY <2>1, RestQuiet DEF Holding
    <2>3. \A v \in Workers \ {w} : worker'[v] = worker[v]
      BY <1>0, <2>1 DEF Rest
    <2>4. CASE UNCHANGED tableVars
      BY <2>2, <2>4 DEF QuietStep, tableVars
    <2>5. CASE FinishRun(worker[w].run, worker[w].result)
      BY <2>1, <2>2, <2>3, <2>5 DEF FinishStep
    <2>6. QED
      BY <1>3, <2>4, <2>5 DEF FinishFails
  <1>4. CASE SummaryFails(w)
    <2>1. worker[w].pc \in Holding /\ UNCHANGED <<runs, claims>>
      BY <1>4 DEF SummaryFails, tableVars, Holding
    <2>2. QED
      BY <1>4, <2>1, ChainQuiet DEF SummaryFails, BeginChain, QuietStep
  <1>5. CASE ChainUnread(w)
    BY <1>5, RestQuiet DEF ChainUnread, WriteJobSummary, QuietStep
  <1>6. CASE HandOffFails(w)
    <2>1. worker[w].pc \in Holding /\ UNCHANGED <<runs, claims>>
      BY <1>6 DEF HandOffFails, tableVars, Holding
    <2>2. QED
      BY <1>6, <2>1, ChainQuiet DEF HandOffFails, QuietStep
  <1>7. ASSUME NEW t \in worker[w].todo, ChainFails(w, t) PROVE QuietStep
    <2>1. worker[w].pc \in Holding /\ UNCHANGED <<runs, claims>>
      BY <1>7 DEF ChainFails, AtTarget, tableVars, Holding
    <2>2. QED
      BY <1>7, <2>1, ChainQuiet DEF ChainFails, AfterTarget, QuietStep
  <1>8. QED
    BY <1>1, <1>2, <1>3, <1>4, <1>5, <1>6, <1>7 DEF RunnerFault

(* Timers, crashes, the watchdog, the clock and the operator are quiet. *)
LEMMA OutsideSteps ==
    ASSUME TypeOK,
           \/ \E i \in Replicas, j \in Jobs : Trigger(i, j)
           \/ \E i \in Replicas, r \in RunIds : TimerFires(i, r)
           \/ \E i \in Replicas : Crash(i)
           \/ Sweep
           \/ \E r \in RunIds : RunAfter(r) \/ GrowOld(r)
           \/ \E j \in Jobs : Suspend(j)
    PROVE  QuietStep
  <1>1. ASSUME NEW i \in Replicas, NEW j \in Jobs, Trigger(i, j) PROVE QuietStep
    <2>1. PICK r \in RunIds : Enqueue(r, j)
      BY <1>1 DEF Trigger
    <2>2. OpenRow(r)
      BY <2>1, OpenRowFacts DEF Enqueue
    <2>3. QED
      BY <1>1, <2>2, SameWorkers DEF Trigger, QuietStep
  <1>2. ASSUME NEW i \in Replicas, NEW r \in RunIds, TimerFires(i, r)
        PROVE  QuietStep
    BY <1>2, SameWorkers DEF TimerFires, tableVars, QuietStep
  <1>3. ASSUME NEW i \in Replicas, Crash(i) PROVE QuietStep
    <2>1. \A v \in Workers : worker'[v] = NoWork \/ worker'[v] = worker[v]
      BY <1>3 DEF Crash
    <2>2. NoWork.pc \notin Holding
      BY DEF NoWork, Holding, Recording
    <2>3. QED
      BY <1>3, <2>1, <2>2 DEF Crash, tableVars, QuietWorkers, QuietStep
  <1>4. CASE Sweep
    BY <1>4, SameWorkers DEF Sweep, memVars, QuietStep
  <1>5. ASSUME NEW r \in RunIds, RunAfter(r) \/ GrowOld(r) PROVE QuietStep
    BY <1>5, SameWorkers DEF RunAfter, GrowOld, memVars, QuietStep
  <1>6. ASSUME NEW j \in Jobs, Suspend(j) PROVE QuietStep
    BY <1>6, SameWorkers DEF Suspend, SetActive, memVars, QuietStep
  <1>7. QED
    BY <1>1, <1>2, <1>3, <1>4, <1>5, <1>6

(* Every step is quiet, a claim or a finish. *)
LEMMA ThreeKinds ==
    ASSUME TypeOK, [Next]_vars
    PROVE  QuietStep \/ ClaimStep \/ FinishStep
  <1>1. CASE UNCHANGED vars
    BY <1>1, SameWorkers DEF vars, tableVars, memVars, QuietStep
  <1>2. CASE Next
    BY <1>2, DispatcherSteps, RunnerSteps, FaultSteps, OutsideSteps DEF Next
  <1>3. QED
    BY <1>1, <1>2
-----------------------------------------------------------------------------
(* The invariant is inductive. *)

(* What each kind of step does to one row: the cases a row's history has. *)
RowSkips(r)   == runs[r].status = "pending" /\ runs'[r].status = "skipped"
RowOpens(r)   == runs[r].status = "absent"
                 /\ runs'[r].status \in {"pending", "skipped"}
RowGivenUp(r) == runs[r].status = "running" /\ runs'[r].status = "timeout"
RowClaimed(r) == runs[r].status = "pending" /\ runs'[r].status = "running"
RowCloses(r)  == runs[r].status \in {"running", "timeout"}
                 /\ runs'[r].status \in Results

(* What a quiet step does to the claims of the rows. *)
LEMMA QuietRows ==
    ASSUME IInv, QuietStep, NEW r \in RunIds
    PROVE  /\ claims'[r] = claims[r]
           /\ \/ runs'[r] = runs[r]
              \/ RowSkips(r) \/ RowOpens(r) \/ RowGivenUp(r)
              \/ runs'[r].status = runs[r].status
                 /\ runs[r].status \in {"pending", "running"}
  <1>0. TableTypeOK
    BY TypeParts DEF IInv
  <1>1. CASE UNCHANGED <<runs, claims>>
    BY <1>1
  <1>2. ASSUME NEW q \in RunIds, OpenRow(q)
        PROVE  claims'[r] = claims[r] /\ (runs'[r] = runs[r] \/ RowOpens(r))
    BY <1>2 DEF OpenRow, RowOpens, Exists
  <1>3. ASSUME NEW q \in RunIds, SkipRun(q)
        PROVE  claims'[r] = claims[r] /\ (runs'[r] = runs[r] \/ RowSkips(r))
    BY <1>0, <1>3 DEF SkipRun, RowSkips, HasStatus, TableTypeOK, Row
  <1>4. ASSUME NEW q \in RunIds, RunAfterArrives(q) \/ Overstay(q)
        PROVE  /\ claims'[r] = claims[r]
               /\ \/ runs'[r] = runs[r]
                  \/ runs'[r].status = runs[r].status
                     /\ runs[r].status \in {"pending", "running"}
    BY <1>0, <1>4 DEF RunAfterArrives, Overstay, HasStatus, TableTypeOK, Row
  <1>5. CASE CloseStuckRuns
    <2>1. r \notin Stuck => runs'[r] = runs[r]
      BY <1>5 DEF CloseStuckRuns
    <2>2. r \in Stuck => RowGivenUp(r)
      BY <1>0, <1>5 DEF CloseStuckRuns, Stuck, Running, HasStatus, RowGivenUp,
         TableTypeOK, Row
    <2>3. QED
      BY <1>5, <2>1, <2>2 DEF CloseStuckRuns
  <1>6. QED
    BY <1>1, <1>2, <1>3, <1>4, <1>5 DEF QuietStep

(* What a claim does to them. *)
LEMMA ClaimRows ==
    ASSUME IInv, NEW q \in RunIds, ClaimRun(q), NEW r \in RunIds
    PROVE  IF r = q THEN RowClaimed(r) /\ claims'[r] = claims[r] + 1
           ELSE runs'[r] = runs[r] /\ claims'[r] = claims[r]
  <1>0. TableTypeOK
    BY TypeParts DEF IInv
  <1>1. QED
    BY <1>0 DEF ClaimRun, HasStatus, RowClaimed, TableTypeOK, Row

(* What a finish does to them. *)
LEMMA FinishRows ==
    ASSUME IInv, NEW w \in Workers, worker[w].pc = "finish",
           FinishRun(worker[w].run, worker[w].result), NEW r \in RunIds
    PROVE  /\ claims'[r] = claims[r] /\ worker[w].run \in RunIds
           /\ IF r = worker[w].run THEN RowCloses(r) ELSE runs'[r] = runs[r]
  <1>0. TableTypeOK /\ worker[w].run \in RunIds /\ worker[w].result \in Results
    BY TypeParts, BusyWorker DEF IInv, WorkersOK, WorkOK
  <1>1. runs[worker[w].run].status \in {"running", "timeout"}
    BY DEF IInv, ClaimedRowsHeld, Recording
  <1>2. QED
    BY <1>0, <1>1 DEF FinishRun, RowCloses, TableTypeOK, Row

(* Nothing but an insert makes a row, and none changes a row's key or      *)
(* its parent.                                                             *)
LEMMA KeysKept ==
    ASSUME IInv, NEW r \in RunIds,
           \/ QuietStep /\ ~\E q \in RunIds : OpenRow(q)
           \/ ClaimStep \/ FinishStep
    PROVE  /\ runs'[r].job = runs[r].job /\ runs'[r].minute = runs[r].minute
           /\ runs'[r].parent = runs[r].parent
           /\ Exists(r)' => Exists(r)
  <1>0. TableTypeOK
    BY TypeParts DEF IInv
  <1>1. CASE UNCHANGED <<runs, claims>>
    BY <1>1 DEF Exists
  <1>2. ASSUME NEW q \in RunIds,
               SkipRun(q) \/ RunAfterArrives(q) \/ Overstay(q) \/ ClaimRun(q)
        PROVE  /\ runs'[r].job = runs[r].job /\ runs'[r].minute = runs[r].minute
               /\ runs'[r].parent = runs[r].parent
               /\ Exists(r)' => Exists(r)
    BY <1>0, <1>2 DEF SkipRun, RunAfterArrives, Overstay, ClaimRun, HasStatus, Exists,
       TableTypeOK, Row
  <1>3. CASE CloseStuckRuns
    BY <1>0, <1>3 DEF CloseStuckRuns, Stuck, Running, HasStatus, Exists,
       TableTypeOK, Row
  <1>4. ASSUME NEW w \in Workers, worker[w].pc = "finish",
               FinishRun(worker[w].run, worker[w].result)
        PROVE  /\ runs'[r].job = runs[r].job /\ runs'[r].minute = runs[r].minute
               /\ runs'[r].parent = runs[r].parent
               /\ Exists(r)' => Exists(r)
    <2>1. Exists(worker[w].run)
      BY <1>4, BusyWorker DEF IInv
    <2>2. QED
      BY <1>0, <1>4, <2>1 DEF FinishRun, Exists, TableTypeOK, Row
  <1>5. CASE ClaimStep
    <2>1. PICK w \in Workers : worker[w].pc = "claim" /\ ClaimRun(worker[w].run)
      BY <1>5 DEF ClaimStep
    <2>2. worker[w].run \in RunIds
      BY <2>1, BusyWorker DEF IInv
    <2>3. QED
      BY <1>2, <2>1, <2>2
  <1>6. QED
    BY <1>1, <1>2, <1>3, <1>4, <1>5 DEF QuietStep, FinishStep

(* No step gives a job two rows for one minute. *)
LEMMA UniqueKept ==
    ASSUME IInv, QuietStep \/ ClaimStep \/ FinishStep
    PROVE  UniqueMinute'
  <1> SUFFICES ASSUME NEW q \in Rows', NEW r \in Rows',
                      runs'[q].job = runs'[r].job,
                      runs'[q].minute = runs'[r].minute, runs'[q].minute # NoMinute
               PROVE  q = r
    BY DEF UniqueMinute
  <1>0. UniqueMinute /\ q \in RunIds /\ r \in RunIds /\ Exists(q)' /\ Exists(r)'
    BY DEF IInv, Rows, Exists
  <1>1. CASE ~\E o \in RunIds : OpenRow(o)
    <2>1. /\ runs'[q].job = runs[q].job /\ runs'[q].minute = runs[q].minute
          /\ runs'[r].job = runs[r].job /\ runs'[r].minute = runs[r].minute
          /\ Exists(q) /\ Exists(r)
      BY <1>0, <1>1, KeysKept
    <2>2. QED
      BY <1>0, <2>1 DEF UniqueMinute, Rows
  <1>2. ASSUME NEW o \in RunIds, OpenRow(o) PROVE q = r
    <2>1. \A x \in RunIds \ {o} : runs'[x] = runs[x] /\ (Exists(x)' => Exists(x))
      BY <1>2 DEF OpenRow, Exists
    <2>2. CASE q = o \/ r = o
      BY <1>0, <1>2, <2>1, <2>2 DEF OpenRow, Rows
    <2>3. CASE q # o /\ r # o
      BY <1>0, <2>1, <2>3 DEF UniqueMinute, Rows
    <2>4. QED
      BY <2>2, <2>3
  <1>3. QED
    BY <1>1, <1>2

(* Statuses a claimed row may have. *)
Untaken == {"absent", "pending", "skipped"}

(* A worker that holds a run holds the same run it held before, or it has  *)
(* just claimed it.                                                        *)
LEMMA HeldKept ==
    ASSUME IInv, QuietStep \/ ClaimStep \/ FinishStep
    PROVE  ClaimedRowsHeld' /\ Exclusive'
  <1>0. /\ TypeOK /\ ClaimedRowsHeld /\ Exclusive /\ TableTypeOK
        /\ \A v \in Workers : worker[v].pc \in Holding => worker[v].run \in RunIds
        /\ \A r \in RunIds : runs[r].status \in Statuses \cup {"absent"}
                             /\ claims[r] \in Nat
    BY TypeParts, BusyWorker DEF IInv, Holding, Recording, TableTypeOK, Row
  <1>1. CASE QuietStep
    <2>1. ASSUME NEW r \in RunIds
          PROVE  claims'[r] = IF runs'[r].status \in Untaken THEN 0 ELSE 1
      BY <1>0, <1>1, QuietRows DEF ClaimedRowsHeld, Untaken, RowSkips, RowOpens,
         RowGivenUp
    <2>2. ASSUME NEW v \in Workers, worker'[v].pc \in Holding
          PROVE  claims'[worker'[v].run] = 1
      BY <1>0, <1>1, <2>2, QuietRows DEF QuietStep, QuietWorkers, ClaimedRowsHeld
    <2>3. ASSUME NEW v \in Workers, worker'[v].pc \in Recording
          PROVE  runs'[worker'[v].run].status \in {"running", "timeout"}
      <3>1. worker[v].pc \in Recording /\ worker'[v].run = worker[v].run
            /\ worker[v].run \in RunIds
        BY <1>0, <1>1, <2>3 DEF QuietStep, QuietWorkers, Holding
      <3>2. QED
        BY <1>0, <1>1, <3>1, QuietRows
           DEF ClaimedRowsHeld, RowSkips, RowOpens, RowGivenUp
    <2>4. Exclusive'
      BY <1>0, <1>1 DEF Exclusive, QuietStep, QuietWorkers
    <2>5. QED
      BY <2>1, <2>2, <2>3, <2>4 DEF ClaimedRowsHeld, Untaken
  <1>2. CASE ClaimStep
    <2>1. PICK w \in Workers :
            /\ worker[w].pc = "claim" /\ ClaimRun(worker[w].run)
            /\ worker'[w].pc \in Holding => worker'[w].run = worker[w].run
            /\ \A v \in Workers \ {w} : worker'[v] = worker[v]
      BY <1>2 DEF ClaimStep
    <2> DEFINE q == worker[w].run
    <2>2. q \in RunIds /\ runs[q].status = "pending" /\ claims[q] = 0
      BY <1>0, <2>1, BusyWorker DEF ClaimRun, HasStatus, ClaimedRowsHeld
    <2>3. ASSUME NEW r \in RunIds
          PROVE  claims'[r] = IF runs'[r].status \in Untaken THEN 0 ELSE 1
      BY <1>0, <2>1, <2>2, ClaimRows DEF ClaimedRowsHeld, Untaken, RowClaimed
    <2>4. claims'[q] = 1 /\ runs'[q].status = "running"
      BY <2>1, <2>2, ClaimRows DEF RowClaimed
    <2>5. ASSUME NEW v \in Workers \ {w}, worker[v].pc \in Holding
          PROVE  /\ worker[v].run # q /\ worker[v].run \in RunIds
                 /\ claims'[worker[v].run] = 1
                 /\ runs'[worker[v].run] = runs[worker[v].run]
      BY <1>0, <2>1, <2>2, <2>5, ClaimRows DEF ClaimedRowsHeld
    <2>6. ASSUME NEW v \in Workers, worker'[v].pc \in Holding
          PROVE  /\ claims'[worker'[v].run] = 1
                 /\ worker'[v].pc \in Recording
                    => runs'[worker'[v].run].status \in {"running", "timeout"}
      BY <1>0, <2>1, <2>4, <2>5, <2>6 DEF ClaimedRowsHeld
    <2>7. Exclusive'
      BY <1>0, <2>1, <2>5 DEF Exclusive
    <2>8. QED
      BY <2>3, <2>6, <2>7 DEF ClaimedRowsHeld, Untaken, Holding
  <1>3. CASE FinishStep
    <2>1. PICK w \in Workers :
            /\ worker[w].pc = "finish" /\ FinishRun(worker[w].run, worker[w].result)
            /\ QuietWorkers
            /\ worker'[w].pc \notin Recording
            /\ \A v \in Workers \ {w} : worker'[v] = worker[v]
      BY <1>3 DEF FinishStep
    <2> DEFINE q == worker[w].run
    <2>2. q \in RunIds /\ worker[w].pc \in Holding
      BY <1>0, <2>1 DEF Holding, Recording
    <2>3. ASSUME NEW r \in RunIds
          PROVE  claims'[r] = IF runs'[r].status \in Untaken THEN 0 ELSE 1
      BY <1>0, <2>1, FinishRows DEF ClaimedRowsHeld, Untaken, RowCloses, Results
    <2>4. ASSUME NEW v \in Workers, worker'[v].pc \in Holding
          PROVE  claims'[worker'[v].run] = 1
      BY <1>0, <2>1, <2>4, FinishRows DEF QuietWorkers, ClaimedRowsHeld
    <2>5. ASSUME NEW v \in Workers, worker'[v].pc \in Recording
          PROVE  runs'[worker'[v].run].status \in {"running", "timeout"}
      <3>1. /\ v # w /\ worker'[v] = worker[v] /\ worker[v].pc \in Recording
            /\ worker[v].pc \in Holding /\ worker[v].run \in RunIds
        BY <1>0, <2>1, <2>5 DEF Holding
      <3>2. worker[v].run # q
        BY <1>0, <2>2, <3>1 DEF Exclusive
      <3>3. QED
        BY <1>0, <2>1, <3>1, <3>2, FinishRows DEF ClaimedRowsHeld
    <2>6. Exclusive'
      BY <1>0, <2>1 DEF Exclusive, QuietWorkers
    <2>7. QED
      BY <2>3, <2>4, <2>5, <2>6 DEF ClaimedRowsHeld, Untaken
  <1>4. QED
    BY <1>1, <1>2, <1>3

(* The first state satisfies the inductive invariant. *)
LEMMA InitInv == Init => IInv
  <1> SUFFICES ASSUME Init PROVE IInv
    OBVIOUS
  <1>1. \A r \in RunIds : runs[r].status = "absent" /\ claims[r] = 0
    BY DEF Init, TableInit, NoRow, NewRow
  <1>2. \A w \in Workers : worker[w].pc \notin Holding
    BY DEF Init, NoWork, Holding, Recording
  <1>3. ClaimedRowsHeld /\ UniqueMinute /\ Exclusive
    BY <1>1, <1>2 DEF ClaimedRowsHeld, UniqueMinute, Exclusive, Rows, Exists, Holding
  <1>4. QED
    BY <1>3, InitType DEF IInv

(* Every step keeps it. *)
LEMMA StepInv == IInv /\ [Next]_vars => IInv'
  <1> SUFFICES ASSUME IInv, [Next]_vars PROVE IInv'
    OBVIOUS
  <1>1. TypeOK' /\ (QuietStep \/ ClaimStep \/ FinishStep)
    BY StepType, ThreeKinds DEF IInv
  <1>2. QED
    BY <1>1, UniqueKept, HeldKept DEF IInv
(* A settled row is left alone by every step. *)
LEMMA SettledKept ==
    ASSUME IInv, [Next]_vars, NEW r \in RunIds,
           runs[r].status \in {"success", "failed", "skipped"}
    PROVE  runs'[r] = runs[r]
  <1>1. CASE QuietStep
    BY <1>1, QuietRows DEF RowSkips, RowOpens, RowGivenUp
  <1>2. CASE ClaimStep
    <2>1. PICK w \in Workers : worker[w].pc = "claim" /\ ClaimRun(worker[w].run)
      BY <1>2 DEF ClaimStep
    <2>2. worker[w].run \in RunIds
      BY <2>1, BusyWorker DEF IInv
    <2>3. QED
      BY <2>1, <2>2, ClaimRows DEF RowClaimed
  <1>3. CASE FinishStep
    BY <1>3, FinishRows DEF FinishStep, RowCloses
  <1>4. QED
    BY <1>1, <1>2, <1>3, ThreeKinds DEF IInv

-----------------------------------------------------------------------------
(* The theorems. *)

(* The inductive invariant holds: types, claims that agree with statuses,  *)
(* one row per job and minute, and no run in the hands of two workers.     *)
THEOREM Invariant == Spec => []IInv
  BY InitInv, StepInv, PTL DEF Spec

(* The claim gives one execution per row: ClaimRun's status guard lets one *)
(* caller through, whatever was handed over twice, and two workers never   *)
(* hold the same run.                                                      *)
THEOREM ExecutedOnce == Spec => []OneExecutionPerRow
  <1>1. IInv => OneExecutionPerRow
    BY DEF IInv, ClaimedRowsHeld, Exclusive, OneExecutionPerRow
  <1>2. QED
    BY <1>1, Invariant, PTL

(* The unique index gives one row, and so one execution, for each planned  *)
(* minute of a job, however many replicas evaluate the minute.             *)
THEOREM MinuteOnce == Spec => []OneExecutionPerMinute
  <1>1. IInv => OneExecutionPerMinute
    BY DEF IInv, UniqueMinute, OneExecutionPerMinute
  <1>2. QED
    BY <1>1, Invariant, PTL

(* History and workers agree about which rows were taken: what the         *)
(* dispatcher skips on a stale reading was not claimed in the meantime     *)
(* (SkipRun's status guard), and is never claimed afterwards.              *)
THEOREM HistoryAgrees == Spec => []ClaimedRowsHeld
  <1>1. IInv => ClaimedRowsHeld
    BY DEF IInv
  <1>2. QED
    BY <1>1, Invariant, PTL

(* A recorded success, failure or skip is never rewritten, although        *)
(* FinishRun has no guard on the status.                                   *)
THEOREM ResultStands == Spec => RecordedResultStands
  <1> DEFINE A == \A r \in RunIds :
                    runs[r].status \in {"success", "failed", "skipped"}
                      => runs'[r] = runs[r]
  <1>1. IInv /\ [Next]_vars => A
    BY SettledKept
  <1>2. QED
    BY <1>1, Invariant, PTL DEF Spec, RecordedResultStands
-----------------------------------------------------------------------------
(* Refinement: the statuses and the claims follow module RunLifecycle. *)

status == [r \in RunIds |-> runs[r].status]

(* One row changed its status, or none did. *)
LEMMA StatusEqual ==
    ASSUME \A r \in RunIds : runs'[r].status = runs[r].status
    PROVE  status' = status
  BY DEF status

(* One row's status, read off an EXCEPT. *)
LEMMA StatusExcept ==
    ASSUME NEW q \in RunIds, NEW s, runs'[q].status = s,
           \A r \in RunIds \ {q} : runs'[r].status = runs[r].status
    PROVE  status' = [status EXCEPT ![q] = s]
  BY DEF status

(* FinishRun, seen by the life cycle, closes a run. *)
LEMMA CloseIsStep ==
    ASSUME NEW r \in RunIds, NEW result \in Results, Lifecycle!Close(r, result)
    PROVE  Lifecycle!Next
  <1>1. result \in Lifecycle!Results
    BY DEF Results, Lifecycle!Results
  <1>2. \E q \in RunIds, s \in Lifecycle!Results : Lifecycle!Close(q, s)
    BY <1>1
  <1>3. QED
    BY <1>2 DEF Lifecycle!Next

(* CloseStuckRuns, seen by the life cycle, gives up on runs. *)
LEMMA GiveUpIsStep ==
    ASSUME NEW S \in SUBSET RunIds, Lifecycle!GiveUpOn(S) PROVE Lifecycle!Next
  <1>1. \E T \in SUBSET RunIds : Lifecycle!GiveUpOn(T)
    OBVIOUS
  <1>2. QED
    BY <1>1 DEF Lifecycle!Next

(* Every step of the execution path is a step of the life cycle. *)
LEMMA StepRefines ==
    ASSUME IInv, [Next]_vars
    PROVE  [Lifecycle!Next]_(Lifecycle!vars)
  <1>0. TableTypeOK
    BY TypeParts DEF IInv
  <1>1. Lifecycle!vars = <<status, claims>> /\ Lifecycle!vars' = <<status', claims'>>
    BY DEF Lifecycle!vars, status
  <1>2. CASE QuietStep
    <2>1. CASE UNCHANGED <<runs, claims>>
      BY <1>1, <2>1, StatusEqual
    <2>2. ASSUME NEW r \in RunIds, OpenRow(r) PROVE Lifecycle!Open(r)
      <3>1. status[r] = "absent" /\ UNCHANGED claims
        BY <2>2 DEF OpenRow, Exists, status
      <3>2. status' = [status EXCEPT ![r] = runs'[r].status]
        BY <2>2, StatusExcept DEF OpenRow
      <3>3. QED
        BY <2>2, <3>1, <3>2 DEF OpenRow, Lifecycle!Open, status
    <2>3. ASSUME NEW r \in RunIds, SkipRun(r), HasStatus(r, "pending")
          PROVE  Lifecycle!Skip(r)
      <3>1. status[r] = "pending" /\ UNCHANGED claims
        BY <2>3 DEF SkipRun, HasStatus, status
      <3>2. status' = [status EXCEPT ![r] = "skipped"]
        BY <1>0, <2>3, StatusExcept DEF SkipRun, TableTypeOK, Row
      <3>3. QED
        BY <3>1, <3>2 DEF Lifecycle!Skip, status
    <2>4. ASSUME NEW r \in RunIds, SkipRun(r), ~HasStatus(r, "pending")
          PROVE  UNCHANGED <<runs, claims>>
      BY <2>4 DEF SkipRun
    <2>5. ASSUME NEW r \in RunIds, RunAfterArrives(r) \/ Overstay(r)
          PROVE  UNCHANGED (Lifecycle!vars)
      <3>1. \A q \in RunIds : runs'[q].status = runs[q].status
        BY <1>0, <2>5 DEF RunAfterArrives, Overstay, TableTypeOK, Row
      <3>2. QED
        BY <1>1, <2>5, <3>1, StatusEqual DEF RunAfterArrives, Overstay
    <2>6. CASE CloseStuckRuns
      <3>1. /\ Stuck \in SUBSET RunIds /\ UNCHANGED claims
            /\ \A r \in Stuck : status[r] = "running"
        BY <2>6 DEF CloseStuckRuns, Stuck, Running, HasStatus, status
      <3>2. \A r \in RunIds :
              runs'[r].status = IF r \in Stuck THEN "timeout" ELSE runs[r].status
        BY <1>0, <2>6 DEF CloseStuckRuns, TableTypeOK, Row
      <3>3. status' = [r \in RunIds |-> IF r \in Stuck THEN "timeout" ELSE status[r]]
        BY <3>2 DEF status
      <3>4. PICK S \in SUBSET RunIds : S = Stuck
        BY <3>1
      <3>5. Lifecycle!GiveUpOn(S)
        BY <3>1, <3>3, <3>4 DEF Lifecycle!GiveUpOn, status
      <3>6. QED
        BY <3>5, GiveUpIsStep
    <2>7. QED
      BY <1>2, <2>1, <2>2, <2>3, <2>4, <2>5, <2>6 DEF QuietStep, Lifecycle!Next
  <1>3. CASE ClaimStep
    <2>1. PICK r \in RunIds : ClaimRun(r)
      BY <1>3, BusyWorker DEF ClaimStep, IInv
    <2>2. status[r] = "pending" /\ claims[r] = 0
      BY <2>1 DEF ClaimRun, HasStatus, status, IInv, ClaimedRowsHeld
    <2>3. status' = [status EXCEPT ![r] = "running"]
      BY <1>0, <2>1, StatusExcept DEF ClaimRun, TableTypeOK, Row
    <2>4. claims' = [claims EXCEPT ![r] = 1]
      BY <1>0, <2>1, <2>2 DEF ClaimRun, TableTypeOK
    <2>5. Lifecycle!Start(r)
      BY <2>2, <2>3, <2>4 DEF Lifecycle!Start, status
    <2>6. QED
      BY <2>5 DEF Lifecycle!Next
  <1>4. CASE FinishStep
    <2>1. PICK w \in Workers : worker[w].pc = "finish"
                               /\ FinishRun(worker[w].run, worker[w].result)
      BY <1>4 DEF FinishStep
    <2>2. PICK r \in RunIds, result \in Results :
            /\ r = worker[w].run /\ result = worker[w].result
            /\ runs[r].status \in {"running", "timeout"}
      BY <2>1, BusyWorker, TypeParts
         DEF IInv, WorkersOK, WorkOK, ClaimedRowsHeld, Recording
    <2>3. status' = [status EXCEPT ![r] = result]
      BY <1>0, <2>1, <2>2, StatusExcept DEF FinishRun, TableTypeOK, Row
    <2>4. Lifecycle!Close(r, result)
      BY <2>1, <2>2, <2>3 DEF FinishRun, Lifecycle!Close, status
    <2>5. QED
      BY <2>2, <2>4, CloseIsStep
  <1>5. QED
    BY <1>2, <1>3, <1>4, ThreeKinds DEF IInv

(* The execution path implements the life cycle of a run: whatever         *)
(* dispatchers, workers, timers, crashes and the watchdog do, a row goes   *)
(* absent, pending, running, closed, or is skipped before it was taken.    *)
THEOREM Refinement == Spec => FollowsLifecycle
  <1>1. Init => Lifecycle!Init
    BY DEF Init, TableInit, NoRow, NewRow, Lifecycle!Init
  <1>2. IInv /\ [Next]_vars => [Lifecycle!Next]_(Lifecycle!vars)
    BY StepRefines
  <1>3. QED
    BY <1>1, <1>2, Invariant, PTL DEF Spec, FollowsLifecycle, Lifecycle!Spec
=============================================================================
