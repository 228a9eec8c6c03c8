--------------------------- MODULE ShutdownProofs ---------------------------
(***************************************************************************)
(* The invariants of module Shutdown, for any number of goroutines of each *)
(* kind and any capacity of the three channels.                            *)
(*                                                                         *)
(* The argument: each flag and each channel is a function of the phase;    *)
(* the phases that a wait has let through know what it waited for, unless  *)
(* the 90 seconds are over; and what was waited for cannot come back,      *)
(* because a goroutine that is gone takes no step, a channel that is       *)
(* closed takes no send, and a server that is closed starts no request.    *)
(***************************************************************************)
EXTENDS Shutdown, TLAPS

(* The phases that follow the closing of a channel, or the end of a wait.  *)
LoggerClosedIn == {"loggerWait", "exited"}
NotifierGoneIn == {"logger"} \cup LoggerClosedIn
NotifierClosedIn == {"notifierWait"} \cup NotifierGoneIn
DrainedIn == {"notifier"} \cup NotifierClosedIn
PoolClosedIn == {"drain"} \cup DrainedIn
PoolFlagIn == {"poolClose"} \cup PoolClosedIn
ServerGoneIn == {"poolFlag"} \cup PoolFlagIn
Phases == {"serving", "timers", "server", "serverWait"} \cup ServerGoneIn

Logging == {"log", "logSend"}
Places == {"idle", "gone", "armed", "fired", "check", "send", "run", "mail",
           "chain"} \cup Logging

(* Where a goroutine of each kind can be, and what it can go on with.      *)
RequestPlaces == {"idle", "check", "send", "mail"} \cup Logging
WorkerPlaces == {"idle", "gone", "run", "mail", "chain"} \cup Logging

ShutdownTypeOK ==
    /\ phase \in Phases
    /\ expired \in BOOLEAN
    /\ pc \in [Callers -> Places] /\ after \in [Callers -> Places]
    /\ pool \in [closed : BOOLEAN, open : BOOLEAN, tasks : Nat]
    /\ notifier \in [open : BOOLEAN, queued : Nat,
                     sender : {"idle", "sending", "gone"}]
    /\ logger \in [open : BOOLEAN, queued : Nat, drainer : {"idle", "gone"}]

InPlace ==
    /\ \A g \in Requests : pc[g] \in RequestPlaces /\ after[g] = "idle"
    /\ \A g \in Workers :
          pc[g] \in WorkerPlaces /\ after[g] \in {"idle", "mail", "chain"}
    /\ \A g \in Callers : pc[g] \notin Logging => after[g] = "idle"
    /\ \A g \in Callers : after[g] \notin {"gone", "logSend"}

FollowsPhase ==
    /\ pool.closed <=> phase \in PoolFlagIn
    /\ pool.open <=> phase \notin PoolClosedIn
    /\ notifier.open <=> phase \notin NotifierClosedIn
    /\ logger.open <=> phase \notin LoggerClosedIn

(* What each wait is for.                                                  *)
WaitedFor ==
    ~expired =>
        /\ phase \in ServerGoneIn => \A g \in Requests : pc[g] = "idle"
        /\ phase \in DrainedIn => Drained
        /\ phase \in NotifierGoneIn => notifier.sender = "gone"
        /\ phase = "exited" => logger.drainer = "gone"

(* Who has left a channel found it closed and empty.                       *)
LeftEmpty ==
    /\ \A g \in Workers : pc[g] = "gone" => ~pool.open /\ pool.tasks = 0
    /\ notifier.sender = "gone" => ~notifier.open /\ notifier.queued = 0
    /\ logger.drainer = "gone" => ~logger.open /\ logger.queued = 0

SendsHoldLock == \A g \in Callers : pc[g] = "logSend" => logger.open

ShutdownInv ==
    /\ ShutdownTypeOK /\ InPlace /\ FollowsPhase
    /\ WaitedFor /\ LeftEmpty /\ SendsHoldLock

-----------------------------------------------------------------------------
USE DEF Logging, Places, RequestPlaces, WorkerPlaces, Phases, ServerGoneIn,
        PoolFlagIn, PoolClosedIn, DrainedIn, NotifierClosedIn, NotifierGoneIn,
        LoggerClosedIn

LEMMA InitialShutdown == Init => ShutdownInv
  <1> SUFFICES ASSUME Init PROVE ShutdownInv
    OBVIOUS
  <1>1. ShutdownTypeOK
    BY DEF Init, ShutdownTypeOK
  <1>2. InPlace
    BY DEF Init, InPlace, Callers
  <1>3. FollowsPhase /\ WaitedFor
    BY DEF Init, FollowsPhase, WaitedFor
  <1>4. LeftEmpty /\ SendsHoldLock
    BY DEF Init, LeftEmpty, SendsHoldLock, Callers
  <1>5. QED
    BY <1>1, <1>2, <1>3, <1>4 DEF ShutdownInv

(* What a step of goroutine g does: it moves no other one, but for a timer *)
(* it arms; it opens and closes no channel, and adds to none that is       *)
(* closed.                                                                 *)
Elsewhere(g) ==
    /\ pc' \in [Callers -> Places] /\ after' \in [Callers -> Places]
    /\ \A h \in Callers \ {g} :
          /\ after'[h] = after[h]
          /\ \/ pc'[h] = pc[h]
             \/ h \in Timers /\ pc[h] = "idle" /\ pc'[h] = "armed"

Onward(g) ==
    /\ Alive /\ pc[g] # "gone"
    /\ pc'[g] = "logSend" => logger.open
    /\ pc'[g] \notin Logging => after'[g] = "idle"
    /\ after'[g] \notin {"gone", "logSend"}
    /\ g \in Requests =>
          /\ pc'[g] \in RequestPlaces /\ after'[g] = "idle"
          /\ pc[g] = "idle" => phase \in {"serving", "timers", "server"}
    /\ g \in Workers =>
          /\ pc'[g] \in WorkerPlaces /\ after'[g] \in {"idle", "mail", "chain"}
          /\ pc'[g] = "gone" => ~pool.open /\ pool.tasks = 0 /\ pool' = pool

Channels ==
    /\ UNCHANGED <<phase, expired>>
    /\ \/ pool' = pool
       \/ /\ pool.open \/ pool.tasks > 0
          /\ \E k \in Nat : pool' = [pool EXCEPT !.tasks = k]
    /\ \/ notifier' = notifier
       \/ notifier.open /\ \E k \in Nat : notifier' = [notifier EXCEPT !.queued = k]
    /\ \/ logger' = logger
       \/ logger.open /\ \E k \in Nat : logger' = [logger EXCEPT !.queued = k]

LEMMA CallerKind ==
    ASSUME ShutdownInv, NEW g \in Callers,
           EntryStarts(g) \/ RequestArrives(g) \/ CallerStep(g)
    PROVE  Elsewhere(g) /\ Onward(g) /\ Channels
  <1> USE DEF ShutdownInv, ShutdownTypeOK, InPlace, SendsHoldLock, At, Goto,
              LogAndGoto, Alive, Callers
  <1>0. /\ Entries \cap (Requests \cup Timers \cup Workers) = {}
        /\ Requests \cap (Timers \cup Workers) = {}
        /\ Timers \cap Workers = {}
    BY ShutdownAssumption
  <1>1. CASE EntryStarts(g)
    <2>1. Elsewhere(g)
      BY <1>0, <1>1 DEF EntryStarts, Elsewhere
    <2>2. Onward(g)
      BY <1>0, <1>1 DEF EntryStarts, Onward
    <2>3. Channels
      BY <1>1 DEF EntryStarts, Channels
    <2>4. QED
      BY <2>1, <2>2, <2>3
  <1>2. CASE RequestArrives(g)
    <2>1. Elsewhere(g)
      BY <1>0, <1>2 DEF RequestArrives, Elsewhere
    <2>2. Onward(g)
      BY <1>0, <1>2 DEF RequestArrives, Onward
    <2>3. Channels
      BY <1>2 DEF RequestArrives, Channels
    <2>4. QED
      BY <2>1, <2>2, <2>3
  <1>3. CASE TimerFires(g)
    <2>1. Elsewhere(g)
      BY <1>0, <1>3 DEF TimerFires, Elsewhere
    <2>2. Onward(g)
      BY <1>0, <1>3 DEF TimerFires, Onward
    <2>3. Channels
      BY <1>3 DEF TimerFires, Channels
    <2>4. QED
      BY <2>1, <2>2, <2>3
  <1>4. CASE TimerReads(g)
    <2>1. Elsewhere(g)
      BY <1>0, <1>4 DEF TimerReads, Elsewhere
    <2>2. Onward(g)
      BY <1>0, <1>4 DEF TimerReads, Onward
    <2>3. Channels
      BY <1>4 DEF TimerReads, Channels
    <2>4. QED
      BY <2>1, <2>2, <2>3
  <1>5. CASE SubmitChecks(g)
    <2>1. Elsewhere(g)
      BY <1>0, <1>5 DEF SubmitChecks, AfterSubmit, Elsewhere
    <2>2. Onward(g)
      BY <1>0, <1>5 DEF SubmitChecks, AfterSubmit, Onward
    <2>3. Channels
      BY <1>5 DEF SubmitChecks, AfterSubmit, Channels
    <2>4. QED
      BY <2>1, <2>2, <2>3
  <1>6. CASE SubmitSends(g)
    <2>1. Elsewhere(g)
      BY <1>0, <1>6 DEF SubmitSends, AfterSubmit, Elsewhere
    <2>2. Onward(g)
      BY <1>0, <1>6 DEF SubmitSends, AfterSubmit, Onward
    <2>3. Channels
      BY <1>6 DEF SubmitSends, AfterSubmit, Channels
    <2>4. QED
      BY <2>1, <2>2, <2>3
  <1>7. CASE SubmitPanics(g)
    <2>1. Elsewhere(g)
      BY <1>0, <1>7 DEF SubmitPanics, Recovered, Elsewhere
    <2>2. Onward(g)
      BY <1>0, <1>7 DEF SubmitPanics, Recovered, Onward
    <2>3. Channels
      BY <1>7 DEF SubmitPanics, Recovered, Channels
    <2>4. QED
      BY <2>1, <2>2, <2>3
  <1>8. CASE TakeTask(g)
    <2>1. Elsewhere(g)
      BY <1>0, <1>8 DEF TakeTask, Elsewhere
    <2>2. Onward(g)
      BY <1>0, <1>8 DEF TakeTask, Onward
    <2>3. Channels
      <3>1. /\ pool.tasks > 0 /\ pool.tasks - 1 \in Nat
            /\ pool' = [pool EXCEPT !.tasks = pool.tasks - 1]
            /\ UNCHANGED <<phase, expired, notifier, logger>>
        BY <1>8 DEF TakeTask
      <3> HIDE DEF ShutdownInv, ShutdownTypeOK, InPlace, SendsHoldLock
      <3>2. QED
        BY <3>1 DEF Channels
    <2>4. QED
      BY <2>1, <2>2, <2>3
  <1>9. CASE WorkerLeaves(g)
    <2>1. Elsewhere(g)
      BY <1>0, <1>9 DEF WorkerLeaves, Elsewhere
    <2>2. Onward(g)
      BY <1>0, <1>9 DEF WorkerLeaves, Onward
    <2>3. Channels
      BY <1>9 DEF WorkerLeaves, Channels
    <2>4. QED
      BY <2>1, <2>2, <2>3
  <1>10. CASE RunEnds(g)
    <2>1. Elsewhere(g)
      BY <1>0, <1>10 DEF RunEnds, Elsewhere
    <2>2. Onward(g)
      BY <1>0, <1>10 DEF RunEnds, Onward
    <2>3. Channels
      BY <1>10 DEF RunEnds, Channels
    <2>4. QED
      BY <2>1, <2>2, <2>3
  <1>11. CASE Schedule(g)
    <2>1. Elsewhere(g)
      BY <1>0, <1>11 DEF Schedule, Arm, Elsewhere
    <2>2. Onward(g)
      BY <1>0, <1>11 DEF Schedule, Arm, Onward
    <2>3. Channels
      BY <1>11 DEF Schedule, Arm, Channels
    <2>4. QED
      BY <2>1, <2>2, <2>3
  <1>12. CASE MailSends(g)
    <2>1. Elsewhere(g)
      BY <1>0, <1>12 DEF MailSends, AfterMail, Elsewhere
    <2>2. Onward(g)
      BY <1>0, <1>12 DEF MailSends, AfterMail, Onward
    <2>3. Channels
      BY <1>12 DEF MailSends, AfterMail, Channels
    <2>4. QED
      BY <2>1, <2>2, <2>3
  <1>13. CASE MailPanics(g)
    <2>1. Elsewhere(g)
      BY <1>0, <1>13 DEF MailPanics, Recovered, Elsewhere
    <2>2. Onward(g)
      BY <1>0, <1>13 DEF MailPanics, Recovered, Onward
    <2>3. Channels
      BY <1>13 DEF MailPanics, Recovered, Channels
    <2>4. QED
      BY <2>1, <2>2, <2>3
  <1>14. CASE LogLocks(g)
    <2>1. Elsewhere(g)
      BY <1>0, <1>14 DEF LogLocks, Logged, Elsewhere
    <2>2. Onward(g)
      BY <1>0, <1>14 DEF LogLocks, Logged, Onward
    <2>3. Channels
      BY <1>14 DEF LogLocks, Logged, Channels
    <2>4. QED
      BY <2>1, <2>2, <2>3
  <1>15. CASE LogSends(g)
    <2>1. Elsewhere(g)
      BY <1>0, <1>15 DEF LogSends, Logged, Elsewhere
    <2>2. Onward(g)
      BY <1>0, <1>15 DEF LogSends, Logged, Onward
    <2>3. Channels
      BY <1>15 DEF LogSends, Logged, Channels
    <2>4. QED
      BY <2>1, <2>2, <2>3
  <1>16. QED
    BY <1>1, <1>2, <1>3, <1>4, <1>5, <1>6, <1>7, <1>8, <1>9, <1>10, <1>11, <1>12, <1>13, <1>14, <1>15 DEF CallerStep

LEMMA CallerKeeps ==
    ASSUME ShutdownInv, NEW g \in Callers,
           Elsewhere(g), Onward(g), Channels
    PROVE  ShutdownInv'
  <1> USE DEF ShutdownInv, Callers
  <1>0. /\ Entries \cap (Requests \cup Timers \cup Workers) = {}
        /\ Requests \cap (Timers \cup Workers) = {}
        /\ Timers \cap Workers = {}
    BY ShutdownAssumption
  <1>1. ShutdownTypeOK'
    BY DEF ShutdownTypeOK, Elsewhere, Channels
  <1>2. InPlace'
    BY <1>0 DEF InPlace, Elsewhere, Onward
  <1>3. /\ pool'.open = pool.open /\ pool'.closed = pool.closed
        /\ notifier'.open = notifier.open /\ notifier'.sender = notifier.sender
        /\ logger'.open = logger.open /\ logger'.drainer = logger.drainer
    BY DEF ShutdownTypeOK, Channels
  <1>4. FollowsPhase'
    BY <1>3 DEF FollowsPhase, Channels
  <1>5. \A h \in Requests :
            phase \in ServerGoneIn /\ pc[h] = "idle" => pc'[h] = "idle"
    <2>1. SUFFICES ASSUME NEW h \in Requests, phase \in ServerGoneIn,
                          pc[h] = "idle"
                   PROVE  pc'[h] = "idle"
      OBVIOUS
    <2>2. h # g
      BY <2>1 DEF Onward
    <2>3. QED
      BY <1>0, <2>1, <2>2 DEF Elsewhere
  <1>6. \A h \in Workers : pc[h] = "gone" => pc'[h] = "gone"
    BY <1>0 DEF Elsewhere, Onward
  <1>7. WaitedFor'
    BY <1>3, <1>5, <1>6 DEF WaitedFor, Drained, Channels
  <1>8. LeftEmpty'
    <2>1. /\ notifier.sender = "gone" => notifier' = notifier
          /\ logger.drainer = "gone" => logger' = logger
      BY DEF Channels, LeftEmpty
    <2>2. ASSUME NEW h \in Workers, pc'[h] = "gone"
          PROVE  ~pool'.open /\ pool'.tasks = 0
      <3>1. CASE h = g
        BY <2>2, <3>1 DEF Onward
      <3>2. CASE h # g
        <4>1. pc[h] = "gone"
          BY <1>0, <2>2, <3>2 DEF Elsewhere
        <4>2. ~pool.open /\ pool.tasks = 0
          BY <4>1 DEF LeftEmpty
        <4>3. QED
          BY <4>2 DEF Channels
      <3>3. QED
        BY <3>1, <3>2
    <2>3. QED
      BY <1>3, <2>1, <2>2 DEF LeftEmpty
  <1>9. SendsHoldLock'
    BY <1>3 DEF SendsHoldLock, Elsewhere, Onward
  <1>10. QED
    BY <1>1, <1>2, <1>4, <1>7, <1>8, <1>9

(* The sender of the mails and the drainer of the log.                     *)
LEMMA ConsumersKeep ==
    ASSUME ShutdownInv,
           MailerTakes \/ MailerSends \/ MailerLeaves \/ DrainerWrites \/ DrainerLeaves
    PROVE  ShutdownInv'
  <1> USE DEF ShutdownInv, ShutdownTypeOK, InPlace, FollowsPhase, WaitedFor,
              LeftEmpty, SendsHoldLock, Drained
  <1>1. CASE MailerTakes
    <2>1. /\ notifier.queued - 1 \in Nat
          /\ notifier' = [notifier EXCEPT !.queued = @ - 1, !.sender = "sending"]
          /\ UNCHANGED <<phase, expired, crashed, pc, after, pool, logger>>
      BY <1>1 DEF MailerTakes
    <2>2. notifier' \in [open : BOOLEAN, queued : Nat,
                         sender : {"idle", "sending", "gone"}]
      BY <2>1
    <2>3. notifier'.open = notifier.open /\ notifier'.sender = "sending"
      BY <2>1
    <2>4. phase \in NotifierGoneIn => expired
      BY <1>1 DEF MailerTakes
    <2>5. QED
      BY <2>1, <2>2, <2>3, <2>4
  <1>2. CASE MailerSends
    BY <1>2 DEF MailerSends, Alive
  <1>3. CASE MailerLeaves
    BY <1>3 DEF MailerLeaves, Alive
  <1>4. CASE DrainerWrites
    BY <1>4 DEF DrainerWrites, Alive
  <1>5. CASE DrainerLeaves
    BY <1>5 DEF DrainerLeaves, Alive
  <1>6. QED
    BY <1>1, <1>2, <1>3, <1>4, <1>5

(* Each phase begins with what the wait before it was for.                 *)
LEMMA PhasesKeep ==
    ASSUME ShutdownInv, StopScheduler \/ ShutdownStep \/ Expire
    PROVE  ShutdownInv'
  <1> USE DEF ShutdownInv, ShutdownTypeOK, InPlace, FollowsPhase, WaitedFor,
              LeftEmpty, SendsHoldLock, Drained, Step, Callers
  <1>1. CASE StopScheduler
    BY <1>1 DEF StopScheduler
  <1>2. CASE CloseTimers
    BY <1>2 DEF CloseTimers
  <1>3. CASE CloseServer
    BY <1>3 DEF CloseServer
  <1>4. CASE ServerClosed
    BY <1>4 DEF ServerClosed
  <1>5. CASE RefuseTasks
    BY <1>5 DEF RefuseTasks
  <1>6. CASE ClosePool
    BY <1>6 DEF ClosePool
  <1>7. CASE EndDrain
    BY <1>7 DEF EndDrain
  <1>8. CASE CloseNotifier
    BY <1>8 DEF CloseNotifier
  <1>9. CASE NotifierClosed
    BY <1>9 DEF NotifierClosed
  <1>10. CASE CloseLogger
    BY <1>10 DEF CloseLogger
  <1>11. CASE Exit
    BY <1>11 DEF Exit
  <1>12. CASE Expire
    BY <1>12 DEF Expire, Alive
  <1>13. QED
    BY <1>1, <1>2, <1>3, <1>4, <1>5, <1>6, <1>7, <1>8, <1>9, <1>10, <1>11, <1>12 DEF ShutdownStep

LEMMA NextKeeps ==
    ASSUME ShutdownInv, [Next]_vars
    PROVE  ShutdownInv'
  <1>1. CASE UNCHANGED vars
    BY <1>1 DEF vars, ShutdownInv, ShutdownTypeOK, InPlace, FollowsPhase,
                WaitedFor, LeftEmpty, SendsHoldLock, Drained
  <1>2. CASE StopScheduler \/ ShutdownStep \/ Expire
    BY <1>2, PhasesKeep
  <1>3. CASE \/ MailerTakes \/ MailerSends \/ MailerLeaves
             \/ DrainerWrites \/ DrainerLeaves
    BY <1>3, ConsumersKeep
  <1>4. ASSUME NEW g \in Callers,
               EntryStarts(g) \/ RequestArrives(g) \/ CallerStep(g)
        PROVE  ShutdownInv'
    <2>1. Elsewhere(g) /\ Onward(g) /\ Channels
      BY <1>4, CallerKind
    <2>2. QED
      BY <2>1, CallerKeeps
  <1>5. QED
    BY <1>1, <1>2, <1>3, <1>4 DEF Next

-----------------------------------------------------------------------------
(* The theorems *)

(* The inductive invariant of the shutdown.                                *)
THEOREM ShutdownInvariant == Spec => []ShutdownInv
  <1>1. Init => ShutdownInv
    BY InitialShutdown
  <1>2. ShutdownInv /\ [Next]_vars => ShutdownInv'
    BY NextKeeps
  <1>3. QED
    BY <1>1, <1>2, PTL DEF Spec

(* Whoever logs during a shutdown, however many callers there are: the     *)
(* write lock of Logger.Close waits for the senders, and the flag it sets  *)
(* under the lock keeps the next ones out.                                 *)
THEOREM NoSendOnClosedLog == Spec => []LogSendsOnOpenChannel
  <1>1. ShutdownInv => LogSendsOnOpenChannel
    BY DEF ShutdownInv, SendsHoldLock, LogSendsOnOpenChannel
  <1>2. QED
    BY <1>1, ShutdownInvariant, PTL

(* While the 90 seconds last, the order of app.shutdown is right: nothing  *)
(* that a request or a task can still need has been closed.                *)
THEOREM OrderIsRight == Spec => []EachStepAfterItsUsers
  <1>1. ShutdownInv => EachStepAfterItsUsers
    <2>1. SUFFICES ASSUME ShutdownInv, ~expired
                   PROVE  /\ pool.closed =>
                                \A g \in Requests : pc[g] \notin {"check", "send"}
                          /\ ~notifier.open =>
                                \A g \in Requests \cup Workers :
                                    "mail" \notin {pc[g], after[g]}
      BY DEF EachStepAfterItsUsers
    <2>2. pool.closed => \A g \in Requests : pc[g] = "idle"
      BY <2>1 DEF ShutdownInv, FollowsPhase, WaitedFor
    <2>3. ASSUME ~notifier.open, NEW g \in Requests \cup Workers
          PROVE  pc[g] \in {"idle", "gone"} /\ after[g] = "idle"
      <3>1. phase \in NotifierClosedIn
        BY <2>1, <2>3 DEF ShutdownInv, FollowsPhase
      <3>2. pc[g] \in {"idle", "gone"}
        BY <2>1, <3>1 DEF ShutdownInv, WaitedFor, Drained
      <3>3. QED
        BY <2>1, <3>2 DEF ShutdownInv, InPlace, Callers
    <2>4. QED
      BY <2>2, <2>3
  <1>2. QED
    BY <1>1, ShutdownInvariant, PTL

(* A shutdown that ends in time has run every task it accepted, sent every *)
(* mail and written every line: the last wait that each of them had is for *)
(* a goroutine that leaves only when its channel is empty.                 *)
THEOREM NothingAbandoned == Spec => []CleanExitKeepsAll
  <1>1. ShutdownInv => CleanExitKeepsAll
    <2>1. SUFFICES ASSUME ShutdownInv, phase = "exited", ~expired
                   PROVE  /\ pool.tasks = 0 /\ Drained
                          /\ notifier.queued = 0 /\ notifier.sender = "gone"
                          /\ logger.queued = 0
      BY DEF CleanExitKeepsAll
    <2>2. Drained /\ notifier.sender = "gone" /\ logger.drainer = "gone"
      BY <2>1 DEF ShutdownInv, WaitedFor
    <2>3. PICK w \in Workers : pc[w] = "gone"
      BY <2>2, ShutdownAssumption DEF Drained
    <2>4. QED
      BY <2>1, <2>2, <2>3 DEF ShutdownInv, LeftEmpty
  <1>2. QED
    BY <1>1, ShutdownInvariant, PTL
=============================================================================
