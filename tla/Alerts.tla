------------------------------- MODULE Alerts -------------------------------
(***************************************************************************)
(* The watchdog's alert and its repeat suppression:                        *)
(* internal/service/watchdog.go over the heartbeat row of exec_repo.go,    *)
(* and the queue of notifier.go that the alert goes through.               *)
(*                                                                         *)
(* Each replica sweeps on its own.  A sweep reads the row on the way,      *)
(* decides on what it read, hands its mail over, and writes its mark back: *)
(* sweeps of two replicas overlap, problems come and go between them, and  *)
(* any statement may fail and become a warning itself.  The mail is lost   *)
(* when the queue is full, when the server refuses it or when the process  *)
(* ends, and the mark is written all the same.  A recipient and a mail     *)
(* server are configured, and what the stages of a sweep do to runs is in  *)
(* Execution.                                                              *)
(***************************************************************************)
EXTENDS Integers

CONSTANTS
    Problems,      \* what the stages of a sweep may find wrong
    Replicas,
    AlertRepeat,   \* in moments
    PerSecond,     \* moments in a second
    MaxSweeps, MaxClock

Unreadable == "heartbeat could not be read"
NeverRan == "the dispatcher has never run"
NoNote == [mark |-> {}, at |-> 0]

VARIABLES
    exists,    \* the heartbeat row is there: the dispatcher has run
    note,      \* its note column: the fingerprint of a set of warnings, and when
    wrong,     \* the problems there are at the moment
    sweep,     \* per replica
    clock,
    begun,     \* sweeps begun, a bound
    mails,     \* history: alerts handed over that wait or were sent
    lost       \* history: alerts handed over that nobody will get

mailVars == <<mails, lost>>
vars == <<exists, note, wrong, sweep, clock, begun, mailVars>>

Idle == [pc |-> "idle"]

Init ==
    /\ exists = FALSE
    /\ note = NoNote
    /\ wrong = {}
    /\ sweep = [r \in Replicas |-> Idle]
    /\ clock = AlertRepeat
    /\ begun = 0
    /\ mails = {} /\ lost = {}

Set(r, s) == sweep' = [sweep EXCEPT ![r] = s]

(* Problems appear and pass. *)
Change ==
    /\ \E w \in SUBSET Problems : w # wrong /\ wrong' = w
    /\ UNCHANGED <<exists, note, sweep, clock, begun, mailVars>>

(* TouchHeartbeat leaves the note alone. *)
TouchHeartbeat ==
    /\ ~exists /\ exists' = TRUE
    /\ UNCHANGED <<note, wrong, sweep, clock, begun, mailVars>>

Tick ==
    /\ clock < MaxClock /\ clock' = clock + 1
    /\ UNCHANGED <<exists, note, wrong, sweep, begun, mailVars>>

Warn(r, w, n) == Set(r, [pc |-> "alert", warnings |-> w, note |-> n])

(* Sweep: no stage stops another. The row is read, or its absence or the   *)
(* failure to read it is a warning among the others and the note unknown.  *)
Sweep(r) ==
    /\ sweep[r].pc = "idle" /\ begun < MaxSweeps
    /\ begun' = begun + 1
    /\ \/ Warn(r, wrong \cup {Unreadable}, NoNote)
       \/ exists /\ Warn(r, wrong, note)
       \/ ~exists /\ Warn(r, wrong \cup {NeverRan}, NoNote)
    /\ UNCHANGED <<exists, note, wrong, clock, mailVars>>

(* The last mail was less than AlertRepeat ago, whatever it said. *)
Suppressed_AnySet(w, n) == n # NoNote /\ clock - n.at < AlertRepeat

(* The same set, less than AlertRepeat ago. *)
Suppressed(w, n) == n # NoNote /\ n.mark = w /\ clock - n.at < AlertRepeat

(* alert: everything is well again. *)
AlertRecovered(r) ==
    /\ sweep[r].pc = "alert" /\ sweep[r].warnings = {}
    /\ Set(r, IF sweep[r].note = NoNote THEN Idle ELSE [pc |-> "mark", note |-> NoNote])
    /\ UNCHANGED <<exists, note, wrong, clock, begun, mailVars>>

(* Notifier.enqueue: a queue that mail about runs has filled drops the     *)
(* message, and its caller is not told.                                    *)
enqueue(m) ==
    \/ mails' = mails \cup {m} /\ UNCHANGED lost
    \/ lost' = lost \cup {m} /\ UNCHANGED mails

(* The mark carries the time of its own reading of the clock, cut down to  *)
(* the second by its format, whatever became of the mail.                  *)
Alert(r) ==
    LET w == sweep[r].warnings IN
    /\ sweep[r].pc = "alert" /\ w # {}
    /\ IF Suppressed(w, sweep[r].note)
       THEN Set(r, Idle) /\ UNCHANGED mailVars
       ELSE /\ enqueue([set |-> w, at |-> clock])
            /\ Set(r, [pc |-> "mark",
                       note |-> [mark |-> w, at |-> (clock \div PerSecond) * PerSecond]])
    /\ UNCHANGED <<exists, note, wrong, clock, begun>>

(* SetWarningMarker updates the row if there is one, or fails. *)
SetWarningMarker(r) ==
    /\ sweep[r].pc = "mark"
    /\ note' \in {note, IF exists THEN sweep[r].note ELSE note}
    /\ Set(r, Idle)
    /\ UNCHANGED <<exists, wrong, clock, begun, mailVars>>

(* Notifier.run tries a message once: one that the mail server refuses is  *)
(* gone, and so is one that its process leaves behind.  A message that is  *)
(* sent never takes this step.  A sweep that the end of its process cuts   *)
(* short is one that did not begin, or whose mark was not written.         *)
Lose(m) ==
    /\ mails' = mails \ {m} /\ lost' = lost \cup {m}
    /\ UNCHANGED <<exists, note, wrong, sweep, clock, begun>>

Next ==
    \/ Change \/ TouchHeartbeat \/ Tick
    \/ \E r \in Replicas : Sweep(r) \/ AlertRecovered(r) \/ Alert(r) \/ SetWarningMarker(r)
    \/ \E m \in mails : Lose(m)

Spec == Init /\ [][Next]_vars

---------------------------------------------------------------------------
(* The sweep ends without a word on its warnings. *)
HeldBack(r) ==
    sweep[r].pc = "alert" /\ sweep[r].warnings # {} /\ sweep'[r].pc = "idle"

Lately(m, r) == m.set = sweep[r].warnings /\ clock - m.at < AlertRepeat

(* "A NEW problem appearing during a quiet period has to get through       *)
(* immediately": a set of warnings is held back only if that very set was  *)
(* handed to the notifier of some replica less than AlertRepeat before.    *)
(* Not that it was mailed, as the reason given for the silence has it      *)
(* ("the same warnings were mailed %s ago"): the code loses mail without   *)
(* knowing, and without lost the formula is false.                         *)
HeldBackWasAlerted ==
    \A r \in Replicas : HeldBack(r) => \E m \in mails \cup lost : Lately(m, r)
=============================================================================
