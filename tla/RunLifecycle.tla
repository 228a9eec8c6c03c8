---------------------------- MODULE RunLifecycle ----------------------------
(***************************************************************************)
(* What job_runs promises about one run, without replicas, queues or       *)
(* workers: "a row is created pending, claimed into running, and closed    *)
(* into a terminal state" (internal/domain/run.go), it is claimed once,    *)
(* and the one thing that may follow a terminal state is the late result   *)
(* of a run the watchdog has already given up on.                          *)
(***************************************************************************)
EXTENDS Naturals

CONSTANT RunIds

VARIABLES status, started

vars == <<status, started>>

Results == {"success", "failed", "timeout"}

Init ==
    /\ status = [r \in RunIds |-> "absent"]
    /\ started = [r \in RunIds |-> 0]

(* A run is recorded: to be done, or, for a chain step, as not to be done. *)
Open(r) ==
    /\ status[r] = "absent"
    /\ \E s \in {"pending", "skipped"} : status' = [status EXCEPT ![r] = s]
    /\ UNCHANGED started

Skip(r) ==
    /\ status[r] = "pending"
    /\ status' = [status EXCEPT ![r] = "skipped"]
    /\ UNCHANGED started

Start(r) ==
    /\ status[r] = "pending" /\ started[r] = 0
    /\ status' = [status EXCEPT ![r] = "running"]
    /\ started' = [started EXCEPT ![r] = 1]

(* The run's own result; late when the watchdog was first. *)
Close(r, result) ==
    /\ status[r] \in {"running", "timeout"}
    /\ status' = [status EXCEPT ![r] = result]
    /\ UNCHANGED started

(* The watchdog gives up on any number of runs at once. *)
GiveUpOn(S) ==
    /\ \A r \in S : status[r] = "running"
    /\ status' = [r \in RunIds |-> IF r \in S THEN "timeout" ELSE status[r]]
    /\ UNCHANGED started

Next ==
    \/ \E r \in RunIds : Open(r) \/ Skip(r) \/ Start(r)
    \/ \E r \in RunIds, result \in Results : Close(r, result)
    \/ \E S \in SUBSET RunIds : GiveUpOn(S)

Spec == Init /\ [][Next]_vars
=============================================================================
