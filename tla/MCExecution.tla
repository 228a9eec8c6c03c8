---------------------------- MODULE MCExecution ----------------------------
(* Instances of Execution for TLC. *)
EXTENDS Execution, TLC

CONSTANTS a, b   \* two jobs

(* a is started by the clock and, through b, by the chain: the links close *)
(* a cycle, and a success of a fires two of them.                          *)
CycleLinks ==
    {[from |-> a, to |-> b, cond |-> "success", delay |-> "direct"],
     [from |-> a, to |-> b, cond |-> "always",  delay |-> "long"],
     [from |-> b, to |-> a, cond |-> "failure", delay |-> "direct"]}

(* b, started by hand, hands over to the single_run job a. *)
OneLink == {[from |-> b, to |-> a, cond |-> "always", delay |-> "direct"]}

BFirst == [j \in Jobs |-> IF j = a THEN 1 ELSE 0]

FirstMinute == {<<a, 1>>}
BothMinutes == {<<a, 1>>, <<a, 2>>}

Symmetry == Permutations(Replicas) \cup Permutations(Slots)
=============================================================================
