---------------------------- MODULE MCScheduling ----------------------------
(* An instance of Scheduling for TLC. *)
EXTENDS Scheduling, TLC

CONSTANTS a, b, c   \* a without run_missed, b held back by its max_delay_min,
                    \* c by the scan

DueMinutes == {<<a, 3>>, <<c, 2>>} \cup ({b} \X (2..LastMinute))
Delays == a :> 9 @@ b :> 1 @@ c :> 9
Interchangeable == Permutations(Replicas \ DryRunners)
EitherWay == {-1, 0, 1}
=============================================================================
