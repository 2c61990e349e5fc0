---------------------------- MODULE MCScheduler -----------------------------
(* Small instances of Scheduler for TLC. *)
EXTENDS Scheduler, TLC

CONSTANTS s1, s2, cron, every, tiny

(* A cron task every two seconds; Every(1.5s), stored as "@every 1s"; and  *)
(* Every(0.5s), stored as "@every 0s".                                     *)
MCPeriod ==
    [t \in Task |-> IF t = cron THEN 2 * Sub ELSE IF t = every THEN 3 ELSE 1]

(* The calls of Run differ in their name only. *)
Symmetry == Permutations(Scheduler)

=============================================================================
