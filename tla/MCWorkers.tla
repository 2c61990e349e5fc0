----------------------------- MODULE MCWorkers ------------------------------
(* Small instances of Workers for TLC. *)
EXTENDS Workers

CONSTANTS j1, j2, l1, l2, w1, w2, w3

(* Each loop under a worker_id of its own, as long as it is no outbox's. *)
MCOwnName == [l \in Loop |-> IF l = l1 THEN w1 ELSE w2]

=============================================================================
