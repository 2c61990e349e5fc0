----------------------------- MODULE MCJobQueue -----------------------------
(* Small instances of JobQueue for TLC. *)
EXTENDS JobQueue, TLC

CONSTANTS j1, j2, c1, c2, p1, p2, w1, w2

(* One handle; every consumer under a worker_id of its own. *)
MCProcessOf == [c \in Consumer |-> p1]

MCWorkerOf == [c \in Consumer |-> IF c = c1 THEN w1 ELSE w2]

(* Two handles on one file, a consumer behind each. *)
MCTwoProcessOf == [c \in Consumer |-> IF c = c1 THEN p1 ELSE p2]

(* The ids of jobs only name them: a permutation of them changes nothing. *)
Symmetry == Permutations(Job)

=============================================================================
