------------------------------ MODULE JobRows -------------------------------
(***************************************************************************)
(* A row of _ganso_live as the statements of queue.go see and change it:   *)
(* the columns, the WHERE clauses the operations share, and the SETs of a  *)
(* claim and a retry.  JobQueue builds the queue from them, Workers the    *)
(* programs that consume it.  Times are ticks; Null stands for SQL's NULL. *)
(***************************************************************************)
EXTENDS Integers

CONSTANTS
    WorkerID,           \* names passed as worker_id
    NoWorker,           \* the NULL worker_id
    VisibilityTimeout,  \* Queue.visibilityTimeout
    MaxAttempts         \* Queue.maxAttempts

ASSUME RowAssumption ==
    /\ NoWorker \notin WorkerID
    /\ VisibilityTimeout \in Nat \ {0}
    /\ MaxAttempts \in Nat

Null == -1

Row == [state : {"absent", "pending", "processing"}, priority : Int,
        runAt : Int, expiresAt : Int, worker : WorkerID \cup {NoWorker},
        claimExpiresAt : Int, attempts : Nat]

NoRow == [state |-> "absent", priority |-> 0, runAt |-> 0,
          expiresAt |-> Null, worker |-> NoWorker,
          claimExpiresAt |-> Null, attempts |-> 0]

(* The WHERE clauses the operations share. *)

Unexpired(r, now) == r.expiresAt = Null \/ r.expiresAt > now

DueAtOnce(r, now) == r.state = "pending"                   \* faulty: no run_at

Due(r, now) == r.state = "pending" /\ r.runAt <= now

LapsedAtExpiry(r, now) ==                                  \* faulty: <=
    r.state = "processing" /\ r.claimExpiresAt <= now

LapsedIfUnowned(r, now) ==                                 \* faulty: free rows only
    r.worker = NoWorker /\ LapsedAtExpiry(r, now)

Lapsed(r, now) == r.state = "processing" /\ r.claimExpiresAt < now

Claimable(r, now) == Unexpired(r, now) /\ (Due(r, now) \/ Lapsed(r, now))

OwnedByAnyone(r, w, now) == r.claimExpiresAt >= now        \* faulty: no worker_id

Owned(r, w, now) == r.worker = w /\ r.claimExpiresAt >= now

ExhaustedEarly(r) == r.attempts + 1 >= MaxAttempts         \* faulty: one too few

Exhausted(r) == r.attempts >= MaxAttempts

Present(r) == r.state # "absent"

(* ORDER BY priority DESC, run_at ASC; the ids that break ties are random. *)
Before(r, s) == \/ r.priority > s.priority
                \/ r.priority = s.priority /\ r.runAt < s.runAt

-----------------------------------------------------------------------------
ClaimedUncounted(r, w, now) ==                             \* faulty: not counted
    [r EXCEPT !.state = "processing", !.worker = w,
              !.claimExpiresAt = now + VisibilityTimeout]

ClaimedUnnamed(r, w, now) ==                               \* faulty: new state
    [ClaimedUncounted(r, w, now) EXCEPT !.state = "claimed"]

(* ClaimBatch's UPDATE, with the now() read when the call began. *)
Claimed(r, w, now) ==
    [r EXCEPT !.state = "processing", !.worker = w,
              !.claimExpiresAt = now + VisibilityTimeout,
              !.attempts = @ + 1]

(* Retry's UPDATE: back to pending, unowned. *)
Requeued(r, runAt) ==
    [r EXCEPT !.state = "pending", !.runAt = runAt,
              !.worker = NoWorker, !.claimExpiresAt = Null]

=============================================================================
