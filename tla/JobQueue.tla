------------------------------ MODULE JobQueue ------------------------------
(***************************************************************************)
(* The durable work queue of queue.go: one queue of the _ganso_live table, *)
(* its dead-letter table, and the consumers that claim jobs under a lease  *)
(* (the visibility timeout) and settle them.                               *)
(*                                                                         *)
(* Several Database handles ("processes") may have the file open.  Each    *)
(* serialises its own writes with writerMu; SQLite serialises single       *)
(* statements and IMMEDIATE transactions between them.  So an operation    *)
(* that is one statement or one transaction is one action here, and an     *)
(* operation that reads the clock or the table and writes later is split   *)
(* where the code lets another handle, another goroutine or time in:       *)
(*   ClaimBatch  reads now() | locks, SELECTs candidates | UPDATEs them    *)
(*   Ack         locks, reads now() | DELETEs                              *)
(*   Heartbeat   reads now() for the new expiry | locks, reads now()       *)
(*               again | UPDATEs                                           *)
(* The rows and the statements' WHERE clauses are JobRows'.                *)
(***************************************************************************)
EXTENDS JobRows, FiniteSets

CONSTANTS
    Job,                \* identifiers; uuid.New() never repeats one
    Consumer,           \* goroutines that claim and settle jobs
    Process,            \* Database handles open on the file
    processOf,          \* the handle a consumer works through
    workerOf,           \* the worker_id a consumer claims under
    Nobody,             \* the holder of a free writerMu
    Delays,             \* delays given to Enqueue and Retry
    TTLs,               \* Expires values given to Enqueue, 0 for none
    Priorities,         \* priorities given to Enqueue
    BatchSizes,         \* n of ClaimBatch; 1 is ClaimOne
    Extensions,         \* extendSec given to Heartbeat
    MaxTime             \* bound: the clock stops here

ASSUME ConsumerAssumption ==
    /\ processOf \in [Consumer -> Process]
    /\ workerOf \in [Consumer -> WorkerID]
    /\ Nobody \notin Consumer

ASSUME ParameterAssumption ==
    /\ Delays \subseteq Int
    /\ TTLs \subseteq Nat
    /\ Priorities \subseteq Int
    /\ BatchSizes \subseteq Nat \ {0}
    /\ Extensions \subseteq Nat
    /\ MaxTime \in Nat

VARIABLES
    clock,       \* the time now() reads
    live,        \* _ganso_live, a row per job (NoRow when it has none)
    dead,        \* _ganso_dead, a row per job (NoGrave when it has none)
    writerMu,    \* the holder of each handle's writerMu
    call,        \* the operation each consumer is in the middle of
    lease,       \* lease[c][j]: the expiry c was last told for its claim on
                 \*   j, from the Job it was handed or its last Heartbeat;
                 \*   Null when c holds no handle to j
    fate,        \* history: what became of each job
    deliveries   \* history: how often each job was handed to a consumer

tables == <<live, dead>>
history == <<fate, deliveries>>
vars == <<clock, live, dead, writerMu, call, lease, fate, deliveries>>

Grave == [cause : {"none", "exhausted", "failed", "expired"}, attempts : Nat]

NoGrave == [cause |-> "none", attempts |-> 0]

Call == [op : {"idle", "claim", "selected", "ack", "extend", "extending"},
         now : Nat, until : Nat, size : Nat, jobs : SUBSET Job]

Idle == [op |-> "idle", now |-> 0, until |-> 0, size |-> 0, jobs |-> {}]

Fates == {"unborn", "queued", "acked", "cancelled", "dead"}

TypeOK ==
    /\ clock \in Nat
    /\ live \in [Job -> Row]
    /\ dead \in [Job -> Grave]
    /\ writerMu \in [Process -> Consumer \cup {Nobody}]
    /\ call \in [Consumer -> Call]
    /\ lease \in [Consumer -> [Job -> Int]]
    /\ fate \in [Job -> Fates]
    /\ deliveries \in [Job -> Nat]

Init ==
    /\ clock = 0
    /\ live = [j \in Job |-> NoRow]
    /\ dead = [j \in Job |-> NoGrave]
    /\ writerMu = [p \in Process |-> Nobody]
    /\ call = [c \in Consumer |-> Idle]
    /\ lease = [c \in Consumer |-> [j \in Job |-> Null]]
    /\ fate = [j \in Job |-> "unborn"]
    /\ deliveries = [j \in Job |-> 0]

-----------------------------------------------------------------------------
AnyOf(S, n) ==                                             \* faulty: no ORDER BY
    {P \in SUBSET S :
        Cardinality(P) = IF Cardinality(S) < n THEN Cardinality(S) ELSE n}

(* The sets ORDER BY ... LIMIT n may return from the rows of S. *)
FirstOf(S, n) ==
    {P \in SUBSET S :
        /\ Cardinality(P) = IF Cardinality(S) < n THEN Cardinality(S) ELSE n
        /\ \A p \in P, q \in S \ P : ~Before(live[q], live[p])}

-----------------------------------------------------------------------------
(* writerMu and the calls that hold it over several statements. *)

WriterFree(p) == writerMu[p] = Nobody

Locked(c) == call[c].op \in {"selected", "ack", "extending"}

Lock(c) == writerMu' = [writerMu EXCEPT ![processOf[c]] = c]

Unlock(c) == writerMu' = [writerMu EXCEPT ![processOf[c]] = Nobody]

Begin(c, record) == call' = [call EXCEPT ![c] = record]

Return(c) == call' = [call EXCEPT ![c] = Idle]

Handles(c) == {j \in Job : lease[c][j] # Null}

Drop(c, S) ==
    lease' = [lease EXCEPT ![c] = [j \in Job |-> IF j \in S THEN Null ELSE @[j]]]

-----------------------------------------------------------------------------
(* Queue.Enqueue and EnqueueTx, once the transaction commits. *)
Enqueue(p, j, delay, ttl, priority) ==
    /\ WriterFree(p)
    /\ fate[j] = "unborn"
    /\ live' = [live EXCEPT ![j] =
          [NoRow EXCEPT !.state = "pending", !.priority = priority,
                        !.runAt = clock + delay,
                        !.expiresAt = IF ttl > 0 THEN clock + ttl ELSE Null]]
    /\ fate' = [fate EXCEPT ![j] = "queued"]
    /\ UNCHANGED <<clock, dead, writerMu, call, lease, deliveries>>

(* ClaimBatch reads now() for both its cut-off and the new expiry before   *)
(* it waits for writerMu.                                                  *)
ClaimBegin(c, n) ==
    /\ call[c] = Idle
    /\ Begin(c, [Idle EXCEPT !.op = "claim", !.now = clock, !.size = n])
    /\ UNCHANGED <<clock, tables, writerMu, lease, history>>

Candidates(now) == {j \in Job : Claimable(live[j], now)}

(* Step 1 of ClaimBatch finds nothing: it returns nil and unlocks. *)
ClaimNone(c) ==
    /\ call[c].op = "claim"
    /\ WriterFree(processOf[c])
    /\ Candidates(call[c].now) = {}
    /\ Return(c)
    /\ UNCHANGED <<clock, tables, writerMu, lease, history>>

(* Step 1 of ClaimBatch: SELECT the ids, keeping writerMu. *)
ClaimSelect(c) ==
    /\ call[c].op = "claim"
    /\ WriterFree(processOf[c])
    /\ \E picked \in FirstOf(Candidates(call[c].now), call[c].size) :
          /\ picked # {}
          /\ Begin(c, [call[c] EXCEPT !.op = "selected", !.jobs = picked])
    /\ Lock(c)
    /\ UNCHANGED <<clock, tables, lease, history>>

(* Step 2 and 3 of ClaimBatch: UPDATE ... WHERE id IN (the ids selected),  *)
(* whatever their rows are by now, and hand over what it RETURNs.          *)
Taken(c) == {j \in call[c].jobs : Present(live[j])}

ClaimedRow(r, c) == Claimed(r, workerOf[c], call[c].now)

ClaimUpdate(c) ==
    /\ call[c].op = "selected"
    /\ live' = [j \in Job |->
                   IF j \in Taken(c) THEN ClaimedRow(live[j], c) ELSE live[j]]
    /\ lease' = [lease EXCEPT ![c] = [j \in Job |->
                   IF j \in Taken(c) THEN call[c].now + VisibilityTimeout
                                     ELSE @[j]]]
    /\ deliveries' = [j \in Job |->
                   IF j \in Taken(c) THEN deliveries[j] + 1 ELSE deliveries[j]]
    /\ Unlock(c)
    /\ Return(c)
    /\ UNCHANGED <<clock, dead, fate>>

-----------------------------------------------------------------------------
(* Ack and AckBatch: now() is read under writerMu, and the DELETE may      *)
(* still wait for another handle's transaction.                            *)
AckBegin(c, S) ==
    /\ call[c] = Idle
    /\ WriterFree(processOf[c])
    /\ S \subseteq Handles(c) /\ S # {}
    /\ Begin(c, [Idle EXCEPT !.op = "ack", !.now = clock, !.jobs = S])
    /\ Lock(c)
    /\ UNCHANGED <<clock, tables, lease, history>>

AckExec(c) ==
    LET acked == {j \in call[c].jobs : Owned(live[j], workerOf[c], call[c].now)}
    IN  /\ call[c].op = "ack"
        /\ live' = [j \in Job |-> IF j \in acked THEN NoRow ELSE live[j]]
        /\ fate' = [j \in Job |-> IF j \in acked THEN "acked" ELSE fate[j]]
        /\ Drop(c, call[c].jobs)
        /\ Unlock(c)
        /\ Return(c)
        /\ UNCHANGED <<clock, dead, deliveries>>

BuryCopy(S, cause) ==                                      \* faulty: no DELETE
    /\ dead' = [j \in Job |->
                   IF j \in S THEN [cause |-> cause, attempts |-> live[j].attempts]
                              ELSE dead[j]]
    /\ fate' = [j \in Job |-> IF j \in S THEN "dead" ELSE fate[j]]
    /\ live' = live

(* A row leaves the live table for the dead-letter table in one            *)
(* transaction: DELETE and insertDead.                                     *)
Bury(S, cause) ==
    /\ live' = [j \in Job |-> IF j \in S THEN NoRow ELSE live[j]]
    /\ dead' = [j \in Job |->
                   IF j \in S THEN [cause |-> cause, attempts |-> live[j].attempts]
                              ELSE dead[j]]
    /\ fate' = [j \in Job |-> IF j \in S THEN "dead" ELSE fate[j]]

(* What Retry and Fail check before they act for consumer c on its job. *)
MaySettle(c, j) ==
    /\ call[c] = Idle
    /\ WriterFree(processOf[c])
    /\ j \in Handles(c)

OwnsNow(c, j) == Owned(live[j], workerOf[c], clock)

(* Retry with attempts left: back to pending, unowned. *)
RetryAgain(c, j, delay) ==
    /\ MaySettle(c, j)
    /\ OwnsNow(c, j) /\ live[j].state = "processing"
    /\ ~Exhausted(live[j])
    /\ live' = [live EXCEPT ![j] = Requeued(@, clock + delay)]
    /\ Drop(c, {j})
    /\ UNCHANGED <<clock, dead, writerMu, call, history>>

(* Retry with the attempts used up: to the dead-letter table. *)
RetryExhausted(c, j) ==
    /\ MaySettle(c, j)
    /\ OwnsNow(c, j) /\ live[j].state = "processing"
    /\ Exhausted(live[j])
    /\ Bury({j}, "exhausted")
    /\ Drop(c, {j})
    /\ UNCHANGED <<clock, writerMu, call, deliveries>>

Fail(c, j) ==
    /\ MaySettle(c, j)
    /\ OwnsNow(c, j)
    /\ Bury({j}, "failed")
    /\ Drop(c, {j})
    /\ UNCHANGED <<clock, writerMu, call, deliveries>>

(* Retry or Fail finds no row that is still c's: it returns false. *)
SettleLost(c, j) ==
    /\ MaySettle(c, j)
    /\ ~OwnsNow(c, j)
    /\ Drop(c, {j})
    /\ UNCHANGED <<clock, tables, writerMu, call, history>>

-----------------------------------------------------------------------------
(* Heartbeat computes the new expiry before it waits for writerMu. *)
HeartbeatBegin(c, j, extend) ==
    /\ call[c] = Idle
    /\ j \in Handles(c)
    /\ Begin(c, [Idle EXCEPT !.op = "extend", !.until = clock + extend,
                             !.jobs = {j}])
    /\ UNCHANGED <<clock, tables, writerMu, lease, history>>

HeartbeatLock(c) ==
    /\ call[c].op = "extend"
    /\ WriterFree(processOf[c])
    /\ Begin(c, [call[c] EXCEPT !.op = "extending", !.now = clock])
    /\ Lock(c)
    /\ UNCHANGED <<clock, tables, lease, history>>

HeartbeatExec(c) ==
    LET extended == {j \in call[c].jobs :
                        Owned(live[j], workerOf[c], call[c].now)}
    IN  /\ call[c].op = "extending"
        /\ live' = [j \in Job |->
              IF j \in extended
              THEN [live[j] EXCEPT !.claimExpiresAt = call[c].until]
              ELSE live[j]]
        /\ lease' = [lease EXCEPT ![c] = [j \in Job |->
              IF j \in extended THEN call[c].until
              ELSE IF j \in call[c].jobs THEN Null ELSE @[j]]]
        /\ Unlock(c)
        /\ Return(c)
        /\ UNCHANGED <<clock, dead, history>>

-----------------------------------------------------------------------------
(* Cancel removes a job in any state. *)
Cancel(p, j) ==
    /\ WriterFree(p)
    /\ Present(live[j])
    /\ live' = [live EXCEPT ![j] = NoRow]
    /\ fate' = [fate EXCEPT ![j] = "cancelled"]
    /\ UNCHANGED <<clock, dead, writerMu, call, lease, deliveries>>

(* SweepExpired buries every row past its expires_at, claimed or not. *)
SweepExpired(p) ==
    LET expired == {j \in Job : /\ Present(live[j])
                                /\ live[j].expiresAt # Null
                                /\ live[j].expiresAt < clock}
    IN  /\ WriterFree(p)
        /\ expired # {}
        /\ Bury(expired, "expired")
        /\ UNCHANGED <<clock, writerMu, call, lease, deliveries>>

(* A statement of a call that holds writerMu fails (SQLITE_BUSY after the  *)
(* busy timeout, an I/O error): the call returns the error, nothing is     *)
(* written, and the deferred Unlock runs.                                  *)
CallFails(c) ==
    /\ Locked(c)
    /\ Unlock(c)
    /\ Return(c)
    /\ UNCHANGED <<clock, tables, lease, history>>

(* A process dies: its calls and the handles of its consumers are gone,    *)
(* the tables stay.                                                        *)
Crash(p) ==
    /\ writerMu' = [writerMu EXCEPT ![p] = Nobody]
    /\ call' = [c \in Consumer |-> IF processOf[c] = p THEN Idle ELSE call[c]]
    /\ lease' = [c \in Consumer |->
                    IF processOf[c] = p THEN [j \in Job |-> Null] ELSE lease[c]]
    /\ UNCHANGED <<clock, tables, history>>

Tick ==
    /\ clock < MaxTime
    /\ clock' = clock + 1
    /\ UNCHANGED <<tables, writerMu, call, lease, history>>

-----------------------------------------------------------------------------
ProducerStep(p) ==
    \/ \E j \in Job, d \in Delays, t \in TTLs, pr \in Priorities :
          Enqueue(p, j, d, t, pr)
    \/ \E j \in Job : Cancel(p, j)
    \/ SweepExpired(p)
    \/ Crash(p)

ConsumerStep(c) ==
    \/ \E n \in BatchSizes : ClaimBegin(c, n)
    \/ ClaimNone(c)
    \/ ClaimSelect(c)
    \/ ClaimUpdate(c)
    \/ \E S \in SUBSET Job : AckBegin(c, S)
    \/ AckExec(c)
    \/ \E j \in Job, d \in Delays : RetryAgain(c, j, d)
    \/ \E j \in Job : RetryExhausted(c, j)
    \/ \E j \in Job : Fail(c, j)
    \/ \E j \in Job : SettleLost(c, j)
    \/ \E j \in Job, e \in Extensions : HeartbeatBegin(c, j, e)
    \/ HeartbeatLock(c)
    \/ HeartbeatExec(c)
    \/ CallFails(c)

Next ==
    \/ \E p \in Process : ProducerStep(p)
    \/ \E c \in Consumer : ConsumerStep(c)
    \/ Tick

Spec == Init /\ [][Next]_vars

-----------------------------------------------------------------------------
(* The settings under which the queue keeps the promises below: all the    *)
(* consumers share one Database handle, and no two use one worker_id.      *)

OneHandle == \A p, q \in Process : p = q

OwnNames == \A c, d \in Consumer : c # d => workerOf[c] # workerOf[d]

-----------------------------------------------------------------------------
(* Safety. *)

(* A job that was enqueued is in exactly one place: in the live table, in  *)
(* the dead-letter table, or gone because it was acknowledged or cancelled *)
(* (queue.go: no Ack, Retry, Fail, sweep or failed call loses a job or     *)
(* leaves it in both tables).                                              *)
ExactlyOnePlace ==
    \A j \in Job :
        /\ Present(live[j]) <=> fate[j] = "queued"
        /\ dead[j].cause # "none" <=> fate[j] = "dead"

(* The attempts column counts the deliveries, over every reclaim and       *)
(* retry, and the dead-letter row keeps the count.                         *)
AttemptsAreDeliveries ==
    \A j \in Job :
        /\ Present(live[j]) => live[j].attempts = deliveries[j]
        /\ dead[j].cause # "none" => dead[j].attempts = deliveries[j]

(* Retry buries a job only when its attempts are used up: a job dead for   *)
(* that reason was delivered MaxAttempts times at least.                   *)
DeadOnlyWhenSpent ==
    \A j \in Job : /\ dead[j].cause = "exhausted" => deliveries[j] >= MaxAttempts
                   /\ dead[j].cause # "expired" /\ fate[j] = "dead"
                         => deliveries[j] > 0

Holds(c, j) == lease[c][j] >= clock

Revoked(j) == fate[j] = "cancelled" \/ dead[j].cause = "expired"

(* A visibility timeout is a lease: while the claim a consumer was told of *)
(* has not run out, no other consumer holds the same job.                  *)
ExclusiveLease ==
    \A c, d \in Consumer, j \in Job : Holds(c, j) /\ Holds(d, j) => c = d

(* What a consumer believes of its claim is what the table says: until the *)
(* expiry it was told, the row is there, under its worker_id, with that    *)
(* expiry, so its Ack, Retry, Fail or Heartbeat succeeds, unless the job   *)
(* was cancelled or swept behind its back.                                 *)
LeaseBacked ==
    \A c \in Consumer, j \in Job :
        Holds(c, j) =>
            \/ Revoked(j)
            \/ /\ live[j].state = "processing"
               /\ live[j].worker = workerOf[c]
               /\ live[j].claimExpiresAt = lease[c][j]

(* The steps between ClaimBatch's SELECT and its UPDATE. *)
SelectionStands ==
    \A c \in Consumer :
        call[c].op = "selected" =>
            \A j \in call[c].jobs : Claimable(live[j], call[c].now)

(* writerMu is held exactly by a call that is between two statements. *)
MutexHeldByCall ==
    \A p \in Process, c \in Consumer :
        writerMu[p] = c <=> p = processOf[c] /\ Locked(c)

CallsArePast == \A c \in Consumer : call[c].now <= clock

(* A row that is not being processed has no claim on it. *)
RowShape ==
    \A j \in Job :
        live[j].state # "processing" =>
            live[j].worker = NoWorker /\ live[j].claimExpiresAt = Null

(* A selection is the best that could be claimed when the call began. *)
SelectionFirst ==
    \A c \in Consumer :
        call[c].op = "selected" =>
            \A j \in call[c].jobs, k \in Candidates(call[c].now) \ call[c].jobs :
                ~Before(live[k], live[j])

(* What one handle is enough for: the inductive invariant behind           *)
(* NeverEarly, ClaimsInOrder and ImplementsWorkQueue.                      *)
QueueInv ==
    /\ TypeOK
    /\ ExactlyOnePlace
    /\ RowShape
    /\ MutexHeldByCall
    /\ CallsArePast
    /\ SelectionStands
    /\ SelectionFirst

(* The inductive invariant behind ExclusiveLease and LeaseBacked, for      *)
(* consumers under names of their own.                                     *)
LeaseInv ==
    /\ QueueInv
    /\ LeaseBacked
    /\ ExclusiveLease

-----------------------------------------------------------------------------
(* What a step may never do. *)

Delivered(j) == deliveries'[j] > deliveries[j]

(* No job is handed out before it is due, and none while the claim on it   *)
(* is still good: the cut-off of ClaimBatch is never ahead of the clock,   *)
(* and its rows do not change between SELECT and UPDATE.                   *)
NeverEarly ==
    [][\A j \in Job : Delivered(j) =>
          \/ live[j].state = "pending" /\ live[j].runAt <= clock
          \/ live[j].state = "processing" /\ live[j].claimExpiresAt < clock]_vars

(* A claimed job leaves "processing" only through the consumer whose claim *)
(* the row records, or by Cancel or the sweep: a consumer whose claim was  *)
(* taken over changes nothing.                                             *)
OnlyTheHolderSettles ==
    [][\A j \in Job :
          live[j].state = "processing" /\ live'[j].state # "processing" =>
              \/ fate'[j] = "cancelled"
              \/ dead'[j].cause = "expired"
              \/ \E c \in Consumer :
                    /\ workerOf[c] = live[j].worker
                    /\ lease[c][j] = live[j].claimExpiresAt
                    /\ lease'[c][j] = Null]_vars

(* ClaimBatch takes the best jobs: it leaves behind no claimable job that  *)
(* ORDER BY puts before one it takes.                                      *)
ClaimsInOrder ==
    [][\A c \in Consumer, j, k \in Job :
          /\ call[c].op = "selected" /\ call'[c] = Idle
          /\ Delivered(j) /\ ~Delivered(k)
          /\ Claimable(live[k], call[c].now)
          => ~Before(live[k], live[j])]_vars

-----------------------------------------------------------------------------
(* The table refines the abstract queue of leases: seen through the row    *)
(* and the fate of each job, every step of one handle's consumers is a     *)
(* step of WorkQueue or changes nothing there.                             *)
StatusOf(j) ==
    CASE fate[j] = "unborn"    -> "new"
      [] fate[j] = "acked"     -> "finished"
      [] fate[j] = "cancelled" -> "withdrawn"
      [] fate[j] = "dead"      -> "buried"
      [] OTHER -> IF live[j].state = "pending" THEN "waiting" ELSE "leased"

WQ == INSTANCE WorkQueue WITH
    Holder   <- WorkerID,
    NoHolder <- NoWorker,
    None     <- Null,
    time     <- clock,
    status   <- [j \in Job |-> StatusOf(j)],
    holder   <- [j \in Job |-> live[j].worker],
    readyAt  <- [j \in Job |-> live[j].runAt],
    until    <- [j \in Job |-> live[j].claimExpiresAt]

(* Consumers of one handle get the abstract queue's promise: a claim takes *)
(* only ready jobs and lapsed leases, and only the holder of a lease ends  *)
(* it (queue.go, ClaimBatch to SweepExpired).                              *)
ImplementsWorkQueue == WQ!Spec

=============================================================================
