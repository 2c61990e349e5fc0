--------------------------- MODULE JobQueueProofs ---------------------------
(* What JobQueue keeps for every set of jobs and consumers and every       *)
(* setting of its parameters.                                              *)
EXTENDS JobQueue, TLAPS

-----------------------------------------------------------------------------
(* Type correctness. *)

USE DEF Null

LEMMA RowTypes ==
    /\ NoRow \in Row
    /\ NoGrave \in Grave
    /\ Idle \in Call
    /\ Null \in Int
BY DEF NoRow, Row, NoGrave, Grave, Idle, Call

(* Every variable starts with a value of its type. *)
LEMMA InitType == Init => TypeOK
BY ConsumerAssumption, RowAssumption, RowTypes DEF Init, TypeOK, Fates

(* A row stays a row when one column takes another value of its type. *)
LEMMA RowColumns ==
    ASSUME NEW r \in Row
    PROVE  /\ \A v \in {"absent", "pending", "processing"} :
                 [r EXCEPT !.state = v] \in Row
           /\ \A v \in Int : /\ [r EXCEPT !.priority = v] \in Row
                             /\ [r EXCEPT !.runAt = v] \in Row
                             /\ [r EXCEPT !.expiresAt = v] \in Row
                             /\ [r EXCEPT !.claimExpiresAt = v] \in Row
           /\ \A v \in WorkerID \cup {NoWorker} : [r EXCEPT !.worker = v] \in Row
           /\ \A v \in Nat : [r EXCEPT !.attempts = v] \in Row
BY DEF Row

LEMMA ClaimedRowType ==
    ASSUME NEW r \in Row, NEW c \in Consumer, call[c] \in Call
    PROVE  ClaimedRow(r, c) \in Row
<1>1. [r EXCEPT !.state = "processing"] \in Row
  BY RowColumns
<1>2. [[r EXCEPT !.state = "processing"] EXCEPT !.worker = workerOf[c]] \in Row
  BY <1>1, RowColumns, ConsumerAssumption, RowAssumption
<1>3. call[c].now + VisibilityTimeout \in Int /\ r.attempts + 1 \in Nat
  BY ParameterAssumption, RowAssumption DEF Call, Row
<1>4. [r EXCEPT !.state = "processing", !.worker = workerOf[c],
                !.claimExpiresAt = call[c].now + VisibilityTimeout] \in Row
  BY <1>2, <1>3, RowColumns
<1>5. QED
  BY <1>3, <1>4, RowColumns DEF ClaimedRow, Claimed

(* A call stays a call when what it keeps in mind changes. *)
LEMMA CallColumns ==
    ASSUME NEW k \in Call
    PROVE  /\ \A v \in {"idle", "claim", "selected", "ack", "extend", "extending"} :
                 [k EXCEPT !.op = v] \in Call
           /\ \A v \in Nat : [k EXCEPT !.now = v] \in Call
           /\ \A v \in SUBSET Job : [k EXCEPT !.jobs = v] \in Call
BY DEF Call

LEMMA BuryType ==
    ASSUME TypeOK, NEW S, NEW cause \in {"exhausted", "failed", "expired"},
           Bury(S, cause)
    PROVE  /\ live' \in [Job -> Row]
           /\ dead' \in [Job -> Grave]
           /\ fate' \in [Job -> Fates]
BY RowTypes DEF TypeOK, Bury, Row, Grave, Fates

(* No operation of a producer, and no crash, leaves the types. *)
LEMMA ProducerType ==
    ASSUME TypeOK, NEW p \in Process, ProducerStep(p)
    PROVE  TypeOK'
<1>1. ASSUME NEW j \in Job, NEW d \in Delays, NEW t \in TTLs,
             NEW pr \in Priorities, Enqueue(p, j, d, t, pr)
      PROVE  TypeOK'
  <2>1. [NoRow EXCEPT !.state = "pending", !.priority = pr,
                      !.runAt = clock + d,
                      !.expiresAt = IF t > 0 THEN clock + t ELSE Null] \in Row
    <3>1. clock + d \in Int /\ (IF t > 0 THEN clock + t ELSE Null) \in Int /\ pr \in Int
      BY ParameterAssumption, RowAssumption DEF TypeOK
    <3>2. [NoRow EXCEPT !.state = "pending", !.priority = pr] \in Row
      BY <3>1, RowTypes, RowColumns
    <3>3. [NoRow EXCEPT !.state = "pending", !.priority = pr,
                        !.runAt = clock + d] \in Row
      BY <3>1, <3>2, RowColumns
    <3>4. QED
      BY <3>1, <3>3, RowColumns
  <2>2. live' \in [Job -> Row] /\ fate' \in [Job -> Fates]
    BY <1>1, <2>1 DEF TypeOK, Enqueue, Fates
  <2>3. QED
    BY <1>1, <2>2 DEF TypeOK, Enqueue
<1>2. ASSUME NEW j \in Job, Cancel(p, j)
      PROVE  TypeOK'
  BY <1>2, RowTypes DEF TypeOK, Cancel, Fates
<1>3. CASE SweepExpired(p)
  BY <1>3, BuryType DEF TypeOK, SweepExpired
<1>4. CASE Crash(p)
  BY <1>4, RowTypes DEF TypeOK, Crash, tables, history
<1>5. QED
  BY <1>1, <1>2, <1>3, <1>4 DEF ProducerStep

(* Nor does any step of a consumer. *)
LEMMA ConsumerType ==
    ASSUME TypeOK, NEW c \in Consumer, ConsumerStep(c)
    PROVE  TypeOK'
<1>. USE ConsumerAssumption, RowAssumption
<1>1. ASSUME NEW n \in BatchSizes, ClaimBegin(c, n)
      PROVE  TypeOK'
  BY <1>1, ParameterAssumption, RowAssumption DEF TypeOK, ClaimBegin, Begin, Idle, Call,
     tables, history
<1>2. CASE ClaimNone(c)
  BY <1>2, RowTypes DEF TypeOK, ClaimNone, Return, tables, history
<1>3. CASE ClaimSelect(c)
  <2>1. PICK picked \in FirstOf(Candidates(call[c].now), call[c].size) :
           Begin(c, [call[c] EXCEPT !.op = "selected", !.jobs = picked])
    BY <1>3 DEF ClaimSelect
  <2>2. picked \subseteq Job
    BY DEF FirstOf, Candidates
  <2>3. [call[c] EXCEPT !.op = "selected", !.jobs = picked] \in Call
    <3>1. call[c] \in Call
      BY DEF TypeOK
    <3>2. [call[c] EXCEPT !.op = "selected"] \in Call
      BY <3>1, CallColumns
    <3>3. QED
      BY <2>2, <3>2, CallColumns
  <2>4. call' \in [Consumer -> Call]
    BY <2>1, <2>3 DEF TypeOK, Begin
  <2>5. QED
    BY <1>3, <2>4 DEF TypeOK, ClaimSelect, Lock, tables, history
<1>4. CASE ClaimUpdate(c)
  <2>1. live' \in [Job -> Row]
    BY <1>4, ClaimedRowType DEF TypeOK, ClaimUpdate
  <2>2. lease' \in [Consumer -> [Job -> Int]] /\ deliveries' \in [Job -> Nat]
    BY <1>4, ParameterAssumption, RowAssumption DEF TypeOK, ClaimUpdate, Call
  <2>3. call' \in [Consumer -> Call] /\ writerMu' \in [Process -> Consumer \cup {Nobody}]
    BY <1>4, RowTypes DEF TypeOK, ClaimUpdate, Unlock, Return
  <2>4. QED
    BY <1>4, <2>1, <2>2, <2>3 DEF TypeOK, ClaimUpdate
<1>5. ASSUME NEW S \in SUBSET Job, AckBegin(c, S)
      PROVE  TypeOK'
  BY <1>5 DEF TypeOK, AckBegin, Begin, Lock, Idle, Call, tables, history
<1>6. CASE AckExec(c)
  BY <1>6, RowTypes DEF TypeOK, AckExec, Drop, Unlock, Return, Fates
<1>7. ASSUME NEW j \in Job, NEW d \in Delays, RetryAgain(c, j, d)
      PROVE  TypeOK'
  <2>1. [live[j] EXCEPT !.state = "pending", !.runAt = clock + d,
                        !.worker = NoWorker, !.claimExpiresAt = Null] \in Row
    <3>1. clock + d \in Int /\ live[j] \in Row /\ Null \in Int
      BY ParameterAssumption, RowAssumption DEF TypeOK
    <3>2. [live[j] EXCEPT !.state = "pending", !.runAt = clock + d] \in Row
      BY <3>1, RowColumns
    <3>3. [live[j] EXCEPT !.state = "pending", !.runAt = clock + d,
                          !.worker = NoWorker] \in Row
      BY <3>2, RowColumns
    <3>4. QED
      BY <3>1, <3>3, RowColumns
  <2>2. live' \in [Job -> Row]
    BY <1>7, <2>1 DEF TypeOK, RetryAgain, Requeued
  <2>3. lease' \in [Consumer -> [Job -> Int]]
    BY <1>7 DEF TypeOK, RetryAgain, Requeued, Drop
  <2>4. QED
    BY <1>7, <2>2, <2>3 DEF TypeOK, RetryAgain, Requeued, history
<1>8. ASSUME NEW j \in Job, RetryExhausted(c, j)
      PROVE  TypeOK'
  BY <1>8, BuryType DEF TypeOK, RetryExhausted, Drop
<1>9. ASSUME NEW j \in Job, Fail(c, j)
      PROVE  TypeOK'
  BY <1>9, BuryType DEF TypeOK, Fail, Drop
<1>10. ASSUME NEW j \in Job, SettleLost(c, j)
       PROVE  TypeOK'
  BY <1>10 DEF TypeOK, SettleLost, Drop, tables, history
<1>11. ASSUME NEW j \in Job, NEW e \in Extensions, HeartbeatBegin(c, j, e)
       PROVE  TypeOK'
  <2>1. [Idle EXCEPT !.op = "extend", !.until = clock + e, !.jobs = {j}] \in Call
    <3>1. clock + e \in Nat
      BY ParameterAssumption, RowAssumption DEF TypeOK
    <3>2. QED
      BY <3>1 DEF Idle, Call
  <2>2. QED
    BY <1>11, <2>1 DEF TypeOK, HeartbeatBegin, Begin, tables, history
<1>12. CASE HeartbeatLock(c)
  <2>1. [call[c] EXCEPT !.op = "extending", !.now = clock] \in Call
    <3>1. call[c] \in Call /\ clock \in Nat
      BY DEF TypeOK
    <3>2. [call[c] EXCEPT !.op = "extending"] \in Call
      BY <3>1, CallColumns
    <3>3. QED
      BY <3>1, <3>2, CallColumns
  <2>2. call' \in [Consumer -> Call]
    BY <1>12, <2>1 DEF TypeOK, HeartbeatLock, Begin
  <2>3. QED
    BY <1>12, <2>2 DEF TypeOK, HeartbeatLock, Lock, tables, history
<1>13. CASE HeartbeatExec(c)
  <2>1. live' \in [Job -> Row]
    <3>1. call[c].until \in Int
      BY DEF TypeOK, Call
    <3>2. \A k \in Job : [live[k] EXCEPT !.claimExpiresAt = call[c].until] \in Row
      BY <3>1, RowColumns DEF TypeOK
    <3>3. QED
      BY <1>13, <3>2 DEF TypeOK, HeartbeatExec
  <2>2. lease' \in [Consumer -> [Job -> Int]]
    BY <1>13 DEF TypeOK, HeartbeatExec, Call
  <2>3. QED
    BY <1>13, <2>1, <2>2, RowTypes
       DEF TypeOK, HeartbeatExec, Unlock, Return, history
<1>14. CASE CallFails(c)
  BY <1>14, RowTypes DEF TypeOK, CallFails, Unlock, Return, tables, history
<1>15. QED
  BY <1>1, <1>2, <1>3, <1>4, <1>5, <1>6, <1>7, <1>8, <1>9, <1>10, <1>11,
     <1>12, <1>13, <1>14 DEF ConsumerStep

LEMMA TickType == TypeOK /\ Tick => TypeOK'
BY DEF TypeOK, Tick, tables, history

LEMMA NextType == TypeOK /\ [Next]_vars => TypeOK'
<1>1. CASE UNCHANGED vars
  BY <1>1 DEF TypeOK, vars
<1>2. QED
  BY <1>1, ProducerType, ConsumerType, TickType DEF Next

(* Every reachable state is well-typed, whatever the parameters. *)
THEOREM TypeCorrect == Spec => []TypeOK
BY InitType, NextType, PTL DEF Spec

-----------------------------------------------------------------------------
(* One handle: who can be inside writerMu, and what a selection rests on.  *)

LEMMA InitQueueInv == Init => QueueInv
<1>. SUFFICES ASSUME Init PROVE QueueInv
  OBVIOUS
<1>1. TypeOK
  BY InitType
<1>2. ExactlyOnePlace /\ RowShape
  BY DEF Init, ExactlyOnePlace, RowShape, Present, NoRow, NoGrave
<1>3. MutexHeldByCall
  BY ConsumerAssumption, RowAssumption DEF Init, MutexHeldByCall, Locked, Idle
<1>4. CallsArePast /\ SelectionStands /\ SelectionFirst
  BY DEF Init, CallsArePast, SelectionStands, SelectionFirst, Idle
<1>5. QED
  BY <1>1, <1>2, <1>3, <1>4 DEF QueueInv

(* With one handle, no call is between statements while writerMu is free,  *)
(* and at most one is while it is held.                                    *)
LEMMA NobodyInside ==
    ASSUME MutexHeldByCall, OneHandle, NEW p \in Process, WriterFree(p),
           NEW c \in Consumer
    PROVE  ~Locked(c)
BY ConsumerAssumption, RowAssumption DEF MutexHeldByCall, OneHandle, WriterFree

LEMMA OneInside ==
    ASSUME MutexHeldByCall, OneHandle, NEW c \in Consumer, Locked(c),
           NEW d \in Consumer, Locked(d)
    PROVE  c = d
BY ConsumerAssumption, RowAssumption DEF MutexHeldByCall, OneHandle

(* An owned row is a claimed one. *)
LEMMA OwnedIsClaimed ==
    ASSUME RowShape, NEW c \in Consumer, NEW j \in Job, NEW t,
           Owned(live[j], workerOf[c], t)
    PROVE  live[j].state = "processing" /\ Present(live[j])
BY ConsumerAssumption, RowAssumption DEF RowShape, Owned, Present

LEMMA MutexLocked ==
    ASSUME TypeOK, MutexHeldByCall, NEW c \in Consumer,
           WriterFree(processOf[c]), Lock(c),
           NEW record, Begin(c, record),
           record.op \in {"selected", "ack", "extending"}
    PROVE  MutexHeldByCall'
<1>1. \A d \in Consumer : processOf[d] = processOf[c] => ~Locked(d)
  BY ConsumerAssumption, RowAssumption DEF MutexHeldByCall, WriterFree
<1>2. \A d \in Consumer : call'[d] = IF d = c THEN record ELSE call[d]
  BY DEF Begin, TypeOK
<1>3. \A p \in Process : writerMu'[p] = IF p = processOf[c] THEN c ELSE writerMu[p]
  BY ConsumerAssumption, RowAssumption DEF Lock, TypeOK
<1>4. QED
  BY <1>1, <1>2, <1>3, ConsumerAssumption, RowAssumption DEF MutexHeldByCall, Locked

LEMMA MutexUnlocked ==
    ASSUME TypeOK, MutexHeldByCall, NEW c \in Consumer, Locked(c),
           Unlock(c), Return(c)
    PROVE  MutexHeldByCall'
<1>1. writerMu[processOf[c]] = c
  BY ConsumerAssumption, RowAssumption DEF MutexHeldByCall
<1>2. \A d \in Consumer : call'[d] = IF d = c THEN Idle ELSE call[d]
  BY DEF Return, TypeOK
<1>3. \A p \in Process :
         writerMu'[p] = IF p = processOf[c] THEN Nobody ELSE writerMu[p]
  BY ConsumerAssumption, RowAssumption DEF Unlock, TypeOK
<1>4. ~(Idle.op \in {"selected", "ack", "extending"})
  BY DEF Idle
<1>5. QED
  BY <1>1, <1>2, <1>3, <1>4, ConsumerAssumption, RowAssumption DEF MutexHeldByCall, Locked

LEMMA MutexKept ==
    ASSUME MutexHeldByCall, writerMu' = writerMu,
           \A d \in Consumer : Locked(d)' <=> Locked(d)
    PROVE  MutexHeldByCall'
BY DEF MutexHeldByCall

(* The rows of a selection cannot change: either the step touches no row,  *)
(* or no call is between SELECT and UPDATE.                                *)
LEMMA SelectionKept ==
    ASSUME SelectionStands, SelectionFirst, live' = live,
           \A d \in Consumer : call'[d].op = "selected" => call'[d] = call[d]
    PROVE  SelectionStands' /\ SelectionFirst'
<1>1. SelectionStands'
  BY DEF SelectionStands, Claimable, Unexpired, Due, Lapsed
<1>2. \A t : Candidates(t)' = Candidates(t)
  BY DEF Candidates
<1>3. SelectionFirst'
  BY <1>2 DEF SelectionFirst
<1>4. QED
  BY <1>1, <1>3

LEMMA NoSelection ==
    ASSUME \A d \in Consumer : ~Locked(d)'
    PROVE  SelectionStands' /\ SelectionFirst'
BY DEF SelectionStands, SelectionFirst, Locked

(* What a return leaves of the calls. *)
LEMMA ReturnEffect ==
    ASSUME TypeOK, NEW c \in Consumer, Return(c)
    PROVE  /\ call'[c] = Idle /\ call'[c].op = "idle" /\ call'[c].now = 0
           /\ \A d \in Consumer : d # c => call'[d] = call[d]
BY DEF TypeOK, Return, Idle

(* A call that ends inside writerMu leaves nobody there. *)
LEMMA CallEnds ==
    ASSUME QueueInv, OneHandle, NEW c \in Consumer, Locked(c), Unlock(c), Return(c),
           clock' = clock
    PROVE  MutexHeldByCall' /\ CallsArePast' /\ SelectionStands' /\ SelectionFirst'
<1>1. MutexHeldByCall'
  BY MutexUnlocked DEF QueueInv
<1>2. /\ call'[c].op = "idle" /\ call'[c].now = 0
      /\ \A d \in Consumer : d # c => call'[d] = call[d]
  BY ReturnEffect DEF QueueInv
<1>3. CallsArePast'
  BY <1>2 DEF QueueInv, TypeOK, CallsArePast
<1>4. \A d \in Consumer : ~Locked(d)'
  BY <1>2, OneInside DEF QueueInv, Locked
<1>5. QED
  BY <1>1, <1>3, <1>4, NoSelection

(* An operation that finds writerMu free and leaves the calls as they are. *)
LEMMA CallsStay ==
    ASSUME QueueInv, OneHandle, NEW p \in Process, WriterFree(p),
           UNCHANGED <<clock, writerMu, call>>
    PROVE  MutexHeldByCall' /\ CallsArePast' /\ SelectionStands' /\ SelectionFirst'
<1>1. \A d \in Consumer : ~Locked(d)
  BY NobodyInside DEF QueueInv
<1>2. SelectionStands' /\ SelectionFirst'
  BY <1>1, NoSelection DEF Locked
<1>3. MutexHeldByCall' /\ CallsArePast'
  BY DEF QueueInv, MutexHeldByCall, CallsArePast, Locked
<1>4. QED
  BY <1>2, <1>3

-----------------------------------------------------------------------------
(* The producers' operations. *)

LEMMA EnqueueEffect ==
    ASSUME TypeOK, NEW p \in Process, NEW j \in Job,
           NEW d \in Delays, NEW t \in TTLs, NEW pr \in Priorities,
           Enqueue(p, j, d, t, pr)
    PROVE  /\ fate[j] = "unborn" /\ fate'[j] = "queued"
           /\ live'[j].state = "pending"
           /\ live'[j].worker = NoWorker
           /\ live'[j].claimExpiresAt = Null
           /\ \A k \in Job \ {j} : live'[k] = live[k] /\ fate'[k] = fate[k]
           /\ UNCHANGED <<clock, dead, writerMu, call, lease>>
<1>1. live'[j] = [NoRow EXCEPT !.state = "pending", !.priority = pr,
                     !.runAt = clock + d,
                     !.expiresAt = IF t > 0 THEN clock + t ELSE Null]
  BY DEF Enqueue, TypeOK
<1>2. /\ live'[j].state = "pending"
      /\ live'[j].worker = NoWorker
      /\ live'[j].claimExpiresAt = Null
  BY <1>1 DEF NoRow
<1>3. QED
  BY <1>2 DEF Enqueue, TypeOK

LEMMA EnqueueInv ==
    ASSUME QueueInv, OneHandle, NEW p \in Process, NEW j \in Job,
           NEW d \in Delays, NEW t \in TTLs, NEW pr \in Priorities,
           Enqueue(p, j, d, t, pr), TypeOK'
    PROVE  QueueInv'
<1>1. ExactlyOnePlace' /\ RowShape'
  BY EnqueueEffect DEF QueueInv, ExactlyOnePlace, RowShape, Present
<1>2. MutexHeldByCall' /\ CallsArePast' /\ SelectionStands' /\ SelectionFirst'
  BY CallsStay DEF Enqueue
<1>3. QED
  BY <1>1, <1>2 DEF QueueInv

LEMMA CancelEffect ==
    ASSUME TypeOK, NEW p \in Process, NEW j \in Job, Cancel(p, j)
    PROVE  /\ Present(live[j])
           /\ live'[j] = NoRow /\ fate'[j] = "cancelled"
           /\ \A k \in Job \ {j} : live'[k] = live[k] /\ fate'[k] = fate[k]
           /\ UNCHANGED <<clock, dead, writerMu, call, lease>>
BY DEF Cancel, TypeOK

LEMMA CancelInv ==
    ASSUME QueueInv, OneHandle, NEW p \in Process, NEW j \in Job,
           Cancel(p, j), TypeOK'
    PROVE  QueueInv'
<1>1. ExactlyOnePlace' /\ RowShape'
  BY CancelEffect DEF QueueInv, ExactlyOnePlace, RowShape, Present, NoRow
<1>2. MutexHeldByCall' /\ CallsArePast' /\ SelectionStands' /\ SelectionFirst'
  BY CallsStay DEF Cancel
<1>3. QED
  BY <1>1, <1>2 DEF QueueInv

(* What burying the jobs of S leaves, and where those jobs are after it. *)
LEMMA BuryEffect ==
    ASSUME TypeOK, ExactlyOnePlace, RowShape, NEW S,
           \A k \in Job \cap S : Present(live[k]),
           NEW cause \in {"exhausted", "failed", "expired"}, Bury(S, cause)
    PROVE  /\ ExactlyOnePlace'
           /\ RowShape'
           /\ \A k \in Job \ S :
                 live'[k] = live[k] /\ dead'[k] = dead[k] /\ fate'[k] = fate[k]
           /\ \A k \in Job \cap S : dead'[k].cause = cause
BY DEF TypeOK, ExactlyOnePlace, RowShape, Bury, Present, NoRow

LEMMA SweepEffect ==
    ASSUME NEW p \in Process, SweepExpired(p)
    PROVE  /\ \E S \in SUBSET Job :
                 (\A k \in S : Present(live[k])) /\ Bury(S, "expired")
           /\ UNCHANGED <<clock, writerMu, call, lease>>
           /\ WriterFree(p)
BY DEF SweepExpired

LEMMA SweepInv ==
    ASSUME QueueInv, OneHandle, NEW p \in Process, SweepExpired(p), TypeOK'
    PROVE  QueueInv'
<1>1. ExactlyOnePlace' /\ RowShape'
  BY SweepEffect, BuryEffect DEF QueueInv
<1>2. MutexHeldByCall' /\ CallsArePast' /\ SelectionStands' /\ SelectionFirst'
  BY SweepEffect, CallsStay
<1>3. QED
  BY <1>1, <1>2 DEF QueueInv

LEMMA PlacesKept ==
    ASSUME QueueInv, UNCHANGED <<live, dead, fate>>
    PROVE  ExactlyOnePlace' /\ RowShape'
BY DEF QueueInv, ExactlyOnePlace, RowShape, Present

LEMMA CrashInv ==
    ASSUME QueueInv, OneHandle, NEW p \in Process, Crash(p), TypeOK'
    PROVE  QueueInv'
<1>1. /\ UNCHANGED <<clock, live, dead, fate>>
      /\ \A d \in Consumer : call'[d] = Idle
      /\ \A q \in Process : writerMu'[q] = Nobody
  BY ConsumerAssumption, RowAssumption
     DEF Crash, OneHandle, QueueInv, TypeOK, tables, history
<1>2. ExactlyOnePlace' /\ RowShape'
  BY <1>1, PlacesKept
<1>3. \A d \in Consumer : ~Locked(d)'
  BY <1>1 DEF Locked, Idle
<1>4. MutexHeldByCall' /\ SelectionStands' /\ SelectionFirst'
  BY <1>1, <1>3, NoSelection, ConsumerAssumption DEF MutexHeldByCall
<1>5. CallsArePast'
  BY <1>1 DEF CallsArePast, Idle, QueueInv, TypeOK
<1>6. QED
  BY <1>2, <1>4, <1>5 DEF QueueInv

LEMMA TickInv ==
    ASSUME QueueInv, Tick, TypeOK'
    PROVE  QueueInv'
<1>1. /\ UNCHANGED <<live, dead, writerMu, call, lease, fate>>
      /\ clock' = clock + 1 /\ clock \in Nat
  BY DEF Tick, QueueInv, TypeOK, tables, history
<1>2. ExactlyOnePlace' /\ RowShape'
  BY <1>1, PlacesKept
<1>3. MutexHeldByCall' /\ SelectionStands' /\ SelectionFirst'
  BY <1>1, SelectionKept, MutexKept DEF QueueInv, Locked
<1>4. CallsArePast'
  BY <1>1 DEF QueueInv, CallsArePast, TypeOK, Call
<1>5. QED
  BY <1>2, <1>3, <1>4 DEF QueueInv

-----------------------------------------------------------------------------
(* The consumers' operations. *)

(* A call that begins, waits or returns and touches no table: only what it *)
(* does to writerMu and to the calls in progress is left to check.         *)
LEMMA QuietInv ==
    ASSUME QueueInv, TypeOK', MutexHeldByCall', NEW c \in Consumer,
           UNCHANGED <<clock, live, dead, fate>>,
           \A d \in Consumer : d # c => call'[d] = call[d],
           call'[c].now <= clock, call'[c].op # "selected"
    PROVE  QueueInv'
<1>1. ExactlyOnePlace' /\ RowShape'
  BY PlacesKept
<1>2. CallsArePast'
  BY DEF QueueInv, CallsArePast
<1>3. SelectionStands' /\ SelectionFirst'
  BY SelectionKept DEF QueueInv
<1>4. QED
  BY <1>1, <1>2, <1>3 DEF QueueInv

LEMMA ClaimBeginInv ==
    ASSUME QueueInv, NEW c \in Consumer, NEW n \in BatchSizes,
           ClaimBegin(c, n), TypeOK'
    PROVE  QueueInv'
<1>1. /\ UNCHANGED <<clock, live, dead, writerMu, fate>>
      /\ \A d \in Consumer : d # c => call'[d] = call[d]
      /\ call[c].op = "idle" /\ call'[c].op = "claim" /\ call'[c].now = clock
      /\ clock \in Nat
  BY DEF ClaimBegin, Begin, Idle, QueueInv, TypeOK, tables, history
<1>2. MutexHeldByCall'
  BY <1>1, MutexKept DEF QueueInv, Locked
<1>3. QED
  BY <1>1, <1>2, QuietInv

LEMMA ClaimNoneInv ==
    ASSUME QueueInv, NEW c \in Consumer, ClaimNone(c), TypeOK'
    PROVE  QueueInv'
<1>1. /\ UNCHANGED <<clock, live, dead, writerMu, fate>>
      /\ call[c].op = "claim" /\ Return(c) /\ clock \in Nat
  BY DEF ClaimNone, QueueInv, TypeOK, tables, history
<1>2. /\ call'[c].op = "idle" /\ call'[c].now = 0
      /\ \A d \in Consumer : d # c => call'[d] = call[d]
  BY <1>1, ReturnEffect DEF QueueInv
<1>3. MutexHeldByCall'
  BY <1>1, <1>2, MutexKept DEF QueueInv, Locked
<1>4. QED
  BY <1>1, <1>2, <1>3, QuietInv

(* What ClaimBatch's SELECT hands to its UPDATE. *)
LEMMA ClaimSelectEffect ==
    ASSUME TypeOK, NEW c \in Consumer, ClaimSelect(c)
    PROVE  /\ UNCHANGED <<clock, live, dead, lease, fate, deliveries>>
           /\ WriterFree(processOf[c]) /\ Lock(c)
           /\ call'[c].op = "selected" /\ call'[c].now = call[c].now
           /\ \A d \in Consumer : d # c => call'[d] = call[d]
           /\ \A k \in call'[c].jobs : Claimable(live[k], call[c].now)
           /\ \A k \in call'[c].jobs, q \in Candidates(call[c].now) \ call'[c].jobs :
                 ~Before(live[q], live[k])
<1>1. PICK picked \in FirstOf(Candidates(call[c].now), call[c].size) :
         Begin(c, [call[c] EXCEPT !.op = "selected", !.jobs = picked])
  BY DEF ClaimSelect
<1>2. /\ \A k \in picked : Claimable(live[k], call[c].now)
      /\ \A k \in picked, q \in Candidates(call[c].now) \ picked :
            ~Before(live[q], live[k])
  BY DEF FirstOf, Candidates
<1>3. /\ call'[c].op = "selected" /\ call'[c].jobs = picked
      /\ call'[c].now = call[c].now
      /\ \A d \in Consumer : d # c => call'[d] = call[d]
  <2>1. call[c] \in Call
    BY DEF TypeOK
  <2>2. call' = [call EXCEPT ![c] = [call[c] EXCEPT !.op = "selected", !.jobs = picked]]
    BY <1>1 DEF Begin
  <2>3. QED
    BY <2>1, <2>2 DEF TypeOK, Call
<1>4. QED
  BY <1>2, <1>3 DEF ClaimSelect, tables, history

LEMMA ClaimSelectInv ==
    ASSUME QueueInv, NEW c \in Consumer, ClaimSelect(c), TypeOK'
    PROVE  QueueInv'
<1>0. TypeOK
  BY DEF QueueInv
<1>1. ExactlyOnePlace' /\ RowShape'
  BY <1>0, ClaimSelectEffect, PlacesKept
<1>2. MutexHeldByCall'
  <2>1. PICK record : Begin(c, record)
    BY DEF ClaimSelect
  <2>2. record = call'[c]
    BY <1>0, <2>1 DEF Begin, TypeOK
  <2>3. QED
    BY <1>0, <2>1, <2>2, ClaimSelectEffect, MutexLocked DEF QueueInv
<1>3. CallsArePast'
  BY <1>0, ClaimSelectEffect DEF QueueInv, CallsArePast
<1>4. SelectionStands'
  <2>1. SUFFICES ASSUME NEW d \in Consumer, call'[d].op = "selected",
                        NEW k \in call'[d].jobs
                 PROVE  Claimable(live[k], call'[d].now)
    BY <1>0, ClaimSelectEffect DEF SelectionStands
  <2>2. CASE d = c
    BY <1>0, <2>1, <2>2, ClaimSelectEffect
  <2>3. CASE d # c
    BY <1>0, <2>1, <2>3, ClaimSelectEffect DEF QueueInv, SelectionStands
  <2>4. QED
    BY <2>2, <2>3
<1>5. SelectionFirst'
  <2>1. \A t : Candidates(t)' = Candidates(t)
    BY <1>0, ClaimSelectEffect DEF Candidates
  <2>2. SUFFICES ASSUME NEW d \in Consumer, call'[d].op = "selected",
                        NEW k \in call'[d].jobs,
                        NEW q \in Candidates(call'[d].now) \ call'[d].jobs
                 PROVE  ~Before(live[q], live[k])
    BY <1>0, <2>1, ClaimSelectEffect DEF SelectionFirst
  <2>3. CASE d = c
    BY <1>0, <2>2, <2>3, ClaimSelectEffect
  <2>4. CASE d # c
    BY <1>0, <2>2, <2>4, ClaimSelectEffect DEF QueueInv, SelectionFirst
  <2>5. QED
    BY <2>3, <2>4
<1>6. QED
  BY <1>1, <1>2, <1>3, <1>4, <1>5 DEF QueueInv

(* What ClaimBatch's UPDATE does to the rows it takes and to c's handles. *)
LEMMA ClaimUpdateEffect ==
    ASSUME TypeOK, NEW c \in Consumer, ClaimUpdate(c)
    PROVE  /\ call[c].op = "selected" /\ Locked(c) /\ Unlock(c) /\ Return(c)
           /\ UNCHANGED <<clock, dead, fate>>
           /\ Taken(c) \subseteq Job /\ Taken(c) \subseteq call[c].jobs
           /\ \A k \in Taken(c) :
                 /\ Present(live[k])
                 /\ live'[k].state = "processing"
                 /\ live'[k].worker = workerOf[c]
                 /\ live'[k].claimExpiresAt = call[c].now + VisibilityTimeout
                 /\ live'[k].runAt = live[k].runAt
           /\ \A k \in Job \ Taken(c) :
                 live'[k] = live[k] /\ deliveries'[k] = deliveries[k]
           /\ \A d \in Consumer, k \in Job :
                 lease'[d][k] = IF d = c /\ k \in Taken(c)
                                THEN call[c].now + VisibilityTimeout
                                ELSE lease[d][k]
<1>1. /\ call[c].op = "selected" /\ Locked(c) /\ Unlock(c) /\ Return(c)
      /\ UNCHANGED <<clock, dead, fate>>
  BY DEF ClaimUpdate, Locked
<1>2. Taken(c) \subseteq Job /\ Taken(c) \subseteq call[c].jobs
  BY DEF Taken, TypeOK, Call
<1>3. \A k \in Taken(c) : Present(live[k]) /\ live'[k] = ClaimedRow(live[k], c)
  BY <1>2 DEF ClaimUpdate, Taken
<1>4. ASSUME NEW r \in Row
      PROVE  /\ ClaimedRow(r, c).state = "processing"
             /\ ClaimedRow(r, c).worker = workerOf[c]
             /\ ClaimedRow(r, c).claimExpiresAt = call[c].now + VisibilityTimeout
             /\ ClaimedRow(r, c).runAt = r.runAt
  BY DEF ClaimedRow, Claimed, Row
<1>5. \A k \in Taken(c) :
         /\ Present(live[k])
         /\ live'[k].state = "processing"
         /\ live'[k].worker = workerOf[c]
         /\ live'[k].claimExpiresAt = call[c].now + VisibilityTimeout
         /\ live'[k].runAt = live[k].runAt
  BY <1>2, <1>3, <1>4 DEF TypeOK
<1>6. \A k \in Job \ Taken(c) :
         live'[k] = live[k] /\ deliveries'[k] = deliveries[k]
  BY DEF ClaimUpdate
<1>7. \A d \in Consumer, k \in Job :
         lease'[d][k] = IF d = c /\ k \in Taken(c)
                        THEN call[c].now + VisibilityTimeout
                        ELSE lease[d][k]
  BY DEF ClaimUpdate, TypeOK
<1>8. QED
  BY <1>1, <1>2, <1>5, <1>6, <1>7

LEMMA ClaimUpdateInv ==
    ASSUME QueueInv, OneHandle, NEW c \in Consumer, ClaimUpdate(c), TypeOK'
    PROVE  QueueInv'
<1>1. PICK T : T = Taken(c)
  OBVIOUS
<1>2. /\ call[c].op = "selected" /\ Locked(c) /\ Unlock(c) /\ Return(c)
      /\ UNCHANGED <<clock, dead, fate>>
      /\ T \subseteq Job
      /\ \A k \in T : Present(live[k]) /\ live'[k].state = "processing"
      /\ \A k \in Job \ T : live'[k] = live[k]
  BY <1>1, ClaimUpdateEffect DEF QueueInv
<1>3. \A k \in Job : Present(live[k])' <=> Present(live[k])
  BY <1>2 DEF Present
<1>4. ExactlyOnePlace'
  BY <1>2, <1>3 DEF QueueInv, ExactlyOnePlace
<1>5. RowShape'
  BY <1>2 DEF QueueInv, RowShape
<1>6. MutexHeldByCall' /\ CallsArePast' /\ SelectionStands' /\ SelectionFirst'
  BY <1>2, CallEnds
<1>7. QED
  BY <1>4, <1>5, <1>6 DEF QueueInv

LEMMA AckBeginInv ==
    ASSUME QueueInv, NEW c \in Consumer, NEW S \in SUBSET Job,
           AckBegin(c, S), TypeOK'
    PROVE  QueueInv'
<1>1. /\ UNCHANGED <<clock, live, dead, fate>>
      /\ WriterFree(processOf[c]) /\ Lock(c)
      /\ Begin(c, [Idle EXCEPT !.op = "ack", !.now = clock, !.jobs = S])
      /\ clock \in Nat
  BY DEF AckBegin, QueueInv, TypeOK, tables, history
<1>2. /\ call'[c].op = "ack" /\ call'[c].now = clock
      /\ \A d \in Consumer : d # c => call'[d] = call[d]
  BY <1>1 DEF Begin, Idle, QueueInv, TypeOK
<1>3. MutexHeldByCall'
  BY <1>1, MutexLocked DEF QueueInv, Idle
<1>4. QED
  BY <1>1, <1>2, <1>3, QuietInv

LEMMA HeartbeatBeginInv ==
    ASSUME QueueInv, NEW c \in Consumer, NEW j \in Job, NEW e \in Extensions,
           HeartbeatBegin(c, j, e), TypeOK'
    PROVE  QueueInv'
<1>1. /\ UNCHANGED <<clock, live, dead, writerMu, fate>>
      /\ \A d \in Consumer : d # c => call'[d] = call[d]
      /\ call[c].op = "idle" /\ call'[c].op = "extend" /\ call'[c].now = 0
      /\ clock \in Nat
  BY DEF HeartbeatBegin, Begin, Idle, QueueInv, TypeOK, tables, history
<1>2. MutexHeldByCall'
  BY <1>1, MutexKept DEF QueueInv, Locked
<1>3. QED
  BY <1>1, <1>2, QuietInv

LEMMA HeartbeatLockInv ==
    ASSUME QueueInv, NEW c \in Consumer, HeartbeatLock(c), TypeOK'
    PROVE  QueueInv'
<1>1. /\ UNCHANGED <<clock, live, dead, fate>>
      /\ WriterFree(processOf[c]) /\ Lock(c)
      /\ Begin(c, [call[c] EXCEPT !.op = "extending", !.now = clock])
  BY DEF HeartbeatLock, tables, history
<1>2. [call[c] EXCEPT !.op = "extending", !.now = clock].op = "extending"
      /\ [call[c] EXCEPT !.op = "extending", !.now = clock].now = clock
  BY DEF QueueInv, TypeOK, Call
<1>3. /\ call'[c].op = "extending" /\ call'[c].now = clock
      /\ \A d \in Consumer : d # c => call'[d] = call[d]
  BY <1>1, <1>2 DEF Begin, QueueInv, TypeOK
<1>4. MutexHeldByCall'
  BY <1>1, <1>2, MutexLocked DEF QueueInv
<1>5. call'[c].now <= clock
  BY <1>3 DEF QueueInv, TypeOK
<1>6. QED
  BY <1>1, <1>3, <1>4, <1>5, QuietInv

LEMMA CallFailsInv ==
    ASSUME QueueInv, OneHandle, NEW c \in Consumer, CallFails(c), TypeOK'
    PROVE  QueueInv'
<1>1. UNCHANGED <<clock, live, dead, fate>>
  BY DEF CallFails, tables, history
<1>2. ExactlyOnePlace' /\ RowShape'
  BY <1>1, PlacesKept
<1>3. MutexHeldByCall' /\ CallsArePast' /\ SelectionStands' /\ SelectionFirst'
  BY <1>1, CallEnds DEF CallFails
<1>4. QED
  BY <1>2, <1>3 DEF QueueInv

(* Ack deletes the rows that are still c's, and c keeps no handle to any. *)
LEMMA AckExecEffect ==
    ASSUME TypeOK, NEW c \in Consumer, AckExec(c)
    PROVE  /\ \E A \in SUBSET Job :
                 /\ A \subseteq call[c].jobs
                 /\ \A k \in A : Owned(live[k], workerOf[c], call[c].now)
                 /\ \A k \in A : live'[k] = NoRow /\ fate'[k] = "acked"
                 /\ \A k \in Job \ A : live'[k] = live[k] /\ fate'[k] = fate[k]
           /\ Locked(c) /\ Unlock(c) /\ Return(c) /\ Drop(c, call[c].jobs)
           /\ UNCHANGED <<clock, dead>>
<1>1. PICK A : A = {j \in call[c].jobs : Owned(live[j], workerOf[c], call[c].now)}
  OBVIOUS
<1>2. /\ \A k \in Job : live'[k] = IF k \in A THEN NoRow ELSE live[k]
      /\ \A k \in Job : fate'[k] = IF k \in A THEN "acked" ELSE fate[k]
  BY <1>1 DEF AckExec
<1>3. /\ A \in SUBSET Job /\ A \subseteq call[c].jobs
      /\ \A k \in A : Owned(live[k], workerOf[c], call[c].now)
  BY <1>1 DEF TypeOK, Call
<1>4. QED
  BY <1>2, <1>3 DEF AckExec, Locked

LEMMA AckExecInv ==
    ASSUME QueueInv, OneHandle, NEW c \in Consumer, AckExec(c), TypeOK'
    PROVE  QueueInv'
<1>1. PICK A \in SUBSET Job :
         /\ \A k \in A : Owned(live[k], workerOf[c], call[c].now)
         /\ \A k \in A : live'[k] = NoRow /\ fate'[k] = "acked"
         /\ \A k \in Job \ A : live'[k] = live[k] /\ fate'[k] = fate[k]
  BY AckExecEffect DEF QueueInv
<1>2. /\ Locked(c) /\ Unlock(c) /\ Return(c)
      /\ UNCHANGED <<clock, dead>>
  BY AckExecEffect DEF QueueInv
<1>3. \A k \in A : Present(live[k])
  BY <1>1, OwnedIsClaimed DEF QueueInv
<1>4. ExactlyOnePlace' /\ RowShape'
  BY <1>1, <1>2, <1>3 DEF QueueInv, ExactlyOnePlace, RowShape, Present, NoRow
<1>5. MutexHeldByCall' /\ CallsArePast' /\ SelectionStands' /\ SelectionFirst'
  BY <1>2, CallEnds
<1>6. QED
  BY <1>4, <1>5 DEF QueueInv

LEMMA RetryAgainEffect ==
    ASSUME TypeOK, NEW c \in Consumer, NEW j \in Job, NEW d \in Delays,
           RetryAgain(c, j, d)
    PROVE  /\ MaySettle(c, j) /\ Owned(live[j], workerOf[c], clock)
           /\ Drop(c, {j})
           /\ UNCHANGED <<clock, dead, writerMu, call, fate>>
           /\ \A k \in Job \ {j} : live'[k] = live[k]
           /\ live'[j].state = "pending" /\ live'[j].worker = NoWorker
           /\ live'[j].claimExpiresAt = Null
<1>1. live'[j] = [live[j] EXCEPT !.state = "pending", !.runAt = clock + d,
                                 !.worker = NoWorker, !.claimExpiresAt = Null]
  BY DEF RetryAgain, Requeued, TypeOK
<1>2. live[j] \in Row
  BY DEF TypeOK
<1>3. /\ live'[j].state = "pending" /\ live'[j].worker = NoWorker
      /\ live'[j].claimExpiresAt = Null
  BY <1>1, <1>2 DEF Row
<1>4. QED
  BY <1>3 DEF RetryAgain, OwnsNow, TypeOK, history

LEMMA RetryAgainInv ==
    ASSUME QueueInv, OneHandle, NEW c \in Consumer, NEW j \in Job,
           NEW d \in Delays, RetryAgain(c, j, d), TypeOK'
    PROVE  QueueInv'
<1>1. Present(live[j])
  BY RetryAgainEffect, OwnedIsClaimed DEF QueueInv
<1>2. ExactlyOnePlace' /\ RowShape'
  <2>1. /\ UNCHANGED <<dead, fate>>
        /\ \A k \in Job \ {j} : live'[k] = live[k]
        /\ live'[j].state = "pending" /\ live'[j].worker = NoWorker
        /\ live'[j].claimExpiresAt = Null
    BY RetryAgainEffect DEF QueueInv
  <2>2. \A k \in Job : Present(live[k])' <=> Present(live[k])
    BY <1>1, <2>1 DEF Present
  <2>3. ExactlyOnePlace'
    BY <2>1, <2>2 DEF QueueInv, ExactlyOnePlace
  <2>4. RowShape'
    BY <2>1 DEF QueueInv, RowShape
  <2>5. QED
    BY <2>3, <2>4
<1>3. MutexHeldByCall' /\ CallsArePast' /\ SelectionStands' /\ SelectionFirst'
  BY RetryAgainEffect, CallsStay, ConsumerAssumption DEF QueueInv, MaySettle
<1>4. QED
  BY <1>2, <1>3 DEF QueueInv

(* Retry of a spent job, and Fail: the holder buries its job. *)
LEMMA BuryInv ==
    ASSUME QueueInv, OneHandle, NEW c \in Consumer, NEW j \in Job,
           MaySettle(c, j), OwnsNow(c, j),
           NEW cause \in {"exhausted", "failed"}, Bury({j}, cause),
           UNCHANGED <<clock, writerMu, call>>, TypeOK'
    PROVE  QueueInv'
<1>1. Present(live[j])
  BY OwnedIsClaimed DEF QueueInv, OwnsNow
<1>2. ExactlyOnePlace' /\ RowShape'
  BY <1>1, BuryEffect DEF QueueInv
<1>3. MutexHeldByCall' /\ CallsArePast' /\ SelectionStands' /\ SelectionFirst'
  BY CallsStay, ConsumerAssumption DEF MaySettle
<1>4. QED
  BY <1>2, <1>3 DEF QueueInv

LEMMA SettleLostInv ==
    ASSUME QueueInv, OneHandle, NEW c \in Consumer, NEW j \in Job,
           SettleLost(c, j), TypeOK'
    PROVE  QueueInv'
<1>1. /\ UNCHANGED <<clock, live, dead, fate, writerMu, call>>
      /\ MaySettle(c, j)
  BY DEF SettleLost, tables, history
<1>2. ExactlyOnePlace' /\ RowShape'
  BY <1>1, PlacesKept
<1>3. MutexHeldByCall' /\ CallsArePast' /\ SelectionStands' /\ SelectionFirst'
  BY <1>1, CallsStay, ConsumerAssumption DEF MaySettle
<1>4. QED
  BY <1>2, <1>3 DEF QueueInv

(* Heartbeat moves the end of the claims of X, which are still c's, in the *)
(* row and in what c is told.                                              *)
Extended(c, X) ==
    /\ \A k \in X : /\ Owned(live[k], workerOf[c], call[c].now)
                    /\ live'[k].state = live[k].state
                    /\ live'[k].worker = live[k].worker
                    /\ live'[k].runAt = live[k].runAt
                    /\ live'[k].claimExpiresAt = call[c].until
                    /\ lease'[c][k] = call[c].until
    /\ \A k \in Job \ X : live'[k] = live[k]
    /\ \A d \in Consumer, k \in Job :
          ~(d = c /\ k \in X) => lease'[d][k] \in {lease[d][k], Null}

LEMMA HeartbeatExecEffect ==
    ASSUME TypeOK, NEW c \in Consumer, HeartbeatExec(c)
    PROVE  /\ \E X \in SUBSET Job : Extended(c, X)
           /\ Locked(c) /\ Unlock(c) /\ Return(c)
           /\ UNCHANGED <<clock, dead, fate>>
<1>1. PICK X : X = {k \in call[c].jobs : Owned(live[k], workerOf[c], call[c].now)}
  OBVIOUS
<1>2. X \in SUBSET Job /\ \A k \in X : Owned(live[k], workerOf[c], call[c].now)
  BY <1>1 DEF TypeOK, Call
<1>3. \A k \in Job :
         live'[k] = IF k \in X
                    THEN [live[k] EXCEPT !.claimExpiresAt = call[c].until]
                    ELSE live[k]
  BY <1>1 DEF HeartbeatExec
<1>4. \A k \in X : /\ live'[k].state = live[k].state
                   /\ live'[k].worker = live[k].worker
                   /\ live'[k].runAt = live[k].runAt
                   /\ live'[k].claimExpiresAt = call[c].until
  <2>1. \A k \in X : live[k] \in Row
    BY <1>2 DEF TypeOK
  <2>2. QED
    BY <1>2, <1>3, <2>1 DEF Row
<1>5. \A d \in Consumer, k \in Job :
         IF d = c /\ k \in X THEN lease'[d][k] = call[c].until
                             ELSE lease'[d][k] \in {lease[d][k], Null}
  BY <1>1 DEF HeartbeatExec, TypeOK
<1>6. /\ Locked(c) /\ Unlock(c) /\ Return(c)
      /\ UNCHANGED <<clock, dead, fate>>
  BY DEF HeartbeatExec, Locked, history
<1>7. Extended(c, X)
  BY <1>2, <1>3, <1>4, <1>5 DEF Extended
<1>8. QED
  BY <1>2, <1>6, <1>7

LEMMA HeartbeatExecInv ==
    ASSUME QueueInv, OneHandle, NEW c \in Consumer, HeartbeatExec(c), TypeOK'
    PROVE  QueueInv'
<1>0. PICK X \in SUBSET Job : Extended(c, X)
  BY HeartbeatExecEffect DEF QueueInv
<1>1. /\ \A k \in X : /\ Owned(live[k], workerOf[c], call[c].now)
                      /\ live'[k].state = live[k].state
      /\ \A k \in Job \ X : live'[k] = live[k]
  BY <1>0 DEF Extended
<1>2. /\ Locked(c) /\ Unlock(c) /\ Return(c)
      /\ UNCHANGED <<clock, dead, fate>>
  BY HeartbeatExecEffect DEF QueueInv
<1>3. \A k \in Job : Present(live[k])' <=> Present(live[k])
  BY <1>1 DEF Present
<1>4. ExactlyOnePlace'
  BY <1>2, <1>3 DEF QueueInv, ExactlyOnePlace
<1>5. RowShape'
  <2>1. \A k \in X : live[k].state = "processing"
    BY <1>1, OwnedIsClaimed DEF QueueInv
  <2>2. QED
    BY <1>1, <2>1 DEF QueueInv, RowShape
<1>6. MutexHeldByCall' /\ CallsArePast' /\ SelectionStands' /\ SelectionFirst'
  BY <1>2, CallEnds
<1>7. QED
  BY <1>4, <1>5, <1>6 DEF QueueInv

-----------------------------------------------------------------------------
(* The invariant of one handle and what it gives. *)

LEMMA ConsumerQueueInv ==
    ASSUME QueueInv, OneHandle, NEW c \in Consumer, ConsumerStep(c), TypeOK'
    PROVE  QueueInv'
BY ClaimBeginInv, ClaimNoneInv, ClaimSelectInv, ClaimUpdateInv, AckBeginInv,
   AckExecInv, RetryAgainInv, BuryInv, SettleLostInv, HeartbeatBeginInv,
   HeartbeatLockInv, HeartbeatExecInv, CallFailsInv
   DEF ConsumerStep, RetryExhausted, Fail

LEMMA NextQueueInv ==
    ASSUME OneHandle, QueueInv, [Next]_vars
    PROVE  QueueInv'
<1>1. TypeOK'
  BY NextType DEF QueueInv
<1>2. CASE UNCHANGED vars
  <2>1. ExactlyOnePlace' /\ RowShape'
    BY <1>2, PlacesKept DEF vars
  <2>2. MutexHeldByCall' /\ SelectionStands' /\ SelectionFirst'
    BY <1>2, MutexKept, SelectionKept DEF vars, QueueInv, Locked
  <2>3. CallsArePast'
    BY <1>2 DEF vars, QueueInv, CallsArePast
  <2>4. QED
    BY <1>1, <2>1, <2>2, <2>3 DEF QueueInv
<1>3. ASSUME NEW p \in Process, ProducerStep(p)
      PROVE  QueueInv'
  BY <1>1, <1>3, EnqueueInv, CancelInv, SweepInv, CrashInv DEF ProducerStep
<1>4. QED
  BY <1>1, <1>2, <1>3, ConsumerQueueInv, TickInv DEF Next

(* One Database handle, however many consumers use one worker_id: writerMu *)
(* keeps ClaimBatch's selection as it was until its UPDATE (queue.go:345). *)
THEOREM QueueInvariant ==
    ASSUME OneHandle
    PROVE  Spec => []QueueInv
<1>1. QueueInv /\ [Next]_vars => QueueInv'
  BY NextQueueInv
<1>2. QED
  BY <1>1, InitQueueInv, PTL DEF Spec

(* Only ClaimBatch's UPDATE hands jobs out. *)
LEMMA DeliveredByUpdate ==
    ASSUME TypeOK, [Next]_vars, NEW j \in Job, Delivered(j)
    PROVE  \E c \in Consumer : ClaimUpdate(c) /\ j \in Taken(c)
<1>1. deliveries'[j] # deliveries[j]
  BY DEF Delivered, TypeOK
<1>2. deliveries' # deliveries
  BY <1>1
<1>3. ~Tick /\ ~UNCHANGED vars
  BY <1>2 DEF Tick, vars, history
<1>4. ASSUME NEW p \in Process, ProducerStep(p)
      PROVE  FALSE
  BY <1>2, <1>4 DEF ProducerStep, Enqueue, Cancel, SweepExpired, Crash, history
<1>5. PICK c \in Consumer : ConsumerStep(c)
  BY <1>3, <1>4 DEF Next
<1>6. ClaimUpdate(c)
  BY <1>2, <1>5
     DEF ConsumerStep, ClaimBegin, ClaimNone, ClaimSelect, AckBegin, AckExec,
         RetryAgain, RetryExhausted, Fail, SettleLost, HeartbeatBegin,
         HeartbeatLock, HeartbeatExec, CallFails, history
<1>7. QED
  BY <1>1, <1>6, ClaimUpdateEffect

(* What a claim takes is due, or its last claim has run out. *)
LEMMA TakenIsReady ==
    ASSUME QueueInv, NEW c \in Consumer, call[c].op = "selected",
           NEW j \in Job, j \in Taken(c)
    PROVE  \/ live[j].state = "pending" /\ live[j].runAt <= clock
           \/ live[j].state = "processing" /\ live[j].claimExpiresAt < clock
<1>1. j \in call[c].jobs
  BY DEF Taken
<1>2. /\ Claimable(live[j], call[c].now) /\ live[j] \in Row
      /\ call[c].now \in Nat /\ call[c].now <= clock /\ clock \in Nat
  BY <1>1 DEF QueueInv, SelectionStands, CallsArePast, TypeOK, Call
<1>3. live[j].runAt \in Int /\ live[j].claimExpiresAt \in Int
  BY <1>2 DEF Row
<1>4. QED
  BY <1>2, <1>3 DEF Claimable, Due, Lapsed

(* ClaimBatch hands no job out before it is due or while the claim on it   *)
(* is good (queue.go:216).                                                 *)
THEOREM Punctual ==
    ASSUME OneHandle
    PROVE  Spec => NeverEarly
<1>1. ASSUME QueueInv, [Next]_vars, NEW j \in Job, Delivered(j)
      PROVE  \/ live[j].state = "pending" /\ live[j].runAt <= clock
             \/ live[j].state = "processing" /\ live[j].claimExpiresAt < clock
  <2>1. PICK c \in Consumer : ClaimUpdate(c) /\ j \in Taken(c)
    BY <1>1, DeliveredByUpdate DEF QueueInv
  <2>2. QED
    BY <1>1, <2>1, TakenIsReady DEF ClaimUpdate
<1>2. QueueInv /\ [Next]_vars =>
         [\A j \in Job : Delivered(j) =>
            \/ live[j].state = "pending" /\ live[j].runAt <= clock
            \/ live[j].state = "processing" /\ live[j].claimExpiresAt < clock]_vars
  BY <1>1
<1>3. QED
  BY <1>2, QueueInvariant, PTL DEF NeverEarly, Spec

(* ClaimBatch takes the first of what it could take: nothing claimable     *)
(* that it leaves comes before anything it hands out (queue.go:225).       *)
THEOREM InOrder ==
    ASSUME OneHandle
    PROVE  Spec => ClaimsInOrder
<1>1. ASSUME QueueInv, [Next]_vars, NEW c \in Consumer, NEW j \in Job, NEW k \in Job,
             call[c].op = "selected", call'[c] = Idle,
             Delivered(j), ~Delivered(k), Claimable(live[k], call[c].now)
      PROVE  ~Before(live[k], live[j])
  <2>0. TypeOK
    BY <1>1 DEF QueueInv
  <2>1. PICK d \in Consumer : ClaimUpdate(d) /\ j \in Taken(d)
    BY <1>1, <2>0, DeliveredByUpdate
  <2>2. Return(d)
    BY <2>1 DEF ClaimUpdate
  <2>3. d = c
    <3>1. call'[c] # call[c]
      BY <1>1 DEF Idle
    <3>2. QED
      BY <2>0, <2>2, <3>1, ReturnEffect
  <2>4. j \in call[c].jobs
    BY <2>1, <2>3 DEF Taken
  <2>5. k \notin call[c].jobs
    <3>1. SUFFICES ASSUME k \in call[c].jobs PROVE Delivered(k)
      BY <1>1
    <3>2. k \in Taken(c)
      BY <1>1, <3>1 DEF Taken, Claimable, Due, Lapsed, Present
    <3>3. deliveries'[k] = deliveries[k] + 1 /\ deliveries[k] \in Nat
      BY <2>0, <2>1, <2>3, <3>2 DEF ClaimUpdate, TypeOK
    <3>4. QED
      BY <3>3 DEF Delivered
  <2>6. k \in Candidates(call[c].now)
    BY <1>1 DEF Candidates
  <2>7. QED
    BY <1>1, <2>4, <2>5, <2>6 DEF QueueInv, SelectionFirst
<1>2. QueueInv /\ [Next]_vars =>
         [\A c \in Consumer, j, k \in Job :
            /\ call[c].op = "selected" /\ call'[c] = Idle
            /\ Delivered(j) /\ ~Delivered(k)
            /\ Claimable(live[k], call[c].now)
            => ~Before(live[k], live[j])]_vars
  BY <1>1
<1>3. QED
  BY <1>2, QueueInvariant, PTL DEF ClaimsInOrder, Spec

-----------------------------------------------------------------------------
(* Leases: what a consumer holds, when every consumer has its own name.    *)

(* A job that was cancelled or swept has no row. *)
LEMMA RevokedIsGone ==
    ASSUME ExactlyOnePlace, NEW j \in Job, Revoked(j)
    PROVE  ~Present(live[j])
BY DEF ExactlyOnePlace, Revoked

(* A row ClaimBatch may take is held by nobody. *)
LEMMA ClaimableIsFree ==
    ASSUME LeaseInv, NEW j \in Job, NEW t \in Nat, t <= clock,
           Claimable(live[j], t), NEW c \in Consumer
    PROVE  ~Holds(c, j)
<1>1. SUFFICES ASSUME Holds(c, j) PROVE FALSE
  OBVIOUS
<1>2. Present(live[j])
  BY DEF Claimable, Due, Lapsed, Present
<1>3. live[j].state = "processing" /\ live[j].claimExpiresAt = lease[c][j]
  BY <1>1, <1>2, RevokedIsGone DEF LeaseInv, QueueInv, LeaseBacked
<1>4. live[j].claimExpiresAt < t
  BY <1>3 DEF Claimable, Due, Lapsed
<1>5. lease[c][j] \in Int /\ clock \in Nat
  BY DEF LeaseInv, QueueInv, TypeOK
<1>6. QED
  BY <1>1, <1>3, <1>4, <1>5 DEF Holds

(* While a consumer holds a job, the row is under no other worker_id. *)
LEMMA OwnerAlone ==
    ASSUME LeaseInv, OwnNames, NEW j \in Job, NEW t, NEW c \in Consumer,
           Owned(live[j], workerOf[c], t), NEW d \in Consumer, Holds(d, j)
    PROVE  d = c
<1>1. Present(live[j]) /\ live[j].worker = workerOf[c]
  BY OwnedIsClaimed DEF LeaseInv, QueueInv, Owned
<1>2. live[j].worker = workerOf[d]
  BY <1>1, RevokedIsGone DEF LeaseInv, QueueInv, LeaseBacked
<1>3. QED
  BY <1>1, <1>2 DEF OwnNames

(* A step that gives no lease, and changes only rows that nobody will      *)
(* hold a lease on, or that it revokes, keeps the leases right.            *)
LEMMA LeasesKept ==
    ASSUME LeaseInv, clock' \in Nat, clock <= clock',
           \A d \in Consumer, k \in Job : lease'[d][k] \in {lease[d][k], Null},
           NEW S,
           \A k \in Job \ S :
              live'[k] = live[k] /\ dead'[k] = dead[k] /\ fate'[k] = fate[k],
           \A d \in Consumer, k \in Job \cap S : Holds(d, k)' => Revoked(k)'
    PROVE  LeaseBacked' /\ ExclusiveLease'
<1>1. ASSUME NEW d \in Consumer, NEW k \in Job, Holds(d, k)'
      PROVE  Holds(d, k) /\ lease'[d][k] = lease[d][k]
  <2>1. clock \in Nat /\ lease[d][k] \in Int /\ lease'[d][k] \in {lease[d][k], Null}
    BY DEF LeaseInv, QueueInv, TypeOK
  <2>2. QED
    BY <1>1, <2>1 DEF Holds
<1>2. ExclusiveLease'
  BY <1>1 DEF LeaseInv, ExclusiveLease
<1>3. LeaseBacked'
  BY <1>1 DEF LeaseInv, LeaseBacked, Revoked
<1>4. QED
  BY <1>2, <1>3

LEMMA InitLeaseInv == Init => LeaseInv
BY InitQueueInv DEF Init, LeaseInv, LeaseBacked, ExclusiveLease, Holds

(* Steps that change no row and no fate, and give no lease. *)
LEMMA QuietLeases ==
    ASSUME LeaseInv, UNCHANGED <<live, dead, fate>>, clock' \in Nat, clock <= clock',
           \A d \in Consumer, k \in Job : lease'[d][k] \in {lease[d][k], Null}
    PROVE  LeaseBacked' /\ ExclusiveLease'
<1>1. \A d \in Consumer, k \in Job \cap {} : Holds(d, k)' => Revoked(k)'
  OBVIOUS
<1>2. \A k \in Job \ {} :
         live'[k] = live[k] /\ dead'[k] = dead[k] /\ fate'[k] = fate[k]
  OBVIOUS
<1>3. QED
  BY <1>1, <1>2, LeasesKept

LEMMA ProducerLeases ==
    ASSUME LeaseInv, NEW p \in Process, ProducerStep(p)
    PROVE  LeaseBacked' /\ ExclusiveLease'
<1>0. TypeOK /\ clock \in Nat
  BY DEF LeaseInv, QueueInv, TypeOK
<1>1. ASSUME NEW j \in Job, NEW d \in Delays, NEW t \in TTLs, NEW pr \in Priorities,
             Enqueue(p, j, d, t, pr)
      PROVE  LeaseBacked' /\ ExclusiveLease'
  <2>1. /\ fate[j] = "unborn"
        /\ UNCHANGED <<clock, dead, lease>>
        /\ \A k \in Job \ {j} : live'[k] = live[k] /\ fate'[k] = fate[k]
    BY <1>0, <1>1, EnqueueEffect
  <2>2. \A e \in Consumer : ~Holds(e, j)
    BY <2>1 DEF LeaseInv, QueueInv, LeaseBacked, Revoked, ExactlyOnePlace, Present
  <2>3. \A e \in Consumer, k \in Job \cap {j} : Holds(e, k)' => Revoked(k)'
    BY <2>1, <2>2 DEF Holds
  <2>4. /\ clock' \in Nat /\ clock <= clock'
        /\ \A e \in Consumer, k \in Job : lease'[e][k] \in {lease[e][k], Null}
    BY <1>0, <2>1
  <2>5. \A k \in Job \ {j} :
           live'[k] = live[k] /\ dead'[k] = dead[k] /\ fate'[k] = fate[k]
    BY <2>1
  <2>6. QED
    BY <2>3, <2>4, <2>5, LeasesKept
<1>2. ASSUME NEW j \in Job, Cancel(p, j)
      PROVE  LeaseBacked' /\ ExclusiveLease'
  <2>1. /\ UNCHANGED <<clock, dead, lease>> /\ fate'[j] = "cancelled"
        /\ \A k \in Job \ {j} : live'[k] = live[k] /\ fate'[k] = fate[k]
    BY <1>0, <1>2, CancelEffect
  <2>2. \A e \in Consumer, k \in Job \cap {j} : Holds(e, k)' => Revoked(k)'
    BY <2>1 DEF Revoked
  <2>3. /\ clock' \in Nat /\ clock <= clock'
        /\ \A e \in Consumer, k \in Job : lease'[e][k] \in {lease[e][k], Null}
    BY <1>0, <2>1
  <2>4. \A k \in Job \ {j} :
           live'[k] = live[k] /\ dead'[k] = dead[k] /\ fate'[k] = fate[k]
    BY <2>1
  <2>5. QED
    BY <2>2, <2>3, <2>4, LeasesKept
<1>3. CASE SweepExpired(p)
  <2>1. PICK S \in SUBSET Job :
           (\A k \in S : Present(live[k])) /\ Bury(S, "expired")
    BY <1>3, SweepEffect
  <2>2. /\ \A k \in Job \ S :
              live'[k] = live[k] /\ dead'[k] = dead[k] /\ fate'[k] = fate[k]
        /\ \A k \in Job \cap S : dead'[k].cause = "expired"
    BY <2>1, BuryEffect DEF LeaseInv, QueueInv
  <2>3. UNCHANGED <<clock, lease>>
    BY <1>3, SweepEffect
  <2>4. \A e \in Consumer, k \in Job \cap S : Holds(e, k)' => Revoked(k)'
    BY <2>2 DEF Revoked
  <2>5. QED
    BY <1>0, <2>2, <2>3, <2>4, LeasesKept
<1>4. CASE Crash(p)
  <2>1. UNCHANGED <<clock, live, dead, fate>>
    BY <1>4 DEF Crash, tables, history
  <2>2. \A d \in Consumer, k \in Job : lease'[d][k] \in {lease[d][k], Null}
    BY <1>4 DEF Crash
  <2>3. QED
    BY <1>0, <2>1, <2>2, QuietLeases
<1>5. QED
  BY <1>1, <1>2, <1>3, <1>4 DEF ProducerStep

LEMMA ClaimUpdateLeases ==
    ASSUME LeaseInv, NEW c \in Consumer, ClaimUpdate(c)
    PROVE  LeaseBacked' /\ ExclusiveLease'
<1>0. TypeOK
  BY DEF LeaseInv, QueueInv
<1>1. PICK T : T = Taken(c)
  OBVIOUS
<1>2. /\ UNCHANGED <<clock, dead, fate>>
      /\ \A k \in Job \ T : live'[k] = live[k]
      /\ \A d \in Consumer, k \in Job :
            ~(d = c /\ k \in T) => lease'[d][k] = lease[d][k]
  BY <1>0, <1>1, ClaimUpdateEffect
<1>3. \A k \in Job \cap T : /\ live'[k].state = "processing"
                            /\ live'[k].worker = workerOf[c]
                            /\ live'[k].claimExpiresAt = lease'[c][k]
  BY <1>0, <1>1, ClaimUpdateEffect
<1>4. \A k \in Job \cap T, d \in Consumer : ~Holds(d, k)
  <2>1. \A k \in T : k \in call[c].jobs
    BY <1>1 DEF Taken
  <2>2. /\ call[c].now \in Nat /\ call[c].now <= clock
        /\ \A k \in call[c].jobs : Claimable(live[k], call[c].now)
    BY <1>0 DEF ClaimUpdate, LeaseInv, QueueInv, SelectionStands, CallsArePast,
                TypeOK, Call
  <2>3. QED
    BY <2>1, <2>2, ClaimableIsFree
<1>5. ASSUME NEW d \in Consumer, NEW k \in Job, Holds(d, k)', ~(d = c /\ k \in T)
      PROVE  k \notin T /\ Holds(d, k) /\ lease'[d][k] = lease[d][k]
  BY <1>2, <1>4, <1>5 DEF Holds
<1>6. LeaseBacked'
  <2>1. SUFFICES ASSUME NEW d \in Consumer, NEW k \in Job, Holds(d, k)'
                 PROVE  \/ Revoked(k)'
                        \/ /\ live'[k].state = "processing"
                           /\ live'[k].worker = workerOf[d]
                           /\ live'[k].claimExpiresAt = lease'[d][k]
    BY DEF LeaseBacked
  <2>2. CASE d = c /\ k \in T
    BY <1>3, <2>2
  <2>3. CASE ~(d = c /\ k \in T)
    BY <1>2, <1>5, <2>1, <2>3 DEF LeaseInv, LeaseBacked, Revoked
  <2>4. QED
    BY <2>2, <2>3
<1>7. ExclusiveLease'
  BY <1>5 DEF LeaseInv, ExclusiveLease
<1>8. QED
  BY <1>6, <1>7

LEMMA DropEffect ==
    ASSUME TypeOK, NEW c \in Consumer, NEW S, Drop(c, S)
    PROVE  /\ \A d \in Consumer : d # c => lease'[d] = lease[d]
           /\ \A d \in Consumer, j \in Job : lease'[d][j] \in {lease[d][j], Null}
           /\ \A j \in Job \cap S : lease'[c][j] = Null
BY DEF TypeOK, Drop

(* After Ack, Retry or Fail of c's jobs nobody holds them. *)
LEMMA SettledIsFree ==
    ASSUME LeaseInv, OwnNames, NEW c \in Consumer, NEW S \in SUBSET Job, NEW t,
           \A k \in S : Owned(live[k], workerOf[c], t),
           NEW D, S \subseteq D, Drop(c, D), clock' = clock
    PROVE  \A d \in Consumer, k \in Job \cap S : ~Holds(d, k)'
<1>1. SUFFICES ASSUME NEW d \in Consumer, NEW k \in Job \cap S PROVE ~Holds(d, k)'
  OBVIOUS
<1>2. TypeOK /\ clock \in Nat
  BY DEF LeaseInv, QueueInv, TypeOK
<1>3. CASE d = c
  <2>1. lease'[d][k] = Null
    BY <1>2, <1>3, DropEffect
  <2>2. QED
    BY <1>2, <2>1 DEF Holds
<1>4. CASE d # c
  <2>1. lease'[d][k] = lease[d][k]
    BY <1>2, <1>4, DropEffect
  <2>2. ~Holds(d, k)
    BY <1>4, OwnerAlone
  <2>3. QED
    BY <2>1, <2>2 DEF Holds
<1>5. QED
  BY <1>3, <1>4

LEMMA AckExecLeases ==
    ASSUME LeaseInv, OwnNames, NEW c \in Consumer, AckExec(c)
    PROVE  LeaseBacked' /\ ExclusiveLease'
<1>0. TypeOK /\ clock \in Nat
  BY DEF LeaseInv, QueueInv, TypeOK
<1>1. PICK A \in SUBSET Job :
         /\ A \subseteq call[c].jobs
         /\ \A k \in A : Owned(live[k], workerOf[c], call[c].now)
         /\ \A k \in Job \ A : live'[k] = live[k] /\ fate'[k] = fate[k]
  BY <1>0, AckExecEffect
<1>2. Drop(c, call[c].jobs) /\ UNCHANGED <<clock, dead>>
  BY <1>0, AckExecEffect
<1>3. \A d \in Consumer, k \in Job \cap A : ~Holds(d, k)'
  BY <1>1, <1>2, SettledIsFree
<1>4. \A d \in Consumer, k \in Job : lease'[d][k] \in {lease[d][k], Null}
  BY <1>0, <1>2, DropEffect
<1>5. QED
  BY <1>0, <1>1, <1>2, <1>3, <1>4, LeasesKept

(* Retry and Fail, of a job the consumer still owns. *)
LEMMA SettleLeases ==
    ASSUME LeaseInv, OwnNames, NEW c \in Consumer, NEW j \in Job,
           OwnsNow(c, j), Drop(c, {j}), clock' = clock,
           \A k \in Job \ {j} :
              live'[k] = live[k] /\ dead'[k] = dead[k] /\ fate'[k] = fate[k]
    PROVE  LeaseBacked' /\ ExclusiveLease'
<1>1. \A d \in Consumer, k \in Job \cap {j} : ~Holds(d, k)'
  BY SettledIsFree DEF OwnsNow
<1>2. \A d \in Consumer, k \in Job : lease'[d][k] \in {lease[d][k], Null}
  BY DropEffect DEF LeaseInv, QueueInv
<1>3. clock' \in Nat /\ clock <= clock'
  BY DEF LeaseInv, QueueInv, TypeOK
<1>4. QED
  BY <1>1, <1>2, <1>3, LeasesKept

LEMMA HeartbeatExecLeases ==
    ASSUME LeaseInv, OwnNames, NEW c \in Consumer, HeartbeatExec(c)
    PROVE  LeaseBacked' /\ ExclusiveLease'
<1>0. TypeOK
  BY DEF LeaseInv, QueueInv
<1>1. PICK X \in SUBSET Job : Extended(c, X)
  BY <1>0, HeartbeatExecEffect
<1>2. UNCHANGED <<clock, dead, fate>>
  BY <1>0, HeartbeatExecEffect
<1>3. \A k \in X : /\ live'[k].state = "processing"
                   /\ live'[k].worker = workerOf[c]
                   /\ live'[k].claimExpiresAt = lease'[c][k]
  BY <1>1, OwnedIsClaimed DEF Extended, Owned, LeaseInv, QueueInv
<1>4. \A k \in X, d \in Consumer : d # c => ~Holds(d, k)
  BY <1>1, OwnerAlone DEF Extended
<1>5. ASSUME NEW d \in Consumer, NEW k \in Job, Holds(d, k)', ~(d = c /\ k \in X)
      PROVE  k \notin X /\ Holds(d, k) /\ lease'[d][k] = lease[d][k]
  <2>1. clock' = clock /\ clock \in Nat /\ lease'[d][k] \in {lease[d][k], Null}
    BY <1>0, <1>1, <1>2, <1>5 DEF Extended, TypeOK
  <2>2. lease'[d][k] = lease[d][k] /\ Holds(d, k)
    BY <1>5, <2>1 DEF Holds
  <2>3. QED
    BY <1>4, <1>5, <2>2
<1>6. LeaseBacked'
  <2>1. SUFFICES ASSUME NEW d \in Consumer, NEW k \in Job, Holds(d, k)'
                 PROVE  \/ Revoked(k)'
                        \/ /\ live'[k].state = "processing"
                           /\ live'[k].worker = workerOf[d]
                           /\ live'[k].claimExpiresAt = lease'[d][k]
    BY DEF LeaseBacked
  <2>2. CASE d = c /\ k \in X
    BY <1>3, <2>2
  <2>3. CASE ~(d = c /\ k \in X)
    <3>1. Holds(d, k) /\ live'[k] = live[k] /\ lease'[d][k] = lease[d][k]
      BY <1>1, <1>5, <2>1, <2>3 DEF Extended
    <3>2. Revoked(k)' <=> Revoked(k)
      BY <1>2 DEF Revoked
    <3>3. QED
      BY <3>1, <3>2 DEF LeaseInv, LeaseBacked
  <2>4. QED
    BY <2>2, <2>3
<1>7. ExclusiveLease'
  BY <1>5 DEF LeaseInv, ExclusiveLease
<1>8. QED
  BY <1>6, <1>7

LEMMA ConsumerLeases ==
    ASSUME LeaseInv, OwnNames, NEW c \in Consumer, ConsumerStep(c)
    PROVE  LeaseBacked' /\ ExclusiveLease'
<1>0. TypeOK /\ clock \in Nat
  BY DEF LeaseInv, QueueInv, TypeOK
<1>1. CASE \/ \E n \in BatchSizes : ClaimBegin(c, n)
           \/ ClaimNone(c) \/ ClaimSelect(c)
           \/ \E S \in SUBSET Job : AckBegin(c, S)
           \/ \E j \in Job, e \in Extensions : HeartbeatBegin(c, j, e)
           \/ HeartbeatLock(c) \/ CallFails(c)
  <2>1. UNCHANGED <<clock, live, dead, lease, fate>>
    BY <1>1 DEF ClaimBegin, ClaimNone, ClaimSelect, AckBegin, HeartbeatBegin,
                HeartbeatLock, CallFails, tables, history
  <2>2. QED
    BY <1>0, <2>1, QuietLeases
<1>2. ASSUME NEW j \in Job, SettleLost(c, j)
      PROVE  LeaseBacked' /\ ExclusiveLease'
  <2>1. UNCHANGED <<clock, live, dead, fate>> /\ Drop(c, {j})
    BY <1>2 DEF SettleLost, tables, history
  <2>2. QED
    BY <1>0, <2>1, DropEffect, QuietLeases
<1>3. ASSUME NEW j \in Job, NEW d \in Delays, RetryAgain(c, j, d)
      PROVE  LeaseBacked' /\ ExclusiveLease'
  BY <1>0, <1>3, RetryAgainEffect, SettleLeases DEF OwnsNow
<1>4. ASSUME NEW j \in Job, RetryExhausted(c, j) \/ Fail(c, j)
      PROVE  LeaseBacked' /\ ExclusiveLease'
  <2>1. PICK cause \in {"exhausted", "failed"} : Bury({j}, cause)
    BY <1>4 DEF RetryExhausted, Fail
  <2>2. OwnsNow(c, j) /\ Drop(c, {j}) /\ clock' = clock
    BY <1>4 DEF RetryExhausted, Fail
  <2>3. \A k \in Job \ {j} :
           live'[k] = live[k] /\ dead'[k] = dead[k] /\ fate'[k] = fate[k]
    BY <2>1 DEF Bury
  <2>4. QED
    BY <2>2, <2>3, SettleLeases
<1>5. QED
  BY <1>1, <1>2, <1>3, <1>4, ClaimUpdateLeases, AckExecLeases, HeartbeatExecLeases
     DEF ConsumerStep

LEMMA NextLeaseInv ==
    ASSUME OneHandle, OwnNames, LeaseInv, [Next]_vars
    PROVE  LeaseInv'
<1>1. QueueInv'
  BY NextQueueInv DEF LeaseInv
<1>2. CASE Tick \/ UNCHANGED vars
  <2>1. /\ UNCHANGED <<live, dead, fate, lease>>
        /\ clock \in Nat /\ clock' \in Nat /\ clock <= clock'
    BY <1>2 DEF Tick, vars, tables, history, LeaseInv, QueueInv, TypeOK
  <2>2. QED
    BY <1>1, <2>1, QuietLeases DEF LeaseInv
<1>3. QED
  BY <1>1, <1>2, ProducerLeases, ConsumerLeases DEF LeaseInv, Next

(* One Database handle and a worker_id per consumer: LeaseInv holds in     *)
(* every reachable state, whatever the jobs, consumers, timeouts and       *)
(* delays (queue.go, ClaimBatch to SweepExpired).                          *)
THEOREM LeaseInvariant ==
    ASSUME OneHandle, OwnNames
    PROVE  Spec => []LeaseInv
<1>1. LeaseInv /\ [Next]_vars => LeaseInv'
  BY NextLeaseInv
<1>2. QED
  BY <1>1, InitLeaseInv, PTL DEF Spec

(* No two consumers hold an unexpired claim on one job. *)
THEOREM Exclusive ==
    ASSUME OneHandle, OwnNames
    PROVE  Spec => []ExclusiveLease
<1>1. LeaseInv => ExclusiveLease
  BY DEF LeaseInv
<1>2. QED
  BY <1>1, LeaseInvariant, PTL

(* A consumer that settles its job before the expiry it was told succeeds, *)
(* unless the job was cancelled or swept.                                  *)
THEOREM Backed ==
    ASSUME OneHandle, OwnNames
    PROVE  Spec => []LeaseBacked
<1>1. LeaseInv => LeaseBacked
  BY DEF LeaseInv
<1>2. QED
  BY <1>1, LeaseInvariant, PTL

-----------------------------------------------------------------------------
(***************************************************************************)
(* What the two tables keep however many handles have the file open, where *)
(* the leases above do not hold: no job is lost, copied, miscounted or     *)
(* buried early, and nobody settles another's claim.  And what they amount *)
(* to behind one handle: the abstract queue of WorkQueue.                  *)
(*                                                                         *)
(* ExactlyOnePlace and AttemptsAreDeliveries say nothing of a row's owner, *)
(* and Fail asks for nothing else before it buries a job: so Sound also    *)
(* says that an owned row is there and was delivered.                      *)
(***************************************************************************)

(* A job's row, its grave, its fate and its deliveries agree.              *)
Sound(row, grave, became, n) ==
    /\ Present(row) <=> became = "queued"
    /\ Present(row) => row.attempts = n
    /\ row.worker # NoWorker => Present(row) /\ n > 0
    /\ grave.cause # "none" <=> became = "dead"
    /\ grave.cause # "none" => grave.attempts = n
    /\ grave.cause = "exhausted" => n >= MaxAttempts
    /\ grave.cause \in {"exhausted", "failed"} => n > 0
    /\ became = "unborn" => n = 0

SoundJobs == \A j \in Job : Sound(live[j], dead[j], fate[j], deliveries[j])

TablesInv == TypeOK /\ SoundJobs

-----------------------------------------------------------------------------
LEMMA InitTables == Init => TablesInv
BY InitType DEF Init, TablesInv, SoundJobs, Sound, Present, NoRow, NoGrave

LEMMA TablesAlone ==
    ASSUME SoundJobs, UNCHANGED <<live, dead, fate, deliveries>>
    PROVE  SoundJobs'
BY DEF SoundJobs

LEMMA EnqueueTables ==
    ASSUME TablesInv, NEW p \in Process, NEW j \in Job, NEW d \in Delays,
           NEW t \in TTLs, NEW pr \in Priorities, Enqueue(p, j, d, t, pr)
    PROVE  SoundJobs'
<1>1. /\ Sound(live[j], dead[j], fate[j], deliveries[j])
      /\ fate[j] = "unborn" /\ deliveries[j] = 0
  BY DEF TablesInv, SoundJobs, Sound, Enqueue
<1>2. /\ live'[j].state = "pending" /\ live'[j].worker = NoWorker
      /\ live'[j].attempts = 0 /\ fate'[j] = "queued"
  BY DEF TablesInv, TypeOK, Enqueue, NoRow
<1>3. Sound(live'[j], dead'[j], fate'[j], deliveries'[j])
  BY <1>1, <1>2 DEF Sound, Present, Enqueue
<1>4. \A k \in Job : k # j => live'[k] = live[k] /\ fate'[k] = fate[k]
  BY DEF TablesInv, TypeOK, Enqueue
<1> QED  BY <1>3, <1>4 DEF TablesInv, SoundJobs, Enqueue

LEMMA CancelTables ==
    ASSUME TablesInv, NEW p \in Process, NEW j \in Job, Cancel(p, j)
    PROVE  SoundJobs'
<1>1. Sound(live[j], dead[j], fate[j], deliveries[j]) /\ fate[j] = "queued"
  BY DEF TablesInv, SoundJobs, Sound, Cancel
<1>2. live'[j] = NoRow /\ fate'[j] = "cancelled"
  BY DEF TablesInv, TypeOK, Cancel
<1>3. Sound(live'[j], dead'[j], fate'[j], deliveries'[j])
  BY <1>1, <1>2 DEF Sound, Present, Cancel, NoRow
<1>4. \A k \in Job : k # j => live'[k] = live[k] /\ fate'[k] = fate[k]
  BY DEF TablesInv, TypeOK, Cancel
<1> QED  BY <1>3, <1>4 DEF TablesInv, SoundJobs, Cancel

(* Rows that are there may be buried, for being exhausted and for failing  *)
(* when they were delivered often enough.                                  *)
LEMMA BuryTables ==
    ASSUME TablesInv, NEW S, NEW cause \in {"exhausted", "failed", "expired"},
           Bury(S, cause), deliveries' = deliveries,
           \A j \in Job \cap S : Present(live[j]),
           cause # "expired" => \A j \in Job \cap S : deliveries[j] > 0,
           cause = "exhausted" => \A j \in Job \cap S : deliveries[j] >= MaxAttempts
    PROVE  SoundJobs'
<1> SUFFICES ASSUME NEW j \in Job
             PROVE  Sound(live'[j], dead'[j], fate'[j], deliveries'[j])
  BY DEF SoundJobs
<1>1. Sound(live[j], dead[j], fate[j], deliveries[j])
  BY DEF TablesInv, SoundJobs
<1>2. CASE j \in S
  <2>1. /\ live'[j] = NoRow /\ fate'[j] = "dead"
        /\ dead'[j] = [cause |-> cause, attempts |-> live[j].attempts]
    BY <1>2 DEF Bury
  <2>2. Present(live[j]) /\ fate[j] = "queued" /\ live[j].attempts = deliveries[j]
    BY <1>1, <1>2 DEF Sound
  <2> QED  BY <1>2, <2>1, <2>2 DEF Sound, Present, NoRow
<1>3. CASE j \notin S
  BY <1>1, <1>3 DEF Bury
<1> QED  BY <1>2, <1>3

(* Only a row that was delivered has an owner. *)
LEMMA OwnedWasDelivered ==
    ASSUME TablesInv, NEW c \in Consumer, NEW j \in Job, NEW t,
           Owned(live[j], workerOf[c], t)
    PROVE  Present(live[j]) /\ deliveries[j] > 0 /\ live[j].attempts = deliveries[j]
BY ConsumerAssumption, RowAssumption DEF TablesInv, SoundJobs, Sound, Owned

LEMMA ClaimUpdateTables ==
    ASSUME TablesInv, NEW c \in Consumer, ClaimUpdate(c)
    PROVE  SoundJobs'
<1> SUFFICES ASSUME NEW j \in Job
             PROVE  Sound(live'[j], dead'[j], fate'[j], deliveries'[j])
  BY DEF SoundJobs
<1>1. /\ Sound(live[j], dead[j], fate[j], deliveries[j])
      /\ live[j] \in Row /\ deliveries[j] \in Nat
      /\ UNCHANGED <<dead, fate>>
  BY DEF TablesInv, TypeOK, SoundJobs, ClaimUpdate
<1>2. CASE j \in Taken(c)
  <2>1. live'[j] = ClaimedRow(live[j], c) /\ deliveries'[j] = deliveries[j] + 1
    BY <1>2 DEF ClaimUpdate
  <2>2. Present(live[j]) /\ fate[j] = "queued" /\ live[j].attempts = deliveries[j]
    BY <1>1, <1>2 DEF Taken, Sound
  <2>3. /\ live'[j].state = "processing" /\ live'[j].attempts = live[j].attempts + 1
    BY <1>1, <2>1 DEF ClaimedRow, Claimed, Row
  <2> QED  BY <1>1, <2>1, <2>2, <2>3 DEF Sound, Present
<1>3. CASE j \notin Taken(c)
  BY <1>1, <1>3 DEF ClaimUpdate
<1> QED  BY <1>2, <1>3

LEMMA AckExecTables ==
    ASSUME TablesInv, NEW c \in Consumer, AckExec(c)
    PROVE  SoundJobs'
<1> SUFFICES ASSUME NEW j \in Job
             PROVE  Sound(live'[j], dead'[j], fate'[j], deliveries'[j])
  BY DEF SoundJobs
<1> DEFINE acked == {k \in call[c].jobs : Owned(live[k], workerOf[c], call[c].now)}
<1>1. /\ Sound(live[j], dead[j], fate[j], deliveries[j])
      /\ UNCHANGED <<dead, deliveries>>
  BY DEF TablesInv, SoundJobs, AckExec
<1>2. CASE j \in acked
  <2>1. live'[j] = NoRow /\ fate'[j] = "acked"
    BY <1>2 DEF AckExec
  <2>2. fate[j] = "queued"
    BY <1>1, <1>2, OwnedWasDelivered DEF Sound
  <2> QED  BY <1>1, <2>1, <2>2 DEF Sound, Present, NoRow
<1>3. CASE j \notin acked
  BY <1>1, <1>3 DEF AckExec
<1> QED  BY <1>2, <1>3

LEMMA RetryAgainTables ==
    ASSUME TablesInv, NEW c \in Consumer, NEW j \in Job, NEW d \in Delays,
           RetryAgain(c, j, d)
    PROVE  SoundJobs'
<1>1. /\ Sound(live[j], dead[j], fate[j], deliveries[j])
      /\ live[j] \in Row /\ live[j].state = "processing"
  BY DEF TablesInv, TypeOK, SoundJobs, RetryAgain
<1>2. /\ live'[j].state = "pending" /\ live'[j].worker = NoWorker
      /\ live'[j].attempts = live[j].attempts
  BY <1>1 DEF TablesInv, TypeOK, RetryAgain, Requeued, Row
<1>3. UNCHANGED <<dead, fate, deliveries>>
  BY DEF RetryAgain, history
<1>4. Sound(live'[j], dead'[j], fate'[j], deliveries'[j])
  BY <1>1, <1>2, <1>3 DEF Sound, Present
<1>5. \A k \in Job : k # j => live'[k] = live[k]
  BY DEF TablesInv, TypeOK, RetryAgain
<1> QED  BY <1>3, <1>4, <1>5 DEF TablesInv, SoundJobs

LEMMA HeartbeatExecTables ==
    ASSUME TablesInv, NEW c \in Consumer, HeartbeatExec(c)
    PROVE  SoundJobs'
<1> SUFFICES ASSUME NEW j \in Job
             PROVE  Sound(live'[j], dead'[j], fate'[j], deliveries'[j])
  BY DEF SoundJobs
<1>1. /\ Sound(live[j], dead[j], fate[j], deliveries[j]) /\ live[j] \in Row
      /\ UNCHANGED <<dead, fate, deliveries>>
  BY DEF TablesInv, TypeOK, SoundJobs, HeartbeatExec, history
<1>2. \/ live'[j] = live[j]
      \/ live'[j] = [live[j] EXCEPT !.claimExpiresAt = call[c].until]
  BY DEF HeartbeatExec
<1>3. /\ live'[j].state = live[j].state /\ live'[j].worker = live[j].worker
      /\ live'[j].attempts = live[j].attempts
  BY <1>1, <1>2 DEF Row
<1> QED  BY <1>1, <1>3 DEF Sound, Present

-----------------------------------------------------------------------------
LEMMA ProducerTables ==
    ASSUME TablesInv, NEW p \in Process, ProducerStep(p)
    PROVE  SoundJobs'
<1>1. CASE SweepExpired(p)
  <2>1. Bury({j \in Job : /\ Present(live[j])
                          /\ live[j].expiresAt # Null
                          /\ live[j].expiresAt < clock}, "expired")
    BY <1>1 DEF SweepExpired
  <2>2. deliveries' = deliveries
    BY <1>1 DEF SweepExpired
  <2> QED  BY <2>1, <2>2, BuryTables
<1>2. CASE Crash(p)
  BY <1>2, TablesAlone DEF TablesInv, Crash, tables, history
<1> QED  BY <1>1, <1>2, EnqueueTables, CancelTables DEF ProducerStep

LEMMA ConsumerTables ==
    ASSUME TablesInv, NEW c \in Consumer, ConsumerStep(c)
    PROVE  SoundJobs'
<1>1. CASE \/ \E n \in BatchSizes : ClaimBegin(c, n)
           \/ ClaimNone(c) \/ ClaimSelect(c)
           \/ \E S \in SUBSET Job : AckBegin(c, S)
           \/ \E j \in Job : SettleLost(c, j)
           \/ \E j \in Job, e \in Extensions : HeartbeatBegin(c, j, e)
           \/ HeartbeatLock(c) \/ CallFails(c)
  BY <1>1, TablesAlone
     DEF TablesInv, ClaimBegin, ClaimNone, ClaimSelect, AckBegin, SettleLost,
         HeartbeatBegin, HeartbeatLock, CallFails, tables, history
<1>2. ASSUME NEW j \in Job, RetryExhausted(c, j)
      PROVE  SoundJobs'
  <2>1. Bury({j}, "exhausted") /\ deliveries' = deliveries
    BY <1>2 DEF RetryExhausted
  <2>2. /\ Present(live[j]) /\ deliveries[j] > 0 /\ deliveries[j] >= MaxAttempts
    BY <1>2, OwnedWasDelivered DEF RetryExhausted, OwnsNow, Exhausted
  <2> QED  BY <2>1, <2>2, BuryTables
<1>3. ASSUME NEW j \in Job, Fail(c, j)
      PROVE  SoundJobs'
  <2>1. Bury({j}, "failed") /\ deliveries' = deliveries
    BY <1>3 DEF Fail
  <2>2. Present(live[j]) /\ deliveries[j] > 0
    BY <1>3, OwnedWasDelivered DEF Fail, OwnsNow
  <2> QED  BY <2>1, <2>2, BuryTables
<1> QED  BY <1>1, <1>2, <1>3, ClaimUpdateTables, AckExecTables, RetryAgainTables,
            HeartbeatExecTables
         DEF ConsumerStep

LEMMA NextTables == TablesInv /\ [Next]_vars => TablesInv'
<1> SUFFICES ASSUME TablesInv, [Next]_vars
             PROVE  TablesInv'
  OBVIOUS
<1>1. TypeOK'
  BY NextType DEF TablesInv
<1>2. CASE Tick \/ UNCHANGED vars
  BY <1>1, <1>2, TablesAlone DEF TablesInv, Tick, vars, tables, history
<1> QED  BY <1>1, <1>2, ProducerTables, ConsumerTables DEF TablesInv, Next

LEMMA SoundPlaces ==
    ASSUME TablesInv
    PROVE  ExactlyOnePlace /\ AttemptsAreDeliveries /\ DeadOnlyWhenSpent
<1>1. \A j \in Job : dead[j].cause \in {"none", "exhausted", "failed", "expired"}
  BY DEF TablesInv, TypeOK, Grave
<1>2. ExactlyOnePlace /\ AttemptsAreDeliveries
  BY DEF TablesInv, SoundJobs, Sound, ExactlyOnePlace, AttemptsAreDeliveries
<1>3. DeadOnlyWhenSpent
  BY <1>1 DEF TablesInv, SoundJobs, Sound, DeadOnlyWhenSpent
<1> QED  BY <1>2, <1>3

(* With any number of handles on the file, no Ack, Retry, Fail, sweep or   *)
(* failed call loses a job or leaves it in both tables (queue.go:515).     *)
THEOREM OnePlace == Spec => []ExactlyOnePlace
<1>1. TablesInv => ExactlyOnePlace
  BY SoundPlaces
<1> QED  BY <1>1, InitTables, NextTables, PTL DEF Spec

(* attempts counts the deliveries over every reclaim, by any handle        *)
(* (queue.go:246).                                                         *)
THEOREM AttemptsCount == Spec => []AttemptsAreDeliveries
<1>1. TablesInv => AttemptsAreDeliveries
  BY SoundPlaces
<1> QED  BY <1>1, InitTables, NextTables, PTL DEF Spec

(* Retry buries no job before MaxAttempts deliveries, and Fail none that   *)
(* was never delivered (queue.go:507).                                     *)
THEOREM DeadWhenSpent == Spec => []DeadOnlyWhenSpent
<1>1. TablesInv => DeadOnlyWhenSpent
  BY SoundPlaces
<1> QED  BY <1>1, InitTables, NextTables, PTL DEF Spec

-----------------------------------------------------------------------------
(* Who settles a claim.  A consumer that still has the handle to a job and *)
(* owns its row has seen the claim the row records, and an Ack under way   *)
(* is of jobs it has handles to.                                           *)

ClaimSeen ==
    \A c \in Consumer, j \in Job :
        lease[c][j] # Null /\ live[j].worker = workerOf[c]
        => lease[c][j] = live[j].claimExpiresAt

AcksItsOwn ==
    \A c \in Consumer :
        call[c].op = "ack" => \A j \in call[c].jobs : lease[c][j] # Null

HolderInv == TablesInv /\ ClaimSeen /\ AcksItsOwn

LEMMA InitHolder == Init => HolderInv
BY InitTables DEF Init, HolderInv, ClaimSeen, AcksItsOwn, Idle

(* Rows are left alone or disowned, leases kept or dropped, and no call    *)
(* goes on.                                                                *)
LEMMA ClaimSeenKept ==
    ASSUME ClaimSeen,
           \A j \in Job : live'[j] = live[j] \/ live'[j].worker = NoWorker,
           \A c \in Consumer, j \in Job : lease'[c][j] \in {lease[c][j], Null}
    PROVE  ClaimSeen'
BY ConsumerAssumption, RowAssumption DEF ClaimSeen

LEMMA CallOfOne ==
    ASSUME AcksItsOwn, NEW c \in Consumer, call'[c].op # "ack",
           \A d \in Consumer : d # c => call'[d] = call[d] /\ lease'[d] = lease[d]
    PROVE  AcksItsOwn'
BY DEF AcksItsOwn

LEMMA ReturnFrame ==
    ASSUME TypeOK, NEW c \in Consumer, call' = [call EXCEPT ![c] = Idle]
    PROVE  call'[c].op # "ack" /\ \A d \in Consumer : d # c => call'[d] = call[d]
BY DEF TypeOK, Idle

LEMMA ProducerHolder ==
    ASSUME HolderInv, NEW p \in Process, ProducerStep(p)
    PROVE  ClaimSeen' /\ AcksItsOwn'
<1>1. ASSUME NEW j \in Job, NEW d \in Delays, NEW t \in TTLs, NEW pr \in Priorities,
             Enqueue(p, j, d, t, pr)
      PROVE  ClaimSeen' /\ AcksItsOwn'
  <2>1. \A k \in Job : live'[k] = live[k] \/ live'[k].worker = NoWorker
    BY <1>1 DEF HolderInv, TablesInv, TypeOK, Enqueue, NoRow
  <2> QED  BY <1>1, <2>1, ClaimSeenKept DEF HolderInv, AcksItsOwn, Enqueue
<1>2. ASSUME NEW j \in Job, Cancel(p, j)
      PROVE  ClaimSeen' /\ AcksItsOwn'
  <2>1. \A k \in Job : live'[k] = live[k] \/ live'[k].worker = NoWorker
    BY <1>2 DEF HolderInv, TablesInv, TypeOK, Cancel, NoRow
  <2> QED  BY <1>2, <2>1, ClaimSeenKept DEF HolderInv, AcksItsOwn, Cancel
<1>3. CASE SweepExpired(p)
  <2>1. \A k \in Job : live'[k] = live[k] \/ live'[k].worker = NoWorker
    BY <1>3 DEF SweepExpired, Bury, NoRow
  <2> QED  BY <1>3, <2>1, ClaimSeenKept DEF HolderInv, AcksItsOwn, SweepExpired
<1>4. CASE Crash(p)
  <2>1. live' = live
    BY <1>4 DEF Crash, tables
  <2>2. \A c \in Consumer, j \in Job : lease'[c][j] \in {lease[c][j], Null}
    BY <1>4 DEF Crash
  <2>3. \A c \in Consumer : \/ call'[c].op # "ack"
                            \/ call'[c] = call[c] /\ lease'[c] = lease[c]
    BY <1>4 DEF Crash, Idle
  <2>4. ClaimSeen'
    BY <2>1, <2>2, ClaimSeenKept DEF HolderInv
  <2>5. AcksItsOwn'
    BY <2>3 DEF HolderInv, AcksItsOwn
  <2> QED  BY <2>4, <2>5
<1> QED  BY <1>1, <1>2, <1>3, <1>4 DEF ProducerStep

(* The claim a consumer is handed is the one its row records, and no other *)
(* consumer's name is on that row.                                         *)
LEMMA ClaimUpdateHolder ==
    ASSUME OwnNames, HolderInv, NEW c \in Consumer, ClaimUpdate(c)
    PROVE  ClaimSeen' /\ AcksItsOwn'
<1>1. ASSUME NEW d \in Consumer, NEW j \in Job,
             lease'[d][j] # Null, live'[j].worker = workerOf[d]
      PROVE  lease'[d][j] = live'[j].claimExpiresAt
  <2>1. CASE j \in Taken(c)
    <3>1. live[j] \in Row
      BY DEF HolderInv, TablesInv, TypeOK
    <3>2. live'[j].worker = workerOf[c]
          /\ live'[j].claimExpiresAt = call[c].now + VisibilityTimeout
      BY <2>1, <3>1 DEF ClaimUpdate, ClaimedRow, Claimed, Row
    <3>3. d = c
      BY <1>1, <3>2 DEF OwnNames
    <3>4. lease'[c][j] = call[c].now + VisibilityTimeout
      BY <2>1 DEF ClaimUpdate, HolderInv, TablesInv, TypeOK
    <3> QED  BY <3>2, <3>3, <3>4
  <2>2. CASE j \notin Taken(c)
    <3>1. live'[j] = live[j] /\ lease'[d][j] = lease[d][j]
      BY <2>2 DEF ClaimUpdate, HolderInv, TablesInv, TypeOK
    <3> QED  BY <1>1, <3>1 DEF HolderInv, ClaimSeen
  <2> QED  BY <2>1, <2>2
<1>2. \A d \in Consumer : d # c => lease'[d] = lease[d]
  BY DEF ClaimUpdate, HolderInv, TablesInv, TypeOK
<1>3. AcksItsOwn'
  <2>1. call' = [call EXCEPT ![c] = Idle]
    BY DEF ClaimUpdate, Return
  <2> QED  BY <1>2, <2>1, ReturnFrame, CallOfOne DEF HolderInv, TablesInv
<1> QED  BY <1>1, <1>3 DEF ClaimSeen

LEMMA HeartbeatExecHolder ==
    ASSUME OwnNames, HolderInv, NEW c \in Consumer, HeartbeatExec(c)
    PROVE  ClaimSeen' /\ AcksItsOwn'
<1> DEFINE extended == {j \in call[c].jobs :
                          Owned(live[j], workerOf[c], call[c].now)}
<1>1. ASSUME NEW d \in Consumer, NEW j \in Job,
             lease'[d][j] # Null, live'[j].worker = workerOf[d]
      PROVE  lease'[d][j] = live'[j].claimExpiresAt
  <2>1. CASE j \in extended
    <3>1. live[j] \in Row
      BY DEF HolderInv, TablesInv, TypeOK
    <3>2. live'[j] = [live[j] EXCEPT !.claimExpiresAt = call[c].until]
      BY <2>1 DEF HeartbeatExec
    <3>3. live'[j].worker = workerOf[c] /\ live'[j].claimExpiresAt = call[c].until
      BY <2>1, <3>1, <3>2 DEF Owned, Row
    <3>4. d = c
      BY <1>1, <3>3 DEF OwnNames
    <3>5. lease'[c][j] = call[c].until
      BY <2>1 DEF HeartbeatExec, HolderInv, TablesInv, TypeOK
    <3> QED  BY <3>3, <3>4, <3>5
  <2>2. CASE j \notin extended
    <3>1. live'[j] = live[j] /\ lease'[d][j] \in {lease[d][j], Null}
      BY <2>2 DEF HeartbeatExec, HolderInv, TablesInv, TypeOK
    <3> QED  BY <1>1, <3>1 DEF HolderInv, ClaimSeen
  <2> QED  BY <2>1, <2>2
<1>2. \A d \in Consumer : d # c => lease'[d] = lease[d]
  BY DEF HeartbeatExec, HolderInv, TablesInv, TypeOK
<1>3. AcksItsOwn'
  <2>1. call' = [call EXCEPT ![c] = Idle]
    BY DEF HeartbeatExec, Return
  <2> QED  BY <1>2, <2>1, ReturnFrame, CallOfOne DEF HolderInv, TablesInv
<1> QED  BY <1>1, <1>3 DEF ClaimSeen

(* Ack, Retry, Fail and their failures disown rows and drop handles. *)
LEMMA SettleHolder ==
    ASSUME HolderInv, NEW c \in Consumer,
           \/ AckExec(c)
           \/ \E j \in Job, d \in Delays : RetryAgain(c, j, d)
           \/ \E j \in Job : RetryExhausted(c, j) \/ Fail(c, j) \/ SettleLost(c, j)
    PROVE  ClaimSeen' /\ AcksItsOwn'
<1>0. TypeOK
  BY DEF HolderInv, TablesInv
<1>1. \A k \in Job : live'[k] = live[k] \/ live'[k].worker = NoWorker
  <2>1. CASE AckExec(c)
    BY <2>1 DEF AckExec, NoRow
  <2>2. ASSUME NEW j \in Job, NEW d \in Delays, RetryAgain(c, j, d)
        PROVE  \A k \in Job : live'[k] = live[k] \/ live'[k].worker = NoWorker
    <3>1. live[j] \in Row
      BY <1>0 DEF TypeOK
    <3>2. Requeued(live[j], clock + d).worker = NoWorker
      BY <3>1 DEF Requeued, Row
    <3> QED  BY <1>0, <2>2, <3>2 DEF RetryAgain, TypeOK
  <2>3. ASSUME NEW j \in Job, RetryExhausted(c, j) \/ Fail(c, j) \/ SettleLost(c, j)
        PROVE  \A k \in Job : live'[k] = live[k] \/ live'[k].worker = NoWorker
    BY <2>3 DEF RetryExhausted, Fail, SettleLost, Bury, NoRow, tables
  <2> QED  BY <2>1, <2>2, <2>3
<1>2. PICK S : Drop(c, S)
  BY DEF AckExec, RetryAgain, RetryExhausted, Fail, SettleLost
<1>3. ClaimSeen'
  BY <1>0, <1>1, <1>2, DropEffect, ClaimSeenKept DEF HolderInv
<1>4. call' = [call EXCEPT ![c] = Idle]
  <2>1. CASE AckExec(c)
    BY <2>1 DEF AckExec, Return
  <2>2. CASE ~AckExec(c)
    <3>1. call' = call /\ call[c] = Idle
      BY <2>2 DEF RetryAgain, RetryExhausted, Fail, SettleLost, MaySettle
    <3> QED  BY <1>0, <3>1 DEF TypeOK
  <2> QED  BY <2>1, <2>2
<1>5. AcksItsOwn'
  <2>1. \A d \in Consumer : d # c => lease'[d] = lease[d]
    BY <1>0, <1>2, DropEffect
  <2> QED  BY <1>0, <1>4, <2>1, ReturnFrame, CallOfOne DEF HolderInv
<1> QED  BY <1>3, <1>5

(* The steps that only move a call along. *)
LEMMA CallHolder ==
    ASSUME HolderInv, NEW c \in Consumer,
           \/ \E n \in BatchSizes : ClaimBegin(c, n)
           \/ ClaimNone(c) \/ ClaimSelect(c)
           \/ \E S \in SUBSET Job : AckBegin(c, S)
           \/ \E j \in Job, e \in Extensions : HeartbeatBegin(c, j, e)
           \/ HeartbeatLock(c) \/ CallFails(c)
    PROVE  ClaimSeen' /\ AcksItsOwn'
<1>0. TypeOK
  BY DEF HolderInv, TablesInv
<1>1. UNCHANGED <<live, lease>>
  BY DEF ClaimBegin, ClaimNone, ClaimSelect, AckBegin, HeartbeatBegin,
         HeartbeatLock, CallFails, tables
<1>2. ClaimSeen'
  BY <1>1 DEF HolderInv, ClaimSeen
<1>4. /\ \A d \in Consumer : d # c => call'[d] = call[d]
      /\ AckBegin(c, call'[c].jobs) \/ call'[c].op # "ack"
  <2>1. CASE \E n \in BatchSizes : ClaimBegin(c, n)
    BY <1>0, <2>1 DEF ClaimBegin, Begin, TypeOK, Idle
  <2>2. CASE ClaimNone(c) \/ CallFails(c)
    BY <1>0, <2>2, ReturnFrame DEF ClaimNone, CallFails, Return
  <2>3. CASE ClaimSelect(c)
    <3>1. PICK picked \in FirstOf(Candidates(call[c].now), call[c].size) :
             call' = [call EXCEPT ![c] = [call[c] EXCEPT !.op = "selected", !.jobs = picked]]
      BY <2>3 DEF ClaimSelect, Begin
    <3>2. call[c] \in Call
      BY <1>0 DEF TypeOK
    <3>3. [call[c] EXCEPT !.op = "selected", !.jobs = picked].op = "selected"
      BY <3>2 DEF Call
    <3> QED  BY <1>0, <3>1, <3>3 DEF TypeOK
  <2>4. CASE \E S \in SUBSET Job : AckBegin(c, S)
    <3>1. PICK S \in SUBSET Job : AckBegin(c, S)
      BY <2>4
    <3>2. call' = [call EXCEPT ![c] = [Idle EXCEPT !.op = "ack", !.now = clock, !.jobs = S]]
      BY <3>1 DEF AckBegin, Begin
    <3>3. [Idle EXCEPT !.op = "ack", !.now = clock, !.jobs = S].jobs = S
      BY DEF Idle
    <3>4. call'[c].jobs = S /\ \A d \in Consumer : d # c => call'[d] = call[d]
      BY <1>0, <3>2, <3>3 DEF TypeOK
    <3> QED  BY <3>1, <3>4
  <2>5. CASE \E j \in Job, e \in Extensions : HeartbeatBegin(c, j, e)
    BY <1>0, <2>5 DEF HeartbeatBegin, Begin, TypeOK, Idle
  <2>6. CASE HeartbeatLock(c)
    <3>1. call[c] \in Call
      BY <1>0 DEF TypeOK
    <3>2. [call[c] EXCEPT !.op = "extending", !.now = clock].op = "extending"
      BY <3>1 DEF Call
    <3> QED  BY <1>0, <2>6, <3>2 DEF HeartbeatLock, Begin, TypeOK
  <2> QED  BY <2>1, <2>2, <2>3, <2>4, <2>5, <2>6
<1>5. ASSUME call'[c].op # "ack"
      PROVE  AcksItsOwn'
  <2>1. \A d \in Consumer : d # c => call'[d] = call[d] /\ lease'[d] = lease[d]
    BY <1>1, <1>4
  <2>2. AcksItsOwn
    BY DEF HolderInv
  <2> QED  BY <1>5, <2>1, <2>2, CallOfOne
<1>6. ASSUME AckBegin(c, call'[c].jobs)
      PROVE  AcksItsOwn'
  <2>1. \A j \in call'[c].jobs : lease[c][j] # Null
    BY <1>6 DEF AckBegin, Handles
  <2> QED  BY <1>1, <1>4, <2>1 DEF HolderInv, AcksItsOwn
<1> QED  BY <1>2, <1>4, <1>5, <1>6

LEMMA NextHolder ==
    ASSUME OwnNames, HolderInv, [Next]_vars
    PROVE  HolderInv'
<1>1. TablesInv'
  BY NextTables DEF HolderInv
<1>2. CASE Tick \/ UNCHANGED vars
  BY <1>1, <1>2 DEF HolderInv, ClaimSeen, AcksItsOwn, Tick, vars, tables
<1> QED  BY <1>1, <1>2, ProducerHolder, ClaimUpdateHolder, HeartbeatExecHolder,
            SettleHolder, CallHolder
         DEF HolderInv, Next, ConsumerStep

(* A claimed job that is no longer so was acknowledged, retried, failed or *)
(* buried by the consumer that holds the handle, or cancelled, or swept.   *)
LEMMA StepSettles ==
    ASSUME HolderInv, [Next]_vars, NEW j \in Job,
           live[j].state = "processing", live'[j].state # "processing"
    PROVE  \/ fate'[j] = "cancelled"
           \/ dead'[j].cause = "expired"
           \/ \E c \in Consumer :
                 /\ workerOf[c] = live[j].worker
                 /\ lease[c][j] = live[j].claimExpiresAt
                 /\ lease'[c][j] = Null
<1>0. TypeOK /\ live[j] \in Row
  BY DEF HolderInv, TablesInv, TypeOK
<1>1. ASSUME NEW p \in Process, ProducerStep(p)
      PROVE  fate'[j] = "cancelled" \/ dead'[j].cause = "expired"
  <2>1. ASSUME NEW k \in Job, NEW d \in Delays, NEW t \in TTLs, NEW pr \in Priorities,
               Enqueue(p, k, d, t, pr)
        PROVE  FALSE
    <3>1. ~Present(live[k])
      BY <2>1 DEF Enqueue, HolderInv, TablesInv, SoundJobs, Sound
    <3>2. j # k
      BY <3>1 DEF Present
    <3> QED  BY <1>0, <2>1, <3>2 DEF Enqueue, TypeOK
  <2>2. ASSUME NEW k \in Job, Cancel(p, k)
        PROVE  fate'[j] = "cancelled"
    BY <1>0, <2>2 DEF Cancel, TypeOK
  <2>3. CASE SweepExpired(p)
    BY <2>3 DEF SweepExpired, Bury
  <2>4. CASE Crash(p)
    BY <2>4 DEF Crash, tables
  <2> QED  BY <1>1, <2>1, <2>2, <2>3, <2>4 DEF ProducerStep
<1>2. ASSUME NEW c \in Consumer, ConsumerStep(c)
      PROVE  /\ workerOf[c] = live[j].worker
             /\ lease[c][j] = live[j].claimExpiresAt
             /\ lease'[c][j] = Null
  <2> SUFFICES live[j].worker = workerOf[c] /\ lease[c][j] # Null /\ lease'[c][j] = Null
    BY DEF HolderInv, ClaimSeen
  <2>1. CASE ClaimUpdate(c)
    <3>1. ClaimedRow(live[j], c).state = "processing"
      BY <1>0 DEF ClaimedRow, Claimed, Row
    <3> QED  BY <2>1, <3>1 DEF ClaimUpdate
  <2>2. CASE HeartbeatExec(c)
    <3>1. [live[j] EXCEPT !.claimExpiresAt = call[c].until].state = live[j].state
      BY <1>0 DEF Row
    <3> QED  BY <2>2, <3>1 DEF HeartbeatExec
  <2>3. CASE AckExec(c)
    <3>1. j \in call[c].jobs /\ Owned(live[j], workerOf[c], call[c].now)
      BY <2>3 DEF AckExec
    <3>2. lease'[c][j] = Null
      BY <1>0, <2>3, <3>1, DropEffect DEF AckExec
    <3> QED  BY <2>3, <3>1, <3>2 DEF AckExec, Owned, HolderInv, AcksItsOwn
  <2>4. ASSUME NEW k \in Job,
               (\E d \in Delays : RetryAgain(c, k, d)) \/ RetryExhausted(c, k) \/ Fail(c, k)
        PROVE  live[j].worker = workerOf[c] /\ lease[c][j] # Null /\ lease'[c][j] = Null
    <3>1. k = j
      BY <1>0, <2>4 DEF RetryAgain, RetryExhausted, Fail, Bury, TypeOK
    <3>2. Drop(c, {j})
      BY <2>4, <3>1 DEF RetryAgain, RetryExhausted, Fail
    <3>3. lease'[c][j] = Null
      BY <1>0, <3>2, DropEffect
    <3> QED  BY <2>4, <3>1, <3>3
             DEF RetryAgain, RetryExhausted, Fail, MaySettle, OwnsNow, Owned, Handles
  <2>5. CASE \/ \E n \in BatchSizes : ClaimBegin(c, n)
             \/ ClaimNone(c) \/ ClaimSelect(c)
             \/ \E S \in SUBSET Job : AckBegin(c, S)
             \/ \E k \in Job : SettleLost(c, k)
             \/ \E k \in Job, e \in Extensions : HeartbeatBegin(c, k, e)
             \/ HeartbeatLock(c) \/ CallFails(c)
    BY <2>5 DEF ClaimBegin, ClaimNone, ClaimSelect, AckBegin, SettleLost,
                HeartbeatBegin, HeartbeatLock, CallFails, tables
  <2> QED  BY <1>2, <2>1, <2>2, <2>3, <2>4, <2>5 DEF ConsumerStep
<1>3. CASE Tick \/ UNCHANGED vars
  BY <1>3 DEF Tick, vars, tables
<1> QED  BY <1>1, <1>2, <1>3 DEF Next

(* Whoever's claim was taken over changes nothing with a late Ack, Retry   *)
(* or Fail, with any number of handles, as long as no two consumers use    *)
(* one worker_id (queue.go:407).                                           *)
THEOREM HolderSettles ==
    ASSUME OwnNames
    PROVE  Spec => OnlyTheHolderSettles
<1>1. HolderInv /\ [Next]_vars => HolderInv'
  BY NextHolder
<1>2. HolderInv /\ [Next]_vars =>
        [\A j \in Job :
          live[j].state = "processing" /\ live'[j].state # "processing" =>
              \/ fate'[j] = "cancelled"
              \/ dead'[j].cause = "expired"
              \/ \E c \in Consumer :
                    /\ workerOf[c] = live[j].worker
                    /\ lease[c][j] = live[j].claimExpiresAt
                    /\ lease'[c][j] = Null]_vars
  BY StepSettles
<1> QED  BY <1>1, <1>2, InitHolder, PTL DEF Spec, OnlyTheHolderSettles

-----------------------------------------------------------------------------
(* The tables implement the abstract queue: each step of one handle's      *)
(* consumers is a step of WorkQueue on the jobs it changes, or none.       *)

LEMMA InitQueue == Init => WQ!Init
BY DEF Init, WQ!Init, StatusOf, NoRow

(* The jobs of S go to one status; no other row or fate changes. *)
LEMMA Moves ==
    ASSUME NEW S, NEW st, clock' = clock,
           \A k \in Job \cap S : StatusOf(k)' = st,
           \A k \in Job \ S : live'[k] = live[k] /\ fate'[k] = fate[k]
    PROVE  WQ!Move(S, st)
<1>1. \A k \in Job \ S : StatusOf(k)' = StatusOf(k)
  BY DEF StatusOf
<1>2. [k \in Job |-> StatusOf(k)]'
        = [k \in Job |-> IF k \in S THEN st ELSE [i \in Job |-> StatusOf(i)][k]]
  BY <1>1
<1> QED  BY <1>2 DEF WQ!Move

(* Rows that end with no owner and no claim are released. *)
LEMMA Releases ==
    ASSUME NEW S \in SUBSET Job,
           \A k \in S : live'[k].worker = NoWorker /\ live'[k].claimExpiresAt = Null
    PROVE  WQ!Release(S)
BY DEF WQ!Release

(* What a row says of the status of its job. *)
LEMMA RowStatus ==
    ASSUME QueueInv, NEW j \in Job, Present(live[j])
    PROVE  /\ fate[j] = "queued"
           /\ live[j].state = "pending" => StatusOf(j) = "waiting"
           /\ live[j].state = "processing" => StatusOf(j) = "leased"
           /\ live[j].state \in {"pending", "processing"}
<1>1. fate[j] = "queued" /\ live[j] \in Row
  BY DEF QueueInv, ExactlyOnePlace, TypeOK
<1>2. live[j].state \in {"pending", "processing"}
  BY <1>1 DEF Row, Present
<1> QED  BY <1>1, <1>2 DEF StatusOf

(* An owned row is leased to the worker_id it is under. *)
LEMMA OwnedIsHeld ==
    ASSUME QueueInv, NEW c \in Consumer, NEW S \in SUBSET Job, NEW t,
           \A k \in S : Owned(live[k], workerOf[c], t)
    PROVE  WQ!HeldBy(workerOf[c], S)
<1>1. \A k \in S : /\ live[k].state = "processing" /\ Present(live[k])
                   /\ live[k].worker = workerOf[c]
  BY OwnedIsClaimed DEF QueueInv, Owned
<1>2. \A k \in S : StatusOf(k) = "leased"
  BY <1>1, RowStatus
<1> QED  BY <1>1, <1>2 DEF WQ!HeldBy

LEMMA PresentIsLive ==
    ASSUME QueueInv, NEW S \in SUBSET Job, \A k \in S : Present(live[k])
    PROVE  WQ!Live(S)
<1>1. \A k \in S : StatusOf(k) \in {"waiting", "leased"}
  BY RowStatus
<1> QED  BY <1>1 DEF WQ!Live

(* Burying rows moves their jobs to "buried" and releases them. *)
LEMMA BuryMoves ==
    ASSUME NEW S \in SUBSET Job, NEW cause, Bury(S, cause), clock' = clock
    PROVE  WQ!Move(S, "buried") /\ WQ!Release(S)
<1>1. \A k \in S : live'[k] = NoRow /\ fate'[k] = "dead"
  BY DEF Bury
<1>2. \A k \in Job \ S : live'[k] = live[k] /\ fate'[k] = fate[k]
  BY DEF Bury
<1>3. \A k \in Job \cap S : StatusOf(k)' = "buried"
  BY <1>1 DEF StatusOf
<1>4. WQ!Release(S)
  BY <1>1, Releases DEF NoRow
<1> QED  BY <1>2, <1>3, <1>4, Moves

LEMMA EnqueueSubmits ==
    ASSUME QueueInv, NEW p \in Process, NEW j \in Job, NEW d \in Delays,
           NEW t \in TTLs, NEW pr \in Priorities, Enqueue(p, j, d, t, pr)
    PROVE  WQ!Submit(j)
<1>1. /\ fate[j] = "unborn" /\ fate'[j] = "queued" /\ clock' = clock
      /\ live'[j].state = "pending" /\ live'[j].worker = NoWorker
      /\ live'[j].claimExpiresAt = Null
      /\ \A k \in Job \ {j} : live'[k] = live[k] /\ fate'[k] = fate[k]
  BY EnqueueEffect DEF QueueInv
<1>2. StatusOf(j) = "new" /\ StatusOf(j)' = "waiting"
  BY <1>1 DEF StatusOf
<1>3. WQ!Move({j}, "waiting")
  BY <1>1, <1>2, Moves
<1>4. WQ!Release({j})
  BY <1>1, Releases
<1> QED  BY <1>2, <1>3, <1>4 DEF WQ!Submit

LEMMA UpdateTakes ==
    ASSUME QueueInv, NEW c \in Consumer, ClaimUpdate(c)
    PROVE  WQ!Take(workerOf[c], Taken(c))
<1>1. PICK T : T = Taken(c)
  OBVIOUS
<1>2. /\ T \in SUBSET Job /\ call[c].op = "selected"
      /\ UNCHANGED <<clock, fate>>
      /\ \A k \in Job \ T : live'[k] = live[k]
  BY <1>1, ClaimUpdateEffect DEF QueueInv
<1>3. \A k \in T : /\ Present(live[k])
                   /\ live'[k].state = "processing"
                   /\ live'[k].worker = workerOf[c]
                   /\ live'[k].runAt = live[k].runAt
  BY <1>1, ClaimUpdateEffect DEF QueueInv
<1>4. \A k \in T : fate[k] = "queued"
  BY <1>2, <1>3, RowStatus
<1>5. \A k \in Job \cap T : StatusOf(k)' = "leased"
  BY <1>2, <1>3, <1>4 DEF StatusOf
<1>6. WQ!Move(T, "leased")
  BY <1>2, <1>5, Moves
<1>7. \A k \in T : WQ!Leasable(k)
  <2>1. SUFFICES ASSUME NEW k \in T PROVE WQ!Leasable(k)
    OBVIOUS
  <2>2. \/ live[k].state = "pending" /\ live[k].runAt <= clock
        \/ live[k].state = "processing" /\ live[k].claimExpiresAt < clock
    BY <1>1, <1>2, TakenIsReady
  <2>3. /\ live[k].state = "pending" => StatusOf(k) = "waiting"
        /\ live[k].state = "processing" => StatusOf(k) = "leased"
    BY <1>2, <1>3, RowStatus
  <2> QED  BY <1>2, <2>2, <2>3 DEF WQ!Leasable
<1> QED  BY <1>1, <1>2, <1>3, <1>6, <1>7 DEF WQ!Take

LEMMA AckFinishes ==
    ASSUME QueueInv, NEW c \in Consumer, AckExec(c)
    PROVE  \E S \in SUBSET Job : WQ!Finish(workerOf[c], S)
<1>1. PICK A \in SUBSET Job :
         /\ \A k \in A : Owned(live[k], workerOf[c], call[c].now)
         /\ \A k \in A : live'[k] = NoRow /\ fate'[k] = "acked"
         /\ \A k \in Job \ A : live'[k] = live[k] /\ fate'[k] = fate[k]
  BY AckExecEffect DEF QueueInv
<1>2. WQ!HeldBy(workerOf[c], A)
  BY <1>1, OwnedIsHeld
<1>3. WQ!Move(A, "finished")
  <2>1. \A k \in Job \cap A : StatusOf(k)' = "finished"
    BY <1>1 DEF StatusOf
  <2> QED  BY <1>1, <2>1, Moves DEF AckExec
<1>4. WQ!Release(A)
  BY <1>1, Releases DEF NoRow
<1> QED  BY <1>2, <1>3, <1>4 DEF WQ!Finish

LEMMA RetryGivesBack ==
    ASSUME QueueInv, NEW c \in Consumer, NEW j \in Job, NEW d \in Delays,
           RetryAgain(c, j, d)
    PROVE  WQ!GiveBack(workerOf[c], {j})
<1>1. /\ Owned(live[j], workerOf[c], clock)
      /\ UNCHANGED <<clock, fate>>
      /\ \A k \in Job \ {j} : live'[k] = live[k]
      /\ live'[j].state = "pending" /\ live'[j].worker = NoWorker
      /\ live'[j].claimExpiresAt = Null
  BY RetryAgainEffect DEF QueueInv
<1>2. fate[j] = "queued"
  BY <1>1, OwnedIsClaimed, RowStatus DEF QueueInv
<1>3. StatusOf(j)' = "waiting"
  BY <1>1, <1>2 DEF StatusOf
<1>4. WQ!Move({j}, "waiting")
  BY <1>1, <1>3, Moves
<1>5. WQ!Release({j})
  BY <1>1, Releases
<1>6. WQ!HeldBy(workerOf[c], {j})
  BY <1>1, OwnedIsHeld
<1> QED  BY <1>4, <1>5, <1>6 DEF WQ!GiveBack

LEMMA SettleBuries ==
    ASSUME QueueInv, NEW c \in Consumer, NEW j \in Job,
           RetryExhausted(c, j) \/ Fail(c, j)
    PROVE  WQ!Bury(workerOf[c], {j})
<1>1. PICK cause : Bury({j}, cause)
  BY DEF RetryExhausted, Fail
<1>2. Owned(live[j], workerOf[c], clock) /\ clock' = clock
  <2>1. CASE RetryExhausted(c, j)
    BY <2>1 DEF RetryExhausted, OwnsNow
  <2>2. CASE Fail(c, j)
    BY <2>2 DEF Fail, OwnsNow
  <2> QED  BY <2>1, <2>2
<1>3. WQ!HeldBy(workerOf[c], {j})
  BY <1>2, OwnedIsHeld
<1>4. WQ!Move({j}, "buried") /\ WQ!Release({j})
  BY <1>1, <1>2, BuryMoves
<1> QED  BY <1>3, <1>4 DEF WQ!Bury

LEMMA HeartbeatExtends ==
    ASSUME QueueInv, NEW c \in Consumer, HeartbeatExec(c)
    PROVE  \E S \in SUBSET Job : WQ!Extend(workerOf[c], S)
<1>1. PICK X \in SUBSET Job : Extended(c, X)
  BY HeartbeatExecEffect DEF QueueInv
<1>2. UNCHANGED <<clock, fate>>
  BY HeartbeatExecEffect DEF QueueInv
<1>3. WQ!HeldBy(workerOf[c], X)
  BY <1>1, OwnedIsHeld DEF Extended
<1>4. \A k \in X : live[k].state = "processing" /\ fate[k] = "queued"
  BY <1>1, OwnedIsClaimed, RowStatus DEF Extended, QueueInv
<1>5. \A k \in Job \cap X : StatusOf(k)' = "leased"
  BY <1>1, <1>2, <1>4 DEF StatusOf, Extended
<1>6. WQ!Move(X, "leased")
  BY <1>1, <1>2, <1>5, Moves DEF Extended
<1>7. \A k \in X : live'[k].worker = workerOf[c] /\ live'[k].runAt = live[k].runAt
  BY <1>1 DEF Extended, Owned
<1> QED  BY <1>3, <1>6, <1>7 DEF WQ!Extend

LEMMA CancelWithdraws ==
    ASSUME QueueInv, NEW p \in Process, NEW j \in Job, Cancel(p, j)
    PROVE  WQ!Withdraw({j})
<1>1. /\ Present(live[j]) /\ clock' = clock
      /\ live'[j] = NoRow /\ fate'[j] = "cancelled"
      /\ \A k \in Job \ {j} : live'[k] = live[k] /\ fate'[k] = fate[k]
  BY CancelEffect DEF QueueInv
<1>2. StatusOf(j)' = "withdrawn"
  BY <1>1 DEF StatusOf
<1>3. WQ!Move({j}, "withdrawn")
  BY <1>1, <1>2, Moves
<1>4. WQ!Release({j})
  BY <1>1, Releases DEF NoRow
<1>5. WQ!Live({j})
  BY <1>1, PresentIsLive
<1> QED  BY <1>3, <1>4, <1>5 DEF WQ!Withdraw

LEMMA SweepExpires ==
    ASSUME QueueInv, NEW p \in Process, SweepExpired(p)
    PROVE  \E S \in SUBSET Job : WQ!Expire(S)
<1>1. PICK S \in SUBSET Job : (\A k \in S : Present(live[k])) /\ Bury(S, "expired")
  BY SweepEffect
<1>2. WQ!Move(S, "buried") /\ WQ!Release(S)
  BY <1>1, BuryMoves, SweepEffect
<1>3. WQ!Live(S)
  BY <1>1, PresentIsLive
<1> QED  BY <1>2, <1>3 DEF WQ!Expire

(* A step that changes no row, no fate and no time changes nothing there. *)
LEMMA Stutters ==
    ASSUME UNCHANGED <<clock, live, fate>>
    PROVE  UNCHANGED WQ!vars
<1>1. [j \in Job |-> StatusOf(j)]' = [j \in Job |-> StatusOf(j)]
  BY DEF StatusOf
<1> QED  BY <1>1 DEF WQ!vars, WQ!jobVars

LEMMA StepOfQueue ==
    ASSUME QueueInv, [Next]_vars
    PROVE  [WQ!Next]_(WQ!vars)
<1>1. ASSUME NEW p \in Process, ProducerStep(p)
      PROVE  [WQ!Next]_(WQ!vars)
  <2>1. CASE Crash(p)
    BY <2>1, Stutters DEF Crash, tables, history
  <2>2. ASSUME NEW j \in Job, NEW d \in Delays, NEW t \in TTLs, NEW pr \in Priorities,
               Enqueue(p, j, d, t, pr)
        PROVE  WQ!Next
    BY <2>2, EnqueueSubmits DEF WQ!Next
  <2>3. ASSUME NEW j \in Job, Cancel(p, j)
        PROVE  WQ!Next
    BY <2>3, CancelWithdraws DEF WQ!Next
  <2>4. CASE SweepExpired(p)
    BY <2>4, SweepExpires DEF WQ!Next
  <2> QED  BY <1>1, <2>1, <2>2, <2>3, <2>4 DEF ProducerStep
<1>2. ASSUME NEW c \in Consumer, ConsumerStep(c)
      PROVE  [WQ!Next]_(WQ!vars)
  <2>0. workerOf[c] \in WorkerID
    BY ConsumerAssumption
  <2>1. CASE ClaimUpdate(c)
    <3>1. Taken(c) \in SUBSET Job
      BY <2>1, ClaimUpdateEffect DEF QueueInv
    <3>2. WQ!HolderStep(workerOf[c], Taken(c))
      BY <2>1, UpdateTakes DEF WQ!HolderStep
    <3> QED  BY <2>0, <3>1, <3>2 DEF WQ!Next
  <2>2. CASE AckExec(c)
    BY <2>0, <2>2, AckFinishes DEF WQ!Next, WQ!HolderStep
  <2>3. CASE HeartbeatExec(c)
    BY <2>0, <2>3, HeartbeatExtends DEF WQ!Next, WQ!HolderStep
  <2>4. ASSUME NEW j \in Job, NEW d \in Delays, RetryAgain(c, j, d)
        PROVE  WQ!Next
    <3>1. {j} \in SUBSET Job /\ WQ!HolderStep(workerOf[c], {j})
      BY <2>4, RetryGivesBack DEF WQ!HolderStep
    <3> QED  BY <2>0, <3>1 DEF WQ!Next
  <2>5. ASSUME NEW j \in Job, RetryExhausted(c, j) \/ Fail(c, j)
        PROVE  WQ!Next
    <3>1. {j} \in SUBSET Job /\ WQ!HolderStep(workerOf[c], {j})
      BY <2>5, SettleBuries DEF WQ!HolderStep
    <3> QED  BY <2>0, <3>1 DEF WQ!Next
  <2>6. CASE \/ \E n \in BatchSizes : ClaimBegin(c, n)
             \/ ClaimNone(c) \/ ClaimSelect(c)
             \/ \E S \in SUBSET Job : AckBegin(c, S)
             \/ \E j \in Job : SettleLost(c, j)
             \/ \E j \in Job, e \in Extensions : HeartbeatBegin(c, j, e)
             \/ HeartbeatLock(c) \/ CallFails(c)
    <3>1. UNCHANGED <<clock, live, fate>>
      BY <2>6 DEF ClaimBegin, ClaimNone, ClaimSelect, AckBegin, SettleLost,
                  HeartbeatBegin, HeartbeatLock, CallFails, tables, history
    <3> QED  BY <3>1, Stutters
  <2> QED  BY <1>2, <2>1, <2>2, <2>3, <2>4, <2>5, <2>6 DEF ConsumerStep
<1>3. CASE Tick
  <2>1. UNCHANGED <<live, fate>> /\ clock < MaxTime /\ clock' = clock + 1
    BY <1>3 DEF Tick, tables, history
  <2>2. UNCHANGED WQ!jobVars
    <3>1. [j \in Job |-> StatusOf(j)]' = [j \in Job |-> StatusOf(j)]
      BY <2>1 DEF StatusOf
    <3> QED  BY <2>1, <3>1 DEF WQ!jobVars
  <2> QED  BY <2>1, <2>2 DEF WQ!Next, WQ!Advance
<1>4. CASE UNCHANGED vars
  BY <1>4, Stutters DEF vars
<1> QED  BY <1>1, <1>2, <1>3, <1>4 DEF Next

(* What a user of one handle sees is the abstract queue: a claim takes     *)
(* only ready jobs and lapsed leases, and only the worker_id a lease is    *)
(* under ends it, unless the job is cancelled or swept (queue.go,          *)
(* ClaimBatch to SweepExpired).                                            *)
THEOREM Implements ==
    ASSUME OneHandle
    PROVE  Spec => ImplementsWorkQueue
<1>1. QueueInv /\ [Next]_vars => [WQ!Next]_(WQ!vars)
  BY StepOfQueue
<1> QED  BY <1>1, InitQueue, QueueInvariant, PTL DEF ImplementsWorkQueue, WQ!Spec, Spec

=============================================================================
