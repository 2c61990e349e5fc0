--------------------------- MODULE WorkersProofs ----------------------------
(***************************************************************************)
(* What the consuming loops of Workers tell of a job, what becomes of each *)
(* claim, and how loops respect each other's, for any number of jobs and   *)
(* loops.                                                                  *)
(***************************************************************************)
EXTENDS Workers, TLAPS

(* A Claims goroutine that is about to send has a job to send, and only    *)
(* then.                                                                   *)
Sending == \A l \in Loop : claims[l] = "sending" <=> hand[l] # NoJob

(* A body at work has a job, and its function is known to it only while it *)
(* waits for it.                                                           *)
AtWork ==
    \A l \in Loop :
        /\ body[l] \notin {"idle", "out"} => job[l] # NoJob
        /\ task[l] # "none" => body[l] \in {"running", "grace", "racing"}

Inv == TypeOK /\ Sending /\ AtWork

(* The steps of a body before it settles its job, and after its loop.      *)
Works(l) ==
    \/ BodyStep(l) /\ ~Settle(l)
    \/ TaskEnds(l)
    \/ Unknown(l)
    \/ Break(l)
    \/ SaveFails(l)

-----------------------------------------------------------------------------
(* Types *)

USE DEF Null

LEMMA RowTypes ==
    /\ NoRow \in Row
    /\ [NoRow EXCEPT !.state = "pending"] \in Row
    /\ Null \in Int
BY DEF NoRow, Row

(* A row stays a row when one column takes another value of its type. *)
LEMMA RowColumns ==
    ASSUME NEW r \in Row
    PROVE  /\ \A v \in {"absent", "pending", "processing"} :
                 [r EXCEPT !.state = v] \in Row
           /\ \A v \in Int : /\ [r EXCEPT !.runAt = v] \in Row
                             /\ [r EXCEPT !.claimExpiresAt = v] \in Row
           /\ \A v \in WorkerID \cup {NoWorker} : [r EXCEPT !.worker = v] \in Row
           /\ \A v \in Nat : [r EXCEPT !.attempts = v] \in Row
BY DEF Row

(* What a claim leaves in a row: the attempt counted and the new deadline. *)
LEMMA ClaimedType ==
    ASSUME NEW r \in Row, NEW w \in WorkerID, NEW t \in Nat
    PROVE  /\ Claimed(r, w, t) \in Row
           /\ Claimed(r, w, t).attempts = r.attempts + 1
           /\ Claimed(r, w, t).claimExpiresAt = t + VisibilityTimeout
<1>1. t + VisibilityTimeout \in Int /\ r.attempts + 1 \in Nat
  BY RowAssumption DEF Row
<1>2. [r EXCEPT !.state = "processing"] \in Row
  BY RowColumns
<1>3. [[r EXCEPT !.state = "processing"] EXCEPT !.worker = w] \in Row
  BY <1>2, RowColumns
<1>4. [r EXCEPT !.state = "processing", !.worker = w,
                !.claimExpiresAt = t + VisibilityTimeout] \in Row
  BY <1>1, <1>3, RowColumns
<1>5. Claimed(r, w, t) \in Row
  BY <1>1, <1>4, RowColumns DEF Claimed
<1> QED  BY <1>5 DEF Claimed, Row

LEMMA RequeuedType ==
    ASSUME NEW r \in Row, NEW t \in Int
    PROVE  Requeued(r, t) \in Row
<1>1. [r EXCEPT !.state = "pending"] \in Row
  BY RowColumns
<1>2. [r EXCEPT !.state = "pending", !.runAt = t] \in Row
  BY <1>1, RowColumns
<1>3. [r EXCEPT !.state = "pending", !.runAt = t, !.worker = NoWorker] \in Row
  BY <1>2, RowColumns
<1> QED  BY <1>3, RowColumns, RowTypes DEF Requeued

LEMMA InitInv == Init => Inv
<1> SUFFICES ASSUME Init PROVE Inv
  OBVIOUS
<1>1. TypeOK
  BY RowTypes, LoopAssumption, BoundAssumption
  DEF Init, TypeOK, ClaimsStates, BodyStates, TaskStates
<1>2. Sending /\ AtWork
  BY DEF Init, Sending, AtWork
<1> QED  BY <1>1, <1>2 DEF Inv

LEMMA NameType ==
    ASSUME TypeOK, NEW l \in Loop
    PROVE  Name(l) \in WorkerID
BY LoopAssumption DEF Name

LEMMA IdType ==
    ASSUME NEW c \in Claim
    PROVE  Id(c) \in Job \X Nat /\ c # NoJob /\ c.job \in Job
           /\ c.attempt \in Nat \ {0}
BY DEF Id, Claim, NoJob

(* What a ClaimOne that finds job j does, for the lemmas to come. *)
LEMMA ClaimOneFacts ==
    ASSUME TypeOK, NEW l \in Loop, ClaimOne(l)
    PROVE  \E j \in Ready :
              /\ j \in Job
              /\ rows' = [rows EXCEPT ![j] = Claimed(@, Name(l), clock)]
              /\ rows' \in [Job -> Row]
              /\ rows'[j].attempts = rows[j].attempts + 1
              /\ hand'[l] = [job |-> j, attempt |-> rows'[j].attempts,
                             until |-> rows'[j].claimExpiresAt]
              /\ hand'[l] \in Claim
              /\ hand' = [hand EXCEPT ![l] = hand'[l]]
              /\ Id(hand'[l]) = <<j, rows[j].attempts + 1>>
              /\ given' = given \cup {Id(hand'[l])}
              /\ holder' = [holder EXCEPT ![j] = l]
<1>1. PICK j \in Ready :
          /\ rows' = [rows EXCEPT ![j] = Claimed(@, Name(l), clock)]
          /\ hand' = [hand EXCEPT ![l] = [job |-> j, attempt |-> rows'[j].attempts,
                                          until |-> rows'[j].claimExpiresAt]]
          /\ given' = given \cup {Id(hand'[l])}
          /\ holder' = [holder EXCEPT ![j] = l]
  BY DEF ClaimOne
<1>2. j \in Job
  BY DEF Ready
<1>3. hand'[l] = [job |-> j, attempt |-> rows'[j].attempts,
                  until |-> rows'[j].claimExpiresAt]
  BY <1>1 DEF TypeOK
<1>4. hand'[l] \in Claim /\ rows' \in [Job -> Row]
      /\ rows'[j].attempts = rows[j].attempts + 1
  <2>1. rows[j] \in Row /\ clock \in Nat /\ Name(l) \in WorkerID
    BY <1>2, NameType, BoundAssumption DEF TypeOK
  <2>2. rows'[j] = Claimed(rows[j], Name(l), clock)
    BY <1>1, <1>2 DEF TypeOK
  <2>3. rows'[j] \in Row /\ rows'[j].attempts = rows[j].attempts + 1
        /\ rows'[j].claimExpiresAt = clock + VisibilityTimeout
    BY <2>1, <2>2, ClaimedType
  <2>4. rows'[j].attempts \in Nat \ {0} /\ rows'[j].claimExpiresAt \in Nat
    BY <2>1, <2>3, RowAssumption DEF Row
  <2>5. rows' \in [Job -> Row]
    BY <1>1, <1>2, <2>2, <2>3 DEF TypeOK
  <2> QED  BY <1>2, <1>3, <2>3, <2>4, <2>5 DEF Claim
<1>5. Id(hand'[l]) = <<j, rows[j].attempts + 1>>
  BY <1>3, <1>4 DEF Id
<1>6. hand' = [hand EXCEPT ![l] = hand'[l]]
  BY <1>1, <1>3
<1> QED  BY <1>1, <1>2, <1>3, <1>4, <1>5, <1>6

LEMMA ClaimsInv ==
    ASSUME Inv, NEW l \in Loop, ClaimsStep(l) \/ ClaimFails(l)
    PROVE  Inv'
<1> USE DEF Inv, TypeOK, Sending, AtWork, Goes, ClaimsStates, table, claimsVars,
            bodyVars, history, outside
<1>1. CASE ClaimOne(l)
  <2>1. PICK j \in Ready :
              /\ j \in Job
              /\ rows' \in [Job -> Row]
              /\ hand'[l] \in Claim
              /\ hand' = [hand EXCEPT ![l] = hand'[l]]
              /\ given' = given \cup {Id(hand'[l])}
              /\ holder' = [holder EXCEPT ![j] = l]
    BY <1>1, ClaimOneFacts
  <2>2. Id(hand'[l]) \in Job \X Nat /\ hand'[l] # NoJob
    BY <2>1, IdType
  <2>3. claims' = [claims EXCEPT ![l] = "sending"]
        /\ UNCHANGED <<kind, clock, result, slot, body, job, task, fate, begun,
                       dropped, done, usurped, unsaved, cancelled, faults>>
    BY <1>1 DEF ClaimOne
  <2>4. TypeOK'
    BY <2>1, <2>2, <2>3
  <2>5. Sending' /\ AtWork'
    BY <2>1, <2>2, <2>3
  <2> QED  BY <2>4, <2>5
<1>2. CASE Abandon(l)
  <2>1. hand[l] \in Claim /\ Id(hand[l]) \in Job \X Nat
    BY <1>2, IdType DEF Abandon
  <2> QED  BY <1>2, <2>1 DEF Abandon
<1>3. CASE ClaimNone(l) \/ Wake(l) \/ Quit(l)
  BY <1>3 DEF ClaimNone, Wake, Quit
<1>4. CASE Send(l)
  BY <1>4 DEF Send
<1>5. CASE ClaimFails(l)
  BY <1>5, BoundAssumption DEF ClaimFails, Fails
<1> QED  BY <1>1, <1>2, <1>3, <1>4, <1>5 DEF ClaimsStep

LEMMA BodyInv ==
    ASSUME Inv, NEW l \in Loop, Works(l)
    PROVE  Inv'
<1> USE DEF Inv, TypeOK, Sending, AtWork, Enters, BodyStates, TaskStates, table,
            claimsVars, bodyVars, history, outside
<1>1. CASE Start(l) \/ Unknown(l)
  <2>1. slot[l] \in Claim /\ Id(slot[l]) \in Job \X Nat /\ slot[l] # NoJob
    BY <1>1, IdType DEF Start, Unknown, Receive
  <2> QED  BY <1>1, <2>1 DEF Start, Unknown, Receive
<1>2. CASE TaskEnds(l)
  <2>1. job[l] \in Claim /\ Id(job[l]) \in Job \X Nat
    BY <1>2, IdType DEF TaskEnds
  <2> QED  BY <1>2, <2>1 DEF TaskEnds
<1>3. CASE Returned(l)
  BY <1>3 DEF Returned, Leave
<1>4. CASE ContextDone(l) \/ GraceEnds(l) \/ JudgeRacing(l)
  BY <1>4 DEF ContextDone, GraceEnds, JudgeRacing, Leave
<1>5. CASE SaveResult(l) \/ SaveFails(l)
  <2>1. job[l] \in Claim /\ job[l].job \in Job /\ job[l].attempt \in Nat
    BY <1>5, IdType DEF SaveResult, SaveFails
  <2> QED  BY <1>5, <2>1, BoundAssumption DEF SaveResult, SaveFails, Fails
<1>6. CASE Finish(l) \/ Break(l)
  BY <1>6 DEF Finish, Break
<1> QED  BY <1>1, <1>2, <1>3, <1>4, <1>5, <1>6 DEF Works, BodyStep

(* What a settlement that finds its row does to the tables. *)
LEMMA SettleFacts ==
    ASSUME Inv, NEW l \in Loop,
           Ack(l) \/ Fail(l) \/ RetryAgain(l) \/ RetryExhausted(l)
    PROVE  /\ job[l] \in Claim /\ job[l].job \in Job
           /\ rows' \in [Job -> Row]
           /\ fate' \in [Job -> {"queued", "acked", "dead"}]
           /\ usurped' \subseteq Job \X Loop \X (Loop \cup {NoLoop})
           /\ NextJob(l)
           /\ UNCHANGED <<kind, clock, result, claims, hand, slot, given, begun,
                          dropped, done, holder, unsaved, cancelled, faults>>
<1> USE DEF Inv, TypeOK
<1>1. job[l] \in Claim /\ job[l].job \in Job /\ job[l].attempt \in Nat \ {0}
  BY IdType DEF Ack, Fail, RetryAgain, RetryExhausted, AtWork
<1>2. rows' \in [Job -> Row] /\ fate' \in [Job -> {"queued", "acked", "dead"}]
  <2>1. CASE Ack(l) \/ Fail(l) \/ RetryExhausted(l)
    BY <1>1, <2>1, RowTypes DEF Ack, Fail, RetryExhausted, Leaves
  <2>2. CASE RetryAgain(l)
    <3>1. Delays(l) \subseteq Int
      <4>1. Backoff(job[l].attempt) \in Int
        BY <1>1, BoundAssumption DEF Backoff
      <4>2. {Backoff(job[l].attempt)} \subseteq Int
        BY <4>1
      <4>3. RetryDelays \subseteq Int
        BY BoundAssumption
      <4> QED  BY <4>2, <4>3 DEF Delays
    <3>2. PICK delay \in Delays(l) :
            rows' = [rows EXCEPT ![job[l].job] = Requeued(@, clock + delay)]
      BY <2>2 DEF RetryAgain
    <3>3. clock + delay \in Int
      BY <3>1, <3>2, BoundAssumption
    <3>4. Requeued(rows[job[l].job], clock + delay) \in Row
      BY <1>1, <3>3, RequeuedType
    <3>5. rows' \in [Job -> Row]
      BY <1>1, <3>2, <3>4
    <3> QED  BY <2>2, <3>5 DEF RetryAgain
  <2> QED  BY <2>1, <2>2
<1>3. usurped' \subseteq Job \X Loop \X (Loop \cup {NoLoop})
  <2>1. Settled(l)
    BY DEF Ack, Fail, RetryAgain, RetryExhausted
  <2> QED  BY <1>1, <2>1 DEF Settled
<1> QED  BY <1>1, <1>2, <1>3 DEF Ack, Fail, RetryAgain, RetryExhausted,
         claimsVars, outside

LEMMA SettleInv ==
    ASSUME Inv, NEW l \in Loop, Settle(l) \/ SettleFails(l)
    PROVE  Inv'
<1> USE DEF Inv, TypeOK, Sending, AtWork, NextJob, Enters, BodyStates, TaskStates,
            table, claimsVars, history, outside
<1>1. CASE Ack(l) \/ Fail(l) \/ RetryAgain(l) \/ RetryExhausted(l)
  BY <1>1, SettleFacts
<1>2. CASE SettleLost(l)
  BY <1>2 DEF SettleLost
<1>3. CASE SettleFails(l)
  BY <1>3, BoundAssumption DEF SettleFails, Fails
<1> QED  BY <1>1, <1>2, <1>3 DEF Settle

LEMMA FaultInv ==
    ASSUME Inv, NEW l \in Loop, Cancel(l) \/ Crash(l)
    PROVE  Inv'
<1> USE DEF Inv, TypeOK, Sending, AtWork, NextJob, Enters, Goes, ClaimsStates,
            BodyStates, TaskStates, table, claimsVars, bodyVars, history, outside
<1>1. CASE Cancel(l)
  BY <1>1 DEF Cancel
<1>2. CASE Crash(l)
  <2>1. {Id(c) : c \in {hand[l], slot[l]} \ {NoJob}} \subseteq Job \X Nat
    BY IdType
  <2>2. dropped' \subseteq Job \X Nat /\ faults' \in 0..MaxFaults
    BY <1>2, <2>1, BoundAssumption DEF Crash, Fails
  <2> QED  BY <1>2, <2>2 DEF Crash
<1> QED  BY <1>1, <1>2

LEMMA StepInv == Inv /\ [Next]_vars => Inv'
<1> SUFFICES ASSUME Inv, [Next]_vars PROVE Inv'
  OBVIOUS
<1>1. CASE \E l \in Loop : \/ ClaimsStep(l) \/ BodyStep(l) \/ TaskEnds(l)
                           \/ Unknown(l) \/ Break(l) \/ Fault(l)
  <2>1. PICK l \in Loop : \/ ClaimsStep(l) \/ BodyStep(l) \/ TaskEnds(l)
                          \/ Unknown(l) \/ Break(l) \/ Fault(l)
    BY <1>1
  <2>2. CASE ClaimsStep(l) \/ ClaimFails(l)
    BY <2>2, ClaimsInv
  <2>3. CASE Settle(l) \/ SettleFails(l)
    BY <2>3, SettleInv
  <2>4. CASE Works(l)
    BY <2>4, BodyInv
  <2>5. CASE Cancel(l) \/ Crash(l)
    BY <2>5, FaultInv
  <2> QED  BY <2>1, <2>2, <2>3, <2>4, <2>5 DEF Fault, Works
<1>2. CASE Tick
  BY <1>2, BoundAssumption
  DEF Tick, Inv, TypeOK, Sending, AtWork, table, claimsVars, bodyVars, history,
      outside
<1>3. CASE UNCHANGED vars
  BY <1>3
  DEF vars, Inv, TypeOK, Sending, AtWork, table, claimsVars, bodyVars, history,
      outside
<1> QED  BY <1>1, <1>2, <1>3 DEF Next

(* Every variable keeps its type, and a goroutine that sends or works has  *)
(* a job for it.                                                           *)
THEOREM Typed == Spec => []Inv
BY InitInv, StepInv, PTL DEF Spec

(* Every variable keeps its type, whatever fails, ends or races. *)
THEOREM TypeCorrect == Spec => []TypeOK
<1>1. Inv => TypeOK
  BY DEF Inv
<1> QED  BY <1>1, Typed, PTL

-----------------------------------------------------------------------------
(* What is told of a job *)

(* A body about to store a result or acknowledge has a job that was done.  *)
Told ==
    \A l \in Loop :
        task[l] = "ok" \/ body[l] \in {"saving", "acking"} => Id(job[l]) \in done

(* A worker acknowledges after it has stored the result, or failed to. *)
Stored ==
    \A l \in Loop :
        kind = "workers" /\ body[l] = "acking"
        => result[job[l].job] # 0 \/ job[l].job \in unsaved

OutcomeInv == Told /\ Stored /\ OutcomeStands

LEMMA InitOutcome == Init => OutcomeInv
BY DEF Init, OutcomeInv, Told, Stored, OutcomeStands

(* What touches neither the tables nor the bodies keeps the outcome. *)
LEMMA QuietOutcome ==
    ASSUME Inv, OutcomeInv,
           UNCHANGED <<kind, result, body, job, task, fate, done, unsaved>>
    PROVE  OutcomeInv'
BY DEF OutcomeInv, Told, Stored, OutcomeStands, Id

(* A body that lets go of its job claims nothing of it. *)
LEMMA IdleOutcome ==
    ASSUME Inv, OutcomeInv, NEW l \in Loop, NextJob(l),
           UNCHANGED <<kind, result, fate, done, unsaved>>
    PROVE  OutcomeInv'
<1> USE DEF Inv, TypeOK, NextJob, Enters
<1>1. Told' /\ Stored'
  BY DEF OutcomeInv, Told, Stored, Id
<1>2. OutcomeStands'
  BY DEF OutcomeInv, OutcomeStands
<1> QED  BY <1>1, <1>2 DEF OutcomeInv

LEMMA BodyOutcome ==
    ASSUME Inv, OutcomeInv, NEW l \in Loop, Works(l)
    PROVE  OutcomeInv'
<1> USE DEF Inv, TypeOK, Enters, BodyStates, TaskStates, table, claimsVars, bodyVars,
            history, outside
<1>1. CASE Start(l) \/ Unknown(l)
  <2>1. body[l] = "idle" /\ task[l] = "none"
    BY <1>1 DEF Start, Unknown, Receive, AtWork
  <2>2. Told' /\ Stored'
    BY <1>1, <2>1 DEF Start, Unknown, Receive, OutcomeInv, Told, Stored, Id
  <2>3. OutcomeStands'
    BY <1>1 DEF Start, Unknown, Receive, OutcomeInv, OutcomeStands
  <2> QED  BY <2>2, <2>3 DEF OutcomeInv
<1>2. CASE TaskEnds(l)
  <2>1. done \subseteq done' /\ (task'[l] = "ok" => Id(job[l]) \in done')
    BY <1>2 DEF TaskEnds
  <2>2. Told' /\ Stored'
    BY <1>2, <2>1 DEF TaskEnds, OutcomeInv, Told, Stored, Id
  <2>3. OutcomeStands'
    BY <1>2, <2>1 DEF TaskEnds, OutcomeInv, OutcomeStands
  <2> QED  BY <2>2, <2>3 DEF OutcomeInv
<1>3. CASE Returned(l)
  BY <1>3 DEF Returned, Leave, OutcomeInv, Told, Stored, OutcomeStands, Id
<1>4. CASE ContextDone(l) \/ GraceEnds(l) \/ JudgeRacing(l)
  BY <1>4 DEF ContextDone, GraceEnds, JudgeRacing, Leave, OutcomeInv, Told, Stored,
              OutcomeStands, Id
<1>5. CASE SaveResult(l)
  <2>1. /\ job[l].job \in Job /\ job[l].attempt \in Nat \ {0}
        /\ Id(job[l]) = <<job[l].job, job[l].attempt>>
    <3>1. job[l] \in Claim
      BY <1>5 DEF SaveResult, AtWork
    <3> QED  BY <3>1, IdType DEF Id
  <2>2. <<job[l].job, job[l].attempt>> \in done
    BY <1>5, <2>1 DEF SaveResult, OutcomeInv, Told
  <2>3. /\ result' = [result EXCEPT ![job[l].job] = job[l].attempt]
        /\ body' = [body EXCEPT ![l] = "acking"]
        /\ UNCHANGED <<kind, job, task, fate, done, unsaved>>
    BY <1>5 DEF SaveResult
  <2>4. \A j \in Job : result[j] # 0 => result'[j] # 0
    BY <2>1, <2>3
  <2>5. Told'
    BY <1>5, <2>3 DEF SaveResult, OutcomeInv, Told, Id
  <2>6. Stored'
    <3>1. result'[job[l].job] # 0
      BY <2>1, <2>3
    <3>2. \A k \in Loop : body[k] = "acking" => job[k].job \in Job
      BY IdType DEF AtWork
    <3> QED  BY <2>3, <2>4, <3>1, <3>2 DEF OutcomeInv, Stored
  <2>7. OutcomeStands'
    BY <2>1, <2>2, <2>3, <2>4 DEF OutcomeInv, OutcomeStands
  <2> QED  BY <2>5, <2>6, <2>7 DEF OutcomeInv
<1>6. CASE SaveFails(l)
  BY <1>6 DEF SaveFails, OutcomeInv, Told, Stored, OutcomeStands, Id
<1>7. CASE Finish(l) \/ Break(l)
  BY <1>7 DEF Finish, Break, OutcomeInv, Told, Stored, OutcomeStands, Id
<1> QED  BY <1>1, <1>2, <1>3, <1>4, <1>5, <1>6, <1>7 DEF Works, BodyStep

LEMMA SettleOutcome ==
    ASSUME Inv, OutcomeInv, NEW l \in Loop, Settle(l) \/ SettleFails(l)
    PROVE  OutcomeInv'
<1>1. CASE Ack(l)
  <2>1. /\ body[l] = "acking" /\ job[l].job \in Job
        /\ Id(job[l]) = <<job[l].job, job[l].attempt>>
    BY <1>1, SettleFacts DEF Ack, Id
  <2>2. /\ \E d \in done : d[1] = job[l].job
        /\ kind = "workers" => result[job[l].job] # 0 \/ job[l].job \in unsaved
    BY <2>1 DEF OutcomeInv, Told, Stored
  <2>3. /\ fate' = [fate EXCEPT ![job[l].job] = "acked"]
        /\ NextJob(l)
        /\ UNCHANGED <<kind, result, done, unsaved>>
    BY <1>1, SettleFacts DEF Ack, Leaves
  <2>4. Told' /\ Stored'
    BY <2>3 DEF NextJob, Enters, OutcomeInv, Told, Stored, Id, Inv, TypeOK
  <2>5. OutcomeStands'
    BY <2>2, <2>3 DEF OutcomeInv, OutcomeStands, Inv, TypeOK
  <2> QED  BY <2>4, <2>5 DEF OutcomeInv
<1>2. CASE Fail(l) \/ RetryExhausted(l)
  <2>1. /\ fate' = [fate EXCEPT ![job[l].job] = "dead"]
        /\ NextJob(l)
        /\ UNCHANGED <<kind, result, done, unsaved>>
    BY <1>2, SettleFacts DEF Fail, RetryExhausted, Leaves
  <2>2. Told' /\ Stored'
    BY <2>1 DEF NextJob, Enters, OutcomeInv, Told, Stored, Id, Inv, TypeOK
  <2>3. OutcomeStands'
    BY <2>1 DEF OutcomeInv, OutcomeStands, Inv, TypeOK
  <2> QED  BY <2>2, <2>3 DEF OutcomeInv
<1>3. CASE RetryAgain(l)
  BY <1>3, SettleFacts, IdleOutcome DEF RetryAgain
<1>4. CASE SettleLost(l) \/ SettleFails(l)
  BY <1>4, IdleOutcome DEF SettleLost, SettleFails, table, history
<1> QED  BY <1>1, <1>2, <1>3, <1>4 DEF Settle

LEMMA StepOutcome == Inv /\ OutcomeInv /\ [Next]_vars => OutcomeInv'
<1> SUFFICES ASSUME Inv, OutcomeInv, [Next]_vars PROVE OutcomeInv'
  OBVIOUS
<1> USE DEF table, claimsVars, bodyVars, history, outside
<1>1. CASE \E l \in Loop : \/ ClaimsStep(l) \/ BodyStep(l) \/ TaskEnds(l)
                           \/ Unknown(l) \/ Break(l) \/ Fault(l)
  <2>1. PICK l \in Loop : \/ ClaimsStep(l) \/ BodyStep(l) \/ TaskEnds(l)
                          \/ Unknown(l) \/ Break(l) \/ Fault(l)
    BY <1>1
  <2>2. CASE ClaimsStep(l) \/ ClaimFails(l)
    BY <2>2, QuietOutcome
    DEF ClaimsStep, ClaimOne, ClaimNone, Send, Abandon, Wake, Quit, ClaimFails
  <2>3. CASE Settle(l) \/ SettleFails(l)
    BY <2>3, SettleOutcome
  <2>4. CASE Works(l)
    BY <2>4, BodyOutcome
  <2>5. CASE Cancel(l)
    BY <2>5, QuietOutcome DEF Cancel
  <2>6. CASE Crash(l)
    BY <2>6, IdleOutcome DEF Crash
  <2> QED  BY <2>1, <2>2, <2>3, <2>4, <2>5, <2>6
       DEF Fault, Works
<1>2. CASE Tick
  BY <1>2, QuietOutcome DEF Tick
<1>3. CASE UNCHANGED vars
  BY <1>3, QuietOutcome DEF vars
<1> QED  BY <1>1, <1>2, <1>3 DEF Next

(* An acknowledged job has been done, a stored result is of an attempt     *)
(* whose function succeeded, and a worker acknowledges nothing whose       *)
(* result it has not at least tried to store: whatever timeouts, crashes   *)
(* and races with a function that returns late.                            *)
THEOREM Outcomes == Spec => []OutcomeStands
<1>1. OutcomeInv => OutcomeStands
  BY DEF OutcomeInv
<1>2. Init => Inv /\ OutcomeInv
  BY InitInv, InitOutcome
<1>3. Inv /\ OutcomeInv /\ [Next]_vars => (Inv /\ OutcomeInv)'
  BY StepInv, StepOutcome
<1> QED  BY <1>1, <1>2, <1>3, PTL DEF Spec

-----------------------------------------------------------------------------
(* What becomes of a claim *)

InHand(l) == IF hand[l] = NoJob THEN {} ELSE {Id(hand[l])}

InSlot(l) == IF slot[l] = NoJob THEN {} ELSE {Id(slot[l])}

Waiting(l) == InHand(l) \cup InSlot(l)

(* The claims on their way, each in one place, and those that arrived. *)
Apart ==
    /\ \A x : x \in given <=> \/ x \in begun \/ x \in dropped
                              \/ \E l \in Loop : x \in Waiting(l)
    /\ begun \cap dropped = {}
    /\ \A l \in Loop : InHand(l) \cap InSlot(l) = {}
    /\ \A l \in Loop : Waiting(l) \cap (begun \cup dropped) = {}
    /\ \A k, l \in Loop : k # l => Waiting(k) \cap Waiting(l) = {}

(* The attempts of a row only grow as long as it is there, so that the     *)
(* next claim is none that was given; and a row that is gone is nobody's.  *)
Counted ==
    \A j \in Job :
        /\ rows[j].state = "absent" => rows[j].worker = NoWorker
        /\ rows[j].state # "absent"
           => \A n \in Nat : <<j, n>> \in given => n <= rows[j].attempts

ClaimsInvariant == Apart /\ Counted

LEMMA InitApart == Init => ClaimsInvariant
BY DEF Init, ClaimsInvariant, Apart, Counted, Waiting, InHand, InSlot, NoRow

(* No claim moves, and no row is claimed, requeued or gone. *)
LEMMA QuietApart ==
    ASSUME Inv, ClaimsInvariant, UNCHANGED <<hand, slot, given, begun, dropped>>,
           Counted'
    PROVE  ClaimsInvariant'
BY DEF ClaimsInvariant, Apart, Waiting, InHand, InSlot, Id

LEMMA QuietCounted ==
    ASSUME Inv, ClaimsInvariant, UNCHANGED <<rows, given>>
    PROVE  Counted'
BY DEF ClaimsInvariant, Counted

(* A claim is a new one, and the hand it is put into was empty. *)
LEMMA ClaimApart ==
    ASSUME Inv, ClaimsInvariant, NEW l \in Loop, ClaimOne(l)
    PROVE  ClaimsInvariant'
<1>1. PICK j \in Ready :
          /\ j \in Job
          /\ rows' = [rows EXCEPT ![j] = Claimed(@, Name(l), clock)]
          /\ rows' \in [Job -> Row]
          /\ rows'[j].attempts = rows[j].attempts + 1
          /\ hand'[l] \in Claim
          /\ hand' = [hand EXCEPT ![l] = hand'[l]]
          /\ Id(hand'[l]) = <<j, rows[j].attempts + 1>>
          /\ given' = given \cup {Id(hand'[l])}
  BY ClaimOneFacts DEF Inv
<1> DEFINE new == <<j, rows[j].attempts + 1>>
<1>2. UNCHANGED <<slot, begun, dropped>> /\ hand[l] = NoJob
  BY DEF ClaimOne, Inv, Sending, bodyVars
<1>3. rows[j].state # "absent" /\ rows[j].attempts \in Nat
  BY <1>1 DEF Ready, Claimable, Due, Lapsed, Inv, TypeOK, Row
<1>4. new \notin given
  BY <1>1, <1>3 DEF ClaimsInvariant, Counted
<1>5. /\ InHand(l) = {} /\ InHand(l)' = {new}
      /\ \A k \in Loop : k # l => InHand(k)' = InHand(k)
      /\ \A k \in Loop : InSlot(k)' = InSlot(k)
      /\ given' = given \cup {new}
  <2>1. hand'[l] # NoJob
    BY <1>1, IdType
  <2> QED  BY <1>1, <1>2, <2>1 DEF InHand, InSlot, Inv, TypeOK
<1> HIDE DEF new
<1>6. Apart'
  BY <1>2, <1>4, <1>5 DEF ClaimsInvariant, Apart, Waiting
<1>7. Counted'
  <2>1. rows'[j].state = "processing"
    BY <1>1 DEF Claimed, Inv, TypeOK, Row
  <2>2. \A n \in Nat : <<j, n>> \in given' => n <= rows'[j].attempts
    BY <1>1, <1>3, <1>5 DEF ClaimsInvariant, Counted, new
  <2>3. \A k \in Job, n \in Nat : k # j /\ <<k, n>> \in given' => <<k, n>> \in given
    BY <1>5 DEF new
  <2> QED  BY <1>1, <2>1, <2>2, <2>3 DEF ClaimsInvariant, Counted, Inv, TypeOK
<1> QED  BY <1>6, <1>7 DEF ClaimsInvariant

(* The claims of hand and slot change places, or arrive. *)
LEMMA MoveApart ==
    ASSUME Inv, ClaimsInvariant, NEW l \in Loop,
           UNCHANGED <<rows, given>>,
           \A k \in Loop : k # l => InHand(k)' = InHand(k) /\ InSlot(k)' = InSlot(k),
           InHand(l)' \cap InSlot(l)' = {},
           Waiting(l)' \subseteq Waiting(l),
           \/ begun' = begun /\ dropped' = dropped \cup (Waiting(l) \ Waiting(l)')
           \/ dropped' = dropped /\ begun' = begun \cup (Waiting(l) \ Waiting(l)')
    PROVE  ClaimsInvariant'
<1>1. \A k \in Loop : k # l => Waiting(k)' = Waiting(k)
  BY DEF Waiting
<1>2. Apart'
  BY <1>1 DEF ClaimsInvariant, Apart
<1>3. Counted'
  BY DEF ClaimsInvariant, Counted
<1> QED  BY <1>2, <1>3 DEF ClaimsInvariant

LEMMA ClaimsApart ==
    ASSUME Inv, ClaimsInvariant, NEW l \in Loop, ClaimsStep(l) \/ ClaimFails(l)
    PROVE  ClaimsInvariant'
<1> USE DEF table, claimsVars, bodyVars, history, outside
<1>1. CASE Send(l)
  <2>1. /\ hand' = [hand EXCEPT ![l] = NoJob]
        /\ slot' = [slot EXCEPT ![l] = hand[l]]
        /\ slot[l] = NoJob
        /\ UNCHANGED <<rows, given, begun, dropped>>
    BY <1>1 DEF Send
  <2>2. /\ InHand(l)' = {} /\ InSlot(l) = {} /\ InSlot(l)' = InHand(l)
        /\ \A k \in Loop : k # l => InHand(k)' = InHand(k) /\ InSlot(k)' = InSlot(k)
    BY <2>1 DEF InHand, InSlot, Id, Inv, TypeOK
  <2> QED  BY <2>1, <2>2, MoveApart DEF Waiting, ClaimsInvariant, Apart
<1>2. CASE Abandon(l)
  <2>1. /\ hand' = [hand EXCEPT ![l] = NoJob] /\ hand[l] # NoJob
        /\ dropped' = dropped \cup {Id(hand[l])}
        /\ UNCHANGED <<rows, slot, given, begun>>
    BY <1>2 DEF Abandon, Inv, Sending
  <2>2. /\ InHand(l)' = {} /\ InSlot(l)' = InSlot(l)
        /\ dropped' = dropped \cup InHand(l)
        /\ \A k \in Loop : k # l => InHand(k)' = InHand(k) /\ InSlot(k)' = InSlot(k)
    BY <2>1 DEF InHand, InSlot, Id, Inv, TypeOK
  <2> QED  BY <2>1, <2>2, MoveApart DEF Waiting, ClaimsInvariant, Apart
<1>3. CASE ClaimNone(l) \/ Wake(l) \/ Quit(l) \/ ClaimFails(l)
  BY <1>3, QuietApart, QuietCounted DEF ClaimNone, Wake, Quit, ClaimFails
<1> QED  BY <1>1, <1>2, <1>3, ClaimApart DEF ClaimsStep

LEMMA BodyApart ==
    ASSUME Inv, ClaimsInvariant, NEW l \in Loop, Works(l)
    PROVE  ClaimsInvariant'
<1> USE DEF table, claimsVars, bodyVars, history, outside
<1>1. CASE Start(l) \/ Unknown(l)
  <2>1. /\ slot' = [slot EXCEPT ![l] = NoJob] /\ slot[l] # NoJob
        /\ begun' = begun \cup {Id(slot[l])}
        /\ UNCHANGED <<rows, hand, given, dropped>>
    BY <1>1 DEF Start, Unknown, Receive
  <2>2. /\ InSlot(l)' = {} /\ InHand(l)' = InHand(l)
        /\ begun' = begun \cup InSlot(l)
        /\ \A k \in Loop : k # l => InHand(k)' = InHand(k) /\ InSlot(k)' = InSlot(k)
    BY <2>1 DEF InHand, InSlot, Id, Inv, TypeOK
  <2> QED  BY <2>1, <2>2, MoveApart DEF Waiting, ClaimsInvariant, Apart
<1>2. CASE TaskEnds(l) \/ Break(l) \/ SaveFails(l)
  BY <1>2, QuietApart, QuietCounted DEF TaskEnds, Break, SaveFails
<1>3. CASE Returned(l) \/ ContextDone(l) \/ GraceEnds(l) \/ JudgeRacing(l)
  BY <1>3, QuietApart, QuietCounted DEF Returned, ContextDone, GraceEnds, JudgeRacing, Leave
<1>4. CASE SaveResult(l) \/ Finish(l)
  BY <1>4, QuietApart, QuietCounted DEF SaveResult, Finish
<1> QED  BY <1>1, <1>2, <1>3, <1>4 DEF Works, BodyStep

(* A row that is settled was there, and keeps its attempts or is gone. *)
LEMMA SettleApart ==
    ASSUME Inv, ClaimsInvariant, NEW l \in Loop, Settle(l) \/ SettleFails(l)
    PROVE  ClaimsInvariant'
<1> USE DEF Inv, TypeOK
<1>1. CASE Ack(l) \/ Fail(l) \/ RetryAgain(l) \/ RetryExhausted(l)
  <2> DEFINE j == job[l].job
  <2>1. /\ j \in Job
        /\ UNCHANGED <<hand, slot, given, begun, dropped>>
    BY <1>1, SettleFacts
  <2>2. rows[j] \in Row /\ rows[j].worker = Name(l) /\ Name(l) # NoWorker
    BY <1>1, <2>1, NameType, RowAssumption
    DEF Ack, Fail, RetryAgain, RetryExhausted, Owns, Owned
  <2>3. rows[j].state # "absent"
    BY <2>1, <2>2 DEF ClaimsInvariant, Counted
  <2>4. \/ rows' = [rows EXCEPT ![j] = NoRow]
        \/ \E at : rows' = [rows EXCEPT ![j] = Requeued(@, at)]
    BY <1>1 DEF Ack, Fail, RetryAgain, RetryExhausted, Leaves
  <2>5. Counted'
    <3>1. CASE rows' = [rows EXCEPT ![j] = NoRow]
      BY <2>1, <3>1 DEF ClaimsInvariant, Counted, NoRow
    <3>2. ASSUME NEW at, rows' = [rows EXCEPT ![j] = Requeued(@, at)]
          PROVE  Counted'
      <4>1. rows'[j].attempts = rows[j].attempts /\ rows'[j].state = "pending"
        BY <2>1, <2>2, <3>2 DEF Requeued, Row
      <4> QED  BY <2>1, <2>3, <3>2, <4>1 DEF ClaimsInvariant, Counted
    <3> QED  BY <2>4, <3>1, <3>2
  <2> QED  BY <2>1, <2>5, QuietApart
<1>2. CASE SettleLost(l) \/ SettleFails(l)
  BY <1>2, QuietApart, QuietCounted
  DEF SettleLost, SettleFails, table, claimsVars, history
<1> QED  BY <1>1, <1>2 DEF Settle

LEMMA FaultApart ==
    ASSUME Inv, ClaimsInvariant, NEW l \in Loop, Cancel(l) \/ Crash(l)
    PROVE  ClaimsInvariant'
<1> USE DEF table, claimsVars, bodyVars, history, outside
<1>1. CASE Cancel(l)
  BY <1>1, QuietApart, QuietCounted DEF Cancel
<1>2. CASE Crash(l)
  <2>1. /\ hand' = [hand EXCEPT ![l] = NoJob] /\ slot' = [slot EXCEPT ![l] = NoJob]
        /\ dropped' = dropped \cup {Id(c) : c \in {hand[l], slot[l]} \ {NoJob}}
        /\ UNCHANGED <<rows, given, begun>>
    BY <1>2 DEF Crash
  <2>2. /\ InHand(l)' = {} /\ InSlot(l)' = {}
        /\ \A k \in Loop : k # l => InHand(k)' = InHand(k) /\ InSlot(k)' = InSlot(k)
    BY <2>1 DEF InHand, InSlot, Id, Inv, TypeOK
  <2>3. {Id(c) : c \in {hand[l], slot[l]} \ {NoJob}} = Waiting(l)
    BY DEF Waiting, InHand, InSlot
  <2> QED  BY <2>1, <2>2, <2>3, MoveApart DEF Waiting, ClaimsInvariant, Apart
<1> QED  BY <1>1, <1>2

LEMMA StepApart == Inv /\ ClaimsInvariant /\ [Next]_vars => ClaimsInvariant'
<1> SUFFICES ASSUME Inv, ClaimsInvariant, [Next]_vars PROVE ClaimsInvariant'
  OBVIOUS
<1>1. CASE \E l \in Loop : \/ ClaimsStep(l) \/ BodyStep(l) \/ TaskEnds(l)
                           \/ Unknown(l) \/ Break(l) \/ Fault(l)
  <2>1. PICK l \in Loop : \/ ClaimsStep(l) \/ BodyStep(l) \/ TaskEnds(l)
                          \/ Unknown(l) \/ Break(l) \/ Fault(l)
    BY <1>1
  <2>2. CASE ClaimsStep(l) \/ ClaimFails(l)
    BY <2>2, ClaimsApart
  <2>3. CASE Settle(l) \/ SettleFails(l)
    BY <2>3, SettleApart
  <2>4. CASE Works(l)
    BY <2>4, BodyApart
  <2>5. CASE Cancel(l) \/ Crash(l)
    BY <2>5, FaultApart
  <2> QED  BY <2>1, <2>2, <2>3, <2>4, <2>5 DEF Fault, Works
<1>2. CASE Tick \/ UNCHANGED vars
  BY <1>2, QuietApart, QuietCounted DEF Tick, vars, table, claimsVars, history
<1> QED  BY <1>1, <1>2 DEF Next

(* The invariant in the terms of the property. *)
LEMMA WaitingIsInFlight ==
    ASSUME NEW x
    PROVE  (\E l \in Loop : x \in Waiting(l))
           <=> \E c \in InFlight \ {NoJob} : x = Id(c)
<1>1. \A l \in Loop : x \in Waiting(l) <=> \/ hand[l] # NoJob /\ x = Id(hand[l])
                                           \/ slot[l] # NoJob /\ x = Id(slot[l])
  BY DEF Waiting, InHand, InSlot
<1> QED  BY <1>1 DEF InFlight

LEMMA ApartAccounts == Apart => NoClaimDropped
<1> SUFFICES ASSUME Apart PROVE NoClaimDropped
  OBVIOUS
<1>1. \A c \in InFlight \ {NoJob} : \E l \in Loop : Id(c) \in Waiting(l)
  BY WaitingIsInFlight
<1>2. given = begun \cup dropped \cup {Id(c) : c \in InFlight \ {NoJob}}
  <2>1. ASSUME NEW x
        PROVE  x \in given
               <=> x \in begun \cup dropped \cup {Id(c) : c \in InFlight \ {NoJob}}
    BY WaitingIsInFlight DEF Apart
  <2> QED  BY <2>1
<1>3. \A c \in InFlight \ {NoJob} : Id(c) \notin begun \cup dropped
  BY <1>1 DEF Apart
<1> QED  BY <1>2, <1>3 DEF NoClaimDropped, Apart

(* Every claim is begun by one body, once, waits for it or went down with  *)
(* a loop that ended, for any number of loops and jobs: none is handed to  *)
(* two bodies and none is lost between the goroutines.                     *)
THEOREM Accounted == Spec => []NoClaimDropped
<1>1. ClaimsInvariant => NoClaimDropped
  BY ApartAccounts DEF ClaimsInvariant
<1>2. Init => Inv /\ ClaimsInvariant
  BY InitInv, InitApart
<1>3. Inv /\ ClaimsInvariant /\ [Next]_vars => (Inv /\ ClaimsInvariant)'
  BY StepInv, StepApart
<1> QED  BY <1>1, <1>2, <1>3, PTL DEF Spec

-----------------------------------------------------------------------------
(* Claims that stand *)

(* Loops that share no worker_id, as those of RunWorkers do not.  The      *)
(* processes of an outbox share theirs.                                    *)
OwnNames == \A k, l \in Loop : ownName[k] = ownName[l] => k = l

Keeps(l) == {hand[l], slot[l], job[l]} \ {NoJob}

(* The row still is as the claim left it. *)
Stands(c) ==
    /\ rows[c.job].state = "processing"
    /\ rows[c.job].attempts = c.attempt
    /\ rows[c.job].claimExpiresAt = c.until

Usurped(j) == \E u \in usurped : u[1] = j

Over(c) == c.until < clock \/ Usurped(c.job)

(* Each body has a claim of its own, a claim stands or is over, and a row  *)
(* has the name of the loop that claimed it last.                          *)
BodiesApart ==
    /\ \A l \in Loop : job[l] # NoJob => Id(job[l]) \in begun
    /\ \A k, l \in Loop : /\ k # l /\ job[k] # NoJob /\ job[l] # NoJob
                          => Id(job[k]) # Id(job[l])

Standing == \A l \in Loop : \A c \in Keeps(l) : Stands(c) \/ Over(c)

Named ==
    \A j \in Job : rows[j].worker # NoWorker
                   => holder[j] \in Loop /\ rows[j].worker = Name(holder[j])

BySelf == \A u \in usurped : u[2] = u[3] \/ kind = "outbox"

LeaseInv == BodiesApart /\ Standing /\ Named /\ BySelf

LEMMA InitLease == Init => LeaseInv
BY DEF Init, LeaseInv, BodiesApart, Standing, Named, BySelf, Keeps, NoRow

LEMMA KeptType ==
    ASSUME Inv, NEW l \in Loop, NEW c \in Keeps(l)
    PROVE  c \in Claim
BY DEF Inv, TypeOK, Keeps

(* An invariant that holds of all claims kept tells of what two loops keep. *)
LEMMA LeaseRespected == Inv /\ ClaimsInvariant /\ LeaseInv => ClaimsRespected
<1> SUFFICES ASSUME Inv, ClaimsInvariant, LeaseInv PROVE ClaimsRespected
  OBVIOUS
<1>1. ASSUME NEW k \in Loop, NEW l \in Loop, job[k] # NoJob, job[l] # NoJob,
             job[k].job = job[l].job, job[k].attempt < job[l].attempt
      PROVE  Over(job[k])
  <2>1. job[k] \in Keeps(k) /\ job[l] \in Keeps(l)
    BY <1>1 DEF Keeps
  <2>2. job[k] \in Claim /\ job[l] \in Claim
    BY <2>1, KeptType
  <2>3. job[l].job \in Job /\ job[l].attempt \in Nat /\ job[k].attempt \in Nat
    BY <2>2, IdType
  <2>4. <<job[l].job, job[l].attempt>> \in given
    BY <1>1 DEF LeaseInv, BodiesApart, ClaimsInvariant, Apart, Id
  <2>5. ~Stands(job[k])
    BY <1>1, <2>3, <2>4 DEF Stands, ClaimsInvariant, Counted
  <2> QED  BY <2>1, <2>5 DEF LeaseInv, Standing
<1> QED  BY <1>1 DEF ClaimsRespected, LeaseInv, BySelf, Over, Usurped

(* No row, and no body's claim, changes hands. *)
LEMMA QuietLease ==
    ASSUME Inv, LeaseInv, UNCHANGED <<kind, rows, holder, usurped>>,
           clock' \in {clock, clock + 1}, BodiesApart',
           \A l \in Loop : Keeps(l)' \subseteq Keeps(l)
    PROVE  LeaseInv'
<1>1. Standing'
  <2> SUFFICES ASSUME NEW l \in Loop, NEW c \in Keeps(l)' PROVE Stands(c)' \/ Over(c)'
    BY DEF Standing
  <2>1. c \in Keeps(l) /\ c \in Claim
    BY KeptType
  <2>2. Stands(c) \/ Over(c)
    BY <2>1 DEF LeaseInv, Standing
  <2>3. c.until \in Nat /\ clock \in Int
    BY <2>1, BoundAssumption DEF Claim, Inv, TypeOK
  <2> QED  BY <2>2, <2>3 DEF Stands, Over, Usurped
<1>2. Named' /\ BySelf'
  BY DEF LeaseInv, Named, BySelf, Name
<1> QED  BY <1>1, <1>2 DEF LeaseInv

LEMMA QuietBodies ==
    ASSUME Inv, LeaseInv, UNCHANGED <<job, begun>>
    PROVE  BodiesApart'
BY DEF LeaseInv, BodiesApart, Id

LEMMA IdleBodies ==
    ASSUME Inv, LeaseInv, NEW l \in Loop, job' = [job EXCEPT ![l] = NoJob],
           UNCHANGED begun
    PROVE  BodiesApart'
BY DEF LeaseInv, BodiesApart, Id, Inv, TypeOK

(* A claim of a row that was claimed before: that claim has lapsed.  The   *)
(* new one stands, under its loop's name.                                  *)
LEMMA ClaimLease ==
    ASSUME Inv, LeaseInv, NEW l \in Loop, ClaimOne(l)
    PROVE  LeaseInv'
<1>1. PICK j \in Ready :
          /\ j \in Job
          /\ rows' = [rows EXCEPT ![j] = Claimed(@, Name(l), clock)]
          /\ rows' \in [Job -> Row]
          /\ hand'[l] = [job |-> j, attempt |-> rows'[j].attempts,
                         until |-> rows'[j].claimExpiresAt]
          /\ hand' = [hand EXCEPT ![l] = hand'[l]]
          /\ holder' = [holder EXCEPT ![j] = l]
  BY ClaimOneFacts DEF Inv
<1>2. UNCHANGED <<kind, clock, slot, job, begun, usurped>>
  BY DEF ClaimOne, bodyVars
<1>3. rows'[j].state = "processing" /\ rows'[j].worker = Name(l)
  BY <1>1 DEF Claimed, Inv, TypeOK, Row
<1>4. Standing'
  <2> SUFFICES ASSUME NEW k \in Loop, NEW c \in Keeps(k)' PROVE Stands(c)' \/ Over(c)'
    BY DEF Standing
  <2>1. CASE c = hand'[l]
    BY <1>1, <1>3, <2>1 DEF Stands
  <2>2. CASE c # hand'[l]
    <3>1. c \in Keeps(k) /\ c \in Claim
      BY <1>1, <1>2, <2>2, KeptType DEF Keeps, Inv, TypeOK
    <3>2. Stands(c) \/ Over(c)
      BY <3>1 DEF LeaseInv, Standing
    <3>3. Over(c) => Over(c)'
      BY <1>2 DEF Over, Usurped
    <3>4. CASE c.job = j /\ Stands(c)
      <4>1. Due(rows[j], clock) \/ Lapsed(rows[j], clock)
        BY DEF Ready, Claimable
      <4>2. Over(c)
        BY <3>4, <4>1 DEF Due, Lapsed, Stands, Over
      <4> QED  BY <3>3, <4>2
    <3>5. CASE c.job # j /\ Stands(c)
      BY <1>1, <3>1, <3>5, IdType DEF Stands, Inv, TypeOK
    <3> QED  BY <3>2, <3>3, <3>4, <3>5
  <2> QED  BY <2>1, <2>2
<1>5. Named'
  BY <1>1, <1>2, <1>3 DEF LeaseInv, Named, Name, Inv, TypeOK
<1>6. BySelf'
  BY <1>2 DEF LeaseInv, BySelf
<1> QED  BY <1>2, <1>4, <1>5, <1>6, QuietBodies DEF LeaseInv

LEMMA ClaimsLease ==
    ASSUME Inv, LeaseInv, NEW l \in Loop, ClaimsStep(l) \/ ClaimFails(l)
    PROVE  LeaseInv'
<1> USE DEF table, claimsVars, bodyVars, history, outside
<1>1. CASE Send(l)
  <2>1. \A k \in Loop : Keeps(k)' \subseteq Keeps(k)
    BY <1>1 DEF Send, Keeps, Inv, TypeOK
  <2> QED  BY <1>1, <2>1, QuietLease, QuietBodies DEF Send
<1>2. CASE Abandon(l)
  <2>1. \A k \in Loop : Keeps(k)' \subseteq Keeps(k)
    BY <1>2 DEF Abandon, Keeps, Inv, TypeOK
  <2> QED  BY <1>2, <2>1, QuietLease, QuietBodies DEF Abandon
<1>3. CASE ClaimNone(l) \/ Wake(l) \/ Quit(l) \/ ClaimFails(l)
  BY <1>3, QuietLease, QuietBodies DEF ClaimNone, Wake, Quit, ClaimFails, Keeps
<1> QED  BY <1>1, <1>2, <1>3, ClaimLease DEF ClaimsStep

LEMMA BodyLease ==
    ASSUME Inv, ClaimsInvariant, LeaseInv, NEW l \in Loop, Works(l)
    PROVE  LeaseInv'
<1> USE DEF table, claimsVars, bodyVars, history, outside
<1>1. CASE Start(l) \/ Unknown(l)
  <2>1. /\ job' = [job EXCEPT ![l] = slot[l]] /\ slot' = [slot EXCEPT ![l] = NoJob]
        /\ slot[l] # NoJob
        /\ begun' = begun \cup {Id(slot[l])}
        /\ UNCHANGED <<kind, clock, rows, hand, holder, usurped>>
    BY <1>1 DEF Start, Unknown, Receive
  <2>2. Id(slot[l]) \notin begun
    BY <2>1 DEF ClaimsInvariant, Apart, Waiting, InSlot
  <2>3. job'[l] = slot[l] /\ \A k \in Loop : k # l => job'[k] = job[k]
    BY <2>1 DEF Inv, TypeOK
  <2>4. BodiesApart'
    BY <2>1, <2>2, <2>3 DEF LeaseInv, BodiesApart, Id
  <2>5. \A k \in Loop : Keeps(k)' \subseteq Keeps(k)
    BY <2>1, <2>3 DEF Keeps, Inv, TypeOK
  <2> QED  BY <2>1, <2>4, <2>5, QuietLease
<1>2. CASE TaskEnds(l) \/ Break(l) \/ SaveFails(l)
  BY <1>2, QuietLease, QuietBodies DEF TaskEnds, Break, SaveFails, Keeps
<1>3. CASE Returned(l) \/ ContextDone(l) \/ GraceEnds(l) \/ JudgeRacing(l)
  BY <1>3, QuietLease, QuietBodies
  DEF Returned, ContextDone, GraceEnds, JudgeRacing, Leave, Keeps
<1>4. CASE SaveResult(l) \/ Finish(l)
  BY <1>4, QuietLease, QuietBodies DEF SaveResult, Finish, Keeps
<1> QED  BY <1>1, <1>2, <1>3, <1>4 DEF Works, BodyStep

(* A settlement under the loop's own claim leaves no other claim that      *)
(* stood; one under a later claim is recorded, and no other loop's unless  *)
(* they share a name.                                                      *)
LEMMA SettleLease ==
    ASSUME OwnNames, Inv, ClaimsInvariant, LeaseInv, NEW l \in Loop,
           Settle(l) \/ SettleFails(l)
    PROVE  LeaseInv'
<1>1. CASE Ack(l) \/ Fail(l) \/ RetryAgain(l) \/ RetryExhausted(l)
  <2>1. PICK j \in Job :
          /\ j = job[l].job /\ job[l] \in Claim
          /\ job' = [job EXCEPT ![l] = NoJob]
          /\ UNCHANGED <<kind, clock, hand, slot, begun, holder>>
    BY <1>1, SettleFacts DEF NextJob
  <2>2. rows[j].worker = Name(l) /\ Settled(l)
    BY <1>1, <2>1 DEF Ack, Fail, RetryAgain, RetryExhausted, Owns, Owned
  <2>3. \/ rows' = [rows EXCEPT ![j] = NoRow]
        \/ \E at : rows' = [rows EXCEPT ![j] = Requeued(@, at)]
    BY <1>1, <2>1 DEF Ack, Fail, RetryAgain, RetryExhausted, Leaves
  <2>4. \A i \in Job : i # j => rows'[i] = rows[i]
    BY <2>1, <2>3 DEF Inv, TypeOK
  <2>5. rows'[j].worker = NoWorker
    <3>1. rows[j] \in Row /\ rows \in [Job -> Row]
      BY DEF Inv, TypeOK
    <3>2. CASE rows' = [rows EXCEPT ![j] = NoRow]
      BY <3>1, <3>2 DEF NoRow
    <3>3. ASSUME NEW at, rows' = [rows EXCEPT ![j] = Requeued(@, at)]
          PROVE  rows'[j].worker = NoWorker
      BY <3>1, <3>3 DEF Requeued, Row
    <3> QED  BY <2>3, <3>2, <3>3
  <2>6. BodiesApart'
    BY <2>1, IdleBodies
  <2>7. usurped \subseteq usurped' /\ (rows[j].attempts # job[l].attempt => Usurped(j)')
    <3>1. usurped' = IF rows[j].attempts = job[l].attempt THEN usurped
                     ELSE usurped \cup {<<j, l, holder[j]>>}
      BY <2>1, <2>2 DEF Settled
    <3>2. <<j, l, holder[j]>>[1] = j
      OBVIOUS
    <3> QED  BY <3>1, <3>2 DEF Usurped
  <2>8. Standing'
    <3> SUFFICES ASSUME NEW k \in Loop, NEW c \in Keeps(k)' PROVE Stands(c)' \/ Over(c)'
      BY DEF Standing
    <3>1. c \in Keeps(k) /\ c \in Claim /\ (k = l => c # job[l] \/ c \in {hand[l], slot[l]})
      BY <2>1, KeptType DEF Keeps, Inv, TypeOK
    <3>2. Stands(c) \/ Over(c)
      BY <3>1 DEF LeaseInv, Standing
    <3>3. Over(c) => Over(c)'
      BY <2>1, <2>7 DEF Over, Usurped
    <3>4. CASE c.job = j /\ Stands(c)
      <4>1. Id(c) # Id(job[l])
        <5>1. job[l] # NoJob /\ Id(job[l]) \in begun
          BY <2>1, IdType DEF LeaseInv, BodiesApart
        <5>2. CASE c \in {hand[k], slot[k]}
          <6>1. Id(c) \in Waiting(k)
            BY <3>1, <5>2 DEF Waiting, InHand, InSlot, Keeps
          <6> QED  BY <5>1, <6>1 DEF ClaimsInvariant, Apart
        <5>3. CASE k # l /\ c = job[k]
          BY <3>1, <5>1, <5>3 DEF LeaseInv, BodiesApart, Keeps
        <5> QED  BY <3>1, <5>2, <5>3 DEF Keeps
      <4>2. c.attempt # job[l].attempt
        BY <2>1, <3>4, <4>1 DEF Id
      <4>3. Usurped(j)'
        BY <2>7, <3>4, <4>2 DEF Stands
      <4> QED  BY <3>4, <4>3 DEF Over
    <3>5. CASE c.job # j /\ Stands(c)
      BY <2>4, <3>1, <3>5, IdType DEF Stands
    <3> QED  BY <3>2, <3>3, <3>4, <3>5
  <2>9. Named'
    BY <2>1, <2>4, <2>5 DEF LeaseInv, Named, Name
  <2>10. BySelf'
    <3>1. kind = "outbox" \/ holder[j] = l
      <4>1. holder[j] \in Loop /\ Name(l) = Name(holder[j])
        BY <2>1, <2>2, NameType, RowAssumption DEF LeaseInv, Named, Inv
      <4> QED  BY <4>1 DEF Name, OwnNames
    <3> QED  BY <2>1, <2>2, <3>1 DEF Settled, LeaseInv, BySelf
  <2> QED  BY <2>6, <2>8, <2>9, <2>10 DEF LeaseInv
<1>2. CASE SettleLost(l) \/ SettleFails(l)
  <2>1. /\ job' = [job EXCEPT ![l] = NoJob]
        /\ UNCHANGED <<kind, clock, rows, hand, slot, begun, holder, usurped>>
    BY <1>2 DEF SettleLost, SettleFails, NextJob, table, claimsVars, history
  <2>2. \A k \in Loop : Keeps(k)' \subseteq Keeps(k)
    BY <2>1 DEF Keeps, Inv, TypeOK
  <2> QED  BY <2>1, <2>2, QuietLease, IdleBodies
<1> QED  BY <1>1, <1>2 DEF Settle

LEMMA FaultLease ==
    ASSUME Inv, LeaseInv, NEW l \in Loop, Cancel(l) \/ Crash(l)
    PROVE  LeaseInv'
<1> USE DEF table, claimsVars, bodyVars, history, outside
<1>1. CASE Cancel(l)
  BY <1>1, QuietLease, QuietBodies DEF Cancel, Keeps
<1>2. CASE Crash(l)
  <2>1. /\ job' = [job EXCEPT ![l] = NoJob] /\ hand' = [hand EXCEPT ![l] = NoJob]
        /\ slot' = [slot EXCEPT ![l] = NoJob]
        /\ UNCHANGED <<kind, clock, rows, begun, holder, usurped>>
    BY <1>2 DEF Crash, NextJob
  <2>2. \A k \in Loop : Keeps(k)' \subseteq Keeps(k)
    BY <2>1 DEF Keeps, Inv, TypeOK
  <2> QED  BY <2>1, <2>2, QuietLease, IdleBodies
<1> QED  BY <1>1, <1>2

LEMMA StepLease ==
    ASSUME OwnNames, Inv, ClaimsInvariant, LeaseInv, [Next]_vars
    PROVE  LeaseInv'
<1>1. CASE \E l \in Loop : \/ ClaimsStep(l) \/ BodyStep(l) \/ TaskEnds(l)
                           \/ Unknown(l) \/ Break(l) \/ Fault(l)
  <2>1. PICK l \in Loop : \/ ClaimsStep(l) \/ BodyStep(l) \/ TaskEnds(l)
                          \/ Unknown(l) \/ Break(l) \/ Fault(l)
    BY <1>1
  <2>2. CASE ClaimsStep(l) \/ ClaimFails(l)
    BY <2>2, ClaimsLease
  <2>3. CASE Settle(l) \/ SettleFails(l)
    BY <2>3, SettleLease
  <2>4. CASE Works(l)
    BY <2>4, BodyLease
  <2>5. CASE Cancel(l) \/ Crash(l)
    BY <2>5, FaultLease
  <2> QED  BY <2>1, <2>2, <2>3, <2>4, <2>5 DEF Fault, Works
<1>2. CASE Tick \/ UNCHANGED vars
  BY <1>2, QuietLease, QuietBodies
  DEF Tick, vars, table, claimsVars, bodyVars, history, Keeps
<1> QED  BY <1>1, <1>2 DEF Next

(* Loops with names of their own respect each other's claims: one works on *)
(* another's job only when that claim has lapsed or was cut short by a     *)
(* settlement under an earlier one, and only a loop itself cuts its claim  *)
(* short so.  An outbox's processes, which share a name, are excepted.     *)
THEOREM Respected ==
    ASSUME OwnNames
    PROVE  Spec => []ClaimsRespected
<1>1. Inv /\ ClaimsInvariant /\ LeaseInv => ClaimsRespected
  BY LeaseRespected
<1>2. Init => Inv /\ ClaimsInvariant /\ LeaseInv
  BY InitInv, InitApart, InitLease
<1>3. Inv /\ ClaimsInvariant /\ LeaseInv /\ [Next]_vars
      => (Inv /\ ClaimsInvariant /\ LeaseInv)'
  BY StepInv, StepApart, StepLease
<1> QED  BY <1>1, <1>2, <1>3, PTL DEF Spec

=============================================================================
