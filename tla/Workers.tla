------------------------------ MODULE Workers -------------------------------
(***************************************************************************)
(* The programs that consume a queue: RunWorkers (worker.go), Outbox.Run   *)
(* (outbox.go) and a loop over ClaimIter (queue.go).  Each of their loops  *)
(* is up to three goroutines:                                              *)
(*   Claims      claims one job at a time and puts it into a channel with  *)
(*               one slot, so a busy loop has claimed up to two more jobs  *)
(*               than the one it works on;                                 *)
(*   the body    takes a job from the channel, has it done and settles it; *)
(*   the task    of RunWorkers only: runs the registered function while    *)
(*               the body waits for it, its timeout or a cancelled context *)
(*               and, after that, one more second.                         *)
(* Statements are atomic here: what may come between the parts of a claim  *)
(* is JobQueue's subject.  Every loop is a process of its own.  Tasks have *)
(* a timeout, as they do by default, and store their results.              *)
(***************************************************************************)
EXTENDS JobRows

CONSTANTS
    Job,           \* jobs, all in the queue from the start
    Loop,          \* consuming loops
    Kinds,         \* the programs to look at, a subset of AllKinds
    ownName,       \* the worker_id of each loop of a worker or an iterator
    NoLoop,        \* the last claimer of a job nobody claimed
    OutboxName,    \* the worker_id every Outbox.Run of one outbox shares
    RetryDelays,   \* delays a worker or an iterator's body gives to Retry
    BaseBackoff,   \* Outbox.baseBackoff
    MaxFaults,     \* bound: statements that fail and processes that end
    MaxTime        \* bound: the clock stops here

AllKinds == {"workers", "outbox", "iterator"}

ASSUME LoopAssumption ==
    /\ Kinds \subseteq AllKinds
    /\ ownName \in [Loop -> WorkerID]
    /\ OutboxName \in WorkerID

ASSUME BoundAssumption ==
    /\ RetryDelays \subseteq Nat
    /\ BaseBackoff \in Nat
    /\ MaxFaults \in Nat
    /\ MaxTime \in Nat

VARIABLES
    kind,        \* which program the loops are
    clock,       \* the time now() reads
    rows,        \* _ganso_live
    result,      \* _ganso_results: the attempt whose result is stored, or 0
    cancelled,   \* the loops whose context is cancelled
    claims,      \* where each Claims goroutine is
    hand,        \* the job it has claimed and not yet sent
    slot,        \* the job in the channel
    body,        \* where each body is
    job,         \* the job it works on
    task,        \* what has become of the task's function
    fate,        \* history: what became of each job
    given,       \* history: the claims made
    begun,       \* history: the claims a body took up
    dropped,     \* history: the claims given up by a loop that ended
    done,        \* history: the claims whose function or body succeeded
    holder,      \* history: the loop that claimed each job last
    usurped,     \* history: who settled a job under whose later claim
    unsaved,     \* history: jobs whose result could not be stored
    faults       \* statements that failed and processes that ended

table == <<rows, result>>
claimsVars == <<claims, hand>>
bodyVars == <<body, job, task>>
history == <<fate, given, begun, dropped, done, holder, usurped, unsaved>>
outside == <<cancelled, faults>>
vars == <<kind, clock, table, claimsVars, slot, bodyVars, history, outside>>

(* A claim, as the Job handed out tells of it. *)
Claim == [job : Job, attempt : Nat \ {0}, until : Nat]

NoJob == [attempt |-> 0]

ClaimsStates == {"claiming", "sending", "waiting", "out"}

BodyStates == {"idle", "running", "grace", "racing", "saving", "acking",
               "retrying", "failing", "out"}

TaskStates == {"none", "running", "ok", "error"}

Name(l) == IF kind = "outbox" THEN OutboxName ELSE ownName[l]

Id(c) == <<c.job, c.attempt>>

TypeOK ==
    /\ kind \in Kinds
    /\ clock \in 0..MaxTime
    /\ rows \in [Job -> Row]
    /\ result \in [Job -> Nat]
    /\ cancelled \subseteq Loop
    /\ claims \in [Loop -> ClaimsStates]
    /\ hand \in [Loop -> Claim \cup {NoJob}]
    /\ slot \in [Loop -> Claim \cup {NoJob}]
    /\ body \in [Loop -> BodyStates]
    /\ job \in [Loop -> Claim \cup {NoJob}]
    /\ task \in [Loop -> TaskStates]
    /\ fate \in [Job -> {"queued", "acked", "dead"}]
    /\ \A S \in {given, begun, dropped, done} : S \subseteq Job \X Nat
    /\ holder \in [Job -> Loop \cup {NoLoop}]
    /\ usurped \subseteq Job \X Loop \X (Loop \cup {NoLoop})
    /\ unsaved \subseteq Job
    /\ faults \in 0..MaxFaults

Init ==
    /\ kind \in Kinds
    /\ clock = 0
    /\ rows = [j \in Job |-> [NoRow EXCEPT !.state = "pending"]]
    /\ result = [j \in Job |-> 0]
    /\ cancelled = {}
    /\ claims = [l \in Loop |-> "claiming"]
    /\ hand = [l \in Loop |-> NoJob]
    /\ slot = [l \in Loop |-> NoJob]
    /\ body = [l \in Loop |-> "idle"]
    /\ job = [l \in Loop |-> NoJob]
    /\ task = [l \in Loop |-> "none"]
    /\ fate = [j \in Job |-> "queued"]
    /\ given = {} /\ begun = {} /\ dropped = {} /\ done = {}
    /\ holder = [j \in Job |-> NoLoop]
    /\ usurped = {} /\ unsaved = {}
    /\ faults = 0

-----------------------------------------------------------------------------
(* A statement fails or a process ends. *)
Fails ==
    /\ faults < MaxFaults
    /\ faults' = faults + 1

(* The Claims goroutine. *)

Goes(l, place) == claims' = [claims EXCEPT ![l] = place]

Ready == {j \in Job : Claimable(rows[j], clock)}

(* ClaimOne finds a job. *)
ClaimOne(l) ==
    /\ claims[l] = "claiming"
    /\ \E j \in Ready :
          /\ \A k \in Ready : ~Before(rows[k], rows[j])
          /\ rows' = [rows EXCEPT ![j] = Claimed(@, Name(l), clock)]
          /\ hand' = [hand EXCEPT ![l] =
                [job |-> j, attempt |-> rows'[j].attempts,
                 until |-> rows'[j].claimExpiresAt]]
          /\ given' = given \cup {Id(hand'[l])}
          /\ holder' = [holder EXCEPT ![j] = l]
    /\ Goes(l, "sending")
    /\ UNCHANGED <<kind, clock, result, slot, bodyVars, fate, begun, dropped,
                   done, usurped, unsaved, outside>>

(* It finds none: on to the select. *)
ClaimNone(l) ==
    /\ claims[l] = "claiming"
    /\ Ready = {}
    /\ Goes(l, "waiting")
    /\ UNCHANGED <<kind, clock, table, hand, slot, bodyVars, history, outside>>

(* It answers an error: Claims returns, and the channel is closed. *)
ClaimFails(l) ==
    /\ claims[l] = "claiming"
    /\ Goes(l, "out")
    /\ Fails
    /\ UNCHANGED <<kind, clock, table, hand, slot, bodyVars, history,
                   cancelled>>

SendUnasked(l) ==                                  \* faulty: not a channel
    /\ claims[l] = "sending"
    /\ slot' = [slot EXCEPT ![l] = hand[l]]
    /\ hand' = [hand EXCEPT ![l] = NoJob]
    /\ Goes(l, "claiming")
    /\ UNCHANGED <<kind, clock, table, bodyVars, history, outside>>

(* The channel has room. *)
Send(l) ==
    /\ claims[l] = "sending"
    /\ slot[l] = NoJob
    /\ slot' = [slot EXCEPT ![l] = hand[l]]
    /\ hand' = [hand EXCEPT ![l] = NoJob]
    /\ Goes(l, "claiming")
    /\ UNCHANGED <<kind, clock, table, bodyVars, history, outside>>

(* The context is cancelled: Claims returns, with the job it has claimed.  *)
Abandon(l) ==
    /\ claims[l] = "sending" /\ l \in cancelled
    /\ hand' = [hand EXCEPT ![l] = NoJob]
    /\ dropped' = dropped \cup {Id(hand[l])}
    /\ Goes(l, "out")
    /\ UNCHANGED <<kind, clock, table, slot, bodyVars, fate, given, begun, done,
                   holder, usurped, unsaved, outside>>

(* A commit's token, the deadline's timer or the idle poll. *)
Wake(l) ==
    /\ claims[l] = "waiting"
    /\ Goes(l, "claiming")
    /\ UNCHANGED <<kind, clock, table, hand, slot, bodyVars, history, outside>>

Quit(l) ==
    /\ claims[l] = "waiting" /\ l \in cancelled
    /\ Goes(l, "out")
    /\ UNCHANGED <<kind, clock, table, hand, slot, bodyVars, history, outside>>

-----------------------------------------------------------------------------
(* The body takes up a job and has it done. *)

Enters(l, place) == body' = [body EXCEPT ![l] = place]

Receive(l) ==
    /\ body[l] = "idle" /\ slot[l] # NoJob
    /\ job' = [job EXCEPT ![l] = slot[l]]
    /\ slot' = [slot EXCEPT ![l] = NoJob]
    /\ begun' = begun \cup {Id(slot[l])}

(* dispatchJob starts the function; deliveryFn and a loop's body are       *)
(* called.                                                                 *)
Start(l) ==
    /\ Receive(l)
    /\ Enters(l, "running")
    /\ task' = [task EXCEPT ![l] = "running"]
    /\ UNCHANGED <<kind, clock, table, claimsVars, fate, given, dropped, done,
                   holder, usurped, unsaved, outside>>

(* The payload is no task, or a task this program has not registered. *)
Unknown(l) ==
    /\ kind = "workers"
    /\ Receive(l)
    /\ Enters(l, "failing")
    /\ UNCHANGED <<kind, clock, table, claimsVars, task, fate, given, dropped,
                   done, holder, usurped, unsaved, outside>>

(* The function returns, also while the body does no longer wait for it.   *)
TaskEnds(l) ==
    /\ body[l] \in {"running", "grace", "racing"} /\ task[l] = "running"
    /\ \/ /\ task' = [task EXCEPT ![l] = "ok"]
          /\ done' = done \cup {Id(job[l])}
       \/ /\ task' = [task EXCEPT ![l] = "error"]
          /\ UNCHANGED done
    /\ UNCHANGED <<kind, clock, table, claimsVars, slot, body, job, fate, given,
                   begun, dropped, holder, usurped, unsaved, outside>>

Leave(l, place) ==
    /\ Enters(l, place)
    /\ task' = [task EXCEPT ![l] = "none"]
    /\ UNCHANGED <<kind, clock, table, claimsVars, slot, job, history, outside>>

(* <-done *)
Returned(l) ==
    /\ body[l] = "running"
    /\ \/ task[l] = "ok" /\ Leave(l, IF kind = "workers" THEN "saving" ELSE "acking")
       \/ task[l] = "error" /\ Leave(l, "retrying")

(* <-runCtx.Done(): the timeout, or the loop's context is cancelled. *)
ContextDone(l) ==
    /\ kind = "workers"
    /\ body[l] = "running"
    /\ Enters(l, "grace")
    /\ UNCHANGED <<kind, clock, table, claimsVars, slot, job, task, history,
                   outside>>

GraceEndsUntold(l) ==                              \* faulty: no runErr
    /\ body[l] = "grace"
    /\ Leave(l, IF task[l] = "error" THEN "retrying" ELSE "saving")

GraceNeverEnds(l) ==                               \* faulty: no time.After
    /\ body[l] = "grace" /\ task[l] # "running"
    /\ Leave(l, "retrying")

(* The function returned, or the second is over.  A function that returned *)
(* without an error has timed out all the same.  One that still runs goes  *)
(* on to write result and runErr while the body reads them.                *)
GraceEnds(l) ==
    /\ body[l] = "grace"
    /\ IF task[l] # "running" THEN Leave(l, "retrying")
       ELSE /\ Enters(l, "racing")
            /\ UNCHANGED <<kind, clock, table, claimsVars, slot, job, task,
                           history, outside>>

(* With the function still running, or back since the body wrote runErr,   *)
(* the body reads what it wrote or what the function did.                  *)
JudgeRacing(l) ==
    /\ body[l] = "racing"
    /\ \/ Leave(l, "retrying")
       \/ task[l] = "ok" /\ Leave(l, "saving")

-----------------------------------------------------------------------------
(* The body stores the result and settles the job, then asks for the next. *)

NextJob(l) ==
    /\ Enters(l, "idle")
    /\ job' = [job EXCEPT ![l] = NoJob]
    /\ task' = [task EXCEPT ![l] = "none"]

SaveResult(l) ==
    /\ body[l] = "saving"
    /\ result' = [result EXCEPT ![job[l].job] = job[l].attempt]
    /\ Enters(l, "acking")
    /\ UNCHANGED <<kind, clock, rows, claimsVars, slot, job, task, history,
                   outside>>

(* The result cannot be marshalled or stored; dispatchJob goes on.         *)
SaveFails(l) ==
    /\ body[l] = "saving"
    /\ unsaved' = unsaved \cup {job[l].job}
    /\ Enters(l, "acking")
    /\ Fails
    /\ UNCHANGED <<kind, clock, table, claimsVars, slot, job, task, fate, given,
                   begun, dropped, done, holder, usurped, cancelled>>

Settling(l) == body[l] \in {"acking", "retrying", "failing"}

(* The statement finds the row still under the loop's worker_id. *)
Owns(l) == Owned(rows[job[l].job], Name(l), clock)

(* History: the row was by then under a later claim.                       *)
Settled(l) ==
    LET j == job[l].job
    IN  usurped' = IF rows[j].attempts = job[l].attempt THEN usurped
                   ELSE usurped \cup {<<j, l, holder[j]>>}

Leaves(l, end) ==
    /\ rows' = [rows EXCEPT ![job[l].job] = NoRow]
    /\ fate' = [fate EXCEPT ![job[l].job] = end]

Ack(l) ==
    /\ body[l] = "acking" /\ Owns(l)
    /\ Leaves(l, "acked")
    /\ Settled(l)
    /\ NextJob(l)
    /\ UNCHANGED <<kind, clock, result, claimsVars, slot, given, begun, dropped,
                   done, holder, unsaved, outside>>

Fail(l) ==
    /\ body[l] = "failing" /\ Owns(l)
    /\ Leaves(l, "dead")
    /\ Settled(l)
    /\ NextJob(l)
    /\ UNCHANGED <<kind, clock, result, claimsVars, slot, given, begun, dropped,
                   done, holder, unsaved, outside>>

(* Outbox.Run waits baseBackoff * 2^(attempts-1), and a second at least.   *)
Backoff(attempts) ==
    LET delay == BaseBackoff * 2 ^ (attempts - 1)
    IN  IF delay < 1 THEN 1 ELSE delay

Delays(l) ==
    IF kind = "outbox" THEN {Backoff(job[l].attempt)} ELSE RetryDelays

RetryAgain(l) ==
    /\ body[l] = "retrying" /\ Owns(l)
    /\ ~Exhausted(rows[job[l].job])
    /\ \E delay \in Delays(l) :
          rows' = [rows EXCEPT ![job[l].job] = Requeued(@, clock + delay)]
    /\ Settled(l)
    /\ NextJob(l)
    /\ UNCHANGED <<kind, clock, result, claimsVars, slot, fate, given, begun,
                   dropped, done, holder, unsaved, outside>>

RetryExhausted(l) ==
    /\ body[l] = "retrying" /\ Owns(l)
    /\ Exhausted(rows[job[l].job])
    /\ Leaves(l, "dead")
    /\ Settled(l)
    /\ NextJob(l)
    /\ UNCHANGED <<kind, clock, result, claimsVars, slot, given, begun, dropped,
                   done, holder, unsaved, outside>>

(* The statement finds no such row, and nobody is told. *)
SettleLost(l) ==
    /\ Settling(l) /\ ~Owns(l)
    /\ NextJob(l)
    /\ UNCHANGED <<kind, clock, table, claimsVars, slot, history, outside>>

(* The statement fails, and nobody is told. *)
SettleFails(l) ==
    /\ Settling(l)
    /\ NextJob(l)
    /\ Fails
    /\ UNCHANGED <<kind, clock, table, claimsVars, slot, history, cancelled>>

(* The channel is closed and empty. *)
Finish(l) ==
    /\ body[l] = "idle"
    /\ slot[l] = NoJob /\ claims[l] = "out"
    /\ Enters(l, "out")
    /\ UNCHANGED <<kind, clock, table, claimsVars, slot, job, task, history,
                   outside>>

(* A loop over ClaimIter breaks off; the Claims goroutine goes on until    *)
(* its context is cancelled, with a job in the channel and one in hand.    *)
Break(l) ==
    /\ kind = "iterator"
    /\ body[l] = "idle"
    /\ Enters(l, "out")
    /\ UNCHANGED <<kind, clock, table, claimsVars, slot, job, task, history,
                   outside>>

-----------------------------------------------------------------------------
Tick ==
    /\ clock < MaxTime
    /\ clock' = clock + 1
    /\ UNCHANGED <<kind, table, claimsVars, slot, bodyVars, history, outside>>

(* The context of a loop is cancelled. *)
Cancel(l) ==
    /\ l \notin cancelled
    /\ cancelled' = cancelled \cup {l}
    /\ UNCHANGED <<kind, clock, table, claimsVars, slot, bodyVars, history,
                   faults>>

(* A process ends with all it has in memory, and another one starts.  It   *)
(* may be dispatchJob that ends it: it reads runErr twice, and a function  *)
(* that returns in between leaves nil there to be dereferenced.            *)
Crash(l) ==
    /\ Goes(l, "claiming")
    /\ hand' = [hand EXCEPT ![l] = NoJob]
    /\ slot' = [slot EXCEPT ![l] = NoJob]
    /\ dropped' = dropped \cup {Id(c) : c \in {hand[l], slot[l]} \ {NoJob}}
    /\ NextJob(l)
    /\ cancelled' = cancelled \ {l}
    /\ Fails
    /\ UNCHANGED <<kind, clock, table, fate, given, begun, done, holder, usurped,
                   unsaved>>

-----------------------------------------------------------------------------
ClaimsStep(l) ==
    ClaimOne(l) \/ ClaimNone(l) \/ Send(l) \/ Abandon(l) \/ Wake(l) \/ Quit(l)

Settle(l) ==
    Ack(l) \/ Fail(l) \/ RetryAgain(l) \/ RetryExhausted(l) \/ SettleLost(l)

BodyStep(l) ==
    \/ Start(l)
    \/ Returned(l)
    \/ ContextDone(l)
    \/ GraceEnds(l)
    \/ JudgeRacing(l)
    \/ SaveResult(l)
    \/ Settle(l)
    \/ Finish(l)

CallEnds(l) == kind # "workers" /\ TaskEnds(l)

Fault(l) ==
    \/ ClaimFails(l)
    \/ SaveFails(l)
    \/ SettleFails(l)
    \/ Cancel(l)
    \/ Crash(l)

Next ==
    \/ \E l \in Loop : \/ ClaimsStep(l)
                       \/ BodyStep(l)
                       \/ TaskEnds(l)
                       \/ Unknown(l)
                       \/ Break(l)
                       \/ Fault(l)
    \/ Tick

(* Goroutines that can go on do, timers fire, and among the ready cases of *)
(* a select none is passed over for ever.  A task of RunWorkers has a      *)
(* timeout and need not return; an Outbox's deliveryFn and a loop's body   *)
(* do.  No fault is forced.                                                *)
Fairness ==
    /\ \A l \in Loop : /\ WF_vars(ClaimsStep(l))
                       /\ SF_vars(Abandon(l) \/ Quit(l))
                       /\ WF_vars(BodyStep(l) \/ CallEnds(l))
    /\ WF_vars(Tick)

Spec == Init /\ [][Next]_vars /\ Fairness

-----------------------------------------------------------------------------
(* What is told of a job is true.  An acknowledged one has been done, a    *)
(* stored result is of an attempt whose function returned without an       *)
(* error, and what a worker acknowledged has its result stored, unless     *)
(* storing it failed (worker.go:319-358): whatever timeouts, crashes and   *)
(* races with the function.                                                *)
OutcomeStands ==
    \A j \in Job :
        /\ fate[j] = "acked" => \E d \in done : d[1] = j
        /\ result[j] # 0 => <<j, result[j]>> \in done
        /\ kind = "workers" /\ fate[j] = "acked" => result[j] # 0 \/ j \in unsaved

(* A claim is respected by the other loops, although it may lapse before   *)
(* its job is begun (the jobs in channel and hand wait): a loop works on a *)
(* job of another only when that one's claim has lapsed or was cut short   *)
(* by a settlement under an earlier claim.  Only a loop itself cuts its    *)
(* claim short so, when its Claims goroutine has claimed again what its    *)
(* body still works on; and any process of an outbox, because they share   *)
(* one worker_id (outbox.go:54).                                           *)
ClaimsRespected ==
    /\ \A u \in usurped : u[2] = u[3] \/ kind = "outbox"
    /\ \A k, l \in Loop :
          job[k] # NoJob /\ job[l] # NoJob /\ job[k].job = job[l].job
              /\ job[k].attempt < job[l].attempt
          => job[k].until < clock \/ \E u \in usurped : u[1] = job[k].job

InFlight == {hand[l] : l \in Loop} \cup {slot[l] : l \in Loop}

(* Every claim counted against a job's attempts is taken up by one body    *)
(* once, waits in a channel or a hand for it, or went down with a loop     *)
(* that ended (queue.go:318-339).                                          *)
NoClaimDropped ==
    /\ given = begun \cup dropped \cup {Id(c) : c \in InFlight \ {NoJob}}
    /\ \A c \in InFlight \ {NoJob} : Id(c) \notin begun \cup dropped
    /\ begun \cap dropped = {}

Disturbed ==
    faults > 0 \/ cancelled # {} \/ \E l \in Loop : body[l] = "out"

(* As long as no process ends and no statement fails, every job is done or *)
(* dead-lettered, however often claims lapse while their jobs wait or are  *)
(* worked on; except that a retry may be put off beyond the bound.         *)
EveryJobSettles ==
    \A j \in Job : <>(fate[j] # "queued" \/ rows[j].runAt > MaxTime \/ Disturbed)

(* RunWorkers returns once its context is cancelled, even with a task that *)
(* does not (worker.go:256-259, 328-334), and so do Outbox.Run and a loop  *)
(* over ClaimIter whose function and body do.                              *)
ShutdownEnds ==
    cancelled = Loop ~> (\A l \in Loop : body[l] = "out") \/ cancelled # Loop

=============================================================================
