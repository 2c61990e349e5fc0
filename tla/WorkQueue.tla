----------------------------- MODULE WorkQueue ------------------------------
(***************************************************************************)
(* What a leased work queue promises its users, with no tables, locks or   *)
(* calls in progress: each job is submitted once, waits until it is ready, *)
(* is leased to one holder at a time, and ends finished, buried or         *)
(* withdrawn.  JobQueue implements it when its consumers share a handle.   *)
(***************************************************************************)
EXTENDS Integers

CONSTANTS
    Job,      \* the jobs that may be submitted
    Holder,   \* who may hold a lease
    NoHolder, \* the holder of a job that is not leased
    None,     \* the end of a lease that does not exist
    MaxTime   \* bound: time stops here

VARIABLES
    time,     \* the current time
    status,   \* where each job is
    holder,   \* who holds it
    readyAt,  \* when a waiting job may be leased
    until     \* when its lease ends

jobVars == <<status, holder, readyAt, until>>
vars == <<time, jobVars>>

Status == {"new", "waiting", "leased", "finished", "buried", "withdrawn"}

Init ==
    /\ time = 0
    /\ status = [j \in Job |-> "new"]
    /\ holder = [j \in Job |-> NoHolder]
    /\ readyAt = [j \in Job |-> 0]
    /\ until = [j \in Job |-> None]

(* The jobs of S move to one status; the others keep everything. *)
Move(S, st) ==
    /\ status' = [j \in Job |-> IF j \in S THEN st ELSE status[j]]
    /\ \A j \in Job \ S : /\ holder'[j] = holder[j]
                          /\ readyAt'[j] = readyAt[j]
                          /\ until'[j] = until[j]
    /\ UNCHANGED time

(* The jobs of S, if any, are nobody's any more. *)
Release(S) == \A j \in S : holder'[j] = NoHolder /\ until'[j] = None

Submit(j) ==
    /\ status[j] = "new"
    /\ Move({j}, "waiting")
    /\ Release({j})

(* A lease may be given on a job that is ready, or whose lease has ended. *)
Leasable(j) == \/ status[j] = "waiting" /\ readyAt[j] <= time
               \/ status[j] = "leased" /\ until[j] < time

Take(h, S) ==
    /\ \A j \in S : Leasable(j)
    /\ Move(S, "leased")
    /\ \A j \in S : holder'[j] = h /\ readyAt'[j] = readyAt[j]

(* Only the holder of a lease moves its end or gives the job up. *)
HeldBy(h, S) == \A j \in S : status[j] = "leased" /\ holder[j] = h

Extend(h, S) ==
    /\ HeldBy(h, S)
    /\ Move(S, "leased")
    /\ \A j \in S : holder'[j] = h /\ readyAt'[j] = readyAt[j]

Finish(h, S) == HeldBy(h, S) /\ Move(S, "finished") /\ Release(S)

GiveBack(h, S) == HeldBy(h, S) /\ Move(S, "waiting") /\ Release(S)

Bury(h, S) == HeldBy(h, S) /\ Move(S, "buried") /\ Release(S)

(* The owner of the queue may withdraw a live job, or bury those too old. *)
Live(S) == \A j \in S : status[j] \in {"waiting", "leased"}

Withdraw(S) == Live(S) /\ Move(S, "withdrawn") /\ Release(S)

Expire(S) == Live(S) /\ Move(S, "buried") /\ Release(S)

Advance ==
    /\ time < MaxTime
    /\ time' = time + 1
    /\ UNCHANGED jobVars

HolderStep(h, S) ==
    Take(h, S) \/ Extend(h, S) \/ Finish(h, S) \/ GiveBack(h, S) \/ Bury(h, S)

Next ==
    \/ \E j \in Job : Submit(j)
    \/ \E h \in Holder, S \in SUBSET Job : HolderStep(h, S)
    \/ \E S \in SUBSET Job : Withdraw(S) \/ Expire(S)
    \/ Advance

Spec == Init /\ [][Next]_vars

=============================================================================
