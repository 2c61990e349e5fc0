----------------------------- MODULE Scheduler ------------------------------
(***************************************************************************)
(* The periodic-task scheduler of scheduler.go: calls of Run that compete  *)
(* for the leader lock of LockTable, the loop "read now, tick, ask for     *)
(* the soonest task, sleep" of the one that has it, its heartbeat          *)
(* goroutine, and the administration of the task table.  tick, Remove,     *)
(* Pause, Resume, Release and a heartbeat are one IMMEDIATE transaction    *)
(* each, so one action; Add computes next_fire_at before its transaction   *)
(* and is two.                                                             *)
(*                                                                         *)
(* A second is Sub ticks of the clock.  next_fire_at and now are compared  *)
(* as RFC3339Nano texts, which leave out a zero fraction: TextRank.        *)
(***************************************************************************)
EXTENDS LockTable, FiniteSets

CONSTANTS
    Scheduler,   \* calls of Run, each with a lock owner of its own
    Task,        \* names of scheduled tasks
    Cron,        \* the tasks with a cron expression; the others are @every
    period,      \* period[t]: ticks between two times of t, as it is added
    Zone,        \* ticks the local time zone is off UTC
    Sub,         \* ticks in a second
    MinSleep,    \* ticks: 100ms
    MaxSleep,    \* ticks: 60s
    TTL,         \* seconds the leader lock is taken for
    Timely,      \* TRUE when heartbeats always land before the lock runs out
    MaxTime,     \* bound: the clock stops here
    MaxPeriod,   \* bound on the ticks between two times of a task
    MaxStops     \* bound on the calls of Run that end, for whatever reason

ASSUME SchedulerAssumption ==
    /\ Cron \subseteq Task
    /\ Sub \in Nat \ {0} /\ TTL \in Nat \ {0}
    /\ Zone \in Nat /\ Zone % Sub = 0              \* whole seconds off UTC
    /\ MaxPeriod \in Nat
    /\ period \in [Task -> 1..MaxPeriod]
    /\ \A t \in Cron : period[t] % Sub = 0
    /\ MinSleep \in Nat /\ MaxSleep \in Nat /\ MinSleep <= MaxSleep
    /\ Timely \in BOOLEAN /\ MaxTime \in Nat /\ MaxStops \in Nat
    /\ NoOwner \notin Scheduler

VARIABLES
    clock,     \* the time
    row,       \* the leader lock's row
    pc,        \* pc[s]: where the call s of Run is
    now,       \* now[s]: the time s read before its tick
    soon,      \* soon[s]: what its soonest answered, None for nothing
    rest,      \* rest[s]: ticks until the timer of s fires
    woken,     \* woken[s]: watchCh of s holds a signal
    beat,      \* beat[s]: the heartbeat goroutine: "on", "off", or "last"
               \*   while it has one transaction under way after hbCancel
    next,      \* next[t]: next_fire_at of t, None when t is not registered
    enabled,   \* the tasks with enabled = 1
    adding,    \* the call of Add between its two steps
    last,      \* ghost: the due time t last fired for, None since its Add
    stops      \* counts the calls of Run that ended

vars == <<clock, row, pc, now, soon, rest, woken, beat, next, enabled, adding, last, stops>>
leader == <<row, pc, now, soon, rest, beat, stops>>
tasks == <<next, enabled, adding, last>>

None == -1
Secs(t) == t \div Sub

Leads(s) == pc[s] \in {"awake", "due", "ticked", "planned", "asleep"}

(* The period the stored text has: Every writes "@every %ds", the whole    *)
(* seconds of its duration.                                                *)
Stored(t) == IF t \in Cron THEN period[t] ELSE Secs(period[t]) * Sub

(* The tasks whose text ParseSchedule refuses: "@every 0s". *)
Broken == {t \in Task : Stored(t) = 0}

NextAtOrAfter(t, at, zone) ==                         \* faulty: not after
    IF t \in Cron THEN ((at + period[t] - 1) \div period[t]) * period[t]
    ELSE at + Stored(t)

(* NextAfter of a stored cron expression, whose times are the multiples of *)
(* its period in the given zone, and of a stored interval.                 *)
NextAfter(t, at, zone) ==
    IF t \in Cron
    THEN LET p == period[t]  z == zone % p IN ((at + p - z) \div p) * p + z
    ELSE at + Stored(t)

(* The first time of the schedule Add is given: an interval has its        *)
(* fraction of a second still.                                             *)
FirstTime(t, at) == IF t \in Cron THEN NextAfter(t, at, Zone) ELSE at + period[t]

States == {"out", "locking", "awake", "due", "ticked", "planned", "asleep"}

Horizon == MaxTime + Sub + MaxPeriod

TypeOK ==
    /\ clock \in 0..MaxTime
    /\ row \in RowOf(Scheduler, TTL)
    /\ pc \in [Scheduler -> States]
    /\ now \in [Scheduler -> 0..MaxTime]
    /\ soon \in [Scheduler -> None..Horizon]
    /\ rest \in [Scheduler -> 0..MaxSleep]
    /\ woken \in [Scheduler -> BOOLEAN]
    /\ beat \in [Scheduler -> {"on", "off", "last"}]
    /\ next \in [Task -> None..Horizon]
    /\ enabled \subseteq {t \in Task : next[t] # None}
    /\ adding \in {<<>>} \cup (Task \X (0..Horizon))
    /\ last \in [Task -> None..Horizon]
    /\ stops \in 0..MaxStops

Init ==
    /\ clock = 0 /\ row = Absent /\ stops = 0
    /\ pc = [s \in Scheduler |-> "out"]
    /\ now = [s \in Scheduler |-> 0]
    /\ soon = [s \in Scheduler |-> None]
    /\ rest = [s \in Scheduler |-> 0]
    /\ woken = [s \in Scheduler |-> FALSE]
    /\ beat = [s \in Scheduler |-> "off"]
    /\ next = [t \in Task |-> None]
    /\ last = [t \in Task |-> None]
    /\ enabled = {} /\ adding = <<>>

(* A commit that changes the file puts a signal in every watchCh. *)
Signalled == [s \in Scheduler |-> woken[s] \/ Leads(s)]

-----------------------------------------------------------------------------
(* Leadership *)

Run(s) ==
    /\ pc[s] = "out" /\ beat[s] = "off"
    /\ pc' = [pc EXCEPT ![s] = "locking"]
    /\ UNCHANGED <<clock, row, now, soon, rest, woken, beat, stops, tasks>>

(* db.Lock succeeds, at once or at one of its retries; Run then starts the *)
(* heartbeat and subscribes to the watcher.                                *)
Acquire(s) ==
    /\ pc[s] = "locking"
    /\ Purged(row) = Absent
    /\ row' = Tried(row, s, TTL)
    /\ pc' = [pc EXCEPT ![s] = "awake"]
    /\ beat' = [beat EXCEPT ![s] = "on"]
    /\ woken' = [Signalled EXCEPT ![s] = FALSE]
    /\ UNCHANGED <<clock, now, soon, rest, stops, tasks>>

(* The heartbeat extends the row of the lock's name, whoever owns it. *)
Beat(s) ==
    /\ beat[s] # "off"
    /\ row' = Extended(row, TTL)
    /\ beat' = IF beat[s] = "last" THEN [beat EXCEPT ![s] = "off"] ELSE beat
    /\ woken' = IF row = Absent THEN woken ELSE Signalled
    /\ UNCHANGED <<clock, pc, now, soon, rest, stops, tasks>>

(* The last transaction of a cancelled heartbeat does not happen. *)
BeatEnds(s) ==
    /\ beat[s] = "last"
    /\ beat' = [beat EXCEPT ![s] = "off"]
    /\ UNCHANGED <<clock, row, pc, now, soon, rest, woken, stops, tasks>>

Ends(s) ==
    /\ pc' = [pc EXCEPT ![s] = "out"]
    /\ now' = [now EXCEPT ![s] = 0]
    /\ soon' = [soon EXCEPT ![s] = None]
    /\ rest' = [rest EXCEPT ![s] = 0]
    /\ UNCHANGED <<clock, tasks>>

(* Run's deferred calls: unsubscribe, hbCancel, Release, whose error is    *)
(* dropped.                                                                *)
Returns(s) ==
    /\ Ends(s)
    /\ row' \in {Deleted(row, s), row}
    /\ beat' = [beat EXCEPT ![s] = "last"]
    /\ woken' = [(IF row' = row THEN woken ELSE Signalled) EXCEPT ![s] = FALSE]

Counted == stops < MaxStops /\ stops' = stops + 1

(* The context is cancelled while Run waits, for the lock or to wake up. *)
Cancel(s) ==
    /\ Counted
    /\ \/ pc[s] = "locking" /\ Ends(s) /\ UNCHANGED <<row, woken, beat>>
       \/ pc[s] = "asleep" /\ Returns(s)

(* tick or soonest fails and Run returns its error. *)
Fails(s) == Counted /\ pc[s] \in {"due", "ticked"} /\ Returns(s)

(* The process dies. *)
Crash(s) ==
    /\ Counted
    /\ pc[s] # "out"
    /\ Ends(s)
    /\ beat' = [beat EXCEPT ![s] = "off"]
    /\ woken' = [woken EXCEPT ![s] = FALSE]
    /\ UNCHANGED row

-----------------------------------------------------------------------------
(* The leader's loop *)

(* The order of RFC3339Nano texts of one time zone: a time on the second   *)
(* is written without a fraction, and 'Z' sorts after '.'.                 *)
TextRank(t) == IF t % Sub = 0 THEN t + Sub - 1 ELSE t - 1

DueThisSecond(at) ==                                  \* faulty: no catching up
    {t \in enabled : Secs(next[t]) = Secs(at)}

DueTasks(at) == {t \in enabled : TextRank(next[t]) <= TextRank(at)}

AdvancedOnce(t, at) == NextAfter(t, next[t], 0)       \* faulty: one time only

AdvancedFromNow(t, at) == at + Stored(t)              \* faulty: drifts

(* The first time of t after next_fire_at that is not before at.  The      *)
(* parsed next_fire_at is in UTC, so cron fields are matched in UTC.       *)
Advanced(t, at) ==
    LET first == NextAfter(t, next[t], 0)
        missed == (at - first + Stored(t) - 1) \div Stored(t)
    IN  IF first >= at THEN first ELSE first + missed * Stored(t)

ReadNow(s) ==
    /\ pc[s] = "awake"
    /\ pc' = [pc EXCEPT ![s] = "due"]
    /\ now' = [now EXCEPT ![s] = clock]
    /\ UNCHANGED <<clock, row, soon, rest, woken, beat, stops, tasks>>

(* One transaction: every task due at now[s] is enqueued and advanced. *)
TickTx(s) ==
    /\ pc[s] = "due"
    /\ DueTasks(now[s]) \cap Broken = {}
    /\ pc' = [pc EXCEPT ![s] = "ticked"]
    /\ next' = [t \in Task |->
                   IF t \in DueTasks(now[s]) THEN Advanced(t, now[s]) ELSE next[t]]
    /\ last' = [t \in Task |-> IF t \in DueTasks(now[s]) THEN next[t] ELSE last[t]]
    /\ woken' = IF DueTasks(now[s]) = {} THEN woken ELSE Signalled
    /\ now' = [now EXCEPT ![s] = 0]
    /\ UNCHANGED <<clock, row, soon, rest, beat, stops, enabled, adding>>

(* A due task does not parse: the transaction is rolled back, the jobs of  *)
(* the other due tasks with it, and Run returns.                           *)
TickBroken(s) ==
    /\ pc[s] = "due"
    /\ DueTasks(now[s]) \cap Broken # {}
    /\ Returns(s)
    /\ UNCHANGED stops

Between(low, high, n) == IF n < low THEN low ELSE IF n > high THEN high ELSE n

(* soonest reads MIN(next_fire_at), the least text. *)
Soonest(s) ==
    /\ pc[s] = "ticked"
    /\ pc' = [pc EXCEPT ![s] = "planned"]
    /\ soon' = [soon EXCEPT ![s] =
          IF enabled = {} THEN None
          ELSE next[CHOOSE t \in enabled :
                       \A u \in enabled : TextRank(next[t]) <= TextRank(next[u])]]
    /\ UNCHANGED <<clock, row, now, rest, woken, beat, stops, tasks>>

FallAsleep(s) ==
    /\ pc[s] = "planned"
    /\ pc' = [pc EXCEPT ![s] = "asleep"]
    /\ rest' = [rest EXCEPT ![s] =
          IF soon[s] = None THEN MaxSleep
          ELSE Between(MinSleep, MaxSleep, soon[s] - clock)]
    /\ soon' = [soon EXCEPT ![s] = None]
    /\ UNCHANGED <<clock, row, now, beat, stops, tasks>>

SleepDrained(s) == FallAsleep(s) /\ woken' = [woken EXCEPT ![s] = FALSE]
                                                      \* faulty: drops a signal

(* The timer is set and the select waits; the channel keeps its signal. *)
Sleep(s) == FallAsleep(s) /\ UNCHANGED woken

(* The timer, a signal, or either when both are there. *)
Wake(s) ==
    /\ pc[s] = "asleep"
    /\ pc' = [pc EXCEPT ![s] = "awake"]
    /\ \/ rest[s] = 0 /\ UNCHANGED woken
       \/ woken[s] /\ woken' = [woken EXCEPT ![s] = FALSE]
    /\ rest' = [rest EXCEPT ![s] = 0]
    /\ UNCHANGED <<clock, row, now, soon, beat, stops, tasks>>

-----------------------------------------------------------------------------
(* Administration, and the rest of the world *)

AddBegins(t) ==
    /\ adding = <<>>
    /\ adding' = <<t, FirstTime(t, clock)>>
    /\ UNCHANGED <<clock, leader, woken, next, enabled, last>>

Set(t, at) ==
    /\ next' = [next EXCEPT ![t] = at]
    /\ woken' = Signalled
    /\ UNCHANGED <<clock, leader>>

AddCommits ==
    /\ adding # <<>>
    /\ Set(adding[1], adding[2])
    /\ enabled' = enabled \cup {adding[1]}
    /\ last' = [last EXCEPT ![adding[1]] = None]
    /\ adding' = <<>>

AddFails ==
    /\ adding # <<>>
    /\ adding' = <<>>
    /\ UNCHANGED <<clock, leader, woken, next, enabled, last>>

Remove(t) ==
    /\ next[t] # None
    /\ Set(t, None)
    /\ enabled' = enabled \ {t}
    /\ last' = [last EXCEPT ![t] = None]
    /\ UNCHANGED adding

Pause(t) ==
    /\ t \in enabled
    /\ Set(t, next[t])
    /\ enabled' = enabled \ {t}
    /\ UNCHANGED <<adding, last>>

(* next_fire_at is computed afresh, inside the transaction. *)
Resume(t) ==
    /\ next[t] # None /\ t \notin enabled \cup Broken
    /\ Set(t, NextAfter(t, clock, Zone))
    /\ enabled' = enabled \cup {t}
    /\ UNCHANGED <<adding, last>>

(* Any other write to the file. *)
OtherCommit ==
    /\ woken' = Signalled
    /\ UNCHANGED <<clock, leader, tasks>>

(* Time passes; a row loses a second when one begins.  At the bound the    *)
(* clock stands still but timers and the row run on.                       *)
Moment ==
    LET begins == clock = MaxTime \/ (clock + 1) % Sub = 0
    IN  /\ Timely => ~(begins /\ \E s \in Scheduler :
                          Leads(s) /\ row.owner = s /\ row.left = 0)
        /\ clock' = IF clock = MaxTime THEN clock ELSE clock + 1
        /\ row' = IF begins THEN Aged(row) ELSE row
        /\ rest' = [s \in Scheduler |-> IF rest[s] = 0 THEN 0 ELSE rest[s] - 1]
        /\ UNCHANGED <<pc, now, soon, woken, beat, stops, tasks>>

-----------------------------------------------------------------------------
Loop(s) == ReadNow(s) \/ TickTx(s) \/ TickBroken(s) \/ Soonest(s) \/ Sleep(s) \/ Wake(s)

Next ==
    \/ Moment \/ OtherCommit
    \/ AddCommits \/ AddFails
    \/ \E t \in Task : AddBegins(t) \/ Remove(t) \/ Pause(t) \/ Resume(t)
    \/ \E s \in Scheduler :
          \/ Run(s) \/ Acquire(s)
          \/ Beat(s) \/ BeatEnds(s)
          \/ Cancel(s) \/ Fails(s) \/ Crash(s)
          \/ Loop(s)

(* A running call of Run gets on: its loop and timers, the ticker of its   *)
(* heartbeat, and Lock's retry, at least once a second.                    *)
Fairness ==
    /\ WF_vars(Moment)
    /\ \A s \in Scheduler :
          /\ WF_vars(Loop(s))
          /\ WF_vars(Acquire(s))
          /\ WF_vars(Beat(s))

Spec == Init /\ [][Next]_vars /\ Fairness

-----------------------------------------------------------------------------
(* "Only one scheduler process is active at a time" (scheduler.go:15).     *)
OneLeader == \A r, s \in Scheduler : Leads(r) /\ Leads(s) => r = s

(* The leader holds the lock it leads by.                                  *)
LeaderHoldsLock == \A s \in Scheduler : Leads(s) => row.owner = s /\ row.left >= 0

(* When nobody leads, a call of Run blocked on the lock ends up leading,   *)
(* or another does, or it ends (GANSO_GO_PLAN.md:774, "Scheduler leader    *)
(* election and failover").                                                *)
Failover ==
    \A s \in Scheduler :
        pc[s] = "locking" ~> pc[s] # "locking" \/ \E r \in Scheduler : Leads(r)

Ticks(s) == pc[s] = "due" /\ pc'[s] = "ticked"

(* A registered task fires once for a due time, however many leaders tick  *)
(* with however old a now, and through Pause and Resume (scheduler.go:285).*)
OncePerDue ==
    [][\A s \in Scheduler : Ticks(s) =>
          \A t \in DueTasks(now[s]) : last'[t] > last[t]]_vars

(* A tick leaves no backlog: a task it fires comes next at its now or      *)
(* later, however many times were missed, and a task it passes over is not *)
(* due before the second of its now (scheduler.go:339).                    *)
TickCatchesUp ==
    [][\A s \in Scheduler : Ticks(s) =>
          \A t \in enabled :
              IF t \in DueTasks(now[s]) THEN next'[t] >= now[s]
                                       ELSE Secs(next[t]) >= Secs(now[s])]_vars

(* Cron tasks stay on the times their expression names, in local time      *)
(* until they first fire and in UTC from then on (scheduler.go:59, 335).   *)
CronKeepsItsTimes ==
    \A t \in Cron : next[t] # None =>
        \E z \in {0, Zone} : (next[t] - z) % period[t] = 0

(* A leader asleep past the time of an enabled task has a signal waiting,  *)
(* or no more than its least sleep to go (scheduler.go:221, 235).          *)
NoOversleep ==
    \A s \in Scheduler, t \in enabled :
        pc[s] = "asleep" /\ Secs(next[t]) < Secs(clock + rest[s])
            => woken[s] \/ rest[s] <= MinSleep

(* "tick fires all due tasks" (scheduler.go:263): a tick that succeeds     *)
(* fires every enabled task with next_fire_at at or before now.            *)
TickFiresAllDue ==
    [][\A s \in Scheduler : Ticks(s) =>
          \A t \in enabled : next[t] <= now[s] => last'[t] = next[t]]_vars

(* While some call of Run goes on, a task whose time has come is fired,    *)
(* unless it is paused, removed or replaced.                               *)
TaskFires ==
    \A t \in Task, d \in 0..(MaxTime - 1) :
        Secs(d) < Secs(MaxTime) =>
            (t \in enabled /\ next[t] = d)
                ~> \/ ~(t \in enabled /\ next[t] = d)
                   \/ \A s \in Scheduler : pc[s] = "out"

=============================================================================
