-------------------------- MODULE SchedulerProofs ---------------------------
(***************************************************************************)
(* What the scheduler keeps for every set of calls of Run and of tasks:    *)
(* one leader at a time, when heartbeats never come later than the TTL;    *)
(* and, whoever leads, each due time fired once, no backlog, cron tasks on *)
(* their times and nobody asleep past a task.                              *)
(***************************************************************************)
EXTENDS Scheduler, TLAPS, WellFoundedInduction

(* LeaderHoldsLock is inductive once the row and the states have types.    *)
LeaderInv ==
    /\ row \in RowOf(Scheduler, TTL)
    /\ pc \in [Scheduler -> States]
    /\ LeaderHoldsLock

-----------------------------------------------------------------------------
(* The row. *)

LEMMA RowFacts ==
    ASSUME NEW r \in RowOf(Scheduler, TTL)
    PROVE  /\ Aged(r) \in RowOf(Scheduler, TTL)
           /\ Extended(r, TTL) \in RowOf(Scheduler, TTL)
           /\ \A s \in Scheduler : /\ Tried(r, s, TTL) \in RowOf(Scheduler, TTL)
                                   /\ Deleted(r, s) \in RowOf(Scheduler, TTL)
<1>. USE SchedulerAssumption DEF RowOf, Absent
<1>1. ASSUME NEW s \in Scheduler
      PROVE  /\ Tried(r, s, TTL) \in RowOf(Scheduler, TTL)
             /\ Deleted(r, s) \in RowOf(Scheduler, TTL)
  BY DEF Tried, Deleted
<1>2. Aged(r) \in RowOf(Scheduler, TTL)
  BY DEF Aged
<1>3. Extended(r, TTL) \in RowOf(Scheduler, TTL)
  BY DEF Extended
<1>4. QED
  BY <1>1, <1>2, <1>3

LEMMA OnlyLeader ==
    ASSUME LeaderInv
    PROVE  OneLeader
BY DEF LeaderInv, LeaderHoldsLock, OneLeader

-----------------------------------------------------------------------------
(* What the steps do to the row and to the leaders. *)

(* A step that leaves the row alone and makes nobody a leader. *)
LEMMA Bystander ==
    ASSUME LeaderInv, row' = row, pc' \in [Scheduler -> States],
           \A s \in Scheduler : Leads(s)' => Leads(s)
    PROVE  LeaderInv'
BY DEF LeaderInv, LeaderHoldsLock

(* The lock is free, so nobody leads, and the new leader's row is fresh. *)
LEMMA AcquireStep ==
    ASSUME LeaderInv, NEW s \in Scheduler, Acquire(s)
    PROVE  LeaderInv'
<1>. USE SchedulerAssumption DEF LeaderInv
<1>1. \A r \in Scheduler : ~Leads(r)
  BY DEF Acquire, Purged, Absent, LeaderHoldsLock, RowOf
<1>2. row' = [owner |-> s, left |-> TTL]
  BY DEF Acquire, Tried
<1>3. pc' = [pc EXCEPT ![s] = "awake"]
  BY DEF Acquire
<1>4. \A r \in Scheduler : Leads(r)' => r = s
  BY <1>1, <1>3 DEF Leads
<1>5. LeaderHoldsLock'
  BY <1>2, <1>4 DEF LeaderHoldsLock
<1>6. QED
  BY <1>3, <1>5, RowFacts DEF Acquire, States

(* A heartbeat, the leader's or a late one, gives the leader's row its     *)
(* full time again.                                                        *)
LEMMA BeatStep ==
    ASSUME LeaderInv, NEW s \in Scheduler, Beat(s)
    PROVE  LeaderInv'
<1>. USE SchedulerAssumption DEF LeaderInv
<1>1. row' = Extended(row, TTL) /\ pc' = pc
  BY DEF Beat
<1>2. ASSUME NEW r \in Scheduler, Leads(r)
      PROVE  row'.owner = r /\ row'.left >= 0
  <2>1. row.owner = r /\ r # NoOwner
    BY <1>2 DEF LeaderHoldsLock
  <2>2. row' = [row EXCEPT !.left = TTL]
    BY <1>1, <2>1 DEF Extended
  <2>3. QED
    BY <2>1, <2>2 DEF RowOf
<1>3. QED
  BY <1>1, <1>2, RowFacts DEF LeaderHoldsLock, Leads

(* A leader that returns takes no row but its own. *)
LEMMA ReturnStep ==
    ASSUME LeaderInv, NEW s \in Scheduler, Returns(s)
    PROVE  LeaderInv'
<1>. USE DEF LeaderInv
<1>1. pc' = [pc EXCEPT ![s] = "out"]
  BY DEF Returns, Ends
<1>2. row' \in {Deleted(row, s), row}
  BY DEF Returns
<1>3. ASSUME NEW r \in Scheduler, Leads(r)'
      PROVE  Leads(r) /\ r # s
  BY <1>1, <1>3 DEF Leads
<1>4. ASSUME NEW r \in Scheduler, Leads(r)'
      PROVE  row' = row
  BY <1>2, <1>3, <1>4 DEF Deleted, LeaderHoldsLock
<1>5. LeaderHoldsLock'
  BY <1>3, <1>4 DEF LeaderHoldsLock
<1>6. QED
  BY <1>1, <1>2, <1>5, RowFacts DEF States

(* A second passes only when the leader's row has one left. *)
LEMMA MomentStep ==
    ASSUME LeaderInv, Timely, Moment
    PROVE  LeaderInv'
<1>. USE DEF LeaderInv
<1>1. pc' = pc
  BY DEF Moment
<1>2. \/ row' = row
      \/ /\ row' = Aged(row)
         /\ \A s \in Scheduler : ~(Leads(s) /\ row.owner = s /\ row.left = 0)
  BY DEF Moment
<1>3. CASE row' = row
  BY <1>1, <1>3, Bystander DEF Leads
<1>4. ASSUME row' = Aged(row),
             \A s \in Scheduler : ~(Leads(s) /\ row.owner = s /\ row.left = 0)
      PROVE  LeaderInv'
  <2>1. ASSUME NEW s \in Scheduler, Leads(s)
        PROVE  row'.owner = s /\ row'.left >= 0
    <3>1. row.owner = s /\ row.left > 0
      BY <1>4, <2>1 DEF LeaderHoldsLock, RowOf
    <3>2. QED
      BY <1>4, <3>1 DEF Aged, RowOf
  <2>2. QED
    BY <1>1, <1>4, <2>1, RowFacts DEF LeaderHoldsLock, Leads
<1>5. QED
  BY <1>2, <1>3, <1>4

-----------------------------------------------------------------------------
LEMMA InitLeader == Init => LeaderInv
BY SchedulerAssumption DEF Init, LeaderInv, LeaderHoldsLock, Leads, States, RowOf, Absent

LEMMA NextLeader ==
    ASSUME LeaderInv, Timely, [Next]_vars
    PROVE  LeaderInv'
<1>1. CASE UNCHANGED vars
  BY <1>1, Bystander DEF vars, Leads, LeaderInv
<1>2. CASE Moment
  BY <1>2, MomentStep
<1>3. ASSUME UNCHANGED leader
      PROVE  LeaderInv'
  BY <1>3, Bystander DEF leader, Leads, LeaderInv
<1>4. CASE OtherCommit \/ AddCommits \/ AddFails
  BY <1>3, <1>4 DEF OtherCommit, AddCommits, AddFails, Set
<1>5. ASSUME NEW t \in Task, AddBegins(t) \/ Remove(t) \/ Pause(t) \/ Resume(t)
      PROVE  LeaderInv'
  BY <1>3, <1>5 DEF AddBegins, Remove, Pause, Resume, Set
<1>6. ASSUME NEW s \in Scheduler, Run(s)
      PROVE  LeaderInv'
  BY <1>6, Bystander DEF Run, Leads, LeaderInv, States
<1>7. ASSUME NEW s \in Scheduler, BeatEnds(s)
      PROVE  LeaderInv'
  BY <1>7, Bystander DEF BeatEnds, Leads, LeaderInv
<1>8. ASSUME NEW s \in Scheduler, Ends(s), row' = row
      PROVE  LeaderInv'
  BY <1>8, Bystander DEF Ends, Leads, LeaderInv, States
<1>9. ASSUME NEW s \in Scheduler, Cancel(s) \/ Fails(s) \/ Crash(s) \/ TickBroken(s)
      PROVE  LeaderInv'
  BY <1>8, <1>9, ReturnStep DEF Cancel, Fails, Crash, TickBroken
<1>10. ASSUME NEW s \in Scheduler,
              ReadNow(s) \/ TickTx(s) \/ Soonest(s) \/ Sleep(s) \/ Wake(s)
       PROVE  LeaderInv'
  <2>1. row' = row /\ Leads(s)
    BY <1>10 DEF ReadNow, TickTx, Soonest, Sleep, FallAsleep, Wake, Leads
  <2>2. PICK st \in States : pc' = [pc EXCEPT ![s] = st]
    BY <1>10 DEF ReadNow, TickTx, Soonest, Sleep, FallAsleep, Wake, States
  <2>3. QED
    BY <2>1, <2>2, Bystander DEF Leads, LeaderInv
<1>11. QED
  BY <1>1, <1>2, <1>4, <1>5, <1>6, <1>7, <1>9, <1>10, AcquireStep, BeatStep
     DEF Next, Loop

(* While heartbeats are never later than the TTL, a leader has the row of  *)
(* the lock it leads by (scheduler.go:194, 254).                           *)
THEOREM LeaderHolds ==
    ASSUME Timely
    PROVE  Spec => []LeaderHoldsLock
<1>1. LeaderInv /\ [Next]_vars => LeaderInv'
  BY NextLeader
<1>2. LeaderInv => LeaderHoldsLock
  BY DEF LeaderInv
<1>3. QED
  BY <1>1, <1>2, InitLeader, PTL DEF Spec

(* Under the same assumption only one call of Run leads, however many      *)
(* there are, whatever their TTL and whenever they end (scheduler.go:15).  *)
THEOREM OneLeads ==
    ASSUME Timely
    PROVE  Spec => []OneLeader
<1>1. LeaderInv /\ [Next]_vars => LeaderInv'
  BY NextLeader
<1>2. LeaderInv => OneLeader
  BY OnlyLeader
<1>3. QED
  BY <1>1, <1>2, InitLeader, PTL DEF Spec

-----------------------------------------------------------------------------
(* Arithmetic: quotients, multiples, seconds and the order of texts. *)

LEMMA DivMod ==
    ASSUME NEW a \in Int, NEW p \in Nat \ {0}
    PROVE  /\ a \div p \in Int
           /\ a % p \in 0..(p - 1)
           /\ a = p * (a \div p) + (a % p)
OBVIOUS

LEMMA Neighbours ==
    ASSUME NEW p \in Nat \ {0}, NEW k \in Int, NEW q \in Int,
           p * k < p * q + p
    PROVE  k <= q
<1>1. SUFFICES ASSUME k >= q + 1 PROVE FALSE
  OBVIOUS
<1>2. p * k >= p * (q + 1)
  BY <1>1
<1>3. p * (q + 1) = p * q + p
  OBVIOUS
<1> QED  BY <1>2, <1>3

LEMMA DivUnique ==
    ASSUME NEW a \in Int, NEW p \in Nat \ {0}, NEW q \in Int,
           p * q <= a, a < p * q + p
    PROVE  a \div p = q
<1>1. /\ a \div p \in Int /\ p * (a \div p) <= a /\ a < p * (a \div p) + p
  BY DivMod
<1>2. a \div p <= q
  BY <1>1, Neighbours
<1>3. q <= a \div p
  BY <1>1, Neighbours
<1> QED  BY <1>1, <1>2, <1>3

LEMMA Exact ==
    ASSUME NEW a \in Int, NEW p \in Nat \ {0}, a % p = 0
    PROVE  \E k \in Int : k = a \div p /\ a = p * k
<1>1. a \div p \in Int /\ a = p * (a \div p) + (a % p)
  BY DivMod
<1>2. a = p * (a \div p)
  BY <1>1
<1> QED  BY <1>1, <1>2

LEMMA Multiple ==
    ASSUME NEW a \in Int, NEW p \in Nat \ {0}, NEW k \in Int, a = p * k
    PROVE  a % p = 0
<1>1. p * k <= a /\ a < p * k + p
  OBVIOUS
<1>2. a \div p = k
  BY <1>1, DivUnique
<1>3. a = p * (a \div p) + (a % p) /\ a % p \in 0..(p - 1)
  BY DivMod, Zenon
<1>4. a = a + (a % p)
  BY <1>2, <1>3
<1> QED  BY <1>3, <1>4

LEMMA SecsFacts ==
    ASSUME NEW a \in Int
    PROVE  Secs(a) \in Int /\ Sub * Secs(a) <= a /\ a < Sub * Secs(a) + Sub
BY DivMod, SchedulerAssumption DEF Secs

LEMMA SecsOrder ==
    ASSUME NEW a \in Int, NEW b \in Int, a <= b
    PROVE  Secs(a) <= Secs(b)
<1>1. Secs(a) \in Int /\ Sub * Secs(a) <= a
  BY SecsFacts
<1>2. Secs(b) \in Int /\ b < Sub * Secs(b) + Sub
  BY SecsFacts
<1>3. Sub * Secs(a) < Sub * Secs(b) + Sub
  BY <1>1, <1>2, SchedulerAssumption
<1> QED  BY <1>1, <1>2, <1>3, Neighbours, SchedulerAssumption

(* A text sorts among those of its second. *)
LEMMA RankFacts ==
    ASSUME NEW a \in Int
    PROVE  /\ TextRank(a) \in Int
           /\ a - 1 <= TextRank(a) /\ TextRank(a) <= a + Sub - 1
           /\ Sub * Secs(a) <= TextRank(a) /\ TextRank(a) < Sub * Secs(a) + Sub
<1>1. /\ Secs(a) \in Int /\ a % Sub \in 0..(Sub - 1)
      /\ a = Sub * Secs(a) + (a % Sub)
  BY DivMod, SchedulerAssumption DEF Secs
<1>2. CASE a % Sub = 0
  BY <1>1, <1>2, SchedulerAssumption DEF TextRank
<1>3. CASE a % Sub # 0
  BY <1>1, <1>3, SchedulerAssumption DEF TextRank
<1> QED  BY <1>2, <1>3

LEMMA RankOrder ==
    ASSUME NEW a \in Int, NEW b \in Int, TextRank(a) <= TextRank(b)
    PROVE  Secs(a) <= Secs(b) /\ a <= b + Sub
<1>1. /\ Secs(a) \in Int /\ Secs(b) \in Int
      /\ TextRank(a) \in Int /\ TextRank(b) \in Int
      /\ Sub * Secs(a) <= TextRank(a) /\ TextRank(b) < Sub * Secs(b) + Sub
      /\ a - 1 <= TextRank(a) /\ TextRank(b) <= b + Sub - 1
  BY RankFacts, SecsFacts
<1>2. Sub * Secs(a) < Sub * Secs(b) + Sub
  BY <1>1, SchedulerAssumption
<1>3. Secs(a) <= Secs(b)
  BY <1>1, <1>2, Neighbours, SchedulerAssumption
<1>4. a <= b + Sub
  BY <1>1, SchedulerAssumption
<1> QED  BY <1>3, <1>4

-----------------------------------------------------------------------------
(* Schedules: the times NextAfter, Add and tick give a task. *)

LEMMA StoredFacts ==
    ASSUME NEW t \in Task
    PROVE  /\ period[t] \in 1..MaxPeriod
           /\ Stored(t) \in Nat /\ Stored(t) <= period[t]
           /\ t \notin Broken => Stored(t) > 0
           /\ t \in Cron => Stored(t) = period[t] /\ t \notin Broken
           /\ t \notin Cron \cup Broken => Stored(t) >= Sub
<1>0. period[t] \in 1..MaxPeriod /\ Sub \in Nat \ {0}
  BY SchedulerAssumption
<1>1. CASE t \in Cron
  BY <1>0, <1>1 DEF Stored, Broken
<1>2. CASE t \notin Cron
  <2>1. /\ Secs(period[t]) \in Int
        /\ Sub * Secs(period[t]) <= period[t]
        /\ period[t] < Sub * Secs(period[t]) + Sub
    BY <1>0, SecsFacts
  <2>2. Secs(period[t]) >= 0
    <3>1. Sub * 0 < Sub * Secs(period[t]) + Sub
      BY <1>0, <2>1
    <3> QED  BY <1>0, <2>1, <3>1, Neighbours
  <2>3. Stored(t) = Sub * Secs(period[t])
    BY <1>0, <1>2, <2>1 DEF Stored
  <2>4. CASE Secs(period[t]) = 0
    <3>1. Stored(t) = 0
      BY <1>0, <2>3, <2>4
    <3> QED  BY <1>0, <1>2, <3>1 DEF Broken
  <2>5. CASE Secs(period[t]) >= 1
    <3>1. Stored(t) >= Sub
      BY <1>0, <2>1, <2>3, <2>5
    <3> QED  BY <1>0, <1>2, <2>1, <2>3, <3>1
  <2> QED  BY <2>1, <2>2, <2>4, <2>5
<1> QED  BY <1>1, <1>2

(* The times of a cron expression, z past the multiples of its period p. *)
CronNext(p, z, at) == ((at + p - z) \div p) * p + z

LEMMA CronFacts ==
    ASSUME NEW p \in Nat \ {0}, NEW zone \in Nat, NEW at \in Nat
    PROVE  /\ CronNext(p, zone % p, at) \in Nat
           /\ at < CronNext(p, zone % p, at)
           /\ CronNext(p, zone % p, at) <= at + p
           /\ (CronNext(p, zone % p, at) - zone) % p = 0
<1>1. PICK w \in Int, z \in 0..(p - 1) : z = zone % p /\ zone = p * w + z
  <2>1. /\ zone \div p \in Int /\ zone % p \in 0..(p - 1)
        /\ zone = p * (zone \div p) + (zone % p)
    BY DivMod
  <2> QED  BY <2>1
<1>2. PICK b \in Int : b = at + p - z
  OBVIOUS
<1>3. PICK q \in Int : q = b \div p /\ p * q <= b /\ b < p * q + p
  BY DivMod
<1>4. p * q \in Int /\ q * p = p * q
  OBVIOUS
<1>5. PICK n : n = CronNext(p, z, at)
  OBVIOUS
<1>6. n = p * q + z
  BY <1>2, <1>3, <1>4, <1>5 DEF CronNext
<1>7. n \in Nat /\ at < n /\ n <= at + p
  BY <1>2, <1>3, <1>4, <1>6
<1>8. PICK k \in Int : q = w + k
  <2>1. q - w \in Int /\ q = w + (q - w)
    OBVIOUS
  <2> QED  BY <2>1
<1>9. p * (w + k) = p * w + p * k /\ p * w \in Int /\ p * k \in Int
  OBVIOUS
<1>10. n - zone = p * k /\ n - zone \in Int
  <2>1. n = p * w + p * k + z
    BY <1>6, <1>8, <1>9
  <2> QED  BY <1>1, <1>9, <2>1
<1>11. (n - zone) % p = 0
  BY <1>10, Multiple
<1> QED  BY <1>1, <1>5, <1>7, <1>11

(* The next time is after the one it is asked for, within a period of it,  *)
(* and for cron a time of the expression in the zone.                      *)
LEMMA NextFacts ==
    ASSUME NEW t \in Task \ Broken, NEW at \in Nat, NEW zone \in Nat
    PROVE  /\ NextAfter(t, at, zone) \in Nat
           /\ at < NextAfter(t, at, zone)
           /\ NextAfter(t, at, zone) <= at + period[t]
           /\ t \in Cron => (NextAfter(t, at, zone) - zone) % period[t] = 0
           /\ t \notin Cron => NextAfter(t, at, zone) >= at + Sub
<1>0. period[t] \in Nat \ {0} /\ Sub \in Nat \ {0}
  BY StoredFacts, SchedulerAssumption
<1>1. CASE t \in Cron
  <2>1. NextAfter(t, at, zone) = CronNext(period[t], zone % period[t], at)
    BY <1>1 DEF NextAfter, CronNext
  <2>2. /\ CronNext(period[t], zone % period[t], at) \in Nat
        /\ at < CronNext(period[t], zone % period[t], at)
        /\ CronNext(period[t], zone % period[t], at) <= at + period[t]
        /\ (CronNext(period[t], zone % period[t], at) - zone) % period[t] = 0
    BY <1>0, CronFacts, Zenon
  <2> QED  BY <1>1, <2>1, <2>2, Zenon
<1>2. CASE t \notin Cron
  BY <1>0, <1>2, StoredFacts DEF NextAfter
<1> QED  BY <1>1, <1>2

(* A time of t's expression in local time or in UTC. *)
OnTimes(t, at) == \E z \in {0, Zone} : (at - z) % period[t] = 0

LEMMA FirstFacts ==
    ASSUME NEW t \in Task, NEW at \in Nat
    PROVE  /\ FirstTime(t, at) \in Nat
           /\ FirstTime(t, at) <= at + period[t]
           /\ t \in Cron => OnTimes(t, FirstTime(t, at))
<1>1. CASE t \in Cron
  <2>1. FirstTime(t, at) = NextAfter(t, at, Zone)
    BY <1>1 DEF FirstTime
  <2>2. t \in Task \ Broken /\ Zone \in Nat
    BY <1>1, StoredFacts, SchedulerAssumption
  <2>3. /\ NextAfter(t, at, Zone) \in Nat
        /\ NextAfter(t, at, Zone) <= at + period[t]
        /\ (NextAfter(t, at, Zone) - Zone) % period[t] = 0
    BY <1>1, <2>2, NextFacts, Zenon
  <2> QED  BY <2>1, <2>3, Zenon DEF OnTimes
<1>2. CASE t \notin Cron
  BY <1>2, StoredFacts DEF FirstTime
<1> QED  BY <1>1, <1>2

(* The least time at or after at that is some intervals S after first. *)
CatchUp(S, at, first) == first + ((at - first + S - 1) \div S) * S

LEMMA CatchUpFacts ==
    ASSUME NEW S \in Nat \ {0}, NEW at \in Nat, NEW first \in Nat, first < at
    PROVE  /\ CatchUp(S, at, first) \in Nat
           /\ at <= CatchUp(S, at, first)
           /\ CatchUp(S, at, first) <= at + S
           /\ first % S = 0 => CatchUp(S, at, first) % S = 0
<1>1. PICK b \in Int : b = at - first + S - 1
  OBVIOUS
<1>2. PICK m \in Int : m = b \div S /\ S * m <= b /\ b < S * m + S
  BY DivMod
<1>3. S * m \in Int /\ m * S = S * m
  OBVIOUS
<1>4. PICK n : n = CatchUp(S, at, first)
  OBVIOUS
<1>5. n = first + S * m
  BY <1>1, <1>2, <1>3, <1>4 DEF CatchUp
<1>6. n \in Nat /\ at <= n /\ n <= at + S
  BY <1>1, <1>2, <1>3, <1>5
<1>7. ASSUME first % S = 0 PROVE n % S = 0
  <2>1. PICK k \in Int : k = first \div S /\ first = S * k
    BY <1>7, Exact
  <2>2. PICK j \in Int : j = k + m
    OBVIOUS
  <2>3. S * (k + m) = S * k + S * m
    OBVIOUS
  <2>4. n = S * j
    BY <1>5, <2>1, <2>2, <2>3
  <2> QED  BY <1>6, <2>4, Multiple
<1> QED  BY <1>4, <1>6, <1>7

(* What tick gives a task it fires: a time at or after its now, later than *)
(* the one it fires for.                                                   *)
LEMMA AdvancedFacts ==
    ASSUME NEW t \in Task \ Broken, NEW at \in Nat,
           next[t] \in Nat, next[t] <= at + Sub
    PROVE  /\ Advanced(t, at) \in Nat
           /\ at <= Advanced(t, at)
           /\ next[t] < Advanced(t, at)
           /\ Advanced(t, at) <= at + Sub + period[t]
           /\ t \in Cron => OnTimes(t, Advanced(t, at))
<1>0. /\ period[t] \in Nat \ {0} /\ Sub \in Nat \ {0}
      /\ Stored(t) \in Nat \ {0} /\ Stored(t) <= period[t]
      /\ t \in Cron => Stored(t) = period[t]
  BY StoredFacts, SchedulerAssumption
<1>1. PICK first : first = NextAfter(t, next[t], 0)
  OBVIOUS
<1>2. /\ NextAfter(t, next[t], 0) \in Nat /\ next[t] < NextAfter(t, next[t], 0)
      /\ NextAfter(t, next[t], 0) <= next[t] + period[t]
      /\ t \in Cron => (NextAfter(t, next[t], 0) - 0) % period[t] = 0
  BY NextFacts, 0 \in Nat, Zenon
<1>3. /\ first \in Nat /\ next[t] < first /\ first <= next[t] + period[t]
      /\ t \in Cron => first % period[t] = 0
  BY <1>1, <1>2
<1>4. Advanced(t, at) = IF first >= at THEN first ELSE CatchUp(Stored(t), at, first)
  BY <1>1 DEF Advanced, CatchUp
<1>5. ASSUME NEW n \in Nat, n % period[t] = 0 PROVE OnTimes(t, n)
  BY <1>5, n - 0 = n DEF OnTimes
<1>6. CASE first >= at
  <2>1. Advanced(t, at) = first
    BY <1>4, <1>6
  <2> QED  BY <1>0, <1>3, <1>5, <1>6, <2>1
<1>7. CASE first < at
  <2>1. Advanced(t, at) = CatchUp(Stored(t), at, first)
    BY <1>3, <1>4, <1>7
  <2>2. /\ CatchUp(Stored(t), at, first) \in Nat
        /\ at <= CatchUp(Stored(t), at, first)
        /\ CatchUp(Stored(t), at, first) <= at + Stored(t)
        /\ first % Stored(t) = 0 => CatchUp(Stored(t), at, first) % Stored(t) = 0
    BY <1>0, <1>3, <1>7, CatchUpFacts, Zenon
  <2>3. PICK n \in Nat : n = Advanced(t, at)
    BY <2>1, <2>2
  <2>4. at <= n /\ n <= at + Stored(t)
    BY <2>1, <2>2, <2>3
  <2>5. t \in Cron => n % period[t] = 0
    BY <1>0, <1>3, <2>1, <2>2, <2>3, Zenon
  <2> QED  BY <1>0, <1>3, <1>5, <1>7, <2>3, <2>4, <2>5
<1> QED  BY <1>3, <1>6, <1>7

(* Local and UTC times of a cron expression are whole seconds. *)
LEMMA CronOnSecond ==
    ASSUME NEW t \in Cron, NEW at \in Int, OnTimes(t, at)
    PROVE  at % Sub = 0
<1>0. /\ period[t] \in Nat \ {0} /\ Sub \in Nat \ {0} /\ Zone \in Nat
      /\ period[t] % Sub = 0 /\ Zone % Sub = 0
  BY StoredFacts, SchedulerAssumption
<1>1. PICK z \in {0, Zone} : (at - z) % period[t] = 0
  BY DEF OnTimes
<1>2. PICK j \in Int : j = z \div Sub /\ z = Sub * j
  <2>1. z \in Nat /\ z % Sub = 0
    BY <1>0
  <2> QED  BY <1>0, <2>1, Exact
<1>3. PICK p \in Nat \ {0} : p = period[t]
  BY <1>0
<1>4. PICK i \in Int : i = p \div Sub /\ p = Sub * i
  BY <1>0, <1>3, Exact
<1>5. PICK k \in Int : k = (at - z) \div p /\ at - z = p * k
  <2>1. at - z \in Int
    BY <1>0
  <2> QED  BY <1>1, <1>3, <2>1, Exact
<1>6. PICK l \in Int : l = i * k + j
  OBVIOUS
<1>7. (Sub * i) * k = Sub * (i * k)
  BY <1>0
<1>8. Sub * (i * k + j) = Sub * (i * k) + Sub * j
  BY <1>0
<1>9. at = Sub * l
  BY <1>0, <1>2, <1>4, <1>5, <1>6, <1>7, <1>8
<1> QED  BY <1>0, <1>9, Multiple

(* soonest finds a task: some enabled one has the least text. *)
LEMMA SoonestExists ==
    ASSUME enabled # {}, \A t \in enabled : next[t] \in Nat
    PROVE  \E t \in enabled : \A u \in enabled : TextRank(next[t]) <= TextRank(next[u])
<1>0. Sub \in Nat \ {0}
  BY SchedulerAssumption
<1>1. \A t \in enabled : TextRank(next[t]) \in Int /\ TextRank(next[t]) + 1 \in Nat
  BY <1>0, RankFacts
<1>2. PICK B : B = {TextRank(next[t]) + 1 : t \in enabled}
  OBVIOUS
<1>3. B \subseteq Nat /\ B # {}
  BY <1>1, <1>2
<1>4. PICK x \in B : \A y \in B : <<y, x>> \notin OpToRel(<, Nat)
  BY <1>3, NatLessThanWellFounded, WFMin, Zenon
<1>5. PICK t \in enabled : x = TextRank(next[t]) + 1
  BY <1>2, <1>4
<1>6. ASSUME NEW u \in enabled PROVE TextRank(next[t]) <= TextRank(next[u])
  <2>1. TextRank(next[u]) + 1 \in B
    BY <1>2
  <2>2. x \in Nat /\ TextRank(next[u]) + 1 \in Nat
    BY <1>3, <2>1
  <2>3. ~(TextRank(next[u]) + 1 < x)
    BY <1>4, <2>1, <2>2, Zenon DEF OpToRel
  <2> QED  BY <1>1, <1>5, <2>3
<1> QED  BY <1>5, <1>6

-----------------------------------------------------------------------------
(* Types, of the calls of Run and of the task table. *)

LeaderTypes ==
    /\ clock \in 0..MaxTime
    /\ row \in RowOf(Scheduler, TTL)
    /\ pc \in [Scheduler -> States]
    /\ now \in [Scheduler -> 0..MaxTime]
    /\ soon \in [Scheduler -> None..Horizon]
    /\ rest \in [Scheduler -> 0..MaxSleep]
    /\ woken \in [Scheduler -> BOOLEAN]
    /\ beat \in [Scheduler -> {"on", "off", "last"}]
    /\ stops \in 0..MaxStops

TaskTypes ==
    /\ next \in [Task -> None..Horizon]
    /\ enabled \subseteq {t \in Task : next[t] # None}
    /\ adding \in {<<>>} \cup (Task \X (0..Horizon))
    /\ last \in [Task -> None..Horizon]

LEMMA TypeParts == TypeOK <=> LeaderTypes /\ TaskTypes
BY DEF TypeOK, LeaderTypes, TaskTypes

LEMMA HorizonFacts == /\ Horizon = MaxTime + Sub + MaxPeriod /\ Horizon \in Nat
                      /\ MaxTime \in Nat /\ MaxPeriod \in Nat /\ Sub \in Nat \ {0}
BY SchedulerAssumption DEF Horizon

LEMMA SignalledFacts ==
    ASSUME LeaderTypes
    PROVE  /\ Signalled \in [Scheduler -> BOOLEAN]
           /\ \A s \in Scheduler : Signalled[s] = (woken[s] \/ Leads(s))
BY DEF Signalled, LeaderTypes, Leads

(* A tick's due tasks are registered ones, due within a second of its now. *)
LEMMA DueFacts ==
    ASSUME TypeOK, NEW at \in 0..MaxTime, NEW t \in DueTasks(at)
    PROVE  /\ t \in enabled /\ t \in Task /\ next[t] \in 0..Horizon
           /\ next[t] <= at + Sub /\ Secs(next[t]) <= Secs(at)
<1>1. t \in enabled /\ TextRank(next[t]) <= TextRank(at)
  BY DEF DueTasks
<1>2. t \in Task /\ next[t] \in 0..Horizon
  BY <1>1, HorizonFacts DEF TypeOK, None
<1>3. at \in Int /\ next[t] \in Int
  BY <1>2, HorizonFacts
<1> QED  BY <1>1, <1>2, <1>3, RankOrder

-----------------------------------------------------------------------------
LEMMA InitTypes == Init => TypeOK
BY SchedulerAssumption, HorizonFacts DEF Init, TypeOK, States, RowOf, Absent, None

(* The task table. *)
LEMMA TickTasks ==
    ASSUME TypeOK, NEW s \in Scheduler, TickTx(s)
    PROVE  /\ now[s] \in 0..MaxTime
           /\ enabled' = enabled /\ adding' = adding /\ clock' = clock
           /\ \A t \in Task :
                 IF t \in DueTasks(now[s])
                 THEN /\ t \in enabled /\ t \notin Broken
                      /\ next[t] \in 0..Horizon
                      /\ next[t] <= now[s] + Sub /\ Secs(next[t]) <= Secs(now[s])
                      /\ last'[t] = next[t]
                      /\ next'[t] = Advanced(t, now[s])
                      /\ next'[t] \in 0..Horizon
                      /\ next[t] < next'[t] /\ now[s] <= next'[t]
                      /\ t \in Cron => OnTimes(t, next'[t])
                 ELSE next'[t] = next[t] /\ last'[t] = last[t]
<1>1. now[s] \in 0..MaxTime /\ now[s] \in Nat
  BY HorizonFacts DEF TypeOK
<1>2. /\ enabled' = enabled /\ adding' = adding /\ clock' = clock
      /\ DueTasks(now[s]) \cap Broken = {}
      /\ next' = [t \in Task |-> IF t \in DueTasks(now[s])
                                 THEN Advanced(t, now[s]) ELSE next[t]]
      /\ last' = [t \in Task |-> IF t \in DueTasks(now[s]) THEN next[t] ELSE last[t]]
  BY DEF TickTx
<1>3. ASSUME NEW t \in Task, t \in DueTasks(now[s])
      PROVE  /\ t \in enabled /\ t \notin Broken
             /\ next[t] \in 0..Horizon
             /\ next[t] <= now[s] + Sub /\ Secs(next[t]) <= Secs(now[s])
             /\ last'[t] = next[t]
             /\ next'[t] = Advanced(t, now[s])
             /\ next'[t] \in 0..Horizon
             /\ next[t] < next'[t] /\ now[s] <= next'[t]
             /\ t \in Cron => OnTimes(t, next'[t])
  <2>1. /\ t \in enabled /\ next[t] \in 0..Horizon
        /\ next[t] <= now[s] + Sub /\ Secs(next[t]) <= Secs(now[s])
    BY <1>1, <1>3, DueFacts
  <2>2. t \notin Broken /\ next'[t] = Advanced(t, now[s]) /\ last'[t] = next[t]
    BY <1>2, <1>3
  <2>3. next[t] \in Nat /\ period[t] \in 1..MaxPeriod
    BY <2>1, HorizonFacts, StoredFacts
  <2>4. /\ Advanced(t, now[s]) \in Nat
        /\ now[s] <= Advanced(t, now[s])
        /\ next[t] < Advanced(t, now[s])
        /\ Advanced(t, now[s]) <= now[s] + Sub + period[t]
        /\ t \in Cron => OnTimes(t, Advanced(t, now[s]))
    BY <1>1, <2>1, <2>2, <2>3, AdvancedFacts
  <2>5. Advanced(t, now[s]) \in 0..Horizon
    BY <1>1, <2>3, <2>4, HorizonFacts
  <2> QED  BY <2>1, <2>2, <2>4, <2>5
<1>4. ASSUME NEW t \in Task, t \notin DueTasks(now[s])
      PROVE  next'[t] = next[t] /\ last'[t] = last[t]
  BY <1>2, <1>4
<1> QED  BY <1>1, <1>2, <1>3, <1>4

LEMMA TickTypes ==
    ASSUME TypeOK, NEW s \in Scheduler, TickTx(s)
    PROVE  TaskTypes'
<1>1. next' \in [Task -> None..Horizon]
  <2>1. ASSUME NEW t \in Task PROVE next'[t] \in None..Horizon
    <3>1. next[t] \in None..Horizon
      BY DEF TypeOK
    <3>2. next'[t] \in 0..Horizon \/ next'[t] = next[t]
      BY TickTasks
    <3> QED  BY <3>1, <3>2, HorizonFacts DEF None
  <2> QED  BY <2>1 DEF TickTx
<1>2. last' \in [Task -> None..Horizon]
  <2>1. ASSUME NEW t \in Task PROVE last'[t] \in None..Horizon
    <3>1. next[t] \in None..Horizon /\ last[t] \in None..Horizon
      BY DEF TypeOK
    <3>2. last'[t] = next[t] \/ last'[t] = last[t]
      BY TickTasks
    <3> QED  BY <3>1, <3>2
  <2> QED  BY <2>1 DEF TickTx
<1>3. enabled' \subseteq {t \in Task : next'[t] # None}
  <2>1. \A t \in enabled : t \in Task /\ next[t] # None
    BY DEF TypeOK
  <2>2. \A t \in enabled : next'[t] # None
    BY <2>1, TickTasks, HorizonFacts DEF None
  <2> QED  BY <2>1, <2>2, TickTasks
<1>4. adding' \in {<<>>} \cup (Task \X (0..Horizon))
  BY TickTasks DEF TypeOK
<1> QED  BY <1>1, <1>2, <1>3, <1>4 DEF TaskTypes

LEMMA AdminTypes ==
    ASSUME TypeOK,
           \/ AddCommits \/ AddFails
           \/ \E t \in Task : AddBegins(t) \/ Remove(t) \/ Pause(t) \/ Resume(t)
    PROVE  TaskTypes' /\ UNCHANGED <<clock, leader>>
<1>0. TaskTypes /\ clock \in 0..MaxTime /\ clock \in Nat
  BY TypeParts, HorizonFacts DEF LeaderTypes
<1>1. CASE AddCommits
  <2>1. adding[1] \in Task /\ adding[2] \in 0..Horizon
    BY <1>0, <1>1 DEF AddCommits, TaskTypes
  <2>2. adding[2] \in None..Horizon /\ adding[2] # None /\ None \in None..Horizon
    BY <2>1, HorizonFacts DEF None
  <2>3. /\ next' = [next EXCEPT ![adding[1]] = adding[2]]
        /\ enabled' = enabled \cup {adding[1]}
        /\ last' = [last EXCEPT ![adding[1]] = None]
        /\ adding' = <<>> /\ UNCHANGED <<clock, leader>>
    BY <1>1 DEF AddCommits, Set
  <2> QED  BY <1>0, <2>1, <2>2, <2>3 DEF TaskTypes
<1>2. CASE AddFails
  BY <1>0, <1>2 DEF AddFails, TaskTypes
<1>3. ASSUME NEW t \in Task, AddBegins(t)
      PROVE  TaskTypes' /\ UNCHANGED <<clock, leader>>
  <2>1. /\ FirstTime(t, clock) \in Nat /\ FirstTime(t, clock) <= clock + period[t]
        /\ period[t] \in 1..MaxPeriod
    BY <1>0, FirstFacts, StoredFacts
  <2>2. FirstTime(t, clock) \in 0..Horizon
    BY <1>0, <2>1, HorizonFacts
  <2> QED  BY <1>0, <1>3, <2>2 DEF AddBegins, TaskTypes
<1>4. ASSUME NEW t \in Task, Remove(t)
      PROVE  TaskTypes' /\ UNCHANGED <<clock, leader>>
  <2>1. None \in None..Horizon
    BY HorizonFacts DEF None
  <2>2. /\ next' = [next EXCEPT ![t] = None] /\ last' = [last EXCEPT ![t] = None]
        /\ enabled' = enabled \ {t} /\ adding' = adding /\ UNCHANGED <<clock, leader>>
    BY <1>4 DEF Remove, Set
  <2> QED  BY <1>0, <2>1, <2>2 DEF TaskTypes
<1>5. ASSUME NEW t \in Task, Pause(t)
      PROVE  TaskTypes' /\ UNCHANGED <<clock, leader>>
  <2>1. /\ next' = next /\ enabled' = enabled \ {t}
        /\ UNCHANGED <<adding, last, clock, leader>>
    BY <1>0, <1>5 DEF Pause, Set, TaskTypes
  <2> QED  BY <1>0, <2>1 DEF TaskTypes
<1>6. ASSUME NEW t \in Task, Resume(t)
      PROVE  TaskTypes' /\ UNCHANGED <<clock, leader>>
  <2>1. /\ t \notin Broken
        /\ next' = [next EXCEPT ![t] = NextAfter(t, clock, Zone)]
        /\ enabled' = enabled \cup {t} /\ UNCHANGED <<adding, last, clock, leader>>
    BY <1>6 DEF Resume, Set
  <2>2. /\ NextAfter(t, clock, Zone) \in Nat
        /\ NextAfter(t, clock, Zone) <= clock + period[t]
        /\ period[t] \in 1..MaxPeriod
    BY <1>0, <2>1, NextFacts, StoredFacts, SchedulerAssumption
  <2>3. NextAfter(t, clock, Zone) \in None..Horizon /\ NextAfter(t, clock, Zone) # None
    BY <1>0, <2>2, HorizonFacts DEF None
  <2> QED  BY <1>0, <2>1, <2>3 DEF TaskTypes
<1> QED  BY <1>1, <1>2, <1>3, <1>4, <1>5, <1>6

(* The calls of Run. *)
LEMMA ReturnTypes ==
    ASSUME TypeOK, NEW s \in Scheduler, Returns(s), stops' \in 0..MaxStops
    PROVE  TypeOK'
<1>0. LeaderTypes /\ TaskTypes
  BY TypeParts
<1>1. /\ pc' = [pc EXCEPT ![s] = "out"] /\ now' = [now EXCEPT ![s] = 0]
      /\ soon' = [soon EXCEPT ![s] = None] /\ rest' = [rest EXCEPT ![s] = 0]
      /\ beat' = [beat EXCEPT ![s] = "last"]
      /\ UNCHANGED <<clock, tasks>>
      /\ row' \in {Deleted(row, s), row}
  BY DEF Returns, Ends
<1>2. row' \in RowOf(Scheduler, TTL)
  BY <1>0, <1>1, RowFacts DEF LeaderTypes
<1>3. woken' \in [Scheduler -> BOOLEAN]
  <2>1. PICK w \in [Scheduler -> BOOLEAN] : woken' = [w EXCEPT ![s] = FALSE]
    BY <1>0, SignalledFacts DEF Returns, LeaderTypes
  <2> QED  BY <2>1
<1>4. 0 \in 0..MaxTime /\ None \in None..Horizon /\ 0 \in 0..MaxSleep
  BY HorizonFacts, SchedulerAssumption DEF None
<1>5. LeaderTypes'
  BY <1>0, <1>1, <1>2, <1>3, <1>4 DEF LeaderTypes, States
<1>6. TaskTypes'
  BY <1>0, <1>1 DEF TaskTypes, tasks
<1> QED  BY <1>5, <1>6, TypeParts DEF TypeOK, LeaderTypes, TaskTypes

LEMMA StopTypes ==
    ASSUME TypeOK, NEW s \in Scheduler,
           Cancel(s) \/ Fails(s) \/ Crash(s) \/ TickBroken(s)
    PROVE  TypeOK'
<1>0. stops \in 0..MaxStops /\ MaxStops \in Nat
  BY SchedulerAssumption DEF TypeOK
<1>1. stops' \in 0..MaxStops
  BY <1>0 DEF Cancel, Fails, Crash, TickBroken, Counted
<1>2. CASE Returns(s)
  BY <1>1, <1>2, ReturnTypes
<1>3. CASE ~Returns(s)
  <2>1. /\ Ends(s) /\ row' = row
        /\ \/ woken' = woken /\ beat' = beat
           \/ /\ woken' = [woken EXCEPT ![s] = FALSE]
              /\ beat' = [beat EXCEPT ![s] = "off"]
    BY <1>3 DEF Cancel, Fails, Crash, TickBroken
  <2>2. 0 \in 0..MaxTime /\ None \in None..Horizon /\ 0 \in 0..MaxSleep
    BY HorizonFacts, SchedulerAssumption DEF None
  <2>3. LeaderTypes'
    BY <1>1, <2>1, <2>2, TypeParts DEF LeaderTypes, States, Ends
  <2>4. TaskTypes'
    BY <2>1, TypeParts DEF TaskTypes, tasks, Ends
  <2> QED  BY <2>3, <2>4 DEF TypeOK, LeaderTypes, TaskTypes
<1> QED  BY <1>2, <1>3

LEMMA LeaseTypes ==
    ASSUME TypeOK, NEW s \in Scheduler, Run(s) \/ Acquire(s) \/ Beat(s) \/ BeatEnds(s)
    PROVE  LeaderTypes' /\ UNCHANGED tasks
<1>0. LeaderTypes
  BY TypeParts
<1>1. row' \in RowOf(Scheduler, TTL)
  BY <1>0, RowFacts DEF Run, Acquire, Beat, BeatEnds, LeaderTypes
<1>2. pc' \in [Scheduler -> States]
  BY <1>0 DEF Run, Acquire, Beat, BeatEnds, LeaderTypes, States
<1>3. woken' \in [Scheduler -> BOOLEAN]
  BY <1>0, SignalledFacts DEF Run, Acquire, Beat, BeatEnds, LeaderTypes
<1>4. beat' \in [Scheduler -> {"on", "off", "last"}]
  BY <1>0 DEF Run, Acquire, Beat, BeatEnds, LeaderTypes
<1>5. UNCHANGED <<clock, now, soon, rest, stops, tasks>>
  BY DEF Run, Acquire, Beat, BeatEnds
<1> QED  BY <1>0, <1>1, <1>2, <1>3, <1>4, <1>5 DEF LeaderTypes

LEMMA SoonestFacts ==
    ASSUME TypeOK, NEW s \in Scheduler, Soonest(s)
    PROVE  /\ soon' \in [Scheduler -> None..Horizon]
           /\ \A t \in enabled : /\ soon'[s] \in 0..Horizon
                                 /\ TextRank(soon'[s]) <= TextRank(next[t])
<1>0. soon \in [Scheduler -> None..Horizon] /\ None \in None..Horizon
  BY HorizonFacts DEF TypeOK, None
<1>1. \A t \in enabled : next[t] \in 0..Horizon /\ next[t] \in Nat
  BY HorizonFacts DEF TypeOK, None
<1>2. CASE enabled = {}
  <2>1. soon' = [soon EXCEPT ![s] = None]
    BY <1>2 DEF Soonest
  <2> QED  BY <1>0, <1>2, <2>1
<1>3. CASE enabled # {}
  <2>1. \E t \in enabled : \A u \in enabled : TextRank(next[t]) <= TextRank(next[u])
    BY <1>1, <1>3, SoonestExists
  <2>2. PICK m \in enabled :
           /\ m = CHOOSE t \in enabled :
                     \A u \in enabled : TextRank(next[t]) <= TextRank(next[u])
           /\ \A u \in enabled : TextRank(next[m]) <= TextRank(next[u])
    BY <2>1, Zenon
  <2>3. soon' = [soon EXCEPT ![s] = next[m]]
    BY <1>3, <2>2 DEF Soonest
  <2>4. next[m] \in 0..Horizon /\ next[m] \in None..Horizon
    BY <1>1, <2>2, HorizonFacts DEF None
  <2> QED  BY <1>0, <2>2, <2>3, <2>4
<1> QED  BY <1>2, <1>3

LEMMA LoopTypes ==
    ASSUME TypeOK, NEW s \in Scheduler,
           ReadNow(s) \/ TickTx(s) \/ Soonest(s) \/ Sleep(s) \/ Wake(s)
    PROVE  LeaderTypes'
<1>0. LeaderTypes
  BY TypeParts
<1>1. pc' \in [Scheduler -> States]
  BY <1>0 DEF ReadNow, TickTx, Soonest, Sleep, FallAsleep, Wake, LeaderTypes, States
<1>2. now' \in [Scheduler -> 0..MaxTime]
  <2>1. 0 \in 0..MaxTime
    BY HorizonFacts
  <2> QED  BY <1>0, <2>1 DEF ReadNow, TickTx, Soonest, Sleep, FallAsleep, Wake, LeaderTypes
<1>3. soon' \in [Scheduler -> None..Horizon]
  <2>1. None \in None..Horizon
    BY HorizonFacts DEF None
  <2> QED  BY <1>0, <2>1, SoonestFacts
           DEF ReadNow, TickTx, Sleep, FallAsleep, Wake, LeaderTypes
<1>4. rest' \in [Scheduler -> 0..MaxSleep]
  <2>1. CASE Sleep(s)
    <3>1. /\ clock \in Int /\ soon[s] \in Int
          /\ MinSleep \in Nat /\ MaxSleep \in Nat /\ MinSleep <= MaxSleep
      BY <1>0, HorizonFacts, SchedulerAssumption DEF LeaderTypes, None
    <3>2. Between(MinSleep, MaxSleep, soon[s] - clock) \in 0..MaxSleep
      BY <3>1 DEF Between
    <3>3. CASE soon[s] = None
      <4>1. rest' = [rest EXCEPT ![s] = MaxSleep]
        BY <2>1, <3>3 DEF Sleep, FallAsleep
      <4> QED  BY <1>0, <3>1, <4>1 DEF LeaderTypes
    <3>4. CASE soon[s] # None
      <4>1. rest' = [rest EXCEPT ![s] = Between(MinSleep, MaxSleep, soon[s] - clock)]
        BY <2>1, <3>4 DEF Sleep, FallAsleep
      <4> QED  BY <1>0, <3>2, <4>1 DEF LeaderTypes
    <3> QED  BY <3>3, <3>4
  <2>2. CASE ~Sleep(s)
    <3>1. 0 \in 0..MaxSleep
      BY SchedulerAssumption
    <3> QED  BY <1>0, <2>2, <3>1 DEF ReadNow, TickTx, Soonest, Wake, LeaderTypes
  <2> QED  BY <2>1, <2>2
<1>5. woken' \in [Scheduler -> BOOLEAN]
  BY <1>0, SignalledFacts
     DEF ReadNow, TickTx, Soonest, Sleep, FallAsleep, Wake, LeaderTypes
<1>6. UNCHANGED <<clock, row, beat, stops>>
  BY DEF ReadNow, TickTx, Soonest, Sleep, FallAsleep, Wake
<1> QED  BY <1>0, <1>1, <1>2, <1>3, <1>4, <1>5, <1>6 DEF LeaderTypes

(* A step that keeps the task table and the leaders' own variables. *)
LEMMA WorldTypes ==
    ASSUME TypeOK, Moment \/ OtherCommit
    PROVE  LeaderTypes' /\ UNCHANGED tasks
<1>0. LeaderTypes
  BY TypeParts
<1>1. CASE OtherCommit
  BY <1>0, <1>1, SignalledFacts DEF OtherCommit, LeaderTypes, leader
<1>2. CASE Moment
  <2>1. clock' \in 0..MaxTime
    BY <1>0, <1>2, HorizonFacts DEF Moment, LeaderTypes
  <2>2. row' \in RowOf(Scheduler, TTL)
    BY <1>0, <1>2, RowFacts DEF Moment, LeaderTypes
  <2>3. rest' \in [Scheduler -> 0..MaxSleep]
    BY <1>0, <1>2, SchedulerAssumption DEF Moment, LeaderTypes
  <2>4. UNCHANGED <<pc, now, soon, woken, beat, stops, tasks>>
    BY <1>2 DEF Moment
  <2> QED  BY <1>0, <2>1, <2>2, <2>3, <2>4 DEF LeaderTypes
<1> QED  BY <1>1, <1>2

LEMMA NextTypes ==
    ASSUME TypeOK, [Next]_vars
    PROVE  TypeOK'
<1>0. LeaderTypes /\ TaskTypes
  BY TypeParts
<1>1. ASSUME LeaderTypes', TaskTypes' PROVE TypeOK'
  BY <1>1 DEF TypeOK, LeaderTypes, TaskTypes
<1>2. ASSUME UNCHANGED tasks PROVE TaskTypes'
  BY <1>0, <1>2 DEF TaskTypes, tasks
<1>3. CASE UNCHANGED vars
  BY <1>3 DEF vars, TypeOK
<1>4. CASE Moment \/ OtherCommit
  BY <1>1, <1>2, <1>4, WorldTypes
<1>5. CASE \/ AddCommits \/ AddFails
           \/ \E t \in Task : AddBegins(t) \/ Remove(t) \/ Pause(t) \/ Resume(t)
  <2>1. TaskTypes' /\ UNCHANGED <<clock, leader>>
    BY <1>5, AdminTypes
  <2>2. woken' \in [Scheduler -> BOOLEAN]
    BY <1>0, <1>5, SignalledFacts
       DEF AddCommits, AddFails, AddBegins, Remove, Pause, Resume, Set, LeaderTypes
  <2>3. LeaderTypes'
    BY <1>0, <2>1, <2>2 DEF LeaderTypes, leader
  <2> QED  BY <1>1, <2>1, <2>3
<1>6. ASSUME NEW s \in Scheduler, Run(s) \/ Acquire(s) \/ Beat(s) \/ BeatEnds(s)
      PROVE  TypeOK'
  BY <1>1, <1>2, <1>6, LeaseTypes
<1>7. ASSUME NEW s \in Scheduler, Cancel(s) \/ Fails(s) \/ Crash(s) \/ TickBroken(s)
      PROVE  TypeOK'
  BY <1>7, StopTypes
<1>8. ASSUME NEW s \in Scheduler, TickTx(s)
      PROVE  TypeOK'
  BY <1>1, <1>8, TickTypes, LoopTypes
<1>9. ASSUME NEW s \in Scheduler, ReadNow(s) \/ Soonest(s) \/ Sleep(s) \/ Wake(s)
      PROVE  TypeOK'
  <2>1. UNCHANGED tasks
    BY <1>9 DEF ReadNow, Soonest, Sleep, FallAsleep, Wake
  <2> QED  BY <1>1, <1>2, <1>9, <2>1, LoopTypes
<1> QED  BY <1>3, <1>4, <1>5, <1>6, <1>7, <1>8, <1>9 DEF Next, Loop

(* Whatever the calls of Run, the administration and the clock do in       *)
(* whatever order, every time the scheduler stores or sleeps for is a      *)
(* bounded one (scheduler.go:339, 235).                                    *)
THEOREM Types == Spec => []TypeOK
<1>1. TypeOK /\ [Next]_vars => TypeOK'
  BY NextTypes
<1> QED  BY <1>1, InitTypes, PTL DEF Spec

-----------------------------------------------------------------------------
(* Due times: the invariant of the task table. *)

(* A call of Add holds a time of its cron expression between its steps. *)
AddsOnTimes == adding # <<>> /\ adding[1] \in Cron => OnTimes(adding[1], adding[2])

NowIsPast == \A s \in Scheduler : now[s] <= clock

(* A task has fired for a time whose second has come, before its next one. *)
FiredBefore ==
    \A t \in Task : last[t] # None =>
        /\ last[t] < next[t] /\ Secs(last[t]) <= Secs(clock)
        /\ t \in Cron => last[t] % Sub = 0

TimesInv ==
    /\ TypeOK
    /\ CronKeepsItsTimes
    /\ AddsOnTimes
    /\ NowIsPast
    /\ FiredBefore

LEMMA TaskSteps ==
    ASSUME TypeOK, [Next]_vars
    PROVE  \/ UNCHANGED tasks
           \/ AddCommits \/ AddFails
           \/ \E t \in Task : AddBegins(t) \/ Remove(t) \/ Pause(t) \/ Resume(t)
           \/ \E s \in Scheduler : TickTx(s)
<1>1. CASE UNCHANGED vars
  BY <1>1 DEF vars, tasks
<1>2. CASE Moment \/ OtherCommit
  BY <1>2, WorldTypes
<1>3. ASSUME NEW s \in Scheduler, Run(s) \/ Acquire(s) \/ Beat(s) \/ BeatEnds(s)
      PROVE  UNCHANGED tasks
  BY <1>3, LeaseTypes
<1>4. ASSUME NEW s \in Scheduler, Cancel(s) \/ Fails(s) \/ Crash(s) \/ TickBroken(s)
      PROVE  UNCHANGED tasks
  BY <1>4 DEF Cancel, Fails, Crash, TickBroken, Returns, Ends, tasks
<1>5. ASSUME NEW s \in Scheduler, ReadNow(s) \/ Soonest(s) \/ Sleep(s) \/ Wake(s)
      PROVE  UNCHANGED tasks
  BY <1>5 DEF ReadNow, Soonest, Sleep, FallAsleep, Wake, tasks
<1> QED  BY <1>1, <1>2, <1>3, <1>4, <1>5 DEF Next, Loop

(* Only Moment moves the clock, and forward. *)
LEMMA ClockSteps ==
    ASSUME TypeOK, [Next]_vars
    PROVE  /\ clock \in Nat /\ clock' \in Nat /\ clock <= clock'
           /\ ~Moment => clock' = clock
<1>0. clock \in Nat
  BY HorizonFacts DEF TypeOK
<1>1. CASE UNCHANGED vars
  BY <1>0, <1>1 DEF vars
<1>2. CASE Moment
  BY <1>0, <1>2 DEF Moment
<1>3. CASE OtherCommit
  BY <1>0, <1>3 DEF OtherCommit
<1>4. CASE \/ AddCommits \/ AddFails
           \/ \E t \in Task : AddBegins(t) \/ Remove(t) \/ Pause(t) \/ Resume(t)
  BY <1>0, <1>4, AdminTypes
<1>5. ASSUME NEW s \in Scheduler, Run(s) \/ Acquire(s) \/ Beat(s) \/ BeatEnds(s)
      PROVE  clock' = clock
  BY <1>5 DEF Run, Acquire, Beat, BeatEnds
<1>6. ASSUME NEW s \in Scheduler, Cancel(s) \/ Fails(s) \/ Crash(s) \/ TickBroken(s)
      PROVE  clock' = clock
  BY <1>6 DEF Cancel, Fails, Crash, TickBroken, Returns, Ends
<1>7. ASSUME NEW s \in Scheduler,
             ReadNow(s) \/ TickTx(s) \/ Soonest(s) \/ Sleep(s) \/ Wake(s)
      PROVE  clock' = clock
  BY <1>7 DEF ReadNow, TickTx, Soonest, Sleep, FallAsleep, Wake
<1> QED  BY <1>0, <1>1, <1>2, <1>3, <1>4, <1>5, <1>6, <1>7 DEF Next, Loop

LEMMA NowSteps ==
    ASSUME TypeOK, NowIsPast, [Next]_vars
    PROVE  NowIsPast'
<1>0. /\ now \in [Scheduler -> 0..MaxTime] /\ clock \in Nat /\ clock' \in Nat
      /\ clock <= clock'
  BY ClockSteps DEF TypeOK
<1>1. \A s \in Scheduler : now[s] \in Nat
  BY <1>0, HorizonFacts
<1>2. ASSUME now' = now PROVE NowIsPast'
  BY <1>0, <1>1, <1>2 DEF NowIsPast
<1>3. ASSUME NEW s \in Scheduler, NEW n \in Nat, n <= clock, now' = [now EXCEPT ![s] = n]
      PROVE  NowIsPast'
  BY <1>0, <1>1, <1>3 DEF NowIsPast
<1>4. CASE UNCHANGED vars
  BY <1>2, <1>4 DEF vars
<1>5. CASE Moment \/ OtherCommit
  BY <1>2, <1>5 DEF Moment, OtherCommit, leader
<1>6. CASE \/ AddCommits \/ AddFails
           \/ \E t \in Task : AddBegins(t) \/ Remove(t) \/ Pause(t) \/ Resume(t)
  BY <1>2, <1>6, AdminTypes DEF leader
<1>7. ASSUME NEW s \in Scheduler, Run(s) \/ Acquire(s) \/ Beat(s) \/ BeatEnds(s)
      PROVE  NowIsPast'
  BY <1>2, <1>7 DEF Run, Acquire, Beat, BeatEnds
<1>8. ASSUME NEW s \in Scheduler,
             Cancel(s) \/ Fails(s) \/ Crash(s) \/ TickBroken(s) \/ TickTx(s)
      PROVE  NowIsPast'
  <2>1. now' = [now EXCEPT ![s] = 0]
    BY <1>8 DEF Cancel, Fails, Crash, TickBroken, TickTx, Returns, Ends
  <2> QED  BY <1>0, <1>1, <2>1 DEF NowIsPast
<1>9. ASSUME NEW s \in Scheduler, ReadNow(s) PROVE NowIsPast'
  BY <1>0, <1>3, <1>9 DEF ReadNow
<1>10. ASSUME NEW s \in Scheduler, Soonest(s) \/ Sleep(s) \/ Wake(s) PROVE NowIsPast'
  BY <1>2, <1>10 DEF Soonest, Sleep, FallAsleep, Wake
<1> QED  BY <1>4, <1>5, <1>6, <1>7, <1>8, <1>9, <1>10 DEF Next, Loop

-----------------------------------------------------------------------------
LEMMA CronTimesStep ==
    ASSUME TimesInv, [Next]_vars
    PROVE  CronKeepsItsTimes' /\ AddsOnTimes'
<1>0. /\ TypeOK /\ AddsOnTimes /\ Cron \subseteq Task /\ clock \in Nat
      /\ next \in [Task -> None..Horizon]
      /\ adding # <<>> => adding[1] \in Task
      /\ \A t \in Cron : next[t] # None => OnTimes(t, next[t])
  BY ClockSteps, SchedulerAssumption DEF TimesInv, TypeOK, CronKeepsItsTimes, OnTimes
<1>1. ASSUME \A t \in Cron : next'[t] # None => OnTimes(t, next'[t])
      PROVE  CronKeepsItsTimes'
  BY <1>1 DEF CronKeepsItsTimes, OnTimes
<1>2. ASSUME adding' = adding \/ adding' = <<>> PROVE AddsOnTimes'
  BY <1>0, <1>2 DEF AddsOnTimes
<1>3. CASE UNCHANGED tasks
  BY <1>0, <1>1, <1>2, <1>3 DEF tasks
<1>4. CASE AddCommits
  <2>1. /\ adding # <<>> /\ adding' = <<>>
        /\ next' = [next EXCEPT ![adding[1]] = adding[2]]
    BY <1>4 DEF AddCommits, Set
  <2> QED  BY <1>0, <1>1, <1>2, <2>1 DEF AddsOnTimes
<1>5. CASE AddFails
  BY <1>0, <1>1, <1>2, <1>5 DEF AddFails
<1>6. ASSUME NEW t \in Task, AddBegins(t)
      PROVE  CronKeepsItsTimes' /\ AddsOnTimes'
  <2>1. next' = next /\ adding' = <<t, FirstTime(t, clock)>>
    BY <1>6 DEF AddBegins
  <2>2. t \in Cron => OnTimes(t, FirstTime(t, clock))
    BY <1>0, FirstFacts
  <2>3. adding'[1] = t /\ adding'[2] = FirstTime(t, clock)
    BY <2>1
  <2>4. AddsOnTimes'
    BY <2>2, <2>3 DEF AddsOnTimes
  <2> QED  BY <1>0, <1>1, <2>1, <2>4
<1>7. ASSUME NEW t \in Task, Remove(t)
      PROVE  CronKeepsItsTimes' /\ AddsOnTimes'
  <2>1. next' = [next EXCEPT ![t] = None] /\ adding' = adding
    BY <1>7 DEF Remove, Set
  <2> QED  BY <1>0, <1>1, <1>2, <2>1
<1>8. ASSUME NEW t \in Task, Pause(t)
      PROVE  CronKeepsItsTimes' /\ AddsOnTimes'
  <2>1. next' = next /\ adding' = adding
    BY <1>0, <1>8 DEF Pause, Set
  <2> QED  BY <1>0, <1>1, <1>2, <2>1
<1>9. ASSUME NEW t \in Task, Resume(t)
      PROVE  CronKeepsItsTimes' /\ AddsOnTimes'
  <2>1. /\ next' = [next EXCEPT ![t] = NextAfter(t, clock, Zone)] /\ adding' = adding
        /\ t \notin Broken
    BY <1>9 DEF Resume, Set
  <2>2. Zone \in Nat
    BY SchedulerAssumption
  <2>3. t \in Cron => (NextAfter(t, clock, Zone) - Zone) % period[t] = 0
    BY <1>0, <2>1, <2>2, NextFacts, Zenon
  <2>4. t \in Cron => OnTimes(t, NextAfter(t, clock, Zone))
    BY <2>3, Zenon DEF OnTimes
  <2> QED  BY <1>0, <1>1, <1>2, <2>1, <2>4
<1>10. ASSUME NEW s \in Scheduler, TickTx(s)
       PROVE  CronKeepsItsTimes' /\ AddsOnTimes'
  <2>1. adding' = adding
    BY <1>0, <1>10, TickTasks
  <2>2. ASSUME NEW t \in Cron, next'[t] # None PROVE OnTimes(t, next'[t])
    BY <1>0, <1>10, <2>2, TickTasks
  <2> QED  BY <1>1, <1>2, <2>1, <2>2
<1> QED  BY <1>0, <1>3, <1>4, <1>5, <1>6, <1>7, <1>8, <1>9, <1>10, TaskSteps

(* A task is resumed for a time later than any it has fired for. *)
LEMMA ResumedLater ==
    ASSUME NEW t \in Task \ Broken, NEW at \in Nat, NEW fired \in Int,
           Secs(fired) <= Secs(at), t \in Cron => fired % Sub = 0
    PROVE  fired < NextAfter(t, at, Zone)
<1>0. Sub \in Nat \ {0} /\ Zone \in Nat
  BY SchedulerAssumption
<1>1. /\ NextAfter(t, at, Zone) \in Nat /\ at < NextAfter(t, at, Zone)
      /\ t \notin Cron => NextAfter(t, at, Zone) >= at + Sub
  BY <1>0, NextFacts, Zenon
<1>2. /\ Secs(fired) \in Int /\ Secs(at) \in Int
      /\ fired < Sub * Secs(fired) + Sub /\ Sub * Secs(at) <= at
  BY SecsFacts
<1>3. Sub * Secs(fired) <= Sub * Secs(at)
  BY <1>0, <1>2
<1>4. Sub * Secs(fired) \in Int /\ Sub * Secs(at) \in Int
  BY <1>0, <1>2
<1>5. CASE t \in Cron
  <2>1. fired = Sub * Secs(fired) + (fired % Sub)
    BY <1>0, DivMod, Zenon DEF Secs
  <2>2. fired = Sub * Secs(fired)
    BY <1>4, <1>5, <2>1
  <2> QED  BY <1>1, <1>3, <1>4, <1>2, <2>2
<1>6. CASE t \notin Cron
  BY <1>0, <1>1, <1>2, <1>3, <1>4, <1>6
<1> QED  BY <1>5, <1>6

LEMMA FiredStep ==
    ASSUME TimesInv, TypeOK', [Next]_vars
    PROVE  FiredBefore'
<1>0. /\ TypeOK /\ FiredBefore /\ clock \in Nat /\ clock' \in Nat
      /\ Secs(clock) \in Int /\ Secs(clock') \in Int /\ Secs(clock) <= Secs(clock')
      /\ next \in [Task -> None..Horizon] /\ last \in [Task -> None..Horizon]
  <2>1. TypeOK /\ FiredBefore
    BY DEF TimesInv
  <2>2. clock \in Nat /\ clock' \in Nat /\ clock <= clock'
    BY <2>1, ClockSteps
  <2>3. Secs(clock) \in Int /\ Secs(clock') \in Int /\ Secs(clock) <= Secs(clock')
    BY <2>2, SecsFacts, SecsOrder
  <2> QED  BY <2>1, <2>2, <2>3 DEF TypeOK
<1>1. \A t \in Task : next[t] \in Int /\ last[t] \in Int /\ Secs(last[t]) \in Int
  BY <1>0, HorizonFacts, SecsFacts DEF None
<1>2. ASSUME NEW t \in Task, next'[t] = next[t], last'[t] = last[t], last[t] # None
      PROVE  /\ last'[t] < next'[t] /\ Secs(last'[t]) <= Secs(clock')
             /\ t \in Cron => last'[t] % Sub = 0
  BY <1>0, <1>1, <1>2 DEF FiredBefore
<1>3. ASSUME NEW u \in Task,
             \A t \in Task \ {u} : next'[t] = next[t] /\ last'[t] = last[t],
             last'[u] = None
      PROVE  FiredBefore'
  BY <1>2, <1>3 DEF FiredBefore
<1>4. ASSUME next' = next, last' = last PROVE FiredBefore'
  BY <1>2, <1>4 DEF FiredBefore
<1>5. CASE UNCHANGED tasks
  BY <1>4, <1>5 DEF tasks
<1>6. CASE AddCommits
  <2>1. adding[1] \in Task
    BY <1>0, <1>6 DEF AddCommits, TypeOK
  <2>2. /\ next' = [next EXCEPT ![adding[1]] = adding[2]]
        /\ last' = [last EXCEPT ![adding[1]] = None]
    BY <1>6 DEF AddCommits, Set
  <2>3. /\ last'[adding[1]] = None
        /\ \A t \in Task \ {adding[1]} : next'[t] = next[t] /\ last'[t] = last[t]
    BY <1>0, <2>1, <2>2
  <2> QED  BY <1>3, <2>1, <2>3
<1>7. CASE AddFails
  BY <1>4, <1>7 DEF AddFails
<1>8. ASSUME NEW u \in Task, AddBegins(u) \/ Pause(u)
      PROVE  FiredBefore'
  <2>1. next' = next /\ last' = last
    BY <1>0, <1>8 DEF AddBegins, Pause, Set
  <2> QED  BY <1>4, <2>1
<1>9. ASSUME NEW u \in Task, Remove(u)
      PROVE  FiredBefore'
  <2>1. next' = [next EXCEPT ![u] = None] /\ last' = [last EXCEPT ![u] = None]
    BY <1>9 DEF Remove, Set
  <2>2. /\ last'[u] = None
        /\ \A t \in Task \ {u} : next'[t] = next[t] /\ last'[t] = last[t]
    BY <1>0, <2>1
  <2> QED  BY <1>3, <2>2
<1>10. ASSUME NEW u \in Task, Resume(u)
       PROVE  FiredBefore'
  <2>1. /\ next' = [next EXCEPT ![u] = NextAfter(u, clock, Zone)] /\ last' = last
        /\ u \in Task \ Broken /\ clock' = clock
    BY <1>10 DEF Resume, Set
  <2>2. next'[u] = NextAfter(u, clock, Zone)
    BY <1>0, <2>1
  <2>3. last[u] # None => last[u] < NextAfter(u, clock, Zone)
    BY <1>0, <1>1, <2>1, ResumedLater DEF FiredBefore
  <2>4. last'[u] # None => /\ last'[u] < next'[u] /\ Secs(last'[u]) <= Secs(clock')
                           /\ u \in Cron => last'[u] % Sub = 0
    BY <1>0, <2>1, <2>2, <2>3 DEF FiredBefore
  <2>5. \A t \in Task \ {u} : next'[t] = next[t] /\ last'[t] = last[t]
    BY <1>0, <2>1
  <2> QED  BY <1>2, <2>4, <2>5 DEF FiredBefore
<1>11. ASSUME NEW s \in Scheduler, TickTx(s)
       PROVE  FiredBefore'
  <2>1. now[s] \in Nat /\ now[s] <= clock /\ clock' = clock
    BY <1>11, TickTasks, HorizonFacts DEF TimesInv, NowIsPast
  <2>2. Secs(now[s]) \in Int /\ Secs(now[s]) <= Secs(clock)
    BY <1>0, <2>1, SecsFacts, SecsOrder
  <2>3. ASSUME NEW t \in Task, t \in DueTasks(now[s])
        PROVE  /\ last'[t] < next'[t] /\ Secs(last'[t]) <= Secs(clock')
               /\ t \in Cron => last'[t] % Sub = 0
    <3>1. /\ next[t] \in 0..Horizon /\ last'[t] = next[t] /\ next[t] < next'[t]
          /\ Secs(next[t]) <= Secs(now[s])
      BY <1>0, <1>11, <2>3, TickTasks
    <3>2. next[t] \in Int /\ Secs(next[t]) \in Int /\ next[t] # None
      BY <3>1, HorizonFacts, SecsFacts DEF None
    <3>3. t \in Cron => OnTimes(t, next[t])
      BY <3>2 DEF TimesInv, CronKeepsItsTimes, OnTimes
    <3>4. t \in Cron => next[t] % Sub = 0
      BY <3>2, <3>3, CronOnSecond
    <3> QED  BY <1>0, <2>1, <2>2, <3>1, <3>2, <3>4
  <2>4. ASSUME NEW t \in Task, t \notin DueTasks(now[s])
        PROVE  next'[t] = next[t] /\ last'[t] = last[t]
    BY <1>0, <1>11, <2>4, TickTasks
  <2> QED  BY <1>2, <2>3, <2>4 DEF FiredBefore
<1> QED  BY <1>0, <1>5, <1>6, <1>7, <1>8, <1>9, <1>10, <1>11, TaskSteps

LEMMA InitTimes == Init => TimesInv
<1>. SUFFICES ASSUME Init PROVE TimesInv
  OBVIOUS
<1>1. CronKeepsItsTimes /\ AddsOnTimes /\ NowIsPast
  BY SchedulerAssumption DEF Init, CronKeepsItsTimes, AddsOnTimes, NowIsPast
<1>2. FiredBefore
  BY DEF Init, FiredBefore
<1> QED  BY <1>1, <1>2, InitTypes DEF TimesInv

LEMMA NextTimes ==
    ASSUME TimesInv, [Next]_vars
    PROVE  TimesInv'
<1>1. TypeOK /\ NowIsPast
  BY DEF TimesInv
<1>2. TypeOK' /\ NowIsPast'
  BY <1>1, NextTypes, NowSteps
<1>3. CronKeepsItsTimes' /\ AddsOnTimes' /\ FiredBefore'
  BY <1>2, CronTimesStep, FiredStep
<1> QED  BY <1>2, <1>3 DEF TimesInv

THEOREM TimesInvariant == Spec => []TimesInv
<1>1. TimesInv /\ [Next]_vars => TimesInv'
  BY NextTimes
<1> QED  BY <1>1, InitTimes, PTL DEF Spec

(* The times a cron task is given are those of its expression, in local    *)
(* time or in UTC, whoever adds, resumes and fires it (scheduler.go:335).  *)
THEOREM OnItsTimes == Spec => []CronKeepsItsTimes
<1>1. TimesInv => CronKeepsItsTimes
  BY DEF TimesInv
<1> QED  BY <1>1, TimesInvariant, PTL

-----------------------------------------------------------------------------
(* A call of Run that goes from "due" to "ticked" has run tick. *)
LEMMA TicksByTx ==
    ASSUME TypeOK, [Next]_vars, NEW s \in Scheduler, Ticks(s)
    PROVE  TickTx(s)
<1>0. pc \in [Scheduler -> States] /\ pc[s] = "due" /\ pc'[s] = "ticked"
  BY DEF TypeOK, Ticks
<1>1. CASE pc' = pc
  BY <1>0, <1>1
<1>2. ASSUME NEW r \in Scheduler, NEW p, p # "ticked", pc' = [pc EXCEPT ![r] = p]
      PROVE  FALSE
  BY <1>0, <1>2
<1>3. CASE UNCHANGED vars \/ Moment \/ OtherCommit
  BY <1>1, <1>3 DEF vars, Moment, OtherCommit, leader
<1>4. CASE \/ AddCommits \/ AddFails
           \/ \E t \in Task : AddBegins(t) \/ Remove(t) \/ Pause(t) \/ Resume(t)
  BY <1>1, <1>4, AdminTypes DEF leader
<1>5. ASSUME NEW r \in Scheduler, Run(r) \/ Acquire(r) \/ Beat(r) \/ BeatEnds(r)
      PROVE  FALSE
  BY <1>0, <1>1, <1>2, <1>5 DEF Run, Acquire, Beat, BeatEnds
<1>6. ASSUME NEW r \in Scheduler, Cancel(r) \/ Fails(r) \/ Crash(r) \/ TickBroken(r)
      PROVE  FALSE
  BY <1>2, <1>6 DEF Cancel, Fails, Crash, TickBroken, Returns, Ends
<1>7. ASSUME NEW r \in Scheduler, ReadNow(r) \/ Soonest(r) \/ Sleep(r) \/ Wake(r)
      PROVE  FALSE
  BY <1>2, <1>7 DEF ReadNow, Soonest, Sleep, FallAsleep, Wake
<1>8. ASSUME NEW r \in Scheduler, TickTx(r)
      PROVE  r = s
  BY <1>0, <1>8 DEF TickTx
<1> QED  BY <1>3, <1>4, <1>5, <1>6, <1>7, <1>8 DEF Next, Loop

(* No due time fires twice, even when a second call of Run believes that   *)
(* it leads, ticks with an older now, or the task is resumed in between    *)
(* (scheduler.go:285).                                                     *)
THEOREM FiresOnce == Spec => OncePerDue
<1>1. ASSUME TimesInv, [Next]_vars, NEW s \in Scheduler, Ticks(s),
             NEW t \in DueTasks(now[s])
      PROVE  last'[t] > last[t]
  <2>1. TickTx(s) /\ TypeOK /\ last \in [Task -> None..Horizon]
    BY <1>1, TicksByTx DEF TimesInv, TypeOK
  <2>2. now[s] \in 0..MaxTime
    BY <2>1, TickTasks
  <2>3. t \in Task /\ next[t] \in 0..Horizon
    BY <2>1, <2>2, DueFacts
  <2>4. last'[t] = next[t]
    BY <2>1, <2>3, TickTasks
  <2>5. last[t] # None => last[t] < next[t]
    BY <1>1, <2>3 DEF TimesInv, FiredBefore
  <2> QED  BY <2>1, <2>3, <2>4, <2>5, HorizonFacts DEF None
<1>2. TimesInv /\ [Next]_vars =>
         [\A s \in Scheduler : Ticks(s) =>
             \A t \in DueTasks(now[s]) : last'[t] > last[t]]_vars
  BY <1>1
<1> QED  BY <1>2, TimesInvariant, PTL DEF Spec, OncePerDue

(* A tick fires a task once for all the times it has missed, and leaves    *)
(* none due before the second of its now (scheduler.go:339).               *)
THEOREM CatchesUp == Spec => TickCatchesUp
<1>1. ASSUME TypeOK, [Next]_vars, NEW s \in Scheduler, Ticks(s), NEW t \in enabled
      PROVE  IF t \in DueTasks(now[s]) THEN next'[t] >= now[s]
                                       ELSE Secs(next[t]) >= Secs(now[s])
  <2>1. TickTx(s) /\ t \in Task /\ next[t] \in Int
    <3>1. TickTx(s)
      BY <1>1, TicksByTx
    <3>2. t \in Task /\ next[t] \in None..Horizon
      BY <1>1 DEF TypeOK
    <3> QED  BY <3>1, <3>2, HorizonFacts DEF None
  <2>2. now[s] \in 0..MaxTime /\ now[s] \in Int
    BY <1>1, <2>1, TickTasks
  <2>3. CASE t \in DueTasks(now[s])
    <3>1. now[s] <= next'[t] /\ next'[t] \in 0..Horizon
      BY <1>1, <2>1, <2>3, TickTasks
    <3> QED  BY <2>2, <2>3, <3>1, HorizonFacts
  <2>4. CASE t \notin DueTasks(now[s])
    <3>1. ~(TextRank(next[t]) <= TextRank(now[s]))
      BY <1>1, <2>4 DEF DueTasks
    <3>2. TextRank(next[t]) \in Int /\ TextRank(now[s]) \in Int
      BY <2>1, <2>2, RankFacts
    <3>3. TextRank(now[s]) <= TextRank(next[t])
      BY <3>1, <3>2
    <3>4. Secs(now[s]) <= Secs(next[t]) /\ Secs(now[s]) \in Int /\ Secs(next[t]) \in Int
      BY <2>1, <2>2, <3>3, RankOrder, SecsFacts
    <3> QED  BY <2>4, <3>4
  <2> QED  BY <2>3, <2>4
<1>2. TypeOK /\ [Next]_vars =>
         [\A s \in Scheduler : Ticks(s) =>
             \A t \in enabled :
                 IF t \in DueTasks(now[s]) THEN next'[t] >= now[s]
                                          ELSE Secs(next[t]) >= Secs(now[s])]_vars
  BY <1>1
<1> QED  BY <1>2, Types, PTL DEF Spec, TickCatchesUp

-----------------------------------------------------------------------------
(* Sleep: the plan of a call of Run, until a signal says it is stale. *)

(* What soonest answered is not after any enabled task. *)
PlansTheSoonest ==
    \A s \in Scheduler, t \in enabled : pc[s] = "planned" /\ ~woken[s] =>
        soon[s] # None /\ TextRank(soon[s]) <= TextRank(next[t])

(* A timer that is not the least one ends in the second of the first task  *)
(* or before it.                                                           *)
WakesInTime ==
    \A s \in Scheduler, t \in enabled :
        pc[s] = "asleep" /\ ~woken[s] /\ rest[s] > MinSleep
            => Secs(clock + rest[s]) <= Secs(next[t])

SleepInv ==
    /\ TypeOK
    /\ PlansTheSoonest
    /\ WakesInTime

(* A step that leaves the time and the tasks alone, and each call of Run   *)
(* as it was, or signalled, or neither planning nor asleep.                *)
LEMMA Undisturbed ==
    ASSUME SleepInv, clock' = clock,
           \A s \in Scheduler :
              \/ pc'[s] \notin {"planned", "asleep"}
              \/ woken'[s]
              \/ /\ next' = next /\ enabled' = enabled
                 /\ pc'[s] = pc[s] /\ woken'[s] = woken[s]
                 /\ soon'[s] = soon[s] /\ rest'[s] = rest[s]
    PROVE  PlansTheSoonest' /\ WakesInTime'
<1>1. PlansTheSoonest'
  BY DEF SleepInv, PlansTheSoonest
<1>2. WakesInTime'
  BY DEF SleepInv, WakesInTime
<1> QED  BY <1>1, <1>2

(* A commit signals every call that leads. *)
LEMMA SignalStep ==
    ASSUME SleepInv, UNCHANGED <<clock, pc>>, woken' = Signalled
    PROVE  PlansTheSoonest' /\ WakesInTime'
<1>1. ASSUME NEW s \in Scheduler, pc'[s] \in {"planned", "asleep"} PROVE woken'[s]
  BY <1>1, SignalledFacts, TypeParts DEF SleepInv, Leads
<1> QED  BY <1>1, Undisturbed

LEMMA MomentSleeps ==
    ASSUME SleepInv, Moment
    PROVE  PlansTheSoonest' /\ WakesInTime'
<1>0. /\ TypeOK /\ clock \in Nat /\ clock' \in Nat /\ MinSleep \in Nat
      /\ \A s \in Scheduler : rest[s] \in Nat
  <2>1. TypeOK /\ MinSleep \in Nat /\ MaxSleep \in Nat
    BY SchedulerAssumption DEF SleepInv
  <2>2. clock \in Nat /\ clock' \in Nat
    BY <2>1, ClockSteps DEF Next
  <2>3. \A s \in Scheduler : rest[s] \in Nat
    BY <2>1 DEF TypeOK
  <2> QED  BY <2>1, <2>2, <2>3
<1>1. UNCHANGED <<pc, soon, woken, next, enabled>>
  BY DEF Moment, tasks
<1>2. PlansTheSoonest'
  BY <1>1 DEF SleepInv, PlansTheSoonest
<1>3. ASSUME NEW s \in Scheduler, NEW t \in enabled,
             pc[s] = "asleep", ~woken[s], rest'[s] > MinSleep
      PROVE  Secs(clock' + rest'[s]) <= Secs(next[t])
  <2>1. rest'[s] = IF rest[s] = 0 THEN 0 ELSE rest[s] - 1
    BY DEF Moment
  <2>2. clock' <= clock + 1
    BY <1>0 DEF Moment
  <2>3. /\ rest[s] > MinSleep
        /\ clock' + rest'[s] \in Int /\ clock + rest[s] \in Int
        /\ clock' + rest'[s] <= clock + rest[s]
    BY <1>0, <1>3, <2>1, <2>2
  <2>4. Secs(clock + rest[s]) <= Secs(next[t])
    BY <1>3, <2>3 DEF SleepInv, WakesInTime
  <2>5. next[t] \in Int
    BY HorizonFacts DEF SleepInv, TypeOK, None
  <2>6. /\ Secs(clock' + rest'[s]) \in Int /\ Secs(clock + rest[s]) \in Int
        /\ Secs(next[t]) \in Int /\ Secs(clock' + rest'[s]) <= Secs(clock + rest[s])
    BY <2>3, <2>5, SecsFacts, SecsOrder
  <2> QED  BY <2>4, <2>6
<1>4. WakesInTime'
  BY <1>1, <1>3 DEF WakesInTime
<1> QED  BY <1>2, <1>4

(* tick signals everyone, unless nothing was due. *)
LEMMA TickSleeps ==
    ASSUME SleepInv, NEW s \in Scheduler, TickTx(s)
    PROVE  PlansTheSoonest' /\ WakesInTime'
<1>0. /\ TypeOK /\ pc \in [Scheduler -> States] /\ clock' = clock
      /\ pc' = [pc EXCEPT ![s] = "ticked"] /\ pc[s] = "due"
      /\ soon' = soon /\ rest' = rest /\ enabled' = enabled
  BY DEF SleepInv, TypeOK, TickTx
<1>1. CASE DueTasks(now[s]) = {}
  <2>1. woken' = woken /\ next' = [t \in Task |-> next[t]]
    BY <1>1 DEF TickTx
  <2>2. next' = next
    BY <1>0, <2>1 DEF TypeOK
  <2> QED  BY <1>0, <2>1, <2>2, Undisturbed
<1>2. CASE DueTasks(now[s]) # {}
  <2>1. woken' = Signalled
    BY <1>2 DEF TickTx
  <2>2. ASSUME NEW r \in Scheduler, pc'[r] \in {"planned", "asleep"} PROVE woken'[r]
    BY <1>0, <2>1, <2>2, SignalledFacts, TypeParts DEF Leads
  <2> QED  BY <1>0, <2>2, Undisturbed
<1> QED  BY <1>1, <1>2

LEMMA SoonestSleeps ==
    ASSUME SleepInv, NEW s \in Scheduler, Soonest(s)
    PROVE  PlansTheSoonest' /\ WakesInTime'
<1>0. /\ TypeOK /\ pc \in [Scheduler -> States] /\ pc' = [pc EXCEPT ![s] = "planned"]
      /\ UNCHANGED <<clock, rest, woken, next, enabled>>
  BY DEF SleepInv, TypeOK, Soonest, tasks
<1>1. \A r \in Scheduler \ {s} : pc'[r] = pc[r] /\ soon'[r] = soon[r]
  BY <1>0 DEF Soonest, TypeOK
<1>2. pc'[s] = "planned"
  BY <1>0
<1>3. \A t \in enabled : soon'[s] # None /\ TextRank(soon'[s]) <= TextRank(next[t])
  BY <1>0, SoonestFacts, HorizonFacts DEF None
<1>4. PlansTheSoonest'
  BY <1>0, <1>1, <1>3 DEF SleepInv, PlansTheSoonest
<1>5. WakesInTime'
  BY <1>0, <1>1, <1>2 DEF SleepInv, WakesInTime
<1> QED  BY <1>4, <1>5

(* The timer is set from a plan; a stale one has its signal in the channel *)
(* already.                                                                *)
LEMMA SleepSleeps ==
    ASSUME SleepInv, NEW s \in Scheduler, Sleep(s)
    PROVE  PlansTheSoonest' /\ WakesInTime'
<1>0. /\ TypeOK /\ pc \in [Scheduler -> States] /\ pc' = [pc EXCEPT ![s] = "asleep"]
      /\ pc[s] = "planned" /\ UNCHANGED <<clock, woken, next, enabled>>
      /\ clock \in Nat /\ MinSleep \in Nat /\ MaxSleep \in Nat
      /\ rest \in [Scheduler -> 0..MaxSleep] /\ soon \in [Scheduler -> None..Horizon]
  <2>1. /\ TypeOK /\ pc \in [Scheduler -> States] /\ rest \in [Scheduler -> 0..MaxSleep]
        /\ soon \in [Scheduler -> None..Horizon]
    BY DEF SleepInv, TypeOK
  <2>2. /\ pc' = [pc EXCEPT ![s] = "asleep"] /\ pc[s] = "planned"
        /\ UNCHANGED <<clock, woken, next, enabled>>
    BY DEF Sleep, FallAsleep, tasks
  <2>3. clock \in Nat
    BY SchedulerAssumption DEF SleepInv, TypeOK
  <2>4. MinSleep \in Nat /\ MaxSleep \in Nat
    BY SchedulerAssumption
  <2> QED  BY <2>1, <2>2, <2>3, <2>4
<1>1. \A r \in Scheduler \ {s} :
         pc'[r] = pc[r] /\ soon'[r] = soon[r] /\ rest'[r] = rest[r]
  BY <1>0 DEF Sleep, FallAsleep
<1>2. pc'[s] = "asleep"
  BY <1>0
<1>3. PlansTheSoonest'
  BY <1>0, <1>1, <1>2 DEF SleepInv, PlansTheSoonest
<1>4. ASSUME NEW t \in enabled, ~woken[s], rest'[s] > MinSleep
      PROVE  Secs(clock + rest'[s]) <= Secs(next[t])
  <2>1. soon[s] # None /\ TextRank(soon[s]) <= TextRank(next[t])
    BY <1>0, <1>4 DEF SleepInv, PlansTheSoonest
  <2>2. soon[s] \in Int /\ next[t] \in Int
    BY <1>0, HorizonFacts DEF TypeOK, None
  <2>3. rest'[s] = Between(MinSleep, MaxSleep, soon[s] - clock)
    BY <1>0, <2>1 DEF Sleep, FallAsleep
  <2>4. rest'[s] \in Int /\ rest'[s] <= soon[s] - clock
    BY <1>0, <1>4, <2>2, <2>3 DEF Between
  <2>5. clock + rest'[s] \in Int /\ clock + rest'[s] <= soon[s]
    BY <1>0, <2>2, <2>4
  <2>6. /\ Secs(clock + rest'[s]) <= Secs(soon[s]) /\ Secs(soon[s]) <= Secs(next[t])
        /\ Secs(clock + rest'[s]) \in Int /\ Secs(soon[s]) \in Int /\ Secs(next[t]) \in Int
    BY <2>1, <2>2, <2>5, SecsOrder, RankOrder, SecsFacts
  <2> QED  BY <2>6
<1>5. WakesInTime'
  BY <1>0, <1>1, <1>4 DEF SleepInv, WakesInTime
<1> QED  BY <1>3, <1>5

LEMMA NextSleep ==
    ASSUME SleepInv, [Next]_vars
    PROVE  SleepInv'
<1>0. /\ TypeOK /\ TypeOK' /\ pc \in [Scheduler -> States]
      /\ woken \in [Scheduler -> BOOLEAN]
  BY NextTypes DEF SleepInv, TypeOK
<1>1. ASSUME PlansTheSoonest' /\ WakesInTime' PROVE SleepInv'
  BY <1>0, <1>1 DEF SleepInv
<1>2. CASE UNCHANGED <<clock, pc, soon, rest, woken, next, enabled>>
  BY <1>1, <1>2, Undisturbed
<1>3. CASE Moment
  BY <1>1, <1>3, MomentSleeps
<1>4. CASE OtherCommit \/ AddCommits \/ \E t \in Task : Remove(t) \/ Pause(t) \/ Resume(t)
  <2>1. UNCHANGED <<clock, pc>> /\ woken' = Signalled
    BY <1>4 DEF OtherCommit, AddCommits, Remove, Pause, Resume, Set, leader
  <2> QED  BY <1>1, <2>1, SignalStep
<1>5. CASE UNCHANGED vars \/ AddFails \/ \E t \in Task : AddBegins(t)
  BY <1>2, <1>5 DEF vars, leader, AddFails, AddBegins
<1>6. ASSUME NEW s \in Scheduler, NEW st \in States \ {"planned", "asleep"},
             pc' = [pc EXCEPT ![s] = st],
             UNCHANGED <<clock, next, enabled>>,
             \A r \in Scheduler \ {s} :
                /\ woken'[r] = woken[r] \/ woken'[r] = (woken[r] \/ Leads(r))
                /\ soon'[r] = soon[r] /\ rest'[r] = rest[r]
      PROVE  SleepInv'
  <2>1. pc'[s] \notin {"planned", "asleep"} /\ \A r \in Scheduler \ {s} : pc'[r] = pc[r]
    BY <1>0, <1>6
  <2>2. ASSUME NEW r \in Scheduler
        PROVE  \/ pc'[r] \notin {"planned", "asleep"}
               \/ woken'[r]
               \/ /\ next' = next /\ enabled' = enabled
                  /\ pc'[r] = pc[r] /\ woken'[r] = woken[r]
                  /\ soon'[r] = soon[r] /\ rest'[r] = rest[r]
    BY <1>6, <2>1 DEF Leads
  <2> QED  BY <1>1, <1>6, <2>2, Undisturbed
<1>7. \A r \in Scheduler : Signalled[r] = (woken[r] \/ Leads(r))
  BY <1>0, SignalledFacts, TypeParts
<1>8. ASSUME NEW s \in Scheduler, Beat(s) \/ BeatEnds(s)
      PROVE  SleepInv'
  <2>1. /\ UNCHANGED <<clock, pc, soon, rest, next, enabled>>
        /\ woken' = woken \/ woken' = Signalled
    BY <1>8 DEF Beat, BeatEnds, tasks
  <2> QED  BY <1>1, <1>2, <2>1, SignalStep
<1>9. ASSUME NEW s \in Scheduler, Run(s) \/ Acquire(s)
      PROVE  SleepInv'
  <2>1. /\ UNCHANGED <<clock, soon, rest, next, enabled>>
        /\ \/ pc' = [pc EXCEPT ![s] = "locking"] /\ woken' = woken
           \/ /\ pc' = [pc EXCEPT ![s] = "awake"]
              /\ woken' = [Signalled EXCEPT ![s] = FALSE]
    BY <1>9 DEF Run, Acquire, tasks
  <2>2. \A r \in Scheduler \ {s} :
           woken'[r] = woken[r] \/ woken'[r] = (woken[r] \/ Leads(r))
    BY <1>0, <1>7, <2>1, SignalledFacts, TypeParts
  <2> QED  BY <1>6, <2>1, <2>2 DEF States
<1>10. ASSUME NEW s \in Scheduler, Cancel(s) \/ Fails(s) \/ Crash(s) \/ TickBroken(s)
       PROVE  SleepInv'
  <2>1. Ends(s)
    BY <1>10 DEF Cancel, Fails, Crash, TickBroken, Returns
  <2>2. /\ pc' = [pc EXCEPT ![s] = "out"] /\ UNCHANGED <<clock, next, enabled>>
        /\ \A r \in Scheduler \ {s} : soon'[r] = soon[r] /\ rest'[r] = rest[r]
    BY <1>0, <2>1 DEF Ends, tasks, TypeOK
  <2>3. \A r \in Scheduler \ {s} :
           woken'[r] = woken[r] \/ woken'[r] = (woken[r] \/ Leads(r))
    BY <1>0, <1>7, <1>10, SignalledFacts, TypeParts
       DEF Cancel, Fails, Crash, TickBroken, Returns
  <2> QED  BY <1>6, <2>2, <2>3 DEF States
<1>11. ASSUME NEW s \in Scheduler, ReadNow(s) \/ Wake(s)
       PROVE  SleepInv'
  <2>1. /\ UNCHANGED <<clock, soon, next, enabled>>
        /\ \/ pc' = [pc EXCEPT ![s] = "due"] \/ pc' = [pc EXCEPT ![s] = "awake"]
        /\ \A r \in Scheduler \ {s} : woken'[r] = woken[r] /\ rest'[r] = rest[r]
    BY <1>0, <1>11 DEF ReadNow, Wake, tasks, TypeOK
  <2> QED  BY <1>6, <2>1 DEF States
<1>12. ASSUME NEW s \in Scheduler, TickTx(s) \/ Soonest(s) \/ Sleep(s)
       PROVE  SleepInv'
  BY <1>1, <1>12, TickSleeps, SoonestSleeps, SleepSleeps
<1> QED  BY <1>3, <1>4, <1>5, <1>8, <1>9, <1>10, <1>11, <1>12 DEF Next, Loop

LEMMA InitSleep == Init => SleepInv
BY InitTypes DEF Init, SleepInv, PlansTheSoonest, WakesInTime

THEOREM SleepInvariant == Spec => []SleepInv
<1>1. SleepInv /\ [Next]_vars => SleepInv'
  BY NextSleep
<1> QED  BY <1>1, InitSleep, PTL DEF Spec

(* A leader does not sleep past a task that was added, resumed or advanced *)
(* between its question to the table and its select: the signal is in the  *)
(* channel, or it has its least sleep left (scheduler.go:221, 235).        *)
THEOREM WakesUp == Spec => []NoOversleep
<1>1. ASSUME SleepInv, NEW s \in Scheduler, NEW t \in enabled,
             pc[s] = "asleep", Secs(next[t]) < Secs(clock + rest[s])
      PROVE  woken[s] \/ rest[s] <= MinSleep
  <2>1. rest[s] \in Nat /\ clock \in Nat /\ next[t] \in Int /\ MinSleep \in Nat
    <3>1. TypeOK
      BY <1>1 DEF SleepInv
    <3>2. rest[s] \in Nat /\ MinSleep \in Nat
      BY <3>1, SchedulerAssumption DEF TypeOK
    <3>3. clock \in Nat /\ next[t] \in Int
      BY <3>1, HorizonFacts DEF TypeOK, None
    <3> QED  BY <3>2, <3>3
  <2>2. clock + rest[s] \in Int
    BY <2>1
  <2>3. Secs(clock + rest[s]) \in Int /\ Secs(next[t]) \in Int
    BY <2>1, <2>2, SecsFacts
  <2>4. ~woken[s] /\ rest[s] > MinSleep => Secs(clock + rest[s]) <= Secs(next[t])
    BY <1>1 DEF SleepInv, WakesInTime
  <2> QED  BY <1>1, <2>1, <2>3, <2>4
<1>2. SleepInv => NoOversleep
  BY <1>1 DEF NoOversleep
<1> QED  BY <1>2, SleepInvariant, PTL

=============================================================================
