----------------------------- MODULE RateLimit ------------------------------
(***************************************************************************)
(* The fixed-window rate limiter of lock.go: one name of the               *)
(* _ganso_rate_limits table, a row per window.  Each operation is one      *)
(* transaction, so callers in any number of processes interleave as whole  *)
(* actions.                                                                *)
(***************************************************************************)
EXTENDS Integers

CONSTANTS
    Limits,    \* the limits callers pass
    PerSec,    \* the window they pass
    SweepAges, \* olderThanSec of SweepRateLimits
    MaxTime,   \* bound: the clock stops here
    NoRow      \* no row for the window

ASSUME RateAssumption ==
    /\ Limits \subseteq Int
    /\ PerSec \in Nat \ {0}
    /\ SweepAges \subseteq Int
    /\ MaxTime \in Nat
    /\ NoRow \notin Nat

VARIABLES
    clock,     \* unixepoch()
    count,     \* count[w]: the row of the window that starts at w
    admitted   \* history: requests let through in each window

vars == <<clock, count, admitted>>

(* (unixepoch() / perSec) * perSec *)
WindowOf(t) == (t \div PerSec) * PerSec

Windows == {WindowOf(t) : t \in 0..MaxTime}

TypeOK ==
    /\ clock \in 0..MaxTime
    /\ count \in [Windows -> (Nat \ {0}) \cup {NoRow}]
    /\ admitted \in [Windows -> Nat]

Init ==
    /\ clock = 0
    /\ count = [w \in Windows |-> NoRow]
    /\ admitted = [w \in Windows |-> 0]

-----------------------------------------------------------------------------
Current == WindowOf(clock)

UpToLimit(n, limit) == n <= limit                      \* faulty: <=

UnderLimit(n, limit) == n < limit

Admit(n) ==
    /\ count' = [count EXCEPT ![Current] = n]
    /\ admitted' = [admitted EXCEPT ![Current] = @ + 1]
    /\ UNCHANGED clock

(* TryRateLimit inserts the window's row ... *)
AdmitFirst(limit) ==
    /\ count[Current] = NoRow
    /\ Admit(1)

(* ... or, on conflict, increments it where count < limit. *)
AdmitNext(limit) ==
    /\ count[Current] # NoRow
    /\ UnderLimit(count[Current], limit)
    /\ Admit(count[Current] + 1)

(* No row changed: TryRateLimit answers false, and the table stays.  The   *)
(* answer itself is the step.                                              *)
Denied(limit) == count[Current] # NoRow /\ ~UnderLimit(count[Current], limit)

Swept(w, age) == w < clock - age

SweepResets(age) ==                                    \* faulty: keeps the rows
    /\ count' = [w \in Windows |-> IF Swept(w, age) THEN 0 ELSE count[w]]
    /\ count' # count
    /\ UNCHANGED <<clock, admitted>>

SweepRateLimits(age) ==
    /\ count' = [w \in Windows |-> IF Swept(w, age) THEN NoRow ELSE count[w]]
    /\ count' # count
    /\ UNCHANGED <<clock, admitted>>

Tick ==
    /\ clock < MaxTime
    /\ clock' = clock + 1
    /\ UNCHANGED <<count, admitted>>

Next ==
    \/ \E limit \in Limits : AdmitFirst(limit) \/ AdmitNext(limit)
    \/ \E age \in SweepAges : SweepRateLimits(age)
    \/ Tick

Spec == Init /\ [][Next]_vars

-----------------------------------------------------------------------------
(* "limit requests per perSec-second window" (lock.go:160): no window lets *)
(* more requests through than the highest limit asked of it, sweeps of old *)
(* windows included.                                                       *)
AdmittedWithinLimit ==
    \A w \in Windows : \E limit \in Limits : admitted[w] <= limit

(* "false if the limit has been reached" (lock.go:157): a caller is turned *)
(* away only when that many requests of its window went through.           *)
DeniedOnlyAtLimit ==
    \A limit \in Limits : Denied(limit) => admitted[Current] >= limit

(* A window lets through what its limit allows, neither more nor less.     *)
LimitKept == AdmittedWithinLimit /\ DeniedOnlyAtLimit

=============================================================================
