-------------------------- MODULE RateLimitProofs ---------------------------
(***************************************************************************)
(* A window of the rate limiter lets through exactly what its limit        *)
(* allows, for any limits, windows, sweeps and times.                      *)
(*                                                                         *)
(* LimitKept is not inductive: the counter of the current window may have  *)
(* been swept, or the history may not be what was counted.  RateInv says   *)
(* that a row counts the requests let through, and that a window that is   *)
(* not over and has no row has let nobody through.                         *)
(***************************************************************************)
EXTENDS RateLimit, TLAPS

(* Callers pass positive limits (a limit of 0 still lets the first request *)
(* of a window through), and sweeps leave at least a window's length.      *)
SoundCallers ==
    /\ Limits # {}
    /\ \A limit \in Limits : limit >= 1
    /\ \A age \in SweepAges : age >= PerSec - 1

Counted == \A w \in Windows : count[w] # NoRow => admitted[w] = count[w]

Fresh == \A w \in Windows : count[w] = NoRow /\ w >= Current => admitted[w] = 0

RateInv == TypeOK /\ Counted /\ Fresh /\ AdmittedWithinLimit

(* The window of a time starts at most PerSec - 1 before it.               *)
LEMMA WindowBounds ==
    ASSUME RateAssumption, NEW t \in Nat
    PROVE  /\ WindowOf(t) \in Nat
           /\ WindowOf(t) <= t
           /\ t - WindowOf(t) <= PerSec - 1
           /\ t \in 0..MaxTime => WindowOf(t) \in Windows
<1> DEFINE q == t \div PerSec
<1>1. PerSec \in Nat /\ PerSec > 0
  BY RateAssumption DEF RateAssumption
<1>2. t = PerSec * q + (t % PerSec) /\ t % PerSec \in 0..PerSec - 1 /\ q \in Int
  BY <1>1, Z3
<1>3. q >= 0
  BY <1>1, <1>2, Z3
<1>4. q * PerSec = PerSec * q /\ q * PerSec \in Nat
  BY <1>1, <1>2, <1>3, Z3
<1> QED  BY <1>1, <1>2, <1>4 DEF WindowOf, Windows

(* Windows do not go back when the clock goes on.                          *)
LEMMA WindowsMoveOn ==
    ASSUME RateAssumption, NEW t \in Nat
    PROVE  WindowOf(t) <= WindowOf(t + 1)
<1>1. PerSec \in Nat /\ PerSec > 0
  BY RateAssumption DEF RateAssumption
<1>2. t \div PerSec <= (t + 1) \div PerSec
      /\ t \div PerSec \in Int /\ (t + 1) \div PerSec \in Int
  BY <1>1, Z3
<1>3. (t \div PerSec) * PerSec <= ((t + 1) \div PerSec) * PerSec
  BY <1>1, <1>2, Z3
<1> QED  BY <1>3 DEF WindowOf

LEMMA InitRate ==
    ASSUME RateAssumption, SoundCallers, Init
    PROVE  RateInv
<1>1. 0 \in 0..MaxTime
  BY RateAssumption DEF RateAssumption
<1>2. TypeOK
  BY <1>1 DEF Init, TypeOK
<1>3. Counted /\ Fresh
  BY DEF Init, Counted, Fresh
<1>4. PICK limit \in Limits : limit >= 1 /\ limit \in Int
  BY RateAssumption DEF SoundCallers, RateAssumption
<1>5. AdmittedWithinLimit
  BY <1>4 DEF Init, AdmittedWithinLimit
<1> QED  BY <1>2, <1>3, <1>5 DEF RateInv

LEMMA StepRate ==
    ASSUME RateAssumption, SoundCallers, RateInv, [Next]_vars
    PROVE  RateInv'
<1> USE RateAssumption DEF RateAssumption
<1>1. clock \in Nat /\ Current \in Windows /\ Current \in Nat
      /\ clock - Current <= PerSec - 1
  BY WindowBounds DEF RateInv, TypeOK, Current
<1>2. \A w \in Windows : w \in Nat
  BY WindowBounds DEF Windows
<1>3. ASSUME NEW limit \in Limits, AdmitFirst(limit)
      PROVE  RateInv'
  <2>1. count' = [count EXCEPT ![Current] = 1]
        /\ admitted' = [admitted EXCEPT ![Current] = @ + 1] /\ clock' = clock
    BY <1>3 DEF AdmitFirst, Admit
  <2>2. admitted[Current] = 0 /\ admitted'[Current] = 1 /\ Current' = Current
    BY <1>1, <1>3, <2>1 DEF RateInv, Fresh, AdmitFirst, TypeOK, Current, WindowOf
  <2>3. TypeOK'
    BY <1>1, <2>1 DEF RateInv, TypeOK
  <2>4. Counted' /\ Fresh'
    BY <1>1, <1>2, <2>1, <2>2 DEF RateInv, TypeOK, Counted, Fresh
  <2>5. limit \in Int /\ 1 <= limit
    BY DEF SoundCallers
  <2>6. AdmittedWithinLimit'
    BY <1>1, <2>1, <2>2, <2>5 DEF RateInv, TypeOK, AdmittedWithinLimit
  <2> QED  BY <2>3, <2>4, <2>6 DEF RateInv
<1>4. ASSUME NEW limit \in Limits, AdmitNext(limit)
      PROVE  RateInv'
  <2>1. count' = [count EXCEPT ![Current] = count[Current] + 1]
        /\ admitted' = [admitted EXCEPT ![Current] = @ + 1] /\ clock' = clock
        /\ count[Current] # NoRow /\ count[Current] < limit
    BY <1>4 DEF AdmitNext, Admit, UnderLimit
  <2>2. count[Current] \in Nat /\ admitted[Current] = count[Current]
        /\ Current' = Current
    BY <1>1, <2>1 DEF RateInv, Counted, TypeOK, Current, WindowOf
  <2>3. count'[Current] = count[Current] + 1 /\ admitted'[Current] = count[Current] + 1
    BY <1>1, <2>1, <2>2 DEF RateInv, TypeOK
  <2>4. TypeOK'
    BY <1>1, <2>1, <2>2 DEF RateInv, TypeOK
  <2>5. Counted' /\ Fresh'
    BY <1>1, <1>2, <2>1, <2>2, <2>3 DEF RateInv, TypeOK, Counted, Fresh
  <2>6. limit \in Int /\ admitted'[Current] <= limit
    BY <2>1, <2>2, <2>3
  <2>7. AdmittedWithinLimit'
    BY <1>1, <2>1, <2>6 DEF RateInv, TypeOK, AdmittedWithinLimit
  <2> QED  BY <2>4, <2>5, <2>7 DEF RateInv
<1>5. ASSUME NEW age \in SweepAges, SweepRateLimits(age)
      PROVE  RateInv'
  <2>1. count' = [w \in Windows |-> IF w < clock - age THEN NoRow ELSE count[w]]
        /\ admitted' = admitted /\ clock' = clock
    BY <1>5 DEF SweepRateLimits, Swept
  <2>2. age \in Int /\ age >= PerSec - 1
    BY DEF SoundCallers
  <2>3. \A w \in Windows : w >= Current => count'[w] = count[w]
    BY <1>1, <1>2, <2>1, <2>2
  <2>4. TypeOK' /\ Current' = Current
    BY <2>1 DEF RateInv, TypeOK, Current, WindowOf
  <2>5. Counted'
    BY <2>1 DEF RateInv, Counted
  <2>6. Fresh'
    BY <2>1, <2>3, <2>4 DEF RateInv, Fresh
  <2>7. AdmittedWithinLimit'
    BY <2>1 DEF RateInv, AdmittedWithinLimit
  <2> QED  BY <2>4, <2>5, <2>6, <2>7 DEF RateInv
<1>6. ASSUME Tick
      PROVE  RateInv'
  <2>1. clock' = clock + 1 /\ clock' \in 0..MaxTime
        /\ count' = count /\ admitted' = admitted
    BY <1>1, <1>6 DEF Tick, RateInv, TypeOK
  <2>2. Current <= Current' /\ Current' \in Nat
    BY <1>1, <2>1, WindowsMoveOn, WindowBounds DEF Current
  <2>3. Fresh'
    BY <1>1, <1>2, <2>1, <2>2 DEF RateInv, Fresh
  <2> QED  BY <2>1, <2>3 DEF RateInv, TypeOK, Counted, AdmittedWithinLimit
<1>7. ASSUME UNCHANGED vars
      PROVE  RateInv'
  BY <1>7 DEF vars, RateInv, TypeOK, Counted, Fresh, AdmittedWithinLimit, Current
<1> QED  BY <1>3, <1>4, <1>5, <1>6, <1>7 DEF Next

(* Who is denied found the row at the limit, and the row counts who was    *)
(* let through.                                                            *)
LEMMA DeniedAtLimit ==
    ASSUME RateAssumption, RateInv
    PROVE  DeniedOnlyAtLimit
<1>1. Current \in Windows
  BY WindowBounds DEF RateInv, TypeOK, Current
<1> QED  BY <1>1, RateAssumption
         DEF RateAssumption, RateInv, TypeOK, Counted, DeniedOnlyAtLimit, Denied,
             UnderLimit

(* The counters and the history keep their types (lock.go:155-213),        *)
(* whatever limits are asked and whatever is swept.                        *)
THEOREM TypeCorrect ==
    ASSUME RateAssumption
    PROVE  Spec => []TypeOK
<1> USE RateAssumption DEF RateAssumption
<1>1. Init => TypeOK
  BY DEF Init, TypeOK
<1>2. TypeOK /\ [Next]_vars => TypeOK'
  <2> SUFFICES ASSUME TypeOK, [Next]_vars
               PROVE  TypeOK'
    OBVIOUS
  <2>1. Current \in Windows
    BY WindowBounds DEF TypeOK, Current
  <2>2. ASSUME NEW limit \in Limits, AdmitFirst(limit)
        PROVE  TypeOK'
    BY <2>1, <2>2 DEF TypeOK, AdmitFirst, Admit
  <2>3. ASSUME NEW limit \in Limits, AdmitNext(limit)
        PROVE  TypeOK'
    BY <2>1, <2>3 DEF TypeOK, AdmitNext, Admit
  <2>4. ASSUME NEW age \in SweepAges, SweepRateLimits(age)
        PROVE  TypeOK'
    BY <2>4 DEF TypeOK, SweepRateLimits
  <2>5. ASSUME Tick
        PROVE  TypeOK'
    BY <2>5 DEF TypeOK, Tick
  <2>6. CASE UNCHANGED vars
    BY <2>6 DEF TypeOK, vars
  <2> QED  BY <2>2, <2>3, <2>4, <2>5, <2>6 DEF Next
<1> QED  BY <1>1, <1>2, PTL DEF Spec

(* No window lets more through than the highest limit asked of it, and     *)
(* nobody is turned away before, whatever is swept (lock.go:161-203).      *)
THEOREM Limited ==
    ASSUME RateAssumption, SoundCallers
    PROVE  Spec => []LimitKept
<1>1. Init => RateInv
  BY InitRate
<1>2. RateInv /\ [Next]_vars => RateInv'
  BY StepRate
<1>3. RateInv => LimitKept
  BY DeniedAtLimit DEF RateInv, LimitKept
<1> QED  BY <1>1, <1>2, <1>3, PTL DEF Spec

=============================================================================
