------------------------- MODULE AdvisoryLockProofs -------------------------
(* What AdvisoryLock keeps for any clients, owners and TTL. *)
EXTENDS AdvisoryLock, TLAPS

-----------------------------------------------------------------------------
(* The row. *)

LEMMA RowFacts ==
    ASSUME NEW r \in RowOf(Owner, TTL)
    PROVE  /\ Aged(r) \in RowOf(Owner, TTL)
           /\ \A o \in Owner : /\ Tried(r, o, TTL) \in RowOf(Owner, TTL)
                               /\ Deleted(r, o) \in RowOf(Owner, TTL)
<1>. USE LockAssumption DEF RowOf, Absent
<1>1. ASSUME NEW o \in Owner
      PROVE  Tried(r, o, TTL) \in RowOf(Owner, TTL) /\ Deleted(r, o) \in RowOf(Owner, TTL)
  BY DEF Tried, Deleted
<1>2. Aged(r) \in RowOf(Owner, TTL)
  BY DEF Aged
<1>3. QED
  BY <1>1, <1>2

(* A row that has not run out is nobody's to take. *)
LEMMA NotPurged ==
    ASSUME NEW r \in RowOf(Owner, TTL), r.left >= 0
    PROVE  Purged(r) # Absent
BY LockAssumption DEF RowOf, Purged, Absent

-----------------------------------------------------------------------------
(* Type correctness. *)

LEMMA InitType == Init => TypeOK
BY LockAssumption DEF Init, TypeOK, RowOf, Absent

LEMMA NextType ==
    ASSUME TypeOK, [Next]_vars
    PROVE  TypeOK'
<1>. USE LockAssumption DEF TypeOK
<1>1. \A c \in Client : ownerOf[c] \in Owner
  OBVIOUS
<1>2. CASE Second
  <2>1. row' \in RowOf(Owner, TTL)
    BY <1>2, RowFacts DEF Second
  <2>2. promise' \in [Client -> -1..TTL]
    BY <1>2 DEF Second
  <2>3. QED
    BY <1>2, <2>1, <2>2 DEF Second
<1>3. ASSUME NEW c \in Client, Acquire(c)
      PROVE  /\ row' \in RowOf(Owner, TTL)
             /\ handle' \in [Client -> {"none", "held", "released"}]
             /\ promise' \in [Client -> -1..TTL]
  BY <1>1, <1>3, RowFacts DEF Acquire
<1>4. ASSUME NEW c \in Client, TryLock(c)
      PROVE  TypeOK'
  BY <1>3, <1>4 DEF TryLock
<1>5. ASSUME NEW c \in Client, LockWaits(c)
      PROVE  TypeOK'
  BY <1>5 DEF LockWaits
<1>6. ASSUME NEW c \in Client, LockRetry(c)
      PROVE  TypeOK'
  BY <1>3, <1>6 DEF LockRetry
<1>7. ASSUME NEW c \in Client, LockGivesUp(c)
      PROVE  TypeOK'
  BY <1>7 DEF LockGivesUp
<1>8. ASSUME NEW c \in Client, Release(c)
      PROVE  TypeOK'
  BY <1>1, <1>8, RowFacts DEF Release
<1>9. ASSUME NEW c \in Client, Abandon(c)
      PROVE  TypeOK'
  BY <1>9 DEF Abandon
<1>10. CASE UNCHANGED vars
  BY <1>10 DEF vars
<1>11. QED
  BY <1>2, <1>4, <1>5, <1>6, <1>7, <1>8, <1>9, <1>10 DEF Next

(* Every reachable state is of its type (lock.go, all operations). *)
THEOREM TypeCorrect == Spec => []TypeOK
<1>1. TypeOK /\ [Next]_vars => TypeOK'
  BY NextType
<1>2. QED
  BY <1>1, InitType, PTL DEF Spec

-----------------------------------------------------------------------------
(* The lock: with owners of their own, as the uuids are, HoldBacked is     *)
(* inductive, and whoever holds the lock is the one owner in its row.      *)

OwnOwners == Named = {} /\ \A c, d \in Client : ownerOf[c] = ownerOf[d] => c = d

LockInv == TypeOK /\ HoldBacked

(* tryLockOnce succeeds only when nobody holds the lock. *)
LEMMA AcquireFree ==
    ASSUME LockInv, OwnOwners, NEW c \in Client, Acquire(c)
    PROVE  \A d \in Client : ~Holds(d)
<1>1. Purged(row) = Absent
  BY DEF Acquire, Succeeds, OwnOwners
<1>2. SUFFICES ASSUME NEW d \in Client, Holds(d)
               PROVE  FALSE
  OBVIOUS
<1>3. row.left >= 0
  BY <1>2 DEF LockInv, HoldBacked, Holds
<1>4. QED
  BY <1>1, <1>3, NotPurged DEF LockInv, TypeOK

LEMMA AcquireBacked ==
    ASSUME LockInv, OwnOwners, NEW c \in Client, Acquire(c)
    PROVE  HoldBacked'
<1>1. row' = [owner |-> ownerOf[c], left |-> TTL]
  BY DEF Acquire, Succeeds, OwnOwners, Tried
<1>2. ASSUME NEW d \in Client, Holds(d)'
      PROVE  d = c
  BY <1>2, AcquireFree DEF LockInv, TypeOK, Acquire, Holds
<1>3. promise'[c] = TTL
  BY DEF LockInv, TypeOK, Acquire
<1>4. QED
  BY <1>1, <1>2, <1>3 DEF HoldBacked

LEMMA NextBacked ==
    ASSUME LockInv, OwnOwners, [Next]_vars
    PROVE  HoldBacked'
<1>. SUFFICES ASSUME NEW d \in Client, Holds(d)'
              PROVE  row'.owner = ownerOf[d] /\ row'.left = promise'[d]
  BY DEF HoldBacked
<1>. USE DEF LockInv, TypeOK
<1>1. CASE Second
  <2>1. promise[d] \in -1..TTL /\ promise'[d] = IF promise[d] < 0 THEN -1 ELSE promise[d] - 1
    BY <1>1 DEF Second
  <2>2. promise'[d] >= 0 /\ handle[d] = "held"
    BY <1>1 DEF Second, Holds
  <2>3. promise[d] >= 0 /\ promise'[d] = promise[d] - 1
    BY <2>1, <2>2, LockAssumption
  <2>4. row.owner = ownerOf[d] /\ row.left = promise[d]
    BY <2>2, <2>3 DEF HoldBacked, Holds
  <2>5. row' = [row EXCEPT !.left = row.left - 1]
    BY <1>1, <2>1, <2>3, <2>4 DEF Second, Aged
  <2>6. QED
    BY <2>3, <2>4, <2>5 DEF RowOf
<1>2. ASSUME NEW c \in Client, TryLock(c) \/ LockRetry(c)
      PROVE  HoldBacked'
  BY <1>2, AcquireBacked DEF TryLock, LockRetry
<1>3. ASSUME NEW c \in Client, LockWaits(c) \/ LockGivesUp(c) \/ Abandon(c)
      PROVE  row' = row /\ promise' = promise /\ Holds(d)
  BY <1>3 DEF LockWaits, LockGivesUp, Abandon, Holds
<1>4. ASSUME NEW c \in Client, Release(c)
      PROVE  row' = row /\ promise' = promise /\ Holds(d)
  <2>1. d # c /\ Holds(d) /\ promise' = promise
    BY <1>4 DEF Release, Holds
  <2>2. row.owner # ownerOf[c]
    BY <2>1 DEF HoldBacked, OwnOwners
  <2>3. QED
    BY <1>4, <2>1, <2>2 DEF Release, Deleted
<1>5. CASE UNCHANGED vars
  BY <1>5 DEF vars, HoldBacked, Holds
<1>6. QED
  BY <1>1, <1>2, <1>3, <1>4, <1>5 DEF Next, HoldBacked

LEMMA LockInvariant ==
    ASSUME OwnOwners
    PROVE  Spec => []LockInv
<1>1. Init => LockInv
  BY InitType DEF LockInv, HoldBacked, Init, Holds
<1>2. LockInv /\ [Next]_vars => LockInv'
  BY NextType, NextBacked DEF LockInv
<1>3. QED
  BY <1>1, <1>2, PTL DEF Spec

(* For as long as a client was promised, the table has the lock under its  *)
(* owner (lock.go:38).                                                     *)
THEOREM Backed ==
    ASSUME OwnOwners
    PROVE  Spec => []HoldBacked
<1>1. LockInv => HoldBacked
  BY DEF LockInv
<1>2. QED
  BY <1>1, LockInvariant, PTL

(* At most one owner is within the TTL it asked for (lock.go:13).          *)
THEOREM Exclusion ==
    ASSUME OwnOwners
    PROVE  Spec => []MutualExclusion
<1>1. LockInv => MutualExclusion
  BY DEF LockInv, MutualExclusion, HoldBacked
<1>2. QED
  BY <1>1, LockInvariant, PTL

(* No client takes a lock that has time left from another owner, and none  *)
(* deletes another owner's row, whatever owners the clients share          *)
(* (lock.go:22, 51).                                                       *)
THEOREM OwnerReleases == Spec => OnlyOwnerReleases
<1>1. ASSUME TypeOK, [Next]_vars, row.owner # NoOwner, row'.owner # row.owner
      PROVE  \/ row.left < 0
             \/ \E c \in Client : /\ ownerOf[c] = row.owner
                                  /\ handle[c] # "none" /\ handle'[c] = "released"
  <2>1. PICK c \in Client : TryLock(c) \/ LockRetry(c) \/ Release(c)
    BY <1>1 DEF Next, vars, Second, Aged, LockWaits, LockGivesUp, Abandon, TypeOK, RowOf
  <2>2. CASE TryLock(c) \/ LockRetry(c)
    <3>1. Purged(row) = Absent
      BY <1>1, <2>2 DEF TryLock, LockRetry, Acquire, Tried
    <3>2. QED
      BY <1>1, <3>1 DEF Purged, Absent
  <2>3. CASE Release(c)
    <3>1. row.owner = ownerOf[c]
      BY <1>1, <2>3 DEF Release, Deleted
    <3>2. handle[c] # "none" /\ handle'[c] = "released"
      BY <1>1, <2>3 DEF Release, TypeOK
    <3>3. QED
      BY <3>1, <3>2
  <2>4. QED
    BY <2>1, <2>2, <2>3
<1>2. TypeOK /\ [Next]_vars =>
         [row.owner # NoOwner /\ row'.owner # row.owner =>
             \/ row.left < 0
             \/ \E c \in Client : /\ ownerOf[c] = row.owner
                                  /\ handle[c] # "none" /\ handle'[c] = "released"]_vars
  BY <1>1
<1>3. QED
  BY <1>2, TypeCorrect, PTL DEF OnlyOwnerReleases, Spec

=============================================================================
