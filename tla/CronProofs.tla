----------------------------- MODULE CronProofs -----------------------------
(***************************************************************************)
(* That the search of Cron stays in its calendar and finds the first time  *)
(* that fires, for every calendar, expression and zone.                    *)
(*                                                                         *)
(* The argument is about seconds on the wall.  A step of the search is     *)
(* between two of them, and each field that does not fit rules out all of  *)
(* those in between.  What zones do to it comes last: where Reliable       *)
(* holds, no instant between two candidates shows anything else.           *)
(***************************************************************************)
EXTENDS Cron, FiniteSetTheorems, WellFoundedInduction, TLAPS

-----------------------------------------------------------------------------
(* The calendar: dates in their order, and their numbers. *)

LEMMA Units ==
    /\ SecondsPerMinute \in Nat \ {0} /\ MinutesPerHour \in Nat \ {0}
    /\ HoursPerDay \in Nat \ {0} /\ DaysPerWeek \in Nat \ {0}
    /\ Hour \in Nat \ {0} /\ Day \in Nat \ {0}
<1>1. /\ SecondsPerMinute \in Nat \ {0} /\ MinutesPerHour \in Nat \ {0}
      /\ HoursPerDay \in Nat \ {0} /\ DaysPerWeek \in Nat \ {0}
  BY CronAssumption
<1>2. \A a, b \in Nat \ {0} : a * b \in Nat \ {0}
  OBVIOUS
<1>3. Hour \in Nat \ {0}
  BY <1>1, <1>2 DEF Hour
<1>4. Day \in Nat \ {0}
  BY <1>1, <1>2, <1>3 DEF Day
<1> QED  BY <1>1, <1>3, <1>4

LEMMA Months ==
    /\ Len(MonthDays) \in Nat /\ Month = 1..Len(MonthDays) /\ LeapMonth \in Month
    /\ LastYear \in Nat /\ MaxDay \in Nat
    /\ \A y \in 0..LastYear, m \in Month : Length(y, m) \in 1..MaxDay
<1>1. /\ MonthDays \in Seq(Nat \ {0}) /\ LeapMonth \in Month
      /\ LastYear \in Nat /\ MaxDay \in Nat
      /\ \A y \in 0..LastYear, m \in Month : Length(y, m) <= MaxDay
  BY CronAssumption
<1>2. Len(MonthDays) \in Nat /\ Month = 1..Len(MonthDays)
  BY <1>1 DEF Month
<1>3. \A m \in Month : MonthDays[m] \in Nat \ {0}
  BY <1>1, <1>2
<1>4. ASSUME NEW y \in 0..LastYear, NEW m \in Month
      PROVE  Length(y, m) \in Nat \ {0}
  BY <1>3 DEF Length
<1> QED  BY <1>1, <1>2, <1>4

LEMMA DateParts ==
    ASSUME NEW d \in Dates
    PROVE  /\ d = <<d[1], d[2], d[3]>>
           /\ d[1] \in 0..LastYear /\ d[2] \in Month /\ d[3] \in 1..MaxDay
           /\ d[3] <= Length(d[1], d[2])
BY DEF Dates

LEMMA DateOfParts ==
    ASSUME NEW y \in 0..LastYear, NEW m \in Month, NEW k \in 1..Length(y, m)
    PROVE  /\ <<y, m, k>> \in Dates
           /\ <<y, m, k>>[1] = y /\ <<y, m, k>>[2] = m /\ <<y, m, k>>[3] = k
<1>1. Length(y, m) \in 1..MaxDay /\ MaxDay \in Nat
  BY Months
<1> QED  BY <1>1 DEF Dates

LEMMA DatesFinite == IsFiniteSet(Dates) /\ Cardinality(Dates) \in Nat
<1>1. /\ IsFiniteSet(0..LastYear) /\ IsFiniteSet(Month) /\ IsFiniteSet(1..MaxDay)
  BY FS_Interval, Months
<1> DEFINE P == ((0..LastYear) \X Month) \X (1..MaxDay)
           T == (0..LastYear) \X Month \X (1..MaxDay)
           f == [p \in P |-> <<p[1][1], p[1][2], p[2]>>]
<1>2. IsFiniteSet((0..LastYear) \X Month)
  BY <1>1, FS_Product
<1>3. IsFiniteSet(P)
  BY <1>1, <1>2, FS_Product
<1>4. f \in Surjection(P, T)
  <2>1. f \in [P -> T]
    OBVIOUS
  <2>2. ASSUME NEW d \in T PROVE \E p \in P : f[p] = d
    <3>1. <<<<d[1], d[2]>>, d[3]>> \in P
      OBVIOUS
    <3>2. f[<<<<d[1], d[2]>>, d[3]>>] = <<d[1], d[2], d[3]>>
      BY <3>1
    <3> QED  BY <3>1, <3>2
  <2> QED  BY <2>1, <2>2 DEF Surjection
<1>5. IsFiniteSet(T)
  BY <1>3, <1>4, FS_Surjection
<1>6. Dates \in SUBSET T
  BY DEF Dates
<1>7. IsFiniteSet(Dates)
  BY <1>5, <1>6, FS_Subset
<1> QED  BY <1>7, FS_CardinalityType

(* Dates are in a total order. *)
LEMMA DatesOrdered ==
    ASSUME NEW d \in Dates, NEW e \in Dates
    PROVE  /\ ~Earlier(d, d)
           /\ Earlier(d, e) \/ d = e \/ Earlier(e, d)
           /\ Earlier(d, e) => ~Earlier(e, d)
           /\ \A f \in Dates : Earlier(d, e) /\ Earlier(e, f) => Earlier(d, f)
<1>1. /\ d = <<d[1], d[2], d[3]>> /\ e = <<e[1], e[2], e[3]>>
      /\ \A c \in Dates : c[1] \in Int /\ c[2] \in Int /\ c[3] \in Int
  BY DateParts, Months
<1>2. d[1] \in Int /\ d[2] \in Int /\ d[3] \in Int /\ e[1] \in Int /\ e[2] \in Int /\ e[3] \in Int
  BY <1>1
<1>3. ~Earlier(d, d) /\ (Earlier(d, e) => ~Earlier(e, d))
  BY <1>2 DEF Earlier
<1>4. Earlier(d, e) \/ d = e \/ Earlier(e, d)
  BY <1>1, <1>2 DEF Earlier
<1>5. ASSUME NEW f \in Dates, Earlier(d, e), Earlier(e, f) PROVE Earlier(d, f)
  <2>1. f[1] \in Int /\ f[2] \in Int /\ f[3] \in Int
    BY <1>1
  <2> QED  BY <1>2, <1>5, <2>1 DEF Earlier
<1> QED  BY <1>3, <1>4, <1>5

Before(d) == {e \in Dates : Earlier(e, d)}

Rank(d) == Cardinality(Before(d))

LEMMA RankType ==
    ASSUME NEW d \in Dates
    PROVE  /\ IsFiniteSet(Before(d)) /\ Rank(d) \in Nat
           /\ Rank(d) < Cardinality(Dates)
<1>1. Before(d) \in SUBSET Dates /\ d \notin Before(d)
  BY DatesOrdered DEF Before
<1>2. /\ IsFiniteSet(Before(d)) /\ Cardinality(Before(d)) <= Cardinality(Dates)
      /\ Cardinality(Dates) = Cardinality(Before(d)) => Dates = Before(d)
  BY <1>1, DatesFinite, FS_Subset
<1>3. Cardinality(Before(d)) \in Nat
  BY <1>2, FS_CardinalityType
<1> QED  BY <1>1, <1>2, <1>3, DatesFinite DEF Rank

LEMMA RankOrder ==
    ASSUME NEW d \in Dates, NEW e \in Dates
    PROVE  Earlier(d, e) <=> Rank(d) < Rank(e)
<1>1. ASSUME NEW a \in Dates, NEW b \in Dates, Earlier(a, b)
      PROVE  Rank(a) < Rank(b)
  <2>1. Before(a) \in SUBSET Before(b)
    BY <1>1, DatesOrdered DEF Before
  <2>2. a \in Before(b) /\ a \notin Before(a)
    BY <1>1, DatesOrdered DEF Before
  <2>3. /\ IsFiniteSet(Before(b)) /\ Rank(a) \in Nat /\ Rank(b) \in Nat
    BY RankType
  <2>4. /\ Cardinality(Before(a)) <= Cardinality(Before(b))
        /\ Cardinality(Before(b)) = Cardinality(Before(a)) => Before(b) = Before(a)
    BY <2>1, <2>3, FS_Subset
  <2> QED  BY <2>2, <2>3, <2>4 DEF Rank
<1>2. Rank(d) \in Nat /\ Rank(e) \in Nat
  BY RankType
<1>3. Earlier(d, e) \/ d = e \/ Earlier(e, d)
  BY DatesOrdered
<1> QED  BY <1>1, <1>2, <1>3

(* Every number below the number of dates is one date's. *)
LEMMA RankOnto ==
    ASSUME NEW n \in 0..(Cardinality(Dates) - 1)
    PROVE  \E d \in Dates : Rank(d) = n
<1> DEFINE N == Cardinality(Dates)
           f == [d \in Dates |-> Rank(d)]
<1>1. N \in Nat /\ IsFiniteSet(0..(N - 1)) /\ Cardinality(0..(N - 1)) = N
  <2>1. N \in Nat
    BY DatesFinite
  <2>2. 0 \in Int /\ N - 1 \in Int
    BY <2>1
  <2> QED  BY <2>1, <2>2, FS_Interval
<1>2. f \in Injection(Dates, 0..(N - 1))
  <2>1. f \in [Dates -> 0..(N - 1)]
    <3>1. \A d \in Dates : Rank(d) \in Nat /\ Rank(d) < N
      BY RankType
    <3> QED  BY <1>1, <3>1
  <2>2. ASSUME NEW a \in Dates, NEW b \in Dates, f[a] = f[b] PROVE a = b
    <3>1. Rank(a) = Rank(b) /\ Rank(a) \in Nat
      BY <2>2, RankType
    <3>2. ~Earlier(a, b) /\ ~Earlier(b, a)
      BY <3>1, RankOrder
    <3> QED  BY <3>2, DatesOrdered
  <2> QED  BY <2>1, <2>2 DEF Injection, IsInjective
<1>3. f \in Surjection(Dates, 0..(N - 1))
  BY <1>1, <1>2, FS_Injection
<1>4. \E d \in Dates : f[d] = n
  BY <1>3 DEF Surjection
<1> QED  BY <1>4

(* FirstDay counts from a month's first what Rank counts. *)
LEMMA DayNumber ==
    ASSUME NEW d \in Dates
    PROVE  FirstDay(d[1], d[2]) + d[3] - 1 = Rank(d)
<1>1. /\ d[1] \in 0..LastYear /\ d[2] \in Month /\ d[3] \in Nat /\ d[3] >= 1
      /\ d[3] <= Length(d[1], d[2])
  BY DateParts, Months
<1>2. PICK y \in 0..LastYear, m \in Month, k \in Nat \ {0} :
         y = d[1] /\ m = d[2] /\ k = d[3]
  BY <1>1
<1> DEFINE one == <<y, m, 1>>
           ones == {e \in Dates : Earlier(e, one)}
           days == {e \in Dates : e[1] = y /\ e[2] = m /\ e[3] < k}
           f == [i \in 1..(k - 1) |-> <<y, m, i>>]
<1>3. \A e \in Dates : /\ e = <<e[1], e[2], e[3]>>
                       /\ e[1] \in Int /\ e[2] \in Int /\ e[3] \in Nat /\ e[3] >= 1
  BY DateParts, Months
<1>4. FirstDay(y, m) = Cardinality(ones)
  BY DEF FirstDay, DaysBefore
<1>5. y \in Int /\ m \in Int
  BY Months
<1>6. /\ Before(d) = ones \cup days
      /\ ones \cap days = {}
  <2>1. \A e \in Dates : Earlier(e, one) <=> (e[1] < y \/ (e[1] = y /\ e[2] < m))
    BY <1>3, <1>5 DEF Earlier
  <2>2. \A e \in Dates : Earlier(e, d) <=> \/ e[1] < y
                                           \/ e[1] = y /\ e[2] < m
                                           \/ e[1] = y /\ e[2] = m /\ e[3] < k
    BY <1>2 DEF Earlier
  <2>3. \A e \in Dates : ~((e[1] < y \/ (e[1] = y /\ e[2] < m)) /\ e[1] = y /\ e[2] = m)
    BY <1>3, <1>5
  <2> QED  BY <2>1, <2>2, <2>3 DEF Before
<1>7. IsFiniteSet(days) /\ Cardinality(days) = k - 1
  <2>1. IsFiniteSet(1..(k - 1)) /\ Cardinality(1..(k - 1)) = k - 1
    <3>1. 1 \in Int /\ k - 1 \in Int /\ (1 > k - 1 => k - 1 = 0)
      BY <1>2
    <3> QED  BY <3>1, FS_Interval
  <2>2. f \in Bijection(1..(k - 1), days)
    <3>1. ASSUME NEW i \in 1..(k - 1) PROVE <<y, m, i>> \in days
      <4>1. i \in 1..Length(y, m)
        <5>1. Length(y, m) \in Int
          BY Months
        <5>2. k <= Length(y, m) /\ k \in Int
          BY <1>1, <1>2
        <5> QED  BY <5>1, <5>2
      <4>2. i < k
        BY <1>2
      <4> QED  BY <4>1, <4>2, DateOfParts
    <3>2. f \in [1..(k - 1) -> days]
      BY <3>1
    <3>3. IsInjective(f)
      BY DEF IsInjective
    <3>4. ASSUME NEW e \in days PROVE \E i \in 1..(k - 1) : f[i] = e
      <4>1. e[3] \in 1..(k - 1) /\ e = <<y, m, e[3]>>
        BY <1>2, <1>3
      <4> QED  BY <4>1
    <3> QED  BY <3>2, <3>3, <3>4 DEF Bijection, Injection, Surjection
  <2> QED  BY <2>1, <2>2, FS_Bijection DEF ExistsBijection
<1>8. IsFiniteSet(ones)
  <2>1. ones \in SUBSET Dates
    OBVIOUS
  <2> QED  BY <2>1, DatesFinite, FS_Subset
<1>9. Cardinality(ones \cup days) =
         Cardinality(ones) + Cardinality(days) - Cardinality(ones \cap days)
  BY <1>7, <1>8, FS_Union
<1>10. Cardinality(ones) \in Nat /\ Cardinality(ones \cap days) = 0
  BY <1>6, <1>8, FS_CardinalityType, FS_EmptySet
<1>11. Rank(d) = Cardinality(ones) + (k - 1)
  BY <1>2, <1>6, <1>7, <1>9, <1>10 DEF Rank
<1> QED  BY <1>2, <1>4, <1>10, <1>11

Numbers == 0..(Cardinality(Dates) - 1)

(* The number of a day gives its date, and earlier days earlier dates. *)
LEMMA DateOfNumber ==
    ASSUME NEW n \in Numbers
    PROVE  DateOf[n] \in Dates /\ Rank(DateOf[n]) = n
<1>1. DateOf[n] = CHOOSE d \in Dates : FirstDay(d[1], d[2]) + d[3] - 1 = n
  BY DEF DateOf, Numbers
<1>2. \E d \in Dates : FirstDay(d[1], d[2]) + d[3] - 1 = n
  BY RankOnto, DayNumber DEF Numbers
<1>3. DateOf[n] \in Dates /\ FirstDay(DateOf[n][1], DateOf[n][2]) + DateOf[n][3] - 1 = n
  BY <1>1, <1>2
<1> QED  BY <1>3, DayNumber

LEMMA NumbersInOrder ==
    ASSUME NEW n \in Numbers, NEW k \in Numbers
    PROVE  n < k <=> Earlier(DateOf[n], DateOf[k])
BY DateOfNumber, RankOrder

(* FirstDay is the number of a month's first day. *)
LEMMA FirstDays ==
    ASSUME NEW y \in 0..LastYear, NEW m \in Month
    PROVE  FirstDay(y, m) \in Numbers /\ DateOf[FirstDay(y, m)] = <<y, m, 1>>
<1>1. 1 \in 1..Length(y, m)
  BY Months
<1>2. PICK d \in Dates : d = <<y, m, 1>> /\ d[1] = y /\ d[2] = m /\ d[3] = 1
  <2>1. /\ <<y, m, 1>> \in Dates
        /\ <<y, m, 1>>[1] = y /\ <<y, m, 1>>[2] = m /\ <<y, m, 1>>[3] = 1
    BY <1>1, DateOfParts
  <2> QED  BY <2>1, Zenon
<1>3. FirstDay(y, m) + 1 - 1 = Rank(d) /\ Rank(d) \in Nat /\ Rank(d) < Cardinality(Dates)
  BY <1>2, DayNumber, RankType
<1>4. FirstDay(y, m) = Cardinality({e \in Dates : Earlier(e, <<y, m, 1>>)})
  BY DEF FirstDay, DaysBefore
<1>5. FirstDay(y, m) = Rank(d)
  BY <1>2, <1>4 DEF Rank, Before
<1>6. FirstDay(y, m) \in Numbers
  BY <1>3, <1>5, DatesFinite DEF Numbers
<1>7. DateOf[FirstDay(y, m)] \in Dates /\ Rank(DateOf[FirstDay(y, m)]) = Rank(d)
  BY <1>5, <1>6, DateOfNumber
<1>8. DateOf[FirstDay(y, m)] = d
  BY <1>3, <1>7, RankOrder, DatesOrdered
<1> QED  BY <1>2, <1>6, <1>8

-----------------------------------------------------------------------------
(* Division, and units of time that divide one another. *)

LEMMA DivMod ==
    ASSUME NEW a \in Int, NEW p \in Nat \ {0}
    PROVE  /\ a \div p \in Int
           /\ a % p \in 0..(p - 1)
           /\ a = p * (a \div p) + (a % p)
OBVIOUS

LEMMA Neighbours ==
    ASSUME NEW p \in Nat \ {0}, NEW k \in Int, NEW q \in Int,
           p * k < p * q + p
    PROVE  k <= q
<1>1. SUFFICES ASSUME k >= q + 1 PROVE FALSE
  OBVIOUS
<1>2. p * k >= p * (q + 1)
  BY <1>1
<1>3. p * (q + 1) = p * q + p
  OBVIOUS
<1> QED  BY <1>2, <1>3

(* The q-th unit of p has not begun by a when a lies in an earlier one. *)
LEMMA Begins ==
    ASSUME NEW a \in Int, NEW p \in Nat \ {0}, NEW q \in Int
    PROVE  /\ p * q \in Int
           /\ a < p * q <=> a \div p < q
           /\ p * q <= a <=> q <= a \div p
<1>1. PICK d \in Int : d = a \div p /\ p * d <= a /\ a < p * d + p
  BY DivMod
<1>2. p * q \in Int /\ p * d \in Int
  OBVIOUS
<1>3. ASSUME a < p * q PROVE d < q
  <2>1. p * q = p * (q - 1) + p
    OBVIOUS
  <2>2. p * d < p * (q - 1) + p
    BY <1>1, <1>2, <1>3, <2>1
  <2>3. d <= q - 1
    BY <2>2, Neighbours
  <2> QED  BY <2>3
<1>4. ASSUME p * q <= a PROVE q <= d
  <2>1. p * q < p * d + p
    BY <1>1, <1>2, <1>4
  <2> QED  BY <2>1, Neighbours
<1> QED  BY <1>1, <1>2, <1>3, <1>4

(* F units of U are one of F * U. *)
LEMMA Nested ==
    ASSUME NEW a \in Nat, NEW F \in Nat \ {0}, NEW U \in Nat \ {0}
    PROVE  /\ F * U \in Nat \ {0}
           /\ a \div U \in Nat /\ a \div (F * U) \in Nat
           /\ (a % (F * U)) \div U \in 0..(F - 1)
           /\ a \div U = F * (a \div (F * U)) + ((a % (F * U)) \div U)
<1>1. PICK B \in Nat \ {0} : B = F * U
  OBVIOUS
<1>2. PICK n \in Int, r \in Int : /\ n = a \div B /\ r = a % B
                                  /\ r >= 0 /\ r < B /\ a = B * n + r
  <2>1. a \div B \in Int /\ a % B \in 0..(B - 1) /\ a = B * (a \div B) + (a % B)
    BY DivMod
  <2> QED  BY <2>1
<1>3. PICK q \in Int : q = r \div U /\ U * q <= r /\ r < U * q + U
  BY DivMod
<1>4. 0 <= q
  <2>1. U * 0 <= r
    BY <1>2
  <2> QED  BY <1>3, <2>1, Begins
<1>5. q < F
  <2>1. U * F = B
    BY <1>1
  <2>2. r < U * F
    BY <1>2, <2>1
  <2> QED  BY <1>3, <2>2, Begins
<1>6. PICK k \in Int : k = F * n + q /\ U * k = B * n + U * q
  <2>1. PICK x \in Int : x = F * n
    OBVIOUS
  <2>2. U * x = B * n
    <3>1. U * (F * n) = (F * U) * n
      OBVIOUS
    <3> QED  BY <1>1, <2>1, <3>1
  <2>3. U * (x + q) = U * x + U * q /\ x + q \in Int
    OBVIOUS
  <2>4. PICK k \in Int : k = x + q
    BY <2>3
  <2>5. k = F * n + q /\ U * k = B * n + U * q
    BY <2>1, <2>2, <2>3, <2>4
  <2> QED  BY <2>5, Zenon
<1>7. a \div U = k
  <2>1. U * (k + 1) = U * k + U
    OBVIOUS
  <2>2. B * n \in Int /\ U * q \in Int /\ U * k \in Int
    OBVIOUS
  <2>3. U * k <= a /\ a < U * (k + 1)
    BY <1>2, <1>3, <1>6, <2>1, <2>2
  <2>4. k <= a \div U /\ a \div U < k + 1 /\ a \div U \in Int
    <3>1. k + 1 \in Int /\ a \in Int
      OBVIOUS
    <3>2. k <= a \div U
      BY <2>3, <3>1, Begins, Zenon
    <3>3. a \div U < k + 1
      BY <2>3, <3>1, Begins, Zenon
    <3>4. a \div U \in Int
      BY <3>1, DivMod, Zenon
    <3> QED  BY <3>2, <3>3, <3>4
  <2> QED  BY <2>4
<1>8. 0 <= n
  <2>1. B * 0 <= a
    OBVIOUS
  <2> QED  BY <1>2, <2>1, Begins
<1>9. a \div U \in Nat
  <2>1. U * 0 <= a
    OBVIOUS
  <2>2. 0 <= a \div U /\ a \div U \in Int
    BY <2>1, Begins, DivMod
  <2> QED  BY <2>2
<1>10. /\ B \in Nat \ {0} /\ a \div U \in Nat /\ a \div B \in Nat
       /\ (a % B) \div U \in 0..(F - 1)
       /\ a \div U = F * (a \div B) + ((a % B) \div U)
  <2>1. a \div U = F * n + q
    BY <1>6, <1>7
  <2>2. (a % B) \div U = q /\ a \div B = n
    BY <1>2, <1>3, Zenon
  <2>3. q \in 0..(F - 1) /\ n \in Nat
    BY <1>3, <1>4, <1>5, <1>2, <1>8
  <2> QED  BY <1>1, <1>9, <2>1, <2>2, <2>3, Zenon
<1> QED  BY <1>1, <1>10, Zenon

(* Up to the g-th U of the N-th F * U. *)
LEMMA Between ==
    ASSUME NEW a \in Nat, NEW b \in Nat, NEW F \in Nat \ {0}, NEW U \in Nat \ {0},
           NEW N \in Nat, NEW f \in Nat, NEW g \in Nat,
           a \div U = F * N + f, g <= F, a <= b, b < U * (F * N + g)
    PROVE  /\ b \div (F * U) = N
           /\ b \div U \in (F * N + f)..(F * N + g - 1)
<1>1. F * N \in Nat
  OBVIOUS
<1>2. b \div U < F * N + g
  BY <1>1, Begins
<1>3. F * N + f <= b \div U
  <2>1. U * (F * N + f) <= a
    BY <1>1, Begins
  <2>2. U * (F * N + f) <= b
    <3>1. U * (F * N + f) \in Int
      BY <1>1
    <3> QED  BY <2>1, <3>1
  <2> QED  BY <1>1, <2>2, Begins
<1>4. PICK B \in Nat \ {0}, x \in Nat : B = F * U /\ x = F * N
  OBVIOUS
<1>5. /\ U * x = B * N /\ U * (x + F) = B * (N + 1)
  <2>1. U * (F * N) = (F * U) * N /\ U * (F * N + F) = (F * U) * (N + 1)
    OBVIOUS
  <2> QED  BY <1>4, <2>1
<1>6. B * N <= b
  <2>1. U * x <= U * (b \div U)
    BY <1>3, <1>4, DivMod
  <2>2. U * (b \div U) <= b
    BY DivMod
  <2> QED  BY <1>5, <2>1, <2>2
<1>7. b < B * (N + 1)
  <2>1. U * (x + g) <= U * (x + F)
    OBVIOUS
  <2> QED  BY <1>4, <1>5, <2>1
<1>8. b \div B = N
  <2>1. b \in Int /\ N \in Int /\ N + 1 \in Int
    OBVIOUS
  <2>2. N <= b \div B
    BY <1>6, <2>1, Begins, Zenon
  <2>3. b \div B < N + 1
    BY <1>7, <2>1, Begins, Zenon
  <2>4. b \div B \in Int
    BY <2>1, DivMod, Zenon
  <2> QED  BY <2>2, <2>3, <2>4
<1>9. b \div (F * U) = N
  BY <1>4, <1>8
<1>10. b \div U \in Int
  BY DivMod
<1> QED  BY <1>1, <1>2, <1>3, <1>9, <1>10

-----------------------------------------------------------------------------
(* What a wall clock shows, in days, hours and minutes since the start. *)

DayOf(w) == w \div Day
HourOf(w) == w \div Hour
MinuteOf(w) == w \div SecondsPerMinute

LEMMA ShownParts ==
    ASSUME NEW w
    PROVE  /\ Shown(w).year = DateOf[DayOf(w)][1]
           /\ Shown(w).month = DateOf[DayOf(w)][2]
           /\ Shown(w).day = DateOf[DayOf(w)][3]
           /\ Shown(w).dow = DayOf(w) % DaysPerWeek
           /\ Shown(w).hour = (w % Day) \div Hour
           /\ Shown(w).minute = (w % Hour) \div SecondsPerMinute
           /\ Shown(w).second = w % SecondsPerMinute
BY Zenon DEF Shown, DayOf

LEMMA Clock ==
    ASSUME NEW w \in Nat
    PROVE  /\ DayOf(w) \in Nat /\ HourOf(w) \in Nat /\ MinuteOf(w) \in Nat
           /\ Shown(w).hour \in 0..(HoursPerDay - 1)
           /\ Shown(w).minute \in 0..(MinutesPerHour - 1)
           /\ Shown(w).second \in 0..(SecondsPerMinute - 1)
           /\ HourOf(w) = HoursPerDay * DayOf(w) + Shown(w).hour
           /\ MinuteOf(w) = MinutesPerHour * HourOf(w) + Shown(w).minute
           /\ w = SecondsPerMinute * MinuteOf(w) + Shown(w).second
<1>1. /\ w \div Day \in Nat /\ w \div Hour \in Nat
      /\ (w % Day) \div Hour \in 0..(HoursPerDay - 1)
      /\ w \div Hour = HoursPerDay * (w \div Day) + ((w % Day) \div Hour)
  BY Units, Nested, Zenon DEF Day
<1>2. /\ w \div SecondsPerMinute \in Nat
      /\ (w % Hour) \div SecondsPerMinute \in 0..(MinutesPerHour - 1)
      /\ w \div SecondsPerMinute
            = MinutesPerHour * (w \div Hour) + ((w % Hour) \div SecondsPerMinute)
  BY Units, Nested, Zenon DEF Hour
<1>3. /\ w % SecondsPerMinute \in 0..(SecondsPerMinute - 1)
      /\ w = SecondsPerMinute * (w \div SecondsPerMinute) + (w % SecondsPerMinute)
  BY Units, DivMod
<1> QED  BY <1>1, <1>2, <1>3, ShownParts, Zenon DEF DayOf, HourOf, MinuteOf

LEMMA WallDays ==
    /\ Walls \subseteq Nat
    /\ \A w \in Walls : DayOf(w) \in Numbers
    /\ \A n \in Numbers : Day * n \in Walls
<1>1. PICK N \in Nat, D \in Nat \ {0} : N = Cardinality(Dates) /\ D = Day
  BY DatesFinite, Units
<1>2. Walls = 0..(D * N - 1) /\ Numbers = 0..(N - 1)
  <2>1. N * D = D * N
    OBVIOUS
  <2> QED  BY <1>1, <2>1 DEF Walls, Numbers
<1>3. D * N \in Nat
  OBVIOUS
<1>4. ASSUME NEW w \in Walls PROVE w \div D \in 0..(N - 1)
  <2>1. w \in Nat /\ w < D * N
    BY <1>2, <1>3
  <2>2. w \div D < N
    BY <2>1, Begins
  <2>3. D * 0 <= w /\ 0 \in Int /\ w \in Int
    BY <2>1
  <2>4. 0 <= w \div D
    BY <2>3, Begins, Zenon
  <2>5. w \div D \in Int
    BY <2>3, DivMod, Zenon
  <2> QED  BY <2>2, <2>4, <2>5
<1>5. ASSUME NEW n \in 0..(N - 1) PROVE D * n \in 0..(D * N - 1)
  <2>1. D * n <= D * (N - 1)
    OBVIOUS
  <2>2. D * (N - 1) = D * N - D
    OBVIOUS
  <2>3. D * n \in Nat
    OBVIOUS
  <2> QED  BY <1>3, <2>1, <2>2, <2>3
<1>6. Walls \subseteq Nat
  BY <1>2, <1>3
<1>7. \A w \in Walls : DayOf(w) \in Numbers
  BY <1>1, <1>2, <1>4, Zenon DEF DayOf
<1>8. \A n \in Numbers : Day * n \in Walls
  BY <1>1, <1>2, <1>5, Zenon
<1> QED  BY <1>6, <1>7, <1>8

(* The date shown is the day's. *)
LEMMA ShownDate ==
    ASSUME NEW w \in Walls
    PROVE  /\ <<Shown(w).year, Shown(w).month, Shown(w).day>> = DateOf[DayOf(w)]
           /\ DateOf[DayOf(w)] \in Dates
           /\ Shown(w).year \in 0..LastYear /\ Shown(w).month \in Month
           /\ Shown(w).day \in 1..MaxDay
           /\ FirstDay(Shown(w).year, Shown(w).month) + Shown(w).day - 1 = DayOf(w)
<1>1. PICK d \in Dates : d = DateOf[DayOf(w)] /\ Rank(d) = DayOf(w)
  BY WallDays, DateOfNumber
<1>2. /\ d = <<d[1], d[2], d[3]>>
      /\ d[1] \in 0..LastYear /\ d[2] \in Month /\ d[3] \in 1..MaxDay
  BY DateParts
<1>3. FirstDay(d[1], d[2]) + d[3] - 1 = Rank(d)
  BY DayNumber
<1>4. Shown(w).year = d[1] /\ Shown(w).month = d[2] /\ Shown(w).day = d[3]
  BY <1>1, ShownParts
<1> QED  BY <1>1, <1>2, <1>3, <1>4

(* The calendar goes on, from month to month and from year to year. *)
LEMMA ShownOrder ==
    ASSUME NEW v \in Walls, NEW w \in Walls, v <= w
    PROVE  /\ DayOf(v) <= DayOf(w)
           /\ \/ Shown(v).year < Shown(w).year
              \/ Shown(v).year = Shown(w).year /\ Shown(v).month <= Shown(w).month
<1>1. DayOf(v) <= DayOf(w) /\ DayOf(v) \in Int /\ DayOf(w) \in Int
  <2>1. v \in Int /\ w \in Int /\ DayOf(v) \in Int /\ DayOf(w) \in Int
    BY WallDays DEF Numbers
  <2>2. Day * DayOf(v) <= v
    BY <2>1, Units, Begins DEF DayOf
  <2>3. Day * DayOf(v) \in Int
    BY <2>1, Units
  <2>4. Day * DayOf(v) <= w
    BY <2>1, <2>2, <2>3
  <2> QED  BY <2>1, <2>4, Units, Begins DEF DayOf
<1>2. DayOf(v) = DayOf(w) \/ Earlier(DateOf[DayOf(v)], DateOf[DayOf(w)])
  BY <1>1, WallDays, NumbersInOrder
<1>3. /\ Shown(v).year = DateOf[DayOf(v)][1] /\ Shown(w).year = DateOf[DayOf(w)][1]
      /\ Shown(v).month = DateOf[DayOf(v)][2] /\ Shown(w).month = DateOf[DayOf(w)][2]
  BY ShownParts
<1>4. Shown(v).year \in Int /\ Shown(v).month \in Int
  BY ShownDate, Months
<1>5. CASE DayOf(v) = DayOf(w)
  <2>1. Shown(v).year = Shown(w).year /\ Shown(v).month = Shown(w).month
    BY <1>3, <1>5
  <2> QED  BY <1>1, <1>4, <2>1
<1>6. CASE Earlier(DateOf[DayOf(v)], DateOf[DayOf(w)])
  <2>1. \/ Shown(v).year < Shown(w).year
        \/ Shown(v).year = Shown(w).year /\ Shown(v).month < Shown(w).month
        \/ Shown(v).year = Shown(w).year /\ Shown(v).month = Shown(w).month
    BY <1>3, <1>6, Zenon DEF Earlier
  <2>2. Shown(v).month < Shown(w).month => Shown(v).month <= Shown(w).month
    BY ShownDate, Months
  <2>3. Shown(v).month = Shown(w).month => Shown(v).month <= Shown(w).month
    BY <1>4
  <2> QED  BY <1>1, <2>1, <2>2, <2>3, Zenon
<1> QED  BY <1>2, <1>5, <1>6, Zenon

(* A month has not begun while an earlier one is shown. *)
LEMMA MonthBegins ==
    ASSUME NEW w \in Walls, NEW y \in 0..LastYear, NEW m \in Month
    PROVE  w < Day * FirstDay(y, m) <=> \/ Shown(w).year < y
                                        \/ Shown(w).year = y /\ Shown(w).month < m
<1>1. FirstDay(y, m) \in Numbers /\ DateOf[FirstDay(y, m)] = <<y, m, 1>>
  BY FirstDays
<1>2. w < Day * FirstDay(y, m) <=> DayOf(w) < FirstDay(y, m)
  <2>1. w \in Int /\ FirstDay(y, m) \in Int
    BY <1>1, WallDays DEF Numbers
  <2> QED  BY <2>1, Units, Begins DEF DayOf
<1>3. DayOf(w) < FirstDay(y, m) <=> Earlier(DateOf[DayOf(w)], <<y, m, 1>>)
  BY <1>1, WallDays, NumbersInOrder
<1>4. PICK a \in Int, b \in Int, c \in Int :
         /\ c >= 1 /\ DateOf[DayOf(w)] = <<a, b, c>>
         /\ Shown(w).year = a /\ Shown(w).month = b
  <2>1. /\ Shown(w).year \in Int /\ Shown(w).month \in Int /\ Shown(w).day \in Int
        /\ Shown(w).day >= 1
        /\ DateOf[DayOf(w)] = <<Shown(w).year, Shown(w).month, Shown(w).day>>
    <3>1. /\ Shown(w).year \in 0..LastYear /\ Shown(w).month \in Month
          /\ Shown(w).day \in 1..MaxDay
          /\ DateOf[DayOf(w)] = <<Shown(w).year, Shown(w).month, Shown(w).day>>
      BY ShownDate, Zenon
    <3>2. 0..LastYear \subseteq Int /\ Month \subseteq Int /\ 1..MaxDay \subseteq Nat \ {0}
      BY Months
    <3>3. Shown(w).year \in Int /\ Shown(w).month \in Int
      BY <3>1, <3>2, Zenon
    <3>4. Shown(w).day \in Int /\ Shown(w).day >= 1
      BY <3>1, <3>2
    <3> QED  BY <3>1, <3>3, <3>4, Zenon
  <2> QED  BY <2>1, Zenon
<1>5. y \in Int /\ m \in Int
  BY Months
<1>6. Earlier(<<a, b, c>>, <<y, m, 1>>) <=> a < y \/ (a = y /\ b < m)
  BY <1>4, <1>5 DEF Earlier
<1> QED  BY <1>2, <1>3, <1>4, <1>6

-----------------------------------------------------------------------------
(* Fields: what parses, and the next value of one. *)

LEMMA Parsed ==
    ASSUME NEW parts \in SUBSET Part, NEW lo \in Int, NEW hi \in Int
    PROVE  ParseField(parts, lo, hi) \subseteq lo..hi
<1>1. ASSUME \A p \in parts : Valid(p, lo, hi),
             NEW p \in parts, NEW v \in p.first..p.last
      PROVE  v \in lo..hi
  <2>1. p.first \in Int /\ p.last \in Int
    BY DEF Part
  <2>2. lo <= p.first /\ p.last <= hi
    BY <1>1 DEF Valid
  <2> QED  BY <1>1, <2>1, <2>2
<1> QED  BY <1>1 DEF ParseField

(* What a schedule is made of. *)
LEMMA ScheduleFacts ==
    ASSUME NEW c \in Schedules
    PROVE  /\ c.months \in SUBSET Month /\ c.months # {}
           /\ c.hours \in SUBSET (0..(HoursPerDay - 1)) /\ c.hours # {}
           /\ c.minutes \in SUBSET (0..(MinutesPerHour - 1)) /\ c.minutes # {}
           /\ c.seconds \in SUBSET (0..(SecondsPerMinute - 1)) /\ c.seconds # {}
<1>1. PICK e \in Expressions : c = ParseCron(e) /\ \A f \in DOMAIN c : c[f] # {}
  BY DEF Schedules
<1>2. /\ e.months \in SUBSET Part /\ e.hours \in SUBSET Part
      /\ e.minutes \in SUBSET Part /\ e.seconds \in SUBSET Part
  BY <1>1, CronAssumption
<1>3. /\ c.months = ParseField(e.months, 1, Len(MonthDays))
      /\ c.hours = ParseField(e.hours, 0, HoursPerDay - 1)
      /\ c.minutes = ParseField(e.minutes, 0, MinutesPerHour - 1)
      /\ c.seconds = ParseField(e.seconds, 0, SecondsPerMinute - 1)
  BY <1>1, Zenon DEF ParseCron
<1>4. {"months", "hours", "minutes", "seconds"} \subseteq DOMAIN c
  BY <1>1 DEF ParseCron
<1>5. c.months # {} /\ c.hours # {} /\ c.minutes # {} /\ c.seconds # {}
  BY <1>1, <1>4, Zenon
<1>6. /\ HoursPerDay - 1 \in Int /\ MinutesPerHour - 1 \in Int /\ SecondsPerMinute - 1 \in Int
      /\ 0 \in Int /\ 1 \in Int /\ Len(MonthDays) \in Int
  BY Units, Months
<1>7. /\ c.months \subseteq 1..Len(MonthDays)
      /\ c.hours \subseteq 0..(HoursPerDay - 1)
      /\ c.minutes \subseteq 0..(MinutesPerHour - 1)
      /\ c.seconds \subseteq 0..(SecondsPerMinute - 1)
  BY <1>2, <1>3, <1>6, Parsed, Zenon
<1> QED  BY <1>5, <1>7, Months

LEMMA Least ==
    ASSUME NEW S \in SUBSET Nat, S # {}
    PROVE  \E v \in S : \A u \in S : v <= u
<1>1. PICK v \in S : \A u \in S : <<u, v>> \notin OpToRel(<, Nat)
  BY NatLessThanWellFounded, WFMin, Zenon
<1>2. ASSUME NEW u \in S PROVE v <= u
  <2>1. u \in Nat /\ v \in Nat
    OBVIOUS
  <2>2. ~(u < v)
    BY <1>1, <2>1, Zenon DEF OpToRel
  <2> QED  BY <2>1, <2>2
<1> QED  BY <1>2

(* No value of the set comes after the current one and before the next,    *)
(* or after the current one or before the first when the search wraps.     *)
LEMMA NextValue ==
    ASSUME NEW S \in SUBSET Nat, S # {}, NEW current \in Nat, current \notin S
    PROVE  /\ NextOrFirst(S, current) \in S
           /\ Wrapped(S, current) =>
                 \A u \in S : u < current /\ NextOrFirst(S, current) <= u
           /\ ~Wrapped(S, current) =>
                 /\ current < NextOrFirst(S, current)
                 /\ \A u \in S : current <= u => NextOrFirst(S, current) <= u
<1> DEFINE choice == IF Wrapped(S, current) THEN S ELSE {v \in S : v >= current}
<1>0. /\ Wrapped(S, current) => choice = S
      /\ ~Wrapped(S, current) => choice = {v \in S : v >= current}
  BY Zenon
<1> HIDE DEF choice
<1>1. choice \in SUBSET Nat /\ choice # {}
  <2>1. CASE Wrapped(S, current)
    BY <1>0, <2>1
  <2>2. CASE ~Wrapped(S, current)
    <3>1. PICK v \in S : ~(v < current)
      BY <2>2, Zenon DEF Wrapped
    <3>2. v \in Nat /\ v >= current
      BY <3>1
    <3>3. choice = {u \in S : u >= current}
      BY <1>0, <2>2, Zenon
    <3> QED  BY <3>2, <3>3
  <2> QED  BY <2>1, <2>2, Zenon
<1>2. \E v \in choice : \A u \in choice : v <= u
  BY <1>1, Least
<1>3. NextOrFirst(S, current) = CHOOSE v \in choice : \A u \in choice : v <= u
  BY Zenon DEF NextOrFirst, choice
<1>4. /\ NextOrFirst(S, current) \in choice
      /\ \A u \in choice : NextOrFirst(S, current) <= u
  BY <1>2, <1>3
<1>5. CASE Wrapped(S, current)
  <2>1. choice = S
    BY <1>0, <1>5
  <2> QED  BY <1>4, <1>5, <2>1 DEF Wrapped
<1>6. CASE ~Wrapped(S, current)
  <2>1. choice = {v \in S : v >= current}
    BY <1>0, <1>6
  <2>2. PICK next \in Nat : next = NextOrFirst(S, current)
    BY <1>1, <1>4
  <2>3. next \in S /\ next >= current /\ next # current
    BY <1>4, <2>1, <2>2
  <2>4. \A u \in S : current <= u => next <= u
    BY <1>4, <2>1, <2>2
  <2> QED  BY <1>6, <2>2, <2>3, <2>4
<1> QED  BY <1>5, <1>6, Zenon

-----------------------------------------------------------------------------
(* Each step of the search, in seconds on the wall. *)

(* The expression fires at what the wall shows. *)
Shows(w) ==
    /\ Shown(w).month \in sched.months
    /\ Shown(w).day \in sched.days /\ Shown(w).dow \in sched.dows
    /\ Shown(w).hour \in sched.hours /\ Shown(w).minute \in sched.minutes
    /\ Shown(w).second \in sched.seconds

(* From w the search may go on to x: nothing in between fires. *)
Passes(w, x) ==
    /\ x \in Walls /\ w < x
    /\ \A v \in w..(x - 1) : ~Shows(v)
    /\ HourOf(x) = HourOf(w) \/ \E k \in Int : x = Hour * k

(* Whatever lies between two walls of the calendar is one. *)
LEMMA InBetween ==
    ASSUME NEW w \in Walls, NEW x \in Walls, NEW v \in w..x
    PROVE  v \in Walls
<1>1. PICK N : N = Cardinality(Dates) * Day
  OBVIOUS
<1>2. N \in Int
  BY <1>1, DatesFinite, Units
<1> QED  BY <1>1, <1>2 DEF Walls

LEMMA SameDay ==
    ASSUME NEW v, NEW w, DayOf(v) = DayOf(w)
    PROVE  /\ Shown(v).month = Shown(w).month /\ Shown(v).day = Shown(w).day
           /\ Shown(v).dow = Shown(w).dow
BY ShownParts

(* To a month: of those left out none is the expression's. *)
LEMMA PassMonth ==
    ASSUME NEW w \in Walls, sched \in Schedules, Shown(w).month \notin sched.months,
           NEW carry \in {0, 1}, Shown(w).year + carry <= LastYear,
           carry = 1 <=> Wrapped(sched.months, Shown(w).month)
    PROVE  Passes(w, Day * FirstDay(Shown(w).year + carry,
                                    NextOrFirst(sched.months, Shown(w).month)))
<1>1. PICK y \in 0..LastYear, m \in Month : y = Shown(w).year /\ m = Shown(w).month
  BY ShownDate
<1>2. PICK S \in SUBSET Month : S = sched.months /\ S # {} /\ m \notin S
  BY <1>1, ScheduleFacts
<1>3. PICK next : next = NextOrFirst(S, m)
  OBVIOUS
<1>4. Month \subseteq Nat /\ S \in SUBSET Nat /\ m \in Nat
  BY Months
<1>5. /\ next \in S
      /\ Wrapped(S, m) => \A u \in S : u < m /\ next <= u
      /\ ~Wrapped(S, m) => m < next /\ \A u \in S : m <= u => next <= u
  BY <1>2, <1>3, <1>4, NextValue
<1>6. y + carry \in 0..LastYear /\ next \in Month /\ y \in Int
  <2>1. y \in 0..LastYear /\ y + carry <= LastYear /\ LastYear \in Nat
    BY <1>1, Months
  <2>2. next \in Month
    BY <1>2, <1>5
  <2> QED  BY <2>1, <2>2
<1> DEFINE x == Day * FirstDay(y + carry, next)
<1> HIDE DEF x
<1>7. x \in Walls
  BY <1>6, FirstDays, WallDays DEF x
<1>8. \A v \in Walls : v < x <=> \/ Shown(v).year < y + carry
                                 \/ Shown(v).year = y + carry /\ Shown(v).month < next
  BY <1>6, MonthBegins DEF x
<1>9. carry = 1 <=> Wrapped(S, m)
  BY <1>1, <1>2
<1>10. w < x
  BY <1>1, <1>4, <1>5, <1>6, <1>8, <1>9
<1>11. ASSUME NEW v \in w..(x - 1) PROVE ~Shows(v)
  <2>1. w \in Int /\ x \in Int /\ v \in w..x /\ v < x /\ w <= v
    BY <1>7, WallDays
  <2>2. v \in Walls
    BY <1>7, <2>1, InBetween
  <2>3. PICK a \in Nat, b \in Month : a = Shown(v).year /\ b = Shown(v).month
    <3>1. Shown(v).year \in 0..LastYear /\ Shown(v).month \in Month
      BY <2>2, ShownDate
    <3>2. 0..LastYear \subseteq Nat
      BY Months
    <3> QED  BY <3>1, <3>2, Zenon
  <2>4. y < a \/ (y = a /\ m <= b)
    BY <1>1, <2>1, <2>2, <2>3, ShownOrder
  <2>5. a < y + carry \/ (a = y + carry /\ b < next)
    BY <1>8, <2>1, <2>2, <2>3
  <2>6. b \notin S
    BY <1>4, <1>5, <1>6, <1>9, <2>4, <2>5
  <2> QED  BY <1>2, <2>3, <2>6 DEF Shows
<1>12. \E k \in Int : x = Hour * k
  <2>1. PICK n \in Nat : n = FirstDay(y + carry, next)
    BY <1>6, FirstDays DEF Numbers
  <2>2. x = Hour * (HoursPerDay * n) /\ HoursPerDay * n \in Int
    BY <2>1, Units DEF x, Day
  <2> QED  BY <2>2
<1> QED  BY <1>1, <1>2, <1>3, <1>7, <1>10, <1>11, <1>12 DEF Passes, x

LEMMA Digits ==
    ASSUME NEW p \in Nat \ {0}, NEW m \in Int, NEW n \in Int,
           NEW r \in 0..(p - 1), NEW s \in 0..(p - 1), p * m + r = p * n + s
    PROVE  m = n /\ r = s
<1>1. p * m \in Int /\ p * n \in Int
  OBVIOUS
<1>2. p * m < p * n + p /\ p * n < p * m + p
  BY <1>1
<1>3. m <= n /\ n <= m
  BY <1>2, Neighbours
<1>4. m = n
  BY <1>3
<1>5. p * m = p * n
  BY <1>4
<1> QED  BY <1>1, <1>4, <1>5

LEMMA Same ==
    ASSUME NEW v \in Nat, NEW w \in Nat
    PROVE  /\ HourOf(v) = HourOf(w) =>
                 DayOf(v) = DayOf(w) /\ Shown(v).hour = Shown(w).hour
           /\ MinuteOf(v) = MinuteOf(w) =>
                 HourOf(v) = HourOf(w) /\ Shown(v).minute = Shown(w).minute
<1>1. /\ DayOf(v) \in Int /\ HourOf(v) \in Int /\ DayOf(w) \in Int /\ HourOf(w) \in Int
  BY Clock
<1>2. ASSUME HourOf(v) = HourOf(w)
      PROVE  DayOf(v) = DayOf(w) /\ Shown(v).hour = Shown(w).hour
  <2>1. /\ Shown(v).hour \in 0..(HoursPerDay - 1)
        /\ HourOf(v) = HoursPerDay * DayOf(v) + Shown(v).hour
    BY Clock, Zenon
  <2>2. /\ Shown(w).hour \in 0..(HoursPerDay - 1)
        /\ HourOf(w) = HoursPerDay * DayOf(w) + Shown(w).hour
    BY Clock, Zenon
  <2>3. HoursPerDay * DayOf(v) + Shown(v).hour = HoursPerDay * DayOf(w) + Shown(w).hour
    BY <1>2, <2>1, <2>2, Zenon
  <2>4. HoursPerDay \in Nat \ {0}
    BY Units
  <2> QED  BY <1>1, <2>1, <2>2, <2>3, <2>4, Digits
<1>3. ASSUME MinuteOf(v) = MinuteOf(w)
      PROVE  HourOf(v) = HourOf(w) /\ Shown(v).minute = Shown(w).minute
  <2>1. /\ Shown(v).minute \in 0..(MinutesPerHour - 1)
        /\ MinuteOf(v) = MinutesPerHour * HourOf(v) + Shown(v).minute
    BY Clock, Zenon
  <2>2. /\ Shown(w).minute \in 0..(MinutesPerHour - 1)
        /\ MinuteOf(w) = MinutesPerHour * HourOf(w) + Shown(w).minute
    BY Clock, Zenon
  <2>3. MinutesPerHour * HourOf(v) + Shown(v).minute
           = MinutesPerHour * HourOf(w) + Shown(w).minute
    BY <1>3, <2>1, <2>2, Zenon
  <2>4. MinutesPerHour \in Nat \ {0}
    BY Units
  <2> QED  BY <1>1, <2>1, <2>2, <2>3, <2>4, Digits
<1> QED  BY <1>2, <1>3

(* The g-th U of the N-th F * U begins at or before the end of that. *)
LEMMA Fills ==
    ASSUME NEW F \in Nat \ {0}, NEW U \in Nat \ {0}, NEW N \in Nat, NEW g \in 0..F
    PROVE  /\ U * (F * N + g) \in Nat
           /\ U * (F * N + g) = (F * U) * N + U * g
           /\ U * (F * N + g) <= (F * U) * (N + 1)
           /\ g = F => U * (F * N + g) = (F * U) * (N + 1)
<1>1. PICK B \in Nat \ {0}, x \in Nat : B = F * U /\ x = F * N
  OBVIOUS
<1>2. U * x = B * N /\ U * (x + F) = B * (N + 1)
  <2>1. U * (F * N) = (F * U) * N /\ U * (F * N + F) = (F * U) * (N + 1)
    OBVIOUS
  <2> QED  BY <1>1, <2>1
<1>3. U * (x + g) <= U * (x + F) /\ U * (x + g) = U * x + U * g /\ U * (x + g) \in Nat
  OBVIOUS
<1>4. /\ U * (x + g) \in Nat /\ U * (x + g) = B * N + U * g /\ U * (x + g) <= B * (N + 1)
      /\ g = F => U * (x + g) = B * (N + 1)
  BY <1>2, <1>3
<1> QED  BY <1>1, <1>4, Zenon

(* To an hour of the same day, or to the next day. *)
LEMMA PassHour ==
    ASSUME NEW w \in Walls, DayOf(w) + 1 \in Numbers,
           NEW h \in (Shown(w).hour + 1)..HoursPerDay,
           \A v \in Walls : DayOf(v) = DayOf(w) /\ Shown(v).hour \in Shown(w).hour..(h - 1)
                               => ~Shows(v)
    PROVE  Passes(w, Hour * (HoursPerDay * DayOf(w) + h))
<1> DEFINE x == Hour * (HoursPerDay * DayOf(w) + h)
<1>1. /\ w \in Nat /\ DayOf(w) \in Nat /\ Shown(w).hour \in Nat /\ h \in Nat
      /\ Shown(w).hour < h /\ h <= HoursPerDay
      /\ HourOf(w) = HoursPerDay * DayOf(w) + Shown(w).hour
  <2>1. w \in Nat
    BY WallDays
  <2>2. /\ DayOf(w) \in Nat /\ Shown(w).hour \in 0..(HoursPerDay - 1)
        /\ HourOf(w) = HoursPerDay * DayOf(w) + Shown(w).hour
    BY <2>1, Clock, Zenon
  <2> QED  BY <2>1, <2>2, Units
<1>2. w < x
  <2>1. HourOf(w) < HoursPerDay * DayOf(w) + h
    BY <1>1, Units
  <2> QED  BY <1>1, <2>1, Units, Begins DEF HourOf
<1>3. x \in Nat /\ x <= Day * (DayOf(w) + 1)
  BY <1>1, Units, Fills DEF Day
<1>4. x \in Walls
  <2>1. Day * (DayOf(w) + 1) \in Walls
    BY WallDays
  <2>2. x \in w..(Day * (DayOf(w) + 1))
    BY <1>1, <1>2, <1>3, Units
  <2> QED  BY <2>1, <2>2, InBetween
<1> HIDE DEF x
<1>5. ASSUME NEW v \in w..(x - 1) PROVE ~Shows(v)
  <2>1. v \in Nat /\ w <= v /\ v < x /\ v \in w..x
    BY <1>1, <1>3
  <2>2. v \in Walls
    BY <1>4, <2>1, InBetween
  <2>3. /\ v \div Day = DayOf(w)
        /\ v \div Hour \in (HoursPerDay * DayOf(w) + Shown(w).hour)..(HoursPerDay * DayOf(w) + h - 1)
    <3>1. w \div Hour = HoursPerDay * DayOf(w) + Shown(w).hour
      BY <1>1 DEF HourOf
    <3>2. v < Hour * (HoursPerDay * DayOf(w) + h)
      BY <2>1 DEF x
    <3> QED  BY <1>1, <2>1, <3>1, <3>2, Units, Between, Zenon DEF Day
  <2>4. DayOf(v) = DayOf(w) /\ HourOf(v) = HoursPerDay * DayOf(w) + Shown(v).hour
    BY <2>1, <2>3, Clock, Zenon DEF DayOf
  <2>5. Shown(v).hour \in Shown(w).hour..(h - 1)
    <3>1. HoursPerDay * DayOf(w) \in Int
      BY <1>1, Units
    <3>2. Shown(v).hour \in 0..(HoursPerDay - 1)
      BY <2>1, Clock, Zenon
    <3>3. HourOf(v) \in (HoursPerDay * DayOf(w) + Shown(w).hour)..(HoursPerDay * DayOf(w) + h - 1)
      BY <2>3 DEF HourOf
    <3> QED  BY <1>1, <2>4, <3>1, <3>2, <3>3, Units
  <2> QED  BY <2>2, <2>4, <2>5
<1>6. \E k \in Int : x = Hour * k
  <2>1. HoursPerDay * DayOf(w) + h \in Int
    BY <1>1, Units
  <2> QED  BY <2>1 DEF x
<1> QED  BY <1>2, <1>4, <1>5, <1>6 DEF Passes, x

(* What remains of the search's day, when the next one is in the calendar. *)
LEMMA Ends ==
    ASSUME NEW w \in Walls, DayOf(w) + 1 \in Numbers
    PROVE  /\ Hour * (HourOf(w) + 1) \in Nat /\ Day * (DayOf(w) + 1) \in Nat
           /\ Hour * (HourOf(w) + 1) <= Day * (DayOf(w) + 1)
           /\ \A x \in w..(Day * (DayOf(w) + 1)) : x \in Walls
<1>1. /\ w \in Nat /\ DayOf(w) \in Nat /\ Shown(w).hour \in 0..(HoursPerDay - 1)
      /\ HourOf(w) = HoursPerDay * DayOf(w) + Shown(w).hour
  <2>1. w \in Nat
    BY WallDays
  <2> QED  BY <2>1, Clock, Zenon
<1>2. PICK g \in 0..HoursPerDay : g = Shown(w).hour + 1
  BY <1>1, Units
<1>3. HourOf(w) + 1 = HoursPerDay * DayOf(w) + g
  <2>1. HoursPerDay * DayOf(w) \in Int
    BY <1>1, Units
  <2> QED  BY <1>1, <1>2, <2>1, Units
<1>4. /\ Hour * (HoursPerDay * DayOf(w) + g) \in Nat
      /\ Hour * (HoursPerDay * DayOf(w) + g) <= Day * (DayOf(w) + 1)
  BY <1>1, Units, Fills DEF Day
<1>5. Day * (DayOf(w) + 1) \in Walls /\ Walls \subseteq Nat
  BY WallDays
<1> QED  BY <1>3, <1>4, <1>5, InBetween

(* The minutes of an hour are followed by the next hour. *)
LEMMA MinuteInHour ==
    ASSUME NEW w \in Nat, NEW m \in (Shown(w).minute + 1)..MinutesPerHour
    PROVE  LET x == SecondsPerMinute * (MinutesPerHour * HourOf(w) + m)
           IN  /\ x \in Nat /\ w < x /\ x <= Hour * (HourOf(w) + 1)
               /\ HourOf(x) = HourOf(w) \/ \E k \in Int : x = Hour * k
<1> DEFINE x == SecondsPerMinute * (MinutesPerHour * HourOf(w) + m)
<1>1. /\ HourOf(w) \in Nat /\ Shown(w).minute \in Nat /\ m \in Nat
      /\ Shown(w).minute < m /\ m <= MinutesPerHour
      /\ MinuteOf(w) = MinutesPerHour * HourOf(w) + Shown(w).minute
  <2>1. /\ HourOf(w) \in Nat /\ Shown(w).minute \in 0..(MinutesPerHour - 1)
        /\ MinuteOf(w) = MinutesPerHour * HourOf(w) + Shown(w).minute
    BY Clock, Zenon
  <2> QED  BY <2>1, Units
<1>2. w < x
  <2>1. MinuteOf(w) < MinutesPerHour * HourOf(w) + m /\ MinutesPerHour * HourOf(w) + m \in Int
    BY <1>1, Units
  <2> QED  BY <2>1, Units, Begins DEF MinuteOf
<1>3. /\ x \in Nat /\ x <= Hour * (HourOf(w) + 1)
      /\ m = MinutesPerHour => x = Hour * (HourOf(w) + 1)
  BY <1>1, Units, Fills DEF Hour
<1>4. CASE m = MinutesPerHour
  <2>1. x = Hour * (HourOf(w) + 1) /\ HourOf(w) + 1 \in Int
    BY <1>1, <1>3, <1>4
  <2>2. \E k \in Int : x = Hour * k
    BY <2>1, Zenon
  <2> QED  BY <1>2, <1>3, <2>2
<1>5. CASE m < MinutesPerHour
  <2>1. m + 1 \in Nat /\ m + 1 <= MinutesPerHour
    BY <1>1, <1>5, Units
  <2>2. x < SecondsPerMinute * (MinutesPerHour * HourOf(w) + (m + 1))
    <3>1. PICK k \in Nat : k = MinutesPerHour * HourOf(w) + m
      BY <1>1, Units
    <3>2. MinutesPerHour * HourOf(w) + (m + 1) = k + 1
      BY <1>1, <3>1, Units
    <3>3. SecondsPerMinute * k < SecondsPerMinute * (k + 1)
      BY Units
    <3> QED  BY <3>1, <3>2, <3>3
  <2>3. w \div SecondsPerMinute = MinutesPerHour * HourOf(w) + Shown(w).minute
    BY <1>1 DEF MinuteOf
  <2> HIDE DEF x
  <2>4. w <= x
    BY <1>2, <1>3
  <2>5. x \div Hour = HourOf(w)
    <3>1. /\ w \in Nat /\ x \in Nat /\ HourOf(w) \in Nat /\ Shown(w).minute \in Nat
          /\ MinutesPerHour \in Nat \ {0} /\ SecondsPerMinute \in Nat \ {0}
      BY <1>1, <1>3, Units
    <3> QED  BY <2>1, <2>2, <2>3, <2>4, <3>1, Between, Zenon DEF Hour
  <2>6. HourOf(x) = HourOf(w)
    BY <2>5 DEF HourOf
  <2> QED  BY <1>2, <1>3, <2>6 DEF x
<1> QED  BY <1>1, <1>4, <1>5, Units

(* The expression does not fire in the hour that is shown, before minute m. *)
QuietMinutes(w, m) ==
    \A v \in Walls :
        DayOf(v) = DayOf(w) /\ Shown(v).hour = Shown(w).hour
        /\ Shown(v).minute \in Shown(w).minute..(m - 1) => ~Shows(v)

LEMMA PassMinute ==
    ASSUME NEW w \in Walls, DayOf(w) + 1 \in Numbers,
           NEW m \in (Shown(w).minute + 1)..MinutesPerHour, QuietMinutes(w, m)
    PROVE  Passes(w, SecondsPerMinute * (MinutesPerHour * HourOf(w) + m))
<1> DEFINE x == SecondsPerMinute * (MinutesPerHour * HourOf(w) + m)
<1>1. /\ w \in Nat /\ HourOf(w) \in Nat /\ Shown(w).minute \in Nat /\ m \in Nat
      /\ Shown(w).minute < m /\ m <= MinutesPerHour
      /\ MinuteOf(w) = MinutesPerHour * HourOf(w) + Shown(w).minute
  <2>1. w \in Nat
    BY WallDays
  <2>2. /\ HourOf(w) \in Nat /\ Shown(w).minute \in 0..(MinutesPerHour - 1)
        /\ MinuteOf(w) = MinutesPerHour * HourOf(w) + Shown(w).minute
    BY <2>1, Clock, Zenon
  <2> QED  BY <2>1, <2>2, Units
<1>2. /\ x \in Nat /\ w < x /\ x <= Hour * (HourOf(w) + 1)
      /\ HourOf(x) = HourOf(w) \/ \E k \in Int : x = Hour * k
  BY <1>1, MinuteInHour, Zenon
<1>3. x \in Walls
  <2>1. x \in w..(Day * (DayOf(w) + 1))
    BY <1>1, <1>2, Ends
  <2> QED  BY <2>1, Ends
<1> HIDE DEF x
<1>4. ASSUME NEW v \in w..(x - 1) PROVE ~Shows(v)
  <2>1. v \in Nat /\ w <= v /\ v < x /\ v \in w..x
    BY <1>1, <1>2
  <2>2. v \in Walls
    BY <1>3, <2>1, InBetween
  <2>3. /\ v \div Hour = HourOf(w)
        /\ v \div SecondsPerMinute \in (MinutesPerHour * HourOf(w) + Shown(w).minute)
                                          ..(MinutesPerHour * HourOf(w) + m - 1)
    <3>1. w \div SecondsPerMinute = MinutesPerHour * HourOf(w) + Shown(w).minute
      BY <1>1 DEF MinuteOf
    <3>2. v < SecondsPerMinute * (MinutesPerHour * HourOf(w) + m)
      BY <2>1 DEF x
    <3> QED  BY <1>1, <2>1, <3>1, <3>2, Units, Between, Zenon DEF Hour
  <2>4. HourOf(v) = HourOf(w) /\ MinuteOf(v) = MinutesPerHour * HourOf(w) + Shown(v).minute
    BY <2>1, <2>3, Clock, Zenon DEF HourOf
  <2>5. Shown(v).minute \in Shown(w).minute..(m - 1)
    <3>1. MinutesPerHour * HourOf(w) \in Int
      BY <1>1, Units
    <3>2. Shown(v).minute \in 0..(MinutesPerHour - 1)
      BY <2>1, Clock, Zenon
    <3>3. MinuteOf(v) \in (MinutesPerHour * HourOf(w) + Shown(w).minute)
                             ..(MinutesPerHour * HourOf(w) + m - 1)
      BY <2>3 DEF MinuteOf
    <3> QED  BY <1>1, <2>4, <3>1, <3>2, <3>3, Units
  <2>6. DayOf(v) = DayOf(w) /\ Shown(v).hour = Shown(w).hour
    BY <1>1, <2>1, <2>4, Same
  <2> QED  BY <2>2, <2>5, <2>6 DEF QuietMinutes
<1> QED  BY <1>2, <1>3, <1>4 DEF Passes, x

(* Nor in the minute that is shown, before second s. *)
QuietSeconds(w, s) ==
    \A v \in Walls :
        DayOf(v) = DayOf(w) /\ Shown(v).hour = Shown(w).hour
        /\ Shown(v).minute = Shown(w).minute
        /\ Shown(v).second \in Shown(w).second..(s - 1) => ~Shows(v)

LEMMA PassSecond ==
    ASSUME NEW w \in Walls, DayOf(w) + 1 \in Numbers,
           NEW s \in (Shown(w).second + 1)..SecondsPerMinute, QuietSeconds(w, s)
    PROVE  Passes(w, SecondsPerMinute * MinuteOf(w) + s)
<1> DEFINE x == SecondsPerMinute * MinuteOf(w) + s
<1>1. /\ w \in Nat /\ MinuteOf(w) \in Nat /\ Shown(w).second \in Nat /\ s \in Nat
      /\ Shown(w).second < s /\ s <= SecondsPerMinute
      /\ w = SecondsPerMinute * MinuteOf(w) + Shown(w).second
      /\ SecondsPerMinute * MinuteOf(w) \in Nat
  <2>1. w \in Nat
    BY WallDays
  <2>2. /\ MinuteOf(w) \in Nat /\ Shown(w).second \in 0..(SecondsPerMinute - 1)
        /\ w = SecondsPerMinute * MinuteOf(w) + Shown(w).second
    BY <2>1, Clock, Zenon
  <2> QED  BY <2>1, <2>2, Units
<1>2. x \in Nat /\ w < x
  BY <1>1
<1>3. /\ HourOf(w) \in Nat
      /\ MinuteOf(w) = MinutesPerHour * HourOf(w) + Shown(w).minute
      /\ Shown(w).minute \in 0..(MinutesPerHour - 1)
  BY <1>1, Clock, Zenon
<1>4. PICK m \in (Shown(w).minute + 1)..MinutesPerHour : m = Shown(w).minute + 1
  BY <1>3, Units
<1>5. PICK y \in Nat : y = SecondsPerMinute * (MinuteOf(w) + 1)
  BY <1>1, Units
<1>6. y = SecondsPerMinute * MinuteOf(w) + SecondsPerMinute
  BY <1>1, <1>5, Units
<1>7. y = SecondsPerMinute * (MinutesPerHour * HourOf(w) + m)
  <2>1. MinutesPerHour * HourOf(w) + m = MinuteOf(w) + 1
    <3>1. MinutesPerHour * HourOf(w) \in Int
      BY <1>3, Units
    <3> QED  BY <1>3, <1>4, <3>1
  <2> QED  BY <1>5, <2>1
<1>8. /\ y <= Hour * (HourOf(w) + 1)
      /\ HourOf(y) = HourOf(w) \/ \E k \in Int : y = Hour * k
  BY <1>1, <1>7, MinuteInHour, Zenon
<1>9. x \in Walls
  <2>1. x <= y
    BY <1>1, <1>6, Units
  <2>2. x \in w..(Day * (DayOf(w) + 1))
    BY <1>1, <1>2, <1>8, <2>1, Ends
  <2> QED  BY <2>2, Ends
<1> HIDE DEF x
<1>10. ASSUME NEW v \in Nat, w <= v, v < y PROVE MinuteOf(v) = MinuteOf(w)
  <2>1. MinuteOf(v) \in Int /\ MinuteOf(w) + 1 \in Int /\ v \in Int
    <3>1. MinuteOf(v) \in Nat
      BY Clock, Zenon
    <3> QED  BY <1>1, <3>1
  <2>2. SecondsPerMinute * MinuteOf(w) <= v
    BY <1>1, <1>10
  <2>3. MinuteOf(w) <= MinuteOf(v)
    BY <1>1, <2>1, <2>2, Units, Begins DEF MinuteOf
  <2>4. MinuteOf(v) < MinuteOf(w) + 1
    BY <1>1, <1>5, <1>10, <2>1, Units, Begins DEF MinuteOf
  <2> QED  BY <1>1, <2>1, <2>3, <2>4
<1>11. ASSUME NEW v \in w..(x - 1) PROVE ~Shows(v)
  <2>1. v \in Nat /\ w <= v /\ v < x /\ v \in w..x
    BY <1>1, <1>2
  <2>2. v \in Walls
    BY <1>9, <2>1, InBetween
  <2>3. v < SecondsPerMinute * MinuteOf(w) + s
    BY <2>1 DEF x
  <2>4. MinuteOf(v) = MinuteOf(w)
    BY <1>1, <1>6, <1>10, <2>1, <2>3, Units
  <2>5. /\ Shown(v).second \in 0..(SecondsPerMinute - 1)
        /\ v = SecondsPerMinute * MinuteOf(w) + Shown(v).second
    BY <2>1, <2>4, Clock, Zenon
  <2>6. Shown(v).second \in Shown(w).second..(s - 1)
    BY <1>1, <2>1, <2>3, <2>5, Units
  <2>7. /\ DayOf(v) = DayOf(w) /\ Shown(v).hour = Shown(w).hour
        /\ Shown(v).minute = Shown(w).minute
    BY <1>1, <2>1, <2>4, Same
  <2> QED  BY <2>2, <2>6, <2>7 DEF QuietSeconds
<1>12. HourOf(x) = HourOf(w) \/ \E k \in Int : x = Hour * k
  <2>1. CASE s = SecondsPerMinute
    <3>1. x = y
      BY <1>6, <2>1 DEF x
    <3> QED  BY <1>8, <3>1
  <2>2. CASE s < SecondsPerMinute
    <3>1. w <= x /\ x < y
      BY <1>1, <1>2, <1>6, <2>2, Units DEF x
    <3>2. MinuteOf(x) = MinuteOf(w)
      BY <1>2, <1>10, <3>1
    <3> QED  BY <1>1, <1>2, <3>2, Same
  <2> QED  BY <1>1, <2>1, <2>2, Units
<1> QED  BY <1>2, <1>9, <1>11, <1>12 DEF Passes, x

(* time.Date of the date that is shown. *)
DateAt(z, w, h, mi, s) == Date(z, Shown(w).year, Shown(w).month, Shown(w).day, h, mi, s)

LEMMA DateHere ==
    ASSUME NEW z, NEW w \in Walls, NEW h \in Nat, NEW mi \in Nat, NEW s \in Nat, NEW x,
           x = Day * DayOf(w) + Hour * h + SecondsPerMinute * mi + s
    PROVE  DateAt(z, w, h, mi, s) = Instant(z, x)
<1>1. /\ DayOf(w) \in Int /\ Day \in Int /\ Hour \in Int /\ SecondsPerMinute \in Int
      /\ FirstDay(Shown(w).year, Shown(w).month) + Shown(w).day - 1 = DayOf(w)
  BY WallDays, Units, ShownDate DEF Numbers
<1>2. PICK n \in Int, D \in Int, H \in Int, M \in Int :
         n = DayOf(w) /\ D = Day /\ H = Hour /\ M = SecondsPerMinute
  BY <1>1, Zenon
<1>3. n * D + h * H + mi * M + s = D * n + H * h + M * mi + s
  <2>1. n * D = D * n /\ h * H = H * h /\ mi * M = M * mi
    OBVIOUS
  <2> QED  BY <2>1
<1>4. DayOf(w) * Day + h * Hour + mi * SecondsPerMinute + s = x
  BY <1>2, <1>3, Zenon
<1> QED  BY <1>1, <1>4, Zenon DEF DateAt, Date

LEMMA DateNextDay ==
    ASSUME NEW z, NEW w \in Walls
    PROVE  Date(z, Shown(w).year, Shown(w).month, Shown(w).day + 1, 0, 0, 0)
              = Instant(z, Hour * (HoursPerDay * DayOf(w) + HoursPerDay))
<1>1. /\ DayOf(w) \in Nat /\ Day \in Int /\ Hour \in Int /\ SecondsPerMinute \in Int
      /\ FirstDay(Shown(w).year, Shown(w).month) + Shown(w).day - 1 = DayOf(w)
  <2>1. FirstDay(Shown(w).year, Shown(w).month) + Shown(w).day - 1 = DayOf(w)
    BY ShownDate, Zenon
  <2>2. DayOf(w) \in Nat
    BY WallDays DEF Numbers
  <2> QED  BY <2>1, <2>2, Units
<1>2. Shown(w).day \in Int /\ FirstDay(Shown(w).year, Shown(w).month) \in Int
  BY ShownDate, FirstDays, Months DEF Numbers
<1>3. FirstDay(Shown(w).year, Shown(w).month) + (Shown(w).day + 1) - 1 = DayOf(w) + 1
  BY <1>1, <1>2
<1>4. Hour * (HoursPerDay * DayOf(w) + HoursPerDay) = Day * (DayOf(w) + 1)
  <2>1. HoursPerDay \in 0..HoursPerDay
    BY Units
  <2> QED  BY <1>1, <2>1, Units, Fills DEF Day
<1>5. (DayOf(w) + 1) * Day + 0 * Hour + 0 * SecondsPerMinute + 0 = Day * (DayOf(w) + 1)
  <2>1. PICK n \in Int, D \in Int, H \in Int, M \in Int :
           n = DayOf(w) + 1 /\ D = Day /\ H = Hour /\ M = SecondsPerMinute
    BY <1>1
  <2>2. n * D + 0 * H + 0 * M + 0 = D * n
    OBVIOUS
  <2> QED  BY <2>1, <2>2, Zenon
<1> QED  BY <1>3, <1>4, <1>5, Zenon DEF Date

(* The same in hours, in minutes and in seconds of the day that is shown. *)
LEMMA DateHours ==
    ASSUME NEW z, NEW w \in Walls, NEW h \in 0..HoursPerDay
    PROVE  DateAt(z, w, h, 0, 0) = Instant(z, Hour * (HoursPerDay * DayOf(w) + h))
<1>1. DayOf(w) \in Nat /\ h \in Nat /\ 0 \in Nat
  BY WallDays, Units DEF Numbers
<1>2. Hour * (HoursPerDay * DayOf(w) + h) = Day * DayOf(w) + Hour * h
  BY <1>1, Units, Fills DEF Day
<1>3. Day * DayOf(w) + Hour * h = Day * DayOf(w) + Hour * h + SecondsPerMinute * 0 + 0
  <2>1. Day * DayOf(w) \in Int /\ Hour * h \in Int /\ SecondsPerMinute * 0 = 0
    BY <1>1, Units
  <2> QED  BY <2>1
<1>4. Hour * (HoursPerDay * DayOf(w) + h)
         = Day * DayOf(w) + Hour * h + SecondsPerMinute * 0 + 0
  BY <1>2, <1>3, Zenon
<1> QED  BY <1>1, <1>4, DateHere

LEMMA HourBegins ==
    ASSUME NEW w \in Walls
    PROVE  /\ HourOf(w) \in Nat /\ Shown(w).hour \in Nat
           /\ Hour * HourOf(w) = Day * DayOf(w) + Hour * Shown(w).hour
           /\ Hour * (HourOf(w) + 1) = Day * DayOf(w) + Hour * (Shown(w).hour + 1)
<1>1. w \in Nat
  BY WallDays
<1>2. /\ DayOf(w) \in Nat /\ HourOf(w) \in Nat
      /\ Shown(w).hour \in 0..(HoursPerDay - 1)
      /\ HourOf(w) = HoursPerDay * DayOf(w) + Shown(w).hour
  BY <1>1, Clock, Zenon
<1>3. Shown(w).hour \in 0..HoursPerDay /\ Shown(w).hour \in Nat
  BY <1>2, Units
<1>4. Hour * HourOf(w) = Day * DayOf(w) + Hour * Shown(w).hour
  BY <1>2, <1>3, Units, Fills DEF Day
<1>5. Hour * (HourOf(w) + 1) = Day * DayOf(w) + Hour * (Shown(w).hour + 1)
  <2>1. /\ Hour * (HourOf(w) + 1) = Hour * HourOf(w) + Hour
        /\ Hour * (Shown(w).hour + 1) = Hour * Shown(w).hour + Hour
        /\ Hour * HourOf(w) \in Int /\ Day * DayOf(w) \in Int /\ Hour * Shown(w).hour \in Int
    BY <1>2, <1>3, Units
  <2> QED  BY <1>4, <2>1, Units
<1> QED  BY <1>2, <1>3, <1>4, <1>5

LEMMA DateMinutes ==
    ASSUME NEW z, NEW w \in Walls
    PROVE  /\ \A m \in 0..MinutesPerHour :
                 DateAt(z, w, Shown(w).hour, m, 0)
                    = Instant(z, SecondsPerMinute * (MinutesPerHour * HourOf(w) + m))
           /\ DateAt(z, w, Shown(w).hour + 1, 0, 0)
                 = Instant(z, SecondsPerMinute * (MinutesPerHour * HourOf(w) + MinutesPerHour))
<1>1. /\ DayOf(w) \in Nat /\ HourOf(w) \in Nat /\ 0 \in Nat
      /\ Shown(w).hour \in Nat /\ Shown(w).hour + 1 \in Nat
      /\ MinutesPerHour \in 0..MinutesPerHour
  BY WallDays, HourBegins, Units DEF Numbers
<1>2. ASSUME NEW m \in 0..MinutesPerHour
      PROVE  DateAt(z, w, Shown(w).hour, m, 0)
                = Instant(z, SecondsPerMinute * (MinutesPerHour * HourOf(w) + m))
  <2>1. m \in Nat
    BY Units
  <2>2. SecondsPerMinute * (MinutesPerHour * HourOf(w) + m)
           = Hour * HourOf(w) + SecondsPerMinute * m
    BY <1>1, Units, Fills DEF Hour
  <2>3. Hour * HourOf(w) + SecondsPerMinute * m
           = Day * DayOf(w) + Hour * Shown(w).hour + SecondsPerMinute * m + 0
    <3>1. Hour * HourOf(w) \in Int /\ SecondsPerMinute * m \in Int
      BY <1>1, <2>1, Units
    <3>2. Hour * HourOf(w) + SecondsPerMinute * m
             = Hour * HourOf(w) + SecondsPerMinute * m + 0
      BY <3>1
    <3> QED  BY <3>2, HourBegins, Zenon
  <2>4. SecondsPerMinute * (MinutesPerHour * HourOf(w) + m)
           = Day * DayOf(w) + Hour * Shown(w).hour + SecondsPerMinute * m + 0
    BY <2>2, <2>3, Zenon
  <2> QED  BY <1>1, <2>1, <2>4, DateHere
<1>3. SecondsPerMinute * (MinutesPerHour * HourOf(w) + MinutesPerHour)
         = Day * DayOf(w) + Hour * (Shown(w).hour + 1) + SecondsPerMinute * 0 + 0
  <2>1. SecondsPerMinute * (MinutesPerHour * HourOf(w) + MinutesPerHour)
           = Hour * (HourOf(w) + 1)
    BY <1>1, Units, Fills DEF Hour
  <2>2. Hour * (HourOf(w) + 1) = Hour * (HourOf(w) + 1) + SecondsPerMinute * 0 + 0
    <3>1. Hour * (HourOf(w) + 1) \in Int /\ SecondsPerMinute * 0 = 0
      BY <1>1, Units
    <3> QED  BY <3>1
  <2>3. Hour * (HourOf(w) + 1) = Day * DayOf(w) + Hour * (Shown(w).hour + 1)
    BY HourBegins
  <2> QED  BY <2>1, <2>2, <2>3, Zenon
<1>4. DateAt(z, w, Shown(w).hour + 1, 0, 0)
         = Instant(z, SecondsPerMinute * (MinutesPerHour * HourOf(w) + MinutesPerHour))
  BY <1>1, <1>3, DateHere
<1> QED  BY <1>2, <1>4

LEMMA DateSeconds ==
    ASSUME NEW z, NEW w \in Walls
    PROVE  /\ \A s \in 0..SecondsPerMinute :
                 DateAt(z, w, Shown(w).hour, Shown(w).minute, s)
                    = Instant(z, SecondsPerMinute * MinuteOf(w) + s)
           /\ DateAt(z, w, Shown(w).hour, Shown(w).minute + 1, 0)
                 = Instant(z, SecondsPerMinute * MinuteOf(w) + SecondsPerMinute)
<1>1. w \in Nat /\ HourOf(w) \in Nat /\ Shown(w).hour \in Nat /\ DayOf(w) \in Nat
  BY WallDays, HourBegins DEF Numbers
<1>2. /\ Shown(w).minute \in 0..(MinutesPerHour - 1)
      /\ MinuteOf(w) = MinutesPerHour * HourOf(w) + Shown(w).minute
      /\ MinuteOf(w) \in Nat
  BY <1>1, Clock, Zenon
<1>3. Shown(w).minute \in 0..MinutesPerHour /\ Shown(w).minute \in Nat
  BY <1>2, Units
<1>4. SecondsPerMinute * MinuteOf(w) = Hour * HourOf(w) + SecondsPerMinute * Shown(w).minute
  BY <1>1, <1>2, <1>3, Units, Fills DEF Hour
<1>5. SecondsPerMinute * MinuteOf(w)
         = Day * DayOf(w) + Hour * Shown(w).hour + SecondsPerMinute * Shown(w).minute
  BY <1>4, HourBegins, Zenon
<1>6. ASSUME NEW s \in 0..SecondsPerMinute
      PROVE  DateAt(z, w, Shown(w).hour, Shown(w).minute, s)
                = Instant(z, SecondsPerMinute * MinuteOf(w) + s)
  <2>1. s \in Nat
    BY Units
  <2>2. SecondsPerMinute * MinuteOf(w) + s
           = Day * DayOf(w) + Hour * Shown(w).hour + SecondsPerMinute * Shown(w).minute + s
    BY <1>5
  <2> QED  BY <1>1, <1>3, <2>1, <2>2, DateHere
<1>7. DateAt(z, w, Shown(w).hour, Shown(w).minute + 1, 0)
         = Instant(z, SecondsPerMinute * MinuteOf(w) + SecondsPerMinute)
  <2>1. Shown(w).minute + 1 \in Nat /\ 0 \in Nat
    BY <1>3
  <2>2. /\ SecondsPerMinute * (Shown(w).minute + 1)
              = SecondsPerMinute * Shown(w).minute + SecondsPerMinute
        /\ SecondsPerMinute * Shown(w).minute \in Int
        /\ Day * DayOf(w) + Hour * Shown(w).hour \in Int
        /\ SecondsPerMinute \in Int
    BY <1>1, <1>3, Units
  <2>3. SecondsPerMinute * MinuteOf(w) + SecondsPerMinute
           = Day * DayOf(w) + Hour * Shown(w).hour
             + SecondsPerMinute * (Shown(w).minute + 1) + 0
    BY <1>5, <2>2
  <2> QED  BY <1>1, <2>1, <2>3, DateHere
<1> QED  BY <1>6, <1>7

-----------------------------------------------------------------------------
(* Zones: the instant of what the wall is to show. *)

LEMMA ZoneTypes ==
    ASSUME NEW z \in Zones \cup {UTC}
    PROVE  z.before \in Int /\ z.after \in Int /\ z.at \in Nat
<1>1. CASE z = UTC
  BY <1>1 DEF UTC
<1>2. CASE z \in Zones
  BY <1>2, CronAssumption
<1> QED  BY <1>1, <1>2

(* An instant that is to the right of c stays in the calendar. *)
LEMMA Stays ==
    ASSUME NEW z \in Zones \cup {UTC}, NEW c \in Nat, NEW w \in Walls,
           Wall(z, c) < w
    PROVE  Instant(z, w) \in Nat /\ Wall(z, Instant(z, w)) \in Walls
<1>1. PICK b \in Int, a \in Int, A \in Nat, N \in Int :
         /\ b = z.before /\ a = z.after /\ A = z.at
         /\ Walls = 0..(N - 1)
  <2>1. Cardinality(Dates) * Day \in Int
    BY DatesFinite, Units
  <2> QED  BY <2>1, ZoneTypes, Zenon DEF Walls
<1> DEFINE Off(t) == IF t < A THEN b ELSE a
<1>2. /\ Wall(z, c) = c + Off(c)
      /\ Instant(z, w) = w - Off(w - Off(w))
      /\ Wall(z, Instant(z, w)) = Instant(z, w) + Off(Instant(z, w))
  BY <1>1, Zenon DEF Wall, Instant, Offset
<1>3. b # a => \A jump \in {b - a, a - b} :
                  A >= jump /\ A + b >= jump /\ A + a + jump \in Walls
  BY <1>1, LongEnough
<1>4. b # a => /\ A >= b - a /\ A + b >= b - a /\ A + a + (b - a) \in Walls
               /\ A >= a - b /\ A + b >= a - b /\ A + a + (a - b) \in Walls
  BY <1>3
<1>5. c + Off(c) < w /\ w \in Int /\ w >= 0 /\ w <= N - 1
  BY <1>1, <1>2
<1>6. /\ w - Off(w - Off(w)) >= 0
      /\ w - Off(w - Off(w)) + Off(w - Off(w - Off(w))) \in 0..(N - 1)
  <2>1. b # a => /\ A >= b - a /\ A + b >= b - a /\ A + b <= N - 1
                 /\ A >= a - b /\ A + b >= a - b /\ A + a + (a - b) <= N - 1
    <3>1. \A v \in Walls : v <= N - 1
      BY <1>1
    <3>2. A + a + (b - a) = A + b
      OBVIOUS
    <3> QED  BY <1>4, <3>1, <3>2
  <2>2. CASE b = a
    BY <1>5, <2>2
  <2>3. CASE b < a
    <3>1. CASE w < A + b
      BY <1>5, <2>1, <2>3, <3>1
    <3>2. CASE w >= A + a
      BY <1>5, <2>1, <2>3, <3>2
    <3>3. CASE A + b <= w /\ w < A + a
      BY <1>5, <2>1, <2>3, <3>3
    <3> QED  BY <1>5, <3>1, <3>2, <3>3
  <2>4. CASE b > a
    BY <1>5, <2>1, <2>4
  <2> QED  BY <2>2, <2>3, <2>4
<1>7. w - Off(w - Off(w)) \in Int
  BY <1>5
<1> QED  BY <1>1, <1>2, <1>6, <1>7

(* The only thing left out between c and the instant of w is what is       *)
(* between them on the wall, where clocks are put forward at w or not at   *)
(* all between them.                                                       *)
LEMMA Lands ==
    ASSUME NEW z \in Zones \cup {UTC}, NEW c \in Int, NEW w \in Int,
           z.before <= z.after, Wall(z, c) < w,
           z.at + z.before <= w /\ w < z.at + z.after =>
               w = z.at + z.before /\ z.before >= 0
    PROVE  /\ Instant(z, w) \in Int /\ c < Instant(z, w)
           /\ \A t \in c..(Instant(z, w) - 1) :
                 Wall(z, t) \in Int /\ Wall(z, c) <= Wall(z, t) /\ Wall(z, t) < w
<1>1. PICK b \in Int, a \in Int, A \in Nat : b = z.before /\ a = z.after /\ A = z.at
  BY ZoneTypes, Zenon
<1> DEFINE Off(t) == IF t < A THEN b ELSE a
<1>2. /\ Instant(z, w) = w - Off(w - Off(w))
      /\ \A t : Wall(z, t) = t + Off(t)
  BY <1>1, Zenon DEF Wall, Instant, Offset
<1>3. b <= a /\ c + Off(c) < w /\ (A + b <= w /\ w < A + a => w = A + b /\ b >= 0)
  BY <1>1, <1>2
<1>4. PICK i \in Int : i = w - Off(w - Off(w))
  <2>1. w - Off(w - Off(w)) \in Int
    OBVIOUS
  <2> QED  BY <2>1, Zenon
<1>5. c < i
  BY <1>3, <1>4
<1>6. ASSUME NEW t \in c..(i - 1) PROVE t + Off(t) \in Int /\ c + Off(c) <= t + Off(t) /\ t + Off(t) < w
  BY <1>3, <1>4, <1>6
<1> QED  BY <1>2, <1>4, <1>5, <1>6

(* Once the wall shows w the instant of w has come. *)
LEMMA Comes ==
    ASSUME NEW z \in Zones \cup {UTC}, NEW c \in Int, NEW w \in Int,
           z.before <= z.after, w <= Wall(z, c),
           z.at + z.before <= w /\ w < z.at + z.after =>
               w = z.at + z.before /\ z.before >= 0
    PROVE  Instant(z, w) \in Int /\ Instant(z, w) <= c
<1>1. PICK b \in Int, a \in Int, A \in Nat : b = z.before /\ a = z.after /\ A = z.at
  BY ZoneTypes, Zenon
<1> DEFINE Off(t) == IF t < A THEN b ELSE a
<1>2. Instant(z, w) = w - Off(w - Off(w)) /\ Wall(z, c) = c + Off(c)
  BY <1>1, Zenon DEF Wall, Instant, Offset
<1>3. b <= a /\ w <= c + Off(c) /\ (A + b <= w /\ w < A + a => w = A + b /\ b >= 0)
  BY <1>1, <1>2
<1>4. w - Off(w - Off(w)) \in Int /\ w - Off(w - Off(w)) <= c
  BY <1>3
<1> QED  BY <1>2, <1>4

-----------------------------------------------------------------------------
(* The search in its calendar *)

InCalendar ==
    /\ sched \in Schedules /\ zone \in Zones \cup {UTC} /\ from \in Froms
    /\ now \in Nat /\ since \in Nat
    /\ \/ now = 0 /\ since = from
       \/ zone = UTC /\ (\E n \in Nows : now = from + n) /\ (since = from \/ since < now)
    /\ pc \in {"search", "done", "none"}
    /\ IF pc = "none" THEN candidate = 0 /\ now = 0
       ELSE candidate \in Nat /\ Wall(zone, candidate) \in Walls

(* The beginning of the last year that a search may start before. *)
LEMMA LastStart ==
    /\ LastYear - Years \in 0..LastYear /\ 1 \in Month /\ 0 \in Walls
    /\ FirstDay(LastYear - Years, 1) * Day = Day * FirstDay(LastYear - Years, 1)
    /\ FirstDay(LastYear - Years, 1) * Day \in Walls
<1>1. LastYear - Years \in 0..LastYear /\ 1 \in Month
  BY CronAssumption, Months
<1>2. FirstDay(LastYear - Years, 1) \in Numbers
  BY <1>1, FirstDays
<1>3. PICK n \in Nat, D \in Nat : n = FirstDay(LastYear - Years, 1) /\ D = Day
  BY <1>2, Units DEF Numbers
<1>4. n * D = D * n
  OBVIOUS
<1>5. 0 \in Walls
  <2>1. 0 \in Numbers /\ Day * 0 = 0
    BY <1>2, Units, DatesFinite DEF Numbers
  <2> QED  BY <2>1, WallDays
<1> QED  BY <1>1, <1>2, <1>3, <1>4, <1>5, WallDays, Zenon

(* tick's now, and the time before it, is in the calendar. *)
LEMMA TickTimes ==
    ASSUME InCalendar, now # 0, NEW t \in 0..now
    PROVE  /\ zone = UTC /\ Wall(zone, t) = t /\ t \in Walls
           /\ t < FirstDay(LastYear - Years, 1) * Day
<1>1. PICK f \in Froms, n \in Nows : zone = UTC /\ now = f + n /\ now \in Nat
  BY DEF InCalendar
<1>2. UTC \in Zones \cup {UTC} /\ n \in Nows \cup {0}
  OBVIOUS
<1>3. Wall(UTC, f + n) < FirstDay(LastYear - Years, 1) * Day
  BY <1>2, LongEnough
<1>4. Wall(UTC, now) = now /\ Wall(UTC, t) = t
  BY <1>1 DEF Wall, Offset, UTC
<1>5. PICK e \in Walls : e = FirstDay(LastYear - Years, 1) * Day /\ e \in Nat
  BY LastStart, WallDays
<1>6. t \in 0..e /\ t < e
  BY <1>1, <1>3, <1>4, <1>5
<1> QED  BY <1>1, <1>4, <1>5, <1>6, LastStart, InBetween

(* Years of searching are left from where the search began. *)
LEMMA YearsLeft ==
    ASSUME InCalendar
    PROVE  /\ Wall(zone, since) \in Walls
           /\ Shown(Wall(zone, since)).year < LastYear - Years
<1>1. LastYear - Years \in 0..LastYear /\ 1 \in Month
  BY LastStart
<1>2. PICK e \in Walls : /\ e = FirstDay(LastYear - Years, 1) * Day
                         /\ e = Day * FirstDay(LastYear - Years, 1)
  BY LastStart
<1>3. Wall(zone, since) \in Walls /\ Wall(zone, since) < e
  <2>1. CASE since = from
    <3>1. zone \in Zones \cup {UTC} /\ from \in Froms
      BY DEF InCalendar
    <3>2. from + 0 = from /\ 0 \in Nows \cup {0}
      BY <3>1, CronAssumption
    <3>3. Wall(zone, from) < FirstDay(LastYear - Years, 1) * Day
      BY <3>1, <3>2, LongEnough
    <3>4. Wall(zone, from) \in Walls
      BY <3>1, LongEnough
    <3> QED  BY <1>2, <2>1, <3>3, <3>4
  <2>2. CASE since # from
    <3>1. since \in 0..now /\ now # 0
      BY <2>2 DEF InCalendar
    <3> QED  BY <1>2, <3>1, TickTimes
  <2> QED  BY <2>1, <2>2
<1>4. \/ Shown(Wall(zone, since)).year < LastYear - Years
      \/ Shown(Wall(zone, since)).month < 1
  <2>1. Wall(zone, since) < Day * FirstDay(LastYear - Years, 1)
    BY <1>2, <1>3
  <2> QED  BY <1>1, <1>3, <2>1, MonthBegins, Zenon
<1>5. Shown(Wall(zone, since)).month \in Month
  BY <1>3, ShownDate
<1>6. ~(Shown(Wall(zone, since)).month < 1)
  BY <1>5, Months
<1> QED  BY <1>3, <1>4, <1>6, Zenon

(* While it goes on, the next day is still in the calendar. *)
LEMMA Room ==
    ASSUME InCalendar, Searching
    PROVE  LET w == Wall(zone, candidate)
           IN  /\ w \in Walls /\ Here = Shown(w)
               /\ Shown(w).year + 1 <= LastYear
               /\ DayOf(w) + 1 \in Numbers
<1> DEFINE w == Wall(zone, candidate)
<1>1. w \in Walls
  BY DEF InCalendar, Searching
<1>2. Here = Shown(w)
  BY Zenon DEF Here, Local
<1>3. PICK y \in Int, a \in Int :
         /\ y = Shown(w).year /\ a = Shown(Wall(zone, since)).year
         /\ y <= a + Years /\ a < LastYear - Years
  <2>1. Shown(w).year <= Shown(Wall(zone, since)).year + Years
    BY <1>2 DEF Searching, Local
  <2>2. Shown(w).year \in Int /\ Shown(Wall(zone, since)).year \in Int
    BY <1>1, YearsLeft, ShownDate
  <2> QED  BY <2>1, <2>2, YearsLeft, Zenon
<1>4. Years \in Int /\ LastYear \in Nat
  BY CronAssumption
<1>5. y + 1 <= LastYear
  BY <1>3, <1>4
<1> HIDE DEF w
<1>6. DayOf(w) + 1 \in Numbers
  <2>1. LastYear \in 0..LastYear /\ 1 \in Month
    BY <1>4, Months
  <2>2. PICK n \in Numbers : n = FirstDay(LastYear, 1) /\ n \in Int
    BY <2>1, FirstDays DEF Numbers
  <2>3. w < Day * n
    BY <1>1, <1>3, <1>4, <1>5, <2>1, <2>2, MonthBegins
  <2>4. w \in Int /\ DayOf(w) \in Numbers
    BY <1>1, WallDays
  <2>5. DayOf(w) < n
    BY <2>2, <2>3, <2>4, Units, Begins DEF DayOf
  <2> QED  BY <2>2, <2>4, <2>5, DatesFinite DEF Numbers
<1> QED  BY <1>1, <1>2, <1>3, <1>5, <1>6 DEF w

(* Steps that move the candidate. *)
Moving == SetMonth \/ SetDay \/ SetHour \/ SetMinute \/ SetSecond

Passed == \E x : Passes(Wall(zone, candidate), x) /\ MoveTo(Instant(zone, x))

LEMMA MonthPasses ==
    ASSUME InCalendar, SetMonth PROVE Passed
<1> DEFINE w == Wall(zone, candidate)
           carry == IF Wrapped(sched.months, Here.month) THEN 1 ELSE 0
           next == NextOrFirst(sched.months, Here.month)
           x == Day * FirstDay(Here.year + carry, next)
<1>1. Searching /\ ~MonthFits /\ MoveTo(Date(zone, Here.year + carry, next, 1, 0, 0, 0))
  BY Zenon DEF SetMonth
<1>2. /\ w \in Walls /\ Here = Shown(w) /\ Shown(w).year + 1 <= LastYear
      /\ sched \in Schedules
  BY <1>1, Room DEF InCalendar
<1>3. Here.month \notin sched.months
  BY <1>1 DEF MonthFits
<1>4. carry \in {0, 1} /\ (carry = 1 <=> Wrapped(sched.months, Here.month))
  OBVIOUS
<1> HIDE DEF carry, w
<1>5. Here.year + carry <= LastYear /\ Here.year + carry \in 0..LastYear
  <2>1. Here.year \in 0..LastYear /\ LastYear \in Nat
    BY <1>2, ShownDate, Months
  <2> QED  BY <1>2, <1>4, <2>1
<1>6. Passes(w, x)
  BY <1>2, <1>3, <1>4, <1>5, PassMonth
<1>7. Date(zone, Here.year + carry, next, 1, 0, 0, 0) = Instant(zone, x)
  <2>1. next \in Month
    <3>1. sched.months \in SUBSET Month /\ sched.months # {}
      BY <1>2, ScheduleFacts
    <3>2. Here.month \in Month /\ Month \subseteq Nat
      BY <1>2, ShownDate, Months
    <3>3. sched.months \in SUBSET Nat /\ Here.month \in Nat
      BY <3>1, <3>2
    <3>4. next \in sched.months
      BY <1>3, <3>1, <3>3, NextValue
    <3> QED  BY <3>1, <3>4
  <2>2. FirstDay(Here.year + carry, next) \in Nat
    BY <1>5, <2>1, FirstDays DEF Numbers
  <2>3. PICK f \in Nat, D \in Nat, H \in Nat, M \in Nat :
           /\ f = FirstDay(Here.year + carry, next)
           /\ D = Day /\ H = Hour /\ M = SecondsPerMinute
    BY <2>2, Units
  <2>4. (f + 1 - 1) * D + 0 * H + 0 * M + 0 = D * f
    <3>1. f + 1 - 1 = f /\ f * D = D * f /\ 0 * H = 0 /\ 0 * M = 0 /\ D * f \in Int
      OBVIOUS
    <3> QED  BY <3>1
  <2> QED  BY <2>3, <2>4, Zenon DEF Date
<1>8. Passes(w, x) /\ MoveTo(Instant(zone, x))
  BY <1>1, <1>6, <1>7, Zenon
<1> QED  BY <1>8, Zenon DEF Passed, w

LEMMA DayPasses ==
    ASSUME InCalendar, SetDay PROVE Passed
<1> DEFINE w == Wall(zone, candidate)
           x == Hour * (HoursPerDay * DayOf(w) + HoursPerDay)
<1>1. /\ Searching /\ MonthFits /\ ~DayFits
      /\ MoveTo(Date(zone, Here.year, Here.month, Here.day + 1, 0, 0, 0))
  BY Zenon DEF SetDay
<1>2. w \in Walls /\ Here = Shown(w) /\ DayOf(w) + 1 \in Numbers
  BY <1>1, Room
<1> HIDE DEF w
<1>3. Shown(w).day \notin sched.days \/ Shown(w).dow \notin sched.dows
  BY <1>1, <1>2 DEF DayFits
<1>4. \A v \in Walls : DayOf(v) = DayOf(w) => ~Shows(v)
  BY <1>3, SameDay DEF Shows
<1>5. HoursPerDay \in (Shown(w).hour + 1)..HoursPerDay
  <2>1. Shown(w).hour \in 0..(HoursPerDay - 1)
    BY <1>2, WallDays, Clock, Zenon
  <2> QED  BY <2>1, Units
<1>6. Passes(w, x)
  BY <1>2, <1>4, <1>5, PassHour
<1>7. Passes(w, x) /\ MoveTo(Instant(zone, x))
  BY <1>1, <1>2, <1>6, DateNextDay
<1> QED  BY <1>7, Zenon DEF Passed, w

LEMMA HourPasses ==
    ASSUME InCalendar, SetHour PROVE Passed
<1> DEFINE w == Wall(zone, candidate)
           X(h) == Hour * (HoursPerDay * DayOf(w) + h)
           next == NextOrFirst(sched.hours, Here.hour)
<1>1. /\ Searching /\ DayFits /\ ~HourFits
      /\ \/ /\ Wrapped(sched.hours, Here.hour)
            /\ MoveTo(Date(zone, Here.year, Here.month, Here.day + 1, 0, 0, 0))
         \/ /\ ~Wrapped(sched.hours, Here.hour)
            /\ MoveTo(Date(zone, Here.year, Here.month, Here.day, next, 0, 0))
  BY Zenon DEF SetHour
<1>2. w \in Walls /\ Here = Shown(w) /\ DayOf(w) + 1 \in Numbers /\ sched \in Schedules
  BY <1>1, Room DEF InCalendar
<1> HIDE DEF w
<1>3. /\ Shown(w).hour \in 0..(HoursPerDay - 1) /\ Shown(w).hour \notin sched.hours
      /\ sched.hours \in SUBSET (0..(HoursPerDay - 1)) /\ sched.hours # {}
  <2>1. Shown(w).hour \in 0..(HoursPerDay - 1)
    BY <1>2, WallDays, Clock, Zenon
  <2>2. Shown(w).hour \notin sched.hours
    BY <1>1, <1>2 DEF HourFits
  <2> QED  BY <1>2, <2>1, <2>2, ScheduleFacts
<1>4. /\ next \in sched.hours
      /\ Wrapped(sched.hours, Here.hour) => \A u \in sched.hours : u < Shown(w).hour
      /\ ~Wrapped(sched.hours, Here.hour) =>
            /\ Shown(w).hour < next
            /\ \A u \in sched.hours : Shown(w).hour <= u => next <= u
  <2>1. sched.hours \in SUBSET Nat /\ Shown(w).hour \in Nat
    BY <1>3, Units
  <2> QED  BY <1>2, <1>3, <2>1, NextValue
<1> HIDE DEF next
<1>5. CASE Wrapped(sched.hours, Here.hour)
  <2>1. HoursPerDay \in (Shown(w).hour + 1)..HoursPerDay
    BY <1>3, Units
  <2>2. ASSUME NEW v \in Walls, Shown(v).hour \in Shown(w).hour..(HoursPerDay - 1)
        PROVE  ~Shows(v)
    BY <1>3, <1>4, <1>5, <2>2, Units DEF Shows
  <2>3. Passes(w, X(HoursPerDay))
    BY <1>2, <2>1, <2>2, PassHour
  <2>4. MoveTo(Instant(zone, X(HoursPerDay)))
    BY <1>1, <1>2, <1>5, DateNextDay
  <2> QED  BY <2>3, <2>4, Zenon DEF Passed, w
<1>6. CASE ~Wrapped(sched.hours, Here.hour)
  <2>1. next \in (Shown(w).hour + 1)..HoursPerDay /\ next \in 0..HoursPerDay
    BY <1>3, <1>4, <1>6, Units
  <2>2. ASSUME NEW v \in Walls, Shown(v).hour \in Shown(w).hour..(next - 1)
        PROVE  ~Shows(v)
    BY <1>3, <1>4, <1>6, <2>1, <2>2, Units DEF Shows
  <2>3. Passes(w, X(next))
    BY <1>2, <2>1, <2>2, PassHour
  <2>4. MoveTo(Instant(zone, X(next)))
    BY <1>1, <1>2, <1>6, <2>1, DateHours DEF DateAt
  <2> QED  BY <2>3, <2>4, Zenon DEF Passed, w
<1> QED  BY <1>5, <1>6, Zenon

LEMMA MinutePasses ==
    ASSUME InCalendar, SetMinute PROVE Passed
<1> DEFINE w == Wall(zone, candidate)
           X(m) == SecondsPerMinute * (MinutesPerHour * HourOf(w) + m)
           next == NextOrFirst(sched.minutes, Here.minute)
<1>1. /\ Searching /\ HourFits /\ ~MinuteFits
      /\ \/ /\ Wrapped(sched.minutes, Here.minute)
            /\ MoveTo(Date(zone, Here.year, Here.month, Here.day, Here.hour + 1, 0, 0))
         \/ /\ ~Wrapped(sched.minutes, Here.minute)
            /\ MoveTo(Date(zone, Here.year, Here.month, Here.day, Here.hour, next, 0))
  BY Zenon DEF SetMinute
<1>2. w \in Walls /\ Here = Shown(w) /\ DayOf(w) + 1 \in Numbers /\ sched \in Schedules
  BY <1>1, Room DEF InCalendar
<1> HIDE DEF w
<1>3. /\ Shown(w).minute \in 0..(MinutesPerHour - 1) /\ Shown(w).minute \notin sched.minutes
      /\ sched.minutes \in SUBSET (0..(MinutesPerHour - 1)) /\ sched.minutes # {}
  <2>1. Shown(w).minute \in 0..(MinutesPerHour - 1)
    BY <1>2, WallDays, Clock, Zenon
  <2>2. Shown(w).minute \notin sched.minutes
    BY <1>1, <1>2 DEF MinuteFits
  <2> QED  BY <1>2, <2>1, <2>2, ScheduleFacts
<1>4. /\ next \in sched.minutes
      /\ Wrapped(sched.minutes, Here.minute) => \A u \in sched.minutes : u < Shown(w).minute
      /\ ~Wrapped(sched.minutes, Here.minute) =>
            /\ Shown(w).minute < next
            /\ \A u \in sched.minutes : Shown(w).minute <= u => next <= u
  <2>1. sched.minutes \in SUBSET Nat /\ Shown(w).minute \in Nat
    BY <1>3, Units
  <2> QED  BY <1>2, <1>3, <2>1, NextValue
<1> HIDE DEF next
<1>5. CASE Wrapped(sched.minutes, Here.minute)
  <2>1. MinutesPerHour \in (Shown(w).minute + 1)..MinutesPerHour
    BY <1>3, Units
  <2>2. ASSUME NEW v \in Walls, Shown(v).minute \in Shown(w).minute..(MinutesPerHour - 1)
        PROVE  ~Shows(v)
    BY <1>3, <1>4, <1>5, <2>2, Units DEF Shows
  <2>3. QuietMinutes(w, MinutesPerHour)
    BY <2>2 DEF QuietMinutes
  <2>4. Passes(w, X(MinutesPerHour))
    BY <1>2, <2>1, <2>3, PassMinute
  <2>5. MoveTo(Instant(zone, X(MinutesPerHour)))
    BY <1>1, <1>2, <1>5, DateMinutes DEF DateAt
  <2> QED  BY <2>4, <2>5, Zenon DEF Passed, w
<1>6. CASE ~Wrapped(sched.minutes, Here.minute)
  <2>1. next \in (Shown(w).minute + 1)..MinutesPerHour /\ next \in 0..MinutesPerHour
    BY <1>3, <1>4, <1>6, Units
  <2>2. ASSUME NEW v \in Walls, Shown(v).minute \in Shown(w).minute..(next - 1)
        PROVE  ~Shows(v)
    BY <1>3, <1>4, <1>6, <2>1, <2>2, Units DEF Shows
  <2>3. QuietMinutes(w, next)
    BY <2>2 DEF QuietMinutes
  <2>4. Passes(w, X(next))
    BY <1>2, <2>1, <2>3, PassMinute
  <2>5. MoveTo(Instant(zone, X(next)))
    BY <1>1, <1>2, <1>6, <2>1, DateMinutes DEF DateAt
  <2> QED  BY <2>4, <2>5, Zenon DEF Passed, w
<1> QED  BY <1>5, <1>6, Zenon

LEMMA SecondPasses ==
    ASSUME InCalendar, SetSecond PROVE Passed
<1> DEFINE w == Wall(zone, candidate)
           X(s) == SecondsPerMinute * MinuteOf(w) + s
           next == NextOrFirst(sched.seconds, Here.second)
<1>1. /\ Searching /\ MinuteFits /\ ~AllFit
      /\ \/ /\ Wrapped(sched.seconds, Here.second)
            /\ MoveTo(Date(zone, Here.year, Here.month, Here.day, Here.hour, Here.minute + 1, 0))
         \/ /\ ~Wrapped(sched.seconds, Here.second)
            /\ MoveTo(Date(zone, Here.year, Here.month, Here.day, Here.hour, Here.minute, next))
  BY Zenon DEF SetSecond
<1>2. w \in Walls /\ Here = Shown(w) /\ DayOf(w) + 1 \in Numbers /\ sched \in Schedules
  BY <1>1, Room DEF InCalendar
<1> HIDE DEF w
<1>3. /\ Shown(w).second \in 0..(SecondsPerMinute - 1) /\ Shown(w).second \notin sched.seconds
      /\ sched.seconds \in SUBSET (0..(SecondsPerMinute - 1)) /\ sched.seconds # {}
  <2>1. Shown(w).second \in 0..(SecondsPerMinute - 1)
    BY <1>2, WallDays, Clock, Zenon
  <2>2. Shown(w).second \notin sched.seconds
    BY <1>1, <1>2 DEF AllFit
  <2> QED  BY <1>2, <2>1, <2>2, ScheduleFacts
<1>4. /\ next \in sched.seconds
      /\ Wrapped(sched.seconds, Here.second) => \A u \in sched.seconds : u < Shown(w).second
      /\ ~Wrapped(sched.seconds, Here.second) =>
            /\ Shown(w).second < next
            /\ \A u \in sched.seconds : Shown(w).second <= u => next <= u
  <2>1. sched.seconds \in SUBSET Nat /\ Shown(w).second \in Nat
    BY <1>3, Units
  <2> QED  BY <1>2, <1>3, <2>1, NextValue
<1> HIDE DEF next
<1>5. CASE Wrapped(sched.seconds, Here.second)
  <2>1. SecondsPerMinute \in (Shown(w).second + 1)..SecondsPerMinute
    BY <1>3, Units
  <2>2. ASSUME NEW v \in Walls, Shown(v).second \in Shown(w).second..(SecondsPerMinute - 1)
        PROVE  ~Shows(v)
    BY <1>3, <1>4, <1>5, <2>2, Units DEF Shows
  <2>3. QuietSeconds(w, SecondsPerMinute)
    BY <2>2 DEF QuietSeconds
  <2>4. Passes(w, X(SecondsPerMinute))
    BY <1>2, <2>1, <2>3, PassSecond
  <2>5. MoveTo(Instant(zone, X(SecondsPerMinute)))
    BY <1>1, <1>2, <1>5, DateSeconds DEF DateAt
  <2> QED  BY <2>4, <2>5, Zenon DEF Passed, w
<1>6. CASE ~Wrapped(sched.seconds, Here.second)
  <2>1. next \in (Shown(w).second + 1)..SecondsPerMinute /\ next \in 0..SecondsPerMinute
    BY <1>3, <1>4, <1>6, Units
  <2>2. ASSUME NEW v \in Walls, Shown(v).second \in Shown(w).second..(next - 1)
        PROVE  ~Shows(v)
    BY <1>3, <1>4, <1>6, <2>1, <2>2, Units DEF Shows
  <2>3. QuietSeconds(w, next)
    BY <2>2 DEF QuietSeconds
  <2>4. Passes(w, X(next))
    BY <1>2, <2>1, <2>3, PassSecond
  <2>5. MoveTo(Instant(zone, X(next)))
    BY <1>1, <1>2, <1>6, <2>1, DateSeconds DEF DateAt
  <2> QED  BY <2>4, <2>5, Zenon DEF Passed, w
<1> QED  BY <1>5, <1>6, Zenon

LEMMA MovingPasses ==
    ASSUME InCalendar, Moving PROVE Passed
BY MonthPasses, DayPasses, HourPasses, MinutePasses, SecondPasses DEF Moving

LEMMA InitInCalendar == Init => InCalendar
<1> SUFFICES ASSUME Init PROVE InCalendar
  OBVIOUS
<1>1. from \in Froms /\ zone \in Zones \cup {UTC} /\ from \in Nat
  BY CronAssumption DEF Init
<1>2. Wall(zone, from + 1) \in Walls
  BY <1>1, LongEnough
<1>3. now \in Nat /\ (now = 0 \/ (zone = UTC /\ \E n \in Nows : now = from + n))
  BY <1>1, CronAssumption DEF Init
<1> QED  BY <1>1, <1>2, <1>3 DEF Init, InCalendar

LEMMA MovingInCalendar ==
    ASSUME InCalendar, Moving PROVE InCalendar'
<1>1. Passed /\ pc = "search"
  BY MovingPasses DEF Moving, SetMonth, SetDay, SetHour, SetMinute, SetSecond, Searching
<1>2. PICK x : Passes(Wall(zone, candidate), x) /\ MoveTo(Instant(zone, x))
  BY <1>1 DEF Passed
<1>3. /\ zone \in Zones \cup {UTC} /\ candidate \in Nat
      /\ x \in Walls /\ Wall(zone, candidate) < x
  BY <1>1, <1>2 DEF InCalendar, Passes
<1>4. Instant(zone, x) \in Nat /\ Wall(zone, Instant(zone, x)) \in Walls
  BY <1>3, Stays
<1>5. /\ candidate' = Instant(zone, x) /\ sched' = sched /\ zone' = zone /\ from' = from
      /\ now' = now /\ since' = since /\ pc' = pc
  BY <1>2 DEF MoveTo, call
<1>6. candidate' \in Nat /\ Wall(zone, candidate') \in Walls
  BY <1>4, <1>5
<1>7. Wall(zone, candidate)' = Wall(zone, candidate')
  BY <1>5 DEF Wall, Offset
<1> QED  BY <1>1, <1>5, <1>6, <1>7 DEF InCalendar

LEMMA AnswerInCalendar ==
    ASSUME InCalendar, pc = "search",
           \/ Answer(candidate, "done")
           \/ Answer(0, "none")
    PROVE  InCalendar'
<1>1. PICK t \in Nat, outcome \in {"done", "none"} :
         /\ Answer(t, outcome)
         /\ outcome = "done" => t = candidate
         /\ outcome = "none" => t = 0
  <2>1. candidate \in Nat
    BY DEF InCalendar
  <2>2. CASE Answer(candidate, "done")
    BY <2>1, <2>2
  <2>3. CASE Answer(0, "none")
    BY <2>3
  <2> QED  BY <2>2, <2>3
<1>2. sched' = sched /\ zone' = zone /\ from' = from /\ now' = now
  BY <1>1 DEF Answer, call
<1>3. Wall(zone, candidate)' = Wall(zone, candidate')
  BY <1>2 DEF Wall, Offset
<1>4. CASE t < now
  <2>1. since' = t /\ candidate' = t + 1 /\ pc' = pc
    BY <1>1, <1>4 DEF Answer
  <2>2. now \in Nat /\ now # 0 /\ t + 1 \in 0..now
    BY <1>4 DEF InCalendar
  <2>3. zone = UTC /\ Wall(zone, t + 1) \in Walls
    BY <2>2, TickTimes
  <2>4. Wall(zone, candidate)' \in Walls /\ candidate' \in Nat
    BY <1>3, <2>1, <2>3
  <2>5. \E n \in Nows : now = from + n
    BY <2>2 DEF InCalendar
  <2> QED  BY <1>2, <1>4, <2>1, <2>3, <2>4, <2>5 DEF InCalendar
<1>5. CASE ~(t < now)
  <2>1. since' = since /\ candidate' = t /\ pc' = outcome
    BY <1>1, <1>5 DEF Answer
  <2>2. CASE outcome = "done"
    <3>1. candidate' = candidate /\ Wall(zone, candidate)' = Wall(zone, candidate)
      BY <1>1, <1>3, <2>1, <2>2
    <3> QED  BY <1>2, <2>1, <2>2, <3>1 DEF InCalendar
  <2>3. CASE outcome = "none"
    <3>1. now = 0 /\ t = 0
      BY <1>1, <1>5, <2>3 DEF InCalendar
    <3> QED  BY <1>2, <2>1, <2>3, <3>1 DEF InCalendar
  <2> QED  BY <2>2, <2>3
<1> QED  BY <1>4, <1>5

LEMMA NextInCalendar == InCalendar /\ [Next]_vars => InCalendar'
<1> SUFFICES ASSUME InCalendar, [Next]_vars PROVE InCalendar'
  OBVIOUS
<1>1. CASE Moving
  BY <1>1, MovingInCalendar
<1>2. CASE Found
  BY <1>2, AnswerInCalendar DEF Found, Searching
<1>3. CASE GiveUp
  BY <1>3, AnswerInCalendar DEF GiveUp
<1>4. CASE UNCHANGED vars
  BY <1>4 DEF vars, InCalendar, Wall, Offset
<1> QED  BY <1>1, <1>2, <1>3, <1>4 DEF Next, Step, Moving

LEMMA CalendarTypes == InCalendar => TypeOK
<1> SUFFICES ASSUME InCalendar PROVE TypeOK
  OBVIOUS
<1> QED  BY DEF InCalendar, TypeOK

(* The search, of any expression from any time, in any zone, stays in its  *)
(* calendar until it has an answer (cron.go:230, the loop): the dates that *)
(* it makes are ones, and in the bounds of LongEnough no year that it      *)
(* carries into is past the last.                                          *)
THEOREM Types == Spec => []TypeOK
<1>1. Init => InCalendar
  BY InitInCalendar
<1>2. InCalendar /\ [Next]_vars => InCalendar'
  BY NextInCalendar
<1>3. InCalendar => TypeOK
  BY CalendarTypes
<1> QED  BY <1>1, <1>2, <1>3, PTL DEF Spec

-----------------------------------------------------------------------------
(* The search finds the first time *)

LEMMA FiresShows ==
    ASSUME NEW t PROVE Fires(t) <=> Shows(Wall(zone, t))
BY Zenon DEF Fires, Shows, Local

(* Where it is Reliable, what the search goes on to is shown by the wall,  *)
(* or is the first that clocks put forward leave out.                      *)
LEMMA NoGap ==
    ASSUME InCalendar, Reliable, NEW c \in Int, since <= c,
           NEW w \in Nat, w = Wall(zone, c), NEW x \in Nat, w < x,
           HourOf(x) = HourOf(w) \/ \E k \in Int : x = Hour * k
    PROVE  zone.at + zone.before <= x /\ x < zone.at + zone.after =>
               x = zone.at + zone.before /\ zone.before >= 0
<1>1. PICK b \in Int, a \in Int, A \in Nat :
         b = zone.before /\ a = zone.after /\ A = zone.at
  BY ZoneTypes, Zenon DEF InCalendar
<1>2. /\ c < A => w = c + b
      /\ c >= A => w = c + a
  BY <1>1 DEF Wall, Offset
<1>3. zone = UTC \/ (since = from /\ from \in Nat)
  BY CronAssumption DEF InCalendar
<1>4. CASE zone = UTC \/ b = a
  BY <1>1, <1>4 DEF UTC
<1>5. CASE since = from /\ from \in Nat /\ from >= A
  BY <1>1, <1>2, <1>5
<1>6. CASE b >= 0 /\ a - b <= Hour /\ (A + b) % Hour = 0
  <2> SUFFICES ASSUME A + b <= x, x < A + a PROVE x = A + b
    BY <1>1, <1>6
  <2>1. PICK H \in Nat \ {0} : H = Hour
    BY Units
  <2>2. PICK j \in Int : A + b = H * j
    <3>1. A + b \in Int
      OBVIOUS
    <3>2. /\ (A + b) \div H \in Int
          /\ A + b = H * ((A + b) \div H) + ((A + b) % H)
      BY <3>1, DivMod, Zenon
    <3>3. A + b = H * ((A + b) \div H)
      <4>1. H * ((A + b) \div H) \in Int
        BY <3>2
      <4> QED  BY <1>6, <2>1, <3>2, <4>1
    <3> QED  BY <3>2, <3>3, Zenon
  <2>3. /\ x \in Int /\ w \in Int /\ j + 1 \in Int
        /\ H * (j + 1) = H * j + H /\ H * j \in Int
    OBVIOUS
  <2>4. H * j <= x /\ x < H * (j + 1)
    BY <1>6, <2>1, <2>2, <2>3
  <2>5. HourOf(x) = j
    <3>1. j <= x \div H
      BY <2>3, <2>4, Begins
    <3>2. x \div H < j + 1
      BY <2>3, <2>4, Begins
    <3>3. x \div H \in Int
      BY <2>3, DivMod
    <3> QED  BY <2>1, <3>1, <3>2, <3>3 DEF HourOf
  <2>6. CASE HourOf(w) = j
    <3>1. H * j <= w
      BY <2>1, <2>3, <2>6, Begins DEF HourOf
    <3> QED  BY <1>2, <2>2, <3>1
  <2>7. CASE \E k \in Int : x = H * k
    <3>1. PICK k \in Int : x = H * k
      BY <2>7
    <3>2. H * k < H * j + H /\ H * j < H * k + H
      BY <2>3, <2>4, <3>1
    <3>3. k <= j /\ j <= k
      BY <3>2, Neighbours
    <3>4. k = j
      BY <3>3
    <3> QED  BY <2>2, <3>1, <3>4
  <2> QED  BY <2>1, <2>5, <2>6, <2>7
<1> QED  BY <1>1, <1>3, <1>4, <1>5, <1>6 DEF Reliable

(* What has been searched does not fire. *)
Searched ==
    pc = "search" /\ Reliable =>
        /\ since < candidate
        /\ \A t \in (since + 1)..(candidate - 1) : ~Fires(t)

LEMMA Unmoved ==
    ASSUME UNCHANGED call
    PROVE  /\ Reliable' <=> Reliable
           /\ \A t : Fires(t)' <=> Fires(t)
           /\ Until' = Until
<1>1. sched' = sched /\ zone' = zone /\ from' = from
  BY DEF call
<1> QED  BY <1>1, Zenon DEF Reliable, Fires, Until, Local, Wall, Offset, Date, Instant

LEMMA MovingSearched ==
    ASSUME InCalendar, Searched, Moving PROVE Searched'
<1>1. Passed /\ pc = "search"
  BY MovingPasses DEF Moving, SetMonth, SetDay, SetHour, SetMinute, SetSecond, Searching
<1>2. PICK x : Passes(Wall(zone, candidate), x) /\ MoveTo(Instant(zone, x))
  BY <1>1 DEF Passed
<1>3. candidate' = Instant(zone, x) /\ since' = since /\ pc' = pc /\ UNCHANGED call
  BY <1>2 DEF MoveTo
<1> SUFFICES ASSUME Reliable
             PROVE  /\ since < candidate'
                    /\ \A t \in (since + 1)..(candidate' - 1) : ~Fires(t)
  BY <1>3, Unmoved DEF Searched
<1>4. since < candidate /\ \A t \in (since + 1)..(candidate - 1) : ~Fires(t)
  BY <1>1 DEF Searched
<1>5. PICK w \in Walls : /\ w = Wall(zone, candidate) /\ w \in Nat /\ x \in Walls /\ x \in Nat
                         /\ zone \in Zones \cup {UTC} /\ candidate \in Int /\ since \in Int
                         /\ w < x
  <2>1. Wall(zone, candidate) \in Walls /\ x \in Walls /\ Wall(zone, candidate) < x
    BY <1>1, <1>2 DEF InCalendar, Passes
  <2>2. zone \in Zones \cup {UTC} /\ candidate \in Int /\ since \in Int
    BY <1>1 DEF InCalendar
  <2>3. Wall(zone, candidate) \in Nat /\ x \in Nat
    BY <2>1, WallDays
  <2> QED  BY <2>1, <2>2, <2>3, Zenon
<1>6. /\ \A v \in w..(x - 1) : ~Shows(v)
      /\ HourOf(x) = HourOf(w) \/ \E k \in Int : x = Hour * k
  BY <1>2, <1>5, Zenon DEF Passes
<1>7. zone.at + zone.before <= x /\ x < zone.at + zone.after =>
          x = zone.at + zone.before /\ zone.before >= 0
  <2>1. since <= candidate
    BY <1>4, <1>5
  <2> QED  BY <1>5, <1>6, <2>1, NoGap
<1>8. zone.before <= zone.after
  BY DEF Reliable
<1>9. /\ Instant(zone, x) \in Int /\ candidate < Instant(zone, x)
      /\ \A t \in candidate..(Instant(zone, x) - 1) :
            Wall(zone, t) \in Int /\ w <= Wall(zone, t) /\ Wall(zone, t) < x
  BY <1>5, <1>7, <1>8, Lands
<1>10. ASSUME NEW t \in candidate..(Instant(zone, x) - 1) PROVE ~Fires(t)
  <2>1. Wall(zone, t) \in w..(x - 1)
    BY <1>5, <1>9
  <2> QED  BY <1>6, <2>1, FiresShows
<1>11. since < candidate'
  BY <1>3, <1>4, <1>5, <1>9
<1>12. ASSUME NEW t \in (since + 1)..(candidate' - 1) PROVE ~Fires(t)
  <2>1. t \in (since + 1)..(candidate - 1) \/ t \in candidate..(Instant(zone, x) - 1)
    BY <1>3, <1>5, <1>9
  <2> QED  BY <1>4, <1>10, <2>1
<1> QED  BY <1>11, <1>12

(* A search begins again after the answer that was past. *)
LEMMA AnswerSearched ==
    ASSUME InCalendar, Searched, pc = "search",
           NEW t \in Nat, NEW outcome \in {"done", "none"}, Answer(t, outcome)
    PROVE  Searched'
<1>1. UNCHANGED call
  BY DEF Answer
<1>2. CASE t < now
  <2>1. since' = t /\ candidate' = t + 1
    BY <1>2 DEF Answer
  <2>2. since' < candidate' /\ (since' + 1)..(candidate' - 1) = {}
    BY <2>1
  <2> QED  BY <2>2 DEF Searched
<1>3. CASE ~(t < now)
  BY <1>3 DEF Answer, Searched
<1> QED  BY <1>2, <1>3

LEMMA FoundFirst ==
    ASSUME InCalendar, Searched, Found PROVE FirstMatch'
<1>1. pc = "search" /\ AllFit /\ Answer(candidate, "done") /\ UNCHANGED call
  BY DEF Found, Searching, Answer
<1>2. CASE candidate < now
  BY <1>1, <1>2 DEF Answer, FirstMatch
<1>3. CASE ~(candidate < now)
  <2>1. candidate' = candidate /\ pc' = "done" /\ since' = since /\ now' = now /\ from' = from
    BY <1>1, <1>3 DEF Answer, call
  <2>2. Fires(candidate)
    BY <1>1, Zenon DEF AllFit, MinuteFits, HourFits, DayFits, MonthFits, Here, Fires
  <2> SUFFICES ASSUME Reliable
               PROVE  /\ candidate > from /\ candidate >= now
                      /\ \A t \in (from + 1)..(candidate - 1) : t < now \/ ~Fires(t)
    <3>1. Fires(candidate)' <=> Fires(candidate)
      BY <1>1, <2>1, Zenon DEF Fires, Local, Wall, Offset, call
    <3> QED  BY <1>1, <2>1, <2>2, <3>1, Unmoved DEF FirstMatch
  <2>3. since < candidate /\ \A t \in (since + 1)..(candidate - 1) : ~Fires(t)
    BY <1>1 DEF Searched
  <2>4. /\ candidate \in Nat /\ now \in Nat /\ from \in Nat /\ since \in Nat
        /\ since = from \/ (since < now /\ from < now)
    <3>1. candidate \in Nat /\ now \in Nat /\ from \in Nat /\ since \in Nat
      BY <1>1, CronAssumption DEF InCalendar
    <3>2. ASSUME since # from PROVE since < now /\ from < now
      <4>1. PICK n \in Nows : now = from + n /\ since < now
        BY <3>2 DEF InCalendar
      <4>2. n \in Nat \ {0}
        BY CronAssumption
      <4> QED  BY <3>1, <4>1, <4>2
    <3> QED  BY <3>1, <3>2
  <2>5. candidate >= now
    BY <1>3, <2>4
  <2>6. candidate > from
    BY <2>3, <2>4, <2>5
  <2>7. ASSUME NEW t \in (from + 1)..(candidate - 1), ~(t < now) PROVE ~Fires(t)
    <3>1. t \in (since + 1)..(candidate - 1)
      BY <2>4, <2>7
    <3> QED  BY <2>3, <3>1
  <2> QED  BY <2>5, <2>6, <2>7
<1> QED  BY <1>2, <1>3

LEMMA GaveUp ==
    ASSUME InCalendar, Searched, GiveUp PROVE FirstMatch'
<1>1. pc = "search" /\ ~Searching /\ Answer(0, "none") /\ UNCHANGED call
  BY DEF GiveUp, Answer
<1>2. CASE 0 < now
  BY <1>1, <1>2 DEF Answer, FirstMatch
<1>3. CASE ~(0 < now)
  <2>1. pc' = "none" /\ from' = from /\ now = 0 /\ since = from
    BY <1>1, <1>3 DEF Answer, call, InCalendar
  <2> SUFFICES ASSUME Reliable, NEW t \in (from + 1)..(Until - 1) PROVE ~Fires(t)
    BY <1>1, <2>1, Unmoved DEF FirstMatch
  <2>2. since < candidate /\ \A u \in (since + 1)..(candidate - 1) : ~Fires(u)
    BY <1>1 DEF Searched
  <2>3. PICK c \in Int, s \in Int, w \in Walls, v \in Walls :
           /\ c = candidate /\ s = since /\ w = Wall(zone, c) /\ v = Wall(zone, s)
           /\ w \in Nat /\ v \in Nat
    <3>1. candidate \in Int /\ since \in Int /\ Wall(zone, candidate) \in Walls
      BY <1>1 DEF InCalendar
    <3>2. Wall(zone, since) \in Walls
      BY YearsLeft
    <3> QED  BY <3>1, <3>2, WallDays, Zenon
  <2>4. PICK y \in Int, k \in Int :
           /\ y = Shown(v).year /\ k = Shown(w).year
           /\ y < LastYear - Years /\ ~(k <= y + Years)
           /\ y >= 0
    <3>1. Shown(v).year \in 0..LastYear /\ Shown(w).year \in 0..LastYear
      BY <2>3, ShownDate
    <3>2. ~(Shown(w).year <= Shown(v).year + Years)
      BY <1>1, <2>3, Zenon DEF Searching, Here, Local
    <3>3. Shown(v).year < LastYear - Years
      BY <2>3, YearsLeft
    <3>4. Shown(v).year \in Int /\ Shown(w).year \in Int /\ Shown(v).year >= 0
      BY <3>1, Months
    <3> QED  BY <3>2, <3>3, <3>4, Zenon
  <2>5. y + Years + 1 \in 0..LastYear /\ 1 \in Month /\ Years \in Nat
    <3>1. Years \in Nat /\ LastYear \in Nat
      BY CronAssumption
    <3> QED  BY <2>4, <3>1, LastStart
  <2>6. PICK x \in Nat, n \in Nat : x = Day * n /\ n = FirstDay(y + Years + 1, 1) /\ x \in Walls
    <3>1. FirstDay(y + Years + 1, 1) \in Numbers
      BY <2>5, FirstDays
    <3>2. Day * FirstDay(y + Years + 1, 1) \in Walls
      BY <3>1, WallDays
    <3>3. FirstDay(y + Years + 1, 1) \in Nat
      BY <3>1 DEF Numbers
    <3>4. Day * FirstDay(y + Years + 1, 1) \in Nat
      BY <3>2, WallDays, Zenon
    <3> QED  BY <3>2, <3>3, <3>4, Zenon
  <2>7. Until = Instant(zone, x)
    <3>1. Local(zone, from).year = y
      BY <2>1, <2>3, <2>4, Zenon DEF Local
    <3>2. PICK D \in Nat, H \in Nat, M \in Nat : D = Day /\ H = Hour /\ M = SecondsPerMinute
      BY Units
    <3>3. (n + 1 - 1) * D + 0 * H + 0 * M + 0 = D * n
      <4>1. n + 1 - 1 = n /\ n * D = D * n /\ 0 * H = 0 /\ 0 * M = 0 /\ D * n \in Int
        OBVIOUS
      <4> QED  BY <4>1
    <3> QED  BY <2>6, <3>1, <3>2, <3>3, Zenon DEF Until, Date
  <2>8. v < x /\ x <= w
    <3>1. \A u \in Walls : u < x <=> \/ Shown(u).year < y + Years + 1
                                     \/ Shown(u).year = y + Years + 1 /\ Shown(u).month < 1
      BY <2>5, <2>6, MonthBegins
    <3>2. y < y + Years + 1 /\ ~(k < y + Years + 1)
      BY <2>4, <2>5
    <3>3. Shown(w).month \in Nat /\ Shown(w).month >= 1
      BY <2>3, ShownDate, Months
    <3>4. v < x /\ ~(w < x)
      BY <2>3, <2>4, <3>1, <3>2, <3>3
    <3> QED  BY <2>3, <2>6, <3>4
  <2>9. \E j \in Int : x = Hour * j
    <3>1. x = Hour * (HoursPerDay * n) /\ HoursPerDay * n \in Int
      BY <2>6, Units DEF Day
    <3> QED  BY <3>1
  <2>10. zone.at + zone.before <= x /\ x < zone.at + zone.after =>
            x = zone.at + zone.before /\ zone.before >= 0
    <3>1. since <= s
      BY <2>3
    <3> QED  BY <2>3, <2>6, <2>8, <2>9, <3>1, NoGap
  <2>11. zone.before <= zone.after /\ zone \in Zones \cup {UTC}
    BY DEF Reliable, InCalendar
  <2>12. Until \in Int /\ Until <= candidate
    BY <2>3, <2>6, <2>7, <2>8, <2>10, <2>11, Comes
  <2>13. t \in (since + 1)..(candidate - 1)
    BY <2>1, <2>3, <2>12
  <2> QED  BY <2>2, <2>13
<1> QED  BY <1>2, <1>3

Matching == InCalendar /\ Searched /\ FirstMatch

LEMMA InitMatching == Init => Matching
<1> SUFFICES ASSUME Init PROVE Matching
  OBVIOUS
<1>1. InCalendar
  BY InitInCalendar
<1>2. from \in Nat /\ since = from /\ candidate = from + 1 /\ pc = "search"
  BY <1>1, CronAssumption DEF Init, InCalendar
<1>3. since < candidate /\ (since + 1)..(candidate - 1) = {}
  BY <1>2
<1> QED  BY <1>1, <1>2, <1>3 DEF Matching, Searched, FirstMatch

LEMMA NextMatching == Matching /\ [Next]_vars => Matching'
<1> SUFFICES ASSUME Matching, [Next]_vars PROVE Matching'
  OBVIOUS
<1>1. InCalendar /\ Searched /\ FirstMatch /\ InCalendar'
  BY NextInCalendar DEF Matching
<1>2. CASE Moving
  <2>1. Searched'
    BY <1>1, <1>2, MovingSearched
  <2>2. pc' = "search"
    BY <1>2 DEF Moving, SetMonth, SetDay, SetHour, SetMinute, SetSecond, Searching, MoveTo
  <2> QED  BY <1>1, <2>1, <2>2 DEF Matching, FirstMatch
<1>3. CASE Found
  <2>1. pc = "search" /\ Answer(candidate, "done") /\ candidate \in Nat
    BY <1>1, <1>3 DEF Found, Searching, InCalendar
  <2>2. Searched'
    BY <1>1, <2>1, AnswerSearched
  <2> QED  BY <1>1, <1>3, <2>2, FoundFirst DEF Matching
<1>4. CASE GiveUp
  <2>1. pc = "search" /\ Answer(0, "none")
    BY <1>4 DEF GiveUp
  <2>2. Searched'
    BY <1>1, <2>1, AnswerSearched
  <2> QED  BY <1>1, <1>4, <2>2, GaveUp DEF Matching
<1>5. CASE UNCHANGED vars
  <2>1. /\ UNCHANGED call /\ since' = since /\ candidate' = candidate /\ pc' = pc
        /\ now' = now /\ from' = from
    BY <1>5 DEF vars, call
  <2>2. Fires(candidate)' <=> Fires(candidate)
    BY <2>1, Zenon DEF Fires, Local, Wall, Offset, call
  <2>3. Searched' /\ FirstMatch'
    BY <1>1, <2>1, <2>2, Unmoved DEF Searched, FirstMatch
  <2> QED  BY <1>1, <2>3 DEF Matching
<1> QED  BY <1>2, <1>3, <1>4, <1>5 DEF Next, Step, Moving

(* Where clocks are put forward in the way of Reliable, NextAfter answers  *)
(* with the first time after the one it is asked about at which the        *)
(* expression fires (cron.go:225), tick with the first that is not before  *)
(* its now (scheduler.go:339); and NextAfter gives up only when nothing    *)
(* fires up to the end of the last year it searches.                       *)
THEOREM First == Spec => []FirstMatch
<1>1. Init => Matching
  BY InitMatching
<1>2. Matching /\ [Next]_vars => Matching'
  BY NextMatching
<1>3. Matching => FirstMatch
  BY DEF Matching
<1> QED  BY <1>1, <1>2, <1>3, PTL DEF Spec

=============================================================================
