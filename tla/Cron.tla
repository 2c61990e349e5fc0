-------------------------------- MODULE Cron --------------------------------
(***************************************************************************)
(* cron.go: a parsed expression and the search for its next time, and the  *)
(* loops in scheduler.go that use it.  NextAfter walks a candidate forward *)
(* through the calendar, from the largest field that does not fit to the   *)
(* smallest, each step one turn of its loop.  Add and Resume ask once, in  *)
(* the local time zone; tick asks again, in UTC, until the answer is no    *)
(* longer past.                                                            *)
(*                                                                         *)
(* The calendar is a small one of the same make: its units are CONSTANTS.  *)
(* An instant is a number of seconds; what a clock on the wall shows at it *)
(* is a number of seconds too, the instant and the offset of the zone.     *)
(***************************************************************************)
EXTENDS Integers, FiniteSets, Sequences

CONSTANTS
    SecondsPerMinute, MinutesPerHour, HoursPerDay, DaysPerWeek,
    MonthDays,    \* MonthDays[m]: days of the month m
    MaxDay,       \* what the day field goes up to (31)
    LeapMonth,    \* the month that has one more in every
    LeapEvery,    \*   so many years
    Years,        \* years after which the search gives up (100)
    LastYear,     \* bound: the calendar ends with this year
    Expressions,  \* what is asked for: a set of parts for each field
    Zones,        \* [before, after, at]: offsets, and when they change
    Froms,        \* instants to start from
    Nows          \* seconds that tick's now is ahead of a task's time

Month == DOMAIN MonthDays
Hour == MinutesPerHour * SecondsPerMinute
Day == HoursPerDay * Hour

Length(y, m) == MonthDays[m] + IF m = LeapMonth /\ y % LeapEvery = 0 THEN 1 ELSE 0

Dates == {d \in (0..LastYear) \X Month \X (1..MaxDay) : d[3] <= Length(d[1], d[2])}

Earlier(d, e) ==
    \/ d[1] < e[1]
    \/ d[1] = e[1] /\ d[2] < e[2]
    \/ d[1] = e[1] /\ d[2] = e[2] /\ d[3] < e[3]

(* The day number of a month's first, and the date of a day number. *)
DaysBefore == [month \in (0..LastYear) \X Month |->
                  Cardinality({d \in Dates : Earlier(d, <<month[1], month[2], 1>>)})]
FirstDay(y, m) == DaysBefore[<<y, m>>]
DateOf == [n \in 0..(Cardinality(Dates) - 1) |->
              CHOOSE d \in Dates : FirstDay(d[1], d[2]) + d[3] - 1 = n]

(* What a clock on the wall may show. *)
Walls == 0..(Cardinality(Dates) * Day - 1)

Part == [first : Int, last : Int, step : Int]

ASSUME CronAssumption ==
    /\ {SecondsPerMinute, MinutesPerHour, HoursPerDay, DaysPerWeek, LeapEvery} \subseteq Nat \ {0}
    /\ MonthDays \in Seq(Nat \ {0}) /\ LeapMonth \in Month
    /\ Years \in Nat /\ LastYear \in Nat /\ Years < LastYear
    /\ MaxDay \in Nat /\ \A y \in 0..LastYear, m \in Month : Length(y, m) <= MaxDay
    /\ Expressions \subseteq [seconds : SUBSET Part, minutes : SUBSET Part, hours : SUBSET Part,
                             days : SUBSET Part, months : SUBSET Part, dows : SUBSET Part]
    /\ Zones \subseteq [before : Int, after : Int, at : Nat]
    /\ Froms \subseteq Nat /\ Nows \subseteq Nat \ {0}

-----------------------------------------------------------------------------
(* Expressions *)

(* "a-b/c", and "a" for a-a/1, and "*" for all: parseField takes every     *)
(* c-th value of a range that lies within the field's.                     *)
Valid(part, lo, hi) == /\ lo <= part.first /\ part.first <= part.last /\ part.last <= hi
                       /\ part.step > 0

ParseField(parts, lo, hi) ==
    IF \A p \in parts : Valid(p, lo, hi)
    THEN UNION {{v \in p.first..p.last : (v - p.first) % p.step = 0} : p \in parts}
    ELSE {}

ParseCron(e) ==
    [seconds |-> ParseField(e.seconds, 0, SecondsPerMinute - 1),
     minutes |-> ParseField(e.minutes, 0, MinutesPerHour - 1),
     hours   |-> ParseField(e.hours, 0, HoursPerDay - 1),
     days    |-> ParseField(e.days, 1, MaxDay),
     months  |-> ParseField(e.months, 1, Len(MonthDays)),
     dows    |-> ParseField(e.dows, 0, DaysPerWeek - 1)]

(* An expression with a field that does not parse is refused. *)
Schedules == {c \in {ParseCron(e) : e \in Expressions} : \A f \in DOMAIN c : c[f] # {}}

-----------------------------------------------------------------------------
(* Time: package time of Go *)

Offset(z, t) == IF t < z.at THEN z.before ELSE z.after

(* The seconds on the wall at the instant t. *)
Wall(z, t) == t + Offset(z, t)

(* What the calendar and the clock show then. *)
Shown(w) ==
    LET d == DateOf[w \div Day]
    IN  [year |-> d[1], month |-> d[2], day |-> d[3],
         dow |-> (w \div Day) % DaysPerWeek,
         hour |-> (w % Day) \div Hour,
         minute |-> (w % Hour) \div SecondsPerMinute,
         second |-> w % SecondsPerMinute]

Local(z, t) == Shown(Wall(z, t))

(* A time the clocks leave out, or show twice, is taken with the offset    *)
(* that holds at that number of seconds in UTC, looked up once more.       *)
Instant(z, w) == w - Offset(z, w - Offset(z, w))

(* time.Date: a day, an hour or a minute too many runs over into the next. *)
Date(z, y, m, d, h, mi, s) ==
    Instant(z, (FirstDay(y, m) + d - 1) * Day + h * Hour + mi * SecondsPerMinute + s)

UTC == [before |-> 0, after |-> 0, at |-> 0]

(* The bound on the calendar: no search comes to its end, from any time it *)
(* may start from, and clocks are not changed at its very ends.            *)
ASSUME LongEnough ==
    \A z \in Zones \cup {UTC} :
        /\ \A t \in Froms : {Wall(z, t), Wall(z, t + 1)} \subseteq Walls
        /\ \A f \in Froms, n \in Nows \cup {0} :
              Wall(z, f + n) < FirstDay(LastYear - Years, 1) * Day
        /\ z.before # z.after =>
              \A jump \in {z.before - z.after, z.after - z.before} :
                  /\ z.at >= jump /\ z.at + z.before >= jump
                  /\ z.at + z.after + jump \in Walls

-----------------------------------------------------------------------------
VARIABLES
    sched,      \* the parsed expression
    zone,       \* the location of the time NextAfter was given
    from,       \* the time the caller started from
    now,        \* tick's now; zero for Add and Resume, who take any answer
    since,      \* the time this search started from
    candidate,
    pc          \* "search", "done", or "none" when the zero time is the answer

vars == <<sched, zone, from, now, since, candidate, pc>>
call == <<sched, zone, from, now>>

TypeOK ==
    /\ sched \in Schedules
    /\ zone \in Zones \cup {UTC}
    /\ from \in Froms /\ now \in Nat /\ since \in Nat
    /\ pc \in {"search", "done", "none"}
    /\ IF pc = "none" THEN candidate = 0
       ELSE Wall(zone, candidate) \in Walls

Init ==
    /\ sched \in Schedules
    /\ from \in Froms
    /\ \/ zone \in Zones /\ now = 0
       \/ zone = UTC /\ now \in {from + n : n \in Nows}
    /\ since = from
    /\ candidate = from + 1
    /\ pc = "search"

Here == Local(zone, candidate)

MonthFits == Here.month \in sched.months
DayFits == MonthFits /\ Here.day \in sched.days /\ Here.dow \in sched.dows
HourFits == DayFits /\ Here.hour \in sched.hours
MinuteFits == HourFits /\ Here.minute \in sched.minutes
AllFit == MinuteFits /\ Here.second \in sched.seconds

(* The smallest value of a field at or after the current one, else its     *)
(* first, in the next unit above.                                          *)
Wrapped(set, current) == \A v \in set : v < current
NextOrFirst(set, current) ==
    LET choice == IF Wrapped(set, current) THEN set ELSE {v \in set : v >= current}
    IN  CHOOSE v \in choice : \A u \in choice : v <= u

SearchingOn ==                                   \* faulty: years from here
    pc = "search" /\ Here.year <= Here.year + Years

(* The loop goes on; years are counted from where it started. *)
Searching == pc = "search" /\ Here.year <= Local(zone, since).year + Years

MoveTo(t) == candidate' = t /\ UNCHANGED <<call, since, pc>>

SetMonthThisYear ==                               \* faulty: no carry
    /\ Searching /\ ~MonthFits
    /\ MoveTo(Date(zone, Here.year, NextOrFirst(sched.months, Here.month), 1, 0, 0, 0))

SetMonth ==
    /\ Searching /\ ~MonthFits
    /\ LET carry == IF Wrapped(sched.months, Here.month) THEN 1 ELSE 0
       IN  MoveTo(Date(zone, Here.year + carry, NextOrFirst(sched.months, Here.month), 1, 0, 0, 0))

SetDay ==
    /\ Searching /\ MonthFits /\ ~DayFits
    /\ MoveTo(Date(zone, Here.year, Here.month, Here.day + 1, 0, 0, 0))

SetHourOnly ==                                    \* faulty: minutes stay
    /\ Searching /\ DayFits /\ ~HourFits
    /\ IF Wrapped(sched.hours, Here.hour)
       THEN MoveTo(Date(zone, Here.year, Here.month, Here.day + 1, 0, 0, 0))
       ELSE MoveTo(Date(zone, Here.year, Here.month, Here.day,
                        NextOrFirst(sched.hours, Here.hour), Here.minute, Here.second))

SetHour ==
    /\ Searching /\ DayFits /\ ~HourFits
    /\ IF Wrapped(sched.hours, Here.hour)
       THEN MoveTo(Date(zone, Here.year, Here.month, Here.day + 1, 0, 0, 0))
       ELSE MoveTo(Date(zone, Here.year, Here.month, Here.day,
                        NextOrFirst(sched.hours, Here.hour), 0, 0))

SetMinute ==
    /\ Searching /\ HourFits /\ ~MinuteFits
    /\ IF Wrapped(sched.minutes, Here.minute)
       THEN MoveTo(Date(zone, Here.year, Here.month, Here.day, Here.hour + 1, 0, 0))
       ELSE MoveTo(Date(zone, Here.year, Here.month, Here.day, Here.hour,
                        NextOrFirst(sched.minutes, Here.minute), 0))

SetSecond ==
    /\ Searching /\ MinuteFits /\ ~AllFit
    /\ IF Wrapped(sched.seconds, Here.second)
       THEN MoveTo(Date(zone, Here.year, Here.month, Here.day, Here.hour, Here.minute + 1, 0))
       ELSE MoveTo(Date(zone, Here.year, Here.month, Here.day, Here.hour, Here.minute,
                        NextOrFirst(sched.seconds, Here.second)))

(* NextAfter answers t.  tick asks again from a time before its now. *)
Answer(t, outcome) ==
    /\ IF t < now
       THEN since' = t /\ candidate' = t + 1 /\ UNCHANGED pc
       ELSE candidate' = t /\ pc' = outcome /\ UNCHANGED since
    /\ UNCHANGED call

Found == Searching /\ AllFit /\ Answer(candidate, "done")

(* After Years years the answer is the zero time. *)
GiveUp == pc = "search" /\ ~Searching /\ Answer(0, "none")

Step == SetMonth \/ SetDay \/ SetHour \/ SetMinute \/ SetSecond \/ Found \/ GiveUp

Next == Step
Spec == Init /\ [][Next]_vars /\ WF_vars(Step)

-----------------------------------------------------------------------------
(* What a caller relies on *)

Fires(t) ==
    LET l == Local(zone, t)
    IN  /\ l.month \in sched.months /\ l.day \in sched.days /\ l.dow \in sched.dows
        /\ l.hour \in sched.hours /\ l.minute \in sched.minutes /\ l.second \in sched.seconds

(* The clocks of the zone are never changed, or are put forward by no more *)
(* than an hour, at an hour's start, to the east of Greenwich, or were put *)
(* forward before the search began.  Otherwise steps of the search may go  *)
(* backwards, or jump over what a clock put forward shows first.           *)
Reliable ==
    /\ zone.before <= zone.after
    /\ \/ from >= zone.at
       \/ zone.before = zone.after
       \/ /\ zone.before >= 0 /\ zone.after - zone.before <= Hour
          /\ (zone.at + zone.before) % Hour = 0

(* New Year's Day of the first year that is not searched. *)
Until == Date(zone, Local(zone, from).year + Years + 1, 1, 1, 0, 0, 0)

(* The answer is the first time after the one asked about, and not before  *)
(* tick's now, at which the expression fires (cron.go:225, "strictly       *)
(* after"; scheduler.go:339, the catch-up loop): the search by fields      *)
(* leaves out none.  It gives up only when nothing fires this year nor in  *)
(* the Years years to come.                                                *)
FirstMatch ==
    Reliable =>
        /\ pc = "done" => /\ candidate > from /\ candidate >= now /\ Fires(candidate)
                          /\ \A t \in (from + 1)..(candidate - 1) : t < now \/ ~Fires(t)
        /\ pc = "none" => \A t \in (from + 1)..(Until - 1) : ~Fires(t)

CanFire ==
    \E n \in DOMAIN DateOf : /\ DateOf[n][2] \in sched.months /\ DateOf[n][3] \in sched.days
                             /\ n % DaysPerWeek \in sched.dows

(* The search comes to an end: with a time when the expression has any,    *)
(* and for Add and Resume even when it has none.  (tick asks again and     *)
(* again about an expression that never fires, as the zero time it is      *)
(* answered is past: scheduler.go:340.)                                    *)
Answered ==
    /\ Reliable /\ CanFire ~> pc = "done"
    /\ Reliable /\ now = 0 ~> pc # "search"

=============================================================================
