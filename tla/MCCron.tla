------------------------------- MODULE MCCron -------------------------------
(* A year of four or five days for TLC, a day of three hours. *)
EXTENDS Cron

MCMonthDays == <<3, 1>>

Value(v) == {[first |-> v, last |-> v, step |-> 1]}
Range(a, b, c) == {[first |-> a, last |-> b, step |-> c]}

(* All values of a field, one, some in a list.  The second month has its   *)
(* second day in every other year and its third in none.                   *)
MCExpressions ==
    [seconds : {Value(0), Range(0, 1, 1)},
     minutes : {Range(0, 1, 1), Value(1)},
     hours   : {Range(0, 2, 1), Value(1), Value(0) \cup Value(2)},
     days    : {Range(1, 3, 1), Value(2), Value(3)},
     months  : {Range(1, 2, 1), Value(1), Value(2)},
     dows    : {Range(0, 1, 1), Value(1)}]

(* Zones that never change; that go forward an hour by day and at midnight *)
(* to the east of Greenwich; and to its west, where it has been.           *)
MCZones == {[before |-> 0, after |-> 0, at |-> 0],
            [before |-> -4, after |-> -4, at |-> 0],
            [before |-> 4, after |-> 8, at |-> 72],
            [before |-> 0, after |-> 4, at |-> 72],
            [before |-> -8, after |-> -4, at |-> 60]}

MCFroms == {48 + 7 * k : k \in 0..15}

=============================================================================
