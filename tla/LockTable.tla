----------------------------- MODULE LockTable ------------------------------
(***************************************************************************)
(* One row of _ganso_locks and the statements of lock.go and scheduler.go  *)
(* that write it.  expires_at and unixepoch() are whole seconds; a row is  *)
(* kept with the seconds it has left, 0 in its last second and -1 once     *)
(* expires_at < unixepoch().                                               *)
(***************************************************************************)
EXTENDS Integers

CONSTANT NoOwner     \* stands for the absence of the row

Absent == [owner |-> NoOwner, left |-> -1]

RowOf(Owner, ttl) == [owner : Owner \cup {NoOwner}, left : -1..ttl]

PurgedEarly(row) == IF row.left <= 0 THEN Absent ELSE row     \* faulty: <=

NeverPurged(row) == row                                       \* faulty: no DELETE

(* DELETE ... WHERE expires_at < unixepoch() *)
Purged(row) == IF row.left < 0 THEN Absent ELSE row

(* The statements of tryLockOnce: purge, INSERT OR IGNORE. *)
Tried(row, owner, ttl) ==
    IF Purged(row) = Absent THEN [owner |-> owner, left |-> ttl] ELSE row

DeletedByName(row, owner) == Absent                           \* faulty: any owner

(* DELETE ... WHERE owner = ? *)
Deleted(row, owner) == IF row.owner = owner THEN Absent ELSE row

(* The scheduler's heartbeat: UPDATE ... SET expires_at, by name alone. *)
Extended(row, ttl) ==
    IF row.owner = NoOwner THEN row ELSE [row EXCEPT !.left = ttl]

AgedFurther(row) == [row EXCEPT !.left = @ - 1]               \* faulty: no floor

(* A second passes. *)
Aged(row) == IF row.left < 0 THEN row ELSE [row EXCEPT !.left = @ - 1]

=============================================================================
