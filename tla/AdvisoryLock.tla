---------------------------- MODULE AdvisoryLock ----------------------------
(***************************************************************************)
(* The advisory locks of lock.go: one named lock and the clients that try  *)
(* it, block on it, and release it.  tryLockOnce and Release are each one  *)
(* IMMEDIATE transaction, so an action here, whatever handle or process    *)
(* they run in.  Lock first tries without subscribing and then retries on  *)
(* any commit and at least once a second, so a blocked client may retry    *)
(* at any time.                                                            *)
(***************************************************************************)
EXTENDS LockTable

CONSTANTS
    Client,    \* callers of TryLock and Lock
    Owner,     \* lock owners
    ownerOf,   \* the owner a client locks as
    Named,     \* the clients that pass WithOwner; the others lock under
               \*   a uuid that is new at every attempt
    TTL        \* seconds

ASSUME LockAssumption ==
    /\ ownerOf \in [Client -> Owner]
    /\ NoOwner \notin Owner
    /\ Named \subseteq Client
    /\ TTL \in Nat \ {0}

VARIABLES
    row,       \* the lock's row
    pc,        \* pc[c]: "waiting" inside Lock, "out" otherwise
    handle,    \* handle[c]: what became of the *Lock c was given
    promise    \* promise[c]: seconds left of the TTL c asked for when it
               \*   got the lock; -1 when they are over

vars == <<row, pc, handle, promise>>

TypeOK ==
    /\ row \in RowOf(Owner, TTL)
    /\ pc \in [Client -> {"out", "waiting"}]
    /\ handle \in [Client -> {"none", "held", "released"}]
    /\ promise \in [Client -> -1..TTL]

Init ==
    /\ row = Absent
    /\ pc = [c \in Client |-> "out"]
    /\ handle = [c \in Client |-> "none"]
    /\ promise = [c \in Client |-> -1]

-----------------------------------------------------------------------------
(* tryLockOnce gives c the lock when the row left in the table is under    *)
(* the owner c came with: its own insertion, or one of the same name.      *)
Succeeds(c) ==
    \/ Purged(row) = Absent
    \/ c \in Named /\ row.owner = ownerOf[c]

Acquire(c) ==
    /\ Succeeds(c)
    /\ row' = Tried(row, ownerOf[c], TTL)
    /\ handle' = [handle EXCEPT ![c] = "held"]
    /\ promise' = [promise EXCEPT ![c] = TTL]

(* TryLock, and the first try of Lock, that succeed. *)
TryLock(c) ==
    /\ pc[c] = "out"
    /\ Acquire(c)
    /\ UNCHANGED pc

(* Lock finds the lock held and waits for a commit or a second to pass.    *)
LockWaits(c) ==
    /\ pc[c] = "out"
    /\ ~Succeeds(c)
    /\ pc' = [pc EXCEPT ![c] = "waiting"]
    /\ UNCHANGED <<row, handle, promise>>

LockRetry(c) ==
    /\ pc[c] = "waiting"
    /\ Acquire(c)
    /\ pc' = [pc EXCEPT ![c] = "out"]

(* The context is cancelled, or a retry fails with another error. *)
LockGivesUp(c) ==
    /\ pc[c] = "waiting"
    /\ pc' = [pc EXCEPT ![c] = "out"]
    /\ UNCHANGED <<row, handle, promise>>

(* Release deletes the row if it is still under the handle's owner.  It    *)
(* never clears l.acquired, so a second Release deletes again.             *)
Release(c) ==
    /\ pc[c] = "out" /\ handle[c] # "none"
    /\ row' = Deleted(row, ownerOf[c])
    /\ handle' = [handle EXCEPT ![c] = "released"]
    /\ UNCHANGED <<pc, promise>>

(* The transaction of Release fails (WithLock ignores the error), or the   *)
(* client's process dies: the row stays until it runs out.                 *)
Abandon(c) ==
    /\ pc' = [pc EXCEPT ![c] = "out"]
    /\ handle' = [handle EXCEPT ![c] = "none"]
    /\ UNCHANGED <<row, promise>>

Second ==
    /\ row' = Aged(row)
    /\ promise' = [c \in Client |-> IF promise[c] < 0 THEN -1 ELSE promise[c] - 1]
    /\ UNCHANGED <<pc, handle>>

-----------------------------------------------------------------------------
Next ==
    \/ Second
    \/ \E c \in Client :
          \/ TryLock(c)
          \/ LockWaits(c)
          \/ LockRetry(c)
          \/ LockGivesUp(c)
          \/ Release(c)
          \/ Abandon(c)

(* Time passes, and the one-second timer of a blocked client fires. *)
Fairness == WF_vars(Second) /\ \A c \in Client : WF_vars(LockRetry(c))

Spec == Init /\ [][Next]_vars /\ Fairness

-----------------------------------------------------------------------------
Holds(c) == handle[c] = "held" /\ promise[c] >= 0

(* Two clients that both have a *Lock within the TTL they asked for lock   *)
(* as one owner (lock.go:13, options.go:201).                              *)
MutualExclusion ==
    \A c, d \in Client : Holds(c) /\ Holds(d) => ownerOf[c] = ownerOf[d]

(* A client's lock is in the table, under its owner, for as long as the    *)
(* client was promised.                                                    *)
HoldBacked ==
    \A c \in Client :
        Holds(c) => row.owner = ownerOf[c] /\ row.left = promise[c]

(* A lock changes owner only when its TTL is over or through a Release of  *)
(* a client of that owner (lock.go:22).                                    *)
OnlyOwnerReleases ==
    [][row.owner # NoOwner /\ row'.owner # row.owner =>
          \/ row.left < 0
          \/ \E c \in Client : /\ ownerOf[c] = row.owner
                               /\ handle[c] # "none" /\ handle'[c] = "released"]_vars

(* Nobody alive has the lock: no row, or one whose client is gone. *)
Abandoned == \A c \in Client : handle[c] = "held" => row.owner # ownerOf[c]

(* A client blocked in Lock gets a lock that was released, or whose holder *)
(* died, unless another one does (lock.go:110).                            *)
LockRecovered ==
    \A c \in Client :
        pc[c] = "waiting" /\ Abandoned ~> pc[c] # "waiting" \/ ~Abandoned

=============================================================================
