--------------------------- MODULE UpdateWatcher ----------------------------
(***************************************************************************)
(* The watcher goroutine of watcher.go and the loops that sleep on it.     *)
(*                                                                         *)
(* The watcher polls PRAGMA data_version on a connection of its own; when  *)
(* the value differs from the last one it read, it puts a token into the   *)
(* channel of every subscriber.  The channels have capacity 1: a second    *)
(* token coalesces with the first.  The loops (Queue.Claims, WaitResult,   *)
(* Stream.Subscribe, Listener.Next, Database.Lock, Scheduler.Run)          *)
(* subscribe first, then read the tables, and sleep when there is nothing  *)
(* for them; some of them also sleep on a timer.                           *)
(*                                                                         *)
(* data_version is modelled by the number of commits: two reads over one   *)
(* connection differ exactly when another connection committed between.    *)
(***************************************************************************)
EXTENDS Integers

CONSTANTS
    Waiter,      \* the loops that sleep on the watcher
    Timed,       \* those that sleep on a timer too
    Faults,      \* what may go wrong, a subset of AllFaults
    MaxCommits   \* bound: commits made

AllFaults == {"slow start", "open", "read", "file gone"}

ASSUME WatcherAssumption ==
    /\ Timed \subseteq Waiter
    /\ Faults \subseteq AllFaults
    /\ MaxCommits \in Nat

VARIABLES
    version,   \* commits made so far
    closed,    \* Database.Close was called
    watcher,   \* where the watcher's goroutine is
    last,      \* its lastVersion
    broken,    \* its connection failed and was not reopened
    faulted,   \* history: something went wrong
    token,     \* token[w]: w's channel holds a token
    pc,        \* pc[w]: where the loop w is
    seen       \* seen[w]: the commits w's last read of the tables saw

watcherVars == <<watcher, last, broken>>
loopVars == <<pc, seen>>
vars == <<version, closed, watcherVars, faulted, token, loopVars>>

Unread == -1

WatcherStates ==
    {"starting", "polling", "changed", "failed", "reopening", "rebasing", "stopped"}

LoopStates == {"out", "reading", "dealing", "waiting"}

TypeOK ==
    /\ version \in Nat
    /\ closed \in BOOLEAN
    /\ watcher \in WatcherStates
    /\ last \in Nat \cup {Unread}
    /\ broken \in BOOLEAN
    /\ faulted \in BOOLEAN
    /\ token \in [Waiter -> BOOLEAN]
    /\ pc \in [Waiter -> LoopStates]
    /\ seen \in [Waiter -> Nat \cup {Unread}]

Init ==
    /\ version = 0
    /\ closed = FALSE
    /\ watcher = "starting"
    /\ last = Unread
    /\ broken = FALSE
    /\ faulted = FALSE
    /\ token = [w \in Waiter |-> FALSE]
    /\ pc = [w \in Waiter |-> "out"]
    /\ seen = [w \in Waiter |-> Unread]

-----------------------------------------------------------------------------
(* Any connection commits a transaction. *)
Commit ==
    /\ version < MaxCommits
    /\ version' = version + 1
    /\ UNCHANGED <<closed, faulted, watcherVars, token, loopVars>>

(* Database.Close: from now on every operation answers ErrClosed, and the  *)
(* watcher is told to stop.                                                *)
Close ==
    /\ ~closed
    /\ closed' = TRUE
    /\ UNCHANGED <<version, faulted, watcherVars, token, loopVars>>

-----------------------------------------------------------------------------
(* The watcher's goroutine. *)

(* It opens its connection and reads the version it starts from, some time *)
(* after Open returned.                                                    *)
Start ==
    /\ watcher = "starting"
    /\ watcher' = "polling"
    /\ last' = version
    /\ UNCHANGED <<version, closed, faulted, broken, token, loopVars>>

StartFails ==
    /\ "open" \in Faults
    /\ watcher = "starting"
    /\ watcher' = "stopped"
    /\ faulted' = TRUE
    /\ UNCHANGED <<version, closed, last, broken, token, loopVars>>

(* A tick reads data_version. *)
Poll ==
    /\ watcher = "polling" /\ ~broken
    /\ version # last
    /\ last' = version
    /\ watcher' = "changed"
    /\ UNCHANGED <<version, closed, faulted, broken, token, loopVars>>

Subscribed == {w \in Waiter : pc[w] # "out"}

NotifySleepers ==                                  \* faulty: unbuffered channels
    token' = [w \in Waiter |-> token[w] \/ pc[w] = "waiting"]

(* notifyAll: a token for every subscriber whose channel has none. *)
NotifyAll == token' = [w \in Waiter |-> token[w] \/ w \in Subscribed]

Wake ==
    /\ watcher = "changed"
    /\ NotifyAll
    /\ watcher' = "polling"
    /\ UNCHANGED <<version, closed, faulted, last, broken, loopVars>>

(* The read of data_version fails, always so once the connection is lost:  *)
(* wake everybody, reopen, and start from the version found then.          *)
PollFails ==
    /\ watcher = "polling"
    /\ broken \/ "read" \in Faults
    /\ watcher' = "failed"
    /\ faulted' = TRUE
    /\ UNCHANGED <<version, closed, last, broken, token, loopVars>>

WakeFailed ==
    /\ watcher = "failed"
    /\ NotifyAll
    /\ watcher' = "reopening"
    /\ UNCHANGED <<version, closed, faulted, last, broken, loopVars>>

Reopen ==
    /\ watcher = "reopening"
    /\ broken' = FALSE
    /\ watcher' = "rebasing"
    /\ UNCHANGED <<version, closed, faulted, last, token, loopVars>>

ReopenFails ==
    /\ "open" \in Faults
    /\ watcher = "reopening"
    /\ broken' = TRUE
    /\ watcher' = "polling"
    /\ faulted' = TRUE
    /\ UNCHANGED <<version, closed, last, token, loopVars>>

(* The error of this read is dropped; it leaves lastVersion at 0. *)
Rebase ==
    /\ watcher = "rebasing"
    /\ \/ last' = version /\ UNCHANGED faulted
       \/ "read" \in Faults /\ last' = Unread /\ faulted' = TRUE
    /\ watcher' = "polling"
    /\ UNCHANGED <<version, closed, broken, token, loopVars>>

(* Every 100th tick: the file is gone or another one, the watcher returns. *)
FileGone ==
    /\ "file gone" \in Faults
    /\ watcher = "polling"
    /\ watcher' = "stopped"
    /\ faulted' = TRUE
    /\ UNCHANGED <<version, closed, last, broken, token, loopVars>>

Stopped ==
    /\ closed
    /\ watcher = "polling"
    /\ watcher' = "stopped"
    /\ UNCHANGED <<version, closed, faulted, last, broken, token, loopVars>>

-----------------------------------------------------------------------------
(* The loops. *)

(* A loop starts: it subscribes, with an empty channel. *)
Subscribe(w) ==
    /\ pc[w] = "out" /\ ~closed
    /\ "slow start" \in Faults \/ watcher # "starting"
    /\ faulted' = (faulted \/ watcher = "starting")
    /\ pc' = [pc EXCEPT ![w] = "reading"]
    /\ token' = [token EXCEPT ![w] = FALSE]
    /\ seen' = [seen EXCEPT ![w] = Unread]
    /\ UNCHANGED <<version, closed, watcherVars>>

(* It reads the tables ... *)
Read(w) ==
    /\ pc[w] = "reading" /\ ~closed
    /\ pc' = [pc EXCEPT ![w] = "dealing"]
    /\ seen' = [seen EXCEPT ![w] = version]
    /\ UNCHANGED <<version, closed, faulted, watcherVars, token>>

(* ... and, done with what it found, comes to its select. *)
Sleep(w) ==
    /\ pc[w] = "dealing"
    /\ pc' = [pc EXCEPT ![w] = "waiting"]
    /\ UNCHANGED <<version, closed, faulted, watcherVars, token, seen>>

ReadClosedAgain(w) ==                              \* faulty: ErrClosed ignored
    /\ pc[w] = "reading" /\ closed
    /\ pc' = [pc EXCEPT ![w] = "waiting"]
    /\ UNCHANGED <<version, closed, faulted, watcherVars, token, seen>>

(* The read answers ErrClosed: the loop returns and unsubscribes. *)
ReadClosed(w) ==
    /\ pc[w] = "reading" /\ closed
    /\ pc' = [pc EXCEPT ![w] = "out"]
    /\ UNCHANGED <<version, closed, faulted, watcherVars, token, seen>>

(* The channel has a token: take it and look again. *)
Woken(w) ==
    /\ pc[w] = "waiting" /\ token[w]
    /\ token' = [token EXCEPT ![w] = FALSE]
    /\ pc' = [pc EXCEPT ![w] = "reading"]
    /\ UNCHANGED <<version, closed, faulted, watcherVars, seen>>

TimeoutIgnored(w) ==                               \* faulty: sleeps on
    /\ pc[w] = "waiting" /\ w \in Timed
    /\ UNCHANGED vars

(* The fallback timer fires. *)
Timeout(w) ==
    /\ pc[w] = "waiting" /\ w \in Timed
    /\ pc' = [pc EXCEPT ![w] = "reading"]
    /\ UNCHANGED <<version, closed, faulted, watcherVars, token, seen>>

(* The caller's context is cancelled: the loop returns. *)
Leave(w) ==
    /\ pc[w] = "waiting"
    /\ pc' = [pc EXCEPT ![w] = "out"]
    /\ UNCHANGED <<version, closed, faulted, watcherVars, token, seen>>

-----------------------------------------------------------------------------
WatcherStep ==
    \/ Start
    \/ Poll
    \/ Wake
    \/ PollFails
    \/ WakeFailed
    \/ Reopen
    \/ ReopenFails
    \/ Rebase
    \/ Stopped

LoopStep(w) ==
    Read(w) \/ Sleep(w) \/ ReadClosed(w) \/ Woken(w) \/ Timeout(w)

Next ==
    \/ Commit
    \/ Close
    \/ WatcherStep
    \/ StartFails
    \/ FileGone
    \/ \E w \in Waiter : LoopStep(w) \/ Subscribe(w) \/ Leave(w)

(* The watcher's goroutine and the loops are scheduled, the ticker and the *)
(* fallback timers fire; nobody has to commit, close, subscribe or leave,  *)
(* and nothing has to go wrong.                                            *)
Fairness ==
    /\ WF_vars(Start \/ Poll \/ Wake \/ WakeFailed \/ Reopen \/ Rebase \/ Stopped)
    /\ \A w \in Waiter : WF_vars(LoopStep(w))

Spec == Init /\ [][Next]_vars /\ Fairness

-----------------------------------------------------------------------------
(* While nothing has gone wrong, a loop that sleeps, or is about to, over  *)
(* a commit it has not seen and with an empty channel is owed a wake: the  *)
(* watcher has not read that commit's version yet, or is about to call     *)
(* notifyAll (watcher.go:165-194; "subscribe-before-snapshot",             *)
(* queue.go:315).                                                          *)
OwedWake ==
    ~faulted => \A w \in Waiter :
        pc[w] \in {"dealing", "waiting"} /\ ~token[w] /\ seen[w] < version
            => last < version \/ watcher = "changed"

(* The inductive invariant behind OwedWake.  Until something goes wrong    *)
(* the watcher never leaves its plain cycle, and no loop subscribes before *)
(* it has read its first version.                                          *)
WakeInv ==
    /\ TypeOK
    /\ OwedWake
    /\ ~faulted =>
          /\ last <= version
          /\ watcher \in {"starting", "polling", "changed", "stopped"}
          /\ ~broken
          /\ watcher = "starting" => \A w \in Waiter : pc[w] = "out"

Current(w) == seen[w] = version \/ pc[w] = "out"

(* "so we never miss a commit that happens between our read and our wait"  *)
(* (stream.go:117): a loop never sleeps for ever over a commit.            *)
CommitsSeen ==
    \A w \in Waiter : []<>(Current(w) \/ closed)

(* What the code does keep of that: a loop with a fallback timer sees      *)
(* every commit whatever happens to the watcher (watcher.go:178), one      *)
(* without sees it while nothing has gone wrong.                           *)
CommitsSeenOrFaulted ==
    \A w \in Waiter : []<>(Current(w) \/ closed \/ (faulted /\ w \notin Timed))

(* After Close every loop with a timer ends: its next read answers         *)
(* ErrClosed.  Close itself wakes nobody (ganso.go:92).                    *)
CloseEnds == closed ~> \A w \in Timed : pc[w] = "out"

=============================================================================
