------------------------ MODULE UpdateWatcherProofs -------------------------
(* The watcher owes a wake to every loop that sleeps over a commit.        *)
EXTENDS UpdateWatcher, TLAPS

LEMMA InitWake == Init => WakeInv
<1>. SUFFICES ASSUME Init PROVE WakeInv
  OBVIOUS
<1>1. TypeOK
  BY DEF Init, TypeOK, Unread, WatcherStates, LoopStates
<1>2. /\ last <= version /\ watcher = "starting" /\ ~broken
      /\ \A w \in Waiter : pc[w] = "out"
  BY DEF Init, Unread
<1>3. QED
  BY <1>1, <1>2 DEF WakeInv, OwedWake

(* Whatever goes wrong sets faulted, and it stays set. *)
LEMMA NextType ==
    ASSUME TypeOK, [Next]_vars
    PROVE  TypeOK' /\ (faulted => faulted')
<1>. USE DEF TypeOK, Unread, watcherVars, loopVars, WatcherStates, LoopStates
<1>1. CASE UNCHANGED vars
  BY <1>1 DEF vars
<1>2. CASE Commit
  BY <1>2 DEF Commit
<1>3. CASE Close
  BY <1>3 DEF Close
<1>4. CASE Start
  BY <1>4 DEF Start
<1>5. CASE StartFails
  BY <1>5 DEF StartFails
<1>6. CASE Poll
  BY <1>6 DEF Poll
<1>7. CASE FileGone
  BY <1>7 DEF FileGone
<1>8. CASE Stopped
  BY <1>8 DEF Stopped
<1>9. CASE Wake
  <2>1. token' \in [Waiter -> BOOLEAN]
    BY <1>9 DEF Wake, NotifyAll, Subscribed
  <2>2. QED
    BY <1>9, <2>1 DEF Wake
<1>10. CASE WakeFailed
  <2>1. token' \in [Waiter -> BOOLEAN]
    BY <1>10 DEF WakeFailed, NotifyAll, Subscribed
  <2>2. QED
    BY <1>10, <2>1 DEF WakeFailed
<1>11. CASE PollFails
  BY <1>11 DEF PollFails
<1>12. CASE Reopen
  BY <1>12 DEF Reopen
<1>13. CASE ReopenFails
  BY <1>13 DEF ReopenFails
<1>14. CASE Rebase
  BY <1>14 DEF Rebase
<1>15. ASSUME NEW w \in Waiter, Read(w) PROVE TypeOK' /\ (faulted => faulted')
  BY <1>15 DEF Read
<1>16. ASSUME NEW w \in Waiter, ReadClosed(w) PROVE TypeOK' /\ (faulted => faulted')
  BY <1>16 DEF ReadClosed
<1>17. ASSUME NEW w \in Waiter, Woken(w) PROVE TypeOK' /\ (faulted => faulted')
  BY <1>17 DEF Woken
<1>18. ASSUME NEW w \in Waiter, Timeout(w) PROVE TypeOK' /\ (faulted => faulted')
  BY <1>18 DEF Timeout
<1>19. ASSUME NEW w \in Waiter, Subscribe(w) PROVE TypeOK' /\ (faulted => faulted')
  BY <1>19 DEF Subscribe
<1>20. ASSUME NEW w \in Waiter, Leave(w) PROVE TypeOK' /\ (faulted => faulted')
  BY <1>20 DEF Leave
<1>21. ASSUME NEW w \in Waiter, Sleep(w) PROVE TypeOK' /\ (faulted => faulted')
  BY <1>21 DEF Sleep
<1>22. QED
  BY <1>1, <1>2, <1>3, <1>4, <1>5, <1>6, <1>7, <1>8, <1>9, <1>10,
     <1>11, <1>12, <1>13, <1>14, <1>15, <1>16, <1>17, <1>18, <1>19,
     <1>20, <1>21
     DEF Next, WatcherStep, LoopStep

(* A step after which nothing has gone wrong yet is one of the plain       *)
(* cycle's, and keeps the debt of every sleeper.                           *)
LEMMA NextWake ==
    ASSUME WakeInv, [Next]_vars
    PROVE  WakeInv'
<1>1. TypeOK /\ TypeOK' /\ (faulted => faulted')
  BY NextType DEF WakeInv
<1>. SUFFICES ASSUME ~faulted, ~faulted' PROVE WakeInv'
  BY <1>1 DEF WakeInv, OwedWake
<1>. USE <1>1 DEF WakeInv, OwedWake, TypeOK, Unread, watcherVars, loopVars
<1>2. CASE UNCHANGED vars
  BY <1>2 DEF vars
<1>3. CASE Commit \/ Close
  BY <1>3 DEF Commit, Close
<1>4. CASE Start
  BY <1>4 DEF Start
<1>5. CASE Poll \/ Stopped
  BY <1>5 DEF Poll, Stopped
<1>6. CASE Wake
  <2>1. \A w \in Waiter : pc[w] # "out" => token'[w]
    BY <1>6 DEF Wake, NotifyAll, Subscribed
  <2>2. QED
    BY <1>6, <2>1 DEF Wake
<1>7. ASSUME PollFails \/ WakeFailed \/ Reopen \/ ReopenFails \/ Rebase
             \/ StartFails \/ FileGone
      PROVE  FALSE
  BY <1>7 DEF PollFails, WakeFailed, Reopen, ReopenFails, Rebase, StartFails,
              FileGone
<1>8. ASSUME NEW w \in Waiter, Subscribe(w)
      PROVE  WakeInv'
  BY <1>8 DEF Subscribe
<1>9. ASSUME NEW w \in Waiter, Read(w)
      PROVE  WakeInv'
  BY <1>9 DEF Read
<1>10. ASSUME NEW w \in Waiter,
              Sleep(w) \/ ReadClosed(w) \/ Woken(w) \/ Timeout(w) \/ Leave(w)
       PROVE  WakeInv'
  <2>1. CASE ReadClosed(w)
    BY <2>1 DEF ReadClosed
  <2>2. CASE Woken(w)
    BY <2>2 DEF Woken
  <2>3. CASE Timeout(w)
    BY <2>3 DEF Timeout
  <2>4. CASE Leave(w)
    BY <2>4 DEF Leave
  <2>5. CASE Sleep(w)
    BY <2>5 DEF Sleep
  <2>6. QED
    BY <1>10, <2>1, <2>2, <2>3, <2>4, <2>5
<1>11. QED
  BY <1>2, <1>3, <1>4, <1>5, <1>6, <1>7, <1>8, <1>9, <1>10
     DEF Next, WatcherStep, LoopStep

(* Every reachable state of the watcher and its loops, whatever goes       *)
(* wrong, is of its type (watcher.go:17-31).                               *)
THEOREM TypeCorrect == Spec => []TypeOK
<1>1. Init => WakeInv
  BY InitWake
<1>2. WakeInv /\ [Next]_vars => WakeInv'
  BY NextWake
<1>3. WakeInv => TypeOK
  BY DEF WakeInv
<1>4. QED
  BY <1>1, <1>2, <1>3, PTL DEF Spec

(* However many loops there are and whatever they wait for: as long as the *)
(* watcher has started before they subscribed and its reads did not fail,  *)
(* none sleeps over a commit the watcher will not tell it of               *)
(* (watcher.go:165-194).                                                   *)
THEOREM WakeOwed == Spec => []OwedWake
<1>1. Init => WakeInv
  BY InitWake
<1>2. WakeInv /\ [Next]_vars => WakeInv'
  BY NextWake
<1>3. WakeInv => OwedWake
  BY DEF WakeInv
<1>4. QED
  BY <1>1, <1>2, <1>3, PTL DEF Spec

=============================================================================
