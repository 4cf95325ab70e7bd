------------------------------- MODULE Latches -------------------------------
(***************************************************************************)
(* Latch and SignalLatch: both hold threads until they are opened.         *)
(*                                                                         *)
(* A Latch waits once on a threading.Condition and answers with what it    *)
(* then finds.  A SignalLatch looks, runs its callback without the lock,   *)
(* and waits in the loop of TransitCondition.wait_for.  `latch.looping`    *)
(* says which of the two the object is.                                    *)
(*                                                                         *)
(* open and reset of a SignalLatch look at _disposed before they take the  *)
(* lock, so they may run late, after dispose.  The callback does not call  *)
(* the latch; no controller.                                               *)
(***************************************************************************)
EXTENDS Waiting

VARIABLES
  latchAt,
  latch,     \* looping; open (_open); disposed: how far dispose has come
  calls,     \* which calls of open and reset are past their look at _disposed
  parking    \* threads past the look at the condition's _disposed in wait

latchVars == <<latchAt, latch, calls, parking>>

LatchInit ==
  /\ latchAt = Everywhere("out")
  /\ \E l \in BOOLEAN : latch = [looping |-> l, open |-> FALSE, disposed |-> "no"]
  /\ calls = {}
  /\ parking = {}

-----------------------------------------------------------------------------
(* closed                                                                  *)

Gone == latch.disposed = "done"

\* Nobody moves inside a critical section while a thread is in the middle of
\* TransitCondition.wait; only its dispose does not ask for the lock.
LockFree == parking = {}

\* A SignalLatch that is found closed goes on to its callback.
Knock(t) ==
  /\ latchAt[t] = "out" /\ LockFree
  /\ latch.looping /\ latch.disposed = "no" /\ ~latch.open
  /\ latchAt' = Sent(latchAt, t, "lock")
  /\ UNCHANGED <<latch, calls, parking>>

\* A Latch parks at once.
KnockOnce(t) ==
  /\ latchAt[t] = "out"
  /\ ~latch.looping /\ ~Gone /\ ~latch.open
  /\ latchAt' = Sent(latchAt, t, "wait")
  /\ UNCHANGED <<latch, calls, parking>>

OutOfTime(t) ==
  /\ t \in Timed /\ latchAt[t] = "wait"
  /\ latchAt' = Sent(latchAt, t, "late")
  /\ UNCHANGED <<latch, calls, parking>>

HasLock(t) == LockFree /\ latchAt[t] \in {"lock", "woken", "late"}

\* wait_for answers TRUE, or FALSE after a timeout; wait raises when the
\* condition has been disposed of.  A Latch answers whatever it finds.
Answer(t) ==
  /\ HasLock(t)
  /\ latch.open \/ latchAt[t] = "late" \/ ~latch.looping \/ Gone
  /\ latchAt' = Sent(latchAt, t, "out")
  /\ UNCHANGED <<latch, calls, parking>>

StartParking(t) ==
  /\ HasLock(t)
  /\ ~latch.open /\ latchAt[t] # "late" /\ latch.looping /\ ~Gone
  /\ parking' = {t}
  /\ UNCHANGED <<latchAt, latch, calls>>

ParkInQueue(t) ==
  /\ t \in parking
  /\ parking' = {}
  /\ latchAt' = Sent(latchAt, t, "wait")
  /\ UNCHANGED <<latch, calls>>

-----------------------------------------------------------------------------
(* The owner                                                               *)

\* A Latch has no _disposed: after dispose its calls trip over None.
CallOn(op) ==
  /\ latch.looping /\ latch.disposed = "no" /\ op \notin calls
  /\ calls' = calls \union {op}
  /\ UNCHANGED <<latchAt, latch, parking>>

May(op) == LockFree /\ IF latch.looping THEN op \in calls ELSE ~Gone

\* Slip: the latch is opened for those to come, the waiters are not told.
OpenQuietly ==
  /\ May("open")
  /\ calls' = calls \ {"open"}
  /\ latch' = [latch EXCEPT !.open = TRUE]
  /\ UNCHANGED <<latchAt, parking>>

OpenLatch ==
  /\ May("open")
  /\ calls' = calls \ {"open"}
  /\ latch' = [latch EXCEPT !.open = TRUE]
  /\ latchAt' = IF latch.looping /\ latch.open THEN latchAt ELSE Roused(latchAt)
  /\ UNCHANGED parking

\* close of a Latch, reset of a SignalLatch.
CloseLatch ==
  /\ May("reset")
  /\ calls' = calls \ {"reset"}
  /\ latch' = [latch EXCEPT !.open = FALSE]
  /\ UNCHANGED <<latchAt, parking>>

LatchMarkDisposed ==
  /\ latch.looping /\ latch.disposed = "no"
  /\ latch' = [latch EXCEPT !.disposed = "marked"]
  /\ UNCHANGED <<latchAt, calls, parking>>

\* dispose opens for good; a Latch loses its condition in the same step.
OpenForGood ==
  /\ LockFree
  /\ latch.disposed = IF latch.looping THEN "marked" ELSE "no"
  /\ latch' = [latch EXCEPT !.open = TRUE,
                            !.disposed = IF latch.looping THEN "opened" ELSE "done"]
  /\ latchAt' = Roused(latchAt)
  /\ UNCHANGED <<calls, parking>>

\* TransitCondition.dispose: without the lock it wakes whoever is queued.
DisposeCondition ==
  /\ latch.disposed = "opened"
  /\ latch' = [latch EXCEPT !.disposed = "done"]
  /\ latchAt' = Roused(latchAt)
  /\ UNCHANGED <<calls, parking>>

-----------------------------------------------------------------------------

LatchResume(t) == Answer(t) \/ StartParking(t) \/ ParkInQueue(t)

LatchNext ==
  \/ \E op \in {"open", "reset"} : CallOn(op)
  \/ OpenLatch \/ CloseLatch \/ LatchMarkDisposed \/ OpenForGood \/ DisposeCondition
  \/ \E t \in Threads : Knock(t) \/ KnockOnce(t) \/ OutOfTime(t) \/ LatchResume(t)

LatchSpec == LatchInit /\ [][LatchNext]_latchVars

-----------------------------------------------------------------------------

(* A latch that stays open lets everybody go who is held by it, also when  *)
(* it was opened and closed again before the thread could look, and when   *)
(* it is being disposed of: the thread that parked in between is among     *)
(* those the opening wakes (closed, open, close, reset, dispose).          *)
LatchLetsGo ==
  \A t \in Threads :
    (latchAt[t] # "out" /\ latch.open) ~> (latchAt[t] = "out" \/ ~latch.open)

=============================================================================
