------------------------------- MODULE Dynaphore -------------------------------
(***************************************************************************)
(* Dynaphore: threading.Semaphore with permits added and removed at run    *)
(* time, over a threading.Condition.  The inherited acquire and release    *)
(* run the same steps as wait_for_permit and release_permit.               *)
(*                                                                         *)
(* A `with self._cond` block is one step, cut where Condition.wait gives   *)
(* the lock up.  dispose writes _disposed and _cond outside of the lock,   *)
(* in steps of their own; those writes fall before or after another        *)
(* thread's critical section, never inside it.                             *)
(***************************************************************************)
EXTENDS Waiting

CONSTANT
  MaxPermits     \* bound: the client issues no more permits than this

ASSUME DynaphoreAssumption == MaxPermits \in Nat

VARIABLES
  value,            \* _value
  permitsDisposed,  \* _disposed
  gone,             \* _cond is None
  permitAt,         \* where each thread is
  holders,          \* threads that were granted a permit and have not given it back
  issued            \* permits the client has put into circulation

permitVars == <<value, permitsDisposed, gone, permitAt, holders, issued>>
life == <<permitsDisposed, gone>>
client == <<holders, issued>>

(* out     outside of the dynaphore                                        *)
(* ask     past wait_for_permit's check, about to take the lock            *)
(* lock    in another call, about to take the lock                         *)
(* wait    blocked, in the condition's queue                               *)
(* woken   notified, about to take the lock back                           *)
(* late    its timeout passed, still in the queue                          *)
(* called  its timeout passed, then a notify took it out of the queue      *)
(* marked  in dispose, everybody notified                                  *)
(* closing in dispose, _disposed set                                       *)
(* failed  an exception left the call                                      *)
PermitPlace ==
  {"out", "ask", "lock", "wait", "woken", "late", "called", "marked", "closing",
   "failed"}

Amount == 1 .. MaxPermits

PermitsInit ==
  /\ value \in 0 .. MaxPermits
  /\ permitsDisposed = FALSE /\ gone = FALSE
  /\ permitAt = [t \in Threads |-> "out"]
  /\ holders = {}
  /\ issued = value

-----------------------------------------------------------------------------
(* threading.Condition                                                     *)

PermitGoto(t, p) == permitAt' = [permitAt EXCEPT ![t] = p]

\* A thread whose timeout passed leaves the queue only with the lock back.
Queued == {t \in Threads : permitAt[t] \in {"wait", "late"}}

Told(W) ==
  [t \in Threads |-> IF t \notin W THEN permitAt[t]
                     ELSE IF permitAt[t] = "wait" THEN "woken" ELSE "called"]

\* What Condition.notify(n) may make of at: any n queued threads, or all.
Notified(n) ==
  {Told(W) : W \in {V \in SUBSET Queued :
     Cardinality(V) = IF n <= Cardinality(Queued) THEN n ELSE Cardinality(Queued)}}

NotifyThenGoto(n, t, p) == \E f \in Notified(n) : permitAt' = [f EXCEPT ![t] = p]

NotifyAllThenGoto(t, p) == permitAt' = [Told(Queued) EXCEPT ![t] = p]

RunOut(t) ==
  /\ t \in Timed /\ permitAt[t] = "wait"
  /\ PermitGoto(t, "late")
  /\ UNCHANGED <<value, life>>

-----------------------------------------------------------------------------
(* wait_for_permit: Condition.wait_for looks at the counter once more      *)
(* after every wake-up and after the timeout.                              *)

Ask(t) ==
  /\ permitAt[t] = "out" /\ ~permitsDisposed
  /\ PermitGoto(t, "ask")
  /\ UNCHANGED <<value, life>>

Looking(t) ==
  \/ permitAt[t] \in {"woken", "late", "called"}
  \/ permitAt[t] = "ask" /\ ~gone

\* Slip: the permit is taken whatever wait_for returned.
TakeUnchecked(t) ==
  /\ Looking(t)
  /\ value' = value - 1
  /\ PermitGoto(t, "out")
  /\ UNCHANGED life

Take(t) ==
  /\ Looking(t)
  /\ value > 0
  /\ value' = value - 1
  /\ PermitGoto(t, "out")
  /\ UNCHANGED life

Block(t) ==
  /\ Looking(t) /\ permitAt[t] \in {"ask", "woken"}
  /\ value = 0
  /\ PermitGoto(t, "wait")
  /\ UNCHANGED <<value, life>>

\* No time left (or acquire(blocking=False)): False.
GoWithout(t) ==
  /\ Looking(t) /\ t \in Timed
  /\ value = 0
  /\ PermitGoto(t, "out")
  /\ UNCHANGED <<value, life>>

-----------------------------------------------------------------------------
(* release_permit, increase_permits, set_permits, decrease_permits,        *)
(* release_all, dispose                                                    *)

CallPermits(t) ==
  /\ permitAt[t] = "out" /\ ~gone
  /\ PermitGoto(t, "lock")
  /\ UNCHANGED <<value, life>>

HasLock(t) == permitAt[t] = "lock" /\ ~gone

\* Slip: one notify for the whole batch of permits.
AddNotifyOnce(t, n) ==
  /\ HasLock(t)
  /\ value' = value + n
  /\ NotifyThenGoto(1, t, "out")
  /\ UNCHANGED life

\* n permits, n notifications.
Add(t, n) ==
  /\ HasLock(t)
  /\ value' = value + n
  /\ NotifyThenGoto(n, t, "out")
  /\ UNCHANGED life

\* Slip: set_permits writes the counter and tells nobody.
SetPermitsQuietly(t, v) ==
  /\ HasLock(t)
  /\ value' = v
  /\ PermitGoto(t, "out")
  /\ UNCHANGED life

SetPermits(t, v) ==
  /\ HasLock(t)
  /\ value' = v
  /\ IF v > value THEN NotifyThenGoto(v - value, t, "out") ELSE PermitGoto(t, "out")
  /\ UNCHANGED life

\* Slip: decrease_permits does not compare n with _value.
DecreaseUnchecked(t, n) ==
  /\ HasLock(t)
  /\ value' = value - n
  /\ PermitGoto(t, "out")
  /\ UNCHANGED life

\* Refused (ValueError) when n is more than there is.
Decrease(t, n) ==
  /\ HasLock(t)
  /\ value' = IF n <= value THEN value - n ELSE value
  /\ PermitGoto(t, "out")
  /\ UNCHANGED life

ReleaseAll(t) ==
  /\ HasLock(t)
  /\ NotifyAllThenGoto(t, "out")
  /\ UNCHANGED <<value, life>>

\* dispose, one write after the other.
NotifyLast(t) ==
  /\ HasLock(t) /\ ~permitsDisposed
  /\ NotifyAllThenGoto(t, "marked")
  /\ UNCHANGED <<value, life>>

MarkPermitsDisposed(t) ==
  /\ permitAt[t] = "marked"
  /\ permitsDisposed' = TRUE
  /\ PermitGoto(t, "closing")
  /\ UNCHANGED <<value, gone>>

DropCondition(t) ==
  /\ permitAt[t] = "closing"
  /\ gone' = TRUE
  /\ PermitGoto(t, "out")
  /\ UNCHANGED <<value, permitsDisposed>>

(* A call that was on its way when _cond became None trips over it: before *)
(* it does anything, or, having the lock, when it wants to notify.         *)
Trip(t) ==
  /\ gone /\ permitAt[t] \in {"ask", "lock"}
  /\ PermitGoto(t, "failed")
  /\ UNCHANGED life

-----------------------------------------------------------------------------
(* Bookkeeping of the clients' side                                        *)

Lend(t) == t \notin holders /\ holders' = holders \union {t} /\ issued' = issued

\* n permits come in, one of them the holder's own; the others are new.
Return(t, n) ==
  LET own == IF t \in holders THEN 1 ELSE 0
  IN  /\ issued + n - own <= MaxPermits
      /\ holders' = holders \ {t}
      /\ issued' = issued + (n - own)

Resize(delta) ==
  /\ issued + delta <= MaxPermits
  /\ issued' = issued + delta
  /\ holders' = holders

\* Permits were added and nobody told: the call tripped at the notify.
TripAdding(t, n) == permitAt[t] = "lock" /\ Trip(t) /\ value' = value + n

Change(t) ==
  \/ \E n \in Amount :
       /\ Add(t, n) \/ TripAdding(t, n)
       /\ Return(t, n) \/ Resize(n)
  \/ \E n \in Amount : Decrease(t, n) /\ Resize(value' - value)
  \/ \E v \in 0 .. MaxPermits : SetPermits(t, v) /\ Resize(value' - value)

Quiet(t) ==
  /\ \/ RunOut(t) \/ (t \notin holders /\ Ask(t)) \/ Block(t) \/ GoWithout(t)
     \/ CallPermits(t) \/ ReleaseAll(t) \/ NotifyLast(t) \/ MarkPermitsDisposed(t)
     \/ DropCondition(t)
     \/ Trip(t) /\ value' = value
  /\ UNCHANGED client

Step(t) == Quiet(t) \/ (Take(t) /\ Lend(t)) \/ Change(t)

PermitsNext == \E t \in Threads : Step(t)

PermitsSpec == PermitsInit /\ [][PermitsNext]_permitVars

(* A thread that was notified or whose time is up gets the lock back if it *)
(* is free again and again; clients owe nothing.                           *)
PermitsResume(t) ==
  /\ permitAt[t] \in {"woken", "late", "called"}
  /\ (Take(t) /\ Lend(t)) \/ ((Block(t) \/ GoWithout(t)) /\ UNCHANGED client)

PermitsFairness == \A t \in Threads : SF_permitVars(PermitsResume(t))

PermitsFairSpec == PermitsSpec /\ PermitsFairness

-----------------------------------------------------------------------------

PermitsTypeOK ==
  /\ value \in Nat /\ issued \in Nat
  /\ permitsDisposed \in BOOLEAN /\ gone \in BOOLEAN
  /\ permitAt \in [Threads -> PermitPlace]
  /\ holders \subseteq Threads

Blocked == {t \in Threads : permitAt[t] = "wait"}
Underway == {t \in Threads : permitAt[t] \in {"woken", "called"}}

(* While a thread is parked, every free permit has a thread on its way to  *)
(* it, even when a notify was spent on a thread whose timeout had passed   *)
(* (wait_for_permit, release_permit, increase_permits, set_permits); only  *)
(* a call cut short by dispose leaves a permit unannounced.                *)
NoIdlePermit == Blocked # {} /\ ~gone => value <= Cardinality(Underway)

(* A free permit and a parked thread come together, or the permit goes to  *)
(* somebody else, or the dynaphore is disposed of.                         *)
PermitIsTaken == (value > 0 /\ Blocked # {}) ~> (value = 0 \/ Blocked = {} \/ gone)

(* Whatever is resized, timed out or disposed of, each permit is free or   *)
(* with one thread: the dynaphore is a PermitPool that is never closed.    *)
Pool == INSTANCE PermitPool WITH
          Amounts <- 0 .. MaxPermits,
          free <- value,
          holders <- holders,
          issued <- issued,
          closed <- FALSE

ImplementsPool == Pool!Spec

(* What dispose is said to do: no thread stays blocked in a disposed       *)
(* dynaphore (dispose, dynaphore.py:62-63).                                *)
DisposeReleases == gone ~> Blocked = {}

=============================================================================
