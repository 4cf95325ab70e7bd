---------------------------- MODULE FlowRegulator ----------------------------
(***************************************************************************)
(* FlowRegulator: a semaphore whose released permits may be held back      *)
(* (pending) while no more than a threshold of threads is waiting, over a  *)
(* SmartCondition.                                                         *)
(*                                                                         *)
(* A `with self._cond` block is one step, cut where the lock is given up   *)
(* (wait) and where _bias_threshold, which is written without the lock, is *)
(* read by the second half of a releasing call.  Between the halves the    *)
(* lock stays taken: call holds the rest of that call.  A write that falls *)
(* between two reads of one half matters if it writes None: BiasVanishes.  *)
(***************************************************************************)
EXTENDS SmartCondition

CONSTANTS
  MaxPermits,    \* bound: the client issues no more permits than this
  Timed,         \* threads that pass a timeout to acquire
  Targets,       \* the factory_ids sets a client may name, beside None
  Thresholds,    \* bias thresholds a regulator may be built with
  Retunes,       \* thresholds a client may pass to set_bias_threshold
  Faulty         \* may a callback raise?

NoBias == -1     \* bias_threshold is None

ASSUME ThreadsFinite == IsFiniteSet(Threads)
ASSUME BoundsAssumption ==
  /\ MaxPermits \in Nat
  /\ Timed \subseteq Threads
  /\ Targets \subseteq SUBSET Threads
  /\ Thresholds \subseteq Nat \union {NoBias}
  /\ Retunes \subseteq Nat \union {NoBias}
  /\ Faulty \in BOOLEAN

VARIABLES
  value,       \* _value
  pending,     \* _pending_permits
  threshold,   \* _bias_threshold
  disposed,    \* _disposed
  gone,        \* _cond is None and its queue is gone
  pc,          \* where each thread is
  arg,         \* the threshold a thread in set_bias_threshold was given
  call,        \* the second half of a call whose thread has the lock
  holders,     \* threads that were granted a permit and have not given it back
  issued       \* permits the client has put into circulation

vars == <<waiters, ahead, value, pending, threshold, disposed, gone, pc, arg,
          call, holders, issued>>

pool == <<value, pending, holders, issued>>
room == <<waiters, ahead>>
life == <<disposed, gone>>
bias == <<threshold, arg>>

(* idle   outside the regulator                                            *)
(* lock   past the checks of the call, about to take the lock              *)
(* tune   in set_bias_threshold, threshold written, about to take the lock *)
(* busy   has the lock, between the two halves of a releasing call         *)
(* wait   blocked on its Waiter's lock                                     *)
(* woken  its Waiter's lock was released, about to take the lock back      *)
(* late   its timeout passed, about to take the lock back                  *)
(* failed an exception left the call                                       *)
Place == {"idle", "lock", "tune", "busy", "wait", "woken", "late", "failed"}

NoCall == [quota |-> 0, to |-> {}]
AllIds == Targets \union {Threads}
Quota == 1 .. MaxPermits

In(p) == {t \in Threads : pc[t] = p}

Init ==
  /\ waiters = {} /\ ahead = {}
  /\ value \in 0 .. MaxPermits
  /\ pending = 0
  /\ threshold \in Thresholds
  /\ disposed = FALSE /\ gone = FALSE
  /\ pc = [t \in Threads |-> "idle"]
  /\ arg = [t \in Threads |-> NoBias]
  /\ call = NoCall
  /\ holders = {}
  /\ issued = value

-----------------------------------------------------------------------------

LockFree == \A t \in Threads : pc[t] # "busy"

\* t may run the critical section of a call other than acquire.
Inside(t) == LockFree /\ ~gone /\ pc[t] = "lock"

\* t is at the top of acquire's loop, first time or woken.
Trying(t) ==
  /\ LockFree
  /\ pc[t] = "woken" \/ (pc[t] = "lock" /\ t \notin holders)

Goto(t, p) == pc' = [pc EXCEPT ![t] = p]

(* Waiters W are selected and t goes to p: a waiter whose timeout has      *)
(* passed stays late, the others wake.                                     *)
WakeThenGoto(W, t, p) ==
  /\ Remove(W)
  /\ pc' = [u \in Threads |->
              IF u = t THEN p
              ELSE IF u \in W /\ pc[u] = "wait" THEN "woken" ELSE pc[u]]

\* Slip: a notify_all that empties the queue but stops after one Waiter.
NotifyOnlyFirst(t, p) ==
  /\ waiters' = {} /\ ahead' = {}
  /\ \E W \in SUBSET waiters :
       /\ Selected(W, 1, Threads)
       /\ pc' = [u \in Threads |->
                   IF u = t THEN p
                   ELSE IF u \in W /\ pc[u] = "wait" THEN "woken" ELSE pc[u]]

(* SmartCondition.notify_all on behalf of t.  Every waiter leaves the      *)
(* queue first; the notifier then runs each one's callback and releases    *)
(* its lock, in order, and an exception of a callback ends the loop.       *)
NotifyEverybody(t, p) ==
  \/ WakeThenGoto(waiters, t, p)
  \/ /\ Faulty
     /\ \E W \in SUBSET waiters :
          /\ W # waiters
          /\ Selected(W, Cardinality(W), Threads)
          /\ waiters' = {} /\ ahead' = {}
          /\ pc' = [u \in Threads |->
                      IF u = t THEN "failed"
                      ELSE IF u \in W /\ pc[u] = "wait" THEN "woken" ELSE pc[u]]

\* A call passes its entry checks and evaluates self._cond.
Enter(t) ==
  /\ pc[t] = "idle" /\ ~disposed
  /\ Goto(t, "lock")
  /\ UNCHANGED <<pool, room, life, bias, call>>

-----------------------------------------------------------------------------
(* acquire                                                                 *)

\* Slip: a woken thread takes a permit without looking at _disposed.
GrantUnchecked(t) ==
  /\ Trying(t)
  /\ value > 0
  /\ value' = value - 1
  /\ holders' = holders \union {t}
  /\ Goto(t, "idle")
  /\ UNCHANGED <<pending, issued, room, life, bias, call>>

Grant(t) ==
  /\ Trying(t) /\ ~disposed
  /\ value > 0
  /\ value' = value - 1
  /\ holders' = holders \union {t}
  /\ Goto(t, "idle")
  /\ UNCHANGED <<pending, issued, room, life, bias, call>>

\* Disposed of in the meantime: acquire returns False.
TurnAway(t) ==
  /\ Trying(t) /\ disposed
  /\ Goto(t, "idle")
  /\ UNCHANGED <<pool, room, life, bias, call>>

\* No permit and no time left: acquire returns False.
GiveUp(t) ==
  /\ Trying(t) /\ ~disposed
  /\ t \in Timed /\ value = 0
  /\ Goto(t, "idle")
  /\ UNCHANGED <<pool, room, life, bias, call>>

\* Slip: the flush check does not count the thread that is about to wait.
FlushDueWithoutMe ==
  /\ threshold # NoBias
  /\ pending > 0
  /\ Cardinality(waiters) > threshold

FlushDue ==
  /\ threshold # NoBias
  /\ pending > 0
  /\ Cardinality(waiters) + 1 > threshold

\* Slip: the flush forgets to reset _pending_permits.
FlushAndKeep(t) ==
  /\ Trying(t) /\ ~disposed
  /\ value = 0 /\ FlushDue
  /\ \E W \in SUBSET waiters :
       /\ Selected(W, pending, Threads)
       /\ WakeThenGoto(W, t, "idle")
  /\ value' = pending - 1
  /\ pending' = pending
  /\ holders' = holders \union {t}
  /\ UNCHANGED <<issued, life, bias, call>>

(* With this thread more than threshold threads want a permit: all pending *)
(* ones are put into circulation, as many waiters woken, and the loop goes *)
(* round once more, to the permit now there.                               *)
FlushAndGrant(t) ==
  /\ Trying(t) /\ ~disposed
  /\ value = 0 /\ FlushDue
  /\ \E W \in SUBSET waiters :
       /\ Selected(W, pending, Threads)
       /\ WakeThenGoto(W, t, "idle")
  /\ value' = pending - 1
  /\ pending' = 0
  /\ holders' = holders \union {t}
  /\ UNCHANGED <<issued, life, bias, call>>

Park(t) ==
  /\ Trying(t) /\ ~disposed
  /\ value = 0 /\ ~FlushDue
  /\ Enqueue(t)
  /\ Goto(t, "wait")
  /\ UNCHANGED <<pool, life, bias, call>>

\* The timeout of the private lock passes; the Waiter is still queued.
Expire(t) ==
  /\ t \in Timed /\ pc[t] = "wait"
  /\ Goto(t, "late")
  /\ UNCHANGED <<pool, room, life, bias, call>>

(* With the lock back, the waiter takes itself out of the queue, if it is  *)
(* still there, and acquire returns False.                                 *)
Withdraw(t) ==
  /\ LockFree /\ pc[t] = "late"
  /\ Remove({t})
  /\ Goto(t, IF gone THEN "failed" ELSE "idle")
  /\ UNCHANGED <<pool, life, bias, call>>

-----------------------------------------------------------------------------
(* release, notify, increase_permits, notify_all                           *)

Add(n) ==
  IF threshold = NoBias
    THEN value' = value + n /\ pending' = pending
    ELSE pending' = pending + n /\ value' = value

\* The permits of a release: the holder's own comes back, others are new.
Return(t, n) ==
  LET own == IF t \in holders THEN 1 ELSE 0
  IN  /\ issued + n - own <= MaxPermits
      /\ holders' = holders \ {t}
      /\ issued' = issued + (n - own)

Mint(n) ==
  /\ issued + n <= MaxPermits
  /\ issued' = issued + n
  /\ holders' = holders

Begin(t, quota, to) ==
  /\ call' = [quota |-> quota, to |-> to]
  /\ Goto(t, "busy")
  /\ UNCHANGED <<room, life, bias>>

Release(t, n, to) ==
  /\ Inside(t)
  /\ Return(t, n)
  /\ Add(n)
  /\ Begin(t, n, to)

\* notify, and increase_permits when to = Threads.
Notify(t, n, to) ==
  /\ Inside(t)
  /\ Mint(n)
  /\ Add(n)
  /\ Begin(t, n, to)

\* One permit for each waiter named; the bias flush looks at all waiters.
NotifyAll(t, to) ==
  LET n == Cardinality(waiters \intersect to)
  IN  /\ Inside(t)
      /\ n > 0
      /\ Mint(n)
      /\ Add(n)
      /\ Begin(t, Cardinality(waiters), to)

\* notify_all without a match, or a bypass with nothing pending.
NothingToDo(t) ==
  /\ LockFree /\ pc[t] = "lock"
  /\ \/ ~gone /\ \E to \in AllIds : waiters \intersect to = {}
     \/ pending = 0
  /\ Goto(t, "idle")
  /\ UNCHANGED <<pool, room, life, bias, call>>

Excess == IF Cardinality(waiters) > threshold
            THEN Cardinality(waiters) - threshold ELSE 0

\* How many pending permits the reserve lets go.
Flushable(quota) == AtMost(AtMost(pending, quota), Excess)

\* Slip: the release wakes one waiter however many permits it added.
DeliverOne(t) ==
  /\ pc[t] = "busy" /\ threshold = NoBias
  /\ \E W \in SUBSET waiters :
       /\ Selected(W, 1, call.to)
       /\ WakeThenGoto(W, t, "idle")
  /\ call' = NoCall
  /\ UNCHANGED <<pool, life, bias>>

\* The second half, bias off: wake as many as permits were added.
DeliverClassic(t) ==
  /\ pc[t] = "busy" /\ threshold = NoBias
  /\ \E W \in SUBSET waiters :
       /\ Selected(W, call.quota, call.to)
       /\ WakeThenGoto(W, t, "idle")
  /\ call' = NoCall
  /\ UNCHANGED <<pool, life, bias>>

\* Slip: the bias flush moves the permits and wakes nobody.
DeliverSilently(t) ==
  /\ pc[t] = "busy" /\ threshold # NoBias
  /\ value' = value + Flushable(call.quota)
  /\ pending' = pending - Flushable(call.quota)
  /\ Goto(t, "idle")
  /\ call' = NoCall
  /\ UNCHANGED <<holders, issued, room, life, bias>>

\* The second half, bias on: let go what the reserve allows.
DeliverBiased(t) ==
  /\ pc[t] = "busy" /\ threshold # NoBias
  /\ LET n == Flushable(call.quota)
     IN  /\ \E W \in SUBSET waiters :
              /\ Selected(W, n, call.to)
              /\ WakeThenGoto(W, t, "idle")
         /\ value' = value + n
         /\ pending' = pending - n
  /\ call' = NoCall
  /\ UNCHANGED <<holders, issued, life, bias>>

-----------------------------------------------------------------------------
(* bypass_bias, bypass_bias_and_notify, decrease_permits                   *)

Bypass(t) ==
  /\ Inside(t)
  /\ pending > 0
  /\ value' = value + pending
  /\ pending' = 0
  /\ NotifyEverybody(t, "idle")
  /\ UNCHANGED <<holders, issued, life, bias, call>>

BypassAndNotify(t, n, to) ==
  /\ Inside(t)
  /\ pending > 0
  /\ value' = value + AtMost(pending, n)
  /\ pending' = pending - AtMost(pending, n)
  /\ \E W \in SUBSET waiters :
       /\ Selected(W, n, to)
       /\ WakeThenGoto(W, t, "idle")
  /\ UNCHANGED <<holders, issued, life, bias, call>>

\* Slip: decrease_permits does not compare n with _value.
DecreaseUnchecked(t, n) ==
  /\ LockFree /\ pc[t] = "lock"
  /\ issued' = issued - n
  /\ issued' >= 0
  /\ value' = value - n
  /\ Goto(t, "idle")
  /\ UNCHANGED <<pending, holders, room, life, bias, call>>

Decrease(t, n) ==
  /\ LockFree /\ pc[t] = "lock"
  /\ n <= value
  /\ value' = value - n
  /\ issued' = issued - n
  /\ Goto(t, "idle")
  /\ UNCHANGED <<pending, holders, room, life, bias, call>>

-----------------------------------------------------------------------------
(* set_bias_threshold                                                      *)

\* The new threshold is written before the lock is asked for.
Retune(t, th) ==
  /\ pc[t] = "idle" /\ ~disposed
  /\ threshold' = th
  /\ arg' = [arg EXCEPT ![t] = th]
  /\ Goto(t, "tune")
  /\ UNCHANGED <<pool, room, life, call>>

(* Between two looks at the threshold of t, which has the lock and found   *)
(* it set, u writes None: a release leaves the pending permits where they  *)
(* are, or compares with None and raises, as acquire's flush check does.   *)
BiasVanishes(t, u) ==
  /\ u # t /\ pc[u] = "idle" /\ ~disposed
  /\ threshold # NoBias /\ threshold' = NoBias
  /\ \E p \in {"idle", "failed"} :
       /\ p = "failed" => pending > 0
       /\ \/ pc[t] = "busy" /\ call' = NoCall
          \/ Trying(t) /\ value = 0 /\ p = "failed" /\ UNCHANGED call
       /\ pc' = [pc EXCEPT ![t] = p, ![u] = "tune"]
  /\ arg' = [arg EXCEPT ![u] = NoBias]
  /\ UNCHANGED <<pool, room, life>>

Retuning(t) ==
  /\ LockFree /\ pc[t] = "tune"
  /\ arg' = [arg EXCEPT ![t] = NoBias]
  /\ UNCHANGED <<threshold, holders, issued, life, call>>

\* Bias off (None or 0): everything pending goes out and everybody wakes.
RetuneOff(t) ==
  /\ Retuning(t)
  /\ arg[t] \in {NoBias, 0}
  /\ value' = value + pending
  /\ pending' = 0
  /\ IF pending > 0
       THEN ~gone /\ NotifyEverybody(t, "idle")
       ELSE Goto(t, "idle") /\ UNCHANGED room

\* Another threshold: if enough threads wait, as many wake as were pending.
RetuneTo(t) ==
  /\ Retuning(t) /\ ~gone
  /\ arg[t] > 0
  /\ IF pending > 0 /\ Cardinality(waiters) >= arg[t]
       THEN /\ \E W \in SUBSET waiters :
                 /\ Selected(W, pending, Threads)
                 /\ WakeThenGoto(W, t, "idle")
            /\ value' = value + pending
            /\ pending' = 0
       ELSE /\ Goto(t, "idle")
            /\ UNCHANGED <<value, pending, room>>

-----------------------------------------------------------------------------
(* dispose                                                                 *)

\* Slip: dispose sets the flag and drops the condition, waking nobody.
DisposeQuietly(t) ==
  /\ Inside(t)
  /\ disposed' = TRUE /\ gone' = TRUE
  /\ UNCHANGED room
  /\ Goto(t, "idle")
  /\ UNCHANGED <<pool, bias, call>>

(* Everybody is woken and the condition dropped; when a callback raises in *)
(* notify_all, only the flag is set.                                       *)
Dispose(t) ==
  /\ Inside(t)
  /\ disposed' = TRUE
  /\ NotifyEverybody(t, "idle")
  /\ gone' = (pc'[t] = "idle")
  /\ UNCHANGED <<pool, bias, call>>

(* Calls that were on their way to the lock when _cond became None.  Those *)
(* that add or flush permits have done so when they trip over the missing  *)
(* condition; the others fail at once.                                     *)
FailWith(t) ==
  /\ LockFree /\ gone
  /\ pc[t] \in {"lock", "tune"}
  /\ Goto(t, "failed")
  /\ arg' = [arg EXCEPT ![t] = NoBias]
  /\ UNCHANGED <<threshold, room, life, call>>

LateCall(t) == FailWith(t) /\ UNCHANGED pool

LateRelease(t, n) ==
  /\ pc[t] = "lock" /\ FailWith(t)
  /\ Add(n)
  /\ Return(t, n)

LateNotify(t, n) ==
  /\ pc[t] = "lock" /\ FailWith(t)
  /\ Add(n)
  /\ Mint(n)

LateFlush(t) ==
  /\ FailWith(t)
  /\ pending > 0
  /\ \/ pc[t] = "lock"
     \/ pc[t] = "tune" /\ arg[t] \in {NoBias, 0}
  /\ value' = value + pending
  /\ pending' = 0
  /\ UNCHANGED <<holders, issued>>

-----------------------------------------------------------------------------

Acquire(t) ==
  Grant(t) \/ TurnAway(t) \/ GiveUp(t) \/ FlushAndGrant(t) \/ Park(t)

Deliver(t) == DeliverClassic(t) \/ DeliverBiased(t)

\* What patient clients do: nobody runs out of time, nobody retunes the bias.
CalmStep(t) ==
  \/ Enter(t) \/ Grant(t) \/ TurnAway(t) \/ FlushAndGrant(t) \/ Park(t)
  \/ \E n \in Quota, to \in AllIds :
       Release(t, n, to) \/ Notify(t, n, to) \/ BypassAndNotify(t, n, to)
  \/ \E to \in AllIds : NotifyAll(t, to)
  \/ NothingToDo(t) \/ Deliver(t) \/ Bypass(t)
  \/ \E n \in Quota : Decrease(t, n)
  \/ Dispose(t)
  \/ LateCall(t) \/ LateFlush(t)
  \/ \E n \in Quota : LateRelease(t, n) \/ LateNotify(t, n)

Step(t) ==
  \/ CalmStep(t)
  \/ GiveUp(t) \/ Expire(t) \/ Withdraw(t)
  \/ \E th \in Retunes : Retune(t, th)
  \/ NoBias \in Retunes /\ \E u \in Threads : BiasVanishes(t, u)
  \/ RetuneOff(t) \/ RetuneTo(t)

Next == \E t \in Threads : Step(t)

Spec == Init /\ [][Next]_vars

(* Scheduling: a thread with the lock runs on; a thread that wants the     *)
(* lock back after waiting gets it if it is free again and again.  Nothing *)
(* is assumed of clients: they may never call, release or dispose.         *)
Resume(t) == pc[t] # "lock" /\ (Acquire(t) \/ Withdraw(t))

Fairness == \A t \in Threads : WF_vars(Deliver(t)) /\ SF_vars(Resume(t))

CalmSpec == Init /\ [][\E t \in Threads : CalmStep(t)]_vars /\ Fairness

-----------------------------------------------------------------------------

TypeOK ==
  /\ waiters \subseteq Threads
  /\ ahead \subseteq waiters \X waiters
  /\ value \in Nat /\ pending \in Nat /\ issued \in Nat
  /\ threshold \in Nat \union {NoBias}
  /\ disposed \in BOOLEAN /\ gone \in BOOLEAN
  /\ pc \in [Threads -> Place]
  /\ arg \in [Threads -> Nat \union {NoBias}]
  /\ call \in [quota : Nat, to : SUBSET Threads]
  /\ holders \subseteq Threads

(* Every permit the client put into circulation is in the counter, held    *)
(* back by the bias, or with a thread: no path through acquire, the        *)
(* flushes, timeouts or disposal loses one or makes one up.                *)
PermitConservation == value + pending + Cardinality(holders) = issued

(* A permit in the counter is on offer to a thread that is on its way:     *)
(* while anybody waits, there are no more free permits than woken threads  *)
(* (acquire, release and the flushes; notify's own critical section        *)
(* excepted).                                                              *)
NoStrandedPermit ==
  \/ ~LockFree
  \/ waiters = {}
  \/ value <= Cardinality(In("woken"))

(* The bias holds permits back only as long as it may: once more threads   *)
(* wait than the threshold, nothing is pending (release, notify_all,       *)
(* acquire's flush check and the flushes by hand).                         *)
PendingOnlyInReserve ==
  LockFree /\ threshold # NoBias /\ pending > 0 => Cardinality(waiters) <= threshold

(* A blocked thread can be reached: its Waiter is in the queue notifiers   *)
(* and dispose look at (SmartCondition.wait and the notify methods).       *)
ParkedIsQueued == \A t \in Threads : pc[t] = "wait" => t \in waiters

(* Once disposed of, the regulator keeps nobody: threads blocked in        *)
(* acquire come out of it.                                                 *)
DisposeReleases ==
  disposed ~> \A t \in Threads : pc[t] \notin {"wait", "woken", "late"}

(* A free permit and a waiting thread come together, or the permit goes to *)
(* somebody else.                                                          *)
PermitIsTaken == (value > 0 /\ waiters # {}) ~> (value = 0 \/ waiters = {})

(* FlowRegulator, waiting room and bias abstracted away, is a PermitPool.  *)
Pool == INSTANCE PermitPool WITH
          Amounts <- 0 .. MaxPermits,
          free <- value + pending,
          holders <- holders,
          issued <- issued,
          closed <- disposed

ImplementsPool == Pool!Spec

=============================================================================
