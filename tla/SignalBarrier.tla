---------------------------- MODULE SignalBarrier ----------------------------
(***************************************************************************)
(* SignalBarrier: a count-to-threshold barrier over a threading.Condition, *)
(* reusable or not, opened by the thread that completes the count or by    *)
(* hand.                                                                   *)
(*                                                                         *)
(* Every `with self._condition` block is one step, cut where               *)
(* Condition.wait_for gives the lock up.  The check of is_spent before the *)
(* block reads _released without the lock and is a step of its own.  No    *)
(* controller is attached; callbacks do not call back into the barrier.    *)
(***************************************************************************)
EXTENDS Waiting

CONSTANTS
  MaxThreshold,  \* bound on the threshold
  MaxCount,      \* bound: nobody calls wait with this many counted
  Commands,      \* what the barrier's owner may do: see Command
  Reusables,     \* the reusable flags an owner may choose
  Manuals        \* the manual_release flags an owner may choose

Command == {"release", "reset", "set_threshold", "notify_all_override", "dispose"}

ASSUME BarrierAssumption ==
  /\ MaxThreshold \in Nat \ {0}
  /\ MaxCount \in Nat
  /\ Commands \subseteq Command
  /\ Reusables \subseteq BOOLEAN
  /\ Manuals \subseteq BOOLEAN

VARIABLES
  count,       \* _count
  released,    \* _released
  disposed,    \* _disposed
  threshold,   \* _threshold
  reusable,    \* _reusable, chosen once
  manual,      \* _manual_release, chosen once
  at,          \* where each thread is
  orderly      \* history: nobody gave up, nothing was forced (see Owner)

vars == <<count, released, disposed, threshold, reusable, manual, at, orderly>>
config == <<reusable, manual>>

(* out    outside of the barrier                                           *)
(* lock   past the check of is_spent, about to take the lock               *)
(* wait   blocked in wait_for                                              *)
(* woken  notified, about to take the lock back                            *)
(* late   its timeout passed, about to take the lock back                  *)
Place == {"out", "lock", "wait", "woken", "late"}

Init ==
  /\ count = 0
  /\ released = FALSE /\ disposed = FALSE
  /\ threshold \in 1 .. MaxThreshold
  /\ reusable \in Reusables
  /\ manual \in Manuals
  /\ at = [t \in Threads |-> "out"]
  /\ orderly = TRUE

-----------------------------------------------------------------------------
(* wait                                                                    *)

Goto(t, p) == at' = [at EXCEPT ![t] = p]

\* notify_all
Awakened == [t \in Threads |-> IF at[t] = "wait" THEN "woken" ELSE at[t]]

Inside == {t \in Threads : at[t] \in {"wait", "woken", "late"}}
Parked == {t \in Threads : at[t] = "wait"}

IsSpent == released /\ ~reusable

\* A spent barrier turns the caller away.
Call(t) ==
  /\ at[t] = "out" /\ ~IsSpent
  /\ count < MaxCount
  /\ Goto(t, "lock")
  /\ UNCHANGED <<count, released>>

TurnAway(t) ==
  /\ at[t] = "lock" /\ disposed
  /\ Goto(t, "out")
  /\ UNCHANGED <<count, released>>

\* This arrival completes the count and opens the barrier.
Completes == count + 1 = threshold /\ ~manual

\* Slip: the last thread out leaves _released set.
LeaveOpen(n, open) ==
  /\ count' = IF reusable THEN n - 1 ELSE n
  /\ released' = open

\* Slip: every thread on its way out closes the barrier.
LeaveClosed(n, open) ==
  /\ count' = IF reusable THEN n - 1 ELSE n
  /\ released' = (open /\ ~reusable)

\* Slip: the count goes down twice.
LeaveTwice(n, open) ==
  IF reusable
    THEN count' = n - 2 /\ released' = (open /\ n # 2)
    ELSE count' = n /\ released' = open

(* What a thread does on its way out, n being the count it leaves behind:  *)
(* with the last one a reusable barrier closes again.                      *)
LeaveCount(n, open) ==
  IF reusable
    THEN count' = n - 1 /\ released' = (open /\ n # 1)
    ELSE count' = n /\ released' = open

\* The barrier is, or is now, open: straight through.
ArriveAndPass(t) ==
  /\ at[t] = "lock" /\ ~disposed
  /\ released \/ Completes
  /\ LeaveCount(count + 1, TRUE)
  /\ at' = [(IF Completes THEN Awakened ELSE at) EXCEPT ![t] = "out"]

ArriveAndWait(t) ==
  /\ at[t] = "lock" /\ ~disposed
  /\ ~released /\ ~Completes
  /\ count' = count + 1
  /\ Goto(t, "wait")
  /\ UNCHANGED released

Expire(t) ==
  /\ t \in Timed /\ at[t] = "wait"
  /\ Goto(t, "late")
  /\ UNCHANGED <<count, released>>

\* The predicate of wait_for holds, also after a timeout.
Leave(t) ==
  /\ at[t] \in {"woken", "late"}
  /\ released \/ disposed
  /\ LeaveCount(count, released)
  /\ Goto(t, "out")

\* It no longer holds: wait again, or give up and stay counted.
WaitAgain(t) ==
  /\ at[t] = "woken"
  /\ ~released /\ ~disposed
  /\ Goto(t, "wait")
  /\ UNCHANGED <<count, released>>

GiveUp(t) ==
  /\ at[t] = "late"
  /\ ~released /\ ~disposed
  /\ Goto(t, "out")
  /\ UNCHANGED <<count, released>>

-----------------------------------------------------------------------------
(* The owner's commands                                                    *)

\* Slip: release opens the barrier whatever the count.
ReleaseEarly ==
  /\ ~disposed /\ ~released
  /\ manual
  /\ released' = TRUE
  /\ at' = Awakened
  /\ UNCHANGED count

\* Slip: release opens the barrier and notifies nobody.
ReleaseQuietly ==
  /\ ~disposed /\ ~released
  /\ manual /\ count >= threshold
  /\ released' = TRUE
  /\ UNCHANGED <<count, at>>

Release ==
  /\ ~disposed /\ ~released
  /\ manual /\ count >= threshold
  /\ released' = TRUE
  /\ at' = Awakened
  /\ UNCHANGED count

\* Slip: set_threshold compares with == where it needs >=.
SetThresholdExactly(n) ==
  /\ ~disposed
  /\ threshold' = n
  /\ IF count = n /\ ~manual /\ ~released
       THEN released' = TRUE /\ at' = Awakened
       ELSE UNCHANGED <<released, at>>
  /\ UNCHANGED count

SetThreshold(n) ==
  /\ ~disposed
  /\ threshold' = n
  /\ IF count >= n /\ ~manual /\ ~released
       THEN released' = TRUE /\ at' = Awakened
       ELSE UNCHANGED <<released, at>>
  /\ UNCHANGED count

NotifyAllOverride ==
  /\ ~disposed /\ ~released
  /\ released' = TRUE
  /\ count' = IF reusable THEN 0 ELSE count
  /\ at' = Awakened

Reset ==
  /\ count' = 0
  /\ released' = FALSE
  /\ UNCHANGED at

\* dispose: the flag in one critical section, notify_all in the next.
MarkDisposed ==
  /\ ~disposed
  /\ disposed' = TRUE
  /\ UNCHANGED <<count, released, at>>

NotifyDisposed ==
  /\ disposed
  /\ \E t \in Threads : at[t] = "wait"
  /\ at' = Awakened
  /\ UNCHANGED <<count, released>>

-----------------------------------------------------------------------------

Move(t) == Call(t) \/ TurnAway(t) \/ ArriveAndPass(t) \/ ArriveAndWait(t) \/ Expire(t)

(* Giving up leaves the thread counted, an override lets too few through,  *)
(* and a reset forgets who is inside; a reset with nobody there makes the  *)
(* barrier as new.                                                         *)
Client(t) ==
  /\ \/ (Move(t) \/ Leave(t) \/ WaitAgain(t)) /\ UNCHANGED orderly
     \/ GiveUp(t) /\ orderly' = FALSE
  /\ UNCHANGED <<disposed, threshold, config>>

DisposeStep ==
  /\ \/ "dispose" \in Commands /\ MarkDisposed
     \/ NotifyDisposed /\ UNCHANGED disposed
  /\ UNCHANGED <<threshold, config, orderly>>

Owner ==
  \/ DisposeStep
  \/ /\ "set_threshold" \in Commands
     /\ \E n \in 1 .. MaxThreshold : SetThreshold(n)
     /\ UNCHANGED <<disposed, config, orderly>>
  \/ /\ \/ "release" \in Commands /\ Release /\ UNCHANGED orderly
        \/ "notify_all_override" \in Commands /\ NotifyAllOverride /\ orderly' = FALSE
        \/ "reset" \in Commands /\ Reset /\ orderly' = (Inside = {})
     /\ UNCHANGED <<disposed, threshold, config>>

Next == Owner \/ \E t \in Threads : Client(t)

Spec == Init /\ [][Next]_vars

Resume(t) == at[t] \in {"woken", "late"} /\ Client(t)

(* A thread that wants the lock gets it, and dispose, once begun, goes on. *)
(* Nobody has to call wait or to command anything.                         *)
Fairness ==
  /\ \A t \in Threads : WF_vars(Resume(t))
  /\ WF_vars(NotifyDisposed /\ DisposeStep)

FairSpec == Spec /\ Fairness

-----------------------------------------------------------------------------

TypeOK ==
  /\ count \in -Cardinality(Threads) .. MaxCount + Cardinality(Threads)
  /\ released \in BOOLEAN /\ disposed \in BOOLEAN
  /\ threshold \in 1 .. MaxThreshold
  /\ reusable \in BOOLEAN /\ manual \in BOOLEAN
  /\ at \in [Threads -> Place]
  /\ orderly \in BOOLEAN

(* A full house does not wait: while an automatic barrier is closed, fewer *)
(* threads than the threshold are inside (wait, set_threshold).            *)
FullHouseOpens ==
  orderly /\ ~released /\ ~manual => Cardinality(Inside) < threshold

(* Nobody is parked behind an open barrier (wait, release, set_threshold,  *)
(* notify_all_override).                                                   *)
OpenHoldsNobody == released => Parked = {}

(* Between rounds a reusable barrier is as new: with nobody inside, nobody *)
(* is counted and the barrier is closed (wait: the last thread to exit     *)
(* resets the state for the next cycle).                                   *)
RestIsReset ==
  orderly /\ reusable /\ Inside = {} => count = 0 /\ ~released

(* The barrier opens to a full house only: threshold threads are inside or *)
(* just arriving when it does (wait, release, set_threshold).              *)
OpensToFullHouse ==
  [][orderly' /\ ~released /\ released' =>
       Cardinality(Inside \union {t \in Threads : at[t] = "lock" /\ at'[t] # "lock"})
         >= threshold']_vars

(* An open barrier lets everybody out who was waiting for it, whoever      *)
(* arrives in between; so does dispose.                                    *)
OpenReleases ==
  \A t \in Threads :
    (at[t] \in {"wait", "woken"} /\ (released \/ disposed)) ~> (at[t] = "out" \/ ~orderly)

=============================================================================
