------------------------------- MODULE Waiting -------------------------------
(***************************************************************************)
(* What the small waiting objects share: threads that call them, and a     *)
(* condition variable.  `at` says where each thread is:                    *)
(*   out    outside of the object                                          *)
(*   lock   past the checks made without the lock, about to take it        *)
(*   wait   parked on the condition                                        *)
(*   woken  notified, about to take the lock back                          *)
(*   late   its own timeout has passed, about to take the lock back        *)
(* A `with self._condition` block is one step, cut where it waits.         *)
(***************************************************************************)
EXTENDS Integers, FiniteSets

CONSTANTS
  Threads,
  Timed      \* the threads that pass a timeout

ASSUME WaitingAssumption == IsFiniteSet(Threads) /\ Timed \subseteq Threads

Everywhere(p) == [t \in Threads |-> p]

Sent(at, t, p) == [at EXCEPT ![t] = p]

\* notify_all
Roused(at) == [t \in Threads |-> IF at[t] = "wait" THEN "woken" ELSE at[t]]

Waiters(at) == {t \in Threads : at[t] = "wait"}
Within(at) == {t \in Threads : at[t] \in {"wait", "woken", "late"}}

=============================================================================
