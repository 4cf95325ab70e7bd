----------------------------- MODULE ClockBarrier -----------------------------
(***************************************************************************)
(* ClockBarrier: a barrier with one timeout for all, counted from the      *)
(* first arrival.  Whoever sees it pass breaks the barrier.                *)
(*                                                                         *)
(* _generation only grows and is only compared with a caller's own copy:   *)
(* the model keeps the set `current` of the threads whose copy equals it.  *)
(* _start_time is kept by what is asked of it: not set, running, or more   *)
(* than _timeout ago.  No controller and no on_broken callback.            *)
(***************************************************************************)
EXTENDS Waiting

CONSTANT MaxParties    \* bound on the threshold

ASSUME ClockAssumption == MaxParties \in Nat \ {0}

VARIABLES
  clockAt,
  clock,      \* parties, count, start, broken, and how far dispose has come
  current     \* threads whose my_generation is _generation

clockVars == <<clockAt, clock, current>>

ClockInit ==
  /\ clockAt = Everywhere("out")
  /\ \E n \in 1 .. MaxParties :
       clock = [parties |-> n, count |-> 0, start |-> "unset", broken |-> FALSE,
                disposed |-> "no"]
  /\ current = {}

-----------------------------------------------------------------------------
(* wait                                                                    *)

Refused == clock.broken \/ clock.disposed # "no"

\* _advance_generation: everybody is woken and the next round begins.
Advance(t) ==
  /\ clock' = [clock EXCEPT !.count = 0, !.start = "unset"]
  /\ current' = {}
  /\ clockAt' = Roused(clockAt)

\* _break_barrier_locked: the round stays, so does its count.
Break == [clock EXCEPT !.broken = TRUE]

Arrival ==
  [clock EXCEPT !.count = @ + 1,
                !.start = IF clock.count = 0 THEN "running" ELSE @]

Arrive(t) == clockAt[t] = "out" /\ ~Refused

Complete(t) ==
  /\ Arrive(t)
  /\ clock.count + 1 = clock.parties
  /\ Advance(t)

ArriveInTime(t) ==
  /\ Arrive(t)
  /\ clock.count + 1 # clock.parties
  /\ Arrival.start # "over"
  /\ clock' = Arrival
  /\ current' = current \union {t}
  /\ clockAt' = Sent(clockAt, t, "wait")

ArriveTooLate(t) ==
  /\ Arrive(t)
  /\ clock.count + 1 # clock.parties
  /\ Arrival.start = "over"
  /\ clock' = [Arrival EXCEPT !.broken = TRUE]
  /\ clockAt' = Roused(clockAt)
  /\ UNCHANGED current

\* The timeout of the round passes, and every parked thread sees it do so.
Elapse ==
  /\ clock.start = "running"
  /\ clock' = [clock EXCEPT !.start = "over"]
  /\ UNCHANGED <<clockAt, current>>

TimeUp(t) ==
  /\ clockAt[t] = "wait" /\ clock.start = "over"
  /\ clockAt' = Sent(clockAt, t, "woken")
  /\ UNCHANGED <<clock, current>>

\* The round is over for the thread: it returns, or raises when the barrier
\* is broken by then.
Depart(t) ==
  /\ clockAt[t] = "woken" /\ t \notin current
  /\ clockAt' = Sent(clockAt, t, "out")
  /\ UNCHANGED <<clock, current>>

ParkAgain(t) ==
  /\ clockAt[t] = "woken" /\ t \in current
  /\ clock.start # "over"
  /\ clockAt' = Sent(clockAt, t, "wait")
  /\ UNCHANGED <<clock, current>>

BreakAndRaise(t) ==
  /\ clockAt[t] = "woken" /\ t \in current
  /\ clock.start = "over"
  /\ clock' = Break
  /\ clockAt' = Sent(IF clock.broken THEN clockAt ELSE Roused(clockAt), t, "out")
  /\ current' = current \ {t}

-----------------------------------------------------------------------------
(* The owner                                                               *)

BreakByHand ==
  /\ ~Refused
  /\ clock' = Break
  /\ clockAt' = Roused(clockAt)
  /\ UNCHANGED current

\* Slip: the reset keeps the generation.
ResetRound ==
  /\ clock' = [clock EXCEPT !.broken = FALSE, !.count = 0, !.start = "unset"]
  /\ clockAt' = Roused(clockAt)
  /\ UNCHANGED current

\* Slip: the reset leaves the threads of the round counted.
ResetUncounted ==
  /\ clock' = [clock EXCEPT !.broken = FALSE, !.start = "unset"]
  /\ clockAt' = Roused(clockAt)
  /\ current' = {}

ClockReset ==
  /\ clock' = [clock EXCEPT !.broken = FALSE, !.count = 0, !.start = "unset"]
  /\ clockAt' = Roused(clockAt)
  /\ current' = {}

\* dispose sets its flag without the lock and then breaks the barrier.
ClockMarkDisposed ==
  /\ clock.disposed = "no"
  /\ clock' = [clock EXCEPT !.disposed = "marked"]
  /\ UNCHANGED <<clockAt, current>>

ClockDispose ==
  /\ clock.disposed = "marked"
  /\ clock' = [Break EXCEPT !.disposed = "done"]
  /\ clockAt' = Roused(clockAt)
  /\ UNCHANGED current

-----------------------------------------------------------------------------

ClockResume(t) == TimeUp(t) \/ Depart(t) \/ ParkAgain(t) \/ BreakAndRaise(t)

ClockNext ==
  \/ Elapse \/ BreakByHand \/ ClockReset \/ ClockMarkDisposed \/ ClockDispose
  \/ \E t \in Threads :
       Complete(t) \/ ArriveInTime(t) \/ ArriveTooLate(t) \/ ClockResume(t)

ClockSpec == ClockInit /\ [][ClockNext]_clockVars

-----------------------------------------------------------------------------

(* _count is the crowd of this round: as long as the barrier is whole, the *)
(* threads counted are those that wait in the current generation, fewer    *)
(* than the threshold, and the clock runs exactly while there are any.  A  *)
(* thread of an earlier round that has not left yet is not among them      *)
(* (wait, reset, _advance_generation).                                     *)
CountIsCrowd ==
  ~clock.broken =>
    /\ current \subseteq Within(clockAt)
    /\ clock.count = Cardinality(current)
    /\ clock.count < clock.parties
    /\ clock.start = "unset" <=> current = {}

(* Every wait comes to an end, by the threshold, a reset or the timeout,   *)
(* whatever is released, reset or disposed meanwhile (wait, release,       *)
(* reset, dispose).                                                        *)
ClockWaitsEnd ==
  \A t \in Threads : (clockAt[t] = "wait") ~> (clockAt[t] = "out")

=============================================================================
