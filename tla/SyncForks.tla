------------------------------ MODULE SyncForks ------------------------------
(***************************************************************************)
(* SyncFork and SyncSignalFork with the Scout that watches their timeout:  *)
(* each call of use_fork takes a slot and waits until every slot is taken; *)
(* then all of them run their callables.                                   *)
(*                                                                         *)
(* Two locks are at work, and both orders occur.  The scout evaluates the  *)
(* fork's predicate and runs its timeout handler with the scout's          *)
(* condition held, and both take _selector_lock; dispose, the first        *)
(* arrival of a later round and, in a SyncSignalFork, the last arrival     *)
(* take the condition with _selector_lock held.  `selector` and `cond` say *)
(* who holds which while it asks for the other; a critical section that    *)
(* asks for nothing is one step.                                           *)
(*                                                                         *)
(* The units are counted together (module Forks has the choice of one).    *)
(* reset is called between rounds only, with nobody inside.  Callbacks do  *)
(* not call the fork; no controller.                                       *)
(***************************************************************************)
EXTENDS Waiting

CONSTANTS
  MaxRoutes,   \* bound on the number of slots
  Settings     \* the <<signal, timed, manual>> an owner may choose

ASSUME SyncForksAssumption ==
  MaxRoutes \in Nat \ {0} /\ Settings \subseteq BOOLEAN \X BOOLEAN \X BOOLEAN

Nobody == "nobody"
Owner == "owner"

VARIABLES
  forkAt,     \* where each thread is
  monitors,   \* threads that found themselves first and run the scout
  deferred,   \* threads still to be counted (the only slot, with a timeout)
  selector,   \* who holds _selector_lock and asks for the scout's condition
  cond,       \* who holds the scout's condition and asks for _selector_lock
  fork,       \* signal, timed, manual, routes; uses, blocked, closed,
              \* released, event, timedOut, disposed
  scout,      \* exists, active, latched, late (its time is over)
  ran         \* history: threads that ran their callable in this round

syncVars == <<forkAt, monitors, deferred, selector, cond, fork, scout, ran>>

SyncInit ==
  /\ forkAt = Everywhere("out")
  /\ monitors = {} /\ deferred = {}
  /\ selector = Nobody /\ cond = Nobody
  /\ \E n \in 1 .. MaxRoutes, s \in Settings :
       fork = [signal |-> s[1], timed |-> s[2], manual |-> s[3], routes |-> n,
               uses |-> 0, blocked |-> 0, closed |-> FALSE, released |-> FALSE,
               event |-> FALSE, timedOut |-> FALSE, disposed |-> FALSE]
  /\ scout = [exists |-> FALSE, active |-> FALSE, latched |-> FALSE, late |-> FALSE]
  /\ ran = {}

-----------------------------------------------------------------------------
(* use_fork up to the barrier                                              *)

Move(t, p) == forkAt' = Sent(forkAt, t, p)

\* notify_all on the scout's condition: the monitor looks again.
Pinged == [t \in Threads |-> IF forkAt[t] = "listen" THEN "look" ELSE forkAt[t]]

TakeSlot(t) ==
  /\ forkAt[t] = "out"
  /\ ~fork.disposed /\ ~fork.timedOut /\ ~fork.closed
  /\ fork.uses < fork.routes
  /\ fork' = [fork EXCEPT !.uses = @ + 1]
  /\ Move(t, "arrive")
  /\ UNCHANGED <<monitors, deferred, selector, cond, scout, ran>>

\* Every slot is taken: the caller is turned away and the fork marked closed.
NoSlot(t) ==
  /\ forkAt[t] = "out"
  /\ ~fork.disposed /\ ~fork.timedOut /\ ~fork.closed
  /\ fork.uses = fork.routes
  /\ fork' = [fork EXCEPT !.closed = TRUE]
  /\ UNCHANGED <<forkAt, monitors, deferred, selector, cond, scout, ran>>

First == fork.timed /\ fork.blocked = 0
Defers == fork.routes = 1 /\ (fork.signal => First)

\* The last arrival opens the barrier, unless that is left to release.
Counted ==
  LET n == fork.blocked + 1 IN
  IF n >= fork.routes /\ ~fork.manual
    THEN [fork EXCEPT !.blocked = n, !.closed = TRUE, !.released = fork.signal,
                      !.event = TRUE]
    ELSE [fork EXCEPT !.blocked = n]

NewScout == [exists |-> TRUE, active |-> FALSE, latched |-> FALSE, late |-> FALSE]

\* Which lock comes next: a SyncFork pings the scout after it has given
\* _selector_lock back, a SyncSignalFork does so with it, when it is full.
PingsInside(f) == f.signal /\ f.blocked >= f.routes
PingsAfter(f) == ~f.signal

AfterArrival(t, M) == IF t \in M THEN "claim" ELSE "await"

\* The arrival under _selector_lock; an old scout is reset, which asks for its
\* condition.
ArriveAtFork(t) ==
  /\ forkAt[t] = "arrive" /\ selector = Nobody
  /\ IF First /\ scout.exists
       THEN /\ selector' = t
            /\ Move(t, "renew")
            /\ UNCHANGED <<monitors, deferred, fork, scout>>
       ELSE /\ monitors' = IF First THEN monitors \union {t} ELSE monitors
            /\ scout' = IF First THEN NewScout ELSE scout
            /\ deferred' = IF Defers THEN deferred \union {t} ELSE deferred
            /\ fork' = IF Defers THEN fork ELSE Counted
            /\ IF PingsInside(fork') /\ scout'.exists
                 THEN selector' = t /\ Move(t, "pingInside")
                 ELSE /\ Move(t, IF PingsAfter(fork') THEN "ping" ELSE AfterArrival(t, monitors'))
                      /\ UNCHANGED selector
  /\ UNCHANGED <<cond, ran>>

\* scout.reset, the rest of the arrival, and for a SyncSignalFork of one slot
\* nothing more: with a timeout its only thread is deferred.
RenewScout(t) ==
  /\ forkAt[t] = "renew" /\ cond = Nobody
  /\ scout' = NewScout
  /\ monitors' = monitors \union {t}
  /\ deferred' = IF Defers THEN deferred \union {t} ELSE deferred
  /\ fork' = IF Defers THEN fork ELSE Counted
  /\ selector' = Nobody
  /\ Move(t, IF PingsAfter(fork') THEN "ping" ELSE "claim")
  /\ UNCHANGED <<cond, ran>>

PingInside(t) ==
  /\ forkAt[t] = "pingInside" /\ cond = Nobody
  /\ selector' = Nobody
  /\ forkAt' = Sent(Pinged, t, AfterArrival(t, monitors))
  /\ UNCHANGED <<monitors, deferred, cond, fork, scout, ran>>

Ping(t) ==
  /\ forkAt[t] = "ping"
  /\ scout.exists => cond = Nobody
  /\ forkAt' = Sent(IF scout.exists THEN Pinged ELSE forkAt, t,
                    IF t \in monitors THEN "claim"
                    ELSE IF t \in deferred THEN "count" ELSE "await")
  /\ UNCHANGED <<monitors, deferred, selector, cond, fork, scout, ran>>

\* A deferred thread counts itself when its scout has come back.
CountLate(t) ==
  /\ forkAt[t] = "count" /\ selector = Nobody
  /\ deferred' = deferred \ {t}
  /\ fork' = Counted
  /\ IF PingsInside(fork') /\ scout.exists
       THEN selector' = t /\ Move(t, "pingInside")
       ELSE /\ Move(t, IF PingsAfter(fork') THEN "ping" ELSE "await")
            /\ UNCHANGED selector
  /\ UNCHANGED <<monitors, cond, scout, ran>>

-----------------------------------------------------------------------------
(* Scout.monitor                                                           *)

AfterScout(t) == IF t \in deferred THEN "count" ELSE "await"

\* dispose has taken the scout away: the call fails on None.
NoScout(t) ==
  /\ forkAt[t] = "claim" /\ ~scout.exists
  /\ monitors' = monitors \ {t}
  /\ deferred' = deferred \ {t}
  /\ Move(t, "out")
  /\ UNCHANGED <<selector, cond, fork, scout, ran>>

Claim(t) ==
  /\ forkAt[t] = "claim" /\ scout.exists /\ cond = Nobody
  /\ IF scout.active \/ scout.latched
       THEN /\ monitors' = monitors \ {t}
            /\ Move(t, AfterScout(t))
            /\ UNCHANGED scout
       ELSE /\ scout' = [scout EXCEPT !.active = TRUE, !.latched = FALSE]
            /\ Move(t, "look")
            /\ UNCHANGED monitors
  /\ UNCHANGED <<deferred, selector, cond, fork, ran>>

\* wait_for takes the condition and asks the predicate ...
Look(t) ==
  /\ forkAt[t] = "look" /\ cond = Nobody
  /\ cond' = t
  /\ Move(t, "ask")
  /\ UNCHANGED <<monitors, deferred, selector, fork, scout, ran>>

\* ... which takes _selector_lock; without a scout (dispose) it raises.
Ask(t) ==
  /\ forkAt[t] = "ask"
  /\ scout.exists => selector = Nobody
  /\ cond' = Nobody
  /\ Move(t, IF ~scout.exists THEN "fail"
             ELSE IF fork.blocked >= fork.routes THEN "finish"
             ELSE IF scout.late THEN "giveUp" ELSE "listen")
  /\ UNCHANGED <<monitors, deferred, selector, fork, scout, ran>>

TimePasses(t) ==
  /\ forkAt[t] = "listen"
  /\ scout' = [scout EXCEPT !.late = TRUE]
  /\ Move(t, "look")
  /\ UNCHANGED <<monitors, deferred, selector, cond, fork, ran>>

GiveUpWaiting(t) ==
  /\ forkAt[t] = "giveUp" /\ cond = Nobody
  /\ cond' = t
  /\ Move(t, "expire")
  /\ UNCHANGED <<monitors, deferred, selector, fork, scout, ran>>

\* Slip: the handler marks the fork and wakes nobody.
TimeOutQuietly(t) ==
  /\ forkAt[t] = "expire"
  /\ scout.exists => selector = Nobody
  /\ fork' = IF scout.exists THEN [fork EXCEPT !.timedOut = TRUE, !.closed = TRUE]
             ELSE fork
  /\ cond' = Nobody
  /\ Move(t, "finish")
  /\ UNCHANGED <<monitors, deferred, selector, scout, ran>>

\* _handle_scout_timeout: whatever has happened since the predicate was asked.
TimeOut(t) ==
  /\ forkAt[t] = "expire"
  /\ scout.exists => selector = Nobody
  /\ fork' = IF scout.exists
               THEN [fork EXCEPT !.timedOut = TRUE, !.closed = TRUE, !.event = TRUE]
               ELSE fork
  /\ cond' = Nobody
  /\ Move(t, "finish")
  /\ UNCHANGED <<monitors, deferred, selector, scout, ran>>

\* The monitor's way out, by exception when the scout was disposed of.
FinishScout(t) ==
  /\ forkAt[t] \in {"finish", "fail"} /\ cond = Nobody
  /\ scout' = [scout EXCEPT !.active = FALSE, !.latched = TRUE]
  /\ monitors' = monitors \ {t}
  /\ deferred' = IF forkAt[t] = "fail" THEN deferred \ {t} ELSE deferred
  /\ Move(t, IF forkAt[t] = "fail" THEN "out" ELSE AfterScout(t))
  /\ UNCHANGED <<selector, cond, fork, ran>>

-----------------------------------------------------------------------------
(* The barrier                                                             *)

Wake(t) ==
  /\ forkAt[t] = "await" /\ fork.event
  /\ Move(t, "final")
  /\ UNCHANGED <<monitors, deferred, selector, cond, fork, scout, ran>>

\* Slip: a thread that was woken runs.
RunAnyway(t) ==
  /\ forkAt[t] = "final" /\ selector = Nobody
  /\ ran' = ran \union {t}
  /\ Move(t, "out")
  /\ UNCHANGED <<monitors, deferred, selector, cond, fork, scout>>

RunOrRaise(t) ==
  /\ forkAt[t] = "final" /\ selector = Nobody
  /\ ran' = IF fork.disposed \/ fork.timedOut THEN ran ELSE ran \union {t}
  /\ Move(t, "out")
  /\ UNCHANGED <<monitors, deferred, selector, cond, fork, scout>>

-----------------------------------------------------------------------------
(* The owner                                                               *)

ReleaseFork ==
  /\ fork.signal /\ fork.manual /\ ~fork.released /\ ~fork.disposed
  /\ selector = Nobody
  /\ fork' = [fork EXCEPT !.released = TRUE, !.closed = TRUE, !.event = TRUE]
  /\ UNCHANGED <<forkAt, monitors, deferred, selector, cond, scout, ran>>

\* A SyncFork resets its scout; a SyncSignalFork means to stop it, but marks
\* it as active.
ResetFork ==
  /\ ~fork.disposed /\ \A t \in Threads : forkAt[t] = "out"
  /\ fork' = [fork EXCEPT !.uses = 0, !.blocked = 0, !.closed = FALSE,
                          !.released = FALSE, !.event = FALSE, !.timedOut = FALSE]
  /\ scout' = IF ~scout.exists THEN scout
              ELSE IF fork.signal THEN [scout EXCEPT !.active = TRUE]
              ELSE [scout EXCEPT !.active = FALSE, !.latched = FALSE]
  /\ ran' = {}
  /\ UNCHANGED <<forkAt, monitors, deferred, selector, cond>>

DisposeFork ==
  /\ ~fork.disposed /\ selector = Nobody
  /\ fork' = [fork EXCEPT !.disposed = TRUE, !.closed = TRUE, !.event = TRUE]
  /\ selector' = IF scout.exists THEN Owner ELSE Nobody
  /\ UNCHANGED <<forkAt, monitors, deferred, cond, scout, ran>>

\* scout.dispose, with _selector_lock held.
DisposeScout ==
  /\ selector = Owner /\ cond = Nobody
  /\ scout' = [scout EXCEPT !.exists = FALSE, !.active = FALSE, !.latched = FALSE]
  /\ forkAt' = Pinged
  /\ selector' = Nobody
  /\ UNCHANGED <<monitors, deferred, cond, fork, ran>>

-----------------------------------------------------------------------------

SyncResume(t) ==
  \/ ArriveAtFork(t) \/ RenewScout(t) \/ PingInside(t) \/ Ping(t) \/ CountLate(t)
  \/ NoScout(t) \/ Claim(t) \/ Look(t) \/ Ask(t) \/ TimePasses(t)
  \/ GiveUpWaiting(t) \/ TimeOut(t) \/ FinishScout(t) \/ Wake(t) \/ RunOrRaise(t)

SyncNext ==
  \/ ReleaseFork \/ ResetFork \/ DisposeFork \/ DisposeScout
  \/ \E t \in Threads : TakeSlot(t) \/ NoSlot(t) \/ SyncResume(t)

SyncSpec == SyncInit /\ [][SyncNext]_syncVars

-----------------------------------------------------------------------------

(* Nobody runs before the house is full: when the first callable of a      *)
(* round starts, every slot is taken and counted, or the owner has         *)
(* released the fork, and no more threads run than there are slots         *)
(* (use_fork, _scout_predicate, _handle_scout_timeout, release).           *)
RunsOnlyFull ==
  ran # {} =>
    /\ fork.blocked = fork.routes \/ fork.released
    /\ Cardinality(ran) <= fork.routes

(* With a timeout everybody comes out of use_fork, with the slots filled   *)
(* or not; without one everybody does once all slots are filled (use_fork, *)
(* Scout.monitor).  A manual release is awaited without a bound, and       *)
(* dispose makes no promise.                                               *)
UsesEnd ==
  \A t \in Threads :
    (/\ forkAt[t] # "out" /\ ~fork.manual
     /\ fork.timed \/ fork.blocked = fork.routes)
       ~> (forkAt[t] = "out" \/ fork.disposed)

=============================================================================
