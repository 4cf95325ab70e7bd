---------------------------- MODULE TransitBarrier ----------------------------
(***************************************************************************)
(* TransitBarrier on its TransitCondition: a barrier whose waiters wait    *)
(* once, without a loop, and run the callback the notifier handed them     *)
(* after they have the lock back.                                          *)
(*                                                                         *)
(* TransitCondition's queue holds exactly the parked threads and those     *)
(* whose timeout has passed; a notification to one of the latter is lost,  *)
(* its wait answers False all the same.  What the callbacks do is left     *)
(* out: they do not call the barrier.  No controller.                      *)
(***************************************************************************)
EXTENDS Waiting

CONSTANTS
  MaxThreshold,   \* bound on the threshold
  MaxCount        \* bound: nobody calls wait with this many counted

ASSUME TransitAssumption ==
  MaxThreshold \in Nat \ {0} /\ MaxCount \in Nat

VARIABLES
  transitAt,
  transit,     \* the settings threshold, reusable and manual; count,
               \* released, fired (_transit_fired), and how far dispose is
  orderly      \* history: nobody timed out, no reset with threads inside

transitVars == <<transitAt, transit, orderly>>

TransitInit ==
  /\ transitAt = Everywhere("out")
  /\ \E n \in 1 .. MaxThreshold, r, m \in BOOLEAN :
       transit = [threshold |-> n, reusable |-> r, manual |-> m, count |-> 0,
                  released |-> FALSE, fired |-> FALSE, disposed |-> "no"]
  /\ orderly = TRUE

-----------------------------------------------------------------------------
(* wait                                                                    *)

Disposed == transit.disposed # "no"
Spent == transit.released /\ ~transit.reusable

\* The look at is_spent is made without the lock.
Approach(t) ==
  /\ transitAt[t] = "out" /\ ~Spent
  /\ transit.count < MaxCount
  /\ transitAt' = Sent(transitAt, t, "lock")
  /\ UNCHANGED <<transit, orderly>>

\* Open (True), disposed (False), or the condition is None already (raises):
\* the thread is not counted.
PassBy(t) ==
  /\ transitAt[t] = "lock"
  /\ transit.released \/ Disposed
  /\ transitAt' = Sent(transitAt, t, "out")
  /\ UNCHANGED <<transit, orderly>>

Enters(t) == transitAt[t] = "lock" /\ ~transit.released /\ ~Disposed

Triggers == transit.count + 1 = transit.threshold /\ ~transit.manual

\* The last thread of an automatic barrier opens it; it stays counted.
Trigger(t) ==
  /\ Enters(t) /\ Triggers
  /\ transit' = [transit EXCEPT !.count = @ + 1, !.released = TRUE, !.fired = TRUE]
  /\ transitAt' = Sent(Roused(transitAt), t, "out")
  /\ UNCHANGED orderly

ParkOnce(t) ==
  /\ Enters(t) /\ ~Triggers
  /\ transit' = [transit EXCEPT !.count = @ + 1]
  /\ transitAt' = Sent(transitAt, t, "wait")
  /\ UNCHANGED orderly

WaitTooLong(t) ==
  /\ t \in Timed /\ transitAt[t] = "wait"
  /\ transitAt' = Sent(transitAt, t, "late")
  /\ UNCHANGED <<transit, orderly>>

\* Slip: the first thread out closes the barrier.
CloseBehindFirst ==
  IF transit.reusable
    THEN [transit EXCEPT !.count = @ - 1, !.released = FALSE, !.fired = FALSE]
    ELSE transit

\* A notified thread takes itself off the count of a reusable barrier; the
\* one that brings it to zero closes the barrier.
CountOut ==
  LET last == transit.count = 1 IN
  IF transit.reusable
    THEN [transit EXCEPT !.count = @ - 1, !.released = @ /\ ~last, !.fired = @ /\ ~last]
    ELSE transit

GoOn(t) ==
  /\ transitAt[t] = "woken"
  /\ transit' = IF Disposed THEN transit ELSE CountOut
  /\ transitAt' = Sent(transitAt, t, "out")
  /\ UNCHANGED orderly

\* After a timeout the thread stays counted.
GiveUp(t) ==
  /\ transitAt[t] = "late"
  /\ transitAt' = Sent(transitAt, t, "out")
  /\ orderly' = FALSE
  /\ UNCHANGED transit

-----------------------------------------------------------------------------
(* The owner                                                               *)

Open(fires) ==
  /\ ~Disposed /\ ~transit.released
  /\ transit' = [transit EXCEPT !.released = TRUE, !.fired = @ \/ fires]
  /\ transitAt' = Roused(transitAt)

TransitRelease ==
  /\ transit.manual /\ transit.count >= transit.threshold
  /\ Open(TRUE)
  /\ UNCHANGED orderly

TransitOverride == Open(TRUE) /\ UNCHANGED orderly

\* Slip: the callback is handed over to one thread only.
ReleaseOneWithAction ==
  /\ ~Disposed /\ ~transit.released
  /\ transit' = [transit EXCEPT !.released = TRUE]
  /\ IF Waiters(transitAt) = {} THEN UNCHANGED transitAt
     ELSE \E t \in Waiters(transitAt) : transitAt' = Sent(transitAt, t, "woken")
  /\ UNCHANGED orderly

\* release_with_action: not recorded in _transit_fired.
ReleaseWithAction == Open(FALSE) /\ UNCHANGED orderly

\* Nobody is woken, and nobody inside is counted any more.
TransitReset ==
  /\ transit' = [transit EXCEPT !.count = 0, !.released = FALSE, !.fired = FALSE]
  /\ orderly' = (orderly /\ Within(transitAt) = {})
  /\ UNCHANGED transitAt

TransitMarkDisposed ==
  /\ transit.disposed = "no"
  /\ transit' = [transit EXCEPT !.disposed = "marked"]
  /\ UNCHANGED <<transitAt, orderly>>

\* notify_all under the lock, then the condition is taken down.
TransitDispose ==
  /\ transit.disposed = "marked"
  /\ transit' = [transit EXCEPT !.disposed = "done"]
  /\ transitAt' = Roused(transitAt)
  /\ UNCHANGED orderly

-----------------------------------------------------------------------------

TransitResume(t) == GoOn(t) \/ GiveUp(t)

TransitNext ==
  \/ TransitRelease \/ TransitOverride \/ ReleaseWithAction \/ TransitReset
  \/ TransitMarkDisposed \/ TransitDispose
  \/ \E t \in Threads :
       Approach(t) \/ PassBy(t) \/ Trigger(t) \/ ParkOnce(t) \/ WaitTooLong(t)
         \/ TransitResume(t)

TransitSpec == TransitInit /\ [][TransitNext]_transitVars

-----------------------------------------------------------------------------

(* Nobody stays parked in an open barrier, though wait tests nothing after *)
(* it has begun to wait, and an automatic barrier with its threshold       *)
(* counted is open (wait, release, release_with_action,                    *)
(* notify_all_override).                                                   *)
OpenHoldsNobody ==
  /\ transit.released => Waiters(transitAt) = {}
  /\ ~transit.manual /\ transit.count >= transit.threshold => transit.released

(* The rounds of a barrier do not mix, however they were opened: as long   *)
(* as nobody times out and no reset comes upon threads inside, a barrier   *)
(* that is closed has nobody of an earlier round on the way out, and its   *)
(* count is the number of threads inside, so that it takes threshold       *)
(* threads to complete it (wait, release, notify_all_override, reset).     *)
RoundsApart ==
  orderly /\ ~Disposed /\ ~transit.released =>
    /\ \A t \in Threads : transitAt[t] # "woken"
    /\ transit.count = Cardinality(Within(transitAt))

(* What the documentation of the class and of wait says of an automatic    *)
(* reusable barrier: "resets after the last thread exits".  The code does  *)
(* not count out the thread that triggers the barrier, so the count does   *)
(* not come to zero (wait).                                                *)
ResetsItself ==
  [][orderly' /\ ~Disposed' /\ transit.reusable /\ ~transit.manual
       /\ Within(transitAt) # {} /\ Within(transitAt') = {}
     => transit'.count = 0 /\ ~transit'.released]_transitVars

=============================================================================
