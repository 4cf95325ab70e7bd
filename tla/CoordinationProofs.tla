--------------------------- MODULE CoordinationProofs ---------------------------
(***************************************************************************)
(* Theorems about ClockBarrier, TransitBarrier, Outcome, Shards, SyncForks *)
(* and Forks for every set of threads, every bound, every number of        *)
(* shards, items and units, and every cap.                                 *)
(***************************************************************************)
EXTENDS ClockBarrier, TransitBarrier, Outcome, Shards, SyncForks, Forks,
        FiniteSetTheorems, TLAPS

-----------------------------------------------------------------------------
(* Threads that go from place to place, and how many are within.           *)

LEMMA SentPlaces ==
  ASSUME NEW P, NEW at \in [Threads -> P], NEW t \in Threads, NEW p \in P
  PROVE  /\ Sent(at, t, p) \in [Threads -> P]
         /\ \A u \in Threads : Sent(at, t, p)[u] = IF u = t THEN p ELSE at[u]
         /\ Within(Sent(at, t, p)) = IF p \in {"wait", "woken", "late"}
                                       THEN Within(at) \union {t} ELSE Within(at) \ {t}
BY DEF Sent, Within

LEMMA RousedPlaces ==
  ASSUME NEW P, "woken" \in P, NEW at \in [Threads -> P]
  PROVE  /\ Roused(at) \in [Threads -> P]
         /\ \A u \in Threads : Roused(at)[u] = IF at[u] = "wait" THEN "woken" ELSE at[u]
         /\ Within(Roused(at)) = Within(at)
         /\ Waiters(Roused(at)) = {}
BY DEF Roused, Within, Waiters

LEMMA CountType ==
  ASSUME NEW S, S \subseteq Threads
  PROVE  /\ IsFiniteSet(S) /\ Cardinality(S) \in Nat
         /\ Cardinality(S) = 0 <=> S = {}
BY FS_Subset, FS_CardinalityType, FS_EmptySet, WaitingAssumption

LEMMA MemberCounts ==
  ASSUME NEW S, S \subseteq Threads, NEW t \in Threads
  PROVE  /\ t \in S => Cardinality(S \ {t}) = Cardinality(S) - 1 /\ S \union {t} = S
         /\ t \notin S => Cardinality(S \union {t}) = Cardinality(S) + 1 /\ S \ {t} = S
BY CountType, FS_AddElement, FS_RemoveElement

-----------------------------------------------------------------------------
(* ClockBarrier                                                            *)

ClockPlace == {"out", "wait", "woken"}

ClockState ==
  [parties : 1 .. MaxParties, count : Nat, start : {"unset", "running", "over"},
   broken : BOOLEAN, disposed : {"no", "marked", "done"}]

ClockTypes ==
  /\ clockAt \in [Threads -> ClockPlace]
  /\ clock \in ClockState
  /\ current \subseteq Threads

\* CountIsCrowd is inductive by itself: a broken round is given up whole, by
\* the reset that follows.
ClockInv == ClockTypes /\ CountIsCrowd

LEMMA ClockInitInv == ClockInit => ClockInv
<1> SUFFICES ASSUME ClockInit PROVE ClockInv
  OBVIOUS
<1>1. ClockTypes
  BY DEF ClockInit, ClockTypes, ClockState, ClockPlace, Everywhere
<1>2. Cardinality(current) = 0
  BY FS_EmptySet DEF ClockInit
<1> QED
  BY <1>1, <1>2, ClockAssumption DEF ClockInit, ClockInv, CountIsCrowd

LEMMA ClockSent ==
  ASSUME clockAt \in [Threads -> ClockPlace], NEW t \in Threads, NEW p \in ClockPlace,
         clockAt' = Sent(clockAt, t, p)
  PROVE  /\ clockAt' \in [Threads -> ClockPlace]
         /\ Within(clockAt') = IF p = "out" THEN Within(clockAt) \ {t}
                                           ELSE Within(clockAt) \union {t}
BY DEF Sent, Within, ClockPlace

LEMMA ClockRoused ==
  ASSUME clockAt \in [Threads -> ClockPlace]
  PROVE  Roused(clockAt) \in [Threads -> ClockPlace]
BY RousedPlaces DEF ClockPlace

LEMMA ArrivalType ==
  ASSUME clock \in ClockState
  PROVE  /\ Arrival \in ClockState
         /\ Arrival.count = clock.count + 1 /\ Arrival.parties = clock.parties
         /\ Arrival.broken = clock.broken
         /\ Arrival.start = IF clock.count = 0 THEN "running" ELSE clock.start
<1>1. PICK n, s : n = clock.count + 1 /\ s = IF clock.count = 0 THEN "running" ELSE clock.start
  OBVIOUS
<1>2. n \in Nat /\ s \in {"unset", "running", "over"}
  BY <1>1 DEF ClockState
<1>3. Arrival = [clock EXCEPT !.count = n, !.start = s]
  BY <1>1 DEF ClockState, Arrival
<1>4. Arrival \in ClockState /\ Arrival.count = n /\ Arrival.start = s
  BY <1>2, <1>3 DEF ClockState
<1>5. Arrival.parties = clock.parties /\ Arrival.broken = clock.broken
  BY <1>3 DEF ClockState
<1> QED
  BY <1>1, <1>4, <1>5

\* A step that leaves the barrier broken only has to keep the types.
LEMMA BrokenRound ==
  ASSUME ClockTypes', clock.broken' = TRUE
  PROVE  ClockInv'
BY DEF ClockInv, CountIsCrowd

\* A step that begins a new round.
LEMMA NewRound ==
  ASSUME ClockTypes', clock'.count = 0, clock'.start = "unset", current' = {}
  PROVE  ClockInv'
<1>1. Cardinality(current') = 0
  BY FS_EmptySet
<1>2. clock'.parties \in 1 .. MaxParties
  BY DEF ClockTypes, ClockState
<1> QED
  BY <1>1, <1>2, ClockAssumption DEF ClockInv, CountIsCrowd

\* A step in which nobody joins the round or leaves it.
LEMMA SameRound ==
  ASSUME ClockInv, ClockTypes', UNCHANGED current,
         clock'.count = clock.count, clock'.parties = clock.parties,
         clock'.broken = clock.broken,
         clock'.start = "unset" <=> clock.start = "unset",
         current \subseteq Within(clockAt) => current \subseteq Within(clockAt')
  PROVE  ClockInv'
BY DEF ClockInv, CountIsCrowd

LEMMA ClockArrives ==
  ASSUME ClockInv, NEW t \in Threads, Complete(t) \/ ArriveInTime(t) \/ ArriveTooLate(t)
  PROVE  ClockInv'
<1> USE DEF ClockInv
<1>1. ~clock.broken /\ clockAt[t] = "out"
  BY DEF Complete, ArriveInTime, ArriveTooLate, Arrive, Refused
<1>2. /\ clock.parties \in 1 .. MaxParties /\ clock.count \in Nat
      /\ clock.count = Cardinality(current) /\ clock.count < clock.parties
      /\ current \subseteq Within(clockAt)
  BY <1>1 DEF ClockTypes, ClockState, CountIsCrowd
<1>3. CASE Complete(t)
  <2>1. clock' \in ClockState /\ clock'.count = 0 /\ clock'.start = "unset"
    BY <1>3 DEF Complete, Advance, ClockTypes, ClockState
  <2>2. clockAt' \in [Threads -> ClockPlace] /\ current' = {}
    BY <1>3, ClockRoused DEF Complete, Advance, ClockTypes
  <2> QED
    BY <2>1, <2>2, NewRound DEF ClockTypes
<1>4. CASE ArriveInTime(t)
  <2>1. /\ clock' \in ClockState /\ clock'.broken = clock.broken
        /\ clock'.count = clock.count + 1 /\ clock'.parties = clock.parties
        /\ clock'.start = IF clock.count = 0 THEN "running" ELSE clock.start
    BY <1>4, ArrivalType DEF ArriveInTime, ClockTypes
  <2>2. /\ clockAt' \in [Threads -> ClockPlace]
        /\ Within(clockAt') = Within(clockAt) \union {t}
    BY <1>4, ClockSent DEF ArriveInTime, ClockTypes, ClockPlace
  <2>3. t \notin current /\ current' = current \union {t} /\ current \subseteq Threads
    BY <1>1, <1>2, <1>4 DEF ArriveInTime, Within, ClockTypes
  <2>4. Cardinality(current') = clock.count + 1
    BY <1>2, <2>3, MemberCounts
  <2>5. clock.count + 1 # clock.parties
    BY <1>4 DEF ArriveInTime
  <2>6. clock'.start # "unset"
    BY <1>1, <1>2, <2>1, <2>3, CountType DEF CountIsCrowd
  <2>7. ClockTypes'
    BY <2>1, <2>2, <2>3 DEF ClockTypes
  <2>8. clock'.count < clock'.parties
    BY <1>2, <2>1, <2>5
  <2> QED
    BY <1>2, <2>1, <2>2, <2>3, <2>4, <2>6, <2>7, <2>8 DEF CountIsCrowd
<1>5. CASE ArriveTooLate(t)
  <2>1. clock' \in ClockState /\ clock'.broken = TRUE
    BY <1>5, ArrivalType DEF ArriveTooLate, ClockTypes, ClockState
  <2>2. clockAt' \in [Threads -> ClockPlace] /\ current' \subseteq Threads
    BY <1>5, ClockRoused DEF ArriveTooLate, ClockTypes
  <2> QED
    BY <2>1, <2>2, BrokenRound DEF ClockTypes
<1> QED
  BY <1>3, <1>4, <1>5

LEMMA ClockGoesOn ==
  ASSUME ClockInv, NEW t \in Threads, ClockResume(t)
  PROVE  ClockInv'
<1> USE DEF ClockInv
<1>1. CASE TimeUp(t) \/ ParkAgain(t)
  <2>1. clockAt[t] \in {"wait", "woken"} /\ UNCHANGED <<clock, current>>
    BY <1>1 DEF TimeUp, ParkAgain
  <2>2. PICK p \in {"wait", "woken"} : clockAt' = Sent(clockAt, t, p)
    BY <1>1 DEF TimeUp, ParkAgain
  <2>3. ClockTypes' /\ Within(clockAt') = Within(clockAt) \union {t}
    BY <2>1, <2>2, ClockSent DEF ClockTypes, ClockPlace
  <2> QED
    BY <2>1, <2>3, SameRound
<1>2. CASE Depart(t)
  <2>1. t \notin current /\ UNCHANGED <<clock, current>>
    BY <1>2 DEF Depart
  <2>2. ClockTypes' /\ Within(clockAt') = Within(clockAt) \ {t}
    BY <1>2, <2>1, ClockSent DEF Depart, ClockTypes, ClockPlace
  <2> QED
    BY <2>1, <2>2, SameRound
<1>3. CASE BreakAndRaise(t)
  <2>1. clock' \in ClockState /\ clock'.broken = TRUE /\ current' \subseteq Threads
    BY <1>3 DEF BreakAndRaise, Break, ClockTypes, ClockState
  <2>2. PICK f \in [Threads -> ClockPlace] : clockAt' = Sent(f, t, "out")
    BY <1>3, RousedPlaces DEF BreakAndRaise, ClockTypes, ClockPlace
  <2>3. clockAt' \in [Threads -> ClockPlace]
    BY <2>2, SentPlaces DEF ClockPlace
  <2>4. ClockTypes' /\ clock'.broken = TRUE
    BY <2>1, <2>3 DEF ClockTypes
  <2> QED
    BY <2>4, BrokenRound
<1> QED
  BY <1>1, <1>2, <1>3 DEF ClockResume

LEMMA ClockOwner ==
  ASSUME ClockInv,
         Elapse \/ BreakByHand \/ ClockReset \/ ClockMarkDisposed \/ ClockDispose
  PROVE  ClockInv'
<1> USE DEF ClockInv
<1>1. CASE Elapse \/ ClockMarkDisposed
  <2>1. /\ clock' \in ClockState /\ clock'.count = clock.count
        /\ clock'.parties = clock.parties /\ clock'.broken = clock.broken
        /\ clock'.start = "unset" <=> clock.start = "unset"
    BY <1>1 DEF Elapse, ClockMarkDisposed, ClockTypes, ClockState
  <2>2. UNCHANGED <<clockAt, current>>
    BY <1>1 DEF Elapse, ClockMarkDisposed
  <2> QED
    BY <2>1, <2>2, SameRound DEF ClockTypes
<1>2. CASE BreakByHand \/ ClockDispose
  <2>1. clock' \in ClockState /\ clock'.broken = TRUE
    BY <1>2 DEF BreakByHand, ClockDispose, Break, ClockTypes, ClockState
  <2>2. clockAt' \in [Threads -> ClockPlace] /\ UNCHANGED current
    BY <1>2, ClockRoused DEF BreakByHand, ClockDispose, ClockTypes
  <2> QED
    BY <2>1, <2>2, BrokenRound DEF ClockTypes
<1>3. CASE ClockReset
  <2>1. clock' \in ClockState /\ clock'.count = 0 /\ clock'.start = "unset"
    BY <1>3 DEF ClockReset, ClockTypes, ClockState
  <2>2. clockAt' \in [Threads -> ClockPlace] /\ current' = {}
    BY <1>3, ClockRoused DEF ClockReset, ClockTypes
  <2> QED
    BY <2>1, <2>2, NewRound DEF ClockTypes
<1> QED
  BY <1>1, <1>2, <1>3

\* ClockBarrier: as long as the barrier is whole its count is the number of
\* threads that wait in the current generation, fewer than the threshold, and
\* the clock runs exactly while there are any, for any number of threads.
THEOREM ClockCountsItsCrowd == ClockSpec => []CountIsCrowd
<1>1. ClockInit => ClockInv
  BY ClockInitInv
<1>2. ClockInv /\ [ClockNext]_clockVars => ClockInv'
  <2> SUFFICES ASSUME ClockInv, [ClockNext]_clockVars PROVE ClockInv'
    OBVIOUS
  <2>1. CASE UNCHANGED clockVars
    BY <2>1 DEF clockVars, ClockInv, ClockTypes, CountIsCrowd
  <2>2. CASE ClockNext
    BY <2>2, ClockArrives, ClockGoesOn, ClockOwner DEF ClockNext
  <2> QED
    BY <2>1, <2>2
<1>3. ClockInv => CountIsCrowd
  BY DEF ClockInv
<1> QED
  BY <1>1, <1>2, <1>3, PTL DEF ClockSpec

-----------------------------------------------------------------------------
(* TransitBarrier                                                          *)

TransitPlace == {"out", "lock", "wait", "woken", "late"}

TransitState ==
  [threshold : 1 .. MaxThreshold, reusable : BOOLEAN, manual : BOOLEAN, count : Int,
   released : BOOLEAN, fired : BOOLEAN, disposed : {"no", "marked", "done"}]

TransitTypes ==
  /\ transitAt \in [Threads -> TransitPlace]
  /\ transit \in TransitState
  /\ orderly \in BOOLEAN

\* Nobody inside is forgotten by the count; RoundsApart.
RoundFits ==
  orderly /\ ~Disposed =>
    /\ transit.count >= Cardinality(Within(transitAt))
    /\ ~transit.released =>
         /\ \A t \in Threads : transitAt[t] # "woken"
         /\ transit.count = Cardinality(Within(transitAt))

TransitInv == TransitTypes /\ OpenHoldsNobody /\ RoundFits

LEMMA TransitStateKept ==
  ASSUME transit \in TransitState, NEW n \in Int, NEW r \in BOOLEAN, NEW f \in BOOLEAN
  PROVE  [transit EXCEPT !.count = n, !.released = r, !.fired = f] \in TransitState
BY DEF TransitState

LEMMA TransitInitInv == TransitInit => TransitInv
<1> SUFFICES ASSUME TransitInit PROVE TransitInv
  OBVIOUS
<1>1. TransitTypes
  <2>1. transitAt \in [Threads -> TransitPlace] /\ orderly \in BOOLEAN
    BY DEF TransitInit, TransitPlace, Everywhere
  <2>2. transit \in TransitState
    BY DEF TransitInit, TransitState
  <2> QED
    BY <2>1, <2>2 DEF TransitTypes
<1>2. Within(transitAt) = {} /\ Waiters(transitAt) = {} /\ Cardinality({}) = 0
  BY FS_EmptySet DEF TransitInit, Everywhere, Within, Waiters
<1>3. transit.count = 0 /\ transit.released = FALSE /\ transit.threshold \in 1 .. MaxThreshold
  BY DEF TransitInit
<1>4. \A t \in Threads : transitAt[t] # "woken"
  BY DEF TransitInit, Everywhere
<1> QED
  BY <1>1, <1>2, <1>3, <1>4, TransitAssumption DEF TransitInv, OpenHoldsNobody, RoundFits

\* One thread goes to p, the others being where `f` says.
LEMMA TransitSent ==
  ASSUME transitAt \in [Threads -> TransitPlace], NEW t \in Threads,
         NEW p \in TransitPlace, NEW f \in {transitAt, Roused(transitAt)},
         transitAt' = Sent(f, t, p)
  PROVE  /\ transitAt' \in [Threads -> TransitPlace]
         /\ Within(transitAt') = IF p \in {"wait", "woken", "late"}
                                   THEN Within(transitAt) \union {t}
                                   ELSE Within(transitAt) \ {t}
         /\ p # "wait" => Waiters(transitAt') \subseteq Waiters(transitAt)
         /\ f = Roused(transitAt) /\ p # "wait" => Waiters(transitAt') = {}
         /\ f = transitAt /\ p # "woken" =>
              \A u \in Threads : transitAt'[u] = "woken" => transitAt[u] = "woken"
BY DEF Sent, Roused, Within, Waiters, TransitPlace

LEMMA TransitRoused ==
  ASSUME transitAt \in [Threads -> TransitPlace], transitAt' = Roused(transitAt)
  PROVE  /\ transitAt' \in [Threads -> TransitPlace]
         /\ Within(transitAt') = Within(transitAt)
         /\ Waiters(transitAt') = {}
BY DEF Roused, Within, Waiters, TransitPlace

\* How many threads are within when one comes or goes.
LEMMA TransitCounts ==
  ASSUME transitAt \in [Threads -> TransitPlace], NEW t \in Threads
  PROVE  /\ Cardinality(Within(transitAt)) \in Nat
         /\ t \in Within(transitAt) =>
              /\ Cardinality(Within(transitAt)) > 0
              /\ Cardinality(Within(transitAt) \union {t}) = Cardinality(Within(transitAt))
              /\ Cardinality(Within(transitAt) \ {t}) = Cardinality(Within(transitAt)) - 1
         /\ t \notin Within(transitAt) =>
              /\ Cardinality(Within(transitAt) \union {t}) = Cardinality(Within(transitAt)) + 1
              /\ Cardinality(Within(transitAt) \ {t}) = Cardinality(Within(transitAt))
<1> DEFINE S == Within(transitAt)
<1>1. S \subseteq Threads
  BY DEF Within
<1> HIDE DEF S
<1>2. Cardinality(S) \in Nat /\ (t \in S => Cardinality(S) # 0)
  BY <1>1, CountType
<1> QED
  BY <1>1, <1>2, MemberCounts DEF S

\* Nothing but the place of threads changes, none of which parks or is woken,
\* and as many are within.
LEMMA TransitStays ==
  ASSUME TransitInv, UNCHANGED <<transit, orderly>>,
         transitAt' \in [Threads -> TransitPlace],
         Waiters(transitAt') \subseteq Waiters(transitAt),
         Cardinality(Within(transitAt')) = Cardinality(Within(transitAt)),
         \A u \in Threads : transitAt'[u] = "woken" => transitAt[u] = "woken"
  PROVE  TransitInv'
BY DEF TransitInv, TransitTypes, OpenHoldsNobody, RoundFits, Disposed

LEMMA TransitOutside ==
  ASSUME TransitInv, NEW t \in Threads, Approach(t) \/ PassBy(t) \/ WaitTooLong(t)
  PROVE  TransitInv'
<1>1. transitAt \in [Threads -> TransitPlace] /\ UNCHANGED <<transit, orderly>>
  BY DEF TransitInv, TransitTypes, Approach, PassBy, WaitTooLong
<1>2. PICK p \in {"lock", "out", "late"} :
        /\ transitAt' = Sent(transitAt, t, p)
        /\ t \in Within(transitAt) <=> p = "late"
  BY DEF Approach, PassBy, WaitTooLong, Within
<1>3. /\ transitAt' \in [Threads -> TransitPlace]
      /\ Waiters(transitAt') \subseteq Waiters(transitAt)
      /\ Within(transitAt') = IF p = "late" THEN Within(transitAt) \union {t}
                                            ELSE Within(transitAt) \ {t}
      /\ \A u \in Threads : transitAt'[u] = "woken" => transitAt[u] = "woken"
  BY <1>1, <1>2, TransitSent DEF TransitPlace
<1>4. Cardinality(Within(transitAt')) = Cardinality(Within(transitAt))
  BY <1>1, <1>2, <1>3, TransitCounts
<1> QED
  BY <1>1, <1>3, <1>4, TransitStays

LEMMA TransitEnters ==
  ASSUME TransitInv, NEW t \in Threads, Trigger(t) \/ ParkOnce(t)
  PROVE  TransitInv'
<1>1. /\ transitAt \in [Threads -> TransitPlace] /\ transit \in TransitState
      /\ UNCHANGED orderly /\ orderly \in BOOLEAN
      /\ ~transit.released /\ transitAt[t] = "lock"
  BY DEF TransitInv, TransitTypes, Trigger, ParkOnce, Enters
<1>2. t \notin Within(transitAt)
  BY <1>1 DEF Within
<1>3. transit.count \in Int /\ transit.threshold \in Nat /\ transit.threshold >= 1
  BY <1>1, TransitAssumption DEF TransitState
<1>4. CASE Trigger(t)
  <2>1. /\ ~transit.manual /\ transit.count + 1 = transit.threshold
        /\ transit' = [transit EXCEPT !.count = @ + 1, !.released = TRUE, !.fired = TRUE]
    BY <1>4 DEF Trigger, Triggers
  <2>2. transit' \in TransitState
    <3>1. transit.count + 1 \in Int /\ TRUE \in BOOLEAN
      BY <1>3
    <3> QED
      BY <1>1, <2>1, <3>1, TransitStateKept, Zenon
  <2>3. /\ transit'.released = TRUE /\ transit'.manual = transit.manual
        /\ transit'.count = transit.threshold
    BY <1>1, <2>1 DEF TransitState
  <2>4. /\ transitAt' \in [Threads -> TransitPlace] /\ Waiters(transitAt') = {}
        /\ Within(transitAt') = Within(transitAt) \ {t}
    BY <1>1, <1>4, TransitSent DEF Trigger, TransitPlace
  <2>5. Cardinality(Within(transitAt')) = Cardinality(Within(transitAt))
    BY <1>1, <1>2, <2>4, TransitCounts
  <2>6. transit'.disposed = transit.disposed /\ transit.count < transit'.count
    BY <1>1, <1>3, <2>1 DEF TransitState
  <2>7. Cardinality(Within(transitAt)) \in Nat
    BY <1>1, TransitCounts
  <2>8. RoundFits'
    BY <1>1, <1>3, <2>3, <2>5, <2>6, <2>7 DEF TransitInv, RoundFits, Disposed
  <2>9. OpenHoldsNobody'
    BY <2>3, <2>4 DEF OpenHoldsNobody
  <2> QED
    BY <1>1, <2>2, <2>4, <2>8, <2>9 DEF TransitInv, TransitTypes
<1>5. CASE ParkOnce(t)
  <2>1. /\ transit' = [transit EXCEPT !.count = @ + 1]
        /\ transit.count + 1 # transit.threshold \/ transit.manual
    BY <1>5 DEF ParkOnce, Triggers
  <2>2. /\ transit' \in TransitState /\ transit'.count = transit.count + 1
        /\ transit'.released = transit.released /\ transit'.manual = transit.manual
        /\ transit'.reusable = transit.reusable /\ transit'.disposed = transit.disposed
        /\ transit'.threshold = transit.threshold
    BY <1>1, <1>3, <2>1 DEF TransitState
  <2>3. /\ transitAt' \in [Threads -> TransitPlace]
        /\ Within(transitAt') = Within(transitAt) \union {t}
        /\ \A u \in Threads : transitAt'[u] = "woken" => transitAt[u] = "woken"
    BY <1>1, <1>5, TransitSent DEF ParkOnce, TransitPlace
  <2>4. Cardinality(Within(transitAt')) = Cardinality(Within(transitAt)) + 1
    BY <1>1, <1>2, <2>3, TransitCounts
  <2>5. OpenHoldsNobody'
    BY <1>1, <1>3, <2>1, <2>2 DEF TransitInv, OpenHoldsNobody
  <2>6. RoundFits'
    BY <1>1, <1>3, <2>2, <2>3, <2>4 DEF TransitInv, RoundFits, Disposed
  <2> QED
    BY <1>1, <2>2, <2>3, <2>5, <2>6 DEF TransitInv, TransitTypes
<1> QED
  BY <1>4, <1>5

LEMMA TransitLeaves ==
  ASSUME TransitInv, NEW t \in Threads, TransitResume(t)
  PROVE  TransitInv'
<1>1. /\ transitAt \in [Threads -> TransitPlace] /\ transit \in TransitState
      /\ orderly \in BOOLEAN /\ OpenHoldsNobody /\ RoundFits
  BY DEF TransitInv, TransitTypes
<1>2. transitAt' = Sent(transitAt, t, "out") /\ transitAt[t] \in {"woken", "late"}
  BY DEF TransitResume, GoOn, GiveUp
<1>3. /\ transitAt' \in [Threads -> TransitPlace]
      /\ Waiters(transitAt') \subseteq Waiters(transitAt)
      /\ Within(transitAt') = Within(transitAt) \ {t}
  BY <1>1, <1>2, TransitSent DEF TransitPlace
<1>4. /\ Cardinality(Within(transitAt)) \in Nat /\ Cardinality(Within(transitAt)) > 0
      /\ Cardinality(Within(transitAt')) = Cardinality(Within(transitAt)) - 1
  <2>1. t \in Within(transitAt)
    BY <1>2 DEF Within
  <2> QED
    BY <1>1, <1>3, <2>1, TransitCounts
<1>5. CASE GiveUp(t)
  <2>1. UNCHANGED transit /\ orderly' = FALSE
    BY <1>5 DEF GiveUp
  <2> QED
    BY <1>1, <1>3, <2>1 DEF TransitInv, TransitTypes, OpenHoldsNobody, RoundFits
<1>6. CASE GoOn(t) /\ (Disposed \/ ~transit.reusable)
  <2>1. UNCHANGED <<transit, orderly>> /\ transitAt[t] = "woken"
    BY <1>6 DEF GoOn, CountOut
  <2>2. transit.count \in Int
    BY <1>1 DEF TransitState
  <2>3. RoundFits'
    BY <1>1, <1>4, <2>1, <2>2 DEF RoundFits, Disposed
  <2>4. OpenHoldsNobody'
    BY <1>1, <1>3, <2>1 DEF OpenHoldsNobody
  <2> QED
    BY <1>1, <1>3, <2>1, <2>3, <2>4 DEF TransitInv, TransitTypes
<1>7. CASE GoOn(t) /\ ~Disposed /\ transit.reusable
  <2> DEFINE open == transit.released /\ transit.count # 1
  <2>1. /\ UNCHANGED orderly
        /\ transit' = [transit EXCEPT !.count = @ - 1,
             !.released = @ /\ ~(transit.count = 1), !.fired = @ /\ ~(transit.count = 1)]
    BY <1>7 DEF GoOn, CountOut
  <2>2. transit.count \in Int /\ transit.threshold \in Nat /\ transit.threshold >= 1
    BY <1>1, TransitAssumption DEF TransitState
  <2>3. /\ transit'.count = transit.count - 1 /\ transit'.manual = transit.manual
        /\ transit'.reusable = transit.reusable /\ transit'.disposed = transit.disposed
        /\ transit'.threshold = transit.threshold
        /\ transit'.released <=> open
    BY <1>1, <2>1 DEF TransitState
  <2>4. transit' \in TransitState
    <3>1. /\ transit.count - 1 \in Int
          /\ (transit.released /\ ~(transit.count = 1)) \in BOOLEAN
          /\ (transit.fired /\ ~(transit.count = 1)) \in BOOLEAN
      BY <2>2
    <3> QED
      BY <1>1, <2>1, <3>1, TransitStateKept, Zenon
  <2>5. OpenHoldsNobody'
    BY <1>1, <1>3, <2>2, <2>3 DEF OpenHoldsNobody
  <2>6. RoundFits'
    <3> SUFFICES ASSUME orderly', ~Disposed' PROVE RoundFits'
      BY DEF RoundFits
    <3>1. /\ transit.count >= Cardinality(Within(transitAt))
          /\ transitAt[t] = "woken" /\ transit.released
      BY <1>1, <1>7, <2>1 DEF RoundFits, GoOn
    <3>2. transit'.count >= Cardinality(Within(transitAt'))
      BY <1>4, <2>2, <2>3, <3>1
    <3>3. ASSUME ~transit'.released
          PROVE  /\ \A u \in Threads : transitAt'[u] # "woken"
                 /\ transit'.count = Cardinality(Within(transitAt'))
      <4>1. transit.count = 1
        BY <2>3, <3>1, <3>3
      <4>2. Cardinality(Within(transitAt')) = 0 /\ transit'.count = 0
        BY <1>4, <2>3, <3>1, <4>1
      <4>3. IsFiniteSet(Within(transitAt'))
        BY WaitingAssumption, FS_Subset DEF Within
      <4>4. Within(transitAt') = {}
        BY <4>2, <4>3, FS_EmptySet
      <4>5. \A u \in Threads : transitAt'[u] # "woken"
        BY <4>4 DEF Within
      <4> QED
        BY <4>2, <4>5
    <3> QED
      BY <3>2, <3>3 DEF RoundFits
  <2> QED
    BY <1>1, <1>3, <2>1, <2>4, <2>5, <2>6 DEF TransitInv, TransitTypes
<1> QED
  BY <1>5, <1>6, <1>7 DEF TransitResume

LEMMA TransitOwner ==
  ASSUME TransitInv,
         TransitRelease \/ TransitOverride \/ ReleaseWithAction \/ TransitReset
           \/ TransitMarkDisposed \/ TransitDispose
  PROVE  TransitInv'
<1>1. /\ transitAt \in [Threads -> TransitPlace] /\ transit \in TransitState
      /\ orderly \in BOOLEAN /\ OpenHoldsNobody /\ RoundFits
      /\ transit.count \in Int /\ transit.threshold \in Nat /\ transit.threshold >= 1
  BY TransitAssumption DEF TransitInv, TransitTypes, TransitState
<1>2. CASE TransitRelease \/ TransitOverride \/ ReleaseWithAction
  <2>1. PICK fires \in BOOLEAN : Open(fires)
    BY <1>2 DEF TransitRelease, TransitOverride, ReleaseWithAction
  <2>2. /\ transit'.released = TRUE /\ transit'.count = transit.count
        /\ transit'.manual = transit.manual /\ transit'.reusable = transit.reusable
        /\ transit'.disposed = transit.disposed
    BY <1>1, <2>1 DEF Open, TransitState
  <2>3. transit' \in TransitState
    BY <1>1, <2>1 DEF Open, TransitState
  <2>4. /\ transitAt' \in [Threads -> TransitPlace] /\ Waiters(transitAt') = {}
        /\ Within(transitAt') = Within(transitAt)
    BY <1>1, <2>1, TransitRoused DEF Open
  <2>5. UNCHANGED orderly
    BY <1>2 DEF TransitRelease, TransitOverride, ReleaseWithAction
  <2>6. OpenHoldsNobody'
    BY <2>2, <2>4 DEF OpenHoldsNobody
  <2>7. RoundFits'
    BY <1>1, <2>2, <2>4, <2>5 DEF RoundFits, Disposed
  <2> QED
    BY <1>1, <2>3, <2>4, <2>5, <2>6, <2>7 DEF TransitInv, TransitTypes
<1>3. CASE TransitReset
  <2>1. /\ transit' = [transit EXCEPT !.count = 0, !.released = FALSE, !.fired = FALSE]
        /\ orderly' = (orderly /\ Within(transitAt) = {})
        /\ UNCHANGED transitAt
    BY <1>3 DEF TransitReset
  <2>2. /\ transit'.count = 0 /\ transit'.released = FALSE
        /\ transit'.threshold = transit.threshold
    BY <1>1, <2>1 DEF TransitState
  <2>3. transit' \in TransitState
    <3>1. 0 \in Int /\ FALSE \in BOOLEAN
      OBVIOUS
    <3> QED
      BY <1>1, <2>1, <3>1, TransitStateKept, Zenon
  <2>4. orderly' => /\ Cardinality(Within(transitAt')) = 0
                    /\ \A u \in Threads : transitAt'[u] # "woken"
    BY <2>1, FS_EmptySet DEF Within
  <2>5. OpenHoldsNobody' /\ RoundFits'
    BY <1>1, <2>2, <2>4 DEF OpenHoldsNobody, RoundFits
  <2>6. orderly' \in BOOLEAN
    BY <2>1
  <2> QED
    BY <1>1, <2>1, <2>3, <2>5, <2>6 DEF TransitInv, TransitTypes
<1>4. CASE TransitMarkDisposed \/ TransitDispose
  <2>1. /\ transit' \in TransitState /\ transit'.disposed # "no"
        /\ transit'.count = transit.count /\ transit'.threshold = transit.threshold
        /\ transit'.released = transit.released /\ transit'.manual = transit.manual
    BY <1>1, <1>4 DEF TransitMarkDisposed, TransitDispose, TransitState
  <2>2. /\ transitAt' \in [Threads -> TransitPlace] /\ UNCHANGED orderly
        /\ Waiters(transitAt') \subseteq Waiters(transitAt)
    BY <1>1, <1>4, TransitRoused DEF TransitMarkDisposed, TransitDispose
  <2>3. OpenHoldsNobody' /\ RoundFits'
    BY <1>1, <2>1, <2>2 DEF OpenHoldsNobody, RoundFits, Disposed
  <2> QED
    BY <1>1, <2>1, <2>2, <2>3 DEF TransitInv, TransitTypes
<1> QED
  BY <1>2, <1>3, <1>4

LEMMA TransitInvariance == TransitSpec => []TransitInv
<1>1. TransitInit => TransitInv
  BY TransitInitInv
<1>2. TransitInv /\ [TransitNext]_transitVars => TransitInv'
  <2> SUFFICES ASSUME TransitInv, [TransitNext]_transitVars PROVE TransitInv'
    OBVIOUS
  <2>1. CASE UNCHANGED transitVars
    BY <2>1 DEF transitVars, TransitInv, TransitTypes, OpenHoldsNobody, RoundFits,
                Disposed
  <2>2. CASE TransitNext
    BY <2>2, TransitOwner, TransitOutside, TransitEnters, TransitLeaves DEF TransitNext
  <2> QED
    BY <2>1, <2>2
<1> QED
  BY <1>1, <1>2, PTL DEF TransitSpec

\* TransitBarrier: nobody stays parked in an open barrier, though wait tests
\* nothing after it has begun to wait, and an automatic barrier that has
\* counted its threshold is open.
THEOREM OpenTransitHoldsNobody == TransitSpec => []OpenHoldsNobody
<1>1. TransitInv => OpenHoldsNobody
  BY DEF TransitInv
<1> QED
  BY <1>1, TransitInvariance, PTL

\* TransitBarrier: a closed barrier has nobody of an earlier round on the way
\* out and counts exactly the threads inside, as long as nobody times out and
\* no reset comes upon threads inside.
THEOREM TransitRoundsApart == TransitSpec => []RoundsApart
<1>1. TransitInv => RoundsApart
  BY DEF TransitInv, RoundFits, RoundsApart
<1> QED
  BY <1>1, TransitInvariance, PTL

-----------------------------------------------------------------------------
(* Outcome                                                                 *)

Taken == {"purged", "done"}    \* dispose has removed the result

OutcomeState ==
  [done : BOOLEAN, result : Values \union {NoValue},
   exception : Values \union {NoValue, DisposedError},
   disposed : {"no", "marked", "settled"} \union Taken]

OutcomeTypes ==
  /\ errand \in [Threads -> Errand]
  /\ outcome \in OutcomeState

\* Nobody is told anything before there is an outcome; from then on everybody
\* is told what is known, which only Purge can change, and only if it is a
\* result.
AnswerKept ==
  /\ ~outcome.done =>
       /\ told = {} /\ outcome.result = NoValue /\ outcome.exception = NoValue
       /\ outcome.disposed \in {"no", "marked"}
  /\ outcome.done /\ outcome.disposed \notin Taken =>
       told \subseteq {Known} /\ Known # Purged
  /\ outcome.disposed \in Taken =>
       /\ outcome.result = NoValue
       /\ IF outcome.exception = NoValue
            THEN \E answer : told \subseteq {answer, Purged}
            ELSE told \subseteq {Known}

OutcomeInv == OutcomeTypes /\ AnswerKept

LEMMA AnswerKeptSuffices == OutcomeInv => OneAnswer
<1> SUFFICES ASSUME OutcomeInv PROVE OneAnswer
  OBVIOUS
<1>1. PICK answer : told \subseteq {answer, Purged}
  BY DEF OutcomeInv, OutcomeTypes, OutcomeState, AnswerKept
<1>2. Cardinality(told \ {Purged}) <= 1
  <2>1. told \ {Purged} \subseteq {answer}
    BY <1>1
  <2>2. IsFiniteSet({answer}) /\ Cardinality({answer}) = 1
    BY FS_Singleton
  <2> QED
    BY <2>1, <2>2, FS_Subset
<1>3. ASSUME Purged \in told
      PROVE  outcome.disposed \in {"purged", "done"} /\ outcome.exception = NoValue
  <2>1. outcome.exception # NoValue => Known # Purged
    BY DEF Known, Purged
  <2> QED
    BY <1>3, <2>1 DEF OutcomeInv, AnswerKept, Taken
<1> QED
  BY <1>2, <1>3 DEF OneAnswer

LEMMA OutcomeInitInv == OutcomeInit => OutcomeInv
<1> SUFFICES ASSUME OutcomeInit PROVE OutcomeInv
  OBVIOUS
<1>1. errand \in [Threads -> Errand]
  BY DEF OutcomeInit, Everywhere, Errand
<1>2. outcome \in OutcomeState
  BY DEF OutcomeInit, OutcomeState
<1> QED
  BY <1>1, <1>2 DEF OutcomeInit, OutcomeInv, OutcomeTypes, AnswerKept, Taken

\* The first write makes something known that is not what Purge leaves.
LEMMA FilledKnown ==
  ASSUME outcome \in OutcomeState, ~outcome.done,
         outcome.result = NoValue, outcome.exception = NoValue,
         NEW w \in Writes, outcome' = Filled(w[1], w[2])
  PROVE  /\ outcome' \in OutcomeState
         /\ outcome'.done = TRUE /\ outcome'.disposed = outcome.disposed
         /\ Known' # Purged
<1>1. w[1] \in {"result", "exception"} /\ w[2] \in Values /\ w[2] # NoValue
  BY OutcomeAssumption DEF Writes
<1>2. CASE w[1] = "result"
  <2>1. outcome' = [outcome EXCEPT !.done = TRUE, !.result = w[2]]
    BY <1>2 DEF Filled
  <2>2. outcome' \in OutcomeState
    BY <1>1, <2>1, Zenon DEF OutcomeState
  <2>3. /\ outcome'.done = TRUE /\ outcome'.disposed = outcome.disposed
        /\ outcome'.exception = NoValue /\ outcome'.result = w[2]
    BY <2>1 DEF OutcomeState
  <2> QED
    BY <1>1, <2>2, <2>3 DEF Known, Purged
<1>3. CASE w[1] = "exception"
  <2>1. outcome' = [outcome EXCEPT !.done = TRUE, !.exception = w[2]]
    BY <1>3 DEF Filled
  <2>2. outcome' \in OutcomeState
    BY <1>1, <2>1, Zenon DEF OutcomeState
  <2>3. /\ outcome'.done = TRUE /\ outcome'.disposed = outcome.disposed
        /\ outcome'.exception = w[2]
    BY <2>1 DEF OutcomeState
  <2> QED
    BY <1>1, <2>2, <2>3 DEF Known, Purged
<1> QED
  BY <1>1, <1>2, <1>3

\* Telling what is known keeps the answer.
LEMMA KnownTold ==
  ASSUME OutcomeInv, outcome.done, UNCHANGED outcome, errand' \in [Threads -> Errand],
         told' \in {told, told \union {Known}}
  PROVE  OutcomeInv'
<1>1. Known' = Known
  BY DEF Known
<1>2. outcome.disposed \in Taken /\ outcome.exception = NoValue => Known = Purged
  BY DEF OutcomeInv, AnswerKept, Known, Purged
<1> QED
  BY <1>1, <1>2 DEF OutcomeInv, OutcomeTypes, AnswerKept

LEMMA OutcomeCalls ==
  ASSUME OutcomeInv, NEW t \in Threads,
         \/ \E what \in Errand : CallOutcome(t, what)
         \/ TimesOut(t) \/ OutcomeResume(t)
  PROVE  OutcomeInv'
<1>1. errand \in [Threads -> Errand] /\ Reading \in Errand
  BY DEF OutcomeInv, OutcomeTypes, Errand
<1>2. errand' \in [Threads -> Errand]
  BY <1>1 DEF CallOutcome, TimesOut, OutcomeResume, Trip, Write, Read, ReadDisposed,
              Await, ReadLate, Leave
<1>3. CASE UNCHANGED <<outcome, told>>
  BY <1>2, <1>3 DEF OutcomeInv, OutcomeTypes, AnswerKept, Known
<1>4. CASE Write(t) /\ ~outcome.done
  <2>1. /\ errand[t] \in Writes /\ outcome' = Filled(errand[t][1], errand[t][2])
        /\ told' = {} /\ outcome.disposed \in {"no", "marked"}
        /\ outcome \in OutcomeState
        /\ outcome.result = NoValue /\ outcome.exception = NoValue
    BY <1>4 DEF Write, OutcomeInv, OutcomeTypes, AnswerKept
  <2>2. /\ outcome' \in OutcomeState /\ outcome'.done = TRUE
        /\ outcome'.disposed = outcome.disposed /\ Known' # Purged
    BY <1>4, <2>1, FilledKnown
  <2> QED
    BY <1>2, <2>1, <2>2 DEF OutcomeInv, OutcomeTypes, AnswerKept, Taken, Purged
<1>5. CASE outcome.done /\ (Read(t) \/ ReadLate(t))
  BY <1>2, <1>5, KnownTold DEF Read, ReadLate
<1>6. \/ UNCHANGED <<outcome, told>>
      \/ Write(t) /\ ~outcome.done
      \/ outcome.done /\ (Read(t) \/ ReadLate(t))
  BY DEF CallOutcome, TimesOut, OutcomeResume, Trip, Write, Read, ReadDisposed, Await,
         ReadLate
<1> QED
  BY <1>3, <1>4, <1>5, <1>6

LEMMA OutcomeDisposes ==
  ASSUME OutcomeInv, OutcomeMarkDisposed \/ Settle \/ Purge \/ DropCondition
  PROVE  OutcomeInv'
<1>1. /\ outcome \in OutcomeState /\ errand' \in [Threads -> Errand] /\ told' = told
      /\ AnswerKept
  BY DEF OutcomeInv, OutcomeTypes, OutcomeMarkDisposed, Settle, Purge, DropCondition
<1>2. outcome' \in OutcomeState
  BY <1>1 DEF OutcomeMarkDisposed, Settle, Purge, DropCondition, OutcomeState, Taken
<1>3. CASE OutcomeMarkDisposed \/ DropCondition \/ (Settle /\ outcome.done)
  <2>1. /\ outcome'.done = outcome.done /\ outcome'.result = outcome.result
        /\ outcome'.exception = outcome.exception
        /\ outcome'.disposed \in Taken <=> outcome.disposed \in Taken
        /\ ~outcome.done => outcome'.disposed = "marked"
    BY <1>1, <1>3 DEF OutcomeMarkDisposed, DropCondition, Settle, OutcomeState, Taken, AnswerKept
  <2>2. Known' = Known
    BY <2>1 DEF Known
  <2> QED
    BY <1>1, <1>2, <2>1, <2>2 DEF OutcomeInv, OutcomeTypes, AnswerKept
<1>4. CASE Settle /\ ~outcome.done
  <2>1. /\ outcome'.done = TRUE /\ outcome'.exception = DisposedError
        /\ outcome'.disposed = "settled" /\ told' = {}
    BY <1>1, <1>4 DEF Settle, OutcomeState, AnswerKept
  <2>2. Known' # Purged
    BY <2>1, OutcomeAssumption DEF Known, Purged
  <2> QED
    BY <1>1, <1>2, <2>1, <2>2 DEF OutcomeInv, OutcomeTypes, AnswerKept, Taken, Purged
<1>5. CASE Purge
  <2>1. /\ outcome'.done = outcome.done /\ outcome'.result = NoValue
        /\ outcome'.exception = outcome.exception /\ outcome'.disposed = "purged"
        /\ outcome.disposed = "settled"
    BY <1>1, <1>5 DEF Purge, OutcomeState
  <2>2. outcome.done /\ told \subseteq {Known}
    BY <1>1, <2>1 DEF AnswerKept, Taken
  <2>3. outcome.exception # NoValue => Known' = Known
    BY <2>1 DEF Known
  <2> QED
    BY <1>1, <1>2, <2>1, <2>2, <2>3 DEF OutcomeInv, OutcomeTypes, AnswerKept, Taken
<1> QED
  BY <1>3, <1>4, <1>5

\* Outcome: all who ask for the result are told the same, for any number of
\* writers and readers and wherever dispose has got to; only a reader that is
\* still inside when dispose has removed a result can be told None.
THEOREM OutcomeHasOneAnswer == OutcomeSpec => []OneAnswer
<1>1. OutcomeInit => OutcomeInv
  BY OutcomeInitInv
<1>2. OutcomeInv /\ [OutcomeNext]_outcomeVars => OutcomeInv'
  <2> SUFFICES ASSUME OutcomeInv, [OutcomeNext]_outcomeVars PROVE OutcomeInv'
    OBVIOUS
  <2>1. CASE UNCHANGED outcomeVars
    BY <2>1 DEF outcomeVars, OutcomeInv, OutcomeTypes, AnswerKept, Known
  <2>2. CASE OutcomeNext
    BY <2>2, OutcomeCalls, OutcomeDisposes DEF OutcomeNext
  <2> QED
    BY <2>1, <2>2
<1>3. OutcomeInv => OneAnswer
  BY AnswerKeptSuffices
<1> QED
  BY <1>1, <1>2, <1>3, PTL DEF OutcomeSpec

-----------------------------------------------------------------------------
(* Shards                                                                  *)

ShardPlace == {"out", "take", "peek", "copy", "clear", "dispose", "putBack"}

\* The arrays say what the shards hold: they are written under the shard's lock
\* together with its items.
ShardState == [items : Nat, length : Nat, stamped : BOOLEAN]

Upright(s, timed) ==
  /\ s.length = s.items
  /\ s.stamped <=> timed /\ s.items > 0

ShardsTypes ==
  /\ shardAt \in [Threads -> ShardPlace]
  /\ seen \in [Threads -> [read : SUBSET Shard, found : SUBSET Shard]]
  /\ shards \in [Shard -> ShardState]
  /\ store \in [timed : BOOLEAN, disposed : BOOLEAN]
  /\ quiet \subseteq Threads

ArraysUpright == \A i \in Shard : Upright(shards[i], store.timed)

\* A collection has read a stretch of shards, which may go past the last one.
Stretch(R) ==
  \E a, b \in Shard : \/ a <= b /\ R = a .. b
                      \/ b < a /\ R = (a .. NumShards) \union (1 .. b)

Stretches ==
  \A t \in Threads :
    /\ shardAt[t] \in {"out", "putBack"} => seen[t] = NothingSeen
    /\ Scanning(t) /\ ~store.timed /\ seen[t].read # {} => Stretch(seen[t].read)

\* What a quiet call has found is still there, and something that is there it
\* has found or is still to look at.
NothingPassed ==
  \A t \in quiet : Scanning(t) =>
    /\ \A i \in seen[t].found : shards[i].items > 0
    /\ \E i \in Shard : shards[i].items > 0 /\ (i \in seen[t].found \/ i \notin seen[t].read)

ShardsInv == ShardsTypes /\ ArraysUpright /\ Stretches /\ NothingPassed

LEMMA ShardsInitInv == ShardsInit => ShardsInv
<1> SUFFICES ASSUME ShardsInit PROVE ShardsInv
  OBVIOUS
<1>1. /\ shardAt = [t \in Threads |-> "out"] /\ quiet = {}
      /\ seen = [t \in Threads |-> NothingSeen]
      /\ shards = [i \in Shard |-> Empty]
      /\ \E b \in BOOLEAN : store = [timed |-> b, disposed |-> FALSE]
  BY DEF ShardsInit, Everywhere, NothingSeen
<1>2. store \in [timed : BOOLEAN, disposed : BOOLEAN]
  BY <1>1
<1>3. ShardsTypes
  BY <1>1, <1>2 DEF ShardsTypes, ShardState, ShardPlace, NothingSeen, Empty
<1>4. ArraysUpright
  BY <1>1 DEF ArraysUpright, Upright, Empty
<1>5. Stretches /\ NothingPassed
  BY <1>1 DEF Stretches, NothingPassed, Scanning
<1> QED
  BY <1>3, <1>4, <1>5 DEF ShardsInv

-----------------------------------------------------------------------------
(* Shards: steps that leave the items alone.                               *)

\* A thread goes to p and has then seen s; who begins to look around has seen
\* nothing, and is quiet only if there is something.
LEMMA GoKeeps ==
  ASSUME ShardsInv, UNCHANGED shards, store' \in [timed : BOOLEAN, disposed : BOOLEAN],
         store'.timed = store.timed, NEW t \in Threads, NEW p \in ShardPlace,
         NEW s \in [read : SUBSET Shard, found : SUBSET Shard],
         shardAt' = [shardAt EXCEPT ![t] = p], seen' = [seen EXCEPT ![t] = s],
         quiet' \subseteq quiet \union {t},
         p \in {"out", "putBack", "take", "peek"} => s = NothingSeen,
         p \in {"take", "peek"} /\ t \in quiet' => \E i \in Shard : shards[i].items > 0
  PROVE  ShardsInv'
<1>1. /\ \A u \in Threads : /\ shardAt'[u] = IF u = t THEN p ELSE shardAt[u]
                            /\ seen'[u] = IF u = t THEN s ELSE seen[u]
      /\ (s.read = {} /\ s.found = {}) \/ p \notin {"take", "peek"}
  BY DEF ShardsInv, ShardsTypes, NothingSeen
<1>2. ShardsTypes'
  BY DEF ShardsInv, ShardsTypes
<1>3. ArraysUpright'
  BY DEF ShardsInv, ArraysUpright
<1>4. Stretches'
  BY <1>1 DEF ShardsInv, Stretches, Scanning
<1>5. NothingPassed'
  BY <1>1, <1>2 DEF ShardsInv, NothingPassed, Scanning, ShardsTypes
<1> QED
  BY <1>2, <1>3, <1>4, <1>5 DEF ShardsInv

LEMMA BeginInv ==
  ASSUME ShardsInv, NEW t \in Threads,
         \/ \E task \in {"take", "peek"} : BeginScan(t, task)
         \/ \E task \in {"clear", "dispose"} : BeginClear(t, task)
         \/ BeginRewrite(t)
  PROVE  ShardsInv'
<1>1. /\ UNCHANGED <<shards, store, seen>> /\ shardAt[t] = "out"
      /\ store \in [timed : BOOLEAN, disposed : BOOLEAN]
      /\ seen \in [Threads -> [read : SUBSET Shard, found : SUBSET Shard]]
  BY DEF BeginScan, BeginClear, BeginRewrite, ShardsInv, ShardsTypes
<1>2. seen[t] = NothingSeen /\ NothingSeen \in [read : SUBSET Shard, found : SUBSET Shard]
  BY <1>1 DEF ShardsInv, Stretches, NothingSeen
<1>3. seen' = [seen EXCEPT ![t] = NothingSeen]
  BY <1>1, <1>2
<1>4. \E p \in ShardPlace :
        /\ shardAt' = [shardAt EXCEPT ![t] = p]
        /\ quiet' \subseteq quiet \union {t}
        /\ p \in {"take", "peek"} /\ t \in quiet' => \E i \in Shard : shards[i].items > 0
  BY DEF BeginScan, BeginClear, BeginRewrite, Goto, Sent, ShardPlace
<1> QED
  BY <1>1, <1>2, <1>3, <1>4, GoKeeps

LEMMA EndInv ==
  ASSUME ShardsInv, NEW t \in Threads,
         PeekItem(t) \/ RaiseEmpty(t) \/ Copied(t) \/ Cleared(t)
  PROVE  ShardsInv'
<1>1. /\ seen' = [seen EXCEPT ![t] = NothingSeen] /\ UNCHANGED <<shards, quiet>>
      /\ NothingSeen \in [read : SUBSET Shard, found : SUBSET Shard]
  BY DEF PeekItem, RaiseEmpty, Copied, Cleared, Forget, NothingSeen
<1>2. \E p \in ShardPlace : /\ shardAt' = [shardAt EXCEPT ![t] = p]
                            /\ p \notin {"take", "peek"}
  BY DEF PeekItem, RaiseEmpty, Copied, Cleared, Goto, Sent, ShardPlace
<1>3. store' \in [timed : BOOLEAN, disposed : BOOLEAN] /\ store'.timed = store.timed
  <2>1. store \in [timed : BOOLEAN, disposed : BOOLEAN]
    BY DEF ShardsInv, ShardsTypes
  <2>2. ASSUME NEW d \in BOOLEAN
        PROVE  /\ [store EXCEPT !.disposed = d] \in [timed : BOOLEAN, disposed : BOOLEAN]
               /\ [store EXCEPT !.disposed = d].timed = store.timed
    BY <2>1
  <2>3. (store.disposed \/ shardAt[t] = "dispose") \in BOOLEAN
    OBVIOUS
  <2>4. CASE Cleared(t)
    <3>1. store' = [store EXCEPT !.disposed = store.disposed \/ shardAt[t] = "dispose"]
      BY <2>4, Zenon DEF Cleared
    <3> QED
      BY <2>2, <2>3, <3>1, Zenon
  <2>5. CASE store' = store
    BY <2>1, <2>5
  <2> QED
    BY <2>4, <2>5 DEF PeekItem, RaiseEmpty, Copied
<1> QED
  BY <1>1, <1>2, <1>3, GoKeeps

LEMMA CopyInv ==
  ASSUME ShardsInv, NEW t \in Threads, CopyShard(t)
  PROVE  ShardsInv'
<1>1. /\ UNCHANGED <<shardAt, shards, store, quiet>> /\ shardAt[t] = "copy"
      /\ \A u \in Threads : u # t => seen'[u] = seen[u]
      /\ seen \in [Threads -> [read : SUBSET Shard, found : SUBSET Shard]]
  BY DEF CopyShard, ShardsInv, ShardsTypes
<1>2. seen' \in [Threads -> [read : SUBSET Shard, found : SUBSET Shard]]
  <2>1. seen[t].read \subseteq Shard /\ IsFiniteSet(Shard)
    BY <1>1, FS_Interval, ShardsAssumption DEF Shard
  <2>2. Cardinality(seen[t].read) \in Nat
    BY <2>1, FS_Subset, FS_CardinalityType
  <2>3. Cardinality(seen[t].read) + 1 \in Shard
    BY <2>2, ShardsAssumption DEF CopyShard, Shard
  <2>4. seen' = [seen EXCEPT ![t].read = @ \union {Cardinality(seen[t].read) + 1}]
    BY DEF CopyShard
  <2> QED
    BY <1>1, <2>3, <2>4
<1>3. ShardsTypes' /\ ArraysUpright'
  BY <1>1, <1>2 DEF ShardsInv, ShardsTypes, ArraysUpright
<1>4. Stretches' /\ NothingPassed'
  BY <1>1 DEF ShardsInv, ShardsTypes, Stretches, NothingPassed, Scanning
<1> QED
  BY <1>3, <1>4 DEF ShardsInv

-----------------------------------------------------------------------------
(* Shards: reading the arrays.                                             *)

LEMMA OneIsStretch ==
  ASSUME NEW i \in Shard
  PROVE  Stretch({i})
<1>1. i <= i /\ {i} = i .. i
  BY ShardsAssumption DEF Shard
<1> QED
  BY <1>1 DEF Stretch

LEMMA StretchGrows ==
  ASSUME NEW R, Stretch(R), NEW i \in Shard, i \notin R,
         (IF i = 1 THEN NumShards ELSE i - 1) \in R
  PROVE  Stretch(R \union {i})
<1>1. NumShards \in Nat \ {0}
  BY ShardsAssumption
<1>2. PICK a \in Shard, b \in Shard : \/ a <= b /\ R = a .. b
                                      \/ b < a /\ R = (a .. NumShards) \union (1 .. b)
  BY DEF Stretch
<1>3. CASE a <= b /\ R = a .. b /\ b < NumShards
  <2>1. i = b + 1
    BY <1>1, <1>2, <1>3 DEF Shard
  <2>2. R \union {i} = a .. i /\ a <= i
    BY <1>1, <1>2, <1>3, <2>1 DEF Shard
  <2> QED
    BY <2>2 DEF Stretch
<1>4. CASE a <= b /\ R = a .. b /\ ~(b < NumShards)
  <2>1. i = 1 /\ b = NumShards /\ 1 < a
    BY <1>1, <1>2, <1>4 DEF Shard
  <2>2. R \union {i} = (a .. NumShards) \union (1 .. 1)
    BY <1>1, <1>4, <2>1 DEF Shard
  <2> QED
    BY <2>1, <2>2 DEF Stretch
<1>5. CASE b < a /\ R = (a .. NumShards) \union (1 .. b)
  <2>1. i = b + 1 /\ i < a
    BY <1>1, <1>2, <1>5 DEF Shard
  <2>2. R \union {i} = (a .. NumShards) \union (1 .. i)
    BY <1>1, <1>2, <1>5, <2>1 DEF Shard
  <2> QED
    BY <2>1, <2>2 DEF Stretch
<1> QED
  BY <1>2, <1>3, <1>4, <1>5

LEMMA WholeStretch ==
  ASSUME NEW R, Stretch(R),
         {i \in Shard \ R : (IF i = 1 THEN NumShards ELSE i - 1) \in R} = {}
  PROVE  R = Shard
<1>1. NumShards \in Nat \ {0}
  BY ShardsAssumption
<1>2. PICK a \in Shard, b \in Shard : \/ a <= b /\ R = a .. b
                                      \/ b < a /\ R = (a .. NumShards) \union (1 .. b)
  BY DEF Stretch
<1>3. \A i \in Shard : (IF i = 1 THEN NumShards ELSE i - 1) \in R => i \in R
  OBVIOUS
<1>4. CASE a <= b /\ R = a .. b
  <2>1. b = NumShards
    <3>1. b + 1 \in Shard => b + 1 \in R
      BY <1>1, <1>2, <1>3, <1>4 DEF Shard
    <3> QED
      BY <1>1, <1>2, <1>4, <3>1 DEF Shard
  <2>2. a = 1
    <3>1. 1 \in R
      BY <1>1, <1>3, <1>4, <2>1 DEF Shard
    <3> QED
      BY <1>1, <1>2, <1>4, <3>1 DEF Shard
  <2> QED
    BY <1>4, <2>1, <2>2 DEF Shard
<1>5. CASE b < a /\ R = (a .. NumShards) \union (1 .. b)
  <2>1. b + 1 \in R
    <3>1. b + 1 \in Shard /\ b + 1 # 1 /\ (b + 1) - 1 = b /\ b \in R
      BY <1>1, <1>2, <1>5 DEF Shard
    <3> QED
      BY <1>3, <3>1
  <2>2. b + 1 = a
    BY <1>1, <1>2, <1>5, <2>1 DEF Shard
  <2> QED
    BY <1>1, <1>2, <1>5, <2>2 DEF Shard
<1> QED
  BY <1>2, <1>4, <1>5

LEMMA ReadInv ==
  ASSUME ShardsInv, NEW t \in Threads, NEW i \in Shard, ReadArray(t, i)
  PROVE  ShardsInv'
<1>1. /\ UNCHANGED <<shardAt, shards, store, quiet>> /\ Scanning(t) /\ i \in NextToRead(t)
      /\ seen \in [Threads -> [read : SUBSET Shard, found : SUBSET Shard]]
      /\ store.timed \in BOOLEAN
  BY DEF ReadArray, ShardsInv, ShardsTypes
<1> DEFINE R == seen[t].read \union {i}
           F == IF Occupied(i) THEN seen[t].found \union {i} ELSE seen[t].found
<1>2. /\ seen' = [seen EXCEPT ![t] = [read |-> R, found |-> F]]
      /\ R \subseteq Shard /\ F \subseteq Shard
  BY <1>1 DEF ReadArray
<1>3. /\ seen' \in [Threads -> [read : SUBSET Shard, found : SUBSET Shard]]
      /\ seen'[t].read = R /\ seen'[t].found = F
      /\ \A u \in Threads : u # t => seen'[u] = seen[u]
  BY <1>1, <1>2
<1>4. ShardsTypes' /\ ArraysUpright'
  BY <1>1, <1>3 DEF ShardsInv, ShardsTypes, ArraysUpright
<1>5. Stretches'
  <2>1. ASSUME ~store.timed
        PROVE  Stretch(R)
    <3>1. CASE seen[t].read = {}
      <4>1. R = {i}
        BY <3>1
      <4> QED
        BY <4>1, OneIsStretch
    <3>2. CASE seen[t].read # {}
      <4>1. Stretch(seen[t].read)
        BY <1>1, <2>1, <3>2 DEF ShardsInv, Stretches
      <4>2. i \notin seen[t].read /\ (IF i = 1 THEN NumShards ELSE i - 1) \in seen[t].read
        BY <1>1, <2>1, <3>2 DEF NextToRead
      <4> QED
        BY <4>1, <4>2, StretchGrows
    <3> QED
      BY <3>1, <3>2
  <2> HIDE DEF R, F
  <2>2. \A u \in Threads : Scanning(u)' <=> Scanning(u)
    BY <1>1 DEF Scanning
  <2>3. shardAt[t] \notin {"out", "putBack"}
    BY <1>1 DEF Scanning
  <2> QED
    BY <1>1, <1>3, <2>1, <2>2, <2>3 DEF ShardsInv, Stretches
<1>6. NothingPassed'
  <2>1. Occupied(i) <=> shards[i].items > 0
    BY <1>1 DEF ShardsInv, ArraysUpright, Upright, Occupied
  <2>2. SUFFICES ASSUME NEW u \in quiet, Scanning(u)
                 PROVE  /\ \A k \in seen'[u].found : shards[k].items > 0
                        /\ \E k \in Shard : /\ shards[k].items > 0
                                            /\ k \in seen'[u].found \/ k \notin seen'[u].read
    BY <1>1 DEF NothingPassed, Scanning
  <2>3. /\ \A k \in seen[u].found : shards[k].items > 0
        /\ \E k \in Shard : shards[k].items > 0 /\ (k \in seen[u].found \/ k \notin seen[u].read)
    BY <2>2 DEF ShardsInv, NothingPassed
  <2>4. CASE u # t
    BY <1>3, <2>3, <2>4 DEF ShardsInv, ShardsTypes
  <2>5. CASE u = t
    <3>1. \A k \in F : shards[k].items > 0
      BY <2>1, <2>3, <2>5
    <3>2. PICK k \in Shard : shards[k].items > 0 /\ (k \in seen[t].found \/ k \notin seen[t].read)
      BY <2>3, <2>5
    <3>3. k \in F \/ k \notin R
      BY <2>1, <3>2
    <3> HIDE DEF R, F
    <3> QED
      BY <1>3, <2>5, <3>1, <3>2, <3>3
  <2> QED
    BY <2>4, <2>5
<1> QED
  BY <1>4, <1>5, <1>6 DEF ShardsInv

-----------------------------------------------------------------------------
(* Shards: items come and go.                                              *)

LEMMA PutFields ==
  ASSUME shards \in [Shard -> ShardState], store.timed \in BOOLEAN, NEW i \in Shard
  PROVE  /\ Put(i) \in [Shard -> ShardState]
         /\ Put(i)[i].items = shards[i].items + 1
         /\ Put(i)[i].length = shards[i].length + 1
         /\ Put(i)[i].stamped <=> IF shards[i].items = 0 THEN store.timed ELSE shards[i].stamped
         /\ \A k \in Shard : k # i => Put(i)[k] = shards[k]
<1> DEFINE n == shards[i].items + 1
           m == shards[i].length + 1
           Fits(g, d) == /\ g \in [Shard -> ShardState]
                         /\ g[i].items = n /\ g[i].length = m /\ (g[i].stamped <=> d)
                         /\ \A k \in Shard : k # i => g[k] = shards[k]
<1>1. n \in Nat /\ m \in Nat
  BY DEF ShardState
<1>2. ASSUME NEW d \in BOOLEAN
      PROVE  Fits([shards EXCEPT ![i].items = @ + 1, ![i].length = @ + 1, ![i].stamped = d], d)
  BY <1>1 DEF ShardState
<1>3. CASE shards[i].items = 0
  <2>1. Put(i) = [shards EXCEPT ![i].items = @ + 1, ![i].length = @ + 1,
                                ![i].stamped = store.timed]
    BY <1>3, Zenon DEF Put
  <2>2. Fits(Put(i), store.timed)
    <3> HIDE DEF Fits
    <3> QED
      BY <1>2, <2>1, Zenon
  <2> QED
    BY <1>3, <2>2
<1>4. CASE shards[i].items # 0
  <2>1. Put(i) = [shards EXCEPT ![i].items = @ + 1, ![i].length = @ + 1, ![i].stamped = @]
    BY <1>4, Zenon DEF Put
  <2> QED
    BY <1>1, <1>4, <2>1 DEF ShardState
<1> QED
  BY <1>3, <1>4

LEMMA RemovalFields ==
  ASSUME shards \in [Shard -> ShardState], NEW i \in Shard,
         shards[i].items > 0, shards[i].length = shards[i].items
  PROVE  /\ Removal(i) \in [Shard -> ShardState]
         /\ Removal(i)[i].items = shards[i].items - 1
         /\ Removal(i)[i].length = shards[i].length - 1
         /\ Removal(i)[i].stamped <=> shards[i].stamped /\ shards[i].items > 1
         /\ \A k \in Shard : k # i => Removal(i)[k] = shards[k]
<1> DEFINE n == shards[i].items - 1
           m == shards[i].length - 1
           c == shards[i].stamped /\ shards[i].items > 1
           Fits(g, d) == /\ g \in [Shard -> ShardState]
                         /\ g[i].items = n /\ g[i].length = m /\ (g[i].stamped <=> d)
                         /\ \A k \in Shard : k # i => g[k] = shards[k]
<1>1. n \in Nat /\ m \in Nat
  BY DEF ShardState
<1>2. c \in BOOLEAN
  OBVIOUS
<1>3. ASSUME NEW d \in BOOLEAN
      PROVE  Fits([shards EXCEPT ![i].items = @ - 1, ![i].length = @ - 1, ![i].stamped = d], d)
  BY <1>1 DEF ShardState
<1>4. Removal(i) = [shards EXCEPT ![i].items = @ - 1, ![i].length = @ - 1, ![i].stamped = c]
  BY Zenon DEF Removal
<1>5. Fits(Removal(i), c)
  <2> HIDE DEF Fits, c
  <2> QED
    BY <1>2, <1>3, <1>4, Zenon
<1> QED
  BY <1>5

\* Items come: whatever a quiet call has found stays.
LEMMA PutKeeps ==
  ASSUME ShardsInv, NEW i \in Shard, shards' = Put(i), UNCHANGED <<store, quiet, seen>>,
         shardAt' \in [Threads -> ShardPlace],
         \A t \in Threads :
           \/ shardAt'[t] = shardAt[t]
           \/ shardAt[t] = "putBack" /\ shardAt'[t] \in {"putBack", "out"}
  PROVE  ShardsInv'
<1>1. /\ shards \in [Shard -> ShardState] /\ store.timed \in BOOLEAN
      /\ \A k \in Shard : Upright(shards[k], store.timed)
  BY DEF ShardsInv, ShardsTypes, ArraysUpright
<1>2. /\ shards' \in [Shard -> ShardState]
      /\ shards'[i].items = shards[i].items + 1
      /\ shards'[i].length = shards[i].length + 1
      /\ shards'[i].stamped <=> IF shards[i].items = 0 THEN store.timed ELSE shards[i].stamped
      /\ \A k \in Shard : k # i => shards'[k] = shards[k]
  BY <1>1, PutFields
<1>3. ShardsTypes'
  BY <1>2 DEF ShardsInv, ShardsTypes
<1>4. ArraysUpright'
  <2>1. shards[i].items \in Nat /\ shards[i].length \in Nat
    BY <1>1 DEF ShardState
  <2>2. Upright(shards'[i], store.timed)
    BY <1>1, <1>2, <2>1 DEF Upright
  <2> QED
    BY <1>1, <1>2, <2>2 DEF ArraysUpright
<1>5. \A t \in Threads : /\ Scanning(t)' <=> Scanning(t)
                         /\ shardAt'[t] \in {"out", "putBack"} => shardAt[t] \in {"out", "putBack"}
  BY DEF Scanning
<1>6. Stretches'
  BY <1>5 DEF ShardsInv, Stretches
<1>7. NothingPassed'
  <2>1. \A k \in Shard : shards[k].items > 0 => shards'[k].items > 0
    BY <1>1, <1>2 DEF ShardState
  <2>2. \A t \in Threads : seen[t].found \subseteq Shard
    BY DEF ShardsInv, ShardsTypes
  <2> QED
    BY <1>5, <2>1, <2>2 DEF ShardsInv, ShardsTypes, NothingPassed
<1> QED
  BY <1>3, <1>4, <1>6, <1>7 DEF ShardsInv

LEMMA PutInv ==
  ASSUME ShardsInv, NEW i \in Shard, Enqueue(i) \/ \E t \in Threads : PutBack(t, i)
  PROVE  ShardsInv'
<1>1. shardAt \in [Threads -> ShardPlace]
  BY DEF ShardsInv, ShardsTypes
<1>2. CASE Enqueue(i)
  BY <1>1, <1>2, PutKeeps DEF Enqueue
<1>3. CASE \E t \in Threads : PutBack(t, i)
  BY <1>1, <1>3, PutKeeps DEF PutBack, Goto, Sent, ShardPlace
<1> QED
  BY <1>2, <1>3

\* Items go: nobody's call is quiet any more.
LEMMA GoneKeeps ==
  ASSUME ShardsInv, UNCHANGED store, shards' \in [Shard -> ShardState], ArraysUpright',
         NEW t \in Threads, NEW p \in ShardPlace,
         NEW s \in [read : SUBSET Shard, found : SUBSET Shard],
         shardAt' = [shardAt EXCEPT ![t] = p], seen' = [seen EXCEPT ![t] = s],
         p \in {"out", "putBack"} => s = NothingSeen, p \notin {"take", "peek"},
         \/ quiet' = {}
         \/ quiet' = quiet /\ \A k \in Shard : shards'[k].items = shards[k].items
  PROVE  ShardsInv'
<1>1. \A u \in Threads : /\ shardAt'[u] = IF u = t THEN p ELSE shardAt[u]
                         /\ seen'[u] = IF u = t THEN s ELSE seen[u]
  BY DEF ShardsInv, ShardsTypes
<1>2. ShardsTypes'
  BY DEF ShardsInv, ShardsTypes
<1>3. Stretches'
  BY <1>1 DEF ShardsInv, Stretches, Scanning
<1>4. NothingPassed'
  BY <1>1 DEF ShardsInv, ShardsTypes, NothingPassed, Scanning
<1> QED
  BY <1>2, <1>3, <1>4 DEF ShardsInv

LEMMA TakeInv ==
  ASSUME ShardsInv, NEW t \in Threads, TakeItem(t)
  PROVE  ShardsInv'
<1>1. /\ shards \in [Shard -> ShardState] /\ \A k \in Shard : Upright(shards[k], store.timed)
      /\ seen[t].found \subseteq Shard
  BY DEF ShardsInv, ShardsTypes, ArraysUpright
<1>2. PICK i \in Shard : shards[i].items > 0 /\ shards' = Removal(i)
  BY <1>1 DEF TakeItem
<1>3. shards[i].length = shards[i].items
  BY <1>1 DEF Upright
<1>4. /\ shards' \in [Shard -> ShardState]
      /\ shards'[i].items = shards[i].items - 1
      /\ shards'[i].length = shards[i].length - 1
      /\ shards'[i].stamped <=> shards[i].stamped /\ shards[i].items > 1
      /\ \A k \in Shard : k # i => shards'[k] = shards[k]
  BY <1>1, <1>2, <1>3, RemovalFields
<1>5. UNCHANGED store
  BY DEF TakeItem
<1>6. ArraysUpright'
  <2>1. shards[i].items \in Nat /\ shards[i].length \in Nat
    BY <1>1 DEF ShardState
  <2>2. Upright(shards'[i], store.timed)
    BY <1>1, <1>2, <1>4, <2>1 DEF Upright
  <2> QED
    BY <1>1, <1>4, <1>5, <2>2 DEF ArraysUpright
<1>7. /\ shardAt' = [shardAt EXCEPT ![t] = "out"] /\ seen' = [seen EXCEPT ![t] = NothingSeen]
      /\ quiet' = {} /\ "out" \in ShardPlace
      /\ NothingSeen \in [read : SUBSET Shard, found : SUBSET Shard]
  BY DEF TakeItem, Goto, Sent, Forget, Disturb, ShardPlace, NothingSeen
<1> QED
  BY <1>4, <1>5, <1>6, <1>7, GoneKeeps

LEMMA ClearInv ==
  ASSUME ShardsInv, NEW t \in Threads, ClearShard(t)
  PROVE  ShardsInv'
<1>1. /\ shards \in [Shard -> ShardState] /\ \A k \in Shard : Upright(shards[k], store.timed)
      /\ seen \in [Threads -> [read : SUBSET Shard, found : SUBSET Shard]]
      /\ shardAt \in [Threads -> ShardPlace] /\ shardAt[t] \in {"clear", "dispose"}
      /\ UNCHANGED <<shardAt, store>>
  BY DEF ShardsInv, ShardsTypes, ArraysUpright, ClearShard
<1> DEFINE i == Cardinality(seen[t].read) + 1
           s == [seen[t] EXCEPT !.read = @ \union {i}]
<1>2. i \in Shard
  <2>1. seen[t].read \subseteq Shard /\ IsFiniteSet(Shard)
    BY <1>1, FS_Interval, ShardsAssumption DEF Shard
  <2>2. Cardinality(seen[t].read) \in Nat
    BY <2>1, FS_Subset, FS_CardinalityType
  <2> QED
    BY <2>2, ShardsAssumption DEF ClearShard, Shard
<1>3. /\ s \in [read : SUBSET Shard, found : SUBSET Shard]
      /\ seen' = [seen EXCEPT ![t] = s]
      /\ shards' = [shards EXCEPT ![i] = Empty]
      /\ IF shards[i].items > 0 THEN quiet' = {} ELSE quiet' = quiet
  BY <1>1, <1>2 DEF ClearShard, Disturb
<1> HIDE DEF i, s
<1>4. Empty \in ShardState /\ Upright(Empty, store.timed) /\ Empty.items = 0
  BY DEF ShardState, Upright, Empty
<1>5. shards' \in [Shard -> ShardState] /\ ArraysUpright'
  BY <1>1, <1>2, <1>3, <1>4 DEF ArraysUpright
<1>6. \/ quiet' = {}
      \/ quiet' = quiet /\ \A k \in Shard : shards'[k].items = shards[k].items
  <2>1. shards[i].items \in Nat
    BY <1>1, <1>2 DEF ShardState
  <2> QED
    BY <1>1, <1>2, <1>3, <1>4, <2>1
<1>7. shardAt' = [shardAt EXCEPT ![t] = shardAt[t]] /\ shardAt[t] \in ShardPlace
  BY <1>1
<1> QED
  BY <1>1, <1>3, <1>5, <1>6, <1>7, GoneKeeps

LEMMA ShardsNextInv == ShardsInv /\ [ShardsNext]_shardsVars => ShardsInv'
<1> SUFFICES ASSUME ShardsInv, [ShardsNext]_shardsVars PROVE ShardsInv'
  OBVIOUS
<1>1. CASE \E i \in Shard : Enqueue(i) \/ \E t \in Threads : PutBack(t, i)
  BY <1>1, PutInv
<1>2. CASE \E t \in Threads : \/ \E task \in {"take", "peek"} : BeginScan(t, task)
                              \/ \E task \in {"clear", "dispose"} : BeginClear(t, task)
                              \/ BeginRewrite(t)
  BY <1>2, BeginInv
<1>3. CASE \E t \in Threads : \E i \in Shard : ReadArray(t, i)
  BY <1>3, ReadInv
<1>4. CASE \E t \in Threads : PeekItem(t) \/ RaiseEmpty(t) \/ Copied(t) \/ Cleared(t)
  BY <1>4, EndInv
<1>5. CASE \E t \in Threads : TakeItem(t)
  BY <1>5, TakeInv
<1>6. CASE \E t \in Threads : CopyShard(t)
  BY <1>6, CopyInv
<1>7. CASE \E t \in Threads : ClearShard(t)
  BY <1>7, ClearInv
<1>8. CASE UNCHANGED shardsVars
  BY <1>8 DEF shardsVars, ShardsInv, ShardsTypes, ArraysUpright, Stretches, NothingPassed,
              Scanning
<1> QED
  BY <1>1, <1>2, <1>3, <1>4, <1>5, <1>6, <1>7, <1>8 DEF ShardsNext

\* A call that is through with the arrays has read them all, or found something.
LEMMA ReadAll ==
  ASSUME ShardsInv, NEW t \in Threads, Ready(t)
  PROVE  seen[t].read = Shard \/ seen[t].found # {}
<1>1. seen[t].read \subseteq Shard /\ NextToRead(t) = {} /\ Scanning(t)
  BY DEF Ready, ShardsInv, ShardsTypes
<1>2. CASE store.timed
  <2>1. ~(Cardinality(seen[t].read) < NumShards)
    BY <1>1, <1>2 DEF NextToRead
  <2>2. IsFiniteSet(Shard) /\ Cardinality(Shard) = NumShards
    BY FS_Interval, ShardsAssumption DEF Shard
  <2>3. /\ Cardinality(seen[t].read) <= Cardinality(Shard)
        /\ Cardinality(seen[t].read) = Cardinality(Shard) => seen[t].read = Shard
        /\ Cardinality(seen[t].read) \in Nat
    BY <1>1, <2>2, FS_Subset, FS_CardinalityType
  <2> QED
    BY <2>1, <2>2, <2>3, ShardsAssumption
<1>3. CASE ~store.timed /\ seen[t].found = {}
  <2>1. seen[t].read # {}
    <3>1. 1 \in Shard
      BY ShardsAssumption DEF Shard
    <3> QED
      BY <1>1, <1>3, <3>1 DEF NextToRead
  <2>2. Stretch(seen[t].read)
    BY <1>1, <1>3, <2>1 DEF ShardsInv, Stretches
  <2>3. {i \in Shard \ seen[t].read :
           (IF i = 1 THEN NumShards ELSE i - 1) \in seen[t].read} = {}
    BY <1>1, <1>3, <2>1 DEF NextToRead
  <2> QED
    BY <2>2, <2>3, WholeStretch
<1> QED
  BY <1>2, <1>3

(* Empty is raised for a reason: for every number of shards and of threads, *)
(* a dequeue or a peek that nobody disturbs finds what was there all along, *)
(* although it reads the arrays without a lock (dequeue, pop, peek_oldest). *)
(* The invariant says that the arrays are upright whenever they are read,   *)
(* that a collection reads one stretch after the other, and that some item  *)
(* is found already or still ahead.                                         *)
THEOREM EmptyHasAReason == ShardsSpec => []EmptyOnlyWhenRaced
<1>1. ShardsInv => EmptyOnlyWhenRaced
  <2> SUFFICES ASSUME ShardsInv, NEW t \in quiet, Ready(t)
               PROVE  seen[t].found # {} /\ \A i \in seen[t].found : shards[i].items > 0
    BY DEF EmptyOnlyWhenRaced
  <2>1. t \in Threads /\ Scanning(t)
    BY DEF ShardsInv, ShardsTypes, Ready
  <2> QED
    BY <2>1, ReadAll DEF ShardsInv, NothingPassed
<1> QED
  BY <1>1, ShardsInitInv, ShardsNextInv, PTL DEF ShardsSpec

-----------------------------------------------------------------------------
(* How many threads are in a set and in another one.                       *)

LEMMA CountGrows ==
  ASSUME NEW S, NEW T, S \subseteq T, T \subseteq Threads
  PROVE  Cardinality(S) <= Cardinality(T) /\ Cardinality(S) \in Nat /\ Cardinality(T) \in Nat
BY CountType, FS_Subset

LEMMA CountAdds ==
  ASSUME NEW S, S \subseteq Threads, NEW t \in Threads
  PROVE  /\ Cardinality(S \union {t}) \in Nat /\ Cardinality(S) \in Nat
         /\ Cardinality(S \union {t}) <= Cardinality(S) + 1
         /\ t \in S => Cardinality(S \ {t}) = Cardinality(S) - 1
BY CountType, FS_AddElement, FS_RemoveElement

-----------------------------------------------------------------------------
(* SyncForks                                                               *)

SyncPlace ==
  {"out", "arrive", "renew", "pingInside", "ping", "count", "await", "claim", "look",
   "ask", "fail", "finish", "giveUp", "listen", "expire", "final"}

ForkState ==
  [signal : BOOLEAN, timed : BOOLEAN, manual : BOOLEAN, routes : 1 .. MaxRoutes,
   uses : Nat, blocked : Nat, closed : BOOLEAN, released : BOOLEAN, event : BOOLEAN,
   timedOut : BOOLEAN, disposed : BOOLEAN]

SyncTypes ==
  /\ forkAt \in [Threads -> SyncPlace]
  /\ fork \in ForkState
  /\ monitors \subseteq Threads /\ deferred \subseteq Threads /\ ran \subseteq Threads

\* Who is yet to be counted: a deferred thread is with the scout, and whoever
\* comes back from there to be counted is deferred.
WithScout == {"ping", "claim", "count", "look", "ask", "giveUp", "listen", "expire",
              "finish", "fail"}

Deferral ==
  /\ \A t \in deferred : forkAt[t] \in WithScout
  /\ \A t \in Threads : forkAt[t] = "count" => t \in deferred

Uncounted == {t \in Threads : forkAt[t] \in {"arrive", "renew"}} \union deferred

\* A slot is taken before its thread is counted, and no thread runs that has
\* not taken a slot.
Inside == {t \in Threads : forkAt[t] # "out"}

Slots ==
  /\ fork.blocked + Cardinality(Uncounted) <= fork.uses
  /\ Cardinality(ran \union Inside) <= fork.uses
  /\ fork.uses <= fork.routes

\* The barrier is open for a reason, and nobody is past it while it is shut.
Reasons ==
  /\ fork.event => \/ fork.blocked = fork.routes \/ fork.released
                   \/ fork.timedOut \/ fork.disposed
  /\ \A t \in Threads : forkAt[t] = "final" => fork.event

RanFull == ran # {} => fork.blocked = fork.routes \/ fork.released

SyncInv == SyncTypes /\ Deferral /\ Slots /\ Reasons /\ RanFull

LEMMA SyncInitInv == SyncInit => SyncInv
<1> SUFFICES ASSUME SyncInit PROVE SyncInv
  OBVIOUS
<1>1. forkAt = [t \in Threads |-> "out"] /\ monitors = {} /\ deferred = {} /\ ran = {}
  BY DEF SyncInit, Everywhere
<1>2. /\ fork \in ForkState /\ fork.uses = 0 /\ fork.blocked = 0 /\ ~fork.event
      /\ fork.routes \in Nat
  <2>1. PICK n \in 1 .. MaxRoutes, s \in Settings :
          fork = [signal |-> s[1], timed |-> s[2], manual |-> s[3], routes |-> n,
                  uses |-> 0, blocked |-> 0, closed |-> FALSE, released |-> FALSE,
                  event |-> FALSE, timedOut |-> FALSE, disposed |-> FALSE]
    BY DEF SyncInit
  <2>2. s[1] \in BOOLEAN /\ s[2] \in BOOLEAN /\ s[3] \in BOOLEAN
    BY SyncForksAssumption
  <2>3. FALSE \in BOOLEAN /\ 0 \in Nat /\ n \in Nat
    BY SyncForksAssumption
  <2>4. ASSUME NEW b \in BOOLEAN, NEW x \in BOOLEAN, NEW y \in BOOLEAN, NEW z \in BOOLEAN,
               NEW k \in Nat
        PROVE  [signal |-> x, timed |-> y, manual |-> z, routes |-> n,
                uses |-> k, blocked |-> k, closed |-> b, released |-> b,
                event |-> b, timedOut |-> b, disposed |-> b] \in ForkState
    BY DEF ForkState
  <2>5. fork \in ForkState
    BY <2>1, <2>2, <2>3, <2>4, Zenon
  <2>6. fork.uses = 0 /\ fork.blocked = 0 /\ fork.routes = n
    BY <2>1
  <2>7. ~fork.event
    BY <2>1
  <2> QED
    BY <2>3, <2>5, <2>6, <2>7
<1>3. SyncTypes /\ Deferral
  BY <1>1, <1>2 DEF SyncTypes, Deferral, SyncPlace
<1>4. Uncounted = {} /\ ran \union Inside = {}
  BY <1>1 DEF Uncounted, Inside
<1>5. Slots
  BY <1>2, <1>4, FS_EmptySet DEF Slots
<1>6. Reasons /\ RanFull
  BY <1>1, <1>2 DEF Reasons, RanFull
<1> QED
  BY <1>3, <1>5, <1>6 DEF SyncInv

\* A step in which nobody is counted or takes a slot.
LEMMA SlotsKept ==
  ASSUME SyncInv, SyncTypes', fork'.blocked = fork.blocked, fork'.uses = fork.uses,
         fork'.routes = fork.routes, deferred' \subseteq deferred, ran' \subseteq ran \union Inside,
         \A t \in Threads :
           /\ forkAt'[t] \in {"arrive", "renew"} => forkAt[t] \in {"arrive", "renew"}
           /\ forkAt'[t] # "out" => forkAt[t] # "out"
  PROVE  Slots'
<1>1. /\ fork.blocked \in Nat /\ fork.uses \in Nat /\ fork.routes \in Nat
      /\ fork.blocked + Cardinality(Uncounted) <= fork.uses
      /\ Cardinality(ran \union Inside) <= fork.uses
      /\ fork.uses <= fork.routes
  BY SyncForksAssumption DEF SyncInv, SyncTypes, ForkState, Slots
<1>2. /\ Cardinality(Uncounted') <= Cardinality(Uncounted)
      /\ Cardinality(Uncounted') \in Nat /\ Cardinality(Uncounted) \in Nat
  <2>1. Uncounted' \subseteq Uncounted /\ Uncounted \subseteq Threads
    BY DEF SyncInv, SyncTypes, Uncounted
  <2> QED
    BY <2>1, CountGrows
<1>3. /\ Cardinality(ran' \union Inside') <= Cardinality(ran \union Inside)
      /\ Cardinality(ran' \union Inside') \in Nat /\ Cardinality(ran \union Inside) \in Nat
  <2>1. ran' \union Inside' \subseteq ran \union Inside /\ ran \union Inside \subseteq Threads
    BY DEF SyncInv, SyncTypes, Inside
  <2> QED
    BY <2>1, CountGrows
<1> QED
  BY <1>1, <1>2, <1>3 DEF Slots

\* A thread goes from one place inside to another, or leaves, and some others
\* may be woken to look again.
LEMMA WalkKeeps ==
  ASSUME SyncInv, SyncTypes', Deferral', UNCHANGED <<fork, ran>>,
         deferred' \subseteq deferred,
         \A t \in Threads :
           \/ forkAt'[t] = forkAt[t]
           \/ forkAt[t] = "arrive" /\ forkAt'[t] = "renew"
           \/ forkAt[t] # "out" /\ forkAt'[t] \notin {"arrive", "renew", "final"}
  PROVE  SyncInv'
<1>1. Slots'
  BY SlotsKept DEF SyncInv
<1>2. Reasons' /\ RanFull'
  BY DEF SyncInv, Reasons, RanFull
<1> QED
  BY <1>1, <1>2 DEF SyncInv

\* The same for a single thread that keeps to its way.
LEMMA OneWalks ==
  ASSUME SyncInv, UNCHANGED <<fork, ran>>, NEW t \in Threads, NEW p \in SyncPlace,
         forkAt' = Sent(forkAt, t, p), forkAt[t] # "out",
         p \notin {"arrive", "renew", "final"},
         monitors' \subseteq monitors, deferred' = deferred \/ deferred' = deferred \ {t},
         p \in WithScout \/ t \notin deferred',
         p = "count" => t \in deferred'
  PROVE  SyncInv'
<1>1. \A u \in Threads : forkAt'[u] = IF u = t THEN p ELSE forkAt[u]
  BY DEF Sent, SyncInv, SyncTypes
<1>2. SyncTypes'
  BY DEF Sent, SyncInv, SyncTypes
<1>3. Deferral'
  BY <1>1 DEF SyncInv, SyncTypes, Deferral
<1> QED
  BY <1>1, <1>2, <1>3, WalkKeeps

LEMMA ScoutStepInv ==
  ASSUME SyncInv, NEW t \in Threads,
         \/ NoScout(t) \/ Claim(t) \/ Look(t) \/ Ask(t) \/ TimePasses(t)
         \/ GiveUpWaiting(t) \/ FinishScout(t)
  PROVE  SyncInv'
<1> USE DEF Move, AfterScout, SyncPlace, WithScout
<1>1. CASE NoScout(t)
  BY <1>1, OneWalks DEF NoScout
<1>2. CASE Claim(t)
  BY <1>2, OneWalks DEF Claim
<1>3. CASE Look(t)
  BY <1>3, OneWalks DEF Look
<1>4. CASE Ask(t)
  BY <1>4, OneWalks DEF Ask
<1>5. CASE TimePasses(t)
  BY <1>5, OneWalks DEF TimePasses
<1>6. CASE GiveUpWaiting(t)
  BY <1>6, OneWalks DEF GiveUpWaiting
<1>7. CASE FinishScout(t)
  BY <1>7, OneWalks DEF FinishScout
<1> QED
  BY <1>1, <1>2, <1>3, <1>4, <1>5, <1>6, <1>7

\* notify_all on the scout's condition, and where its caller goes then.
LEMMA PingKeeps ==
  ASSUME SyncInv, UNCHANGED <<fork, ran, monitors, deferred>>, NEW t \in Threads,
         NEW p \in SyncPlace,
         forkAt' = Sent(forkAt, t, p) \/ forkAt' = Sent(Pinged, t, p),
         forkAt[t] # "out", p \notin {"arrive", "renew", "final"},
         p \in WithScout \/ t \notin deferred,
         p = "count" => t \in deferred
  PROVE  SyncInv'
<1>1. /\ forkAt' \in [Threads -> SyncPlace]
      /\ \A u \in Threads : IF u = t THEN forkAt'[u] = p
                            ELSE \/ forkAt'[u] = forkAt[u]
                                 \/ forkAt[u] = "listen" /\ forkAt'[u] = "look"
  BY DEF Sent, Pinged, SyncInv, SyncTypes, SyncPlace
<1>2. SyncTypes'
  BY <1>1 DEF SyncInv, SyncTypes
<1>3. Deferral'
  BY <1>1 DEF SyncInv, SyncTypes, Deferral, WithScout
<1>4. \A u \in Threads :
        \/ forkAt'[u] = forkAt[u]
        \/ forkAt[u] # "out" /\ forkAt'[u] \notin {"arrive", "renew", "final"}
  BY <1>1
<1> QED
  BY <1>2, <1>3, <1>4, WalkKeeps

LEMMA PingsInv ==
  ASSUME SyncInv, NEW t \in Threads, PingInside(t) \/ Ping(t)
  PROVE  SyncInv'
<1>1. CASE PingInside(t)
  <2>1. t \notin deferred
    BY <1>1 DEF SyncInv, Deferral, WithScout, PingInside
  <2> QED
    BY <1>1, <2>1, PingKeeps DEF PingInside, AfterArrival, SyncPlace, WithScout
<1>2. CASE Ping(t)
  <2> DEFINE p == IF t \in monitors THEN "claim" ELSE IF t \in deferred THEN "count" ELSE "await"
  <2>1. /\ p \in SyncPlace /\ p \notin {"arrive", "renew", "final"}
        /\ p \in WithScout \/ t \notin deferred
        /\ p = "count" => t \in deferred
    BY DEF SyncPlace, WithScout
  <2>2. /\ UNCHANGED <<fork, ran, monitors, deferred>> /\ forkAt[t] # "out"
        /\ forkAt' = Sent(forkAt, t, p) \/ forkAt' = Sent(Pinged, t, p)
    BY <1>2 DEF Ping
  <2> HIDE DEF p
  <2> QED
    BY <2>1, <2>2, PingKeeps
<1> QED
  BY <1>1, <1>2

-----------------------------------------------------------------------------
(* A thread is counted.                                                    *)

LEMMA CountedFields ==
  ASSUME fork \in ForkState
  PROVE  /\ Counted \in ForkState
         /\ Counted.blocked = fork.blocked + 1
         /\ Counted.uses = fork.uses /\ Counted.routes = fork.routes
         /\ Counted.signal = fork.signal
         /\ Counted.timedOut = fork.timedOut /\ Counted.disposed = fork.disposed
         /\ fork.event => Counted.event
         /\ \/ Counted.blocked >= fork.routes
            \/ Counted.event = fork.event /\ Counted.released = fork.released
<1> DEFINE n == fork.blocked + 1
           Like(f) == /\ f \in ForkState /\ f.blocked = n
                      /\ f.uses = fork.uses /\ f.routes = fork.routes
                      /\ f.signal = fork.signal
                      /\ f.timedOut = fork.timedOut /\ f.disposed = fork.disposed
           Opened(f, e) == Like(f) /\ f.event = e
           Shut(f) == Like(f) /\ f.event = fork.event /\ f.released = fork.released
<1>1. n \in Nat /\ TRUE \in BOOLEAN /\ fork.signal \in BOOLEAN
  BY DEF ForkState
<1>2. ASSUME NEW c \in BOOLEAN, NEW r \in BOOLEAN, NEW e \in BOOLEAN
      PROVE  Opened([fork EXCEPT !.blocked = n, !.closed = c, !.released = r, !.event = e], e)
  BY <1>1 DEF ForkState
<1>3. Shut([fork EXCEPT !.blocked = n])
  BY <1>1 DEF ForkState
<1>4. CASE n >= fork.routes /\ ~fork.manual
  <2>1. Counted = [fork EXCEPT !.blocked = n, !.closed = TRUE, !.released = fork.signal,
                               !.event = TRUE]
    BY <1>4 DEF Counted
  <2>2. Opened(Counted, TRUE)
    <3> HIDE DEF n, Opened
    <3> QED
      BY <2>1, <1>1, <1>2, Zenon
  <2> QED
    BY <1>4, <2>2
<1>5. CASE ~(n >= fork.routes /\ ~fork.manual)
  <2>1. Counted = [fork EXCEPT !.blocked = n]
    BY <1>5 DEF Counted
  <2> QED
    BY <2>1, <1>3
<1> QED
  BY <1>4, <1>5

\* Who has a slot and has not been counted leaves room for it in the count.
LEMMA CountKeeps ==
  ASSUME SyncInv, NEW t \in Uncounted, fork' = Counted, ran' = ran,
         SyncTypes', Deferral', deferred' \subseteq deferred \ {t},
         forkAt[t] # "out", forkAt'[t] \notin {"arrive", "renew", "final"},
         \A u \in Threads : u # t => forkAt'[u] = forkAt[u]
  PROVE  SyncInv'
<1>1. /\ fork'.blocked = fork.blocked + 1
      /\ fork'.uses = fork.uses /\ fork'.routes = fork.routes
      /\ fork'.timedOut = fork.timedOut /\ fork'.disposed = fork.disposed
      /\ fork.event => fork'.event
      /\ \/ fork'.blocked >= fork.routes
         \/ fork'.event = fork.event /\ fork'.released = fork.released
  BY CountedFields DEF SyncInv, SyncTypes
<1>2. /\ fork.blocked \in Nat /\ fork.uses \in Nat /\ fork.routes \in Nat
      /\ fork.blocked + Cardinality(Uncounted) <= fork.uses
      /\ Cardinality(ran \union Inside) <= fork.uses
      /\ fork.uses <= fork.routes
  BY SyncForksAssumption DEF SyncInv, SyncTypes, ForkState, Slots
<1>3. Uncounted \subseteq Threads /\ Uncounted' \subseteq Uncounted \ {t}
  BY DEF SyncInv, SyncTypes, Uncounted
<1>4. /\ Cardinality(Uncounted') <= Cardinality(Uncounted) - 1
      /\ Cardinality(Uncounted') \in Nat /\ Cardinality(Uncounted) \in Nat
  <2>1. Uncounted \ {t} \subseteq Threads /\ t \in Threads
    BY <1>3
  <2>2. Cardinality(Uncounted \ {t}) = Cardinality(Uncounted) - 1 /\ Cardinality(Uncounted) \in Nat
    BY <1>3, <2>1, CountAdds
  <2>3. Cardinality(Uncounted') <= Cardinality(Uncounted \ {t}) /\ Cardinality(Uncounted') \in Nat
    BY <1>3, <2>1, CountGrows
  <2> QED
    BY <2>2, <2>3
<1>5. /\ Cardinality(ran' \union Inside') <= Cardinality(ran \union Inside)
      /\ Cardinality(ran' \union Inside') \in Nat /\ Cardinality(ran \union Inside) \in Nat
  <2>1. ran' \union Inside' \subseteq ran \union Inside /\ ran \union Inside \subseteq Threads
    BY <1>3 DEF SyncInv, SyncTypes, Inside
  <2> QED
    BY <2>1, CountGrows
<1>6. Slots'
  BY <1>1, <1>2, <1>4, <1>5 DEF Slots
<1>7. fork.blocked < fork.routes /\ fork'.blocked <= fork.routes
  BY <1>1, <1>2, <1>4
<1>8. fork'.blocked = fork'.routes
      \/ (fork'.event = fork.event /\ fork'.released = fork.released)
  BY <1>1, <1>2, <1>7
<1>9. Reasons' /\ RanFull'
  BY <1>1, <1>2, <1>3, <1>7, <1>8 DEF SyncInv, Reasons, RanFull
<1> QED
  BY <1>6, <1>9 DEF SyncInv

LEMMA ArriveInv ==
  ASSUME SyncInv, NEW t \in Threads, ArriveAtFork(t)
  PROVE  SyncInv'
<1> USE DEF Move
<1>1. /\ forkAt \in [Threads -> SyncPlace] /\ fork \in ForkState /\ forkAt[t] = "arrive"
      /\ monitors \subseteq Threads /\ deferred \subseteq Threads /\ t \notin deferred
      /\ ran' = ran /\ t \in Uncounted
  BY DEF ArriveAtFork, SyncInv, SyncTypes, Deferral, WithScout, Uncounted
<1>2. CASE First /\ scout.exists
  <2>1. /\ UNCHANGED <<monitors, deferred, fork>>
        /\ \A u \in Threads : forkAt'[u] = IF u = t THEN "renew" ELSE forkAt[u]
        /\ forkAt' \in [Threads -> SyncPlace]
    BY <1>1, <1>2 DEF ArriveAtFork, Sent, SyncPlace
  <2>2. SyncTypes' /\ Deferral'
    BY <1>1, <2>1 DEF SyncInv, SyncTypes, Deferral
  <2> QED
    BY <1>1, <2>1, <2>2, WalkKeeps
<1>3. CASE ~(First /\ scout.exists)
  <2>1. /\ monitors' = IF First THEN monitors \union {t} ELSE monitors
        /\ deferred' = IF Defers THEN deferred \union {t} ELSE deferred
        /\ fork' = IF Defers THEN fork ELSE Counted
        /\ \/ PingsInside(fork') /\ forkAt' = Sent(forkAt, t, "pingInside")
           \/ PingsAfter(fork') /\ forkAt' = Sent(forkAt, t, "ping")
           \/ ~PingsAfter(fork') /\ forkAt' = Sent(forkAt, t, AfterArrival(t, monitors'))
    BY <1>3 DEF ArriveAtFork
  <2>2. PICK p \in {"pingInside", "ping", "claim", "await"} :
          /\ forkAt' = Sent(forkAt, t, p)
          /\ p = "pingInside" => PingsInside(fork')
          /\ p = "await" => ~PingsAfter(fork') /\ t \notin monitors'
    BY <2>1 DEF AfterArrival
  <2>3. /\ forkAt' \in [Threads -> SyncPlace] /\ forkAt'[t] = p
        /\ \A u \in Threads : u # t => forkAt'[u] = forkAt[u]
    BY <1>1, <2>2 DEF Sent, SyncPlace
  <2>4. monitors' \subseteq Threads /\ deferred' \subseteq Threads
    BY <1>1, <2>1
  <2>5. CASE Defers
    <3>1. fork' = fork /\ deferred' = deferred \union {t}
      BY <2>1, <2>5
    <3>2. fork.routes = 1 /\ (fork.signal => fork.blocked = 0 /\ t \in monitors')
      BY <2>1, <2>5 DEF Defers, First
    <3>3. p \in {"ping", "claim"}
      BY <2>2, <3>1, <3>2 DEF PingsInside, PingsAfter
    <3>4. SyncTypes' /\ Deferral'
      BY <1>1, <2>3, <2>4, <3>1, <3>3 DEF SyncInv, SyncTypes, Deferral, WithScout
    <3>5. Slots'
      <4>1. Uncounted' = Uncounted /\ ran' \union Inside' = ran \union Inside
        BY <1>1, <2>3, <3>1, <3>3 DEF Uncounted, Inside
      <4> QED
        BY <3>1, <4>1 DEF SyncInv, Slots
    <3>6. Reasons' /\ RanFull'
      BY <1>1, <2>3, <3>1, <3>3 DEF SyncInv, Reasons, RanFull
    <3> QED
      BY <3>4, <3>5, <3>6 DEF SyncInv
  <2>6. CASE ~Defers
    <3>1. fork' = Counted /\ deferred' = deferred \ {t}
      BY <1>1, <2>1, <2>6
    <3>2. SyncTypes' /\ Deferral'
      BY <1>1, <2>2, <2>3, <2>4, <3>1, CountedFields DEF SyncInv, SyncTypes, Deferral
    <3> QED
      BY <1>1, <2>2, <2>3, <3>1, <3>2, CountKeeps
  <2> QED
    BY <2>5, <2>6
<1> QED
  BY <1>2, <1>3

LEMMA RenewInv ==
  ASSUME SyncInv, NEW t \in Threads, RenewScout(t)
  PROVE  SyncInv'
<1>1. /\ forkAt \in [Threads -> SyncPlace] /\ fork \in ForkState /\ forkAt[t] = "renew"
      /\ monitors \subseteq Threads /\ deferred \subseteq Threads /\ t \notin deferred
      /\ ran' = ran /\ t \in Uncounted
  BY DEF RenewScout, SyncInv, SyncTypes, Deferral, WithScout, Uncounted
<1>2. PICK p \in {"ping", "claim"} : forkAt' = Sent(forkAt, t, p)
  BY DEF RenewScout, Move
<1>3. /\ forkAt' \in [Threads -> SyncPlace] /\ forkAt'[t] = p
      /\ \A u \in Threads : u # t => forkAt'[u] = forkAt[u]
  BY <1>1, <1>2 DEF Sent, SyncPlace
<1>4. monitors' \subseteq Threads /\ deferred' \subseteq Threads
  BY <1>1 DEF RenewScout
<1>5. CASE Defers
  <2>1. fork' = fork /\ deferred' = deferred \union {t}
    BY <1>5 DEF RenewScout
  <2>2. SyncTypes' /\ Deferral'
    BY <1>1, <1>3, <1>4, <2>1 DEF SyncInv, SyncTypes, Deferral, WithScout
  <2>3. Slots'
    <3>1. Uncounted' = Uncounted /\ ran' \union Inside' = ran \union Inside
      BY <1>1, <1>3, <2>1 DEF Uncounted, Inside
    <3> QED
      BY <2>1, <3>1 DEF SyncInv, Slots
  <2>4. Reasons' /\ RanFull'
    BY <1>1, <1>3, <2>1 DEF SyncInv, Reasons, RanFull
  <2> QED
    BY <2>2, <2>3, <2>4 DEF SyncInv
<1>6. CASE ~Defers
  <2>1. fork' = Counted /\ deferred' = deferred \ {t}
    BY <1>1, <1>6 DEF RenewScout
  <2>2. SyncTypes' /\ Deferral'
    BY <1>1, <1>3, <1>4, <2>1, CountedFields DEF SyncInv, SyncTypes, Deferral
  <2> QED
    BY <1>1, <1>3, <2>1, <2>2, CountKeeps
<1> QED
  BY <1>5, <1>6

LEMMA CountLateInv ==
  ASSUME SyncInv, NEW t \in Threads, CountLate(t)
  PROVE  SyncInv'
<1>1. /\ forkAt \in [Threads -> SyncPlace] /\ fork \in ForkState /\ forkAt[t] = "count"
      /\ t \in Uncounted /\ UNCHANGED <<ran, monitors>>
      /\ fork' = Counted /\ deferred' = deferred \ {t}
  BY DEF CountLate, SyncInv, SyncTypes, Deferral, Uncounted
<1>2. PICK p \in {"pingInside", "ping", "await"} : forkAt' = Sent(forkAt, t, p)
  BY DEF CountLate, Move
<1>3. /\ forkAt' \in [Threads -> SyncPlace] /\ forkAt'[t] = p
      /\ \A u \in Threads : u # t => forkAt'[u] = forkAt[u]
  BY <1>1, <1>2 DEF Sent, SyncPlace
<1>4. SyncTypes' /\ Deferral'
  BY <1>1, <1>3, CountedFields DEF SyncInv, SyncTypes, Deferral
<1> QED
  BY <1>1, <1>3, <1>4, CountKeeps

-----------------------------------------------------------------------------
(* The flags of a fork.                                                    *)

\* What NoSlot, release, dispose and a timeout do to the fork: its counts stay,
\* and what opens the barrier is marked.
Marked(f, g) ==
  /\ g \in ForkState
  /\ g.blocked = f.blocked /\ g.uses = f.uses /\ g.routes = f.routes
  /\ f.event => g.event
  /\ f.released => g.released
  /\ g.event => \/ f.event /\ (f.timedOut => g.timedOut) /\ (f.disposed => g.disposed)
                \/ g.released \/ g.timedOut \/ g.disposed

LEMMA MarkedFields ==
  ASSUME fork \in ForkState
  PROVE  /\ Marked(fork, fork)
         /\ Marked(fork, [fork EXCEPT !.closed = TRUE])
         /\ Marked(fork, [fork EXCEPT !.released = TRUE, !.closed = TRUE, !.event = TRUE])
         /\ Marked(fork, [fork EXCEPT !.timedOut = TRUE, !.closed = TRUE, !.event = TRUE])
         /\ Marked(fork, [fork EXCEPT !.disposed = TRUE, !.closed = TRUE, !.event = TRUE])
<1>1. ASSUME NEW y \in BOOLEAN, y
      PROVE  Marked(fork, [fork EXCEPT !.closed = y])
  BY <1>1 DEF ForkState, Marked
<1>2. ASSUME NEW y \in BOOLEAN, y
      PROVE  Marked(fork, [fork EXCEPT !.released = y, !.closed = y, !.event = y])
  BY <1>2 DEF ForkState, Marked
<1>3. ASSUME NEW y \in BOOLEAN, y
      PROVE  Marked(fork, [fork EXCEPT !.timedOut = y, !.closed = y, !.event = y])
  BY <1>3 DEF ForkState, Marked
<1>4. ASSUME NEW y \in BOOLEAN, y
      PROVE  Marked(fork, [fork EXCEPT !.disposed = y, !.closed = y, !.event = y])
  BY <1>4 DEF ForkState, Marked
<1>5. Marked(fork, fork)
  BY DEF Marked
<1>6. TRUE \in BOOLEAN /\ TRUE
  OBVIOUS
<1> QED
  BY <1>1, <1>2, <1>3, <1>4, <1>5, <1>6, Zenon

\* The fork is marked, and threads go about as in WalkKeeps.
LEMMA MarkKeeps ==
  ASSUME SyncInv, Marked(fork, fork'), Deferral', UNCHANGED <<ran, monitors, deferred>>,
         forkAt' \in [Threads -> SyncPlace],
         \A t \in Threads :
           \/ forkAt'[t] = forkAt[t]
           \/ forkAt[t] # "out" /\ forkAt'[t] \notin {"arrive", "renew", "final"}
  PROVE  SyncInv'
<1>1. SyncTypes'
  BY DEF SyncInv, SyncTypes, Marked
<1>2. Slots'
  BY <1>1, SlotsKept DEF SyncInv, Marked
<1>3. Reasons' /\ RanFull'
  BY DEF SyncInv, Reasons, RanFull, Marked
<1> QED
  BY <1>1, <1>2, <1>3 DEF SyncInv

LEMMA MarkInv ==
  ASSUME SyncInv, ReleaseFork \/ DisposeFork \/ (\E t \in Threads : NoSlot(t))
  PROVE  SyncInv'
<1>1. Marked(fork, fork')
  BY MarkedFields, Zenon DEF SyncInv, SyncTypes, ReleaseFork, DisposeFork, NoSlot
<1>2. UNCHANGED <<forkAt, ran, monitors, deferred>>
  BY DEF ReleaseFork, DisposeFork, NoSlot
<1> QED
  BY <1>1, <1>2, MarkKeeps DEF SyncInv, SyncTypes, Deferral

LEMMA TimeOutInv ==
  ASSUME SyncInv, NEW t \in Threads, TimeOut(t)
  PROVE  SyncInv'
<1>1. Marked(fork, fork')
  BY MarkedFields, Zenon DEF SyncInv, SyncTypes, TimeOut
<1>2. /\ UNCHANGED <<ran, monitors, deferred>> /\ forkAt[t] = "expire"
      /\ forkAt' = [forkAt EXCEPT ![t] = "finish"]
  BY DEF TimeOut, Move, Sent
<1> QED
  BY <1>1, <1>2, MarkKeeps DEF SyncInv, SyncTypes, Deferral, SyncPlace, WithScout

LEMMA DisposeScoutInv ==
  ASSUME SyncInv, DisposeScout
  PROVE  SyncInv'
<1>1. Marked(fork, fork')
  BY MarkedFields DEF SyncInv, SyncTypes, DisposeScout
<1> QED
  BY <1>1, MarkKeeps DEF SyncInv, SyncTypes, Deferral, DisposeScout, Pinged, SyncPlace, WithScout

-----------------------------------------------------------------------------
(* The beginning of a call and its end.                                    *)

LEMMA TakeSlotInv ==
  ASSUME SyncInv, NEW t \in Threads, TakeSlot(t)
  PROVE  SyncInv'
<1>1. /\ fork \in ForkState /\ fork.uses < fork.routes
      /\ fork' = [fork EXCEPT !.uses = @ + 1]
      /\ UNCHANGED <<monitors, deferred, ran>>
      /\ forkAt \in [Threads -> SyncPlace] /\ forkAt[t] = "out" /\ t \notin deferred
      /\ deferred \subseteq Threads /\ ran \subseteq Threads
  BY DEF TakeSlot, SyncInv, SyncTypes, Deferral, WithScout
<1>2. /\ fork' \in ForkState /\ fork'.uses = fork.uses + 1
      /\ fork'.blocked = fork.blocked /\ fork'.routes = fork.routes
      /\ fork'.event = fork.event /\ fork'.released = fork.released
      /\ fork'.timedOut = fork.timedOut /\ fork'.disposed = fork.disposed
  BY <1>1 DEF ForkState
<1>3. /\ forkAt' \in [Threads -> SyncPlace]
      /\ \A u \in Threads : forkAt'[u] = IF u = t THEN "arrive" ELSE forkAt[u]
  BY <1>1 DEF TakeSlot, Move, Sent, SyncPlace
<1>4. SyncTypes' /\ Deferral'
  BY <1>1, <1>2, <1>3 DEF SyncInv, SyncTypes, Deferral
<1>5. Slots'
  <2>1. Uncounted' = Uncounted \union {t} /\ ran' \union Inside' = (ran \union Inside) \union {t}
    BY <1>1, <1>3 DEF Uncounted, Inside
  <2>2. Uncounted \subseteq Threads /\ ran \union Inside \subseteq Threads
    BY <1>1 DEF Uncounted, Inside
  <2>3. /\ Cardinality(Uncounted') <= Cardinality(Uncounted) + 1
        /\ Cardinality(Uncounted') \in Nat /\ Cardinality(Uncounted) \in Nat
    BY <2>1, <2>2, CountAdds
  <2>4. /\ Cardinality(ran' \union Inside') <= Cardinality(ran \union Inside) + 1
        /\ Cardinality(ran' \union Inside') \in Nat /\ Cardinality(ran \union Inside) \in Nat
    BY <2>1, <2>2, CountAdds
  <2>5. fork.blocked \in Nat /\ fork.uses \in Nat /\ fork.routes \in Nat
    BY <1>1, SyncForksAssumption DEF ForkState
  <2> QED
    BY <1>1, <1>2, <2>3, <2>4, <2>5 DEF SyncInv, Slots
<1>6. Reasons' /\ RanFull'
  BY <1>1, <1>2, <1>3 DEF SyncInv, Reasons, RanFull
<1> QED
  BY <1>4, <1>5, <1>6 DEF SyncInv

\* A thread that was let through runs for the reason the barrier was opened for.
LEMMA WakeRunInv ==
  ASSUME SyncInv, NEW t \in Threads, Wake(t) \/ RunOrRaise(t)
  PROVE  SyncInv'
<1>1. /\ UNCHANGED <<fork, monitors, deferred>>
      /\ forkAt \in [Threads -> SyncPlace] /\ ran \subseteq Threads
      /\ forkAt[t] \in {"await", "final"}
  BY DEF Wake, RunOrRaise, SyncInv, SyncTypes
<1>2. \/ /\ forkAt' = [forkAt EXCEPT ![t] = "final"] /\ fork.event /\ ran' = ran
      \/ /\ forkAt' = [forkAt EXCEPT ![t] = "out"] /\ forkAt[t] = "final"
         /\ ran' = ran \/ (ran' = ran \union {t} /\ ~fork.disposed /\ ~fork.timedOut)
  BY DEF Wake, RunOrRaise, Move, Sent
<1>3. t \notin deferred
  BY <1>1 DEF SyncInv, Deferral, WithScout
<1>4. SyncTypes' /\ Deferral'
  BY <1>1, <1>2, <1>3 DEF SyncInv, SyncTypes, Deferral, SyncPlace
<1>5. Slots'
  <2>1. ran' \subseteq ran \union Inside
    BY <1>1, <1>2 DEF Inside
  <2> QED
    BY <1>1, <1>2, <1>4, <2>1, SlotsKept DEF SyncInv
<1>6. Reasons' /\ RanFull'
  BY <1>1, <1>2 DEF SyncInv, Reasons, RanFull
<1> QED
  BY <1>4, <1>5, <1>6 DEF SyncInv

LEMMA ResetForkInv ==
  ASSUME SyncInv, ResetFork
  PROVE  SyncInv'
<1>1. /\ fork \in ForkState /\ UNCHANGED <<forkAt, monitors, deferred>> /\ ran' = {}
      /\ \A t \in Threads : forkAt[t] = "out"
      /\ fork' = [fork EXCEPT !.uses = 0, !.blocked = 0, !.closed = FALSE,
                              !.released = FALSE, !.event = FALSE, !.timedOut = FALSE]
  BY DEF ResetFork, SyncInv, SyncTypes
<1> DEFINE Anew(f) == /\ f \in ForkState /\ f.uses = 0 /\ f.blocked = 0 /\ ~f.event
                      /\ f.routes \in Nat
<1>2. Anew(fork')
  <2>1. ASSUME NEW n \in BOOLEAN, ~n
        PROVE  Anew([fork EXCEPT !.uses = 0, !.blocked = 0, !.closed = n,
                                 !.released = n, !.event = n, !.timedOut = n])
    <3> DEFINE g == [fork EXCEPT !.uses = 0, !.blocked = 0, !.closed = n,
                                 !.released = n, !.event = n, !.timedOut = n]
    <3>1. g \in ForkState
      BY <1>1 DEF ForkState
    <3>2. g.uses = 0 /\ g.blocked = 0 /\ g.routes = fork.routes /\ ~g.event
      BY <1>1, <2>1 DEF ForkState
    <3>3. fork.routes \in Nat
      BY <1>1, SyncForksAssumption DEF ForkState
    <3> QED
      BY <3>1, <3>2, <3>3
  <2>2. FALSE \in BOOLEAN /\ ~FALSE
    OBVIOUS
  <2> HIDE DEF Anew
  <2> QED
    BY <1>1, <2>1, <2>2, Zenon
<1>3. SyncTypes' /\ Deferral'
  BY <1>1, <1>2 DEF SyncInv, SyncTypes, Deferral
<1>4. Uncounted' = {} /\ ran' \union Inside' = {}
  <2>1. deferred = {}
    BY <1>1 DEF SyncInv, SyncTypes, Deferral, WithScout
  <2> QED
    BY <1>1, <2>1 DEF Uncounted, Inside
<1>5. Slots'
  <2>1. Cardinality(Uncounted') = 0 /\ Cardinality(ran' \union Inside') = 0
    BY <1>4, FS_EmptySet
  <2> QED
    BY <1>2, <2>1 DEF Slots
<1>6. Reasons' /\ RanFull'
  BY <1>1, <1>2 DEF Reasons, RanFull
<1> QED
  BY <1>3, <1>5, <1>6 DEF SyncInv

LEMMA SyncNextInv == SyncInv /\ [SyncNext]_syncVars => SyncInv'
<1> SUFFICES ASSUME SyncInv, [SyncNext]_syncVars PROVE SyncInv'
  OBVIOUS
<1>1. CASE \E t \in Threads : SyncResume(t)
  BY <1>1, ArriveInv, RenewInv, PingsInv, CountLateInv, ScoutStepInv, TimeOutInv,
     WakeRunInv DEF SyncResume
<1>2. CASE \E t \in Threads : TakeSlot(t)
  BY <1>2, TakeSlotInv
<1>3. CASE ReleaseFork \/ DisposeFork \/ (\E t \in Threads : NoSlot(t))
  BY <1>3, MarkInv
<1>4. CASE DisposeScout
  BY <1>4, DisposeScoutInv
<1>5. CASE ResetFork
  BY <1>5, ResetForkInv
<1>6. CASE UNCHANGED syncVars
  BY <1>6 DEF syncVars, SyncInv, SyncTypes, Deferral, Slots, Uncounted, Inside, Reasons, RanFull
<1> QED
  BY <1>1, <1>2, <1>3, <1>4, <1>5, <1>6 DEF SyncNext

(* Nobody runs before the house is full: for every number of threads and of *)
(* slots, with and without a timeout, a manual release, resets and dispose  *)
(* (use_fork, _scout_predicate, _handle_scout_timeout, release).  The       *)
(* invariant counts whoever holds a slot and is not yet in `blocked`.       *)
THEOREM NobodyRunsEarly == SyncSpec => []RunsOnlyFull
<1>1. SyncInv => RunsOnlyFull
  <2> SUFFICES ASSUME SyncInv, ran # {}
               PROVE  /\ fork.blocked = fork.routes \/ fork.released
                      /\ Cardinality(ran) <= fork.routes
    BY DEF RunsOnlyFull
  <2>1. ran \subseteq ran \union Inside /\ ran \union Inside \subseteq Threads
    BY DEF SyncInv, SyncTypes, Inside
  <2>2. fork.uses \in Nat /\ fork.routes \in Nat
    BY SyncForksAssumption DEF SyncInv, SyncTypes, ForkState
  <2> QED
    BY <2>1, <2>2, CountGrows DEF SyncInv, Slots, RanFull
<1> QED
  BY <1>1, SyncInitInv, SyncNextInv, PTL DEF SyncSpec

-----------------------------------------------------------------------------
(* Forks: the orders in which a call looks at the units.                   *)

LEMMA Remainder ==
  ASSUME NEW n \in Nat \ {0}, NEW a \in Int
  PROVE  /\ a = n * (a \div n) + (a % n)
         /\ a % n \in 0 .. n - 1 /\ a \div n \in Int
OBVIOUS

LEMMA RemainderUnique ==
  ASSUME NEW n \in Nat \ {0}, NEW q \in Int, NEW r \in 0 .. n - 1
  PROVE  (n * q + r) % n = r
OBVIOUS

LEMMA StepFromType ==
  ASSUME NEW c \in 0 .. Units - 1
  PROVE  StepFrom(c) \in [Unit -> Unit]
<1>1. Units \in Nat \ {0} /\ Unit = 1 .. Units
  BY ForksAssumption DEF Unit
<1> SUFFICES ASSUME NEW i \in Unit
             PROVE  ((c + (i - 1) * Step) % Units) + 1 \in Unit
  BY DEF StepFrom
<1>2. i - 1 \in Int /\ Step \in Int
  BY <1>1, ForksAssumption
<1>3. (i - 1) * Step \in Int
  BY <1>2
<1>4. c + (i - 1) * Step \in Int
  BY <1>1, <1>3
<1> HIDE DEF Unit
<1>5. (c + (i - 1) * Step) % Units \in 0 .. Units - 1
  BY <1>1, <1>4, Remainder
<1> QED
  BY <1>1, <1>5

LEMMA HalfType == Half(TRUE) \in [Unit -> Unit] /\ Half(FALSE) \in [Unit -> Unit]
<1>1. Units \in Nat \ {0} /\ Unit = 1 .. Units
  BY ForksAssumption DEF Unit
<1>2. Mid \in 0 .. Units
  BY <1>1 DEF Mid
<1> QED
  BY <1>1, <1>2 DEF Half

LEMMA WaysType == \A order \in Ways : order \in [Unit -> Unit]
  BY HalfType, StepFromType DEF Ways

\* A call looks in one of the ways there are.
LEMMA OrdersAreWays ==
  ASSUME forks.counter \in 0 .. Units - 1, NEW order \in Orders
  PROVE  order \in Ways /\ order \in Seq(Unit) /\ DOMAIN order = Unit
<1>1. Units \in Nat \ {0} /\ Unit = 1 .. Units
  BY ForksAssumption DEF Unit
<1>2. order \in Ways
  BY DEF Orders, Ways
<1>3. order \in [Unit -> Unit]
  BY HalfType, StepFromType DEF Orders
<1> QED
  BY <1>1, <1>2, <1>3

-----------------------------------------------------------------------------
(* Forks: the invariant.                                                   *)

PickPlace == {"out", "scan", "found", "none", "again", "runs"}

ForksState ==
  [cap : [Unit -> 0 .. MaxCap], signal : BOOLEAN, rotate : BOOLEAN,
   counter : 0 .. Units - 1, closed : BOOLEAN, called : BOOLEAN, disposed : BOOLEAN,
   resetting : 0 .. Units + 1]

ForksTypes ==
  /\ pickAt \in [Threads -> PickPlace]
  /\ scan \in [Threads -> Seq(Unit)]
  /\ unit \in [Threads -> 0 .. Units]
  /\ uses \in [Unit -> Nat]
  /\ forks \in ForksState
  /\ \A t \in Threads : pickAt[t] \in {"found", "runs"} => unit[t] \in Unit

WithinCaps == \A u \in Unit : uses[u] <= forks.cap[u]

\* Between steady resets: of the units on its way, the ones that a call does not
\* look at any more are full, and stay so.
AllFull(order) == \A i \in Unit : ~Room(order[i])

Covered(order, s) ==
  \A i \in Unit : Room(order[i]) => \E k \in DOMAIN s : s[k] = order[i]

NothingMissed ==
  Undisturbed =>
    /\ \A t \in Threads : pickAt[t] = "scan" => \E order \in Ways : Covered(order, scan[t])
    /\ TurnedAway => \E order \in Ways : AllFull(order)

ForksInv == ForksTypes /\ WithinCaps /\ NothingMissed

LEMMA ForksInitInv == ForksInit => ForksInv
<1> SUFFICES ASSUME ForksInit PROVE ForksInv
  OBVIOUS
<1>1. PICK c \in [Unit -> 0 .. MaxCap], s \in BOOLEAN, r \in BOOLEAN :
        forks = [cap |-> c, signal |-> s, rotate |-> r, counter |-> 0, closed |-> FALSE,
                 called |-> FALSE, disposed |-> FALSE, resetting |-> 0]
  BY DEF ForksInit
<1>2. 0 \in 0 .. Units - 1 /\ 0 \in 0 .. Units + 1 /\ 0 \in 0 .. Units
  BY ForksAssumption
<1>3. forks \in ForksState
  <2>1. ASSUME NEW b \in BOOLEAN, NEW n \in 0 .. Units - 1, NEW k \in 0 .. Units + 1
        PROVE  [cap |-> c, signal |-> s, rotate |-> r, counter |-> n, closed |-> b,
                called |-> b, disposed |-> b, resetting |-> k] \in ForksState
    BY DEF ForksState
  <2>2. FALSE \in BOOLEAN
    OBVIOUS
  <2> QED
    BY <1>1, <1>2, <2>1, <2>2, Zenon
<1>4. ~forks.closed /\ forks.cap = c
  BY <1>1
<1>5. /\ pickAt = [t \in Threads |-> "out"] /\ scan = [t \in Threads |-> <<>>]
      /\ unit = [t \in Threads |-> 0] /\ uses = [u \in Unit |-> 0]
  BY DEF ForksInit, Everywhere
<1>6. ForksTypes
  BY <1>2, <1>3, <1>5 DEF ForksTypes, PickPlace
<1>7. WithinCaps
  BY <1>4, <1>5, ForksAssumption DEF WithinCaps
<1>8. NothingMissed
  BY <1>4, <1>5 DEF NothingMissed, TurnedAway
<1> QED
  BY <1>6, <1>7, <1>8 DEF ForksInv

\* What a change of the fork's flags leaves alone.
Reflagged(f, g) ==
  /\ g \in ForksState
  /\ g.cap = f.cap /\ g.rotate = f.rotate /\ g.resetting = f.resetting
  /\ f.disposed => g.disposed

LEMMA ReflaggedFields ==
  ASSUME forks \in ForksState
  PROVE  /\ Reflagged(forks, forks)
         /\ Reflagged(forks, [forks EXCEPT !.closed = TRUE])
         /\ Reflagged(forks, [forks EXCEPT !.disposed = TRUE, !.closed = TRUE])
         /\ LET g == [forks EXCEPT !.called = @ \/ forks.signal] IN
            Reflagged(forks, g) /\ g.closed = forks.closed
         /\ \A k \in 0 .. Units - 1 :
              LET g == [forks EXCEPT !.counter = k] IN
              Reflagged(forks, g) /\ g.closed = forks.closed
<1>1. ASSUME NEW y \in BOOLEAN
      PROVE  Reflagged(forks, [forks EXCEPT !.closed = y])
  BY DEF ForksState, Reflagged
<1>2. ASSUME NEW y \in BOOLEAN, y
      PROVE  Reflagged(forks, [forks EXCEPT !.disposed = y, !.closed = y])
  BY <1>2 DEF ForksState, Reflagged
<1> DEFINE Like(g) == Reflagged(forks, g) /\ g.closed = forks.closed
<1>3. ASSUME NEW y \in BOOLEAN
      PROVE  Like([forks EXCEPT !.called = y])
  BY DEF ForksState, Reflagged
<1>4. ASSUME NEW k \in 0 .. Units - 1
      PROVE  Like([forks EXCEPT !.counter = k])
  BY DEF ForksState, Reflagged
<1>5. Reflagged(forks, forks)
  BY DEF Reflagged
<1>6. TRUE \in BOOLEAN /\ TRUE
  OBVIOUS
<1>7. (forks.called \/ forks.signal) \in BOOLEAN
  OBVIOUS
<1> HIDE DEF Like
<1>8. Like([forks EXCEPT !.called = @ \/ forks.signal])
  BY <1>3, <1>7, Zenon
<1>9. /\ Reflagged(forks, [forks EXCEPT !.closed = TRUE])
      /\ Reflagged(forks, [forks EXCEPT !.disposed = TRUE, !.closed = TRUE])
  BY <1>1, <1>2, <1>6, Zenon
<1> QED
  BY <1>4, <1>5, <1>8, <1>9, Zenon DEF Like

\* A step that leaves the counts alone: a call that looks has all units of its
\* way with room before it, or goes on past one that is full, and nobody finds
\* none unless all units of a way are full.
LEMMA LookKeeps ==
  ASSUME ForksInv, ForksTypes', Reflagged(forks, forks'), UNCHANGED <<uses, steady>>,
         \A t \in Threads :
           Undisturbed /\ pickAt'[t] = "scan" =>
             \/ pickAt[t] = "scan" /\ scan'[t] = scan[t]
             \/ \E order \in Ways : Covered(order, scan'[t]),
         Undisturbed => \/ forks'.closed = forks.closed
                        \/ forks'.disposed
                        \/ \E order \in Ways : AllFull(order),
         \A t \in Threads :
           Undisturbed /\ pickAt'[t] = "none" =>
             pickAt[t] = "none" \/ \E order \in Ways : AllFull(order)
  PROVE  ForksInv'
<1>1. /\ forks'.cap = forks.cap /\ forks'.rotate = forks.rotate
      /\ Undisturbed' => Undisturbed
      /\ forks'.disposed => ~Undisturbed'
  BY DEF Reflagged, Undisturbed
<1>2. \A u : Room(u)' <=> Room(u)
  BY <1>1 DEF Room
<1>3. Ways' = Ways
  BY <1>1 DEF Ways
<1>4. \A order : AllFull(order)' <=> AllFull(order)
  BY <1>2 DEF AllFull
<1>5. \A order, s : Covered(order, s) => Covered(order, s)'
  BY <1>2 DEF Covered
<1>6. WithinCaps'
  BY <1>1 DEF ForksInv, WithinCaps
<1>7. ASSUME Undisturbed'
      PROVE  NothingMissed'
  <2>1. Undisturbed /\ ~forks'.disposed
    BY <1>1, <1>7
  <2>2. ASSUME NEW t \in Threads, pickAt'[t] = "scan"
        PROVE  \E order \in Ways : Covered(order, scan'[t])
    BY <2>1, <2>2 DEF ForksInv, NothingMissed
  <2>3. ASSUME NEW t \in Threads, pickAt'[t] = "scan"
        PROVE  \E order \in Ways' : Covered(order, scan[t])'
    BY <1>3, <1>5, <2>2, <2>3 DEF Covered
  <2>4. TurnedAway' => \E order \in Ways : AllFull(order)
    BY <2>1 DEF TurnedAway, ForksInv, NothingMissed
  <2>5. TurnedAway' => \E order \in Ways' : AllFull(order)'
    BY <1>3, <1>4, <2>4
  <2> QED
    BY <2>3, <2>5 DEF NothingMissed
<1> QED
  BY <1>6, <1>7 DEF ForksInv, NothingMissed

LEMMA LookInv ==
  ASSUME ForksInv, NEW t \in Threads, LookAround(t) \/ PassUnit(t)
  PROVE  ForksInv'
<1>1. /\ pickAt \in [Threads -> PickPlace] /\ scan \in [Threads -> Seq(Unit)]
      /\ forks \in ForksState /\ UNCHANGED <<unit, uses, forks, steady>>
  BY DEF ForksInv, ForksTypes, LookAround, PassUnit
<1>2. Reflagged(forks, forks') /\ forks'.closed = forks.closed
  BY <1>1, ReflaggedFields
<1>3. CASE LookAround(t)
  <2>1. PICK order \in Orders : scan' = [scan EXCEPT ![t] = order]
    BY <1>3 DEF LookAround
  <2>2. order \in Seq(Unit) /\ order \in Ways /\ Covered(order, order)
    BY <1>1, OrdersAreWays DEF ForksState, Covered
  <2>3. pickAt' = [pickAt EXCEPT ![t] = "scan"]
    BY <1>3 DEF LookAround, Sent
  <2>4. ForksTypes'
    BY <1>1, <2>1, <2>2, <2>3 DEF ForksInv, ForksTypes, PickPlace
  <2>5. \A u \in Threads :
          pickAt'[u] = "scan" =>
            \/ pickAt[u] = "scan" /\ scan'[u] = scan[u]
            \/ \E way \in Ways : Covered(way, scan'[u])
    BY <1>1, <2>1, <2>2, <2>3
  <2>6. \A u \in Threads : pickAt'[u] = "none" => pickAt[u] = "none"
    BY <1>1, <2>3
  <2> QED
    BY <1>1, <1>2, <2>4, <2>5, <2>6, LookKeeps
<1>4. CASE PassUnit(t)
  <2>1. /\ scan[t] # <<>> /\ ~Room(Head(scan[t])) /\ pickAt[t] = "scan" /\ UNCHANGED pickAt
        /\ scan' = [scan EXCEPT ![t] = Tail(scan[t])]
    BY <1>4 DEF PassUnit
  <2>2. Tail(scan[t]) \in Seq(Unit) /\ scan[t] \in Seq(Unit)
    BY <1>1, <2>1
  <2>3. ForksTypes'
    BY <1>1, <2>1, <2>2 DEF ForksInv, ForksTypes
  <2>4. ASSUME NEW u \in Threads, Undisturbed, pickAt'[u] = "scan"
        PROVE  \/ pickAt[u] = "scan" /\ scan'[u] = scan[u]
               \/ \E order \in Ways : Covered(order, scan'[u])
    <3>1. CASE u # t
      BY <1>1, <2>1, <2>4, <3>1
    <3>2. CASE u = t
      <4>1. PICK order \in Ways : Covered(order, scan[t])
        BY <2>1, <2>4 DEF ForksInv, NothingMissed
      <4>2. scan'[u] = Tail(scan[t])
        BY <1>1, <2>1, <3>2
      <4>3. ASSUME NEW i \in Unit, Room(order[i])
            PROVE  \E k \in DOMAIN Tail(scan[t]) : Tail(scan[t])[k] = order[i]
        <5>1. PICK k \in DOMAIN scan[t] : scan[t][k] = order[i]
          BY <4>1, <4>3 DEF Covered
        <5>2. k # 1
          BY <2>1, <2>2, <4>3, <5>1
        <5>3. k - 1 \in DOMAIN Tail(scan[t]) /\ Tail(scan[t])[k - 1] = order[i]
          BY <2>1, <2>2, <5>1, <5>2
        <5> QED
          BY <5>3
      <4> QED
        BY <4>1, <4>2, <4>3 DEF Covered
    <3> QED
      BY <3>1, <3>2
  <2> QED
    BY <1>1, <1>2, <2>1, <2>3, <2>4, LookKeeps
<1> QED
  BY <1>3, <1>4

LEMMA FindInv ==
  ASSUME ForksInv, NEW t \in Threads, FindUnit(t) \/ FindNone(t)
  PROVE  ForksInv'
<1>1. /\ pickAt \in [Threads -> PickPlace] /\ scan \in [Threads -> Seq(Unit)]
      /\ unit \in [Threads -> 0 .. Units]
      /\ forks \in ForksState /\ UNCHANGED <<uses, steady>>
  BY DEF ForksInv, ForksTypes, FindUnit, FindNone
<1>2. CASE FindUnit(t)
  <2>1. Head(scan[t]) \in Unit /\ <<>> \in Seq(Unit) /\ Unit \subseteq 0 .. Units
    BY <1>1, <1>2, ForksAssumption DEF FindUnit, Unit
  <2>2. Head(scan[t]) % Units \in 0 .. Units - 1
    <3>1. Head(scan[t]) \in Int /\ Units \in Nat \ {0}
      BY <2>1, ForksAssumption DEF Unit
    <3> QED
      BY <3>1, Remainder
  <2>3. Reflagged(forks, forks') /\ forks'.closed = forks.closed
    BY <1>1, <1>2, <2>2, ReflaggedFields DEF FindUnit
  <2>4. /\ pickAt' = [pickAt EXCEPT ![t] = "found"]
        /\ unit' = [unit EXCEPT ![t] = Head(scan[t])]
        /\ scan' = [scan EXCEPT ![t] = <<>>]
    BY <1>2 DEF FindUnit, Sent
  <2>5. ForksTypes'
    BY <1>1, <2>1, <2>3, <2>4 DEF ForksInv, ForksTypes, PickPlace, Reflagged
  <2> QED
    BY <1>1, <2>3, <2>4, <2>5, LookKeeps
<1>3. CASE FindNone(t)
  <2>1. Reflagged(forks, forks')
    BY <1>1, <1>3, ReflaggedFields DEF FindNone
  <2>2. pickAt' = [pickAt EXCEPT ![t] = "none"] /\ UNCHANGED <<scan, unit>>
        /\ pickAt[t] = "scan" /\ scan[t] = <<>>
    BY <1>3 DEF FindNone, Sent
  <2>3. ForksTypes'
    BY <1>1, <2>1, <2>2 DEF ForksInv, ForksTypes, PickPlace, Reflagged
  <2>4. Undisturbed => \E order \in Ways : AllFull(order)
    <3>1. \A order : Covered(order, <<>>) => AllFull(order)
      BY DEF Covered, AllFull
    <3> QED
      BY <2>2, <3>1 DEF ForksInv, NothingMissed
  <2> QED
    BY <1>1, <2>1, <2>2, <2>3, <2>4, LookKeeps
<1> QED
  BY <1>2, <1>3

LEMMA LeaveInv ==
  ASSUME ForksInv, NEW t \in Threads,
         Refuse(t) \/ TooLate(t) \/ Finish(t) \/ TripOnNone(t)
  PROVE  ForksInv'
<1>1. /\ pickAt \in [Threads -> PickPlace] /\ scan \in [Threads -> Seq(Unit)]
      /\ unit \in [Threads -> 0 .. Units]
      /\ forks \in ForksState /\ UNCHANGED <<uses, steady>>
  BY DEF ForksInv, ForksTypes, Refuse, TooLate, Finish, TripOnNone
<1>2. Reflagged(forks, forks') /\ forks'.closed = forks.closed
  BY <1>1, ReflaggedFields, Zenon DEF Refuse, TooLate, Finish, TripOnNone
<1>3. PICK p \in {"out", "again"} : pickAt' = [pickAt EXCEPT ![t] = p]
  BY DEF Refuse, TooLate, Finish, TripOnNone, Sent
<1>4. /\ scan' = scan \/ scan' = [scan EXCEPT ![t] = <<>>]
      /\ unit' = unit \/ unit' = [unit EXCEPT ![t] = 0]
  BY DEF Refuse, TooLate, Finish, TripOnNone
<1>5. 0 \in 0 .. Units /\ <<>> \in Seq(Unit)
  BY ForksAssumption
<1>6. /\ pickAt' \in [Threads -> PickPlace] /\ scan' \in [Threads -> Seq(Unit)]
      /\ unit' \in [Threads -> 0 .. Units]
      /\ \A u \in Threads : IF u = t THEN pickAt'[u] = p
                            ELSE /\ pickAt'[u] = pickAt[u] /\ scan'[u] = scan[u]
                                 /\ unit'[u] = unit[u]
  BY <1>1, <1>3, <1>4, <1>5 DEF PickPlace
<1>7. ForksTypes'
  BY <1>1, <1>2, <1>6 DEF ForksInv, ForksTypes, Reflagged
<1> QED
  BY <1>1, <1>2, <1>6, <1>7, LookKeeps

LEMMA DisposeForksInv ==
  ASSUME ForksInv, DisposeForks
  PROVE  ForksInv'
<1>1. Reflagged(forks, forks') /\ forks'.disposed
  BY ReflaggedFields DEF ForksInv, ForksTypes, DisposeForks, ForksState
<1>2. UNCHANGED <<pickAt, scan, unit, uses, steady>>
  BY DEF DisposeForks
<1>3. ForksTypes'
  BY <1>1, <1>2 DEF ForksInv, ForksTypes, Reflagged
<1> QED
  BY <1>1, <1>2, <1>3, LookKeeps

-----------------------------------------------------------------------------
(* Forks: the counts.                                                      *)

\* Fewer units with room, and no call looks at fewer of them.
LEMMA MissedKept ==
  ASSUME NothingMissed, Undisturbed' => Undisturbed, forks'.rotate = forks.rotate,
         \A u \in Unit : Room(u)' => Room(u),
         \A t \in Threads : pickAt'[t] = "scan" => pickAt[t] = "scan" /\ scan'[t] = scan[t],
         TurnedAway' => TurnedAway
  PROVE  NothingMissed'
<1>1. Ways' = Ways
  BY DEF Ways
<1>2. ASSUME NEW order \in Ways
      PROVE  /\ AllFull(order) => AllFull(order)'
             /\ \A s : Covered(order, s) => Covered(order, s)'
  <2>1. \A i \in Unit : Room(order[i])' => Room(order[i])
    BY WaysType
  <2> QED
    BY <2>1 DEF AllFull, Covered
<1>3. SUFFICES ASSUME Undisturbed'
               PROVE  /\ \A t \in Threads : pickAt'[t] = "scan" =>
                           \E order \in Ways' : Covered(order, scan[t])'
                      /\ TurnedAway' => \E order \in Ways' : AllFull(order)'
  BY DEF NothingMissed
<1>4. ASSUME NEW t \in Threads, pickAt'[t] = "scan"
      PROVE  \E order \in Ways' : Covered(order, scan[t])'
  <2>1. PICK order \in Ways : Covered(order, scan[t])
    BY <1>3, <1>4 DEF NothingMissed
  <2>2. Covered(order, scan[t])'
    BY <1>2, <1>4, <2>1 DEF Covered
  <2> QED
    BY <1>1, <2>2
<1>5. ASSUME TurnedAway'
      PROVE  \E order \in Ways' : AllFull(order)'
  BY <1>1, <1>2, <1>3, <1>5 DEF NothingMissed
<1> QED
  BY <1>4, <1>5

LEMMA ReserveInv ==
  ASSUME ForksInv, NEW t \in Threads, Reserve(t)
  PROVE  ForksInv'
<1>1. /\ unit[t] \in Unit /\ pickAt[t] = "found" /\ uses[unit[t]] < forks.cap[unit[t]]
      /\ pickAt' = [pickAt EXCEPT ![t] = "runs"]
      /\ uses' = [uses EXCEPT ![unit[t]] = uses[unit[t]] + 1]
      /\ uses \in [Unit -> Nat] /\ forks.cap \in [Unit -> Nat]
      /\ UNCHANGED <<scan, unit, forks, steady>>
  BY ForksAssumption DEF ForksInv, ForksTypes, ForksState, Reserve, Sent, Room
<1>2. \A u \in Unit : /\ uses'[u] \in Nat /\ uses[u] <= uses'[u]
                      /\ uses[u] <= forks.cap[u] => uses'[u] <= forks.cap[u]
  BY <1>1
<1>3. ForksTypes'
  BY <1>1 DEF ForksInv, ForksTypes, PickPlace
<1>4. WithinCaps'
  BY <1>1, <1>2 DEF ForksInv, WithinCaps
<1>5. \A u \in Unit : Room(u)' => Room(u)
  BY <1>1, <1>2 DEF Room
<1>6. \A u \in Threads : /\ pickAt'[u] = "scan" => pickAt[u] = "scan"
                         /\ pickAt'[u] = "none" => pickAt[u] = "none"
  BY <1>1 DEF ForksInv, ForksTypes
<1>7. NothingMissed'
  BY <1>1, <1>5, <1>6, MissedKept DEF ForksInv, Undisturbed, TurnedAway
<1> QED
  BY <1>3, <1>4, <1>7 DEF ForksInv

LEMMA BeginResetInv ==
  ASSUME ForksInv, BeginReset
  PROVE  ForksInv'
<1>1. /\ forks \in ForksState /\ UNCHANGED <<pickAt, scan, unit, uses>>
      /\ forks' = [forks EXCEPT !.resetting = 1] /\ 1 \in 0 .. Units + 1
  BY ForksAssumption DEF ForksInv, ForksTypes, BeginReset
<1>2. forks' \in ForksState /\ forks'.cap = forks.cap /\ forks'.resetting = 1
  BY <1>1 DEF ForksState
<1> QED
  BY <1>1, <1>2 DEF ForksInv, ForksTypes, WithinCaps, NothingMissed, Undisturbed

LEMMA ResetUnitInv ==
  ASSUME ForksInv, ResetUnit
  PROVE  ForksInv'
<1>1. /\ forks \in ForksState /\ UNCHANGED <<pickAt, scan, unit>>
      /\ uses \in [Unit -> Nat] /\ forks.resetting \in Unit
      /\ uses' = [uses EXCEPT ![forks.resetting] = 0]
      /\ forks' = [forks EXCEPT !.resetting = forks.resetting + 1]
      /\ forks.resetting + 1 \in 1 .. Units + 1
  BY ForksAssumption DEF ForksInv, ForksTypes, ResetUnit, Unit
<1>2. /\ forks' \in ForksState /\ forks'.cap = forks.cap
      /\ forks'.resetting = forks.resetting + 1
  BY <1>1 DEF ForksState
<1>3. forks'.resetting # 0
  BY <1>1, <1>2
<1>4. forks.cap \in [Unit -> Nat]
  BY <1>1, ForksAssumption DEF ForksState
<1>5. WithinCaps'
  BY <1>1, <1>2, <1>4 DEF ForksInv, WithinCaps
<1> QED
  BY <1>1, <1>2, <1>3, <1>5 DEF ForksInv, ForksTypes, NothingMissed, Undisturbed

LEMMA ReopenInv ==
  ASSUME ForksInv, ReopenForks
  PROVE  ForksInv'
<1> DEFINE Fresh(g) == g \in ForksState /\ g.cap = forks.cap /\ ~g.closed
<1>1. forks \in ForksState /\ 0 \in 0 .. Units - 1 /\ 0 \in 0 .. Units + 1
  BY ForksAssumption DEF ForksInv, ForksTypes
<1>2. ASSUME NEW n \in BOOLEAN, ~n, NEW c \in BOOLEAN
      PROVE  Fresh([forks EXCEPT !.resetting = 0, !.counter = 0, !.closed = n, !.called = c])
  BY <1>1, <1>2 DEF ForksState
<1>3. FALSE \in BOOLEAN /\ ~FALSE /\ (forks.called /\ ~forks.signal) \in BOOLEAN
  OBVIOUS
<1>4. Fresh(forks')
  <2> HIDE DEF Fresh
  <2> QED
    BY <1>2, <1>3, Zenon DEF ReopenForks
<1>5. UNCHANGED <<pickAt, scan, unit, uses>> /\ (steady' => \A t \in Threads : pickAt[t] = "out")
  BY DEF ReopenForks, Idle
<1> QED
  BY <1>4, <1>5 DEF ForksInv, ForksTypes, WithinCaps, NothingMissed, Undisturbed, TurnedAway

LEMMA ForksNextInv == ForksInv /\ [ForksNext]_forksVars => ForksInv'
<1> SUFFICES ASSUME ForksInv, [ForksNext]_forksVars PROVE ForksInv'
  OBVIOUS
<1>1. CASE \E t \in Threads : LookAround(t) \/ PassUnit(t)
  BY <1>1, LookInv
<1>2. CASE \E t \in Threads : FindUnit(t) \/ FindNone(t)
  BY <1>2, FindInv
<1>3. CASE \E t \in Threads : Refuse(t) \/ TooLate(t) \/ Finish(t) \/ TripOnNone(t)
  BY <1>3, LeaveInv
<1>4. CASE \E t \in Threads : Reserve(t)
  BY <1>4, ReserveInv
<1>5. CASE BeginReset
  BY <1>5, BeginResetInv
<1>6. CASE ResetUnit
  BY <1>6, ResetUnitInv
<1>7. CASE ReopenForks
  BY <1>7, ReopenInv
<1>8. CASE DisposeForks
  BY <1>8, DisposeForksInv
<1>9. CASE UNCHANGED forksVars
  <2>1. NothingMissed'
    BY <1>9, MissedKept DEF forksVars, ForksInv, Undisturbed, TurnedAway, Room
  <2> QED
    BY <1>9, <2>1 DEF forksVars, ForksInv, ForksTypes, WithinCaps
<1> QED
  BY <1>1, <1>2, <1>3, <1>4, <1>5, <1>6, <1>7, <1>8, <1>9 DEF ForksNext

(* A slot of a Fork or SignalFork is given away once, and as long as resets *)
(* find nobody inside, callers are turned away only when every slot they    *)
(* come by is taken: for every number of units, every step of the selector  *)
(* and both halves of the rotating one (use_fork, _select_fork_unit,        *)
(* _select_fork_unit_step, reset).  The invariant says that whatever a call *)
(* has looked at is full for good.                                          *)
THEOREM SlotsGivenOnce == ForksSpec => []SlotsCounted
<1>1. ForksInv => SlotsCounted
  BY DEF ForksInv, WithinCaps, NothingMissed, AllFull, SlotsCounted
<1> QED
  BY <1>1, ForksInitInv, ForksNextInv, PTL DEF ForksSpec

-----------------------------------------------------------------------------
(* Forks: what is promised of every unit.                                  *)

\* The step and the number of units have no common factor: the steps from the
\* first unit come by every other.
StepReachesAll == \A u \in Unit : \E i \in 0 .. Units - 1 : (i * Step) % Units = u - 1

\* Then they do so wherever the shared counter stands.
LEMMA StepReaches ==
  ASSUME StepReachesAll, NEW c \in 0 .. Units - 1, NEW u \in Unit
  PROVE  \E i \in Unit : ((c + (i - 1) * Step) % Units) + 1 = u
<1>1. Units \in Nat \ {0} /\ Step \in Int /\ u \in 1 .. Units
  BY ForksAssumption DEF Unit
<1>2. PICK v \in 1 .. Units : v - 1 = u - 1 - c \/ v - 1 = u - 1 - c + Units
  <2>1. CASE u - 1 >= c
    <3>1. u - c \in 1 .. Units /\ (u - c) - 1 = u - 1 - c
      BY <1>1, <2>1
    <3> QED
      BY <3>1
  <2>2. CASE u - 1 < c
    <3>1. u - c + Units \in 1 .. Units /\ (u - c + Units) - 1 = u - 1 - c + Units
      BY <1>1, <2>2
    <3> QED
      BY <3>1
  <2> QED
    BY <1>1, <2>1, <2>2
<1>3. PICK j \in 0 .. Units - 1 : (j * Step) % Units = v - 1
  BY DEF StepReachesAll, Unit
<1> DEFINE a == j * Step
           q == a \div Units
<1>4. a \in Int
  BY <1>1
<1>5. a = Units * q + (v - 1) /\ q \in Int
  BY <1>1, <1>3, <1>4, Remainder
<1>6. c + a = Units * q + (u - 1) \/ c + a = Units * (q + 1) + (u - 1)
  <2>1. Units * (q + 1) = Units * q + Units /\ Units * q \in Int
    BY <1>1, <1>5
  <2> HIDE DEF a, q
  <2> QED
    BY <1>1, <1>2, <1>4, <1>5, <2>1
<1>7. (c + a) % Units = u - 1
  <2>1. u - 1 \in 0 .. Units - 1 /\ q \in Int /\ q + 1 \in Int
    BY <1>1, <1>5
  <2> HIDE DEF a, q
  <2> QED
    BY <1>1, <1>6, <2>1, RemainderUnique
<1>8. j + 1 \in Unit /\ (j + 1) - 1 = j
  BY <1>1 DEF Unit
<1> QED
  BY <1>7, <1>8, <1>1

LEMMA WaysReach ==
  ASSUME StepReachesAll, NEW order \in Ways, NEW u \in Unit
  PROVE  \E i \in Unit : order[i] = u
<1>1. Units \in Nat \ {0} /\ Unit = 1 .. Units
  BY ForksAssumption DEF Unit
<1>2. CASE \E c \in 0 .. Units - 1 : order = StepFrom(c)
  BY <1>2, StepReaches DEF StepFrom
<1>3. CASE order = Half(TRUE)
  BY <1>3 DEF Half
<1>4. CASE order = Half(FALSE)
  <2>1. Mid \in 0 .. Units
    BY <1>1 DEF Mid
  <2>2. order = [i \in Unit |-> IF i <= Units - Mid THEN Mid + i ELSE i - (Units - Mid)]
    BY <1>4 DEF Half
  <2>3. CASE u > Mid
    <3>1. u - Mid \in Unit /\ u - Mid <= Units - Mid
      BY <1>1, <2>1, <2>3
    <3>2. order[u - Mid] = u
      BY <1>1, <2>1, <2>2, <3>1
    <3> QED
      BY <3>1, <3>2
  <2>4. CASE u <= Mid
    <3>1. u + (Units - Mid) \in Unit /\ ~(u + (Units - Mid) <= Units - Mid)
      BY <1>1, <2>1, <2>4
    <3>2. order[u + (Units - Mid)] = u
      BY <1>1, <2>1, <2>2, <3>1
    <3> QED
      BY <3>1, <3>2
  <2> QED
    BY <1>1, <2>1, <2>3, <2>4
<1> QED
  BY <1>2, <1>3, <1>4 DEF Ways

(* With a step that has no factor in common with the number of units, the   *)
(* default 1 for one, "all forks are at capacity" is true whenever a caller *)
(* is told so (_select_fork_unit_step, use_fork).                           *)
THEOREM RefusedOnlyWhenFull == StepReachesAll => (ForksSpec => []RefusedWhenFull)
<1> SUFFICES ASSUME StepReachesAll PROVE ForksSpec => []RefusedWhenFull
  OBVIOUS
<1>1. ForksInv => RefusedWhenFull
  <2> SUFFICES ASSUME ForksInv, Undisturbed, TurnedAway, NEW u \in Unit
               PROVE  ~Room(u)
    BY DEF RefusedWhenFull
  <2>1. PICK order \in Ways : AllFull(order)
    BY DEF ForksInv, NothingMissed
  <2>2. PICK i \in Unit : order[i] = u
    BY WaysReach
  <2> QED
    BY <2>1, <2>2 DEF AllFull
<1> QED
  BY <1>1, ForksInitInv, ForksNextInv, PTL DEF ForksSpec
=============================================================================
