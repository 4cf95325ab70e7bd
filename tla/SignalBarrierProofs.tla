------------------------- MODULE SignalBarrierProofs -------------------------
(***************************************************************************)
(* Theorems about SignalBarrier for every set of threads and every bound.  *)
(***************************************************************************)
EXTENDS SignalBarrier, FiniteSetTheorems, TLAPS

AtLock == {t \in Threads : at[t] = "lock"}

LEMMA CountType ==
  ASSUME NEW S, S \subseteq Threads
  PROVE  /\ IsFiniteSet(S) /\ Cardinality(S) \in Nat
         /\ Cardinality(Threads) \in Nat /\ Cardinality(S) <= Cardinality(Threads)
BY FS_Subset, FS_CardinalityType, WaitingAssumption

\* The state without the bounds of the counter.
Types ==
  /\ count \in Int
  /\ released \in BOOLEAN /\ disposed \in BOOLEAN
  /\ threshold \in 1 .. MaxThreshold
  /\ reusable \in BOOLEAN /\ manual \in BOOLEAN
  /\ at \in [Threads -> Place]
  /\ orderly \in BOOLEAN

-----------------------------------------------------------------------------
(* Counting the threads inside, and those about to enter.                  *)

LEMMA NumbersType ==
  /\ Cardinality(Inside) \in Nat /\ Cardinality(AtLock) \in Nat
  /\ Cardinality(Threads) \in Nat
  /\ Cardinality(Inside) <= Cardinality(Threads)
  /\ Cardinality(AtLock) <= Cardinality(Threads)
<1>1. Inside \subseteq Threads /\ AtLock \subseteq Threads
  BY DEF Inside, AtLock
<1> QED
  BY <1>1, CountType

LEMMA WakingCounts ==
  ASSUME Types, at' = Awakened \/ at' = at
  PROVE  /\ at' \in [Threads -> Place]
         /\ Inside' = Inside /\ AtLock' = AtLock
BY DEF Types, Awakened, Inside, AtLock, Place

\* One thread moves, and the others may have been woken.
LEMMA MovingCounts ==
  ASSUME Types, NEW t \in Threads, NEW p \in Place, NEW f \in {at, Awakened},
         at' = [f EXCEPT ![t] = p]
  PROVE  /\ at' \in [Threads -> Place]
         /\ Inside' = IF p \in {"wait", "woken", "late"} THEN Inside \union {t} ELSE Inside \ {t}
         /\ AtLock' = IF p = "lock" THEN AtLock \union {t} ELSE AtLock \ {t}
<1>1. \A u \in Threads : f[u] = at[u] \/ (at[u] = "wait" /\ f[u] = "woken")
  BY DEF Awakened
<1>2. f \in [Threads -> Place]
  BY DEF Types, Awakened, Place
<1>3. \A u \in Threads : at'[u] = IF u = t THEN p ELSE f[u]
  BY <1>2
<1>4. at' \in [Threads -> Place]
  BY <1>2
<1>5. Inside' = {u \in Threads : at'[u] \in {"wait", "woken", "late"}}
  BY DEF Inside
<1>6. AtLock' = {u \in Threads : at'[u] = "lock"}
  BY DEF AtLock
<1> QED
  BY <1>1, <1>3, <1>4, <1>5, <1>6 DEF Inside, AtLock

LEMMA MemberCounts ==
  ASSUME NEW S, S \subseteq Threads, NEW t \in Threads
  PROVE  /\ t \in S => Cardinality(S \union {t}) = Cardinality(S)
                       /\ Cardinality(S \ {t}) = Cardinality(S) - 1
         /\ t \notin S => Cardinality(S \union {t}) = Cardinality(S) + 1
                          /\ Cardinality(S \ {t}) = Cardinality(S)
<1>1. CASE t \in S
  <2>1. S \union {t} = S
    BY <1>1
  <2> QED
    BY <1>1, <2>1, CountType, FS_RemoveElement
<1>2. CASE t \notin S
  <2>1. S \ {t} = S
    BY <1>2
  <2> QED
    BY <1>2, <2>1, CountType, FS_AddElement
<1> QED
  BY <1>1, <1>2

\* A thread asks for the lock.
LEMMA CallCounts ==
  ASSUME Types, NEW t \in Threads, Call(t)
  PROVE  /\ at' \in [Threads -> Place]
         /\ Cardinality(Inside') = Cardinality(Inside)
         /\ Cardinality(AtLock') = Cardinality(AtLock) + 1
<1>1. t \notin Inside /\ t \notin AtLock /\ Inside \subseteq Threads /\ AtLock \subseteq Threads
  BY DEF Call, Inside, AtLock
<1>2. at' = [at EXCEPT ![t] = "lock"] /\ "lock" \in Place
  BY DEF Call, Goto, Place
<1>3. /\ at' \in [Threads -> Place]
      /\ Inside' = Inside \ {t} /\ AtLock' = AtLock \union {t}
  BY <1>2, MovingCounts
<1>4. Cardinality(Inside \ {t}) = Cardinality(Inside)
  BY <1>1, MemberCounts
<1>5. Cardinality(AtLock \union {t}) = Cardinality(AtLock) + 1
  BY <1>1, MemberCounts
<1> QED
  BY <1>3, <1>4, <1>5

\* A thread with the lock goes to p.
LEMMA EnterCounts ==
  ASSUME Types, NEW t \in Threads, NEW p \in {"out", "wait"}, NEW f \in {at, Awakened},
         at[t] = "lock", at' = [f EXCEPT ![t] = p]
  PROVE  /\ at' \in [Threads -> Place]
         /\ p = "out" => Cardinality(Inside') = Cardinality(Inside)
         /\ p = "wait" => Cardinality(Inside') = Cardinality(Inside) + 1
         /\ Cardinality(AtLock') = Cardinality(AtLock) - 1
<1>1. t \notin Inside /\ t \in AtLock /\ Inside \subseteq Threads /\ AtLock \subseteq Threads
  BY DEF Inside, AtLock
<1>2. p \in Place
  BY DEF Place
<1>3. /\ at' \in [Threads -> Place]
      /\ Inside' = IF p = "wait" THEN Inside \union {t} ELSE Inside \ {t}
      /\ AtLock' = AtLock \ {t}
  BY <1>2, MovingCounts
<1>4. Cardinality(AtLock \ {t}) = Cardinality(AtLock) - 1
  BY <1>1, MemberCounts
<1>5. /\ Cardinality(Inside \union {t}) = Cardinality(Inside) + 1
      /\ Cardinality(Inside \ {t}) = Cardinality(Inside)
  BY <1>1, MemberCounts
<1> QED
  BY <1>3, <1>4, <1>5

\* A thread inside the barrier goes to p.
LEMMA StayCounts ==
  ASSUME Types, NEW t \in Threads, NEW p \in {"out", "wait", "late"},
         at[t] \in {"wait", "woken", "late"}, Goto(t, p)
  PROVE  /\ at' \in [Threads -> Place]
         /\ p = "out" => Cardinality(Inside') = Cardinality(Inside) - 1
         /\ p # "out" => Cardinality(Inside') = Cardinality(Inside)
         /\ Cardinality(AtLock') = Cardinality(AtLock)
         /\ Cardinality(Inside) >= 1
<1>1. t \in Inside /\ t \notin AtLock /\ Inside \subseteq Threads /\ AtLock \subseteq Threads
  BY DEF Inside, AtLock
<1>2. p \in Place /\ at' = [at EXCEPT ![t] = p]
  BY DEF Place, Goto
<1>3. /\ at' \in [Threads -> Place]
      /\ Inside' = IF p = "out" THEN Inside \ {t} ELSE Inside \union {t}
      /\ AtLock' = AtLock \ {t}
  BY <1>2, MovingCounts
<1>4. Cardinality(AtLock \ {t}) = Cardinality(AtLock)
  BY <1>1, MemberCounts
<1>5. /\ Cardinality(Inside \union {t}) = Cardinality(Inside)
      /\ Cardinality(Inside \ {t}) = Cardinality(Inside) - 1
  BY <1>1, MemberCounts
<1>6. Cardinality(Inside \ {t}) \in Nat
  BY <1>1, CountType
<1> QED
  BY <1>3, <1>4, <1>5, <1>6, NumbersType

-----------------------------------------------------------------------------
(* The invariant.                                                          *)

\* The counter is at most MaxCount and those underway ahead of nothing, and
\* at most all threads behind: an override may set it to 0 with all inside.
Bounded ==
  /\ count >= Cardinality(Inside) - Cardinality(Threads)
  /\ count + Cardinality(AtLock) <= MaxCount + Cardinality(Threads)

\* While nobody gives up and nothing is forced, the counter tells who is
\* inside; only those a one-way barrier has let out stay counted.
Counted ==
  /\ count >= Cardinality(Inside)
  /\ reusable \/ (~released /\ ~disposed) => count = Cardinality(Inside)
  /\ reusable /\ released => count > 0
  /\ ~released /\ ~manual => count < threshold

BarrierInv == Types /\ Bounded /\ OpenHoldsNobody /\ (orderly => Counted)

LEMMA InitInv == Init => BarrierInv
<1> SUFFICES ASSUME Init PROVE BarrierInv
  OBVIOUS
<1>1. Inside = {} /\ AtLock = {} /\ Parked = {}
  BY DEF Init, Inside, AtLock, Parked
<1>2. Cardinality(Inside) = 0 /\ Cardinality(AtLock) = 0
  BY <1>1, FS_EmptySet
<1>3. Types
  <2>1. /\ reusable \in BOOLEAN /\ manual \in BOOLEAN
        /\ released \in BOOLEAN /\ disposed \in BOOLEAN /\ orderly \in BOOLEAN
    BY BarrierAssumption, Zenon DEF Init
  <2>2. count \in Int /\ threshold \in 1 .. MaxThreshold /\ at \in [Threads -> Place]
    BY DEF Init, Place
  <2> QED
    BY <2>1, <2>2, Zenon DEF Types
<1>4. count = 0 /\ released = FALSE /\ threshold >= 1 /\ MaxCount \in Nat /\ threshold \in Nat
  BY BarrierAssumption DEF Init
<1> QED
  <2>1. Bounded
    BY <1>2, <1>4, NumbersType DEF Bounded
  <2>2. OpenHoldsNobody /\ Counted
    BY <1>1, <1>2, <1>4 DEF OpenHoldsNobody, Counted
  <2> QED
    BY <1>3, <2>1, <2>2 DEF BarrierInv

\* The numbers a step starts from.
LEMMA Numbers ==
  ASSUME BarrierInv
  PROVE  /\ count \in Int /\ threshold \in Nat /\ threshold >= 1 /\ MaxCount \in Nat
         /\ released \in BOOLEAN /\ disposed \in BOOLEAN /\ orderly \in BOOLEAN
         /\ reusable \in BOOLEAN /\ manual \in BOOLEAN
BY BarrierAssumption DEF BarrierInv, Types

\* An open barrier stays empty as long as nobody starts to wait.
LEMMA NobodyParks ==
  ASSUME BarrierInv, released' => released, \A t \in Threads : at'[t] = "wait" => at[t] = "wait"
  PROVE  OpenHoldsNobody'
BY DEF BarrierInv, OpenHoldsNobody, Parked

LEMMA ClientInv ==
  ASSUME BarrierInv, NEW t \in Threads, Client(t)
  PROVE  BarrierInv'
<1>1. /\ Types /\ Bounded /\ OpenHoldsNobody /\ (orderly => Counted)
      /\ UNCHANGED <<disposed, threshold, reusable, manual>>
  BY DEF BarrierInv, Client, config
<1>2. CASE Call(t) /\ UNCHANGED orderly
  <2>1. count < MaxCount /\ UNCHANGED <<count, released>>
    BY <1>2 DEF Call
  <2>2. OpenHoldsNobody'
    BY <1>2, NobodyParks DEF Call, Goto, Types, BarrierInv
  <2>3. Types'
    BY <1>1, <1>2, <2>1, <2>2, CallCounts, Numbers, NumbersType DEF Types
  <2>4. Bounded'
    BY <1>1, <1>2, <2>1, <2>2, CallCounts, Numbers, NumbersType DEF Types, Bounded
  <2>5. orderly' => Counted'
    BY <1>1, <1>2, <2>1, <2>2, CallCounts, Numbers, NumbersType DEF Types, Counted
  <2> QED
    BY <2>3, <2>4, <2>5, <2>2 DEF BarrierInv
<1>3. CASE TurnAway(t) /\ UNCHANGED orderly
  <2>1. /\ UNCHANGED <<count, released>> /\ at[t] = "lock"
        /\ at' = [at EXCEPT ![t] = "out"]
    BY <1>3 DEF TurnAway, Goto
  <2>2. OpenHoldsNobody'
    BY <1>1, <2>1, NobodyParks DEF Types
  <2>3. /\ at' \in [Threads -> Place]
        /\ Cardinality(Inside') = Cardinality(Inside)
        /\ Cardinality(AtLock') = Cardinality(AtLock) - 1
    BY <1>1, <2>1, EnterCounts
  <2>4. Types' /\ Bounded'
    BY <1>1, <1>3, <2>1, <2>3, Numbers, NumbersType DEF Types, Bounded
  <2>5. orderly' => Counted'
    BY <1>1, <1>3, <2>1, <2>3, Numbers, NumbersType DEF Counted
  <2> QED
    BY <2>2, <2>4, <2>5 DEF BarrierInv
<1>4. CASE ArriveAndPass(t) /\ UNCHANGED orderly
  <2>1. PICK f \in {at, Awakened} :
          at' = [f EXCEPT ![t] = "out"] /\ (Completes => f = Awakened)
    BY <1>4 DEF ArriveAndPass
  <2>2. /\ at[t] = "lock" /\ ~disposed /\ (released \/ Completes)
        /\ reusable => count' = count /\ (released' <=> count # 0)
        /\ ~reusable => count' = count + 1 /\ released'
        /\ released' \in BOOLEAN
    <3>1. LeaveCount(count + 1, TRUE) /\ count \in Int
      BY <1>4, Numbers DEF ArriveAndPass
    <3>2. CASE reusable
      <4>1. count' = count + 1 - 1 /\ released' = (TRUE /\ count + 1 # 1)
        BY <3>1, <3>2 DEF LeaveCount
      <4>2. count' = count /\ (released' <=> count # 0)
        <5>1. released' <=> count + 1 # 1
          BY <4>1, Zenon
        <5>2. count' = count /\ (count + 1 # 1 <=> count # 0)
          BY <3>1, <4>1
        <5> QED
          BY <5>1, <5>2, Zenon
      <4>3. released' \in BOOLEAN
        BY <4>1, Zenon
      <4> QED
        BY <1>4, <3>2, <4>2, <4>3, Zenon DEF ArriveAndPass
    <3>3. CASE ~reusable
      BY <1>4, <3>1, <3>3 DEF ArriveAndPass, LeaveCount
    <3> QED
      BY <3>2, <3>3
  <2>3. OpenHoldsNobody'
    <3>1. CASE Completes
      BY <1>1, <2>1, <3>1 DEF OpenHoldsNobody, Parked, Awakened, Types
    <3>2. CASE ~Completes
      BY <1>1, <2>1, <2>2, <3>2 DEF OpenHoldsNobody, Parked, Awakened, Types
    <3> QED
      BY <3>1, <3>2
  <2>4. /\ at' \in [Threads -> Place]
        /\ Cardinality(Inside') = Cardinality(Inside)
        /\ Cardinality(AtLock') = Cardinality(AtLock) - 1
    BY <1>1, <2>1, <2>2, EnterCounts
  <2>5. Types' /\ Bounded'
    BY <1>1, <1>4, <2>2, <2>4, Numbers, NumbersType DEF Types, Bounded
  <2>6. orderly' => Counted'
    <3> SUFFICES ASSUME orderly' PROVE Counted'
      OBVIOUS
    <3>1. Counted
      BY <1>1, <1>4
    <3>2. CASE reusable
      BY <1>1, <2>2, <2>4, <3>1, <3>2, Numbers, NumbersType DEF Counted
    <3>3. CASE ~reusable
      BY <1>1, <2>2, <2>4, <3>1, <3>3, Numbers, NumbersType DEF Counted
    <3> QED
      BY <3>2, <3>3
  <2> QED
    BY <2>3, <2>5, <2>6 DEF BarrierInv
<1>5. CASE ArriveAndWait(t) /\ UNCHANGED orderly
  <2>1. /\ at[t] = "lock" /\ ~disposed /\ ~released /\ ~Completes
        /\ count' = count + 1 /\ at' = [at EXCEPT ![t] = "wait"] /\ released' = released
    BY <1>5 DEF ArriveAndWait, Goto
  <2>2. /\ at' \in [Threads -> Place]
        /\ Cardinality(Inside') = Cardinality(Inside) + 1
        /\ Cardinality(AtLock') = Cardinality(AtLock) - 1
    BY <1>1, <2>1, EnterCounts
  <2>3. OpenHoldsNobody'
    BY <2>1 DEF OpenHoldsNobody
  <2>4. Types'
    BY <1>1, <1>5, <2>1, <2>2, <2>3, Numbers, NumbersType DEF Types
  <2>5. Bounded'
    BY <1>1, <1>5, <2>1, <2>2, <2>3, Numbers, NumbersType DEF Types, Bounded
  <2>6. orderly' => Counted'
    BY <1>1, <1>5, <2>1, <2>2, <2>3, Numbers, NumbersType DEF Types, Counted, Completes
  <2> QED
    BY <2>4, <2>5, <2>6, <2>3 DEF BarrierInv
<1>6. CASE Expire(t) /\ UNCHANGED orderly
  <2>1. at[t] \in {"wait", "woken", "late"} /\ Goto(t, "late") /\ UNCHANGED <<count, released>>
    BY <1>6 DEF Expire
  <2>2. OpenHoldsNobody'
    BY <1>1, <2>1, NobodyParks DEF Goto, Types
  <2>3. Types'
    BY <1>1, <1>6, <2>1, <2>2, StayCounts, Numbers, NumbersType DEF Types
  <2>4. Bounded'
    BY <1>1, <1>6, <2>1, <2>2, StayCounts, Numbers, NumbersType DEF Types, Bounded
  <2>5. orderly' => Counted'
    BY <1>1, <1>6, <2>1, <2>2, StayCounts, Numbers, NumbersType DEF Types, Counted
  <2> QED
    BY <2>3, <2>4, <2>5, <2>2 DEF BarrierInv
<1>7. CASE Leave(t) /\ UNCHANGED orderly
  <2>1. /\ at[t] \in {"wait", "woken", "late"} /\ Goto(t, "out")
        /\ released \/ disposed
        /\ reusable => count' = count - 1 /\ (released' <=> released /\ count # 1)
        /\ ~reusable => count' = count /\ (released' <=> released)
        /\ released' \in BOOLEAN
    BY <1>7, Numbers DEF Leave, LeaveCount
  <2>2. OpenHoldsNobody'
    BY <1>1, <2>1, NobodyParks DEF Goto, Types
  <2>3. /\ at' \in [Threads -> Place]
        /\ Cardinality(Inside') = Cardinality(Inside) - 1
        /\ Cardinality(AtLock') = Cardinality(AtLock)
        /\ Cardinality(Inside) >= 1
    BY <1>1, <2>1, StayCounts
  <2>4. Types' /\ Bounded'
    BY <1>1, <1>7, <2>1, <2>3, Numbers, NumbersType DEF Types, Bounded
  <2>5. orderly' => Counted'
    <3> SUFFICES ASSUME orderly' PROVE Counted'
      OBVIOUS
    <3>1. Counted
      BY <1>1, <1>7
    <3>2. CASE reusable
      BY <1>1, <2>1, <2>3, <3>1, <3>2, Numbers, NumbersType DEF Counted
    <3>3. CASE ~reusable
      BY <1>1, <2>1, <2>3, <3>1, <3>3, Numbers, NumbersType DEF Counted
    <3> QED
      BY <3>2, <3>3
  <2> QED
    BY <2>2, <2>4, <2>5 DEF BarrierInv
<1>8. CASE WaitAgain(t) /\ UNCHANGED orderly
  <2>1. /\ at[t] \in {"wait", "woken", "late"} /\ Goto(t, "wait") /\ ~released
        /\ UNCHANGED <<count, released>>
    BY <1>8 DEF WaitAgain
  <2>2. OpenHoldsNobody'
    BY <2>1 DEF OpenHoldsNobody
  <2>3. Types'
    BY <1>1, <1>8, <2>1, <2>2, StayCounts, Numbers, NumbersType DEF Types
  <2>4. Bounded'
    BY <1>1, <1>8, <2>1, <2>2, StayCounts, Numbers, NumbersType DEF Types, Bounded
  <2>5. orderly' => Counted'
    BY <1>1, <1>8, <2>1, <2>2, StayCounts, Numbers, NumbersType DEF Types, Counted
  <2> QED
    BY <2>3, <2>4, <2>5, <2>2 DEF BarrierInv
<1>9. CASE GiveUp(t) /\ orderly' = FALSE
  <2>1. /\ at[t] \in {"wait", "woken", "late"} /\ Goto(t, "out") /\ ~released
        /\ UNCHANGED <<count, released>>
    BY <1>9 DEF GiveUp
  <2>2. OpenHoldsNobody'
    BY <2>1 DEF OpenHoldsNobody
  <2>3. Types'
    BY <1>1, <1>9, <2>1, <2>2, StayCounts, Numbers, NumbersType DEF Types
  <2>4. Bounded'
    BY <1>1, <1>9, <2>1, <2>2, StayCounts, Numbers, NumbersType DEF Types, Bounded
  <2> QED
    BY <2>3, <2>4, <2>2, <1>9 DEF BarrierInv
<1> QED
  BY <1>2, <1>3, <1>4, <1>5, <1>6, <1>7, <1>8, <1>9 DEF Client, Move

LEMMA OwnerInv ==
  ASSUME BarrierInv, Owner
  PROVE  BarrierInv'
<1>1. Types /\ Bounded /\ OpenHoldsNobody /\ (orderly => Counted)
  BY DEF BarrierInv
<1>2. ASSUME at' = Awakened
      PROVE  OpenHoldsNobody'
  BY <1>2 DEF OpenHoldsNobody, Parked, Awakened
<1>3. ASSUME at' = at, released' => released
      PROVE  OpenHoldsNobody'
  BY <1>1, <1>3 DEF OpenHoldsNobody, Parked
<1>4. CASE DisposeStep
  <2>1. /\ at' = Awakened \/ at' = at
        /\ UNCHANGED <<count, released, threshold, reusable, manual, orderly>>
        /\ disposed' = TRUE
    BY <1>4 DEF DisposeStep, MarkDisposed, NotifyDisposed, config
  <2>2. Types'
    BY <1>1, <1>2, <1>3, <2>1, WakingCounts DEF Types
  <2>3. Bounded'
    BY <1>1, <1>2, <1>3, <2>1, WakingCounts DEF Types, Bounded
  <2>4. orderly' => Counted'
    BY <1>1, <1>2, <1>3, <2>1, WakingCounts DEF Types, Counted
  <2>5. OpenHoldsNobody'
    BY <1>2, <1>3, <1>1, <1>2, <1>3, <2>1, WakingCounts DEF Types
  <2> QED
    BY <2>2, <2>3, <2>4, <2>5 DEF BarrierInv
<1>5. ASSUME NEW n \in 1 .. MaxThreshold, SetThreshold(n), UNCHANGED <<disposed, config, orderly>>
      PROVE  BarrierInv'
  <2>1. /\ threshold' = n /\ count' = count /\ n \in Nat /\ n >= 1
        /\ UNCHANGED <<disposed, reusable, manual, orderly>>
    BY <1>5, BarrierAssumption DEF SetThreshold, config
  <2>2. \/ count >= n /\ ~manual /\ ~released /\ released' = TRUE /\ at' = Awakened
        \/ ~(count >= n /\ ~manual /\ ~released) /\ released' = released /\ at' = at
    BY <1>5 DEF SetThreshold
  <2>3. at' \in [Threads -> Place] /\ Inside' = Inside /\ AtLock' = AtLock
    BY <1>1, <2>2, WakingCounts
  <2>4. OpenHoldsNobody'
    BY <1>2, <1>3, <2>2
  <2>5. Types'
    BY <1>1, <1>5, <2>1, <2>2, <2>3, <2>4, Numbers, NumbersType DEF Types
  <2>6. Bounded'
    BY <1>1, <1>5, <2>1, <2>2, <2>3, <2>4, Numbers, NumbersType DEF Types, Bounded
  <2>7. orderly' => Counted'
    BY <1>1, <1>5, <2>1, <2>2, <2>3, <2>4, Numbers, NumbersType DEF Types, Counted
  <2> QED
    BY <2>5, <2>6, <2>7, <2>4 DEF BarrierInv
<1>6. CASE Release /\ UNCHANGED <<orderly, disposed, threshold, config>>
  <2>1. /\ ~released /\ ~disposed /\ manual /\ count >= threshold
        /\ released' = TRUE /\ at' = Awakened /\ count' = count
        /\ UNCHANGED <<disposed, threshold, reusable, manual, orderly>>
    BY <1>6 DEF Release, config
  <2>2. Types'
    BY <1>1, <1>2, <2>1, WakingCounts, Numbers, NumbersType DEF Types
  <2>3. Bounded'
    BY <1>1, <1>2, <2>1, WakingCounts, Numbers, NumbersType DEF Types, Bounded
  <2>4. orderly' => Counted'
    BY <1>1, <1>2, <2>1, WakingCounts, Numbers, NumbersType DEF Types, Counted
  <2>5. OpenHoldsNobody'
    BY <1>2, <1>3, <1>1, <1>2, <2>1, WakingCounts, Numbers, NumbersType DEF Types
  <2> QED
    BY <2>2, <2>3, <2>4, <2>5 DEF BarrierInv
<1>7. CASE NotifyAllOverride /\ orderly' = FALSE /\ UNCHANGED <<disposed, threshold, config>>
  <2>1. /\ released' = TRUE /\ at' = Awakened
        /\ count' = IF reusable THEN 0 ELSE count
        /\ UNCHANGED <<disposed, threshold, reusable, manual>>
    BY <1>7 DEF NotifyAllOverride, config
  <2>2. at' \in [Threads -> Place] /\ Inside' = Inside /\ AtLock' = AtLock
    BY <1>1, <2>1, WakingCounts
  <2>3. count' \in Int /\ count' >= Cardinality(Inside) - Cardinality(Threads)
        /\ count' + Cardinality(AtLock) <= MaxCount + Cardinality(Threads)
    BY <1>1, <2>1, Numbers, NumbersType DEF Bounded
  <2>4. Types'
    BY <1>1, <1>7, <2>1, <2>2, <2>3 DEF Types
  <2>5. Bounded'
    BY <2>2, <2>3 DEF Bounded
  <2>6. OpenHoldsNobody'
    BY <1>2, <2>1
  <2> QED
    BY <1>7, <2>4, <2>5, <2>6 DEF BarrierInv
<1>8. CASE Reset /\ orderly' = (Inside = {}) /\ UNCHANGED <<disposed, threshold, config>>
  <2>1. /\ count' = 0 /\ released' = FALSE /\ at' = at
        /\ UNCHANGED <<disposed, threshold, reusable, manual>>
    BY <1>8 DEF Reset, config
  <2>2. Inside' = Inside /\ AtLock' = AtLock
    BY <2>1 DEF Inside, AtLock
  <2>3. Inside = {} => Cardinality(Inside) = 0
    BY FS_EmptySet
  <2>4. OpenHoldsNobody'
    BY <1>3, <2>1
  <2>5. Types'
    <3>1. orderly' \in BOOLEAN /\ released' \in BOOLEAN
      BY <1>8, <2>1, Zenon
    <3>2. /\ disposed' \in BOOLEAN /\ reusable' \in BOOLEAN /\ manual' \in BOOLEAN
          /\ at' \in [Threads -> Place] /\ threshold' \in 1 .. MaxThreshold
      BY <1>1, <2>1, Zenon DEF Types
    <3>3. count' \in Int
      BY <2>1
    <3> QED
      BY <3>1, <3>2, <3>3, Zenon DEF Types
  <2>6. Bounded'
    BY <1>1, <1>8, <2>1, <2>2, <2>3, <2>4, Numbers, NumbersType DEF Types, Bounded
  <2>7. orderly' => Counted'
    <3>1. orderly' => Cardinality(Inside') = 0
      BY <1>8, <2>2, <2>3, Zenon
    <3> QED
      BY <2>1, <3>1, Numbers DEF Counted
  <2> QED
    BY <2>5, <2>6, <2>7, <2>4 DEF BarrierInv
<1> QED
  BY <1>4, <1>5, <1>6, <1>7, <1>8 DEF Owner

LEMMA StepInv == BarrierInv /\ [Next]_vars => BarrierInv'
<1>1. BarrierInv /\ UNCHANGED vars => BarrierInv'
  BY DEF BarrierInv, vars, Types, Bounded, OpenHoldsNobody, Counted, Inside, AtLock, Parked
<1> QED
  BY <1>1, ClientInv, OwnerInv DEF Next

LEMMA BarrierInvariant == Spec => []BarrierInv
BY InitInv, StepInv, PTL DEF Spec

-----------------------------------------------------------------------------
(* Who is there when the barrier opens.                                    *)

\* The threads inside, and the one that arrives in this step.
There == Inside \union {t \in Threads : at[t] = "lock" /\ at'[t] # "lock"}

LEMMA OpeningStep ==
  ASSUME BarrierInv, [Next]_vars, orderly', ~released, released'
  PROVE  Cardinality(There) >= threshold'
<1>1. /\ Types /\ (orderly => Counted)
      /\ Cardinality(Inside) \in Nat
  BY NumbersType DEF BarrierInv
<1>2. ASSUME orderly, ~disposed, count >= threshold', at' = Awakened
      PROVE  Cardinality(There) >= threshold'
  <2>1. There = Inside
    BY <1>1, <1>2 DEF There, Awakened
  <2>2. count = Cardinality(Inside)
    BY <1>1, <1>2 DEF Counted
  <2> QED
    BY <1>2, <2>1, <2>2
<1>3. ASSUME NEW t \in Threads, Client(t)
      PROVE  Cardinality(There) >= threshold'
  <2>1. ArriveAndPass(t) /\ UNCHANGED <<orderly, threshold>>
    BY <1>3 DEF Client, Move, Call, TurnAway, ArriveAndWait, Expire, Leave, LeaveCount,
                WaitAgain, GiveUp
  <2>2. /\ at[t] = "lock" /\ ~disposed /\ count + 1 = threshold
        /\ at' = [Awakened EXCEPT ![t] = "out"]
    BY <2>1 DEF ArriveAndPass, Completes
  <2>3. There = Inside \union {t}
    BY <1>1, <2>2 DEF There, Awakened, Types
  <2>4. t \notin Inside /\ Inside \subseteq Threads
    BY <2>2 DEF Inside
  <2>5. Cardinality(There) = Cardinality(Inside) + 1
    BY <2>3, <2>4, MemberCounts
  <2>6. count = Cardinality(Inside)
    BY <1>1, <2>1, <2>2 DEF Counted
  <2> QED
    BY <2>1, <2>2, <2>5, <2>6, Numbers
<1>4. ASSUME Owner
      PROVE  Cardinality(There) >= threshold'
  <2>1. CASE DisposeStep
    BY <2>1 DEF DisposeStep, MarkDisposed, NotifyDisposed
  <2>2. ASSUME NEW n \in 1 .. MaxThreshold, SetThreshold(n), UNCHANGED orderly
        PROVE  Cardinality(There) >= threshold'
    BY <1>2, <2>2 DEF SetThreshold
  <2>3. CASE Release /\ UNCHANGED <<orderly, threshold>>
    BY <1>2, <2>3 DEF Release
  <2> QED
    BY <1>4, <2>1, <2>2, <2>3 DEF Owner, NotifyAllOverride, Reset
<1>5. ~UNCHANGED vars
  BY DEF vars
<1> QED
  BY <1>3, <1>4, <1>5 DEF Next

-----------------------------------------------------------------------------
(* The theorems.                                                           *)

(* The state keeps its types, and the counter its bounds, overrides and    *)
(* resets with threads inside included.                                    *)
THEOREM TypeCorrect == Spec => []TypeOK
<1>1. BarrierInv => TypeOK
  <2>1. BarrierInv => count \in -Cardinality(Threads) .. MaxCount + Cardinality(Threads)
    BY Numbers, NumbersType DEF BarrierInv, Bounded
  <2> QED
    BY <2>1 DEF BarrierInv, Types, TypeOK
<1> QED
  BY <1>1, BarrierInvariant, PTL

(* A barrier that opens by itself never stays closed over a full house,    *)
(* wherever set_threshold moves the threshold.                             *)
THEOREM FullHouse == Spec => []FullHouseOpens
<1>1. BarrierInv => FullHouseOpens
  BY Numbers, NumbersType DEF BarrierInv, Counted, FullHouseOpens
<1> QED
  BY <1>1, BarrierInvariant, PTL

(* Nobody is parked behind an open barrier: whatever opens it also         *)
(* notifies, and nobody starts to wait while it is open.                   *)
THEOREM NobodyBehind == Spec => []OpenHoldsNobody
<1>1. BarrierInv => OpenHoldsNobody
  BY DEF BarrierInv
<1> QED
  BY <1>1, BarrierInvariant, PTL

(* A reusable barrier that is empty is as new, so that its next round      *)
(* counts from nought and opens neither early nor late.                    *)
THEOREM NextRound == Spec => []RestIsReset
<1>1. BarrierInv => RestIsReset
  <2>1. Inside = {} => Cardinality(Inside) = 0
    BY FS_EmptySet
  <2> QED
    BY <2>1, Numbers DEF BarrierInv, Counted, RestIsReset
<1> QED
  BY <1>1, BarrierInvariant, PTL

(* The barrier opens to a full house only: the thread that completes the   *)
(* count, release and set_threshold all find threshold threads there.      *)
THEOREM OpensFull == Spec => OpensToFullHouse
<1>1. BarrierInv /\ [Next]_vars =>
        [orderly' /\ ~released /\ released' =>
           Cardinality(Inside \union {t \in Threads : at[t] = "lock" /\ at'[t] # "lock"})
             >= threshold']_vars
  BY OpeningStep DEF There
<1> QED
  BY <1>1, BarrierInvariant, PTL DEF Spec, OpensToFullHouse

=============================================================================
