--------------------------- MODULE ConductorProofs ---------------------------
(***************************************************************************)
(* Theorems about Conductor for every set of threads, every threshold and  *)
(* any number of tasks.                                                    *)
(***************************************************************************)
EXTENDS Conductor, FiniteSetTheorems, TLAPS

-----------------------------------------------------------------------------
(* The invariant.                                                          *)

\* A thread is inside a primitive only where start has called it, belongs to
\* the round, and has run the task after which it meets the others.
Placed ==
  \A t \in Threads :
    /\ pc[t] # "idle" => t \in arrived
    /\ mAt[t] # "out" => pc[t] = "main"
    /\ sAt[t] # "out" => pc[t] = "meet"
    /\ pc[t] \in {"meet", "callback"} =>
         task[t] \in 1 .. NTasks /\ <<t, task[t]>> \in done

\* With too few threads the main barrier counts those inside it, and nobody
\* is past it.
Unopened ==
  ~broken /\ Cardinality(arrived) < Threshold =>
    /\ ~mReleased /\ mCount = Cardinality(Main!Inside)
    /\ \A t \in Threads : pc[t] \in {"idle", "main"}

\* The threads with a permit, and those that had one when they ran a task.
Holding == {t \in Threads : pc[t] \in {"granted", "task", "meet", "callback", "finish", "gate"}}
Engaged == Workers \union Holding

PermitsSpent == Cardinality(Engaged) + permits <= Threshold

\* As long as fewer than threshold threads have run the first task, the
\* internal barrier counts those inside it, and nobody is past it.
Unmet ==
  ~disposed /\ Cardinality(RanBy(1)) < Threshold =>
    /\ ~sReleased /\ sCount = Cardinality(Meet!Inside)
    /\ called = {}
    /\ \A t \in Threads : pc[t] # "callback" /\ (pc[t] # "idle" => task[t] = 1)

ConductorInv ==
  /\ TypeOK /\ (disposed => broken)
  /\ Placed /\ Unopened /\ TasksWaitForThreshold /\ PermitsSpent /\ Unmet

LEMMA CountType ==
  ASSUME NEW S, S \subseteq Threads
  PROVE  IsFiniteSet(S) /\ Cardinality(S) \in Nat
BY FS_Subset, FS_CardinalityType, ConductorAssumption

LEMMA CountGrows ==
  ASSUME NEW S, S \subseteq Threads, NEW R, R \subseteq S
  PROVE  Cardinality(R) \in Nat /\ Cardinality(S) \in Nat /\ Cardinality(R) <= Cardinality(S)
BY FS_Subset, CountType

LEMMA CountAdds ==
  ASSUME NEW S, S \subseteq Threads, NEW t \in Threads, t \notin S
  PROVE  Cardinality(S \union {t}) = Cardinality(S) + 1
BY FS_AddElement, CountType

LEMMA InitInv == Init => ConductorInv
<1> SUFFICES ASSUME Init PROVE ConductorInv
  OBVIOUS
<1> USE DEF Init
<1>1. Cardinality({}) = 0 /\ Threshold \in Nat /\ Threshold >= 1
  BY FS_EmptySet, ConductorAssumption
<1>2. TypeOK
  <2>1. /\ released \in BOOLEAN /\ broken \in BOOLEAN /\ disposed \in BOOLEAN
        /\ gateSet \in BOOLEAN /\ reusable \in BOOLEAN /\ manual \in BOOLEAN
        /\ mReleased \in BOOLEAN /\ sReleased \in BOOLEAN
    BY ConductorAssumption, Zenon
  <2>2. /\ mCount \in Int /\ mAt \in [Threads -> Main!Place]
        /\ sCount \in Int /\ sAt \in [Threads -> Meet!Place]
    BY DEF Main!Place, Meet!Place
  <2>3. /\ permits \in 0 .. Threshold /\ dAt \in [Threads -> Permits!PermitPlace]
        /\ pc \in [Threads -> Place] /\ task \in [Threads -> 1 .. NTasks + 1]
    BY <1>1, ConductorAssumption DEF Permits!PermitPlace, Place
  <2>4. done \subseteq Threads \X (1 .. NTasks) /\ called \subseteq 1 .. NTasks /\ arrived \subseteq Threads
    OBVIOUS
  <2> QED
    BY <2>1, <2>2, <2>3, <2>4, Zenon DEF TypeOK
<1>3. Main!Inside = {} /\ Meet!Inside = {} /\ Engaged = {} /\ RanBy(1) = {}
  BY DEF Main!Inside, Meet!Inside, Engaged, Workers, Holding, RanBy
<1>4. Placed /\ Unopened /\ TasksWaitForThreshold /\ PermitsSpent /\ Unmet
  BY <1>1, <1>3 DEF Placed, Unopened, TasksWaitForThreshold, PermitsSpent, Unmet
<1> QED
  BY <1>2, <1>4 DEF ConductorInv

-----------------------------------------------------------------------------
(* What the steps keep.                                                    *)

\* Nobody joins or starts anew and the main barrier is left alone.
LEMMA UnopenedKept ==
  ASSUME ConductorInv, UNCHANGED <<mainVars, arrived, broken>>,
         \A t \in Threads : pc[t] \in {"idle", "main"} => pc'[t] = pc[t]
  PROVE  Unopened'
BY DEF ConductorInv, Unopened, mainVars, Main!Inside

\* Who has a permit or has worked keeps it; no permit comes back.
LEMMA PermitsKept ==
  ASSUME ConductorInv, permits' = permits, Engaged' \subseteq Engaged
  PROVE  PermitsSpent'
<1>1. Engaged \subseteq Threads
  BY DEF Engaged, Workers, Holding
<1>2. permits \in Int /\ Threshold \in Int
  BY ConductorAssumption DEF ConductorInv, TypeOK
<1> QED
  BY <1>1, <1>2, CountGrows DEF ConductorInv, PermitsSpent

\* The internal barrier is left alone and nobody gets past it.
LEMMA UnmetKept ==
  ASSUME ConductorInv, UNCHANGED <<stepVars, called>>, disposed => disposed',
         done \subseteq done', done' \subseteq Threads \X (1 .. NTasks),
         \A t \in Threads : /\ pc'[t] = "callback" => pc[t] = "callback"
                            /\ pc'[t] # "idle" => task'[t] = 1 \/ (pc[t] # "idle" /\ task'[t] = task[t])
  PROVE  Unmet'
<1> SUFFICES ASSUME ~disposed', Cardinality(RanBy(1)') < Threshold
             PROVE  /\ ~sReleased' /\ sCount' = Cardinality(Meet!Inside')
                    /\ called' = {}
                    /\ \A t \in Threads : pc'[t] # "callback" /\ (pc'[t] # "idle" => task'[t] = 1)
  BY DEF Unmet
<1>1. RanBy(1) \subseteq RanBy(1)' /\ RanBy(1)' \subseteq Threads
  BY DEF RanBy
<1>2. Cardinality(RanBy(1)) < Threshold
  BY <1>1, CountGrows, ConductorAssumption
<1> QED
  BY <1>2 DEF ConductorInv, Unmet, stepVars, Meet!Inside

-----------------------------------------------------------------------------
(* The two barriers.                                                       *)

LEMMA StartInv ==
  ASSUME ConductorInv, NEW t \in Threads, Start(t)
  PROVE  ConductorInv'
<1> USE DEF Start, Goto
<1>1. TypeOK' /\ (disposed' => broken')
  BY ConductorAssumption DEF ConductorInv, TypeOK, Place, flags, mainVars, stepVars, permitVars
<1>2. Placed'
  BY DEF ConductorInv, TypeOK, Placed, mainVars, stepVars
<1>3. arrived \subseteq arrived' /\ arrived' \subseteq Threads
  BY DEF ConductorInv, TypeOK
<1>4. Cardinality(arrived) \in Nat /\ Cardinality(arrived') \in Nat
      /\ Cardinality(arrived) <= Cardinality(arrived') /\ Threshold \in Nat
  BY <1>3, CountGrows, ConductorAssumption
<1>5. Unopened'
  <2>1. /\ UNCHANGED <<mCount, mReleased, mAt, broken>>
        /\ \A u \in Threads : pc'[u] = IF u = t THEN "main" ELSE pc[u]
    BY DEF ConductorInv, TypeOK, mainVars, flags
  <2> QED
    BY <1>4, <2>1 DEF ConductorInv, Unopened, Main!Inside
<1>6. TasksWaitForThreshold'
  BY <1>4 DEF ConductorInv, TasksWaitForThreshold
<1>7. PermitsSpent'
  <2>1. Engaged' \subseteq Engaged /\ permits' = permits
    BY DEF ConductorInv, TypeOK, Engaged, Holding, Workers, permitVars
  <2> QED
    BY <2>1, PermitsKept
<1>8. Unmet'
  <2>1. UNCHANGED <<stepVars, called, disposed, done>>
    BY DEF flags
  <2>2. \A u \in Threads :
          /\ pc'[u] = IF u = t THEN "main" ELSE pc[u]
          /\ task'[u] = IF u = t THEN 1 ELSE task[u]
    BY DEF ConductorInv, TypeOK
  <2> QED
    BY <2>1, <2>2, UnmetKept DEF ConductorInv, TypeOK
<1> QED
  BY <1>1, <1>2, <1>5, <1>6, <1>7, <1>8 DEF ConductorInv

LEMMA MainLeaveTypes ==
  ASSUME NEW n \in Int, NEW open \in BOOLEAN, Main!LeaveCount(n, open)
  PROVE  mCount' \in Int /\ mReleased' \in BOOLEAN
<1>1. \/ mCount' = n - 1 /\ mReleased' = (open /\ n # 1)
      \/ mCount' = n /\ mReleased' = open
  BY Zenon DEF Main!LeaveCount
<1>2. mCount' \in Int
  BY <1>1
<1>3. mReleased' \in BOOLEAN
  BY <1>1, Zenon
<1> QED
  BY <1>2, <1>3

\* A step of a thread at the main barrier, which may wake the others there.
LEMMA MainMoves ==
  ASSUME ConductorInv, NEW t \in Threads, MainBarrier(t)
  PROVE  /\ mCount' \in Int /\ mReleased' \in BOOLEAN /\ mAt' \in [Threads -> Main!Place]
         /\ pc' \in [Threads -> Place] /\ pc[t] = "main"
         /\ \A u \in Threads : u # t => pc'[u] = pc[u] /\ (mAt'[u] # "out" => mAt[u] # "out")
         /\ pc'[t] \in {"main", "passed"} /\ (mAt'[t] # "out" => pc'[t] = "main")
<1>1. /\ mCount \in Int /\ mReleased \in BOOLEAN /\ mAt \in [Threads -> Main!Place]
      /\ pc \in [Threads -> Place] /\ reusable \in BOOLEAN
  BY DEF ConductorInv, TypeOK
<1>2. mCount' \in Int /\ mReleased' \in BOOLEAN
  <2>1. CASE UNCHANGED <<mCount, mReleased>>
    BY <1>1, <2>1
  <2>2. CASE Main!ArriveAndPass(t)
    <3>1. mCount + 1 \in Int /\ TRUE \in BOOLEAN
      BY <1>1
    <3>2. Main!LeaveCount(mCount + 1, TRUE)
      BY <2>2, Zenon DEF Main!ArriveAndPass
    <3> QED
      BY <3>1, <3>2, MainLeaveTypes
  <2>3. CASE Main!Leave(t)
    <3>1. Main!LeaveCount(mCount, mReleased)
      BY <2>3, Zenon DEF Main!Leave
    <3> QED
      BY <1>1, <3>1, MainLeaveTypes
  <2>4. CASE Main!ArriveAndWait(t)
    BY <1>1, <2>4 DEF Main!ArriveAndWait
  <2> QED
    BY <2>1, <2>2, <2>3, <2>4 DEF MainBarrier, mainVars, Main!Call, Main!TurnAway, Main!WaitAgain
<1> USE DEF Main!Call, Main!TurnAway, Main!ArriveAndPass, Main!ArriveAndWait, Main!Leave,
            Main!WaitAgain, Main!Goto, Main!Awakened
<1>3. /\ mAt' \in [Threads -> Main!Place]
      /\ \A u \in Threads : u # t /\ mAt'[u] # "out" => mAt[u] # "out"
  BY <1>1 DEF MainBarrier, mainVars, Main!Place
<1>4. /\ pc[t] = "main" /\ pc' \in [Threads -> Place]
      /\ \A u \in Threads : u # t => pc'[u] = pc[u]
      /\ pc'[t] \in {"main", "passed"}
      /\ mAt'[t] # "out" => pc'[t] = "main"
  BY <1>1 DEF MainBarrier, Goto, Place, mainVars
<1> QED
  BY <1>2, <1>3, <1>4

\* While the barrier has not opened, a step at it lets nobody past, unless it
\* is that of the thread that completes the count: then threshold threads
\* have come.
LEMMA MainHolds ==
  ASSUME ConductorInv, NEW t \in Threads, MainBarrier(t)
  PROVE  Unopened'
<1> SUFFICES ASSUME ~broken', Cardinality(arrived') < Threshold
             PROVE  /\ ~mReleased' /\ mCount' = Cardinality(Main!Inside')
                    /\ \A u \in Threads : pc'[u] \in {"idle", "main"}
  BY DEF Unopened
<1>1. /\ ~broken /\ ~disposed /\ Cardinality(arrived) < Threshold
      /\ ~mReleased /\ mCount = Cardinality(Main!Inside)
      /\ \A u \in Threads : pc[u] \in {"idle", "main"}
  BY DEF ConductorInv, Unopened, MainBarrier, flags, history
<1>2. Main!Inside \subseteq Threads /\ mAt \in [Threads -> Main!Place]
  BY DEF Main!Inside, ConductorInv, TypeOK
<1>3. CASE Main!Call(t) /\ UNCHANGED pc
  <2>1. Main!Inside' = Main!Inside
    BY <1>2, <1>3 DEF Main!Call, Main!Goto, Main!Inside
  <2> QED
    BY <1>1, <1>3, <2>1 DEF Main!Call
<1>4. CASE Main!ArriveAndPass(t)
  <2>1. t \notin Main!Inside /\ mCount + 1 = Threshold
    BY <1>1, <1>4 DEF Main!ArriveAndPass, Main!Completes, Main!Inside
  <2>2. Main!Inside \union {t} \subseteq arrived /\ arrived \subseteq Threads
    BY DEF Main!Inside, ConductorInv, Placed, TypeOK, MainBarrier
  <2>3. Cardinality(Main!Inside \union {t}) = Threshold
    BY <1>1, <1>2, <2>1, CountAdds
  <2>4. Threshold <= Cardinality(arrived)
    BY <2>2, <2>3, CountGrows
  <2>5. Threshold \in Nat /\ Cardinality(arrived) \in Nat
    BY <2>2, CountType, ConductorAssumption
  <2> QED
    BY <1>1, <2>4, <2>5
<1>5. CASE Main!ArriveAndWait(t) /\ mAt'[t] # "out" /\ UNCHANGED pc
  <2>1. t \notin Main!Inside /\ Main!Inside' = Main!Inside \union {t}
    BY <1>2, <1>5 DEF Main!ArriveAndWait, Main!Goto, Main!Inside
  <2>2. mCount' = Cardinality(Main!Inside')
    BY <1>1, <1>2, <1>5, <2>1, CountAdds DEF Main!ArriveAndWait
  <2> QED
    BY <1>1, <1>5, <2>2 DEF Main!ArriveAndWait
<1>6. CASE Main!WaitAgain(t) /\ UNCHANGED pc
  <2>1. Main!Inside' = Main!Inside
    BY <1>2, <1>6 DEF Main!WaitAgain, Main!Goto, Main!Inside
  <2> QED
    BY <1>1, <1>6, <2>1 DEF Main!WaitAgain
<1>7. \/ Main!Call(t) /\ UNCHANGED pc
      \/ Main!ArriveAndPass(t)
      \/ Main!ArriveAndWait(t) /\ mAt'[t] # "out" /\ UNCHANGED pc
      \/ Main!WaitAgain(t) /\ UNCHANGED pc
  <2>1. ~Main!IsSpent /\ ~Main!TurnAway(t) /\ ~Main!Leave(t)
    BY <1>1 DEF Main!IsSpent, Main!TurnAway, Main!Leave
  <2>2. Main!ArriveAndWait(t) \/ Main!WaitAgain(t) => mAt'[t] # "out"
    BY <1>2 DEF Main!ArriveAndWait, Main!WaitAgain, Main!Goto
  <2> QED
    BY <2>1, <2>2 DEF MainBarrier
<1> QED
  BY <1>3, <1>4, <1>5, <1>6, <1>7

LEMMA MainInv ==
  ASSUME ConductorInv, NEW t \in Threads, MainBarrier(t)
  PROVE  ConductorInv'
<1>1. UNCHANGED <<flags, stepVars, permitVars, task, history>>
  BY DEF MainBarrier
<1>2. TypeOK' /\ (disposed' => broken')
  BY <1>1, MainMoves DEF ConductorInv, TypeOK, flags, stepVars, permitVars, history
<1>3. Placed'
  BY <1>1, MainMoves DEF ConductorInv, Placed, stepVars, history
<1>4. TasksWaitForThreshold'
  BY <1>1 DEF ConductorInv, TasksWaitForThreshold, history
<1>5. PermitsSpent'
  <2>1. Engaged' \subseteq Engaged /\ permits' = permits
    BY <1>1, MainMoves DEF Engaged, Holding, Workers, permitVars, history
  <2> QED
    BY <2>1, PermitsKept
<1>6. Unmet'
  BY <1>1, MainMoves, UnmetKept DEF ConductorInv, TypeOK, flags, history
<1> QED
  BY <1>2, <1>3, <1>4, <1>5, <1>6, MainHolds DEF ConductorInv

LEMMA MeetLeaveTypes ==
  ASSUME NEW n \in Int, NEW open \in BOOLEAN, Meet!LeaveCount(n, open)
  PROVE  sCount' \in Int /\ sReleased' \in BOOLEAN
<1>1. sCount' = n - 1 /\ sReleased' = (open /\ n # 1)
  BY Zenon DEF Meet!LeaveCount
<1>2. sReleased' \in BOOLEAN
  BY <1>1, Zenon
<1> QED
  BY <1>1, <1>2

\* A step of a thread at the internal barrier.
LEMMA MeetMoves ==
  ASSUME ConductorInv, NEW t \in Threads, MeetOthers(t)
  PROVE  /\ sCount' \in Int /\ sReleased' \in BOOLEAN /\ sAt' \in [Threads -> Meet!Place]
         /\ pc' \in [Threads -> Place] /\ pc[t] = "meet"
         /\ \A u \in Threads : u # t => pc'[u] = pc[u] /\ (sAt'[u] # "out" => sAt[u] # "out")
         /\ pc'[t] \in {"meet", "callback", "idle"} /\ (sAt'[t] # "out" => pc'[t] = "meet")
<1>1. /\ sCount \in Int /\ sReleased \in BOOLEAN /\ sAt \in [Threads -> Meet!Place]
      /\ pc \in [Threads -> Place]
  BY DEF ConductorInv, TypeOK
<1>2. sCount' \in Int /\ sReleased' \in BOOLEAN
  <2>1. CASE UNCHANGED <<sCount, sReleased>>
    BY <1>1, <2>1
  <2>2. CASE Meet!ArriveAndPass(t)
    <3>1. sCount + 1 \in Int /\ TRUE \in BOOLEAN
      BY <1>1
    <3>2. Meet!LeaveCount(sCount + 1, TRUE)
      BY <2>2, Zenon DEF Meet!ArriveAndPass
    <3> QED
      BY <3>1, <3>2, MeetLeaveTypes
  <2>3. CASE Meet!Leave(t)
    <3>1. Meet!LeaveCount(sCount, sReleased)
      BY <2>3, Zenon DEF Meet!Leave
    <3> QED
      BY <1>1, <3>1, MeetLeaveTypes
  <2>4. CASE Meet!ArriveAndWait(t)
    BY <1>1, <2>4 DEF Meet!ArriveAndWait
  <2> QED
    BY <2>1, <2>2, <2>3, <2>4 DEF MeetOthers, stepVars, Meet!Call, Meet!TurnAway, Meet!WaitAgain
<1> USE DEF Meet!Call, Meet!TurnAway, Meet!ArriveAndPass, Meet!ArriveAndWait, Meet!Leave,
            Meet!WaitAgain, Meet!Goto, Meet!Awakened
<1>3. /\ sAt' \in [Threads -> Meet!Place]
      /\ \A u \in Threads : u # t /\ sAt'[u] # "out" => sAt[u] # "out"
  BY <1>1 DEF MeetOthers, stepVars, Meet!Place
<1>4. /\ pc[t] = "meet" /\ pc' \in [Threads -> Place]
      /\ \A u \in Threads : u # t => pc'[u] = pc[u]
      /\ pc'[t] \in {"meet", "callback", "idle"}
      /\ sAt'[t] # "out" => pc'[t] = "meet"
  BY <1>1 DEF MeetOthers, Goto, Place, stepVars
<1> QED
  BY <1>2, <1>3, <1>4

\* The same as MainHolds, for the first task and the internal barrier.
LEMMA MeetHolds ==
  ASSUME ConductorInv, NEW t \in Threads, MeetOthers(t)
  PROVE  Unmet'
<1> SUFFICES ASSUME ~disposed', Cardinality(RanBy(1)') < Threshold
             PROVE  /\ ~sReleased' /\ sCount' = Cardinality(Meet!Inside')
                    /\ called' = {}
                    /\ \A u \in Threads : pc'[u] # "callback" /\ (pc'[u] # "idle" => task'[u] = 1)
  BY DEF Unmet
<1>1. /\ ~disposed /\ Cardinality(RanBy(1)) < Threshold
      /\ ~sReleased /\ sCount = Cardinality(Meet!Inside)
      /\ called = {} /\ UNCHANGED <<called, task>>
      /\ \A u \in Threads : pc[u] # "callback" /\ (pc[u] # "idle" => task[u] = 1)
  BY DEF ConductorInv, Unmet, MeetOthers, flags, history, RanBy
<1>2. /\ Meet!Inside \subseteq Threads /\ sAt \in [Threads -> Meet!Place]
      /\ pc[t] = "meet"
  BY DEF Meet!Inside, ConductorInv, TypeOK, MeetOthers
<1>3. CASE Meet!Call(t) /\ UNCHANGED pc
  <2>1. Meet!Inside' = Meet!Inside
    BY <1>2, <1>3 DEF Meet!Call, Meet!Goto, Meet!Inside
  <2> QED
    BY <1>1, <1>3, <2>1 DEF Meet!Call
<1>4. CASE Meet!ArriveAndPass(t)
  <2>1. t \notin Meet!Inside /\ sCount + 1 = Threshold
    BY <1>1, <1>4 DEF Meet!ArriveAndPass, Meet!Completes, Meet!Inside
  <2>2. Meet!Inside \union {t} \subseteq RanBy(1) /\ RanBy(1) \subseteq Threads
    <3>1. \A u \in Threads : pc[u] = "meet" => <<u, 1>> \in done
      BY <1>1 DEF ConductorInv, Placed
    <3>2. \A u \in Meet!Inside : u \in Threads /\ pc[u] = "meet"
      BY DEF Meet!Inside, ConductorInv, Placed
    <3> QED
      BY <1>2, <3>1, <3>2 DEF RanBy
  <2>3. Cardinality(Meet!Inside \union {t}) = Threshold
    BY <1>1, <1>2, <2>1, CountAdds
  <2>4. Threshold <= Cardinality(RanBy(1))
    BY <2>2, <2>3, CountGrows
  <2>5. Threshold \in Nat /\ Cardinality(RanBy(1)) \in Nat
    BY <2>2, CountType, ConductorAssumption
  <2> QED
    BY <1>1, <2>4, <2>5
<1>5. CASE Meet!ArriveAndWait(t) /\ sAt'[t] # "out" /\ UNCHANGED pc
  <2>1. t \notin Meet!Inside /\ Meet!Inside' = Meet!Inside \union {t}
    BY <1>2, <1>5 DEF Meet!ArriveAndWait, Meet!Goto, Meet!Inside
  <2>2. sCount' = Cardinality(Meet!Inside')
    BY <1>1, <1>2, <1>5, <2>1, CountAdds DEF Meet!ArriveAndWait
  <2> QED
    BY <1>1, <1>5, <2>2 DEF Meet!ArriveAndWait
<1>6. CASE Meet!WaitAgain(t) /\ UNCHANGED pc
  <2>1. Meet!Inside' = Meet!Inside
    BY <1>2, <1>6 DEF Meet!WaitAgain, Meet!Goto, Meet!Inside
  <2> QED
    BY <1>1, <1>6, <2>1 DEF Meet!WaitAgain
<1>7. \/ Meet!Call(t) /\ UNCHANGED pc
      \/ Meet!ArriveAndPass(t)
      \/ Meet!ArriveAndWait(t) /\ sAt'[t] # "out" /\ UNCHANGED pc
      \/ Meet!WaitAgain(t) /\ UNCHANGED pc
  <2>1. ~Meet!TurnAway(t) /\ ~Meet!Leave(t)
    BY <1>1 DEF Meet!TurnAway, Meet!Leave
  <2>2. Meet!ArriveAndWait(t) \/ Meet!WaitAgain(t) => sAt'[t] # "out"
    BY <1>2 DEF Meet!ArriveAndWait, Meet!WaitAgain, Meet!Goto
  <2> QED
    BY <1>1, <2>1, <2>2 DEF MeetOthers
<1> QED
  BY <1>3, <1>4, <1>5, <1>6, <1>7

LEMMA MeetInv ==
  ASSUME ConductorInv, NEW t \in Threads, MeetOthers(t)
  PROVE  ConductorInv'
<1>1. UNCHANGED <<flags, mainVars, permitVars, task, history>>
  BY DEF MeetOthers
<1>2. TypeOK' /\ (disposed' => broken')
  BY <1>1, MeetMoves DEF ConductorInv, TypeOK, flags, mainVars, permitVars, history
<1>3. Placed'
  BY <1>1, MeetMoves DEF ConductorInv, Placed, mainVars, history
<1>4. TasksWaitForThreshold'
  BY <1>1 DEF ConductorInv, TasksWaitForThreshold, history
<1>5. PermitsSpent'
  <2>1. Engaged' \subseteq Engaged /\ permits' = permits
    BY <1>1, MeetMoves DEF Engaged, Holding, Workers, permitVars, history
  <2> QED
    BY <2>1, PermitsKept
<1>6. Unopened'
  BY <1>1, MeetMoves, UnopenedKept DEF flags, mainVars, history
<1> QED
  BY <1>2, <1>3, <1>4, <1>5, <1>6, MeetHolds DEF ConductorInv

-----------------------------------------------------------------------------
(* The permits and the tasks.                                              *)

\* A thread goes from one place to another of which none is at a barrier or
\* at a callback, or it goes home; a permit may be taken.
LEMMA WalkInv ==
  ASSUME ConductorInv, TypeOK', UNCHANGED <<mainVars, stepVars, task, history>>,
         broken' = broken, disposed' = disposed, PermitsSpent',
         \A t \in Threads :
           \/ pc'[t] = pc[t]
           \/ /\ pc[t] \notin {"idle", "main", "meet", "callback"}
              /\ pc'[t] \notin {"main", "meet", "callback"}
  PROVE  ConductorInv'
<1>1. Placed'
  BY DEF ConductorInv, Placed, mainVars, stepVars, history
<1>2. Unopened'
  BY UnopenedKept DEF mainVars, history
<1>3. TasksWaitForThreshold'
  BY DEF ConductorInv, TasksWaitForThreshold, history
<1>4. Unmet'
  BY UnmetKept DEF ConductorInv, TypeOK, stepVars, history
<1> QED
  BY <1>1, <1>2, <1>3, <1>4 DEF ConductorInv

LEMMA TakePermitInv ==
  ASSUME ConductorInv, NEW t \in Threads, TakePermit(t) \/ PermitTimeout(t)
  PROVE  ConductorInv'
<1> USE DEF Permits!Ask, Permits!Take, Permits!Block, Permits!GoWithout, Permits!Trip,
            Permits!RunOut, Permits!PermitGoto, Goto
<1>1. /\ permits \in 0 .. Threshold /\ dAt \in [Threads -> Permits!PermitPlace]
      /\ pc \in [Threads -> Place] /\ Threshold \in Nat
  BY ConductorAssumption DEF ConductorInv, TypeOK
<1>2. UNCHANGED <<flags, mainVars, stepVars, task, history>>
  BY DEF TakePermit, PermitTimeout
<1>3. dAt' \in [Threads -> Permits!PermitPlace]
  BY <1>1 DEF TakePermit, PermitTimeout, permitVars, Permits!PermitPlace
<1>4. \A u \in Threads : \/ pc'[u] = pc[u]
                         \/ u = t /\ pc[u] = "permit" /\ pc'[u] \in {"idle", "granted"}
  BY <1>1 DEF TakePermit, PermitTimeout
<1>5. pc' \in [Threads -> Place]
  BY <1>1 DEF TakePermit, PermitTimeout, Place
<1>6. \/ permits' = permits /\ pc'[t] \in {pc[t], "idle"}
      \/ permits > 0 /\ permits' = permits - 1
  BY <1>1 DEF TakePermit, PermitTimeout, permitVars
<1>7. TypeOK'
  BY <1>1, <1>2, <1>3, <1>5, <1>6 DEF ConductorInv, TypeOK, flags, mainVars, stepVars, history
<1>8. PermitsSpent'
  <2>1. CASE permits' = permits /\ pc'[t] \in {pc[t], "idle"}
    <3>1. Engaged' \subseteq Engaged
      BY <1>2, <1>4, <2>1 DEF Engaged, Holding, Workers, history
    <3> QED
      BY <2>1, <3>1, PermitsKept
  <2>2. CASE permits > 0 /\ permits' = permits - 1
    <3>1. Engaged' \subseteq Engaged \union {t} /\ Engaged \subseteq Threads
      BY <1>2, <1>4 DEF Engaged, Holding, Workers, history
    <3>2. Cardinality(Engaged \union {t}) <= Cardinality(Engaged) + 1
      <4>1. CASE t \in Engaged
        <5>1. Engaged \union {t} = Engaged
          BY <4>1
        <5> QED
          BY <3>1, <5>1, CountType
      <4>2. CASE t \notin Engaged
        BY <3>1, <4>2, CountAdds, CountType
      <4> QED
        BY <4>1, <4>2
    <3>3. /\ Cardinality(Engaged') <= Cardinality(Engaged \union {t})
          /\ Cardinality(Engaged') \in Nat /\ Cardinality(Engaged \union {t}) \in Nat
          /\ Cardinality(Engaged) \in Nat
      BY <3>1, CountGrows, CountType
    <3> QED
      BY <1>1, <2>2, <3>2, <3>3 DEF ConductorInv, PermitsSpent
  <2> QED
    BY <1>6, <2>1, <2>2
<1> QED
  BY <1>2, <1>4, <1>7, <1>8, WalkInv DEF flags

LEMMA CheckFinishInv ==
  ASSUME ConductorInv, NEW t \in Threads, CheckBroken(t) \/ Finish(t)
  PROVE  ConductorInv'
<1> USE DEF Goto
<1>1. pc \in [Threads -> Place] /\ released \in BOOLEAN
  BY DEF ConductorInv, TypeOK
<1>2. /\ UNCHANGED <<mainVars, stepVars, permitVars, task, history>>
      /\ UNCHANGED <<broken, disposed, gateSet, reusable, manual>>
  BY DEF CheckBroken, Finish, flags
<1>3. \A u \in Threads :
        \/ pc'[u] = pc[u]
        \/ /\ u = t
           /\ \/ pc[u] = "passed" /\ pc'[u] \in {"idle", "permit"}
              \/ pc[u] = "granted" /\ pc'[u] \in {"idle", "task"}
              \/ pc[u] = "finish" /\ pc'[u] \in {"idle", "gate"}
  BY <1>1 DEF CheckBroken, Finish
<1>4. released' \in BOOLEAN
  BY <1>1 DEF CheckBroken, Finish, flags
<1>5. pc' \in [Threads -> Place]
  BY <1>1 DEF CheckBroken, Finish, Place
<1>6. TypeOK'
  BY <1>2, <1>4, <1>5 DEF ConductorInv, TypeOK, mainVars, stepVars, permitVars, history
<1>7. PermitsSpent'
  <2>1. Engaged' \subseteq Engaged /\ permits' = permits
    BY <1>2, <1>3 DEF Engaged, Holding, Workers, permitVars, history
  <2> QED
    BY <2>1, PermitsKept
<1> QED
  BY <1>2, <1>3, <1>6, <1>7, WalkInv

LEMMA RunTaskInv ==
  ASSUME ConductorInv, NEW t \in Threads, RunTask(t)
  PROVE  ConductorInv'
<1>1. /\ UNCHANGED <<flags, mainVars, stepVars, permitVars, task, called, arrived>>
      /\ pc[t] = "task" /\ pc \in [Threads -> Place] /\ t \in arrived
      /\ task \in [Threads -> 1 .. NTasks + 1]
  BY DEF RunTask, ConductorInv, TypeOK, Placed
<1>2. CASE pc' = [pc EXCEPT ![t] = "finish"] /\ UNCHANGED done
  <2>1. TypeOK'
    BY <1>1, <1>2 DEF ConductorInv, TypeOK, Place, flags, mainVars, stepVars, permitVars
  <2>2. Engaged' \subseteq Engaged /\ permits' = permits
    BY <1>1, <1>2 DEF Engaged, Holding, Workers, permitVars
  <2> QED
    BY <1>1, <1>2, <2>1, <2>2, PermitsKept, WalkInv DEF flags, history
<1>3. CASE /\ ~broken /\ ~(task[t] > NTasks)
           /\ done' = done \union {<<t, task[t]>>}
           /\ pc' = [pc EXCEPT ![t] = "meet"]
  <2>1. task[t] \in 1 .. NTasks
    BY <1>1, <1>3, ConductorAssumption
  <2>2. /\ done' \subseteq Threads \X (1 .. NTasks) /\ done \subseteq done'
        /\ pc' \in [Threads -> Place]
    BY <1>1, <1>3, <2>1 DEF ConductorInv, TypeOK, Place
  <2>3. TypeOK' /\ (disposed' => broken')
    BY <1>1, <2>2 DEF ConductorInv, TypeOK, flags, mainVars, stepVars, permitVars
  <2>4. Placed'
    BY <1>1, <1>3, <2>1 DEF ConductorInv, Placed, mainVars, stepVars
  <2>5. Unopened'
    BY <1>1, <1>3, UnopenedKept DEF flags
  <2>6. TasksWaitForThreshold'
    <3>1. ~(Cardinality(arrived) < Threshold)
      BY <1>1, <1>3 DEF ConductorInv, Unopened
    <3>2. Cardinality(arrived) \in Nat /\ Threshold \in Nat
      BY CountType, ConductorAssumption DEF ConductorInv, TypeOK
    <3> QED
      BY <1>1, <3>1, <3>2 DEF TasksWaitForThreshold
  <2>7. PermitsSpent'
    <3>1. Engaged' \subseteq Engaged /\ permits' = permits
      BY <1>1, <1>3 DEF Engaged, Holding, Workers, permitVars
    <3> QED
      BY <3>1, PermitsKept
  <2>8. Unmet'
    BY <1>1, <1>3, <2>2, UnmetKept DEF flags
  <2> QED
    BY <2>3, <2>4, <2>5, <2>6, <2>7, <2>8 DEF ConductorInv
<1> QED
  BY <1>2, <1>3 DEF RunTask, Goto

LEMMA RunCallbackInv ==
  ASSUME ConductorInv, NEW t \in Threads, RunCallback(t)
  PROVE  ConductorInv'
<1>1. /\ UNCHANGED <<flags, mainVars, stepVars, permitVars, done, arrived>>
      /\ pc[t] = "callback" /\ pc \in [Threads -> Place] /\ t \in arrived
      /\ task \in [Threads -> 1 .. NTasks + 1] /\ task[t] \in 1 .. NTasks
      /\ pc' = [pc EXCEPT ![t] = "task"]
      /\ task' = [task EXCEPT ![t] = @ + 1] /\ called' = called \union {task[t]}
  BY DEF RunCallback, ConductorInv, TypeOK, Placed, Goto
<1>2. TypeOK' /\ (disposed' => broken')
  <2>1. pc' \in [Threads -> Place] /\ called' \subseteq 1 .. NTasks
    BY <1>1 DEF ConductorInv, TypeOK, Place
  <2>2. task' \in [Threads -> 1 .. NTasks + 1]
    BY <1>1, ConductorAssumption
  <2> QED
    BY <1>1, <2>1, <2>2 DEF ConductorInv, TypeOK, flags, mainVars, stepVars, permitVars
<1>3. Placed'
  BY <1>1 DEF ConductorInv, Placed, mainVars, stepVars
<1>4. Unopened'
  BY <1>1, UnopenedKept DEF flags
<1>5. TasksWaitForThreshold'
  BY <1>1 DEF ConductorInv, TasksWaitForThreshold
<1>6. PermitsSpent'
  <2>1. Engaged' \subseteq Engaged /\ permits' = permits
    BY <1>1 DEF Engaged, Holding, Workers, permitVars
  <2> QED
    BY <2>1, PermitsKept
<1>7. Unmet'
  <2>1. disposed \/ ~(Cardinality(RanBy(1)) < Threshold)
    BY <1>1 DEF ConductorInv, Unmet
  <2> QED
    BY <1>1, <2>1 DEF Unmet, RanBy, flags
<1> QED
  BY <1>2, <1>3, <1>4, <1>5, <1>6, <1>7 DEF ConductorInv

-----------------------------------------------------------------------------
(* The owner.                                                              *)

LEMMA GateOpens ==
  ASSUME ConductorInv, OpenGate
  PROVE  /\ gateSet' \in BOOLEAN /\ pc' \in [Threads -> Place]
         /\ \A t \in Threads : pc'[t] = pc[t] \/ (pc[t] = "gate" /\ pc'[t] = "idle")
<1>1. manual \in BOOLEAN /\ pc \in [Threads -> Place]
  BY DEF ConductorInv, TypeOK
<1>2. gateSet' \in BOOLEAN
  BY <1>1, Zenon DEF OpenGate
<1> QED
  BY <1>1, <1>2 DEF OpenGate, Place

LEMMA WakeTypes ==
  ASSUME dAt \in [Threads -> Permits!PermitPlace]
  PROVE  /\ Permits!Told(Permits!Queued) \in [Threads -> Permits!PermitPlace]
         /\ \A n \in Nat : Permits!Notified(n) \subseteq [Threads -> Permits!PermitPlace]
<1>1. \A W : Permits!Told(W) \in [Threads -> Permits!PermitPlace]
  BY DEF Permits!Told, Permits!PermitPlace
<1> QED
  BY <1>1 DEF Permits!Notified

LEMMA ReleaseInv ==
  ASSUME ConductorInv, Release
  PROVE  ConductorInv'
<1>1. /\ UNCHANGED <<broken, disposed, reusable, manual, mainVars, stepVars, permitVars,
                     task, history>>
      /\ released' = TRUE /\ OpenGate
  BY DEF Release
<1>2. released' \in BOOLEAN
  BY <1>1
<1>3. TypeOK'
  BY <1>1, <1>2, GateOpens DEF ConductorInv, TypeOK, mainVars, stepVars, permitVars, history
<1>4. PermitsSpent'
  <2>1. Engaged' \subseteq Engaged /\ permits' = permits
    BY <1>1, GateOpens DEF Engaged, Holding, Workers, permitVars, history
  <2> QED
    BY <2>1, PermitsKept
<1> QED
  BY <1>1, <1>3, <1>4, GateOpens, WalkInv

\* The barriers and the dynaphore are woken and the round is broken.
LEMMA BreakInv ==
  ASSUME ConductorInv, NotifyAllOverride \/ Dispose
  PROVE  ConductorInv'
<1>1. /\ released' = TRUE /\ broken' = TRUE /\ OpenGate
      /\ disposed' = TRUE \/ disposed' = disposed
      /\ dAt' = Permits!Told(Permits!Queued)
      /\ UNCHANGED <<reusable, manual, sCount, sReleased, permits, task, history>>
  BY DEF NotifyAllOverride, Dispose, stepVars
<1>2. /\ mCount \in Int /\ mReleased \in BOOLEAN /\ mAt \in [Threads -> Main!Place]
      /\ sAt \in [Threads -> Meet!Place] /\ dAt \in [Threads -> Permits!PermitPlace]
      /\ disposed \in BOOLEAN
  BY DEF ConductorInv, TypeOK
<1>3. /\ mCount' \in Int
      /\ \A t \in Threads : mAt'[t] # "out" => mAt[t] # "out"
      /\ mAt' \in [Threads -> Main!Place]
  BY <1>2 DEF NotifyAllOverride, Dispose, mainVars, Main!NotifyAllOverride, Main!Awakened,
              Main!Place
<1>4. mReleased' = TRUE \/ mReleased' = mReleased
  BY DEF NotifyAllOverride, Dispose, mainVars, Main!NotifyAllOverride
<1>5. /\ \A t \in Threads : sAt'[t] # "out" => sAt[t] # "out"
      /\ sAt' \in [Threads -> Meet!Place]
  BY <1>2 DEF NotifyAllOverride, Dispose, stepVars, Meet!Awakened, Meet!Place
<1>6. mReleased' \in BOOLEAN /\ released' \in BOOLEAN /\ broken' \in BOOLEAN
      /\ disposed' \in BOOLEAN
  BY <1>1, <1>2, <1>4, Zenon
<1>7. TypeOK' /\ (disposed' => broken')
  BY <1>1, <1>2, <1>3, <1>5, <1>6, GateOpens, WakeTypes DEF ConductorInv, TypeOK, history
<1>8. Placed'
  BY <1>1, <1>3, <1>5, GateOpens DEF ConductorInv, Placed, history
<1>9. Unopened'
  BY <1>1 DEF Unopened
<1>10. TasksWaitForThreshold'
  BY <1>1 DEF ConductorInv, TasksWaitForThreshold, history
<1>11. PermitsSpent'
  <2>1. Engaged' \subseteq Engaged /\ permits' = permits
    BY <1>1, GateOpens DEF Engaged, Holding, Workers, history
  <2> QED
    BY <2>1, PermitsKept
<1>12. Unmet'
  <2>1. CASE NotifyAllOverride
    <3>1. UNCHANGED <<stepVars, disposed>>
      BY <2>1 DEF NotifyAllOverride
    <3> QED
      BY <1>1, <3>1, GateOpens, UnmetKept DEF ConductorInv, TypeOK, history
  <2>2. CASE Dispose
    BY <2>2 DEF Dispose, Unmet
  <2> QED
    BY <2>1, <2>2
<1> QED
  BY <1>7, <1>8, <1>9, <1>10, <1>11, <1>12 DEF ConductorInv

LEMMA ResetInv ==
  ASSUME ConductorInv, Reset
  PROVE  ConductorInv'
<1>1. /\ \A t \in Threads : pc[t] = "idle"
      /\ ~disposed /\ broken' = FALSE /\ released' = FALSE /\ gateSet' = FALSE
      /\ mCount' = 0 /\ mReleased' = FALSE /\ mAt' = mAt
      /\ sCount' = 0 /\ sReleased' = FALSE /\ sAt' = sAt
      /\ permits' = Threshold /\ called' = {} /\ done' = {} /\ arrived' = {}
      /\ UNCHANGED <<disposed, reusable, manual, pc, task>>
  BY DEF Reset, BetweenRounds, Main!Reset, Meet!Reset
<1>2. Cardinality({}) = 0 /\ Threshold \in Nat /\ Threshold >= 1
  BY FS_EmptySet, ConductorAssumption
<1>3. \A t \in Threads : mAt[t] = "out" /\ sAt[t] = "out"
  BY <1>1 DEF ConductorInv, Placed
<1>4. dAt' \in [Threads -> Permits!PermitPlace]
  <2>1. dAt \in [Threads -> Permits!PermitPlace] /\ permits \in 0 .. Threshold
    BY DEF ConductorInv, TypeOK
  <2>2. CASE permits < Threshold /\ dAt' \in Permits!Notified(Threshold - permits)
    <3>1. Threshold - permits \in Nat
      BY <1>2, <2>1, <2>2
    <3> QED
      BY <2>1, <2>2, <3>1, WakeTypes
  <2>3. CASE UNCHANGED dAt
    BY <2>1, <2>3
  <2> QED
    BY <2>2, <2>3 DEF Reset
<1>5. TypeOK' /\ (disposed' => broken')
  <2>1. /\ broken' \in BOOLEAN /\ released' \in BOOLEAN /\ gateSet' \in BOOLEAN
        /\ mReleased' \in BOOLEAN /\ sReleased' \in BOOLEAN
    BY <1>1
  <2>2. mCount' \in Int /\ sCount' \in Int /\ permits' \in 0 .. Threshold
    BY <1>1, <1>2
  <2> QED
    BY <1>1, <1>4, <2>1, <2>2 DEF ConductorInv, TypeOK
<1>6. Placed'
  BY <1>1, <1>3 DEF Placed
<1>7. Main!Inside' = {} /\ Meet!Inside' = {} /\ Engaged' = {}
  BY <1>1, <1>3 DEF Main!Inside, Meet!Inside, Engaged, Workers, Holding
<1>8. Unopened' /\ TasksWaitForThreshold' /\ PermitsSpent' /\ Unmet'
  BY <1>1, <1>2, <1>7 DEF Unopened, TasksWaitForThreshold, PermitsSpent, Unmet
<1> QED
  BY <1>5, <1>6, <1>8 DEF ConductorInv

-----------------------------------------------------------------------------
(* The theorems.                                                           *)

LEMMA Invariance == Spec => []ConductorInv
<1>1. Init => ConductorInv
  BY InitInv
<1>2. ConductorInv /\ [Next]_vars => ConductorInv'
  <2> SUFFICES ASSUME ConductorInv, [Next]_vars PROVE ConductorInv'
    OBVIOUS
  <2>1. CASE UNCHANGED vars
    <3>1. UNCHANGED <<flags, mainVars, stepVars, permitVars, pc, task, history>>
      BY <2>1 DEF vars
    <3>2. TypeOK'
      BY <3>1 DEF ConductorInv, TypeOK, flags, mainVars, stepVars, permitVars, history
    <3>3. PermitsSpent'
      BY <3>1 DEF ConductorInv, PermitsSpent, Engaged, Workers, Holding, permitVars, history
    <3> QED
      BY <3>1, <3>2, <3>3, WalkInv DEF flags
  <2>2. CASE Owner
    BY <2>2, ReleaseInv, BreakInv, ResetInv DEF Owner
  <2>3. CASE \E t \in Threads : Start(t) \/ Advance(t) \/ PermitTimeout(t)
    BY <2>3, StartInv, MainInv, MeetInv, CheckFinishInv, TakePermitInv, RunTaskInv,
       RunCallbackInv DEF Advance
  <2> QED
    BY <2>1, <2>2, <2>3 DEF Next
<1> QED
  BY <1>1, <1>2, PTL DEF Spec

\* The state of the conductor, its two barriers and its dynaphore keeps its
\* types: there are never fewer than none nor more than threshold permits, and
\* no thread runs a task or a callback that is not there.
THEOREM TypeCorrect == Spec => []TypeOK
<1>1. ConductorInv => TypeOK
  BY DEF ConductorInv
<1> QED
  BY <1>1, Invariance, PTL

\* No task runs before threshold threads have called start in this round,
\* even if an override or dispose lets the threads out of the main barrier.
THEOREM WaitsForThreshold == Spec => []TasksWaitForThreshold
<1>1. ConductorInv => TasksWaitForThreshold
  BY DEF ConductorInv
<1> QED
  BY <1>1, Invariance, PTL

\* However many threads call start, at most threshold of them run the tasks of
\* a round.
THEOREM WithinThreshold == Spec => []WorkersWithinThreshold
<1>1. ConductorInv => WorkersWithinThreshold
  <2> SUFFICES ASSUME ConductorInv PROVE WorkersWithinThreshold
    OBVIOUS
  <2>1. /\ Workers \subseteq Engaged /\ Engaged \subseteq Threads
        /\ permits \in 0 .. Threshold /\ Threshold \in Nat
    BY ConductorAssumption DEF ConductorInv, TypeOK, Engaged, Workers, Holding
  <2>2. /\ Cardinality(Workers) \in Nat /\ Cardinality(Engaged) \in Nat
        /\ Cardinality(Workers) <= Cardinality(Engaged)
    BY <2>1, CountGrows
  <2> QED
    BY <2>1, <2>2 DEF ConductorInv, PermitsSpent, WorkersWithinThreshold
<1> QED
  BY <1>1, Invariance, PTL

\* Unless the conductor is disposed of, no callback runs before threshold
\* threads have run the first task.
THEOREM CallbackWaits == Spec => []CallbackAfterAll
<1>1. ConductorInv => CallbackAfterAll
  <2> SUFFICES ASSUME ConductorInv PROVE CallbackAfterAll
    OBVIOUS
  <2>1. Cardinality(RanBy(1)) \in Nat /\ Threshold \in Nat
    <3>1. RanBy(1) \subseteq Threads
      BY DEF RanBy
    <3> QED
      BY <3>1, CountType, ConductorAssumption
  <2> QED
    BY <2>1 DEF ConductorInv, Unmet, CallbackAfterAll
<1> QED
  BY <1>1, Invariance, PTL

=============================================================================
