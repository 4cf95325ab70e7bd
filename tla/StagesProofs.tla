----------------------------- MODULE StagesProofs -----------------------------
(***************************************************************************)
(* OncePerStage for every number of threads, stages and tasks.             *)
(*                                                                         *)
(* As long as nobody laps a barrier, nobody is beyond one to which not all *)
(* have come (Abreast); so at most one stage is under way, and its flag is *)
(* up, or a slow thread has taken it down; but then that thread has still  *)
(* to come to the stage, and the first to come puts it up again (Flagged). *)
(* If none took it down, the threads of the stage have all read the one    *)
(* processor made for it, whose slots given out are as many as the threads *)
(* that have their task (Shared): when all have come to the barrier, all   *)
(* slots are given.  A crew that is full gains nobody (Counted).           *)
(***************************************************************************)
EXTENDS Stages, FiniteSetTheorems, SequenceTheorems, TLAPS

-----------------------------------------------------------------------------
(* The invariant.                                                          *)

Station == {"out", "head", "make", "read", "use", "await", "set", "meet", "lower"}
Forking == {"make", "read", "use", "await"}
Made == {"read", "use", "await"}

Stage == 1 .. NStages
Share == [proc : Nat, task : Nat]
Processor == [left : [Task -> Nat], blocked : Nat]
StagesState == [forks : BOOLEAN, sync : BOOLEAN, flag : 0 .. NStages, current : Nat,
                broken : BOOLEAN, released : BOOLEAN, collapsed : BOOLEAN, taken : Int]
PastState == [once : Nat, late : Nat, ran : [Task -> Nat], met : SUBSET Threads]

\* The threads that are inside.
Crew == {t \in Threads : stageAt[t] # "out"}

StagesTypes ==
  /\ stageAt \in [Threads -> Station]
  /\ stage \in [Threads -> 1 .. NStages + 1]
  /\ share \in [Threads -> Share]
  /\ procs \in Seq(Processor)
  /\ stages \in StagesState
  /\ stages.current <= Len(procs)
  /\ past \in [Stage -> PastState]
  /\ \A t \in Threads :
       /\ stageAt[t] \notin {"out", "head"} => stage[t] \in Stage
       /\ stageAt[t] = "out" => stage[t] = 1
       /\ stageAt[t] \in Forking => stages.forks
       /\ stageAt[t] = "set" => ~stages.forks
       /\ stageAt[t] = "await" => share[t].task \in Task

\* A full crew has come to the barrier of stage s.
Full(s) == Cardinality(past[s].met) = Limit

\* Nobody joins a crew that is full, or one of which somebody has come out.
Counted ==
  /\ stages.taken = Cardinality(Crew)
  /\ \A s \in Stage : Cardinality(Crew \union past[s].met) <= Limit
  /\ ~stages.forks /\ ~stages.collapsed => \A s \in Stage : past[s].met \subseteq Crew

Behind(t, s) == s < stage[t] \/ (s = stage[t] /\ stageAt[t] = "lower")
Came(t, s) == s < stage[t] \/ (s = stage[t] /\ stageAt[t] \in {"meet", "lower"})

\* Nobody has left a stage behind before all had come to its barrier.
Abreast ==
  \A t \in Crew, s \in Stage :
    /\ Behind(t, s) => Full(s)
    /\ t \in past[s].met <=> Came(t, s)

\* The first's work has been done once more than it has been undone.
Done(s) == past[s].once = past[s].late + 1

\* Who has found the work of stage s done.
Served(s) == past[s].met \union {t \in Crew : stage[t] = s /\ stageAt[t] \in Made}

\* The flag is up for the stage whose first thread has done its work and that
\* not all have come to the end of; nobody is beyond it.  Where the work is
\* still to be done, not all have found it done.
Flagged ==
  /\ stages.flag # 0 =>
       /\ Done(stages.flag)
       /\ \A t \in Crew : stage[t] <= stages.flag
       /\ \A s \in 1 .. stages.flag - 1 : Full(s)
  /\ \A s \in Stage :
       /\ Done(s) \/ past[s].once = past[s].late
       /\ Done(s) => Full(s) \/ stages.flag = s
       /\ ~Done(s) => Cardinality(Served(s)) < Limit
       /\ Served(s) # {} => past[s].once # 0

\* Slots of one task, and the threads that wait for the others with a slot.
Slot == 0 .. Limit - 1
OfTask(K, i) == {k \in K : k % NTasks = i - 1}
Awaiting(s) == {t \in Threads : stageAt[t] = "await" /\ stage[t] = s}
AwaitingTask(s, i) == {t \in Awaiting(s) : share[t].task = i}

\* Of processor p the slots K have been given out, one for each thread.
GivenOut(s, p, K) ==
  /\ Cardinality(K) = Cardinality(past[s].met \union Awaiting(s))
  /\ \A i \in Task :
       /\ procs[p].left[i] = Cardinality(OfTask(Slot \ K, i))
       /\ past[s].ran[i] + Cardinality(AwaitingTask(s, i)) + procs[p].left[i] = Cap(i)

\* The work of stage s has been done, not all have come to its end, and nobody
\* has taken its flag down.
UnderWay(s) == past[s].once = 1 /\ past[s].late = 0 /\ ~Full(s)

\* The stage under way has the current processor, and its threads use that one.
Shared ==
  /\ \A s \in Stage :
       /\ past[s].once = 0 => \A i \in Task : past[s].ran[i] = 0
       /\ Full(s) /\ past[s].late = 0 => \A i \in Task : past[s].ran[i] = Cap(i)
       /\ UnderWay(s) =>
            /\ stages.current # 0
            /\ \A t \in Crew : stage[t] = s /\ stageAt[t] \in {"use", "await"} =>
                 share[t].proc = stages.current
            /\ \E K \in SUBSET Slot : GivenOut(s, stages.current, K)

Together == Counted /\ Abreast /\ Flagged /\ (stages.forks => Shared)

StagesInv == StagesTypes /\ (abreast /\ ~stagesDisposed => Together)

-----------------------------------------------------------------------------
(* Limits and counts.                                                      *)

LEMMA CountType ==
  ASSUME NEW S, S \subseteq Threads
  PROVE  /\ IsFiniteSet(S) /\ Cardinality(S) \in Nat
         /\ Cardinality(S) = 0 <=> S = {}
BY FS_Subset, FS_CardinalityType, FS_EmptySet, WaitingAssumption

LEMMA MemberCounts ==
  ASSUME NEW S, S \subseteq Threads, NEW t \in Threads
  PROVE  /\ t \in S => Cardinality(S \ {t}) = Cardinality(S) - 1 /\ S \union {t} = S
         /\ t \notin S => Cardinality(S \union {t}) = Cardinality(S) + 1 /\ S \ {t} = S
BY CountType, FS_AddElement, FS_RemoveElement

LEMMA LimitType == Limit \in Nat \ {0} /\ IsFiniteSet(Threads) /\ Cardinality({}) = 0 /\ NStages \in Nat
BY StagesAssumption, WaitingAssumption, FS_CardinalityType, FS_EmptySet

LEMMA CapType == \A i \in Task : Cap(i) \in Nat /\ Cap(i) = Cardinality(OfTask(Slot, i))
<1> SUFFICES ASSUME NEW i \in Task
             PROVE  Cap(i) \in Nat /\ Cap(i) = Cardinality(OfTask(Slot, i))
  OBVIOUS
<1>1. IsFiniteSet(Slot) /\ OfTask(Slot, i) \in SUBSET Slot
  BY LimitType, FS_Interval DEF Slot, OfTask
<1>2. Cap(i) = Cardinality(OfTask(Slot, i))
  BY DEF Cap, OfTask, Slot
<1> QED
  BY <1>1, <1>2, FS_Subset, FS_CardinalityType

-----------------------------------------------------------------------------
(* At the start.                                                           *)

LEMMA StagesInitTypes == StagesInit => StagesInv
<1> SUFFICES ASSUME StagesInit PROVE StagesInv
  OBVIOUS
<1>1. Crew = {} /\ \A t \in Threads : stageAt[t] = "out" /\ stage[t] = 1
  BY DEF StagesInit, Crew, Everywhere
<1>2. \A s \in Stage : /\ past[s].once = 0 /\ past[s].late = 0 /\ past[s].met = {}
                       /\ \A i \in Task : past[s].ran[i] = 0
  BY DEF StagesInit, Nothing, Stage
<1>3. stages.flag = 0 /\ stages.taken = 0 /\ stages.current = 0
  BY DEF StagesInit
<1>4. StagesTypes
  <2>1. stages \in StagesState
    BY StagesAssumption DEF StagesInit, StagesState
  <2>2. past \in [Stage -> PastState]
    BY DEF StagesInit, Nothing, PastState, Stage
  <2>3. stageAt \in [Threads -> Station] /\ stage \in [Threads -> 1 .. NStages + 1]
    BY StagesAssumption DEF StagesInit, Everywhere, Station
  <2>4. share \in [Threads -> Share] /\ procs \in Seq(Processor) /\ Len(procs) = 0
    BY DEF StagesInit, Everywhere, NoShare, Share
  <2> QED
    BY <1>1, <1>3, <2>1, <2>2, <2>3, <2>4 DEF StagesTypes, Forking
<1>5. Cardinality({}) = 0 /\ Limit \in Nat \ {0}
  BY LimitType
<1>6. Together
  <2>1. ASSUME NEW s \in Stage
        PROVE  ~Full(s) /\ ~Done(s) /\ Served(s) = {} /\ ~UnderWay(s)
    <3>1. past[s].met = {} /\ past[s].once = 0 /\ past[s].late = 0
      BY <1>2
    <3> QED
      BY <1>1, <1>5, <3>1 DEF Full, Done, Served, UnderWay
  <2>2. Counted
    <3>1. stages.taken = Cardinality(Crew)
      BY <1>1, <1>3, <1>5
    <3>2. ASSUME NEW s \in Stage
          PROVE  Crew \union past[s].met = {} /\ past[s].met \subseteq Crew
      BY <1>1, <1>2
    <3>3. \A s \in Stage : Cardinality(Crew \union past[s].met) <= Limit
      BY <3>2, <1>5
    <3> QED
      BY <3>1, <3>2, <3>3 DEF Counted
  <2>3. Abreast
    BY <1>1 DEF Abreast
  <2>4. Flagged
    <3>1. \A s \in Stage : Cardinality(Served(s)) < Limit
      BY <1>5, <2>1
    <3> QED
      BY <1>2, <1>3, <2>1, <3>1 DEF Flagged
  <2>5. Shared
    BY <1>1, <1>2, <2>1 DEF Shared
  <2> QED
    BY <2>2, <2>3, <2>4, <2>5 DEF Together
<1> QED
  BY <1>4, <1>6 DEF StagesInv

-----------------------------------------------------------------------------
(* What is written into the history of a stage.                            *)

LEMMA OnceGrows ==
  ASSUME past \in [Stage -> PastState], NEW s \in Stage,
         past' = [past EXCEPT ![s].once = @ + 1]
  PROVE  /\ past' \in [Stage -> PastState]
         /\ \A z \in Stage :
              /\ past'[z].once = IF z = s THEN past[z].once + 1 ELSE past[z].once
              /\ past'[z].ran = past[z].ran /\ past'[z].met = past[z].met
              /\ past'[z].late = past[z].late
<1>1. PICK r : r = [past[s] EXCEPT !.once = @ + 1]
  OBVIOUS
<1>2. PICK n : n = past[s].once + 1
  OBVIOUS
<1>3. past[s] \in PastState /\ n \in Nat
  BY <1>2 DEF PastState
<1>4. r = [past[s] EXCEPT !.once = n]
  BY <1>1, <1>2
<1>5. /\ r \in PastState /\ r.once = n /\ r.ran = past[s].ran /\ r.met = past[s].met
      /\ r.late = past[s].late
  BY <1>3, <1>4 DEF PastState
<1>6. past' = [past EXCEPT ![s] = r]
  BY <1>1
<1> QED
  BY <1>2, <1>5, <1>6

\* Thread t has taken the flag down: of a later stage, if it is up for one.
Lowered(t) ==
  \A z \in Stage :
    /\ past'[z].once = past[z].once
    /\ past'[z].ran = past[z].ran /\ past'[z].met = past[z].met
    /\ past'[z].late = IF z = stages.flag /\ z # stage[t] THEN past[z].late + 1
                                                         ELSE past[z].late

LEMMA LateGrows ==
  ASSUME past \in [Stage -> PastState], NEW t \in Threads, LowerFlag(t),
         stages.flag \in 0 .. NStages
  PROVE  past' \in [Stage -> PastState] /\ Lowered(t)
<1>1. CASE stages.flag \in {0, stage[t]}
  <2>1. past' = past
    BY <1>1 DEF LowerFlag
  <2>2. \A z \in Stage : z # 0
    BY DEF Stage
  <2> QED
    BY <1>1, <2>1, <2>2 DEF Lowered
<1>2. CASE stages.flag \notin {0, stage[t]}
  <2>1. PICK s : s = stages.flag
    OBVIOUS
  <2>2. PICK n : n = past[s].late + 1
    OBVIOUS
  <2>3. PICK r : r = [past[s] EXCEPT !.late = n]
    OBVIOUS
  <2>4. s \in Stage /\ s # stage[t]
    BY <1>2, <2>1, LimitType DEF Stage
  <2>5. past[s] \in PastState /\ n \in Nat
    BY <2>2, <2>4 DEF PastState
  <2>6. /\ r \in PastState /\ r.once = past[s].once /\ r.ran = past[s].ran
        /\ r.met = past[s].met /\ r.late = n
    BY <2>3, <2>5 DEF PastState
  <2>7. past' = [past EXCEPT ![s] = r]
    BY <1>2, <2>1, <2>2, <2>3 DEF LowerFlag
  <2> QED
    BY <2>1, <2>2, <2>4, <2>6, <2>7 DEF Lowered
<1> QED
  BY <1>1, <1>2

\* Thread t has run task i in stage s and comes to the barrier.
Ran(t, s, i) ==
  \A z \in Stage :
    /\ past'[z].once = past[z].once /\ past'[z].late = past[z].late
    /\ \A j \in Task : past'[z].ran[j] =
         IF z = s /\ j = i THEN past[z].ran[j] + 1 ELSE past[z].ran[j]
    /\ past'[z].met = IF z = s THEN past[z].met \union {t} ELSE past[z].met

LEMMA RanGrows ==
  ASSUME past \in [Stage -> PastState], NEW t \in Threads, stage[t] \in Stage,
         NEW i \in Task, RunTask(t, i)
  PROVE  /\ past' \in [Stage -> PastState]
         /\ Ran(t, stage[t], i)
<1>1. PICK s : s = stage[t]
  OBVIOUS
<1>2. PICK f : f = [past[s].ran EXCEPT ![i] = @ + 1]
  OBVIOUS
<1>3. PICK m : m = past[s].met \union {t}
  OBVIOUS
<1>4. PICK r : r = [past[s] EXCEPT !.ran = f, !.met = m]
  OBVIOUS
<1>5. past[s] \in PastState /\ s \in Stage
  BY <1>1
<1>6. /\ f \in [Task -> Nat] /\ m \in SUBSET Threads
      /\ \A j \in Task : f[j] = IF j = i THEN past[s].ran[j] + 1 ELSE past[s].ran[j]
  BY <1>2, <1>3, <1>5 DEF PastState
<1>7. /\ r \in PastState /\ r.once = past[s].once /\ r.late = past[s].late
      /\ r.ran = f /\ r.met = m
  BY <1>4, <1>5, <1>6 DEF PastState
<1>8. past' = [past EXCEPT ![s] = r]
  BY <1>1, <1>2, <1>3, <1>4, <1>5 DEF RunTask, PastState
<1> QED
  BY <1>1, <1>3, <1>5, <1>6, <1>7, <1>8 DEF Ran

LEMMA OutcomeMeets ==
  ASSUME past \in [Stage -> PastState], NEW t \in Threads, stage[t] \in Stage, SetOutcome(t)
  PROVE  /\ past' \in [Stage -> PastState]
         /\ \A z \in Stage :
              /\ past'[z].once = IF z = stage[t] /\ stages.flag = 0
                                   THEN past[z].once + 1 ELSE past[z].once
              /\ past'[z].late = past[z].late
              /\ past'[z].met = IF z = stage[t] THEN past[z].met \union {t} ELSE past[z].met
<1>1. PICK s : s = stage[t]
  OBVIOUS
<1>2. PICK n : n = IF stages.flag = 0 THEN past[s].once + 1 ELSE past[s].once
  OBVIOUS
<1>3. PICK m : m = past[s].met \union {t}
  OBVIOUS
<1>4. PICK r : r = [past[s] EXCEPT !.once = n, !.met = m]
  OBVIOUS
<1>5. past[s] \in PastState /\ s \in Stage
  BY <1>1
<1>6. n \in Nat /\ m \in SUBSET Threads
  BY <1>2, <1>3, <1>5 DEF PastState
<1>7. r \in PastState /\ r.once = n /\ r.late = past[s].late /\ r.met = m
  BY <1>4, <1>5, <1>6 DEF PastState
<1>8. past' = [past EXCEPT ![s] = r]
  BY <1>1, <1>2, <1>3, <1>4, <1>5 DEF SetOutcome, PastState
<1> QED
  BY <1>1, <1>2, <1>3, <1>5, <1>7, <1>8

-----------------------------------------------------------------------------
(* What is written into the record of the stages, field by field.          *)

Same(y, z) == y.forks = z.forks /\ y.sync = z.sync
Apart(y, z) == y.flag = z.flag /\ y.current = z.current

LEMMA TakenChanges ==
  ASSUME NEW z \in StagesState, NEW n \in Int, NEW y, y = [z EXCEPT !.taken = n]
  PROVE  /\ y \in StagesState /\ Same(y, z) /\ Apart(y, z)
         /\ y.taken = n /\ y.collapsed = z.collapsed /\ y.broken = z.broken
<1>1. y \in StagesState
  BY DEF StagesState
<1> QED
  BY <1>1 DEF StagesState, Same, Apart

LEMMA EndChanges ==
  ASSUME stages \in StagesState, NEW n \in Int, NEW r \in BOOLEAN, NEW c \in BOOLEAN,
         stages' = [stages EXCEPT !.released = r, !.collapsed = c, !.taken = n]
  PROVE  stages' \in StagesState /\ Same(stages', stages) /\ Apart(stages', stages) /\ stages'.taken = n /\ stages'.collapsed = c
<1>1. stages' \in StagesState
  BY DEF StagesState
<1> QED
  BY <1>1 DEF StagesState, Same, Apart

LEMMA FlagChanges ==
  ASSUME NEW z \in StagesState, NEW k \in 0 .. NStages, NEW y, y = [z EXCEPT !.flag = k]
  PROVE  /\ y \in StagesState /\ Same(y, z) /\ y.flag = k /\ y.current = z.current
         /\ y.taken = z.taken /\ y.collapsed = z.collapsed
<1>1. y \in StagesState
  BY DEF StagesState
<1> QED
  BY <1>1 DEF StagesState, Same

LEMMA ProcessorChanges ==
  ASSUME stages \in StagesState, NEW k \in 0 .. NStages, NEW n \in Nat,
         stages' = [stages EXCEPT !.current = n, !.flag = k]
  PROVE  /\ stages' \in StagesState /\ Same(stages', stages) /\ stages'.flag = k /\ stages'.current = n
         /\ stages'.taken = stages.taken /\ stages'.collapsed = stages.collapsed
<1>1. stages' \in StagesState
  BY DEF StagesState
<1> QED
  BY <1>1 DEF StagesState, Same

LEMMA RoundChanges ==
  ASSUME stages \in StagesState, NEW k \in Int, NEW n \in Nat,
         stages' = [stages EXCEPT !.current = n, !.taken = k]
  PROVE  /\ stages' \in StagesState /\ Same(stages', stages) /\ stages'.flag = stages.flag /\ stages'.current = n
         /\ stages'.taken = k
<1>1. stages' \in StagesState
  BY DEF StagesState
<1> QED
  BY <1>1 DEF StagesState, Same

LEMMA BreakChanges ==
  ASSUME NEW z \in StagesState, NEW y, y = [z EXCEPT !.broken = TRUE, !.released = TRUE]
  PROVE  /\ y \in StagesState /\ Same(y, z) /\ Apart(y, z)
         /\ y.taken = z.taken /\ y.collapsed = z.collapsed
<1>1. y \in StagesState
  BY DEF StagesState
<1> QED
  BY <1>1 DEF StagesState, Same, Apart

LEMMA CollapseChanges ==
  ASSUME NEW z \in StagesState, NEW y, y = [z EXCEPT !.collapsed = TRUE]
  PROVE  /\ y \in StagesState /\ Same(y, z) /\ Apart(y, z)
         /\ y.taken = z.taken /\ y.collapsed = TRUE
<1>1. y \in StagesState
  BY DEF StagesState
<1> QED
  BY <1>1 DEF StagesState, Same, Apart

LEMMA ResetChanges ==
  ASSUME stages \in StagesState, NEW b \in BOOLEAN, NEW n \in Int,
         stages' = [stages EXCEPT !.broken = b, !.released = b, !.collapsed = b, !.taken = n]
  PROVE  stages' \in StagesState /\ Same(stages', stages) /\ Apart(stages', stages) /\ stages'.taken = n
<1>1. stages' \in StagesState
  BY DEF StagesState
<1> QED
  BY <1>1 DEF StagesState, Same, Apart

LEMMA DisposeChanges ==
  ASSUME stages \in StagesState, NEW b \in BOOLEAN, NEW r \in BOOLEAN, NEW c \in BOOLEAN,
         stages' = [stages EXCEPT !.broken = b, !.released = r, !.collapsed = c]
  PROVE  stages' \in StagesState /\ Same(stages', stages) /\ Apart(stages', stages)
<1>1. stages' \in StagesState
  BY DEF StagesState
<1> QED
  BY <1>1 DEF StagesState, Same, Apart

LEMMA InterruptedState ==
  ASSUME stages \in StagesState
  PROVE  /\ Interrupted \in StagesState /\ Same(Interrupted, stages) /\ Apart(Interrupted, stages)
         /\ Interrupted.taken = stages.taken /\ Interrupted.collapsed = stages.collapsed
<1>1. PICK z : z = [stages EXCEPT !.broken = TRUE, !.released = TRUE]
  OBVIOUS
<1>2. /\ z \in StagesState /\ Same(z, stages) /\ Apart(z, stages)
      /\ z.taken = stages.taken /\ z.collapsed = stages.collapsed
  BY <1>1, BreakChanges
<1>3. Interrupted = stages \/ Interrupted = z
  BY <1>1 DEF Interrupted
<1> QED
  BY <1>2, <1>3 DEF Same, Apart

-----------------------------------------------------------------------------
(* Each step keeps the types, and what else it changes.                    *)

LEMMA ThreadGoes ==
  ASSUME stageAt \in [Threads -> Station], NEW t \in Threads, NEW p \in Station,
         stageAt' = Sent(stageAt, t, p)
  PROVE  /\ stageAt' \in [Threads -> Station]
         /\ \A u \in Threads : stageAt'[u] = IF u = t THEN p ELSE stageAt[u]
BY DEF Sent

LEMMA ShareChanges ==
  ASSUME share \in [Threads -> Share], NEW t \in Threads, NEW n \in Nat
  PROVE  /\ share' = [share EXCEPT ![t].proc = n] =>
              /\ share' \in [Threads -> Share]
              /\ \A u \in Threads :
                   /\ share'[u].task = share[u].task
                   /\ share'[u].proc = IF u = t THEN n ELSE share[u].proc
         /\ share' = [share EXCEPT ![t].task = n] =>
              /\ share' \in [Threads -> Share]
              /\ \A u \in Threads :
                   /\ share'[u].proc = share[u].proc
                   /\ share'[u].task = IF u = t THEN n ELSE share[u].task
         /\ share' = [share EXCEPT ![t] = NoShare] =>
              /\ share' \in [Threads -> Share]
              /\ \A u \in Threads : u # t => share'[u] = share[u]
<1>1. ASSUME share' = [share EXCEPT ![t].proc = n]
      PROVE  /\ share' \in [Threads -> Share]
             /\ \A u \in Threads :
                   /\ share'[u].task = share[u].task
                   /\ share'[u].proc = IF u = t THEN n ELSE share[u].proc
  BY <1>1 DEF Share
<1>2. ASSUME share' = [share EXCEPT ![t].task = n]
      PROVE  /\ share' \in [Threads -> Share]
             /\ \A u \in Threads :
                   /\ share'[u].proc = share[u].proc
                   /\ share'[u].task = IF u = t THEN n ELSE share[u].task
  BY <1>2 DEF Share
<1>3. ASSUME share' = [share EXCEPT ![t] = NoShare]
      PROVE  /\ share' \in [Threads -> Share]
             /\ \A u \in Threads : u # t => share'[u] = share[u]
  BY <1>3 DEF Share, NoShare
<1> QED
  BY <1>1, <1>2, <1>3

LEMMA ThreadMoves ==
  ASSUME StagesTypes, NEW t \in Threads, NEW p \in Station, p # "out",
         stageAt' = Sent(stageAt, t, p), stage' = stage,
         p # "head" => stage[t] \in Stage,
         p \in Forking => stages.forks, p = "set" => ~stages.forks,
         stages' \in StagesState, stages'.forks = stages.forks,
         procs' \in Seq(Processor), stages'.current <= Len(procs'),
         share' \in [Threads -> Share], past' \in [Stage -> PastState],
         \A u \in Threads : u # t => share'[u].task = share[u].task,
         p = "await" => share'[t].task \in Task
  PROVE  StagesTypes'
<1>1. /\ stageAt' \in [Threads -> Station]
      /\ \A u \in Threads : stageAt'[u] = IF u = t THEN p ELSE stageAt[u]
  BY ThreadGoes DEF StagesTypes
<1>2. stage' \in [Threads -> 1 .. NStages + 1]
  BY DEF StagesTypes
<1>3. ASSUME NEW u \in Threads
      PROVE  /\ stageAt'[u] \notin {"out", "head"} => stage'[u] \in Stage
             /\ stageAt'[u] = "out" => stage'[u] = 1
             /\ stageAt'[u] \in Forking => stages'.forks
             /\ stageAt'[u] = "set" => ~stages'.forks
             /\ stageAt'[u] = "await" => share'[u].task \in Task
  <2>1. CASE u = t
    BY <1>1, <2>1
  <2>2. CASE u # t
    BY <1>1, <2>2 DEF StagesTypes
  <2> QED
    BY <2>1, <2>2
<1> QED
  BY <1>1, <1>2, <1>3 DEF StagesTypes

\* A thread comes out.
LEMMA OutTypes ==
  ASSUME StagesTypes, NEW t \in Threads, ComeOut(t), UNCHANGED <<procs, past>>,
         stages' \in StagesState, stages'.forks = stages.forks,
         stages'.current = stages.current
  PROVE  StagesTypes'
<1>0. "out" \in Station /\ stageAt \in [Threads -> Station] /\ stageAt' = Sent(stageAt, t, "out")
  BY DEF Station, StagesTypes, ComeOut, Onto
<1>1. /\ stageAt' \in [Threads -> Station]
      /\ \A u \in Threads : stageAt'[u] = IF u = t THEN "out" ELSE stageAt[u]
  BY <1>0, ThreadGoes
<1>2. /\ stage' \in [Threads -> 1 .. NStages + 1]
      /\ \A u \in Threads : stage'[u] = IF u = t THEN 1 ELSE stage[u]
  BY StagesAssumption DEF StagesTypes, ComeOut
<1>3. share' = [share EXCEPT ![t] = NoShare] /\ share \in [Threads -> Share] /\ 0 \in Nat
  BY DEF StagesTypes, ComeOut
<1>4. /\ share' \in [Threads -> Share]
      /\ \A u \in Threads : u # t => share'[u] = share[u]
  BY <1>3, ShareChanges
<1>5. ASSUME NEW u \in Threads
      PROVE  /\ stageAt'[u] \notin {"out", "head"} => stage'[u] \in Stage
             /\ stageAt'[u] = "out" => stage'[u] = 1
             /\ stageAt'[u] \in Forking => stages'.forks
             /\ stageAt'[u] = "set" => ~stages'.forks
             /\ stageAt'[u] = "await" => share'[u].task \in Task
  <2>1. CASE u = t
    BY <1>1, <1>2, <2>1 DEF Forking
  <2>2. CASE u # t
    BY <1>1, <1>2, <1>4, <2>2 DEF StagesTypes
  <2> QED
    BY <2>1, <2>2
<1>6. procs' \in Seq(Processor) /\ stages'.current <= Len(procs') /\ past' \in [Stage -> PastState]
  BY DEF StagesTypes
<1> QED
  BY <1>1, <1>2, <1>4, <1>5, <1>6 DEF StagesTypes

LEMMA EmptyShare ==
  /\ NewProcessor \in Processor
  /\ \A i \in Task : NewProcessor.left[i] = Cap(i)
<1>1. [i \in Task |-> Cap(i)] \in [Task -> Nat]
  BY CapType
<1> QED
  BY <1>1 DEF NewProcessor, Processor

LEMMA SlotTaken ==
  ASSUME procs \in Seq(Processor), NEW p \in Nat, NEW i \in Task,
         procs[p].left[i] > 0,
         procs' = [procs EXCEPT ![p].left[i] = @ - 1, ![p].blocked = @ + 1]
  PROVE  /\ procs' \in Seq(Processor) /\ Len(procs') = Len(procs)
         /\ p \in 1 .. Len(procs) =>
              \A j \in Task : procs'[p].left[j] =
                IF j = i THEN procs[p].left[i] - 1 ELSE procs[p].left[j]
<1>1. CASE p \in 1 .. Len(procs)
  <2>1. PICK f : f = [procs[p].left EXCEPT ![i] = @ - 1]
    OBVIOUS
  <2>2. PICK b : b = procs[p].blocked + 1
    OBVIOUS
  <2>3. PICK e : e = [procs[p] EXCEPT !.left = f, !.blocked = b]
    OBVIOUS
  <2>4. procs[p] \in Processor
    BY <1>1, ElementOfSeq
  <2>5. /\ f \in [Task -> Nat] /\ b \in Nat
        /\ \A j \in Task : f[j] = IF j = i THEN procs[p].left[i] - 1 ELSE procs[p].left[j]
    BY <2>1, <2>2, <2>4 DEF Processor
  <2>6. e \in Processor /\ e.left = f
    BY <2>3, <2>4, <2>5 DEF Processor
  <2>7. procs' = [procs EXCEPT ![p] = e]
    BY <2>1, <2>2, <2>3, <2>4 DEF Processor
  <2>8. /\ [procs EXCEPT ![p] = e] \in Seq(Processor)
        /\ Len([procs EXCEPT ![p] = e]) = Len(procs)
        /\ [procs EXCEPT ![p] = e][p] = e
    BY <1>1, <2>6, ExceptSeq
  <2> QED
    BY <2>5, <2>6, <2>7, <2>8
<1>2. CASE p \notin 1 .. Len(procs)
  <2>1. DOMAIN procs = 1 .. Len(procs)
    OBVIOUS
  <2>2. procs' = procs
    BY <1>2, <2>1
  <2> QED
    BY <1>2, <2>2
<1> QED
  BY <1>1, <1>2

LEMMA VacatedType ==
  ASSUME stages \in StagesState
  PROVE  /\ Vacated \in Int
         /\ ~stagesDisposed /\ stages.taken > 0 => Vacated = stages.taken - 1
BY DEF Vacated, StagesState

LEMMA MakeTypes ==
  ASSUME StagesTypes, NEW t \in Threads, MakeProcessor(t)
  PROVE  /\ StagesTypes' /\ Same(stages', stages) /\ stages'.taken = stages.taken
         /\ stages'.collapsed = stages.collapsed
<1>1. /\ stageAt[t] = "make" /\ stage[t] \in Stage /\ stages.forks /\ "read" \in Station
      /\ stages \in StagesState /\ procs \in Seq(Processor) /\ past \in [Stage -> PastState]
      /\ share \in [Threads -> Share] /\ stages.current <= Len(procs)
  BY DEF StagesTypes, MakeProcessor, At, Forking, Station
<1>2. stageAt' = Sent(stageAt, t, "read") /\ UNCHANGED <<stage, share>>
  BY DEF MakeProcessor, Onto
<1>3. CASE stages.flag = 0
  <2>1. /\ procs' = Append(procs, NewProcessor)
        /\ stages' = [stages EXCEPT !.current = Len(procs'), !.flag = stage[t]]
        /\ past' = [past EXCEPT ![stage[t]].once = @ + 1]
    BY <1>3 DEF MakeProcessor, Once
  <2>2. procs' \in Seq(Processor) /\ Len(procs') \in Nat
    BY <1>1, <2>1, EmptyShare, AppendProperties
  <2>3. stage[t] \in 0 .. NStages
    BY <1>1, LimitType DEF Stage
  <2>4. PICK n \in Nat, k \in 0 .. NStages : n = Len(procs') /\ k = stage[t]
    BY <2>2, <2>3
  <2>5. stages' = [stages EXCEPT !.current = n, !.flag = k]
    BY <2>1, <2>4
  <2>6. stages \in StagesState
    BY <1>1
  <2>7. /\ stages' \in StagesState /\ Same(stages', stages) /\ stages'.current = n
        /\ stages'.taken = stages.taken /\ stages'.collapsed = stages.collapsed
    BY <2>6, <2>5, ProcessorChanges
  <2>8. /\ stages' \in StagesState /\ Same(stages', stages) /\ stages'.current = Len(procs')
        /\ stages'.taken = stages.taken /\ stages'.collapsed = stages.collapsed
    BY <2>4, <2>7
  <2>9. past' \in [Stage -> PastState]
    BY <1>1, <2>1, OnceGrows
  <2>10. stages'.forks = stages.forks /\ stages'.current <= Len(procs')
    BY <2>2, <2>8 DEF Same
  <2>11. StagesTypes'
    BY <1>1, <1>2, <2>2, <2>8, <2>9, <2>10, ThreadMoves
  <2> QED
    BY <2>8, <2>11
<1>4. CASE stages.flag # 0
  <2>1. UNCHANGED <<procs, stages, past>>
    BY <1>4 DEF MakeProcessor
  <2>2. StagesTypes'
    BY <1>1, <1>2, <2>1, ThreadMoves
  <2> QED
    BY <2>1, <2>2 DEF Same
<1> QED
  BY <1>3, <1>4

LEMMA UseTypes ==
  ASSUME StagesTypes, NEW t \in Threads, UseProcessor(t)
  PROVE  StagesTypes'
<1>1. /\ stageAt[t] = "use" /\ stage[t] \in Stage /\ stages.forks
      /\ "await" \in Station /\ "meet" \in Station
      /\ stages \in StagesState /\ procs \in Seq(Processor) /\ past \in [Stage -> PastState]
      /\ share \in [Threads -> Share] /\ stages.current <= Len(procs)
  BY DEF StagesTypes, UseProcessor, At, Forking, Station
<1>2. PICK p \in Nat : p = share[t].proc
  BY <1>1 DEF Share
<1>3. PICK i \in Task :
        /\ procs[p].left[i] > 0
        /\ procs' = [procs EXCEPT ![p].left[i] = @ - 1, ![p].blocked = @ + 1]
        /\ IF stages.sync
             THEN /\ Onto(t, "await")
                  /\ share' = [share EXCEPT ![t].task = i]
                  /\ UNCHANGED past
             ELSE RunTask(t, i) /\ Onto(t, "meet") /\ UNCHANGED share
  BY <1>2 DEF UseProcessor
<1>4. procs' \in Seq(Processor) /\ Len(procs') = Len(procs)
  BY <1>1, <1>3, SlotTaken
<1>5. UNCHANGED <<stage, stages>> /\ i \in Nat
  BY StagesAssumption DEF UseProcessor, Task
<1>6. CASE stages.sync
  <2>1. stageAt' = Sent(stageAt, t, "await") /\ past' = past
    BY <1>3, <1>6 DEF Onto
  <2>2. /\ share' \in [Threads -> Share]
        /\ \A u \in Threads : share'[u].task = IF u = t THEN i ELSE share[u].task
    BY <1>1, <1>3, <1>5, <1>6, ShareChanges
  <2> QED
    BY <1>1, <1>4, <1>5, <2>1, <2>2, ThreadMoves
<1>7. CASE ~stages.sync
  <2>1. stageAt' = Sent(stageAt, t, "meet") /\ share' = share /\ RunTask(t, i)
    BY <1>3, <1>7 DEF Onto
  <2>2. past' \in [Stage -> PastState]
    BY <1>1, <2>1, RanGrows
  <2> QED
    BY <1>1, <1>4, <1>5, <2>1, <2>2, ThreadMoves DEF Forking
<1> QED
  BY <1>6, <1>7

LEMMA RunTypes ==
  ASSUME StagesTypes, NEW t \in Threads, RunTogether(t)
  PROVE  StagesTypes'
<1>1. /\ stageAt[t] = "await" /\ stage[t] \in Stage /\ stages.forks /\ share[t].task \in Task
      /\ "meet" \in Station
      /\ stages \in StagesState /\ procs \in Seq(Processor) /\ past \in [Stage -> PastState]
      /\ share \in [Threads -> Share] /\ stages.current <= Len(procs)
  BY DEF StagesTypes, RunTogether, At, Station, Forking
<1>2. /\ stageAt' = Sent(stageAt, t, "meet") /\ UNCHANGED <<stage, procs, stages>>
      /\ share' = [share EXCEPT ![t].task = 0] /\ RunTask(t, share[t].task)
  BY DEF RunTogether, Onto
<1>3. past' \in [Stage -> PastState]
  BY <1>1, <1>2, RanGrows
<1>4. /\ share' \in [Threads -> Share]
      /\ \A u \in Threads : u # t => share'[u].task = share[u].task
  BY <1>1, <1>2, ShareChanges
<1> QED
  BY <1>1, <1>2, <1>3, <1>4, ThreadMoves DEF Forking

LEMMA SetTypes ==
  ASSUME StagesTypes, NEW t \in Threads, SetOutcome(t)
  PROVE  /\ StagesTypes' /\ Same(stages', stages) /\ stages'.taken = stages.taken
         /\ stages'.collapsed = stages.collapsed
         /\ stages'.flag = IF stages.flag = 0 THEN stage[t] ELSE stages.flag
<1>1. /\ stageAt[t] = "set" /\ stage[t] \in Stage /\ "meet" \in Station
      /\ stages \in StagesState /\ procs \in Seq(Processor) /\ past \in [Stage -> PastState]
      /\ share \in [Threads -> Share] /\ stages.current <= Len(procs)
  BY DEF StagesTypes, SetOutcome, At, Station
<1>2. stageAt' = Sent(stageAt, t, "meet") /\ UNCHANGED <<stage, procs, share>>
  BY DEF SetOutcome, Onto
<1>3. PICK k : k = IF stages.flag = 0 THEN stage[t] ELSE stages.flag
  OBVIOUS
<1>4. k \in 0 .. NStages
  BY <1>1, <1>3, LimitType DEF StagesState, Stage
<1>5. stages' = [stages EXCEPT !.flag = k]
  BY <1>3 DEF SetOutcome
<1>6. /\ stages' \in StagesState /\ Same(stages', stages) /\ stages'.taken = stages.taken
      /\ stages'.flag = k /\ stages'.current = stages.current
      /\ stages'.collapsed = stages.collapsed
  BY <1>1, <1>4, <1>5, FlagChanges
<1>7. past' \in [Stage -> PastState]
  BY <1>1, OutcomeMeets
<1>8. StagesTypes'
  BY <1>1, <1>2, <1>6, <1>7, ThreadMoves DEF Same, Forking
<1> QED
  BY <1>3, <1>6, <1>8

LEMMA GatherTypes ==
  ASSUME StagesTypes, Gather
  PROVE  /\ StagesTypes' /\ Same(stages', stages) /\ stages'.flag = stages.flag
         /\ stages'.taken = stages.taken + Limit
<1>1. /\ stages.forks /\ stages \in StagesState /\ procs \in Seq(Processor)
      /\ stages.current \in Nat /\ stages.current <= Len(procs) /\ stages.taken + Limit \in Int
  BY LimitType DEF StagesTypes, StagesState, Gather
<1>2. procs' \in Seq(Processor) /\ Len(procs') \in Nat
  <2>1. CASE stages.current = 0
    <3>1. procs' = <<>>
      BY <2>1 DEF Gather
    <3> QED
      BY <3>1
  <2>2. CASE stages.current # 0
    <3>1. procs' = <<procs[stages.current]>>
      BY <2>2 DEF Gather
    <3>2. procs[stages.current] \in Processor
      BY <1>1, <2>2, ElementOfSeq
    <3> QED
      BY <3>1, <3>2
  <2> QED
    BY <2>1, <2>2
<1>3. PICK n \in Nat, k \in Int : n = Len(procs') /\ k = stages.taken + Limit
  BY <1>1, <1>2
<1>4. stages' = [stages EXCEPT !.current = n, !.taken = k]
  BY <1>3 DEF Gather
<1>5. /\ stages' \in StagesState /\ Same(stages', stages) /\ stages'.flag = stages.flag
      /\ stages'.current = n /\ stages'.taken = k
  BY <1>1, <1>4, RoundChanges
<1>6. past' \in [Stage -> PastState]
  BY DEF Gather, Nothing, PastState, Stage
<1>7. UNCHANGED <<stage, share>>
  BY DEF Gather
<1>8. PICK crew \in SUBSET {t \in Threads : stageAt[t] = "out"} :
        stageAt' = [t \in Threads |-> IF t \in crew THEN "head" ELSE stageAt[t]]
  BY DEF Gather
<1>9. /\ stageAt' \in [Threads -> Station]
      /\ \A t \in Threads : stageAt'[t] = IF t \in crew THEN "head" ELSE stageAt[t]
  BY <1>8 DEF StagesTypes, Station
<1>10. ASSUME NEW t \in Threads
       PROVE  /\ stageAt'[t] \notin {"out", "head"} => stage'[t] \in Stage
              /\ stageAt'[t] = "out" => stage'[t] = 1
              /\ stageAt'[t] \in Forking => stages'.forks
              /\ stageAt'[t] = "set" => ~stages'.forks
              /\ stageAt'[t] = "await" => share'[t].task \in Task
  BY <1>5, <1>7, <1>9 DEF StagesTypes, Same, Forking
<1>11. stage' \in [Threads -> 1 .. NStages + 1] /\ share' \in [Threads -> Share]
  BY <1>7 DEF StagesTypes
<1>12. stages'.current <= Len(procs')
  BY <1>2, <1>3, <1>5
<1> QED
  BY <1>2, <1>3, <1>5, <1>6, <1>9, <1>10, <1>11, <1>12 DEF StagesTypes

LEMMA ClaimTypes ==
  ASSUME StagesTypes, NEW t \in Threads, TryClaimSlot(t)
  PROVE  /\ StagesTypes' /\ Same(stages', stages) /\ Apart(stages', stages)
         /\ stages'.taken = stages.taken + 1 /\ stages'.collapsed = stages.collapsed
<1>1. /\ "head" \in Station /\ stages \in StagesState /\ stages.taken + 1 \in Int
      /\ share \in [Threads -> Share] /\ procs \in Seq(Processor)
      /\ past \in [Stage -> PastState] /\ stages.current <= Len(procs)
  BY DEF StagesTypes, StagesState, Station
<1>2. /\ stageAt' = Sent(stageAt, t, "head") /\ UNCHANGED <<stage, procs, share, past>>
      /\ stages' = [stages EXCEPT !.taken = stages.taken + 1]
  BY DEF TryClaimSlot, Onto
<1>3. /\ stages' \in StagesState /\ Same(stages', stages) /\ Apart(stages', stages)
      /\ stages'.taken = stages.taken + 1 /\ stages'.collapsed = stages.collapsed
  BY <1>1, <1>2, TakenChanges
<1>4. StagesTypes'
  BY <1>1, <1>2, <1>3, ThreadMoves DEF Same, Apart, Forking
<1> QED
  BY <1>3, <1>4

\* At the head of the loop a thread goes on into its stage or comes out.
GoesOn(t) ==
  /\ stage[t] \in Stage
  /\ Onto(t, IF stages.forks THEN "make" ELSE "set")
  /\ UNCHANGED <<stage, share, procs, stages, past>>

GoesOut(t) ==
  /\ ComeOut(t) /\ UNCHANGED <<procs, past>>
  /\ Same(stages', stages) /\ Apart(stages', stages)
  /\ stages'.taken = Vacated
  /\ ~stages.forks => stages'.collapsed

LEMMA HeadTypes ==
  ASSUME StagesTypes, NEW t \in Threads, StageHead(t)
  PROVE  StagesTypes' /\ (GoesOn(t) \/ GoesOut(t))
<1>1. /\ "make" \in Station /\ "set" \in Station /\ stages \in StagesState
      /\ share \in [Threads -> Share] /\ procs \in Seq(Processor)
      /\ past \in [Stage -> PastState] /\ stages.current <= Len(procs)
      /\ stage[t] \in 1 .. NStages + 1
  BY DEF StagesTypes, Station
<1>2. UNCHANGED <<procs, past>>
  BY DEF StageHead
<1>3. CASE stage[t] > NStages \/ (stages.forks /\ stages.broken)
  <2>1. PICK r \in BOOLEAN : r = (stages.released \/ stages.forks)
    OBVIOUS
  <2>2. PICK c \in BOOLEAN : c = (stages.collapsed \/ ~stages.forks)
    OBVIOUS
  <2>3. PICK n \in Int : n = Vacated
    BY <1>1, VacatedType
  <2>4. /\ ComeOut(t)
        /\ stages' = [stages EXCEPT !.released = r, !.collapsed = c, !.taken = n]
    BY <1>3, <2>1, <2>2, <2>3 DEF StageHead
  <2>5. /\ stages' \in StagesState /\ Same(stages', stages) /\ Apart(stages', stages)
        /\ stages'.taken = n /\ stages'.collapsed = c
    BY <1>1, <2>4, EndChanges
  <2>6. StagesTypes'
    BY <1>2, <2>4, <2>5, OutTypes DEF Same, Apart
  <2>7. ~stages.forks => stages'.collapsed
    BY <2>2, <2>5
  <2> QED
    BY <1>2, <2>3, <2>4, <2>5, <2>6, <2>7 DEF GoesOut
<1>4. CASE ~(stage[t] > NStages \/ (stages.forks /\ stages.broken))
  <2>1. /\ Onto(t, IF stages.forks THEN "make" ELSE "set")
        /\ UNCHANGED <<stage, share, stages>>
    BY <1>4 DEF StageHead
  <2>2. stage[t] \in Stage
    BY <1>1, <1>4, LimitType DEF Stage
  <2>3. PICK p \in Station : p = IF stages.forks THEN "make" ELSE "set"
    BY <1>1
  <2>4. stageAt' = Sent(stageAt, t, p)
    BY <2>1, <2>3 DEF Onto
  <2>5. p \notin {"out", "head", "await"} /\ (p \in Forking => stages.forks)
        /\ (p = "set" => ~stages.forks)
    BY <2>3 DEF Forking
  <2>6. StagesTypes'
    BY <1>1, <1>2, <2>1, <2>2, <2>4, <2>5, ThreadMoves
  <2> QED
    BY <1>2, <2>1, <2>2, <2>6 DEF GoesOn
<1> QED
  BY <1>3, <1>4

LEMMA ReadTypes ==
  ASSUME StagesTypes, NEW t \in Threads, ReadProcessor(t)
  PROVE  StagesTypes'
<1>1. /\ stageAt[t] = "read" /\ stage[t] \in Stage /\ stages.forks /\ "use" \in Station
      /\ stages \in StagesState /\ procs \in Seq(Processor) /\ past \in [Stage -> PastState]
      /\ share \in [Threads -> Share] /\ stages.current <= Len(procs) /\ stages.current \in Nat
  BY DEF StagesTypes, StagesState, ReadProcessor, At, Station, Forking
<1>2. /\ stageAt' = Sent(stageAt, t, "use") /\ UNCHANGED <<stage, procs, stages, past>>
      /\ share' = [share EXCEPT ![t].proc = stages.current]
  BY DEF ReadProcessor, Onto
<1>3. /\ share' \in [Threads -> Share]
      /\ \A u \in Threads : u # t => share'[u].task = share[u].task
  BY <1>1, <1>2, ShareChanges
<1> QED
  BY <1>1, <1>2, <1>3, ThreadMoves

LEMMA OutOfTasksTypes ==
  ASSUME StagesTypes, NEW t \in Threads, NoTaskLeft(t)
  PROVE  StagesTypes' /\ GoesOut(t) /\ stages.forks /\ stageAt[t] = "use"
<1>1. stages \in StagesState /\ stages.forks /\ stageAt[t] = "use"
  BY DEF StagesTypes, NoTaskLeft, At, Forking
<1>2. PICK z : z = Interrupted
  OBVIOUS
<1>3. z \in StagesState /\ Same(z, stages) /\ Apart(z, stages)
  BY <1>1, <1>2, InterruptedState
<1>4. PICK n \in Int : n = Vacated
  BY <1>1, VacatedType
<1>5. stages' = [z EXCEPT !.taken = n]
  BY <1>2, <1>4 DEF NoTaskLeft
<1>6. stages' \in StagesState /\ Same(stages', z) /\ Apart(stages', z) /\ stages'.taken = n
  BY <1>3, <1>5, TakenChanges
<1>7. Same(stages', stages) /\ Apart(stages', stages)
  BY <1>3, <1>6 DEF Same, Apart
<1>8. ComeOut(t) /\ UNCHANGED <<procs, past>>
  BY DEF NoTaskLeft
<1>9. StagesTypes'
  BY <1>6, <1>7, <1>8, OutTypes DEF Same, Apart
<1> QED
  BY <1>1, <1>4, <1>6, <1>7, <1>8, <1>9 DEF GoesOut

LEMMA FailTypes ==
  ASSUME StagesTypes, NEW t \in Threads, StageFails(t)
  PROVE  StagesTypes'
<1>1. stages \in StagesState
  BY DEF StagesTypes
<1>2. PICK n \in Int : n = Vacated
  BY <1>1, VacatedType
<1>3. stages' = [stages EXCEPT !.taken = n] /\ ComeOut(t) /\ UNCHANGED <<procs, past>>
  BY <1>2 DEF StageFails
<1>4. stages' \in StagesState /\ Same(stages', stages) /\ Apart(stages', stages)
  BY <1>1, <1>3, TakenChanges
<1> QED
  BY <1>3, <1>4, OutTypes DEF Same, Apart

LEMMA MeetTypes ==
  ASSUME StagesTypes, NEW t \in Threads, MeetOthers(t)
  PROVE  /\ StagesTypes' /\ stageAt[t] = "meet" /\ stage[t] \in Stage
         /\ UNCHANGED <<stage, share, procs, stages, stagesDisposed, past>>
         /\ \/ UNCHANGED <<stageAt, abreast>>
            \/ Onto(t, "lower") /\ (abreast' => abreast /\ Full(stage[t]))
<1>1. /\ stageAt[t] = "meet" /\ stage[t] \in Stage /\ "lower" \in Station
      /\ stages \in StagesState /\ procs \in Seq(Processor) /\ past \in [Stage -> PastState]
      /\ share \in [Threads -> Share] /\ stages.current <= Len(procs)
  BY DEF StagesTypes, MeetOthers, Station
<1>2. UNCHANGED <<stage, share, procs, stages, stagesDisposed, past>>
  BY DEF MeetOthers
<1>3. \/ UNCHANGED <<stageAt, abreast>>
      \/ Onto(t, "lower") /\ (abreast' => abreast /\ Full(stage[t]))
  BY Zenon DEF MeetOthers, Full
<1>4. StagesTypes'
  <2>1. CASE UNCHANGED <<stageAt, abreast>>
    BY <1>2, <2>1 DEF StagesTypes
  <2>2. CASE Onto(t, "lower")
    <3>1. stageAt' = Sent(stageAt, t, "lower")
      BY <2>2 DEF Onto
    <3> QED
      BY <1>1, <1>2, <3>1, ThreadMoves DEF Forking
  <2> QED
    BY <1>3, <2>1, <2>2
<1> QED
  BY <1>1, <1>2, <1>3, <1>4

LEMMA LowerTypes ==
  ASSUME StagesTypes, NEW t \in Threads, LowerFlag(t)
  PROVE  /\ StagesTypes' /\ stageAt[t] = "lower" /\ stage[t] \in Stage
         /\ Onto(t, "head") /\ UNCHANGED <<share, procs, abreast>> /\ Lowered(t)
         /\ \A u \in Threads : stage'[u] = IF u = t THEN stage[t] + 1 ELSE stage[u]
         /\ Same(stages', stages) /\ stages'.flag = 0 /\ stages'.current = stages.current
         /\ stages'.taken = stages.taken /\ stages'.collapsed = stages.collapsed
<1>1. /\ stageAt[t] = "lower" /\ stage[t] \in Stage /\ "head" \in Station
      /\ stages \in StagesState /\ procs \in Seq(Processor) /\ past \in [Stage -> PastState]
      /\ share \in [Threads -> Share] /\ stages.current <= Len(procs)
      /\ stageAt \in [Threads -> Station]
  BY DEF StagesTypes, LowerFlag, Station
<1>2. /\ stageAt' = Sent(stageAt, t, "head") /\ UNCHANGED <<share, procs, abreast>>
      /\ stages' = [stages EXCEPT !.flag = 0] /\ stage' = [stage EXCEPT ![t] = @ + 1]
  BY DEF LowerFlag, Onto
<1>3. /\ stages' \in StagesState /\ Same(stages', stages) /\ stages'.flag = 0
      /\ stages'.current = stages.current
      /\ stages'.taken = stages.taken /\ stages'.collapsed = stages.collapsed
  <2>1. 0 \in 0 .. NStages
    BY LimitType
  <2> QED
    BY <1>1, <1>2, <2>1, FlagChanges
<1>4. /\ stage' \in [Threads -> 1 .. NStages + 1]
      /\ \A u \in Threads : stage'[u] = IF u = t THEN stage[t] + 1 ELSE stage[u]
  <2>1. stage \in [Threads -> 1 .. NStages + 1] /\ stage[t] + 1 \in 1 .. NStages + 1
    BY <1>1, LimitType DEF StagesTypes, Stage
  <2> QED
    BY <1>2, <2>1
<1>5. /\ stageAt' \in [Threads -> Station]
      /\ \A u \in Threads : stageAt'[u] = IF u = t THEN "head" ELSE stageAt[u]
  BY <1>1, <1>2, ThreadGoes
<1>6. ASSUME NEW u \in Threads
      PROVE  /\ stageAt'[u] \notin {"out", "head"} => stage'[u] \in Stage
             /\ stageAt'[u] = "out" => stage'[u] = 1
             /\ stageAt'[u] \in Forking => stages'.forks
             /\ stageAt'[u] = "set" => ~stages'.forks
             /\ stageAt'[u] = "await" => share'[u].task \in Task
  BY <1>2, <1>3, <1>4, <1>5 DEF StagesTypes, Same, Forking
<1>7. past' \in [Stage -> PastState] /\ Lowered(t)
  BY <1>1, LateGrows DEF StagesState
<1>8. StagesTypes'
  BY <1>1, <1>2, <1>3, <1>4, <1>5, <1>6, <1>7 DEF StagesTypes
<1> QED
  BY <1>1, <1>2, <1>3, <1>4, <1>7, <1>8 DEF Onto

LEMMA OwnerTypes ==
  ASSUME StagesTypes, UNCHANGED <<stageAt, stage, share, procs>>,
         stages' \in StagesState, Same(stages', stages), Apart(stages', stages),
         past' \in [Stage -> PastState]
  PROVE  StagesTypes'
<1>1. \A u \in Threads :
        /\ stageAt'[u] \notin {"out", "head"} => stage'[u] \in Stage
        /\ stageAt'[u] = "out" => stage'[u] = 1
        /\ stageAt'[u] \in Forking => stages'.forks
        /\ stageAt'[u] = "set" => ~stages'.forks
        /\ stageAt'[u] = "await" => share'[u].task \in Task
  BY DEF StagesTypes, Same
<1>2. stages'.current <= Len(procs')
  BY DEF StagesTypes, Apart
<1> QED
  BY <1>1, <1>2 DEF StagesTypes

LEMMA OverrideTypes ==
  ASSUME StagesTypes, OverrideStages
  PROVE  /\ StagesTypes' /\ Same(stages', stages) /\ Apart(stages', stages)
         /\ stages'.taken = stages.taken
         /\ stages.collapsed => stages'.collapsed
<1>1. stages \in StagesState /\ past \in [Stage -> PastState]
  BY DEF StagesTypes
<1>2. UNCHANGED <<stageAt, stage, share, procs, past>>
  BY DEF OverrideStages
<1>3. CASE stages.forks
  <2>1. stages' = Interrupted
    BY <1>3 DEF OverrideStages
  <2>2. /\ stages' \in StagesState /\ Same(stages', stages) /\ Apart(stages', stages)
        /\ stages'.taken = stages.taken /\ stages'.collapsed = stages.collapsed
    BY <1>1, <2>1, InterruptedState
  <2> QED
    BY <1>1, <1>2, <2>2, OwnerTypes
<1>4. CASE ~stages.forks
  <2>1. stages' = [stages EXCEPT !.collapsed = TRUE]
    BY <1>4 DEF OverrideStages
  <2>2. /\ stages' \in StagesState /\ Same(stages', stages) /\ Apart(stages', stages)
        /\ stages'.taken = stages.taken /\ stages'.collapsed = TRUE
    BY <1>1, <2>1, CollapseChanges
  <2> QED
    BY <1>1, <1>2, <2>2, OwnerTypes
<1> QED
  BY <1>3, <1>4

LEMMA ResetTypes ==
  ASSUME StagesTypes, ResetStages
  PROVE  /\ StagesTypes' /\ Same(stages', stages) /\ Apart(stages', stages)
         /\ stages'.taken = 0
<1>1. stages \in StagesState
  BY DEF StagesTypes
<1>2. UNCHANGED <<stageAt, stage, share, procs>> /\ past' \in [Stage -> PastState]
  BY DEF ResetStages, Nothing, PastState, Stage
<1>3. PICK b \in BOOLEAN : b = FALSE
  BY Zenon
<1>4. PICK n \in Int : n = 0
  OBVIOUS
<1>5. stages' = [stages EXCEPT !.broken = b, !.released = b, !.collapsed = b, !.taken = n]
  BY <1>3, <1>4 DEF ResetStages
<1>6. /\ stages' \in StagesState /\ Same(stages', stages) /\ Apart(stages', stages)
      /\ stages'.taken = n
  BY <1>1, <1>5, ResetChanges
<1> QED
  BY <1>2, <1>4, <1>6, OwnerTypes

LEMMA DisposeTypes ==
  ASSUME StagesTypes, DisposeStages
  PROVE  StagesTypes'
<1>1. stages \in StagesState /\ stages.forks \in BOOLEAN /\ past \in [Stage -> PastState]
  BY DEF StagesTypes, StagesState
<1>2. UNCHANGED <<stageAt, stage, share, procs, past>>
  BY DEF DisposeStages
<1>3. PICK b \in BOOLEAN, c \in BOOLEAN : b = stages.forks /\ c = ~stages.forks
  BY <1>1
<1>4. stages' = [stages EXCEPT !.broken = b, !.released = b, !.collapsed = c]
  BY <1>3 DEF DisposeStages
<1>5. stages' \in StagesState /\ Same(stages', stages) /\ Apart(stages', stages)
  BY <1>1, <1>4, DisposeChanges
<1> QED
  BY <1>1, <1>2, <1>5, OwnerTypes

-----------------------------------------------------------------------------
(* A full crew and those who are not with it.                              *)

LEMMA CrewFinite ==
  /\ Crew \subseteq Threads
  /\ IsFiniteSet(Threads)
  /\ \A S \in SUBSET Threads : IsFiniteSet(S) /\ Cardinality(S) \in Nat
BY CountType, WaitingAssumption DEF Crew

LEMMA FullCrew ==
  ASSUME StagesTypes, Counted, NEW s \in Stage, Full(s)
  PROVE  Crew \subseteq past[s].met
<1>1. past[s].met \subseteq Threads
  BY DEF StagesTypes, PastState
<1>2. PICK U : U = Crew \union past[s].met
  OBVIOUS
<1>3. U \subseteq Threads /\ past[s].met \subseteq U
  BY <1>1, <1>2, CrewFinite
<1>4. IsFiniteSet(U) /\ Cardinality(U) \in Nat
  BY <1>3, CrewFinite
<1>5. Cardinality(past[s].met) <= Cardinality(U)
  BY <1>3, <1>4, FS_Subset
<1>6. Cardinality(U) <= Limit /\ Cardinality(past[s].met) = Limit
  BY <1>2 DEF Counted, Full
<1>7. Cardinality(U) = Cardinality(past[s].met)
  BY <1>4, <1>5, <1>6, LimitType
<1>8. U = past[s].met
  BY <1>3, <1>4, <1>7, FS_Subset
<1> QED
  BY <1>2, <1>8

LEMMA NotCome ==
  ASSUME StagesTypes, Counted, Abreast, NEW t \in Crew, NEW s \in Stage, ~Came(t, s)
  PROVE  /\ t \notin past[s].met /\ ~Full(s)
         /\ \A u \in Crew : ~Behind(u, s) /\ stage[u] <= s
<1>1. t \notin past[s].met
  BY DEF Abreast
<1>2. ~Full(s)
  BY <1>1, FullCrew
<1>3. ASSUME NEW u \in Crew PROVE ~Behind(u, s)
  BY <1>2 DEF Abreast
<1>4. ASSUME NEW u \in Crew PROVE stage[u] <= s
  <2>1. stage[u] \in Int /\ s \in Int
    BY LimitType DEF StagesTypes, Crew, Stage
  <2> QED
    BY <1>3, <2>1 DEF Behind
<1> QED
  BY <1>1, <1>2, <1>3, <1>4

LEMMA FullStays ==
  ASSUME StagesTypes, Counted, NEW s \in Stage, NEW t \in Crew,
         past'[s].met = past[s].met \/ past'[s].met = past[s].met \union {t}
  PROVE  Full(s) => Full(s)'
<1>1. ASSUME Full(s) PROVE past'[s].met = past[s].met
  BY <1>1, FullCrew
<1> QED
  BY <1>1 DEF Full

-----------------------------------------------------------------------------
(* A thread goes from one place inside to another; a thread comes out.     *)

Goes(t, p) ==
  /\ t \in Crew /\ p \in Station /\ p # "out" /\ stageAt' = Sent(stageAt, t, p)
  /\ Same(stages', stages) /\ stages'.taken = stages.taken
  /\ stages'.collapsed = stages.collapsed

LEMMA CrewStays ==
  ASSUME StagesTypes, NEW t, NEW p, Goes(t, p)
  PROVE  /\ t \in Threads /\ Crew' = Crew
         /\ \A u \in Threads : stageAt'[u] = IF u = t THEN p ELSE stageAt[u]
BY ThreadGoes DEF Goes, Crew, StagesTypes

LEMMA CountedGoes ==
  ASSUME StagesTypes, Counted, NEW t, NEW p, Goes(t, p),
         \A s \in Stage : past'[s].met \subseteq past[s].met \union {t},
         past' \in [Stage -> PastState]
  PROVE  Counted'
<1>1. Crew' = Crew /\ t \in Crew
  BY CrewStays DEF Goes
<1>2. stages'.taken = Cardinality(Crew')
  BY <1>1 DEF Goes, Counted
<1>3. ASSUME NEW s \in Stage
      PROVE  Cardinality(Crew' \union past'[s].met) <= Limit
  <2>1. PICK U : U = Crew \union past[s].met
    OBVIOUS
  <2>2. PICK V : V = Crew' \union past'[s].met
    OBVIOUS
  <2>3. U \subseteq Threads /\ V \subseteq U
    BY <1>1, <2>1, <2>2, CrewFinite DEF StagesTypes, PastState
  <2>4. /\ Cardinality(U) \in Nat /\ Cardinality(V) \in Nat
        /\ Cardinality(V) <= Cardinality(U)
    BY <2>3, CrewFinite, FS_Subset
  <2>5. Cardinality(U) <= Limit
    BY <2>1 DEF Counted
  <2> QED
    BY <2>2, <2>4, <2>5, LimitType
<1>4. ASSUME ~stages'.forks, ~stages'.collapsed, NEW s \in Stage
      PROVE  past'[s].met \subseteq Crew'
  <2>1. past[s].met \subseteq Crew
    BY <1>4 DEF Counted, Goes, Same
  <2> QED
    BY <1>1, <2>1
<1> QED
  BY <1>2, <1>3, <1>4 DEF Counted

LEMMA CrewLess ==
  ASSUME StagesTypes, NEW t \in Crew, GoesOut(t)
  PROVE  /\ Crew' = Crew \ {t} /\ t \in Threads
         /\ \A u \in Crew' : u # t /\ stageAt'[u] = stageAt[u] /\ stage'[u] = stage[u]
                                   /\ share'[u] = share[u]
<1>1. t \in Threads /\ stageAt' = Sent(stageAt, t, "out") /\ stageAt \in [Threads -> Station]
  BY DEF GoesOut, ComeOut, Onto, Crew, StagesTypes
<1>2. \A u \in Threads : stageAt'[u] = IF u = t THEN "out" ELSE stageAt[u]
  BY <1>1, ThreadGoes DEF Station
<1>3. Crew' = Crew \ {t}
  BY <1>2 DEF Crew
<1>4. \A u \in Threads : u # t => stage'[u] = stage[u] /\ share'[u] = share[u]
  BY DEF GoesOut, ComeOut, StagesTypes
<1> QED
  BY <1>1, <1>2, <1>3, <1>4 DEF Crew

LEMMA CountedOut ==
  ASSUME StagesTypes, Counted, NEW t \in Crew, GoesOut(t), ~stagesDisposed
  PROVE  Counted'
<1>1. Crew' = Crew \ {t} /\ t \in Threads /\ past' = past
  BY CrewLess DEF GoesOut
<1>2. /\ Cardinality(Crew \ {t}) = Cardinality(Crew) - 1
      /\ Cardinality(Crew) \in Nat /\ Cardinality(Crew) # 0
  BY MemberCounts, CountType, CrewFinite
<1>3. stages'.taken = Cardinality(Crew')
  <2>1. stages.taken = Cardinality(Crew) /\ stages \in StagesState
    BY DEF Counted, StagesTypes
  <2>2. Vacated = stages.taken - 1
    BY <1>2, <2>1, VacatedType
  <2> QED
    BY <1>1, <1>2, <2>1, <2>2 DEF GoesOut
<1>4. ASSUME NEW s \in Stage
      PROVE  Cardinality(Crew' \union past'[s].met) <= Limit
  <2>1. PICK U : U = Crew \union past[s].met
    OBVIOUS
  <2>2. PICK V : V = Crew' \union past'[s].met
    OBVIOUS
  <2>3. U \subseteq Threads /\ V \subseteq U
    BY <1>1, <2>1, <2>2, CrewFinite DEF StagesTypes, PastState
  <2>4. /\ Cardinality(U) \in Nat /\ Cardinality(V) \in Nat
        /\ Cardinality(V) <= Cardinality(U)
    BY <2>3, CrewFinite, FS_Subset
  <2>5. Cardinality(U) <= Limit
    BY <2>1 DEF Counted
  <2> QED
    BY <2>2, <2>4, <2>5, LimitType
<1>5. stages'.forks \/ stages'.collapsed
  BY DEF GoesOut, Same
<1> QED
  BY <1>3, <1>4, <1>5 DEF Counted

LEMMA AbreastGoes ==
  ASSUME StagesTypes, Counted, Abreast, NEW t, NEW p, Goes(t, p), stage' = stage,
         stageAt[t] \notin {"meet", "lower"}, p \notin {"meet", "lower"},
         \A s \in Stage : past'[s].met = past[s].met
  PROVE  Abreast'
<1>1. Crew' = Crew /\ \A u \in Threads : stageAt'[u] = IF u = t THEN p ELSE stageAt[u]
  BY CrewStays
<1> SUFFICES ASSUME NEW u \in Crew, NEW s \in Stage
             PROVE  /\ Behind(u, s)' => Full(s)'
                    /\ u \in past'[s].met <=> Came(u, s)'
  BY <1>1 DEF Abreast
<1>2. (Behind(u, s)' <=> Behind(u, s)) /\ (Came(u, s)' <=> Came(u, s))
  BY <1>1 DEF Behind, Came, Crew
<1> QED
  BY <1>2 DEF Abreast, Full

LEMMA AbreastMeets ==
  ASSUME StagesTypes, Counted, Abreast, NEW t, Goes(t, "meet"), stage' = stage,
         stage[t] \in Stage, stageAt[t] \notin {"meet", "lower"},
         \A s \in Stage : past'[s].met = IF s = stage[t] THEN past[s].met \union {t}
                                                         ELSE past[s].met
  PROVE  Abreast'
<1>1. /\ Crew' = Crew /\ t \in Crew /\ t \in Threads
      /\ \A u \in Threads : stageAt'[u] = IF u = t THEN "meet" ELSE stageAt[u]
  BY CrewStays DEF Goes
<1> SUFFICES ASSUME NEW u \in Crew, NEW s \in Stage
             PROVE  /\ Behind(u, s)' => Full(s)'
                    /\ u \in past'[s].met <=> Came(u, s)'
  BY <1>1 DEF Abreast
<1>2. Behind(u, s)' <=> Behind(u, s)
  BY <1>1 DEF Behind, Crew
<1>3. Came(u, s)' <=> Came(u, s) \/ (u = t /\ s = stage[t])
  BY <1>1 DEF Came, Crew
<1>4. Full(s) => Full(s)'
  BY <1>1, FullStays
<1> QED
  BY <1>2, <1>3, <1>4 DEF Abreast

LEMMA AbreastLeaves ==
  ASSUME StagesTypes, Counted, Abreast, NEW t, Goes(t, "lower"), stage' = stage,
         stageAt[t] = "meet", Full(stage[t]), past' = past
  PROVE  Abreast'
<1>1. /\ Crew' = Crew
      /\ \A u \in Threads : stageAt'[u] = IF u = t THEN "lower" ELSE stageAt[u]
  BY CrewStays
<1> SUFFICES ASSUME NEW u \in Crew, NEW s \in Stage
             PROVE  /\ Behind(u, s)' => Full(s)'
                    /\ u \in past'[s].met <=> Came(u, s)'
  BY <1>1 DEF Abreast
<1>2. Behind(u, s)' => Behind(u, s) \/ (u = t /\ s = stage[t])
  BY <1>1 DEF Behind, Crew
<1>3. Came(u, s)' <=> Came(u, s)
  BY <1>1 DEF Came, Crew
<1> QED
  BY <1>2, <1>3 DEF Abreast, Full

LEMMA AbreastLowers ==
  ASSUME StagesTypes, Counted, Abreast, NEW t, Goes(t, "head"), stageAt[t] = "lower",
         \A u \in Threads : stage'[u] = IF u = t THEN stage[t] + 1 ELSE stage[u],
         \A s \in Stage : past'[s].met = past[s].met
  PROVE  Abreast'
<1>1. /\ Crew' = Crew /\ t \in Threads
      /\ \A u \in Threads : stageAt'[u] = IF u = t THEN "head" ELSE stageAt[u]
  BY CrewStays
<1> SUFFICES ASSUME NEW u \in Crew, NEW s \in Stage
             PROVE  /\ Behind(u, s)' => Full(s)'
                    /\ u \in past'[s].met <=> Came(u, s)'
  BY <1>1 DEF Abreast
<1>2. s \in Int /\ stage[u] \in Int
  BY LimitType DEF Stage, StagesTypes, Crew
<1>3. (Behind(u, s)' <=> Behind(u, s)) /\ (Came(u, s)' <=> Came(u, s))
  BY <1>1, <1>2 DEF Behind, Came, Crew
<1> QED
  BY <1>3 DEF Abreast, Full

LEMMA AbreastOut ==
  ASSUME StagesTypes, Abreast, NEW t \in Crew, GoesOut(t)
  PROVE  Abreast'
<1>1. /\ Crew' = Crew \ {t} /\ past' = past
      /\ \A u \in Crew' : stageAt'[u] = stageAt[u] /\ stage'[u] = stage[u]
  BY CrewLess DEF GoesOut
<1> QED
  BY <1>1 DEF Abreast, Behind, Came, Full

-----------------------------------------------------------------------------
(* The flag.                                                               *)

LEMMA ServedType ==
  ASSUME StagesTypes, NEW s \in Stage
  PROVE  /\ Served(s) \subseteq Threads /\ past[s].met \subseteq Served(s)
         /\ Cardinality(Served(s)) \in Nat
         /\ past[s].once \in Nat /\ past[s].late \in Nat
         /\ Done(s) => past[s].once # 0
<1>1. past[s] \in PastState
  BY DEF StagesTypes
<1>2. past[s].met \subseteq Threads /\ past[s].once \in Nat /\ past[s].late \in Nat
  BY <1>1 DEF PastState
<1>3. Served(s) \subseteq Threads /\ past[s].met \subseteq Served(s)
  BY <1>2, CrewFinite DEF Served
<1>4. Cardinality(Served(s)) \in Nat
  BY <1>3, CrewFinite
<1> QED
  BY <1>2, <1>3, <1>4 DEF Done

LEMMA FewerServed ==
  ASSUME StagesTypes, NEW s \in Stage, Served(s)' \subseteq Served(s)
  PROVE  /\ Cardinality(Served(s)) < Limit => Cardinality(Served(s)') < Limit
         /\ Served(s)' # {} => Served(s) # {}
<1>1. PICK A : A = Served(s)
  OBVIOUS
<1>2. PICK B : B = Served(s)'
  OBVIOUS
<1>3. A \subseteq Threads /\ B \subseteq A
  BY <1>1, <1>2, ServedType
<1>4. /\ Cardinality(A) \in Nat /\ Cardinality(B) \in Nat
      /\ Cardinality(B) <= Cardinality(A)
  BY <1>3, CrewFinite, FS_Subset
<1>5. Cardinality(A) < Limit => Cardinality(B) < Limit
  BY <1>4, LimitType
<1> QED
  BY <1>1, <1>2, <1>3, <1>5

LEMMA FullIsDone ==
  ASSUME StagesTypes, Counted, Flagged, NEW s \in Stage, Full(s)
  PROVE  Done(s)
<1>1. PICK M : M = past[s].met
  OBVIOUS
<1>2. PICK A : A = Served(s)
  OBVIOUS
<1>3. M \subseteq A /\ A \subseteq Threads
  BY <1>1, <1>2, ServedType
<1>4. Cardinality(M) <= Cardinality(A) /\ Cardinality(A) \in Nat
  BY <1>3, CrewFinite, FS_Subset
<1>5. Cardinality(M) = Limit
  BY <1>1 DEF Full
<1>6. ~(Cardinality(A) < Limit)
  BY <1>4, <1>5, LimitType
<1> QED
  BY <1>2, <1>6 DEF Flagged

\* What Flagged says of one stage, after a step that leaves its work as it is.
LEMMA StageKept ==
  ASSUME StagesTypes, Flagged, NEW s \in Stage,
         past'[s].once = past[s].once, past'[s].late = past[s].late,
         Full(s) => Full(s)', stages.flag = s => stages'.flag = s \/ Full(s)',
         Served(s)' \subseteq Served(s) \/ Done(s)
  PROVE  /\ Done(s)' \/ past'[s].once = past'[s].late
         /\ Done(s)' => Full(s)' \/ stages'.flag = s
         /\ ~Done(s)' => Cardinality(Served(s)') < Limit
         /\ Served(s)' # {} => past'[s].once # 0
<1>1. Done(s)' <=> Done(s)
  BY DEF Done
<1>2. /\ Done(s) \/ past[s].once = past[s].late
      /\ Done(s) => Full(s) \/ stages.flag = s
      /\ ~Done(s) => Cardinality(Served(s)) < Limit
      /\ Served(s) # {} => past[s].once # 0
  BY DEF Flagged
<1>3. Done(s) => past[s].once # 0
  BY ServedType
<1>4. Served(s)' \subseteq Served(s) =>
        /\ Cardinality(Served(s)) < Limit => Cardinality(Served(s)') < Limit
        /\ Served(s)' # {} => Served(s) # {}
  BY FewerServed
<1> QED
  BY <1>1, <1>2, <1>3, <1>4

LEMMA FlaggedGoes ==
  ASSUME StagesTypes, Flagged, NEW t, NEW p, Goes(t, p), stage' = stage, past' = past,
         stages'.flag = stages.flag,
         p \in Made => stageAt[t] \in Made \/ Done(stage[t])
  PROVE  Flagged'
<1>1. /\ Crew' = Crew /\ t \in Crew
      /\ \A u \in Threads : stageAt'[u] = IF u = t THEN p ELSE stageAt[u]
  BY CrewStays DEF Goes
<1>2. ASSUME stages'.flag # 0
      PROVE  /\ Done(stages.flag)'
             /\ \A u \in Crew' : stage'[u] <= stages'.flag
             /\ \A s \in 1 .. stages'.flag - 1 : Full(s)'
  BY <1>1, <1>2 DEF Flagged, Full, Done
<1>3. ASSUME NEW s \in Stage
      PROVE  /\ Done(s)' \/ past'[s].once = past'[s].late
             /\ Done(s)' => Full(s)' \/ stages'.flag = s
             /\ ~Done(s)' => Cardinality(Served(s)') < Limit
             /\ Served(s)' # {} => past'[s].once # 0
  <2>1. Served(s)' \subseteq Served(s) \/ Done(s)
    BY <1>1 DEF Served, Crew
  <2>2. Full(s) => Full(s)'
    BY DEF Full
  <2> QED
    BY <2>1, <2>2, StageKept
<1> QED
  BY <1>2, <1>3 DEF Flagged

\* The first of a stage puts the flag up.
LEMMA FirstOfStage ==
  ASSUME StagesTypes, Counted, Abreast, Flagged, NEW t \in Crew, stage[t] \in Stage,
         ~Came(t, stage[t])
  PROVE  /\ stages.flag = 0 => /\ past[stage[t]].once = past[stage[t]].late
                               /\ \A s \in Stage : Done(s) => Full(s)
         /\ stages.flag # 0 => stages.flag = stage[t] /\ Done(stage[t])
         /\ ~Full(stage[t])
         /\ \A s \in Stage : s < stage[t] => Full(s)
         /\ \A u \in Crew : stage[u] <= stage[t]
<1>1. PICK s \in Stage : s = stage[t]
  OBVIOUS
<1>2. ~Full(s) /\ \A u \in Crew : stage[u] <= s
  BY <1>1, NotCome
<1>3. \A z \in Stage : z < stage[t] => Full(z)
  BY DEF Abreast, Behind
<1>4. stages.flag \in 0 .. NStages /\ s \in 1 .. NStages
  BY DEF StagesTypes, StagesState, Stage
<1>5. ASSUME stages.flag = 0
      PROVE  past[s].once = past[s].late /\ \A z \in Stage : Done(z) => Full(z)
  <2>1. \A z \in Stage : Done(z) => Full(z)
    BY <1>5 DEF Flagged, Stage
  <2>2. Done(s) \/ past[s].once = past[s].late
    BY DEF Flagged
  <2> QED
    BY <1>2, <2>1, <2>2
<1>6. ASSUME stages.flag # 0
      PROVE  stages.flag = s /\ Done(s)
  <2>1. s <= stages.flag
    BY <1>1, <1>6 DEF Flagged
  <2>2. \A z \in 1 .. stages.flag - 1 : Full(z)
    BY <1>6 DEF Flagged
  <2>3. ~(s < stages.flag)
    BY <1>2, <1>4, <2>2
  <2>4. stages.flag = s
    BY <1>4, <2>1, <2>3
  <2> QED
    BY <1>6, <2>4 DEF Flagged
<1> QED
  BY <1>1, <1>2, <1>3, <1>5, <1>6

LEMMA FlaggedFirst ==
  ASSUME StagesTypes, Counted, Abreast, Flagged, NEW t, NEW p, Goes(t, p), stage' = stage,
         stage[t] \in Stage, ~Came(t, stage[t]), stages.flag = 0, stages'.flag = stage[t],
         \A s \in Stage :
           /\ past'[s].once = IF s = stage[t] THEN past[s].once + 1 ELSE past[s].once
           /\ past'[s].late = past[s].late
           /\ \/ past'[s].met = past[s].met
              \/ s = stage[t] /\ past'[s].met = past[s].met \union {t}
  PROVE  Flagged'
<1>1. /\ Crew' = Crew /\ t \in Crew
      /\ \A u \in Threads : stageAt'[u] = IF u = t THEN p ELSE stageAt[u]
  BY CrewStays DEF Goes
<1>2. PICK z \in Stage : z = stage[t]
  OBVIOUS
<1>3. /\ past[z].once = past[z].late /\ ~Full(z)
      /\ \A s \in Stage : Done(s) => Full(s)
      /\ \A s \in Stage : s < z => Full(s)
      /\ \A u \in Crew : stage[u] <= z
  BY <1>1, <1>2, FirstOfStage
<1>4. \A s \in Stage : s # z => /\ past'[s].once = past[s].once
                                /\ past'[s].late = past[s].late
                                /\ past'[s].met = past[s].met
                                /\ (Full(s)' <=> Full(s))
  BY <1>2 DEF Full
<1>5. Done(z)' /\ past'[z].once # 0 /\ stages'.flag = z
  <2>1. past[z].once \in Nat /\ past'[z].once = past[z].once + 1
    BY <1>2, ServedType
  <2> QED
    BY <1>2, <1>3, <2>1 DEF Done
<1>6. /\ \A u \in Crew' : stage'[u] <= stages'.flag
      /\ \A s \in 1 .. stages'.flag - 1 : Full(s)'
  <2>1. ASSUME NEW s \in 1 .. z - 1 PROVE Full(s)'
    <3>1. s \in Stage /\ s < z /\ s # z
      BY LimitType DEF Stage
    <3> QED
      BY <1>3, <1>4, <3>1
  <2> QED
    BY <1>1, <1>3, <1>5, <2>1
<1>7. ASSUME NEW s \in Stage
      PROVE  /\ Done(s)' \/ past'[s].once = past'[s].late
             /\ Done(s)' => Full(s)' \/ stages'.flag = s
             /\ ~Done(s)' => Cardinality(Served(s)') < Limit
             /\ Served(s)' # {} => past'[s].once # 0
  <2>1. CASE s = z
    BY <1>5, <2>1
  <2>2. CASE s # z
    <3>1. /\ past'[s].once = past[s].once /\ past'[s].late = past[s].late
          /\ past'[s].met = past[s].met /\ (Full(s) => Full(s)')
      BY <1>4, <2>2
    <3>2. Served(s)' \subseteq Served(s)
      BY <1>1, <1>2, <2>2, <3>1 DEF Served, Crew
    <3>3. stages.flag # s
      BY DEF Stage
    <3> QED
      BY <3>1, <3>2, <3>3, StageKept
  <2> QED
    BY <2>1, <2>2
<1> QED
  BY <1>5, <1>6, <1>7 DEF Flagged

LEMMA FlaggedMeets ==
  ASSUME StagesTypes, Counted, Abreast, Flagged, NEW t, Goes(t, "meet"), stage' = stage,
         stage[t] \in Stage, stages'.flag = stages.flag,
         stageAt[t] \in Made \/ Done(stage[t]),
         \A s \in Stage :
           /\ past'[s].once = past[s].once /\ past'[s].late = past[s].late
           /\ past'[s].met = IF s = stage[t] THEN past[s].met \union {t} ELSE past[s].met
  PROVE  Flagged'
<1>1. /\ Crew' = Crew /\ t \in Crew
      /\ \A u \in Threads : stageAt'[u] = IF u = t THEN "meet" ELSE stageAt[u]
  BY CrewStays DEF Goes
<1>2. \A s \in Stage : Full(s) => Full(s)'
  BY <1>1, FullStays
<1>3. ASSUME stages'.flag # 0
      PROVE  /\ Done(stages.flag)'
             /\ \A u \in Crew' : stage'[u] <= stages'.flag
             /\ \A s \in 1 .. stages'.flag - 1 : Full(s)'
  <2>1. stages.flag \in Stage /\ stages.flag # 0
    BY <1>3, LimitType DEF StagesTypes, StagesState, Stage
  <2>2. ASSUME NEW s \in 1 .. stages.flag - 1 PROVE Full(s)'
    <3>1. s \in Stage
      BY <2>1, LimitType DEF Stage
    <3>2. Full(s)
      BY <2>1 DEF Flagged
    <3> QED
      BY <1>2, <3>1, <3>2
  <2>3. Done(stages.flag)'
    BY <2>1 DEF Flagged, Done
  <2> QED
    BY <1>1, <2>1, <2>2, <2>3 DEF Flagged
<1>4. ASSUME NEW s \in Stage
      PROVE  /\ Done(s)' \/ past'[s].once = past'[s].late
             /\ Done(s)' => Full(s)' \/ stages'.flag = s
             /\ ~Done(s)' => Cardinality(Served(s)') < Limit
             /\ Served(s)' # {} => past'[s].once # 0
  <2>1. Served(s)' \subseteq Served(s) \/ Done(s)
    <3>1. CASE s = stage[t]
      <4>1. past'[s].met = past[s].met \union {t}
        BY <3>1
      <4> QED
        BY <1>1, <3>1, <4>1 DEF Served, Made, Crew
    <3>2. CASE s # stage[t]
      <4>1. past'[s].met = past[s].met
        BY <3>2
      <4> QED
        BY <1>1, <3>2, <4>1 DEF Served, Made, Crew
    <3> QED
      BY <3>1, <3>2
  <2>2. /\ past'[s].once = past[s].once /\ past'[s].late = past[s].late
        /\ (Full(s) => Full(s)')
    BY <1>2
  <2> QED
    BY <2>1, <2>2, StageKept
<1> QED
  BY <1>3, <1>4 DEF Flagged

\* A thread that takes the flag of a later stage down has not come to that
\* stage: its work will be done again.
LEMMA FlaggedLowers ==
  ASSUME StagesTypes, Counted, Abreast, Flagged, NEW t, Goes(t, "head"),
         stageAt[t] = "lower", Lowered(t), stages'.flag = 0,
         \A u \in Threads : stage'[u] = IF u = t THEN stage[t] + 1 ELSE stage[u]
  PROVE  Flagged'
<1>1. /\ Crew' = Crew /\ t \in Crew /\ t \in Threads
      /\ \A u \in Threads : stageAt'[u] = IF u = t THEN "head" ELSE stageAt[u]
  BY CrewStays DEF Goes
<1>2. \A s \in Stage : /\ past'[s].once = past[s].once /\ past'[s].met = past[s].met
                       /\ (Full(s)' <=> Full(s))
  BY DEF Lowered, Full
<1>3. \A s \in Stage : Served(s)' \subseteq Served(s)
  BY <1>1, <1>2 DEF Served, Crew, Made
<1>4. ASSUME NEW s \in Stage
      PROVE  /\ Done(s)' \/ past'[s].once = past'[s].late
             /\ Done(s)' => Full(s)' \/ stages'.flag = s
             /\ ~Done(s)' => Cardinality(Served(s)') < Limit
             /\ Served(s)' # {} => past'[s].once # 0
  <2>1. CASE s = stages.flag /\ s # stage[t]
    <3>1. Done(s) /\ past'[s].late = past[s].late + 1
      BY <2>1 DEF Flagged, Lowered, Stage
    <3>2. past'[s].once = past'[s].late /\ ~Done(s)' /\ past'[s].once # 0
      BY <1>2, <3>1, ServedType DEF Done
    <3>3. t \notin Served(s)
      <4>1. stage[t] \in Int /\ s \in Int /\ stage[t] <= s
        BY <1>1, <2>1, LimitType DEF Flagged, StagesTypes, Stage
      <4>2. ~Came(t, s)
        BY <2>1, <4>1 DEF Came
      <4> QED
        BY <1>1, <2>1, <4>2 DEF Served, Abreast
    <3>4. PICK A : A = Served(s)
      OBVIOUS
    <3>5. PICK U : U = Crew \union past[s].met
      OBVIOUS
    <3>6. A \subseteq Threads /\ U \subseteq Threads /\ A \union {t} \subseteq U
      BY <1>1, <3>4, <3>5, CrewFinite, ServedType DEF Served
    <3>7. Cardinality(A \union {t}) = Cardinality(A) + 1 /\ Cardinality(A) \in Nat
      BY <1>1, <3>3, <3>4, <3>6, MemberCounts, CountType
    <3>8. Cardinality(A \union {t}) <= Cardinality(U) /\ Cardinality(U) \in Nat
      BY <3>6, CrewFinite, FS_Subset
    <3>9. Cardinality(U) <= Limit
      BY <3>5 DEF Counted
    <3>10. Cardinality(A) < Limit
      BY <3>7, <3>8, <3>9, LimitType
    <3>11. Cardinality(Served(s)') < Limit
      BY <1>3, <3>4, <3>10, FewerServed
    <3> QED
      BY <3>2, <3>11
  <2>2. CASE ~(s = stages.flag /\ s # stage[t])
    <3>1. past'[s].late = past[s].late
      BY <2>2 DEF Lowered
    <3>2. stages.flag = s => Full(s)'
      BY <1>1, <1>2, <2>2 DEF Abreast, Behind
    <3> QED
      BY <1>2, <1>3, <3>1, <3>2, StageKept
  <2> QED
    BY <2>1, <2>2
<1> QED
  BY <1>4 DEF Flagged

LEMMA FlaggedOut ==
  ASSUME StagesTypes, Flagged, NEW t \in Crew, GoesOut(t)
  PROVE  Flagged'
<1>1. /\ Crew' = Crew \ {t} /\ past' = past /\ stages'.flag = stages.flag
      /\ \A u \in Crew' : stageAt'[u] = stageAt[u] /\ stage'[u] = stage[u]
  BY CrewLess DEF GoesOut, Apart
<1>2. ASSUME stages'.flag # 0
      PROVE  /\ Done(stages.flag)'
             /\ \A u \in Crew' : stage'[u] <= stages'.flag
             /\ \A s \in 1 .. stages'.flag - 1 : Full(s)'
  BY <1>1, <1>2 DEF Flagged, Full, Done
<1>3. ASSUME NEW s \in Stage
      PROVE  /\ Done(s)' \/ past'[s].once = past'[s].late
             /\ Done(s)' => Full(s)' \/ stages'.flag = s
             /\ ~Done(s)' => Cardinality(Served(s)') < Limit
             /\ Served(s)' # {} => past'[s].once # 0
  <2>1. Served(s)' \subseteq Served(s)
    BY <1>1 DEF Served
  <2>2. Full(s) => Full(s)'
    BY <1>1 DEF Full
  <2> QED
    BY <1>1, <2>1, <2>2, StageKept
<1> QED
  BY <1>2, <1>3 DEF Flagged

-----------------------------------------------------------------------------
(* The slots of the processor that is in use.                              *)

LEMMA SlotCounts ==
  /\ IsFiniteSet(Slot) /\ Cardinality(Slot) = Limit
  /\ \A K \in SUBSET Slot : IsFiniteSet(K) /\ Cardinality(K) \in Nat
  /\ \A K \in SUBSET Slot, i \in Task : OfTask(K, i) \in SUBSET K
<1>1. IsFiniteSet(Slot) /\ Cardinality(Slot) = Limit
  BY LimitType, FS_Interval DEF Slot
<1>2. \A K \in SUBSET Slot : IsFiniteSet(K) /\ Cardinality(K) \in Nat
  BY <1>1, FS_Subset, FS_CardinalityType
<1> QED
  BY <1>1, <1>2 DEF OfTask

LEMMA AllGiven ==
  ASSUME NEW K \in SUBSET Slot, Cardinality(K) = Limit
  PROVE  \A i \in Task : Cardinality(OfTask(Slot \ K, i)) = 0
<1>1. K = Slot
  BY SlotCounts, FS_Subset
<1>2. \A i \in Task : OfTask(Slot \ K, i) = {}
  BY <1>1 DEF OfTask
<1> QED
  BY <1>2, LimitType

LEMMA SlotIsGiven ==
  ASSUME NEW K \in SUBSET Slot, NEW i \in Task, Cardinality(OfTask(Slot \ K, i)) > 0
  PROVE  \E L \in SUBSET Slot :
           /\ Cardinality(L) = Cardinality(K) + 1
           /\ \A j \in Task : Cardinality(OfTask(Slot \ L, j)) =
                IF j = i THEN Cardinality(OfTask(Slot \ K, i)) - 1
                         ELSE Cardinality(OfTask(Slot \ K, j))
<1>1. PICK k : k \in OfTask(Slot \ K, i)
  <2>1. OfTask(Slot \ K, i) # {}
    BY LimitType
  <2> QED
    BY <2>1
<1>2. k \in Slot /\ k \notin K /\ k % NTasks = i - 1
  BY <1>1 DEF OfTask
<1>3. PICK L : L = K \union {k}
  OBVIOUS
<1>4. L \in SUBSET Slot /\ Cardinality(L) = Cardinality(K) + 1
  BY <1>2, <1>3, SlotCounts, FS_AddElement
<1>5. OfTask(Slot \ L, i) = OfTask(Slot \ K, i) \ {k}
  BY <1>3 DEF OfTask
<1>6. IsFiniteSet(OfTask(Slot \ K, i))
  <2>1. Slot \ K \in SUBSET Slot
    OBVIOUS
  <2>2. OfTask(Slot \ K, i) \in SUBSET Slot
    BY <2>1, SlotCounts
  <2> QED
    BY <2>2, SlotCounts
<1>7. Cardinality(OfTask(Slot \ L, i)) = Cardinality(OfTask(Slot \ K, i)) - 1
  <2>1. PICK A : A = OfTask(Slot \ K, i)
    OBVIOUS
  <2>2. Cardinality(A \ {k}) = Cardinality(A) - 1
    BY <1>1, <1>6, <2>1, FS_RemoveElement
  <2> QED
    BY <1>5, <2>1, <2>2
<1>8. ASSUME NEW j \in Task, j # i
      PROVE  OfTask(Slot \ L, j) = OfTask(Slot \ K, j)
  <2>1. j \in Int /\ i \in Int
    BY StagesAssumption DEF Task
  <2>2. k % NTasks # j - 1
    BY <1>2, <1>8, <2>1
  <2> QED
    BY <1>3, <2>2 DEF OfTask
<1> QED
  BY <1>4, <1>7, <1>8

\* Only one stage is under way.
LEMMA OneUnderWay ==
  ASSUME StagesTypes, Flagged, NEW s \in Stage, NEW z \in Stage,
         UnderWay(s), UnderWay(z)
  PROVE  s = z
BY DEF Flagged, UnderWay, Done

\* While one is, who has not come to the end of a stage is in that one.
LEMMA AllInIt ==
  ASSUME StagesTypes, Counted, Abreast, Flagged, NEW z \in Stage, UnderWay(z),
         NEW t \in Crew, stage[t] \in Stage, ~Came(t, stage[t])
  PROVE  z = stage[t]
<1>1. Done(z) /\ ~Full(z)
  BY DEF UnderWay, Done
<1>2. stages.flag = z /\ z # 0
  BY <1>1 DEF Flagged, Stage
<1> QED
  BY <1>2, FirstOfStage

LEMMA SharedQuiet ==
  ASSUME StagesTypes, Shared, procs' = procs, stages'.current = stages.current,
         \A z \in Stage :
           /\ past'[z].once = past[z].once
           /\ past'[z].ran = past[z].ran /\ past'[z].met = past[z].met
           /\ past'[z].late = 0 => past[z].late = 0,
         \A u \in Threads :
           /\ stageAt'[u] = "await" <=> stageAt[u] = "await"
           /\ stageAt[u] = "await" => stage'[u] = stage[u] /\ share'[u] = share[u]
           /\ stageAt'[u] = "use" =>
                \/ share'[u].proc = stages.current
                \/ stageAt[u] = "use" /\ stage'[u] = stage[u] /\ share'[u] = share[u]
  PROVE  Shared'
<1>1. \A s \in Stage : Awaiting(s)' = Awaiting(s)
  BY DEF Awaiting
<1>2. \A s \in Stage, i \in Task : AwaitingTask(s, i)' = AwaitingTask(s, i)
  BY <1>1 DEF AwaitingTask, Awaiting
<1>0. \A s \in Stage : /\ Full(s)' <=> Full(s)
                       /\ UnderWay(s)' => UnderWay(s)
  BY DEF Full, UnderWay
<1>3. ASSUME NEW s \in Stage, UnderWay(s)'
      PROVE  /\ stages'.current # 0
             /\ \A t \in Crew' : stage'[t] = s /\ stageAt'[t] \in {"use", "await"} =>
                  share'[t].proc = stages'.current
             /\ \E K \in SUBSET Slot : GivenOut(s, stages.current, K)'
  <2>1. /\ stages.current # 0
        /\ \A t \in Crew : stage[t] = s /\ stageAt[t] \in {"use", "await"} =>
             share[t].proc = stages.current
    BY <1>0, <1>3 DEF Shared
  <2>2. PICK K \in SUBSET Slot : GivenOut(s, stages.current, K)
    BY <1>0, <1>3 DEF Shared
  <2>3. GivenOut(s, stages.current, K)'
    <3>1. past'[s].met = past[s].met /\ past'[s].ran = past[s].ran
      OBVIOUS
    <3> QED
      BY <1>1, <1>2, <2>2, <3>1 DEF GivenOut
  <2>4. ASSUME NEW t \in Crew', stage'[t] = s, stageAt'[t] \in {"use", "await"}
        PROVE  share'[t].proc = stages'.current
    BY <2>1, <2>4 DEF Crew
  <2> QED
    BY <2>1, <2>3, <2>4
<1>4. \A s \in Stage :
        /\ past'[s].once = 0 => \A i \in Task : past'[s].ran[i] = 0
        /\ Full(s)' /\ past'[s].late = 0 => \A i \in Task : past'[s].ran[i] = Cap(i)
  BY <1>0 DEF Shared
<1> QED
  BY <1>3, <1>4 DEF Shared

LEMMA SharedAt ==
  ASSUME StagesTypes, Flagged, Shared, NEW s \in Stage, UnderWay(s),
         past'[s].once = 1,
         \A z \in Stage : z # s => past'[z].once = past[z].once /\ past'[z].met = past[z].met
                                    /\ past'[z].late = past[z].late
                                    /\ \A i \in Task : past'[z].ran[i] = past[z].ran[i],
         stages'.current = stages.current,
         \A t \in Crew' : stage'[t] = s /\ stageAt'[t] \in {"use", "await"} =>
           share'[t].proc = stages.current,
         \E K \in SUBSET Slot : GivenOut(s, stages.current, K)',
         Full(s)' => \A i \in Task : past'[s].ran[i] = Cap(i)
  PROVE  Shared'
<1>1. stages.current # 0
  BY DEF Shared
<1>2. ASSUME NEW z \in Stage
      PROVE  /\ past'[z].once = 0 => \A i \in Task : past'[z].ran[i] = 0
             /\ Full(z)' /\ past'[z].late = 0 => \A i \in Task : past'[z].ran[i] = Cap(i)
  <2>1. CASE z = s
    BY <2>1
  <2>2. CASE z # s
    BY <2>2 DEF Shared, Full
  <2> QED
    BY <2>1, <2>2
<1>3. ASSUME NEW z \in Stage, UnderWay(z)'
      PROVE  /\ stages'.current # 0
             /\ \A t \in Crew' : stage'[t] = z /\ stageAt'[t] \in {"use", "await"} =>
                  share'[t].proc = stages'.current
             /\ \E K \in SUBSET Slot : GivenOut(z, stages.current, K)'
  <2>1. z = s
    <3>1. ASSUME z # s PROVE UnderWay(z)
      BY <1>3, <3>1 DEF UnderWay, Full
    <3> QED
      BY <3>1, OneUnderWay
  <2> QED
    BY <1>1, <2>1
<1> QED
  BY <1>2, <1>3 DEF Shared

\* In a stage whose flag has been taken down nothing is said of the slots.
LEMMA SharedApart ==
  ASSUME StagesTypes, Counted, Abreast, Flagged, Shared,
         NEW t \in Crew, stage[t] \in Stage, ~Came(t, stage[t]),
         past[stage[t]].late # 0, past[stage[t]].once # 0,
         \A z \in Stage :
           /\ past'[z].once = past[z].once /\ past'[z].late = past[z].late
           /\ z # stage[t] => /\ past'[z].met = past[z].met
                              /\ \A i \in Task : past'[z].ran[i] = past[z].ran[i]
  PROVE  Shared'
<1>1. PICK s \in Stage : s = stage[t]
  OBVIOUS
<1>2. ASSUME NEW z \in Stage
      PROVE  /\ past'[z].once = 0 => \A i \in Task : past'[z].ran[i] = 0
             /\ Full(z)' /\ past'[z].late = 0 => \A i \in Task : past'[z].ran[i] = Cap(i)
  <2>1. CASE z = s
    BY <1>1, <2>1
  <2>2. CASE z # s
    BY <1>1, <2>2 DEF Shared, Full
  <2> QED
    BY <2>1, <2>2
<1>3. ASSUME NEW z \in Stage PROVE ~UnderWay(z)'
  <2>1. CASE z = s
    BY <1>1, <2>1 DEF UnderWay
  <2>2. CASE z # s
    <3>1. ~UnderWay(z)
      BY <1>1, <2>2, AllInIt
    <3> QED
      BY <1>1, <2>2, <3>1 DEF UnderWay, Full
  <2> QED
    BY <2>1, <2>2
<1> QED
  BY <1>2, <1>3 DEF Shared

\* The last of a crew meets the others.
LEMMA LastComes ==
  ASSUME StagesTypes, Counted, Abreast, NEW t \in Crew, NEW s \in Stage,
         Cardinality(past[s].met \union {t}) = Limit
  PROVE  \A u \in Awaiting(s) : u = t
<1>1. PICK M : M = past[s].met \union {t}
  OBVIOUS
<1>2. PICK U : U = Crew \union past[s].met
  OBVIOUS
<1>3. M \subseteq U /\ U \subseteq Threads
  BY <1>1, <1>2, CrewFinite DEF StagesTypes, PastState
<1>4. IsFiniteSet(U) /\ Cardinality(U) \in Nat /\ Cardinality(M) \in Nat
  BY <1>3, CrewFinite
<1>5. Cardinality(M) <= Cardinality(U) /\ Cardinality(U) <= Limit /\ Cardinality(M) = Limit
  BY <1>1, <1>2, <1>3, <1>4, FS_Subset DEF Counted
<1>6. M = U
  BY <1>3, <1>4, <1>5, FS_Subset, LimitType
<1>7. ASSUME NEW u \in Awaiting(s) PROVE u = t
  <2>1. u \in Crew /\ stage[u] = s /\ stageAt[u] = "await"
    BY <1>7 DEF Awaiting, Crew
  <2>2. ~Came(u, s)
    <3>1. ~(s < s)
      BY LimitType DEF Stage
    <3> QED
      BY <2>1, <3>1 DEF Came
  <2>3. u \notin past[s].met
    BY <2>1, <2>2 DEF Abreast
  <2> QED
    BY <1>1, <1>2, <1>6, <2>1, <2>3
<1> QED
  BY <1>7

LEMMA SharedMakes ==
  ASSUME StagesTypes, Counted, Abreast, Flagged, Shared,
         NEW t, Goes(t, "read"), stage' = stage, share' = share,
         stage[t] \in Stage, ~Came(t, stage[t]), stages.flag = 0,
         procs' = Append(procs, NewProcessor), stages'.current = Len(procs'),
         \A s \in Stage :
           /\ past'[s].once = IF s = stage[t] THEN past[s].once + 1 ELSE past[s].once
           /\ past'[s].ran = past[s].ran /\ past'[s].met = past[s].met
           /\ past'[s].late = past[s].late
  PROVE  Shared'
<1>1. /\ Crew' = Crew /\ t \in Crew
      /\ \A u \in Threads : stageAt'[u] = IF u = t THEN "read" ELSE stageAt[u]
  BY CrewStays DEF Goes
<1>2. PICK z \in Stage : z = stage[t]
  OBVIOUS
<1>3. /\ past[z].once = past[z].late /\ ~Full(z)
      /\ \A s \in Stage : Done(s) => Full(s)
  BY <1>1, <1>2, FirstOfStage
<1>4. /\ stages'.current \in Nat /\ stages'.current # 0
      /\ procs'[stages'.current] = NewProcessor
  <2>1. procs \in Seq(Processor) /\ NewProcessor \in Processor
    BY EmptyShare DEF StagesTypes
  <2> QED
    BY <2>1, AppendProperties
<1>5. ASSUME NEW s \in Stage
      PROVE  /\ past'[s].once = 0 => \A i \in Task : past'[s].ran[i] = 0
             /\ Full(s)' /\ past'[s].late = 0 => \A i \in Task : past'[s].ran[i] = Cap(i)
  <2>1. CASE s = z
    <3>1. past[z].once \in Nat
      BY ServedType
    <3>2. past'[z].once # 0 /\ past'[z].met = past[z].met
      BY <1>2, <3>1
    <3>3. ~Full(z)'
      BY <1>3, <3>2 DEF Full
    <3> QED
      BY <2>1, <3>2, <3>3
  <2>2. CASE s # z
    BY <1>2, <2>2 DEF Shared, Full
  <2> QED
    BY <2>1, <2>2
<1>6. ASSUME NEW s \in Stage, UnderWay(s)' PROVE s = z
  <2>1. ASSUME s # z PROVE UnderWay(s)
    BY <1>2, <1>6, <2>1 DEF UnderWay, Full
  <2>2. ASSUME UnderWay(s) PROVE FALSE
    BY <1>3, <2>2 DEF UnderWay, Done
  <2> QED
    BY <2>1, <2>2
<1>7. CASE past[z].late # 0
  <2>1. \A s \in Stage : ~UnderWay(s)'
    BY <1>2, <1>6, <1>7 DEF UnderWay
  <2> QED
    BY <1>5, <2>1 DEF Shared
<1>8. CASE past[z].late = 0
  <2>1. Served(z) = {} /\ past[z].once = 0
    BY <1>3, <1>8 DEF Flagged
  <2>2. past[z].met = {}
    BY <2>1 DEF Served
  <2>3. ASSUME NEW u \in Crew, stageAt[u] \in {"use", "await"} PROVE stage[u] # z
    BY <2>1, <2>3 DEF Served, Made
  <2>4. Awaiting(z)' = {}
    BY <1>1, <2>3 DEF Awaiting, Crew
  <2>5. \A i \in Task : past'[z].ran[i] = 0 /\ procs'[stages'.current].left[i] = Cap(i)
    BY <1>4, <2>1, EmptyShare DEF Shared
  <2>6. GivenOut(z, stages.current, {})'
    <3>1. Cardinality({}) = Cardinality(past'[z].met \union Awaiting(z)')
      BY <2>2, <2>4
    <3>2. ASSUME NEW i \in Task
          PROVE  /\ procs'[stages'.current].left[i] = Cardinality(OfTask(Slot \ {}, i))
                 /\ past'[z].ran[i] + Cardinality(AwaitingTask(z, i)') +
                      procs'[stages'.current].left[i] = Cap(i)
      <4>1. Slot \ {} = Slot
        OBVIOUS
      <4>2. AwaitingTask(z, i)' = {}
        BY <2>4 DEF AwaitingTask
      <4> QED
        BY <2>5, <4>1, <4>2, LimitType, CapType
    <3> QED
      BY <3>1, <3>2 DEF GivenOut
  <2>7. ASSUME NEW u \in Crew', stage'[u] = z, stageAt'[u] \in {"use", "await"}
        PROVE  share'[u].proc = stages'.current
    BY <1>1, <2>3, <2>7 DEF Crew
  <2> QED
    BY <1>4, <1>5, <1>6, <2>6, <2>7 DEF Shared
<1> QED
  BY <1>7, <1>8

\* The thread at work has the processor of its stage.
LEMMA AtWork ==
  ASSUME StagesTypes, Counted, Abreast, Flagged, NEW t \in Crew,
         stageAt[t] \in {"use", "await"}
  PROVE  /\ stage[t] \in Stage /\ past[stage[t]].once # 0 /\ ~Came(t, stage[t])
         /\ ~Full(stage[t]) /\ t \notin past[stage[t]].met
         /\ past[stage[t]].late = 0 => UnderWay(stage[t])
<1>1. PICK s \in Stage : s = stage[t]
  BY DEF StagesTypes, Crew
<1>2. past[s].once # 0
  <2>1. t \in Served(s)
    BY <1>1 DEF Served, Made
  <2> QED
    BY <2>1 DEF Flagged
<1>3. ~Came(t, s)
  <2>1. ~(s < s)
    BY LimitType DEF Stage
  <2> QED
    BY <1>1, <2>1 DEF Came
<1>4. ~Full(s) /\ t \notin past[s].met
  BY <1>3, NotCome
<1>5. past[s].late = 0 => UnderWay(s)
  BY <1>2, <1>4 DEF UnderWay, Flagged, Done
<1> QED
  BY <1>1, <1>2, <1>3, <1>4, <1>5

LEMMA AtItsProcessor ==
  ASSUME StagesTypes, Shared, NEW t \in Crew, stageAt[t] \in {"use", "await"},
         stage[t] \in Stage, UnderWay(stage[t])
  PROVE  /\ share[t].proc = stages.current /\ stages.current \in 1 .. Len(procs)
         /\ \E K \in SUBSET Slot : GivenOut(stage[t], stages.current, K)
<1>1. /\ stages.current # 0 /\ share[t].proc = stages.current
      /\ \E K \in SUBSET Slot : GivenOut(stage[t], stages.current, K)
  BY DEF Shared
<1>2. stages.current \in Nat /\ stages.current <= Len(procs) /\ Len(procs) \in Nat
  BY DEF StagesTypes, StagesState
<1> QED
  BY <1>1, <1>2

\* With another slot given to thread t, the slots still count the crew.
LEMMA SharedUses ==
  ASSUME StagesTypes, Counted, Abreast, Flagged, Shared, NEW t \in Threads, UseProcessor(t),
         past[stage[t]].late = 0
  PROVE  Shared'
<1>1. t \in Crew /\ stageAt[t] = "use" /\ UNCHANGED <<stage, stages>>
  BY DEF UseProcessor, At, Crew
<1>2. PICK s \in Stage : s = stage[t]
  BY <1>1, AtWork
<1>0. UnderWay(s)
  BY <1>1, <1>2, AtWork
<1>3. PICK p \in 1 .. Len(procs) : p = stages.current
  BY <1>0, <1>1, <1>2, AtItsProcessor
<1>4. past[s].once = 1 /\ ~Full(s) /\ t \notin past[s].met /\ share[t].proc = p
  BY <1>0, <1>1, <1>2, <1>3, AtWork, AtItsProcessor DEF UnderWay
<1>5. PICK K \in SUBSET Slot : GivenOut(s, p, K)
  BY <1>0, <1>1, <1>2, <1>3, AtItsProcessor
<1>6. PICK i \in Task :
        /\ procs[p].left[i] > 0
        /\ procs' = [procs EXCEPT ![p].left[i] = @ - 1, ![p].blocked = @ + 1]
        /\ IF stages.sync
             THEN /\ Onto(t, "await")
                  /\ share' = [share EXCEPT ![t].task = i]
                  /\ UNCHANGED past
             ELSE RunTask(t, i) /\ Onto(t, "meet") /\ UNCHANGED share
  BY <1>4 DEF UseProcessor
<1>7. \A j \in Task : procs'[p].left[j] =
        IF j = i THEN procs[p].left[i] - 1 ELSE procs[p].left[j]
  <2>1. p \in Nat /\ procs \in Seq(Processor)
    BY DEF StagesTypes
  <2> QED
    BY <1>6, <2>1, SlotTaken
<1>8. PICK L \in SUBSET Slot :
        /\ Cardinality(L) = Cardinality(K) + 1
        /\ \A j \in Task : Cardinality(OfTask(Slot \ L, j)) =
             IF j = i THEN Cardinality(OfTask(Slot \ K, i)) - 1
                      ELSE Cardinality(OfTask(Slot \ K, j))
  <2>1. Cardinality(OfTask(Slot \ K, i)) > 0
    BY <1>5, <1>6 DEF GivenOut
  <2> QED
    BY <2>1, SlotIsGiven
<1>9. \A j \in Task : procs'[p].left[j] = Cardinality(OfTask(Slot \ L, j))
  BY <1>5, <1>7, <1>8 DEF GivenOut
<1>10. /\ Awaiting(s) \subseteq Threads /\ t \notin Awaiting(s) /\ past[s].met \subseteq Threads
       /\ \A j \in Task : AwaitingTask(s, j) \subseteq Threads /\ t \notin AwaitingTask(s, j)
  BY <1>1 DEF Awaiting, AwaitingTask, StagesTypes, PastState
<1>11. Cardinality(past[s].met \union Awaiting(s) \union {t}) = Cardinality(L)
  <2>1. /\ past[s].met \union Awaiting(s) \subseteq Threads
        /\ t \notin past[s].met \union Awaiting(s)
    BY <1>4, <1>10
  <2> QED
    BY <1>5, <1>8, <2>1, MemberCounts DEF GivenOut
<1>12. \A j \in Task :
         /\ past[s].ran[j] \in Nat /\ procs[p].left[j] \in Nat
         /\ Cardinality(AwaitingTask(s, j)) \in Nat
         /\ past[s].ran[j] + Cardinality(AwaitingTask(s, j)) + procs[p].left[j] = Cap(j)
  <2>1. past[s].ran \in [Task -> Nat]
    BY DEF StagesTypes, PastState
  <2>2. procs[p] \in Processor
    BY ElementOfSeq DEF StagesTypes
  <2>3. \A j \in Task : Cardinality(AwaitingTask(s, j)) \in Nat
    BY <1>10, CountType
  <2> QED
    BY <1>5, <2>1, <2>2, <2>3 DEF GivenOut, Processor
<1>13. stages'.current = p
  BY <1>1, <1>3
<1>14. CASE stages.sync
  <2>1. /\ Onto(t, "await") /\ past' = past
        /\ share' = [share EXCEPT ![t].task = i]
    BY <1>6, <1>14
  <2>2. /\ \A u \in Threads : stageAt'[u] = IF u = t THEN "await" ELSE stageAt[u]
        /\ \A u \in Threads : /\ share'[u].proc = share[u].proc
                              /\ share'[u].task = IF u = t THEN i ELSE share[u].task
    <3>1. /\ stageAt \in [Threads -> Station] /\ "await" \in Station
          /\ share \in [Threads -> Share] /\ i \in Nat
      BY StagesAssumption DEF StagesTypes, Station, Task
    <3>2. \A u \in Threads : stageAt'[u] = IF u = t THEN "await" ELSE stageAt[u]
      BY <2>1, <3>1, ThreadGoes DEF Onto
    <3> QED
      BY <2>1, <3>1, <3>2, ShareChanges
  <2>3. Awaiting(s)' = Awaiting(s) \union {t}
    BY <1>1, <1>2, <2>2 DEF Awaiting
  <2>4. \A j \in Task : AwaitingTask(s, j)' =
          IF j = i THEN AwaitingTask(s, j) \union {t} ELSE AwaitingTask(s, j)
    BY <1>1, <1>2, <2>2 DEF Awaiting, AwaitingTask
  <2>5. Cardinality(L) = Cardinality(past'[s].met \union Awaiting(s)')
    <3>1. past'[s].met \union Awaiting(s)' = past[s].met \union Awaiting(s) \union {t}
      BY <2>1, <2>3
    <3> QED
      BY <1>11, <3>1
  <2>6. ASSUME NEW j \in Task
        PROVE  past'[s].ran[j] + Cardinality(AwaitingTask(s, j)') + procs'[p].left[j] = Cap(j)
    <3>1. Cardinality(AwaitingTask(s, j) \union {t}) = Cardinality(AwaitingTask(s, j)) + 1
      BY <1>10, MemberCounts
    <3>2. Cardinality(AwaitingTask(s, j)') =
            IF j = i THEN Cardinality(AwaitingTask(s, j)) + 1
                     ELSE Cardinality(AwaitingTask(s, j))
      BY <2>4, <3>1
    <3>3. past'[s].ran[j] = past[s].ran[j]
      BY <2>1
    <3>4. procs'[p].left[j] = IF j = i THEN procs[p].left[j] - 1 ELSE procs[p].left[j]
      BY <1>7
    <3>5. PICK x \in Nat, y \in Nat, z \in Nat :
            /\ x = past[s].ran[j] /\ y = Cardinality(AwaitingTask(s, j)) /\ z = procs[p].left[j]
            /\ x + y + z = Cap(j)
      BY <1>12
    <3>6. CASE j = i
      <4>1. past'[s].ran[j] = x
        BY <3>3, <3>5, <3>6
      <4>2. Cardinality(AwaitingTask(s, j)') = y + 1
        BY <3>2, <3>5, <3>6
      <4>3. procs'[p].left[j] = z - 1
        BY <3>4, <3>5, <3>6
      <4>4. x + (y + 1) + (z - 1) = x + y + z
        OBVIOUS
      <4>5. x + (y + 1) + (z - 1) = Cap(j)
        BY <3>5, <4>4
      <4> QED
        BY <4>1, <4>2, <4>3, <4>5
    <3>7. CASE j # i
      <4>1. past'[s].ran[j] = x
        BY <3>3, <3>5, <3>7
      <4>2. Cardinality(AwaitingTask(s, j)') = y
        BY <3>2, <3>5, <3>7
      <4>3. procs'[p].left[j] = z
        BY <3>4, <3>5, <3>7
      <4> QED
        BY <3>5, <4>1, <4>2, <4>3
    <3> QED
      BY <3>6, <3>7
  <2>7. GivenOut(s, stages.current, L)'
    BY <1>9, <1>13, <2>5, <2>6 DEF GivenOut
  <2>8. ASSUME NEW u \in Crew', stage'[u] = s, stageAt'[u] \in {"use", "await"}
        PROVE  share'[u].proc = stages.current
    <3>1. CASE u = t
      BY <1>3, <1>4, <2>2, <3>1 DEF Crew
    <3>2. CASE u # t
      <4>1. u \in Crew /\ stage[u] = s /\ stageAt[u] \in {"use", "await"}
        BY <1>1, <2>2, <2>8, <3>2 DEF Crew
      <4>2. share[u].proc = stages.current
        BY <1>0, <4>1 DEF Shared
      <4> QED
        BY <2>2, <4>1, <4>2 DEF Crew
    <3> QED
      BY <3>1, <3>2
  <2>9. Full(s)' => \A j \in Task : past'[s].ran[j] = Cap(j)
    BY <1>4, <2>1 DEF Full
  <2> QED
    BY <1>0, <1>1, <1>4, <2>1, <2>7, <2>8, <2>9, SharedAt
<1>15. CASE ~stages.sync
  <2>1. Onto(t, "meet") /\ RunTask(t, i) /\ share' = share
    BY <1>6, <1>15
  <2>2. \A u \in Threads : stageAt'[u] = IF u = t THEN "meet" ELSE stageAt[u]
    <3>1. stageAt \in [Threads -> Station] /\ "meet" \in Station
      BY DEF StagesTypes, Station
    <3> QED
      BY <2>1, <3>1, ThreadGoes DEF Onto
  <2>3. Ran(t, s, i)
    <3>1. past \in [Stage -> PastState] /\ stage[t] \in Stage
      BY <1>2 DEF StagesTypes
    <3>2. Ran(t, stage[t], i)
      BY <2>1, <3>1, RanGrows
    <3> QED
      BY <1>2, <3>2
  <2>4. Awaiting(s)' = Awaiting(s)
    BY <1>1, <2>2 DEF Awaiting
  <2>5. \A j \in Task : AwaitingTask(s, j)' = AwaitingTask(s, j)
    BY <2>1, <2>4 DEF AwaitingTask
  <2>6. Cardinality(L) = Cardinality(past'[s].met \union Awaiting(s)')
    <3>1. past'[s].met \union Awaiting(s)' = past[s].met \union Awaiting(s) \union {t}
      BY <2>3, <2>4 DEF Ran
    <3> QED
      BY <1>11, <3>1
  <2>7. ASSUME NEW j \in Task
        PROVE  past'[s].ran[j] + Cardinality(AwaitingTask(s, j)') + procs'[p].left[j] = Cap(j)
    <3>1. Cardinality(AwaitingTask(s, j)') = Cardinality(AwaitingTask(s, j))
      BY <2>5
    <3>2. past'[s].ran[j] = IF j = i THEN past[s].ran[j] + 1 ELSE past[s].ran[j]
      BY <2>3 DEF Ran
    <3>3. procs'[p].left[j] = IF j = i THEN procs[p].left[j] - 1 ELSE procs[p].left[j]
      BY <1>7
    <3>5. PICK x \in Nat, y \in Nat, z \in Nat :
            /\ x = past[s].ran[j] /\ y = Cardinality(AwaitingTask(s, j)) /\ z = procs[p].left[j]
            /\ x + y + z = Cap(j)
      BY <1>12
    <3>6. CASE j = i
      <4>1. past'[s].ran[j] = x + 1
        BY <3>2, <3>5, <3>6
      <4>2. Cardinality(AwaitingTask(s, j)') = y
        BY <3>1, <3>5, <3>6
      <4>3. procs'[p].left[j] = z - 1
        BY <3>3, <3>5, <3>6
      <4>4. (x + 1) + y + (z - 1) = x + y + z
        OBVIOUS
      <4>5. (x + 1) + y + (z - 1) = Cap(j)
        BY <3>5, <4>4
      <4> QED
        BY <4>1, <4>2, <4>3, <4>5
    <3>7. CASE j # i
      <4>1. past'[s].ran[j] = x
        BY <3>2, <3>5, <3>7
      <4>2. Cardinality(AwaitingTask(s, j)') = y
        BY <3>1, <3>5, <3>7
      <4>3. procs'[p].left[j] = z
        BY <3>3, <3>5, <3>7
      <4> QED
        BY <3>5, <4>1, <4>2, <4>3
    <3> QED
      BY <3>6, <3>7
  <2>8. GivenOut(s, stages.current, L)'
    BY <1>9, <1>13, <2>6, <2>7 DEF GivenOut
  <2>9. ASSUME NEW u \in Crew', stage'[u] = s, stageAt'[u] \in {"use", "await"}
        PROVE  share'[u].proc = stages.current
    BY <1>0, <1>1, <2>1, <2>2, <2>9 DEF Crew, Shared
  <2>10. ASSUME Full(s)' PROVE \A j \in Task : past'[s].ran[j] = Cap(j)
    <3>1. Cardinality(past[s].met \union {t}) = Limit
      BY <2>3, <2>10 DEF Full, Ran
    <3>2. Awaiting(s) = {}
      BY <1>1, <1>10, <3>1, LastComes
    <3>3. Cardinality(L) = Limit
      <4>1. past[s].met \union Awaiting(s) \union {t} = past[s].met \union {t}
        BY <3>2
      <4> QED
        BY <1>11, <3>1, <4>1
    <3>4. \A j \in Task : procs'[p].left[j] = 0
      BY <1>9, <3>3, AllGiven
    <3>5. \A j \in Task : AwaitingTask(s, j)' = {}
      BY <2>5, <3>2 DEF AwaitingTask
    <3>6. ASSUME NEW j \in Task PROVE past'[s].ran[j] = Cap(j)
      <4>0. past'[s].ran[j] = IF j = i THEN past[s].ran[j] + 1 ELSE past[s].ran[j]
        BY <2>3 DEF Ran
      <4>1. past'[s].ran[j] \in Nat
        BY <1>12, <4>0
      <4>2. past'[s].ran[j] + 0 + 0 = Cap(j)
        BY <2>7, <3>4, <3>5, LimitType
      <4> QED
        BY <4>1, <4>2
    <3> QED
      BY <3>6
  <2> QED
    BY <1>0, <1>1, <1>4, <2>3, <2>8, <2>9, <2>10, SharedAt DEF Ran
<1> QED
  BY <1>14, <1>15

LEMMA SharedTogether ==
  ASSUME StagesTypes, Counted, Abreast, Flagged, Shared, NEW t \in Threads, RunTogether(t),
         past[stage[t]].late = 0
  PROVE  Shared'
<1>1. /\ t \in Crew /\ stageAt[t] = "await" /\ UNCHANGED <<stage, stages, procs>>
      /\ Onto(t, "meet") /\ RunTask(t, share[t].task)
      /\ share' = [share EXCEPT ![t].task = 0]
  BY DEF RunTogether, At, Crew
<1>2. PICK s \in Stage : s = stage[t]
  BY <1>1, AtWork
<1>0. UnderWay(s)
  BY <1>1, <1>2, AtWork
<1>3. PICK p \in 1 .. Len(procs) : p = stages.current
  BY <1>0, <1>1, <1>2, AtItsProcessor
<1>4. past[s].once = 1 /\ ~Full(s) /\ t \notin past[s].met
  BY <1>0, <1>1, <1>2, AtWork DEF UnderWay
<1>5. PICK K \in SUBSET Slot : GivenOut(s, p, K)
  BY <1>0, <1>1, <1>2, <1>3, AtItsProcessor
<1>6. PICK i \in Task : i = share[t].task
  BY <1>1 DEF StagesTypes
<1>7. \A u \in Threads : stageAt'[u] = IF u = t THEN "meet" ELSE stageAt[u]
  <2>1. stageAt \in [Threads -> Station] /\ "meet" \in Station
    BY DEF StagesTypes, Station
  <2> QED
    BY <1>1, <2>1, ThreadGoes DEF Onto
<1>8. \A u \in Threads : /\ share'[u].proc = share[u].proc
                         /\ u # t => share'[u].task = share[u].task
  <2>1. share \in [Threads -> Share]
    BY DEF StagesTypes
  <2> QED
    BY <1>1, <2>1, ShareChanges
<1>9. Ran(t, s, i)
  <2>1. past \in [Stage -> PastState] /\ stage[t] \in Stage /\ RunTask(t, i)
    BY <1>1, <1>2, <1>6 DEF StagesTypes
  <2>2. Ran(t, stage[t], i)
    BY <2>1, RanGrows
  <2> QED
    BY <1>2, <2>2
<1>10. t \in Awaiting(s) /\ Awaiting(s)' = Awaiting(s) \ {t}
  BY <1>1, <1>2, <1>7 DEF Awaiting
<1>11. \A j \in Task : /\ AwaitingTask(s, j)' = AwaitingTask(s, j) \ {t}
                       /\ t \in AwaitingTask(s, j) <=> j = i
  BY <1>6, <1>8, <1>10 DEF AwaitingTask, Awaiting
<1>12. Cardinality(K) = Cardinality(past'[s].met \union Awaiting(s)')
  <2>1. past'[s].met \union Awaiting(s)' = past[s].met \union Awaiting(s)
    BY <1>9, <1>10 DEF Ran
  <2> QED
    BY <1>5, <2>1 DEF GivenOut
<1>13. \A j \in Task :
         /\ past[s].ran[j] \in Nat /\ procs[p].left[j] \in Nat
         /\ AwaitingTask(s, j) \subseteq Threads /\ Cardinality(AwaitingTask(s, j)) \in Nat
         /\ past[s].ran[j] + Cardinality(AwaitingTask(s, j)) + procs[p].left[j] = Cap(j)
  <2>1. past[s].ran \in [Task -> Nat]
    BY DEF StagesTypes, PastState
  <2>2. procs[p] \in Processor
    BY ElementOfSeq DEF StagesTypes
  <2>3. \A j \in Task : AwaitingTask(s, j) \subseteq Threads
    BY DEF AwaitingTask, Awaiting
  <2>4. \A j \in Task : Cardinality(AwaitingTask(s, j)) \in Nat
    BY <2>3, CountType
  <2> QED
    BY <1>5, <2>1, <2>2, <2>3, <2>4 DEF GivenOut, Processor
<1>14. ASSUME NEW j \in Task
       PROVE  past'[s].ran[j] + Cardinality(AwaitingTask(s, j)') + procs'[p].left[j] = Cap(j)
  <2>1. Cardinality(AwaitingTask(s, j)') =
          IF j = i THEN Cardinality(AwaitingTask(s, j)) - 1 ELSE Cardinality(AwaitingTask(s, j))
    BY <1>11, <1>13, MemberCounts
  <2>2. past'[s].ran[j] = IF j = i THEN past[s].ran[j] + 1 ELSE past[s].ran[j]
    BY <1>9 DEF Ran
  <2>3. procs'[p].left[j] = procs[p].left[j]
    BY <1>1
  <2>4. PICK x \in Nat, y \in Nat, z \in Nat :
          /\ x = past[s].ran[j] /\ y = Cardinality(AwaitingTask(s, j)) /\ z = procs[p].left[j]
          /\ x + y + z = Cap(j)
    BY <1>13
  <2>6. CASE j = i
    <3>1. past'[s].ran[j] = x + 1
      BY <2>2, <2>4, <2>6
    <3>2. Cardinality(AwaitingTask(s, j)') = y - 1
      BY <2>1, <2>4, <2>6
    <3>3. procs'[p].left[j] = z
      BY <2>3, <2>4, <2>6
    <3>4. (x + 1) + (y - 1) + z = x + y + z
      OBVIOUS
    <3>5. (x + 1) + (y - 1) + z = Cap(j)
      BY <2>4, <3>4
    <3> QED
      BY <3>1, <3>2, <3>3, <3>5
  <2>7. CASE j # i
    <3>1. past'[s].ran[j] = x
      BY <2>2, <2>4, <2>7
    <3>2. Cardinality(AwaitingTask(s, j)') = y
      BY <2>1, <2>4, <2>7
    <3>3. procs'[p].left[j] = z
      BY <2>3, <2>4, <2>7
    <3> QED
      BY <2>4, <3>1, <3>2, <3>3
  <2> QED
    BY <2>6, <2>7
<1>15. GivenOut(s, stages.current, K)'
  <2>1. \A j \in Task : procs'[p].left[j] = Cardinality(OfTask(Slot \ K, j))
    BY <1>1, <1>5 DEF GivenOut
  <2>2. stages'.current = p
    BY <1>1, <1>3
  <2> QED
    BY <1>12, <1>14, <2>1, <2>2 DEF GivenOut
<1>16. ASSUME NEW u \in Crew', stage'[u] = s, stageAt'[u] \in {"use", "await"}
       PROVE  share'[u].proc = stages.current
  <2>1. u \in Crew /\ stage[u] = s /\ stageAt[u] \in {"use", "await"}
    BY <1>1, <1>7, <1>16 DEF Crew
  <2>2. share[u].proc = stages.current
    BY <1>0, <2>1 DEF Shared
  <2> QED
    BY <1>8, <2>1, <2>2 DEF Crew
<1>17. ASSUME Full(s)' PROVE \A j \in Task : past'[s].ran[j] = Cap(j)
  <2>1. Cardinality(past[s].met \union {t}) = Limit
    BY <1>9, <1>17 DEF Full, Ran
  <2>2. Awaiting(s)' = {}
    BY <1>1, <1>10, <2>1, LastComes
  <2>3. Cardinality(K) = Limit
    BY <1>9, <1>12, <2>1, <2>2 DEF Ran
  <2>4. \A j \in Task : procs'[p].left[j] = 0
    BY <1>1, <1>5, <2>3, AllGiven DEF GivenOut
  <2>5. \A j \in Task : AwaitingTask(s, j)' = {}
    BY <2>2 DEF AwaitingTask
  <2>6. ASSUME NEW j \in Task PROVE past'[s].ran[j] = Cap(j)
    <3>0. past'[s].ran[j] = IF j = i THEN past[s].ran[j] + 1 ELSE past[s].ran[j]
      BY <1>9 DEF Ran
    <3>1. past'[s].ran[j] \in Nat
      BY <1>13, <3>0
    <3>2. past'[s].ran[j] + 0 + 0 = Cap(j)
      BY <1>14, <2>4, <2>5, LimitType
    <3> QED
      BY <3>1, <3>2
  <2> QED
    BY <2>6
<1> QED
  BY <1>0, <1>1, <1>4, <1>9, <1>15, <1>16, <1>17, SharedAt DEF Ran

LEMMA SharedWorks ==
  ASSUME StagesTypes, Counted, Abreast, Flagged, Shared, NEW t \in Threads,
         UseProcessor(t) \/ RunTogether(t)
  PROVE  Shared'
<1>1. t \in Crew /\ stageAt[t] \in {"use", "await"}
  BY DEF UseProcessor, RunTogether, At, Crew
<1>2. CASE past[stage[t]].late = 0
  BY <1>2, SharedUses, SharedTogether
<1>3. CASE past[stage[t]].late # 0
  <2>1. stage[t] \in Stage /\ past[stage[t]].once # 0 /\ ~Came(t, stage[t])
    BY <1>1, AtWork
  <2>2. past' = past \/ \E i \in Task : RunTask(t, i)
    <3>1. CASE UseProcessor(t)
      <4>1. PICK i \in Task :
              IF stages.sync THEN Onto(t, "await") /\ UNCHANGED past
                             ELSE RunTask(t, i) /\ Onto(t, "meet")
        BY <3>1 DEF UseProcessor
      <4>2. UNCHANGED past \/ RunTask(t, i)
        BY <4>1, Zenon
      <4> QED
        BY <4>2
    <3>2. CASE RunTogether(t)
      <4>1. stageAt[t] = "await" /\ RunTask(t, share[t].task)
        BY <3>2, Zenon DEF RunTogether, At
      <4>2. share[t].task \in Task
        BY <4>1 DEF StagesTypes
      <4> QED
        BY <4>1, <4>2
    <3> QED
      BY <3>1, <3>2
  <2>3. past' = past \/ \E i \in Task : Ran(t, stage[t], i)
    BY <2>1, <2>2, RanGrows DEF StagesTypes
  <2>4. \A z \in Stage :
          /\ past'[z].once = past[z].once /\ past'[z].late = past[z].late
          /\ z # stage[t] => /\ past'[z].met = past[z].met
                             /\ \A i \in Task : past'[z].ran[i] = past[z].ran[i]
    BY <2>3 DEF Ran
  <2> QED
    BY <1>1, <1>3, <2>1, <2>4, SharedApart
<1> QED
  BY <1>2, <1>3

-----------------------------------------------------------------------------
(* The steps that change who is inside.                                    *)

LEMMA BeginsAnew ==
  ASSUME StagesTypes', past' = Nothing, stages'.flag = 0,
         stages'.taken = Cardinality(Crew'), Cardinality(Crew') <= Limit,
         \A t \in Crew' : stageAt'[t] = "head" /\ stage'[t] = 1
  PROVE  Together'
<1>1. \A s \in Stage : /\ past'[s].once = 0 /\ past'[s].late = 0 /\ past'[s].met = {}
                       /\ \A i \in Task : past'[s].ran[i] = 0
  BY DEF Nothing, Stage
<1>2. ASSUME NEW s \in Stage
      PROVE  ~Full(s)' /\ ~Done(s)' /\ Served(s)' = {} /\ ~UnderWay(s)'
  <2>1. past'[s].met = {} /\ past'[s].once = 0 /\ past'[s].late = 0
    BY <1>1
  <2>2. \A t \in Crew' : stageAt'[t] \notin Made
    BY DEF Made
  <2> QED
    BY <2>1, <2>2, LimitType DEF Full, Done, Served, UnderWay
<1>3. Counted'
  <2>1. ASSUME NEW s \in Stage
        PROVE  Cardinality(Crew' \union past'[s].met) <= Limit /\ past'[s].met \subseteq Crew'
    <3>1. past'[s].met = {}
      BY <1>1
    <3>2. Crew' \union past'[s].met = Crew'
      BY <3>1
    <3> QED
      BY <3>1, <3>2
  <2> QED
    BY <2>1 DEF Counted
<1>4. Abreast'
  <2> SUFFICES ASSUME NEW t \in Crew', NEW s \in Stage
               PROVE  /\ Behind(t, s)' => Full(s)'
                      /\ t \in past'[s].met <=> Came(t, s)'
    BY DEF Abreast
  <2>1. stageAt'[t] = "head" /\ stage'[t] = 1 /\ ~(s < 1) /\ past'[s].met = {}
    BY <1>1, LimitType DEF Stage
  <2> QED
    BY <2>1 DEF Behind, Came
<1>5. Flagged'
  <2>1. \A s \in Stage : Cardinality(Served(s)') < Limit
    BY <1>2, LimitType
  <2> QED
    BY <1>1, <1>2, <2>1 DEF Flagged
<1>6. Shared'
  BY <1>1, <1>2 DEF Shared
<1> QED
  BY <1>3, <1>4, <1>5, <1>6 DEF Together

LEMMA CrewGathers ==
  ASSUME StagesTypes, Together, Gather, abreast'
  PROVE  Together'
<1>1. stages.taken = Cardinality(Crew) /\ stages.taken <= 0 /\ stages.flag = 0
  BY DEF Together, Counted, Gather
<1>2. Crew = {}
  BY <1>1, CrewFinite, CountType
<1>3. PICK crew \in SUBSET {t \in Threads : stageAt[t] = "out"} :
        /\ Cardinality(crew) = Limit
        /\ stageAt' = [t \in Threads |-> IF t \in crew THEN "head" ELSE stageAt[t]]
  BY DEF Gather
<1>4. Crew' = crew
  BY <1>2, <1>3 DEF Crew
<1>5. \A t \in Crew' : stageAt'[t] = "head" /\ stage'[t] = 1
  BY <1>3, <1>4 DEF StagesTypes, Gather
<1>6. stages'.taken = Cardinality(Crew') /\ Cardinality(Crew') <= Limit
  <2>1. stages.taken = 0
    BY <1>1, <1>2, LimitType
  <2> QED
    BY <1>3, <1>4, <2>1, GatherTypes, LimitType
<1>7. StagesTypes' /\ stages'.flag = 0 /\ past' = Nothing
  BY <1>1, GatherTypes DEF Gather
<1> QED
  BY <1>5, <1>6, <1>7, BeginsAnew

LEMMA ResetEmpties ==
  ASSUME StagesTypes, ResetStages, abreast'
  PROVE  Together'
<1>1. Crew = {} /\ stages.flag = 0 /\ past' = Nothing /\ stageAt' = stageAt
  BY DEF ResetStages, AllOut, Crew
<1>2. Crew' = {}
  BY <1>1 DEF Crew
<1>3. StagesTypes' /\ stages'.flag = 0 /\ stages'.taken = 0
  BY <1>1, ResetTypes DEF Apart
<1>4. stages'.taken = Cardinality(Crew') /\ Cardinality(Crew') <= Limit
  BY <1>2, <1>3, LimitType
<1> QED
  BY <1>1, <1>2, <1>3, <1>4, BeginsAnew

LEMMA SlotClaimed ==
  ASSUME StagesTypes, Together, NEW t \in Threads, TryClaimSlot(t)
  PROVE  Together'
<1>1. /\ ~stages.forks /\ stageAt[t] = "out" /\ ~stages.collapsed /\ stages.taken < Limit
      /\ Onto(t, "head") /\ UNCHANGED <<stage, past>>
  BY DEF TryClaimSlot, At
<1>2. /\ Same(stages', stages) /\ Apart(stages', stages)
      /\ stages'.taken = stages.taken + 1 /\ stages'.collapsed = stages.collapsed
  BY ClaimTypes
<1>3. /\ stages.taken = Cardinality(Crew)
      /\ \A s \in Stage : past[s].met \subseteq Crew
  BY <1>1 DEF Together, Counted
<1>4. \A u \in Threads : stageAt'[u] = IF u = t THEN "head" ELSE stageAt[u]
  <2>1. stageAt \in [Threads -> Station] /\ "head" \in Station
    BY DEF StagesTypes, Station
  <2> QED
    BY <1>1, <2>1, ThreadGoes DEF Onto
<1>5. Crew' = Crew \union {t} /\ t \notin Crew
  BY <1>1, <1>4 DEF Crew
<1>6. Cardinality(Crew') = Cardinality(Crew) + 1 /\ Cardinality(Crew) \in Nat
  BY <1>5, CrewFinite, MemberCounts
<1>7. Counted'
  <2>1. ASSUME NEW s \in Stage
        PROVE  Cardinality(Crew' \union past'[s].met) <= Limit /\ past'[s].met \subseteq Crew'
    <3>1. past'[s].met \subseteq Crew'
      BY <1>1, <1>3, <1>5
    <3>2. Crew' \union past'[s].met = Crew'
      BY <3>1
    <3> QED
      BY <1>1, <1>3, <1>6, <3>1, <3>2, LimitType
  <2> QED
    BY <1>2, <1>3, <1>6, <2>1 DEF Counted
<1>8. stage[t] = 1
  BY <1>1 DEF StagesTypes
<1>9. Abreast'
  <2> SUFFICES ASSUME NEW u \in Crew', NEW s \in Stage
               PROVE  /\ Behind(u, s)' => Full(s)'
                      /\ u \in past'[s].met <=> Came(u, s)'
    BY DEF Abreast
  <2>1. CASE u = t
    <3>1. ~Behind(u, s)' /\ ~Came(u, s)'
      <4>1. ~(s < 1)
        BY LimitType DEF Stage
      <4> QED
        BY <1>1, <1>4, <1>8, <2>1, <4>1 DEF Behind, Came
    <3>2. u \notin past'[s].met
      BY <1>1, <1>3, <1>5, <2>1
    <3> QED
      BY <3>1, <3>2
  <2>2. CASE u # t
    <3>1. u \in Crew /\ (Behind(u, s)' <=> Behind(u, s)) /\ (Came(u, s)' <=> Came(u, s))
      BY <1>1, <1>4, <1>5, <2>2 DEF Behind, Came, Crew
    <3> QED
      BY <1>1, <3>1 DEF Together, Abreast, Full
  <2> QED
    BY <2>1, <2>2
<1>10. Flagged'
  <2>0. stages'.flag = stages.flag /\ stages.flag \in 0 .. NStages /\ Flagged
    BY <1>2 DEF Apart, StagesTypes, StagesState, Together
  <2>1. ASSUME stages'.flag # 0
        PROVE  /\ Done(stages.flag)'
               /\ \A u \in Crew' : stage'[u] <= stages'.flag
               /\ \A s \in 1 .. stages'.flag - 1 : Full(s)'
    <3>1. /\ Done(stages.flag)
          /\ \A u \in Crew : stage[u] <= stages.flag
          /\ \A s \in 1 .. stages.flag - 1 : Full(s)
      BY <2>0, <2>1 DEF Flagged
    <3>2. stage[t] <= stages.flag
      BY <1>8, <2>0, <2>1, LimitType
    <3> QED
      BY <1>1, <1>5, <2>0, <3>1, <3>2 DEF Full, Done
  <2>2. ASSUME NEW s \in Stage
        PROVE  /\ Done(s)' \/ past'[s].once = past'[s].late
               /\ Done(s)' => Full(s)' \/ stages'.flag = s
               /\ ~Done(s)' => Cardinality(Served(s)') < Limit
               /\ Served(s)' # {} => past'[s].once # 0
    <3>1. Served(s)' \subseteq Served(s)
      BY <1>1, <1>4, <1>5 DEF Served, Made, Crew
    <3>2. Full(s) => Full(s)'
      BY <1>1 DEF Full
    <3> QED
      BY <1>1, <2>0, <3>1, <3>2, StageKept
  <2> QED
    BY <2>0, <2>1, <2>2 DEF Flagged
<1>11. ~stages'.forks
  BY <1>1, <1>2 DEF Same
<1> QED
  BY <1>7, <1>9, <1>10, <1>11 DEF Together

LEMMA SharedOut ==
  ASSUME StagesTypes, Shared, NEW t \in Crew, GoesOut(t), stageAt[t] # "await"
  PROVE  Shared'
<1>1. /\ stageAt \in [Threads -> Station] /\ t \in Threads
      /\ stageAt' = Sent(stageAt, t, "out") /\ "out" \in Station
  BY DEF GoesOut, ComeOut, Onto, Crew, StagesTypes, Station
<1>2. \A u \in Threads : stageAt'[u] = IF u = t THEN "out" ELSE stageAt[u]
  BY <1>1, ThreadGoes
<1>3. \A u \in Threads : u # t => stage'[u] = stage[u] /\ share'[u] = share[u]
  BY DEF GoesOut, ComeOut, StagesTypes
<1>4. past' = past /\ procs' = procs /\ stages'.current = stages.current
  BY DEF GoesOut, Apart
<1> QED
  BY <1>2, <1>3, <1>4, SharedQuiet

\* Nothing of this is about the barrier, or about what only ends a round.
LEMMA TogetherStays ==
  ASSUME StagesTypes, Together, UNCHANGED <<stageAt, stage, share, procs, past>>,
         Same(stages', stages), Apart(stages', stages), stages'.taken = stages.taken,
         stages.collapsed => stages'.collapsed
  PROVE  Together'
<1>1. Crew' = Crew
  BY DEF Crew
<1>2. Counted'
  BY <1>1 DEF Together, Counted, Same
<1>3. Abreast'
  BY <1>1 DEF Together, Abreast, Behind, Came, Full
<1>4. Flagged'
  BY <1>1 DEF Together, Flagged, Full, Done, Served, Apart
<1>5. ASSUME stages.forks PROVE Shared'
  BY <1>5, SharedQuiet DEF Together, Apart
<1> QED
  BY <1>2, <1>3, <1>4, <1>5 DEF Together, Same

-----------------------------------------------------------------------------
(* Every step keeps the threads together.                                  *)

LEMMA HeadTogether ==
  ASSUME StagesTypes, Together, ~stagesDisposed, NEW t \in Threads, StageHead(t)
  PROVE  Together'
<1>1. t \in Crew /\ stageAt[t] = "head" /\ (GoesOn(t) \/ GoesOut(t))
  BY HeadTypes DEF StageHead, Crew
<1>2. Counted /\ Abreast /\ Flagged /\ (stages.forks => Shared)
  BY DEF Together
<1>3. CASE GoesOn(t)
  <2>1. PICK p \in {"make", "set"} : p = IF stages.forks THEN "make" ELSE "set"
    OBVIOUS
  <2>2. /\ stageAt' = Sent(stageAt, t, p) /\ UNCHANGED <<stage, share, procs, stages, past>>
    BY <1>3, <2>1 DEF GoesOn, Onto
  <2>3. Goes(t, p)
    BY <1>1, <2>1, <2>2 DEF Goes, Station, Same
  <2>4. Counted'
    BY <1>2, <2>2, <2>3, CountedGoes DEF StagesTypes
  <2>5. Abreast'
    BY <1>1, <1>2, <2>1, <2>2, <2>3, AbreastGoes
  <2>6. Flagged'
    BY <1>2, <2>1, <2>2, <2>3, FlaggedGoes DEF Made
  <2>7. ASSUME stages.forks PROVE Shared'
    <3>1. \A u \in Threads : stageAt'[u] = IF u = t THEN p ELSE stageAt[u]
      BY <2>3, CrewStays
    <3> QED
      BY <1>1, <1>2, <2>1, <2>2, <2>7, <3>1, SharedQuiet
  <2> QED
    BY <2>2, <2>4, <2>5, <2>6, <2>7 DEF Together
<1>4. CASE GoesOut(t)
  <2>1. Counted' /\ Abreast' /\ Flagged'
    BY <1>1, <1>2, <1>4, CountedOut, AbreastOut, FlaggedOut
  <2>2. ASSUME stages.forks PROVE Shared'
    BY <1>1, <1>2, <1>4, <2>2, SharedOut
  <2>3. stages'.forks = stages.forks
    BY <1>4 DEF GoesOut, Same
  <2> QED
    BY <2>1, <2>2, <2>3 DEF Together
<1> QED
  BY <1>1, <1>3, <1>4

LEMMA MakeTogether ==
  ASSUME StagesTypes, Together, NEW t \in Threads, MakeProcessor(t)
  PROVE  Together'
<1>1. /\ t \in Crew /\ stageAt[t] = "make" /\ stages.forks /\ stage[t] \in Stage
      /\ UNCHANGED <<stage, share>> /\ stageAt' = Sent(stageAt, t, "read")
  BY DEF StagesTypes, MakeProcessor, At, Crew, Forking, Onto
<1>2. Counted /\ Abreast /\ Flagged /\ Shared
  BY <1>1 DEF Together
<1>3. /\ Goes(t, "read") /\ stages'.forks = stages.forks
  BY <1>1, MakeTypes DEF Goes, Station, Same
<1>4. ~Came(t, stage[t])
  <2>1. ~(stage[t] < stage[t])
    BY <1>1, LimitType DEF Stage
  <2> QED
    BY <1>1, <2>1 DEF Came
<1>5. CASE stages.flag = 0
  <2>1. /\ procs' = Append(procs, NewProcessor)
        /\ stages' = [stages EXCEPT !.current = Len(procs'), !.flag = stage[t]]
        /\ past' = [past EXCEPT ![stage[t]].once = @ + 1]
    BY <1>5 DEF MakeProcessor, Once
  <2>2. stages'.current = Len(procs') /\ stages'.flag = stage[t]
    BY <1>1, <2>1 DEF StagesTypes, StagesState
  <2>3. /\ past' \in [Stage -> PastState]
        /\ \A z \in Stage :
             /\ past'[z].once = IF z = stage[t] THEN past[z].once + 1 ELSE past[z].once
             /\ past'[z].ran = past[z].ran /\ past'[z].met = past[z].met
             /\ past'[z].late = past[z].late
    BY <1>1, <2>1, OnceGrows DEF StagesTypes
  <2>4. Counted'
    BY <1>2, <1>3, <2>3, CountedGoes
  <2>5. Abreast'
    BY <1>1, <1>2, <1>3, <2>3, AbreastGoes
  <2>6. Flagged'
    BY <1>1, <1>2, <1>3, <1>4, <1>5, <2>2, <2>3, FlaggedFirst
  <2>7. Shared'
    BY <1>1, <1>2, <1>3, <1>4, <1>5, <2>1, <2>2, <2>3, SharedMakes
  <2> QED
    BY <2>4, <2>5, <2>6, <2>7 DEF Together
<1>6. CASE stages.flag # 0
  <2>1. UNCHANGED <<procs, stages, past>>
    BY <1>6 DEF MakeProcessor
  <2>2. Done(stage[t])
    BY <1>1, <1>2, <1>4, <1>6, FirstOfStage
  <2>3. Counted'
    BY <1>2, <1>3, <2>1, CountedGoes DEF StagesTypes
  <2>4. Abreast'
    BY <1>1, <1>2, <1>3, <2>1, AbreastGoes
  <2>5. Flagged'
    BY <1>1, <1>2, <1>3, <2>1, <2>2, FlaggedGoes
  <2>6. Shared'
    <3>1. \A u \in Threads : stageAt'[u] = IF u = t THEN "read" ELSE stageAt[u]
      BY <1>3, CrewStays
    <3> QED
      BY <1>1, <1>2, <2>1, <3>1, SharedQuiet
  <2> QED
    BY <2>3, <2>4, <2>5, <2>6 DEF Together
<1> QED
  BY <1>5, <1>6

LEMMA ReadTogether ==
  ASSUME StagesTypes, Together, NEW t \in Threads, ReadProcessor(t)
  PROVE  Together'
<1>1. /\ t \in Crew /\ stageAt[t] = "read" /\ stages.forks /\ stages.current \in Nat
      /\ share \in [Threads -> Share]
      /\ UNCHANGED <<stage, procs, stages, past>> /\ stageAt' = Sent(stageAt, t, "use")
      /\ share' = [share EXCEPT ![t].proc = stages.current]
  BY DEF StagesTypes, StagesState, ReadProcessor, At, Crew, Forking, Onto
<1>2. Counted /\ Abreast /\ Flagged /\ Shared
  BY <1>1 DEF Together
<1>3. Goes(t, "use")
  BY <1>1 DEF Goes, Station, Same
<1>4. stageAt[t] \in Made
  BY <1>1 DEF Made
<1>5. Counted'
  BY <1>1, <1>2, <1>3, CountedGoes DEF StagesTypes
<1>6. Abreast'
  BY <1>1, <1>2, <1>3, AbreastGoes
<1>7. Flagged'
  BY <1>1, <1>2, <1>3, <1>4, FlaggedGoes
<1>8. Shared'
  <2>1. \A u \in Threads : stageAt'[u] = IF u = t THEN "use" ELSE stageAt[u]
    BY <1>3, CrewStays
  <2>2. share'[t].proc = stages.current
    BY <1>1, ShareChanges
  <2>3. \A u \in Threads : u # t => share'[u] = share[u]
    BY <1>1
  <2> QED
    BY <1>1, <1>2, <2>1, <2>2, <2>3, SharedQuiet
<1> QED
  BY <1>5, <1>6, <1>7, <1>8 DEF Together

\* A thread runs its task, or stores the outcome, and comes to the barrier.
LEMMA RanTogether ==
  ASSUME StagesTypes, Together, NEW t \in Crew, NEW i \in Task, RunTask(t, i),
         Onto(t, "meet"), UNCHANGED <<stage, stages>>,
         stageAt[t] \in {"use", "await"}
  PROVE  Counted' /\ Abreast' /\ Flagged'
<1>1. /\ stage[t] \in Stage /\ t \in Threads /\ past \in [Stage -> PastState]
      /\ stages.forks
  BY DEF StagesTypes, Crew, Forking
<1>2. past' \in [Stage -> PastState] /\ Ran(t, stage[t], i)
  BY <1>1, RanGrows
<1>3. \A z \in Stage :
        /\ past'[z].once = past[z].once /\ past'[z].late = past[z].late
        /\ past'[z].met = IF z = stage[t] THEN past[z].met \union {t} ELSE past[z].met
  BY <1>2 DEF Ran
<1>4. Goes(t, "meet")
  BY DEF Goes, Station, Same, Onto
<1>5. Counted /\ Abreast /\ Flagged
  BY DEF Together
<1>6. stageAt[t] \in Made
  BY DEF Made
<1>7. Counted'
  BY <1>2, <1>3, <1>4, <1>5, CountedGoes
<1>8. Abreast'
  <2>1. \A z \in Stage : past'[z].met = IF z = stage[t] THEN past[z].met \union {t}
                                                     ELSE past[z].met
    BY <1>3
  <2>2. stage' = stage /\ stageAt[t] \notin {"meet", "lower"}
    OBVIOUS
  <2> QED
    BY <1>1, <1>4, <1>5, <2>1, <2>2, AbreastMeets
<1>9. Flagged'
  BY <1>1, <1>3, <1>4, <1>5, <1>6, FlaggedMeets
<1> QED
  BY <1>7, <1>8, <1>9

LEMMA UseTogether ==
  ASSUME StagesTypes, Together, NEW t \in Threads, UseProcessor(t)
  PROVE  Together'
<1>1. /\ t \in Crew /\ stageAt[t] = "use" /\ stages.forks /\ UNCHANGED <<stage, stages>>
  BY DEF StagesTypes, UseProcessor, At, Crew, Forking
<1>2. Counted /\ Abreast /\ Flagged /\ Shared
  BY <1>1 DEF Together
<1>3. Shared'
  BY <1>2, SharedWorks
<1>4. PICK i \in Task :
        IF stages.sync THEN Onto(t, "await") /\ UNCHANGED past
                       ELSE RunTask(t, i) /\ Onto(t, "meet")
  BY DEF UseProcessor
<1>5. CASE stages.sync
  <2>1. Goes(t, "await") /\ past' = past
    BY <1>1, <1>4, <1>5 DEF Goes, Station, Same, Onto
  <2>2. stageAt[t] \in Made
    BY <1>1 DEF Made
  <2>3. Counted'
    BY <1>2, <2>1, CountedGoes DEF StagesTypes
  <2>4. Abreast'
    BY <1>1, <1>2, <2>1, AbreastGoes
  <2>5. Flagged'
    BY <1>1, <1>2, <2>1, <2>2, FlaggedGoes
  <2> QED
    BY <1>3, <2>3, <2>4, <2>5 DEF Together
<1>6. CASE ~stages.sync
  <2>1. RunTask(t, i) /\ Onto(t, "meet")
    BY <1>4, <1>6
  <2>2. Counted' /\ Abreast' /\ Flagged'
    BY <1>1, <2>1, RanTogether
  <2> QED
    BY <1>3, <2>2 DEF Together
<1> QED
  BY <1>5, <1>6

LEMMA RunsTogether ==
  ASSUME StagesTypes, Together, NEW t \in Threads, RunTogether(t)
  PROVE  Together'
<1>1. /\ t \in Crew /\ stageAt[t] = "await" /\ stages.forks /\ share[t].task \in Task
      /\ UNCHANGED <<stage, stages>> /\ RunTask(t, share[t].task) /\ Onto(t, "meet")
  BY DEF StagesTypes, RunTogether, At, Crew, Forking
<1>2. Counted /\ Abreast /\ Flagged /\ Shared
  BY <1>1 DEF Together
<1>3. Shared'
  BY <1>2, SharedWorks
<1>4. Counted' /\ Abreast' /\ Flagged'
  BY <1>1, RanTogether
<1> QED
  BY <1>3, <1>4 DEF Together

LEMMA SetTogether ==
  ASSUME StagesTypes, Together, NEW t \in Threads, SetOutcome(t)
  PROVE  Together'
<1>1. /\ t \in Crew /\ stageAt[t] = "set" /\ ~stages.forks /\ stage[t] \in Stage
      /\ stage' = stage /\ Onto(t, "meet")
  BY DEF StagesTypes, SetOutcome, At, Crew
<1>2. Counted /\ Abreast /\ Flagged
  BY DEF Together
<1>3. /\ Goes(t, "meet") /\ stages'.forks = stages.forks
      /\ stages'.flag = IF stages.flag = 0 THEN stage[t] ELSE stages.flag
  BY <1>1, SetTypes DEF Goes, Station, Same, Onto
<1>4. ~Came(t, stage[t])
  <2>1. ~(stage[t] < stage[t])
    BY <1>1, LimitType DEF Stage
  <2> QED
    BY <1>1, <2>1 DEF Came
<1>5. /\ past' \in [Stage -> PastState]
      /\ \A z \in Stage :
           /\ past'[z].once = IF z = stage[t] /\ stages.flag = 0
                                THEN past[z].once + 1 ELSE past[z].once
           /\ past'[z].late = past[z].late
           /\ past'[z].met = IF z = stage[t] THEN past[z].met \union {t} ELSE past[z].met
  BY <1>1, OutcomeMeets DEF StagesTypes
<1>6. Counted'
  BY <1>2, <1>3, <1>5, CountedGoes
<1>7. Abreast'
  <2>1. \A z \in Stage : past'[z].met = IF z = stage[t] THEN past[z].met \union {t}
                                                     ELSE past[z].met
    BY <1>5
  <2>2. stageAt[t] \notin {"meet", "lower"}
    BY <1>1
  <2> QED
    BY <1>1, <1>2, <1>3, <2>1, <2>2, AbreastMeets
<1>8. Flagged'
  <2>1. CASE stages.flag = 0
    <3>1. stages'.flag = stage[t]
      BY <1>3, <2>1
    <3>2. \A z \in Stage :
            /\ past'[z].once = IF z = stage[t] THEN past[z].once + 1 ELSE past[z].once
            /\ past'[z].late = past[z].late
            /\ \/ past'[z].met = past[z].met
               \/ z = stage[t] /\ past'[z].met = past[z].met \union {t}
      BY <1>5, <2>1
    <3> QED
      BY <1>1, <1>2, <1>3, <1>4, <2>1, <3>1, <3>2, FlaggedFirst
  <2>2. CASE stages.flag # 0
    <3>1. stages'.flag = stages.flag /\ Done(stage[t])
      BY <1>1, <1>2, <1>3, <1>4, <2>2, FirstOfStage
    <3>2. \A z \in Stage :
            /\ past'[z].once = past[z].once /\ past'[z].late = past[z].late
            /\ past'[z].met = IF z = stage[t] THEN past[z].met \union {t} ELSE past[z].met
      BY <1>5, <2>2
    <3>3. Counted /\ Abreast /\ Flagged /\ Goes(t, "meet") /\ stage' = stage /\ stage[t] \in Stage
      BY <1>1, <1>2, <1>3
    <3> QED
      BY <3>1, <3>2, <3>3, FlaggedMeets, Zenon
  <2> QED
    BY <2>1, <2>2
<1> QED
  BY <1>1, <1>3, <1>6, <1>7, <1>8 DEF Together

LEMMA MeetTogether ==
  ASSUME StagesTypes, Together, NEW t \in Threads, MeetOthers(t), abreast'
  PROVE  Together'
<1>1. /\ stageAt[t] = "meet" /\ stage[t] \in Stage
      /\ UNCHANGED <<stage, share, procs, stages, past>>
      /\ UNCHANGED stageAt \/ (Onto(t, "lower") /\ Full(stage[t]))
  BY MeetTypes
<1>2. Counted /\ Abreast /\ Flagged /\ (stages.forks => Shared)
  BY DEF Together
<1>3. CASE UNCHANGED stageAt
  <2>1. UNCHANGED <<stageAt, stage, share, procs, stages, past>>
    BY <1>1, <1>3
  <2> QED
    BY <2>1, TogetherStays DEF Same, Apart
<1>4. CASE Onto(t, "lower") /\ Full(stage[t])
  <2>1. Goes(t, "lower")
    BY <1>1, <1>4 DEF Goes, Station, Same, Onto, Crew
  <2>2. Counted'
    BY <1>1, <1>2, <2>1, CountedGoes DEF StagesTypes
  <2>3. Abreast'
    BY <1>1, <1>2, <1>4, <2>1, AbreastLeaves
  <2>4. Flagged'
    BY <1>1, <1>2, <2>1, FlaggedGoes DEF Made
  <2>5. ASSUME stages.forks PROVE Shared'
    <3>1. \A u \in Threads : stageAt'[u] = IF u = t THEN "lower" ELSE stageAt[u]
      BY <2>1, CrewStays
    <3> QED
      BY <1>1, <1>2, <2>5, <3>1, SharedQuiet
  <2> QED
    BY <1>1, <2>2, <2>3, <2>4, <2>5 DEF Together
<1> QED
  BY <1>1, <1>3, <1>4

LEMMA LowerTogether ==
  ASSUME StagesTypes, Together, NEW t \in Threads, LowerFlag(t)
  PROVE  Together'
<1>1. /\ stageAt[t] = "lower" /\ Onto(t, "head") /\ UNCHANGED <<share, procs>> /\ Lowered(t)
      /\ \A u \in Threads : stage'[u] = IF u = t THEN stage[t] + 1 ELSE stage[u]
      /\ stages'.flag = 0 /\ stages'.current = stages.current
  BY LowerTypes
<1>2. Counted /\ Abreast /\ Flagged /\ (stages.forks => Shared)
  BY DEF Together
<1>3. Goes(t, "head") /\ stages'.forks = stages.forks
  BY <1>1, LowerTypes DEF Goes, Station, Same, Onto, Crew
<1>4. \A s \in Stage :
        /\ past'[s].once = past[s].once
        /\ past'[s].ran = past[s].ran /\ past'[s].met = past[s].met
        /\ past'[s].late = 0 => past[s].late = 0
  <2>1. ASSUME NEW s \in Stage PROVE past'[s].late = 0 => past[s].late = 0
    <3>1. past[s].late \in Nat
      BY ServedType
    <3>2. past'[s].late \in {past[s].late, past[s].late + 1}
      BY <1>1 DEF Lowered
    <3> QED
      BY <3>1, <3>2
  <2> QED
    BY <1>1, <2>1 DEF Lowered
<1>5. past' \in [Stage -> PastState]
  BY LowerTypes DEF StagesTypes
<1>6. Counted'
  BY <1>2, <1>3, <1>4, <1>5, CountedGoes
<1>7. Abreast'
  BY <1>1, <1>2, <1>3, <1>4, AbreastLowers
<1>8. Flagged'
  BY <1>1, <1>2, <1>3, FlaggedLowers
<1>9. ASSUME stages.forks PROVE Shared'
  <2>1. \A u \in Threads : stageAt'[u] = IF u = t THEN "head" ELSE stageAt[u]
    BY <1>3, CrewStays
  <2> QED
    BY <1>1, <1>2, <1>4, <1>9, <2>1, SharedQuiet
<1> QED
  BY <1>3, <1>6, <1>7, <1>8, <1>9 DEF Together

LEMMA StagesTypesStep == StagesTypes /\ [StagesNext]_stagesVars => StagesTypes'
<1> SUFFICES ASSUME StagesTypes, [StagesNext]_stagesVars PROVE StagesTypes'
  OBVIOUS
<1>1. CASE Gather
  BY <1>1, GatherTypes
<1>2. CASE OverrideStages
  BY <1>2, OverrideTypes
<1>3. CASE ResetStages
  BY <1>3, ResetTypes
<1>4. CASE DisposeStages
  BY <1>4, DisposeTypes
<1>5. ASSUME NEW t \in Threads, TryClaimSlot(t) PROVE StagesTypes'
  BY <1>5, ClaimTypes
<1>6. ASSUME NEW t \in Threads, StageHead(t) PROVE StagesTypes'
  BY <1>6, HeadTypes
<1>7. ASSUME NEW t \in Threads, MakeProcessor(t) PROVE StagesTypes'
  BY <1>7, MakeTypes
<1>8. ASSUME NEW t \in Threads, ReadProcessor(t) PROVE StagesTypes'
  BY <1>8, ReadTypes
<1>9. ASSUME NEW t \in Threads, UseProcessor(t) PROVE StagesTypes'
  BY <1>9, UseTypes
<1>10. ASSUME NEW t \in Threads, RunTogether(t) PROVE StagesTypes'
  BY <1>10, RunTypes
<1>11. ASSUME NEW t \in Threads, NoTaskLeft(t) PROVE StagesTypes'
  BY <1>11, OutOfTasksTypes
<1>12. ASSUME NEW t \in Threads, SetOutcome(t) PROVE StagesTypes'
  BY <1>12, SetTypes
<1>13. ASSUME NEW t \in Threads, MeetOthers(t) PROVE StagesTypes'
  BY <1>13, MeetTypes
<1>14. ASSUME NEW t \in Threads, LowerFlag(t) PROVE StagesTypes'
  BY <1>14, LowerTypes
<1>15. ASSUME NEW t \in Threads, StageFails(t) PROVE StagesTypes'
  BY <1>15, FailTypes
<1>16. CASE UNCHANGED stagesVars
  BY <1>16 DEF stagesVars, StagesTypes
<1> QED
  BY <1>1, <1>2, <1>3, <1>4, <1>5, <1>6, <1>7, <1>8, <1>9, <1>10, <1>11, <1>12, <1>13,
     <1>14, <1>15, <1>16, Zenon DEF StagesNext

LEMMA TogetherStep ==
  ASSUME StagesInv, [StagesNext]_stagesVars, abreast', ~stagesDisposed'
  PROVE  Together'
<1>1. StagesTypes
  BY DEF StagesInv
<1>2. CASE ResetStages
  BY <1>1, <1>2, ResetEmpties
<1>3. CASE ~ResetStages
  <2>1. abreast /\ ~stagesDisposed
    <3>1. ASSUME NEW t \in Threads, MeetOthers(t) PROVE abreast /\ ~stagesDisposed
      BY <1>1, <3>1, MeetTypes
    <3>2. Gather \/ OverrideStages => (abreast' => abreast) /\ stagesDisposed' = stagesDisposed
      BY Zenon DEF Gather, OverrideStages
    <3>3. ~DisposeStages
      BY DEF DisposeStages
    <3>4. ASSUME NEW t \in Threads
          PROVE  LowerFlag(t) => UNCHANGED <<abreast, stagesDisposed>>
      BY Zenon DEF LowerFlag
    <3>5. ASSUME NEW t \in Threads
          PROVE  /\ TryClaimSlot(t) => UNCHANGED <<abreast, stagesDisposed>>
                 /\ StageHead(t) => UNCHANGED <<abreast, stagesDisposed>>
                 /\ MakeProcessor(t) => UNCHANGED <<abreast, stagesDisposed>>
                 /\ ReadProcessor(t) => UNCHANGED <<abreast, stagesDisposed>>
                 /\ UseProcessor(t) => UNCHANGED <<abreast, stagesDisposed>>
                 /\ RunTogether(t) => UNCHANGED <<abreast, stagesDisposed>>
                 /\ NoTaskLeft(t) => UNCHANGED <<abreast, stagesDisposed>>
                 /\ SetOutcome(t) => UNCHANGED <<abreast, stagesDisposed>>
                 /\ StageFails(t) => UNCHANGED <<abreast, stagesDisposed>>
      <4>1. TryClaimSlot(t) => UNCHANGED <<abreast, stagesDisposed>>
        BY Zenon DEF TryClaimSlot
      <4>2. StageHead(t) => UNCHANGED <<abreast, stagesDisposed>>
        BY Zenon DEF StageHead
      <4>3. MakeProcessor(t) => UNCHANGED <<abreast, stagesDisposed>>
        BY Zenon DEF MakeProcessor
      <4>4. ReadProcessor(t) => UNCHANGED <<abreast, stagesDisposed>>
        BY Zenon DEF ReadProcessor
      <4>5. UseProcessor(t) => UNCHANGED <<abreast, stagesDisposed>>
        BY Zenon DEF UseProcessor
      <4>6. RunTogether(t) => UNCHANGED <<abreast, stagesDisposed>>
        BY Zenon DEF RunTogether
      <4>7. NoTaskLeft(t) => UNCHANGED <<abreast, stagesDisposed>>
        BY Zenon DEF NoTaskLeft
      <4>8. SetOutcome(t) => UNCHANGED <<abreast, stagesDisposed>>
        BY Zenon DEF SetOutcome
      <4>9. StageFails(t) => UNCHANGED <<abreast, stagesDisposed>>
        BY Zenon DEF StageFails
      <4> QED
        BY <4>1, <4>2, <4>3, <4>4, <4>5, <4>6, <4>7, <4>8, <4>9
    <3>6. UNCHANGED stagesVars => UNCHANGED <<abreast, stagesDisposed>>
      BY Zenon DEF stagesVars
    <3>7. ASSUME NEW t \in Threads,
                 \/ TryClaimSlot(t) \/ StageHead(t) \/ MakeProcessor(t) \/ ReadProcessor(t)
                 \/ UseProcessor(t) \/ RunTogether(t) \/ NoTaskLeft(t) \/ SetOutcome(t)
                 \/ StageFails(t)
          PROVE  abreast /\ ~stagesDisposed
      BY <3>5, <3>7
    <3>8. ASSUME NEW t \in Threads, LowerFlag(t) PROVE abreast /\ ~stagesDisposed
      BY <3>4, <3>8
    <3>9. Gather \/ OverrideStages \/ UNCHANGED stagesVars => abreast /\ ~stagesDisposed
      BY <3>2, <3>6
    <3> QED
      BY <1>3, <3>1, <3>3, <3>7, <3>8, <3>9, Zenon DEF StagesNext
  <2>2. Together
    BY <2>1 DEF StagesInv
  <2>3. CASE Gather
    BY <1>1, <2>2, <2>3, CrewGathers
  <2>4. CASE OverrideStages
    <3>1. UNCHANGED <<stageAt, stage, share, procs, past>>
      BY <2>4 DEF OverrideStages
    <3> QED
      BY <1>1, <2>2, <2>4, <3>1, OverrideTypes, TogetherStays
  <2>5. ASSUME NEW t \in Threads, TryClaimSlot(t) PROVE Together'
    BY <1>1, <2>2, <2>5, SlotClaimed
  <2>6. ASSUME NEW t \in Threads, StageHead(t) PROVE Together'
    BY <1>1, <2>1, <2>2, <2>6, HeadTogether
  <2>7. ASSUME NEW t \in Threads, MakeProcessor(t) PROVE Together'
    BY <1>1, <2>2, <2>7, MakeTogether
  <2>8. ASSUME NEW t \in Threads, ReadProcessor(t) PROVE Together'
    BY <1>1, <2>2, <2>8, ReadTogether
  <2>9. ASSUME NEW t \in Threads, UseProcessor(t) PROVE Together'
    BY <1>1, <2>2, <2>9, UseTogether
  <2>10. ASSUME NEW t \in Threads, RunTogether(t) PROVE Together'
    BY <1>1, <2>2, <2>10, RunsTogether
  <2>11. ASSUME NEW t \in Threads, NoTaskLeft(t) PROVE Together'
    <3>1. t \in Crew /\ GoesOut(t) /\ stages.forks /\ stageAt[t] = "use"
      BY <1>1, <2>11, OutOfTasksTypes DEF Crew
    <3>2. Counted /\ Abreast /\ Flagged /\ Shared
      BY <2>2, <3>1 DEF Together
    <3>3. Counted' /\ Abreast' /\ Flagged' /\ Shared'
      BY <1>1, <2>1, <3>1, <3>2, CountedOut, AbreastOut, FlaggedOut, SharedOut
    <3> QED
      BY <3>3 DEF Together
  <2>12. ASSUME NEW t \in Threads, SetOutcome(t) PROVE Together'
    BY <1>1, <2>2, <2>12, SetTogether
  <2>13. ASSUME NEW t \in Threads, MeetOthers(t) PROVE Together'
    BY <1>1, <2>2, <2>13, MeetTogether
  <2>14. ASSUME NEW t \in Threads, LowerFlag(t) PROVE Together'
    BY <1>1, <2>2, <2>14, LowerTogether
  <2>15. ASSUME NEW t \in Threads PROVE ~StageFails(t)
    BY <2>1 DEF StageFails
  <2>16. ~DisposeStages
    BY DEF DisposeStages
  <2>17. CASE UNCHANGED stagesVars
    <3>1. UNCHANGED <<stageAt, stage, share, procs, past, stages>>
      BY <2>17 DEF stagesVars
    <3> QED
      BY <1>1, <2>2, <3>1, TogetherStays DEF Same, Apart
  <2> QED
    BY <1>3, <2>3, <2>4, <2>5, <2>6, <2>7, <2>8, <2>9, <2>10, <2>11, <2>12, <2>13, <2>14,
       <2>15, <2>16, <2>17, Zenon DEF StagesNext
<1> QED
  BY <1>2, <1>3

LEMMA StagesInvariant == StagesSpec => []StagesInv
<1>1. StagesInit => StagesInv
  BY StagesInitTypes
<1>2. StagesInv /\ [StagesNext]_stagesVars => StagesInv'
  BY StagesTypesStep, TogetherStep DEF StagesInv
<1> QED
  BY <1>1, <1>2, PTL DEF StagesSpec

(* Who goes on to the next group of a MultiConductor, or to the next       *)
(* function of a BypassConductor, leaves a stage behind whose processor or *)
(* outcome was made by the thread that came first, and once more for each  *)
(* slow thread that took the stage's flag down on its way out of the one   *)
(* before; if none did, each task of the stage has run on as many threads  *)
(* as it has slots.  For any number of threads, stages and tasks, while    *)
(* nobody laps a barrier and rounds begin with nothing left over.          *)
THEOREM WorkOncePerStage == StagesSpec => []OncePerStage
<1>1. StagesInv => OncePerStage
  <2> SUFFICES ASSUME StagesInv, abreast, ~stagesDisposed,
                      NEW t \in Threads, NEW s \in 1 .. stage[t] - 1, stageAt[t] # "out"
               PROVE  /\ past[s].once = past[s].late + 1
                      /\ stages.forks /\ past[s].late = 0 =>
                           \A i \in Task : past[s].ran[i] = Cap(i)
    BY DEF OncePerStage
  <2>1. StagesTypes /\ Together
    BY DEF StagesInv
  <2>2. stage[t] \in 1 .. NStages + 1 /\ t \in Crew
    BY <2>1 DEF StagesTypes, Crew
  <2>3. s \in Stage /\ s < stage[t]
    BY <2>2, LimitType DEF Stage
  <2>4. Full(s)
    BY <2>1, <2>2, <2>3 DEF Together, Abreast, Behind
  <2>5. Done(s)
    BY <2>1, <2>3, <2>4, FullIsDone DEF Together
  <2>6. stages.forks /\ past[s].late = 0 => \A i \in Task : past[s].ran[i] = Cap(i)
    BY <2>1, <2>3, <2>4 DEF Together, Shared
  <2> QED
    BY <2>5, <2>6 DEF Done
<1> QED
  BY <1>1, StagesInvariant, PTL

===============================================================================
