--------------------------- MODULE DynaphoreProofs ---------------------------
(***************************************************************************)
(* Theorems about Dynaphore for every set of threads and every bound.      *)
(***************************************************************************)
EXTENDS Dynaphore, FiniteSetTheorems, TLAPS

LEMMA CountType ==
  ASSUME NEW S, S \subseteq Threads
  PROVE  IsFiniteSet(S) /\ Cardinality(S) \in Nat
BY FS_Subset, FS_CardinalityType, WaitingAssumption

-----------------------------------------------------------------------------
(* What a step does to the places of the threads.                          *)

LEMMA GotoType ==
  ASSUME permitAt \in [Threads -> PermitPlace], NEW t \in Threads, NEW p \in PermitPlace,
         PermitGoto(t, p)
  PROVE  permitAt' \in [Threads -> PermitPlace]
BY DEF PermitGoto

LEMMA AwakenedType ==
  ASSUME permitAt \in [Threads -> PermitPlace], NEW W \in SUBSET Queued
  PROVE  Told(W) \in [Threads -> PermitPlace]
BY DEF Told, PermitPlace

\* Every notification takes a thread out of the queue, as long as there is
\* one: if anybody is parked afterwards, all n have found somebody.
LEMMA NotifyCounts ==
  ASSUME permitAt \in [Threads -> PermitPlace], NEW t \in Threads,
         permitAt[t] = "lock", NEW n \in Nat, NotifyThenGoto(n, t, "out")
  PROVE  /\ permitAt' \in [Threads -> PermitPlace]
         /\ Blocked' # {} =>
              Blocked # {} /\ Cardinality(Underway') = Cardinality(Underway) + n
<1>1. PICK W \in SUBSET Queued :
        /\ Cardinality(W) = IF n <= Cardinality(Queued) THEN n ELSE Cardinality(Queued)
        /\ permitAt' = [Told(W) EXCEPT ![t] = "out"]
  BY DEF NotifyThenGoto, Notified
<1>2. permitAt' \in [Threads -> PermitPlace]
  BY <1>1, AwakenedType DEF PermitPlace
<1>3. t \notin Queued /\ t \notin Underway /\ Queued \subseteq Threads /\ Underway \subseteq Threads
  BY DEF Queued, Underway
<1>4. \A u \in Threads :
        permitAt'[u] = IF u = t THEN "out"
                 ELSE IF u \notin W THEN permitAt[u]
                 ELSE IF permitAt[u] = "wait" THEN "woken" ELSE "called"
  BY <1>1, <1>3 DEF Told
<1>5. Underway' = Underway \union W
  BY <1>3, <1>4 DEF Underway, Queued
<1>6. Blocked' = Blocked \ W
  BY <1>3, <1>4 DEF Blocked, Queued
<1>7. Underway \intersect W = {}
  BY DEF Underway, Queued
<1>8. Cardinality(Underway') = Cardinality(Underway) + Cardinality(W)
  <2>1. IsFiniteSet(Underway) /\ IsFiniteSet(W)
    BY <1>3, CountType
  <2>2. /\ Cardinality(Underway) \in Nat /\ Cardinality(W) \in Nat
        /\ Cardinality(Underway \intersect W) = 0
    BY <1>3, <1>7, CountType, FS_EmptySet
  <2>3. Cardinality(Underway \union W)
          = Cardinality(Underway) + Cardinality(W) - Cardinality(Underway \intersect W)
    BY <2>1, FS_Union
  <2> QED
    BY <1>5, <2>2, <2>3
<1>9. ASSUME Blocked' # {}
      PROVE  Cardinality(W) = n
  <2>1. SUFFICES ASSUME Cardinality(W) = Cardinality(Queued)
                 PROVE  FALSE
    BY <1>1
  <2>2. W = Queued
    BY <1>3, <2>1, CountType, FS_Subset
  <2> QED
    BY <1>6, <1>9, <2>2 DEF Blocked, Queued
<1> QED
  BY <1>2, <1>6, <1>8, <1>9

LEMMA PlacesStep ==
  ASSUME PermitsTypeOK, NEW t \in Threads, Step(t)
  PROVE  /\ permitAt' \in [Threads -> PermitPlace]
         /\ permitsDisposed' \in BOOLEAN /\ gone' \in BOOLEAN
<1> USE DEF PermitsTypeOK
<1>1. ASSUME NEW p \in PermitPlace, PermitGoto(t, p)
      PROVE  permitAt' \in [Threads -> PermitPlace]
  BY <1>1, GotoType
<1>2. ASSUME NEW p \in PermitPlace, NotifyAllThenGoto(t, p)
      PROVE  permitAt' \in [Threads -> PermitPlace]
  BY <1>2, AwakenedType DEF NotifyAllThenGoto
<1>3. ASSUME NEW n \in Nat, HasLock(t), NotifyThenGoto(n, t, "out")
      PROVE  permitAt' \in [Threads -> PermitPlace]
  BY <1>3, NotifyCounts DEF HasLock
<1>4. CASE Quiet(t)
  BY <1>1, <1>2, <1>4
     DEF Quiet, RunOut, Ask, Block, GoWithout, CallPermits, ReleaseAll, NotifyLast,
         MarkPermitsDisposed, DropCondition, Trip, PermitPlace, life
<1>5. CASE Take(t)
  BY <1>1, <1>5 DEF Take, PermitPlace, life
<1>6. CASE Change(t)
  <2>1. Amount \subseteq Nat
    BY DynaphoreAssumption DEF Amount
  <2>2. ASSUME NEW n \in Amount, Add(t, n)
        PROVE  permitAt' \in [Threads -> PermitPlace] /\ UNCHANGED life
    BY <1>3, <2>1, <2>2 DEF Add
  <2>3. ASSUME NEW n \in Amount, TripAdding(t, n)
        PROVE  permitAt' \in [Threads -> PermitPlace] /\ UNCHANGED life
    BY <1>1, <2>3 DEF TripAdding, Trip, PermitPlace
  <2>4. ASSUME NEW n \in Amount, Decrease(t, n)
        PROVE  permitAt' \in [Threads -> PermitPlace] /\ UNCHANGED life
    BY <1>1, <2>4 DEF Decrease, PermitPlace
  <2>5. ASSUME NEW v \in 0 .. MaxPermits, SetPermits(t, v)
        PROVE  permitAt' \in [Threads -> PermitPlace] /\ UNCHANGED life
    <3>1. v > value => v - value \in Nat
      BY DynaphoreAssumption
    <3> QED
      BY <1>1, <1>3, <2>5, <3>1 DEF SetPermits, PermitPlace
  <2> QED
    BY <1>6, <2>2, <2>3, <2>4, <2>5 DEF Change, life
<1> QED
  BY <1>4, <1>5, <1>6 DEF Step

-----------------------------------------------------------------------------
(* The accounts.                                                           *)

\* Every permit is free or with a holder; the client's bound is kept.
Accounts ==
  /\ PermitsTypeOK
  /\ value + Cardinality(holders) = issued
  /\ issued <= MaxPermits

\* All a step may do to the permits.
Kept == value' = value /\ UNCHANGED client
Taken(t) == value > 0 /\ value' = value - 1 /\ Lend(t)
Returned(t) == \E n \in Amount : value' = value + n /\ Return(t, n)
Resized == \E v \in Nat : value' = v /\ Resize(v - value)

LEMMA PermitsStep ==
  ASSUME PermitsTypeOK, NEW t \in Threads, Step(t)
  PROVE  Kept \/ Taken(t) \/ Returned(t) \/ Resized
<1>1. CASE Quiet(t)
  BY <1>1
     DEF Quiet, RunOut, Ask, Block, GoWithout, CallPermits, ReleaseAll, NotifyLast,
         MarkPermitsDisposed, DropCondition, Kept
<1>2. CASE Take(t) /\ Lend(t)
  BY <1>2 DEF Take, Taken
<1>3. CASE Change(t)
  <2>1. Amount \subseteq Nat /\ value \in Nat
    BY DynaphoreAssumption DEF Amount, PermitsTypeOK
  <2>2. ASSUME NEW n \in Amount, Add(t, n) \/ TripAdding(t, n)
        PROVE  value' = value + n
    BY <2>2 DEF Add, TripAdding
  <2>3. ASSUME NEW n \in Amount, Resize(n), value' = value + n
        PROVE  Resized
    <3>1. value + n \in Nat /\ (value + n) - value = n
      BY <2>1, <2>3
    <3> QED
      BY <2>3, <3>1 DEF Resized
  <2>4. ASSUME NEW n \in Amount, Decrease(t, n), Resize(value' - value)
        PROVE  Resized
    BY <2>1, <2>4 DEF Decrease, Resized
  <2>5. ASSUME NEW v \in 0 .. MaxPermits, SetPermits(t, v), Resize(value' - value)
        PROVE  Resized
    BY <2>5, DynaphoreAssumption DEF SetPermits, Resized
  <2> QED
    BY <1>3, <2>2, <2>3, <2>4, <2>5 DEF Change, Returned
<1> QED
  BY <1>1, <1>2, <1>3 DEF Step

LEMMA AccountsInit == PermitsInit => Accounts
<1> SUFFICES ASSUME PermitsInit PROVE Accounts
  OBVIOUS
<1>1. value \in Nat /\ value <= MaxPermits
  BY DynaphoreAssumption DEF PermitsInit
<1>2. Cardinality(holders) = 0
  BY FS_EmptySet DEF PermitsInit
<1>3. permitAt \in [Threads -> PermitPlace] /\ holders \subseteq Threads
  BY DEF PermitsInit, PermitPlace
<1>4. issued = value /\ permitsDisposed \in BOOLEAN /\ gone \in BOOLEAN
  BY DEF PermitsInit
<1>5. value + 0 = value
  BY <1>1
<1> QED
  BY <1>1, <1>2, <1>3, <1>4, <1>5 DEF Accounts, PermitsTypeOK

LEMMA AccountsStep == Accounts /\ [PermitsNext]_permitVars => Accounts'
<1> SUFFICES ASSUME Accounts, [PermitsNext]_permitVars PROVE Accounts'
  OBVIOUS
<1>1. CASE UNCHANGED permitVars
  BY <1>1 DEF permitVars, Accounts, PermitsTypeOK
<1>2. ASSUME NEW t \in Threads, Step(t)
      PROVE  Accounts'
  <2>1. /\ value \in Nat /\ issued \in Nat /\ MaxPermits \in Nat /\ holders \subseteq Threads
        /\ value + Cardinality(holders) = issued /\ issued <= MaxPermits
        /\ Cardinality(holders) \in Nat
    BY CountType, DynaphoreAssumption DEF Accounts, PermitsTypeOK
  <2>2. SUFFICES /\ value' \in Nat /\ issued' \in Nat /\ holders' \subseteq Threads
                 /\ value' + Cardinality(holders') = issued'
                 /\ issued' <= MaxPermits
    BY <1>2, PlacesStep DEF Accounts, PermitsTypeOK
  <2>3. CASE Kept
    BY <2>1, <2>3 DEF Kept, client
  <2>4. CASE Taken(t)
    <3>1. Cardinality(holders') = Cardinality(holders) + 1
      BY <2>1, <2>4, CountType, FS_AddElement DEF Taken, Lend
    <3> QED
      BY <2>1, <2>4, <3>1 DEF Taken, Lend
  <2>5. CASE Returned(t)
    <3>1. PICK n \in Amount : value' = value + n /\ Return(t, n)
      BY <2>5 DEF Returned
    <3>2. n \in Nat /\ n >= 1
      BY <2>1 DEF Amount
    <3>3. CASE t \in holders
      <4>1. Cardinality(holders') = Cardinality(holders) - 1
        BY <2>1, <3>1, <3>3, CountType, FS_RemoveElement DEF Return
      <4>2. issued + n - 1 <= MaxPermits /\ issued' = issued + (n - 1) /\ holders' = holders \ {t}
        BY <3>1, <3>3 DEF Return
      <4> QED
        BY <2>1, <3>1, <3>2, <4>1, <4>2
    <3>4. CASE t \notin holders
      <4>1. holders \ {t} = holders
        BY <3>4
      <4>2. issued + n - 0 <= MaxPermits /\ issued' = issued + (n - 0) /\ holders' = holders
        BY <3>1, <3>4, <4>1 DEF Return
      <4> QED
        BY <2>1, <3>1, <3>2, <4>2
    <3> QED
      BY <3>3, <3>4
  <2>6. CASE Resized
    BY <2>1, <2>6 DEF Resized, Resize
  <2> QED
    BY <1>2, <2>3, <2>4, <2>5, <2>6, PermitsStep DEF Accounts
<1> QED
  BY <1>1, <1>2 DEF PermitsNext

LEMMA AccountsInvariant == PermitsSpec => []Accounts
BY AccountsInit, AccountsStep, PTL DEF PermitsSpec

(* The state keeps its types whatever the clients do; the counter of       *)
(* permits never becomes negative (decrease_permits, wait_for_permit).     *)
THEOREM TypeCorrect == PermitsSpec => []PermitsTypeOK
<1>1. Accounts => PermitsTypeOK
  BY DEF Accounts
<1> QED
  BY <1>1, AccountsInvariant, PTL

-----------------------------------------------------------------------------
(* Dynaphore implements PermitPool.                                        *)

LEMMA PoolInit == PermitsInit => Pool!Init
BY DynaphoreAssumption DEF PermitsInit, Pool!Init

LEMMA PoolStep == Accounts /\ [PermitsNext]_permitVars => [Pool!Next]_(Pool!vars)
<1> SUFFICES ASSUME Accounts, [PermitsNext]_permitVars PROVE Pool!Next \/ UNCHANGED Pool!vars
  OBVIOUS
<1>1. CASE UNCHANGED permitVars
  BY <1>1 DEF permitVars, Pool!vars
<1>2. ASSUME NEW t \in Threads, Step(t)
      PROVE  Pool!Next \/ UNCHANGED Pool!vars
  <2>1. /\ value \in Nat /\ issued \in Nat /\ MaxPermits \in Nat
        /\ Cardinality(holders) \in Nat
        /\ value + Cardinality(holders) = issued /\ issued <= MaxPermits
    BY CountType, DynaphoreAssumption DEF Accounts, PermitsTypeOK
  <2>2. CASE Kept
    BY <2>2 DEF Kept, client, Pool!vars
  <2>3. CASE Taken(t)
    <3>1. Pool!Take(t)
      BY <2>3 DEF Taken, Lend, Pool!Take
    <3> QED
      BY <3>1 DEF Pool!Next
  <2>4. CASE Returned(t)
    <3>1. PICK n \in Amount : value' = value + n /\ Return(t, n)
      BY <2>4 DEF Returned
    <3>2. n \in 0 .. MaxPermits /\ n >= 1
      BY <2>1 DEF Amount
    <3>3. CASE t \in holders
      <4>1. Pool!Give(t, n)
        BY <3>1, <3>2, <3>3 DEF Return, Pool!Give
      <4> QED
        BY <3>2, <4>1 DEF Pool!Next
    <3>4. CASE t \notin holders
      <4>1. holders \ {t} = holders
        BY <3>4
      <4>2. issued' = issued + (n - 0) /\ holders' = holders
        BY <3>1, <3>4, <4>1 DEF Return
      <4>3. Pool!Issue(n)
        BY <2>1, <3>1, <3>2, <4>2 DEF Pool!Issue
      <4> QED
        BY <3>2, <4>3 DEF Pool!Next
    <3> QED
      BY <3>3, <3>4
  <2>5. CASE Resized
    <3>1. PICK v \in Nat : value' = v /\ Resize(v - value)
      BY <2>5 DEF Resized
    <3>2. /\ issued + (v - value) <= MaxPermits
          /\ issued' = issued + (v - value) /\ holders' = holders
      BY <3>1 DEF Resize
    <3>3. CASE v >= value
      <4>1. v - value \in 0 .. MaxPermits
        BY <2>1, <3>1, <3>2, <3>3
      <4>2. Pool!Issue(v - value)
        BY <2>1, <3>1, <3>2 DEF Pool!Issue
      <4> QED
        BY <4>1, <4>2 DEF Pool!Next
    <3>4. CASE v < value
      <4>1. value - v \in 0 .. MaxPermits
        BY <2>1, <3>1, <3>4
      <4>2. Pool!Retire(value - v)
        BY <2>1, <3>1, <3>2, <3>4 DEF Pool!Retire
      <4> QED
        BY <4>1, <4>2 DEF Pool!Next
    <3> QED
      BY <2>1, <3>1, <3>3, <3>4
  <2> QED
    BY <1>2, <2>2, <2>3, <2>4, <2>5, PermitsStep DEF Accounts
<1> QED
  BY <1>1, <1>2 DEF PermitsNext

(* With its waiting threads abstracted away the dynaphore is a permit pool *)
(* that is never closed, whatever is resized, timed out or disposed of.    *)
THEOREM Refinement == PermitsSpec => ImplementsPool
BY PoolInit, PoolStep, AccountsInvariant, PTL DEF PermitsSpec, ImplementsPool, Pool!Spec

-----------------------------------------------------------------------------
(* No permit lies idle.                                                    *)

\* A thread that is on its way goes elsewhere: there is one less.
LEMMA UnderwayLess ==
  ASSUME PermitsTypeOK, NEW t \in Threads, NEW p \in PermitPlace \ {"wait", "woken", "called"},
         PermitGoto(t, p)
  PROVE  /\ Blocked' \subseteq Blocked
         /\ t \notin Underway => Underway' = Underway
         /\ t \in Underway => Cardinality(Underway') = Cardinality(Underway) - 1
<1>1. \A u \in Threads : permitAt'[u] = IF u = t THEN p ELSE permitAt[u]
  BY DEF PermitGoto, PermitsTypeOK
<1>2. Underway' = Underway \ {t} /\ Blocked' = Blocked \ {t}
  BY <1>1 DEF Underway, Blocked
<1>3. IsFiniteSet(Underway)
  BY CountType DEF Underway
<1> QED
  BY <1>2, <1>3, FS_RemoveElement

LEMMA IdleInit == PermitsInit => NoIdlePermit
BY DEF PermitsInit, NoIdlePermit, Blocked

LEMMA IdleStep ==
  ASSUME PermitsTypeOK, NoIdlePermit, NEW t \in Threads, Step(t)
  PROVE  NoIdlePermit'
<1>1. SUFFICES ASSUME Blocked' # {}, ~gone'
               PROVE  value' <= Cardinality(Underway')
  BY DEF NoIdlePermit
<1>2. /\ value \in Nat
      /\ Cardinality(Underway) \in Nat /\ Cardinality(Underway') \in Nat
  <2>1. Underway \subseteq Threads /\ Underway' \subseteq Threads
    BY DEF Underway
  <2> QED
    BY <2>1, CountType DEF PermitsTypeOK
<1>3. ASSUME value' <= value, gone' = gone, NEW p \in PermitPlace \ {"wait", "woken", "called"},
             PermitGoto(t, p), t \notin Underway
      PROVE  value' <= Cardinality(Underway')
  <2>1. Blocked # {} /\ Underway' = Underway
    BY <1>1, <1>3, UnderwayLess
  <2>2. value <= Cardinality(Underway)
    BY <1>1, <1>3, <2>1 DEF NoIdlePermit
  <2>3. value' \in Int
    BY <1>2, <1>3, PermitsStep, DynaphoreAssumption
       DEF Kept, Taken, Returned, Resized, Amount
  <2> QED
    BY <1>2, <1>3, <2>1, <2>2, <2>3
<1>4. CASE Quiet(t)
  <2>1. CASE Block(t) \/ GoWithout(t)
    BY <1>2, <2>1 DEF Block, GoWithout
  <2>2. CASE ReleaseAll(t) \/ NotifyLast(t)
    <3>1. PICK p \in {"out", "marked"} : permitAt' = [Told(Queued) EXCEPT ![t] = p]
      BY <2>2 DEF ReleaseAll, NotifyLast, NotifyAllThenGoto
    <3>2. \A u \in Threads : permitAt'[u] # "wait"
      BY <3>1 DEF Told, Queued, PermitsTypeOK
    <3> QED
      BY <1>1, <3>2 DEF Blocked
  <2>3. CASE DropCondition(t)
    BY <1>1, <2>3 DEF DropCondition
  <2>4. CASE Trip(t)
    BY <1>1, <2>4 DEF Trip, life
  <2>5. CASE RunOut(t)
    BY <1>2, <1>3, <2>5 DEF RunOut, life, Underway, PermitPlace
  <2>6. CASE Ask(t) \/ CallPermits(t)
    BY <1>2, <1>3, <2>6 DEF Ask, CallPermits, life, Underway, PermitPlace
  <2>7. CASE MarkPermitsDisposed(t)
    BY <1>2, <1>3, <2>7 DEF MarkPermitsDisposed, Underway, PermitPlace
  <2> QED
    BY <1>4, <2>1, <2>2, <2>3, <2>4, <2>5, <2>6, <2>7 DEF Quiet
<1>5. CASE Take(t)
  <2>1. value' = value - 1 /\ PermitGoto(t, "out") /\ gone' = gone
    BY <1>5 DEF Take, life
  <2>2. Blocked # {} /\ "out" \in PermitPlace \ {"wait", "woken", "called"}
    BY <1>1, <2>1, UnderwayLess DEF PermitPlace
  <2>3. value <= Cardinality(Underway)
    BY <1>1, <2>1, <2>2 DEF NoIdlePermit
  <2>4. Underway' = Underway \/ Cardinality(Underway') = Cardinality(Underway) - 1
    BY <2>1, <2>2, UnderwayLess
  <2> QED
    BY <1>2, <2>1, <2>3, <2>4
<1>6. ASSUME NEW n \in Nat, HasLock(t), NotifyThenGoto(n, t, "out"), value' = value + n
      PROVE  value' <= Cardinality(Underway')
  <2>1. Blocked # {} /\ Cardinality(Underway') = Cardinality(Underway) + n
    BY <1>1, <1>6, NotifyCounts DEF HasLock, PermitsTypeOK
  <2>2. value <= Cardinality(Underway)
    BY <1>6, <2>1 DEF NoIdlePermit, HasLock
  <2> QED
    BY <1>2, <1>6, <2>1, <2>2
<1>7. CASE Change(t)
  <2>1. Amount \subseteq Nat
    BY DynaphoreAssumption DEF Amount
  <2>2. ASSUME NEW n \in Amount, Add(t, n)
        PROVE  value' <= Cardinality(Underway')
    BY <1>6, <2>1, <2>2 DEF Add
  <2>3. ASSUME NEW n \in Amount, TripAdding(t, n)
        PROVE  FALSE
    BY <1>1, <2>3 DEF TripAdding, Trip, life
  <2>4. ASSUME NEW n \in Amount, Decrease(t, n)
        PROVE  value' <= Cardinality(Underway')
    <3>1. value' <= value
      BY <1>2, <2>1, <2>4 DEF Decrease
    <3> QED
      BY <1>3, <2>4, <3>1 DEF Decrease, HasLock, life, Underway, PermitPlace
  <2>5. ASSUME NEW v \in 0 .. MaxPermits, SetPermits(t, v)
        PROVE  value' <= Cardinality(Underway')
    <3>1. CASE v > value
      <4>1. v - value \in Nat /\ value' = value + (v - value)
        BY <1>2, <2>5, <3>1, DynaphoreAssumption DEF SetPermits
      <4> QED
        BY <1>6, <2>5, <3>1, <4>1 DEF SetPermits
    <3>2. CASE ~(v > value)
      <4>1. value' <= value
        BY <1>2, <2>5, <3>2, DynaphoreAssumption DEF SetPermits
      <4> QED
        BY <1>3, <2>5, <3>2, <4>1 DEF SetPermits, HasLock, life, Underway, PermitPlace
    <3> QED
      BY <3>1, <3>2
  <2> QED
    BY <1>7, <2>2, <2>3, <2>4, <2>5 DEF Change
<1> QED
  BY <1>4, <1>5, <1>7 DEF Step

(* Every free permit has a thread on its way to it while another thread is *)
(* parked: no notification of release_permit, increase_permits or          *)
(* set_permits is lost, timeouts included.                                 *)
THEOREM NoneIdle == PermitsSpec => []NoIdlePermit
<1>1. PermitsTypeOK /\ NoIdlePermit /\ [PermitsNext]_permitVars => NoIdlePermit'
  <2>1. NoIdlePermit /\ UNCHANGED permitVars => NoIdlePermit'
    BY DEF permitVars, NoIdlePermit, Blocked, Underway
  <2> QED
    BY <2>1, IdleStep DEF PermitsNext
<1> QED
  BY <1>1, IdleInit, TypeCorrect, PTL DEF PermitsSpec

=============================================================================
