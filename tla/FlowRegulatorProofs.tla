------------------------- MODULE FlowRegulatorProofs -------------------------
(***************************************************************************)
(* Theorems about FlowRegulator for every set of threads and every bound.  *)
(***************************************************************************)
EXTENDS FlowRegulator, FiniteSetTheorems, TLAPS

-----------------------------------------------------------------------------
(* Counting threads.                                                       *)

LEMMA CountType ==
  ASSUME NEW S, S \subseteq Threads
  PROVE  IsFiniteSet(S) /\ Cardinality(S) \in Nat
BY FS_Subset, FS_CardinalityType, ThreadsFinite

LEMMA CountAdd ==
  ASSUME NEW S, S \subseteq Threads, NEW t \in Threads, t \notin S
  PROVE  Cardinality(S \union {t}) = Cardinality(S) + 1
BY CountType, FS_AddElement

LEMMA CountDrop ==
  ASSUME NEW S, S \subseteq Threads, NEW t \in S
  PROVE  Cardinality(S \ {t}) = Cardinality(S) - 1
BY CountType, FS_RemoveElement

\* A notification picks no more waiters than asked for, and all it can.
LEMMA SelectedCount ==
  ASSUME TypeOK, NEW W, NEW n \in Nat, Selected(W, n, Threads)
  PROVE  /\ W \subseteq waiters
         /\ Cardinality(W) = AtMost(n, Cardinality(waiters))
         /\ Cardinality(waiters \ W) = Cardinality(waiters) - Cardinality(W)
<1>1. waiters \intersect Threads = waiters
  BY DEF TypeOK
<1>2. W \subseteq waiters /\ Cardinality(W) = AtMost(n, Cardinality(waiters))
  BY <1>1 DEF Selected
<1>3. waiters \intersect W = W
  BY <1>2
<1>4. Cardinality(waiters \ W) = Cardinality(waiters) - Cardinality(waiters \intersect W)
  BY CountType, FS_Difference DEF TypeOK
<1> QED
  BY <1>2, <1>3, <1>4

-----------------------------------------------------------------------------
(* Types and conservation.                                                 *)

\* A thread in acquire holds no permit yet.
BlockedHoldNothing ==
  \A t \in Threads : pc[t] \in {"wait", "late", "woken"} => t \notin holders

\* The inductive invariant: issued stays a natural number only because
\* Decrease takes no more than is in the counter, and a grant adds a holder
\* only because a thread in acquire is not one yet.
Accounts == TypeOK /\ PermitConservation /\ BlockedHoldNothing

LEMMA FlushableBound ==
  ASSUME TypeOK, threshold # NoBias, NEW q \in Nat
  PROVE  /\ Flushable(q) \in Nat
         /\ Flushable(q) <= pending
BY CountType DEF TypeOK, Flushable, Excess, AtMost, NoBias

\* The waiting room keeps its shape whoever leaves it.
LEMMA RoomType ==
  ASSUME TypeOK, NEW W, NEW t \in Threads, NEW p \in Place, WakeThenGoto(W, t, p)
  PROVE  /\ waiters' \subseteq Threads
         /\ ahead' \subseteq waiters' \X waiters'
         /\ pc' \in [Threads -> Place]
<1>1. waiters' \subseteq Threads /\ ahead' \subseteq waiters' \X waiters'
  BY DEF TypeOK, WakeThenGoto, Remove
<1>2. pc' \in [Threads -> Place]
  BY DEF TypeOK, WakeThenGoto, Place
<1> QED
  BY <1>1, <1>2

LEMMA EverybodyType ==
  ASSUME TypeOK, NEW t \in Threads, NEW p \in Place, NotifyEverybody(t, p)
  PROVE  /\ waiters' \subseteq Threads
         /\ ahead' \subseteq waiters' \X waiters'
         /\ pc' \in [Threads -> Place]
<1>1. CASE WakeThenGoto(waiters, t, p)
  BY <1>1, RoomType
<1>2. CASE ~WakeThenGoto(waiters, t, p)
  BY <1>2 DEF NotifyEverybody, TypeOK, Place
<1> QED
  BY <1>1, <1>2

LEMMA GotoType ==
  ASSUME TypeOK, NEW t \in Threads, NEW p \in Place, Goto(t, p)
  PROVE  pc' \in [Threads -> Place]
BY DEF TypeOK, Goto

\* Whoever ends up with n more permits, n permits have been put in.
LEMMA AddSums ==
  ASSUME Accounts, NEW n \in Nat, Add(n)
  PROVE  /\ value' \in Nat /\ pending' \in Nat
         /\ \A c \in Nat, k \in Int :
              c = Cardinality(holders) + k => value' + pending' + c = issued + n + k
<1>1. /\ value \in Nat /\ pending \in Nat /\ issued \in Nat
      /\ Cardinality(holders) \in Nat
      /\ value + pending + Cardinality(holders) = issued
  BY CountType DEF Accounts, TypeOK, PermitConservation
<1>2. CASE threshold = NoBias
  <2>1. value' = value + n /\ pending' = pending
    BY <1>2 DEF Add
  <2> QED
    BY <1>1, <2>1
<1>3. CASE threshold # NoBias
  <2>1. value' = value /\ pending' = pending + n
    BY <1>3 DEF Add
  <2> QED
    BY <1>1, <2>1
<1> QED
  BY <1>2, <1>3

\* Return and Mint both account for the permits that Add deposits.
LEMMA AddAccounts ==
  ASSUME Accounts, NEW t \in Threads, NEW n \in Nat, Add(n),
         (n >= 1 /\ Return(t, n)) \/ Mint(n)
  PROVE  /\ value' \in Nat /\ pending' \in Nat /\ issued' \in Nat
         /\ holders' \subseteq Threads
         /\ PermitConservation'
<1>1. /\ holders \subseteq Threads /\ issued \in Nat
      /\ Cardinality(holders) \in Nat
  BY CountType DEF Accounts, TypeOK
<1>2. CASE n >= 1 /\ Return(t, n) /\ t \in holders
  <2>1. holders' = holders \ {t} /\ issued' = issued + (n - 1)
    BY <1>2 DEF Return
  <2>2. Cardinality(holders') = Cardinality(holders) + (-1)
    BY <1>1, <1>2, <2>1, CountDrop
  <2>3. Cardinality(holders') \in Nat
    BY <1>1, <2>1, CountType
  <2>4. value' + pending' + Cardinality(holders') = issued + n + (-1)
    BY <2>2, <2>3, AddSums
  <2>5. issued' = issued + n + (-1) /\ issued' \in Nat
    BY <1>1, <1>2, <2>1
  <2> QED
    BY <1>1, <2>1, <2>4, <2>5, AddSums DEF PermitConservation
<1>3. CASE Mint(n) \/ (n >= 1 /\ Return(t, n) /\ t \notin holders)
  <2>1. holders' = holders /\ issued' = issued + n
    BY <1>1, <1>3 DEF Return, Mint
  <2>2. value' + pending' + Cardinality(holders) = issued + n + 0
    BY <1>1, AddSums
  <2>3. issued + n + 0 = issued + n /\ issued + n \in Nat
    BY <1>1
  <2> QED
    BY <1>1, <2>1, <2>2, <2>3, AddSums DEF PermitConservation
<1> QED
  BY <1>2, <1>3

LEMMA AccountsInit == Init => Accounts
<1> SUFFICES ASSUME Init PROVE Accounts
  OBVIOUS
<1>1. TypeOK
  <2>1. /\ waiters \subseteq Threads /\ ahead \subseteq waiters \X waiters
        /\ disposed \in BOOLEAN /\ gone \in BOOLEAN /\ holders \subseteq Threads
    BY DEF Init
  <2>6. value \in Nat /\ pending \in Nat /\ issued \in Nat
    BY BoundsAssumption DEF Init
  <2>2. threshold \in Nat \union {NoBias}
    BY BoundsAssumption DEF Init
  <2>3. pc \in [Threads -> Place]
    BY DEF Init, Place
  <2>5. arg \in [Threads -> Nat \union {NoBias}]
    BY DEF Init
  <2>4. call \in [quota : Nat, to : SUBSET Threads]
    BY DEF Init, NoCall
  <2> QED
    BY <2>1, <2>2, <2>3, <2>4, <2>5, <2>6 DEF TypeOK
<1>2. Cardinality(holders) = 0
  BY FS_EmptySet DEF Init
<1>3. value \in Nat /\ pending = 0 /\ issued = value
  BY BoundsAssumption DEF Init
<1>4. PermitConservation
  BY <1>2, <1>3 DEF PermitConservation
<1>5. BlockedHoldNothing
  BY DEF Init, BlockedHoldNothing
<1> QED
  BY <1>1, <1>4, <1>5 DEF Accounts

\* Moving permits between the counter and the buffer changes no account.
LEMMA MoveAccounts ==
  ASSUME Accounts, NEW n \in Nat, n <= pending,
         value' = value + n, pending' = pending - n,
         UNCHANGED <<holders, issued>>
  PROVE  /\ value' \in Nat /\ pending' \in Nat /\ issued' \in Nat
         /\ holders' \subseteq Threads
         /\ PermitConservation'
<1>1. /\ value \in Nat /\ pending \in Nat /\ issued \in Nat
      /\ Cardinality(holders) \in Nat
      /\ value + pending + Cardinality(holders) = issued
      /\ holders \subseteq Threads
  BY CountType DEF Accounts, TypeOK, PermitConservation
<1>2. holders' = holders /\ issued' = issued
  OBVIOUS
<1>3. (value + n) + (pending - n) + Cardinality(holders) = issued
  BY <1>1
<1> QED
  BY <1>1, <1>2, <1>3 DEF PermitConservation

\* Granting takes one permit out of what is free, wherever it was.
LEMMA GrantAccounts ==
  ASSUME Accounts, NEW t \in Threads, t \notin holders,
         NEW v \in Nat, NEW p \in Nat, v + p = value + pending - 1,
         value' = v, pending' = p,
         holders' = holders \union {t}, issued' = issued
  PROVE  /\ value' \in Nat /\ pending' \in Nat /\ issued' \in Nat
         /\ holders' \subseteq Threads
         /\ PermitConservation'
<1>1. /\ value \in Nat /\ pending \in Nat /\ issued \in Nat
      /\ Cardinality(holders) \in Nat
      /\ value + pending + Cardinality(holders) = issued
      /\ holders \subseteq Threads
  BY CountType DEF Accounts, TypeOK, PermitConservation
<1>2. Cardinality(holders') = Cardinality(holders) + 1
  BY <1>1, CountAdd
<1>3. v + p + (Cardinality(holders) + 1) = issued
  BY <1>1
<1> QED
  BY <1>1, <1>2, <1>3 DEF PermitConservation

LEMMA NumbersKept ==
  ASSUME Accounts, UNCHANGED pool
  PROVE  /\ value' \in Nat /\ pending' \in Nat /\ issued' \in Nat
         /\ holders' \subseteq Threads
         /\ PermitConservation'
BY DEF Accounts, TypeOK, pool, PermitConservation

\* Every step of a thread in acquire, and of one whose timeout passed.
LEMMA AcquireAccounts ==
  ASSUME Accounts, NEW t \in Threads,
         Enter(t) \/ Acquire(t) \/ Expire(t) \/ Withdraw(t)
  PROVE  Accounts'
<1>1. CASE Enter(t) \/ TurnAway(t) \/ GiveUp(t) \/ Expire(t)
  <2>1. /\ UNCHANGED <<pool, room, life, bias, call>>
        /\ \E p \in {"lock", "idle", "late"} : Goto(t, p)
        /\ pc[t] \notin {"wait", "late", "woken"} \/ t \notin holders
    BY <1>1 DEF Enter, TurnAway, GiveUp, Expire, Trying, Accounts, BlockedHoldNothing
  <2>2. TypeOK'
    BY <2>1, NumbersKept, GotoType DEF Accounts, TypeOK, pool, room, life, bias, Place
  <2>3. BlockedHoldNothing'
    BY <1>1, <2>1 DEF Accounts, TypeOK, BlockedHoldNothing, Goto, pool, Enter, TurnAway,
                      GiveUp, Expire
  <2> QED
    BY <2>1, <2>2, <2>3, NumbersKept DEF Accounts
<1>2. CASE Grant(t)
  <2>1. t \notin holders /\ Goto(t, "idle") /\ holders' = holders \union {t}
    BY <1>2 DEF Grant, Trying, Accounts, BlockedHoldNothing
  <2>2. /\ value - 1 \in Nat /\ pending \in Nat
        /\ (value - 1) + pending = value + pending - 1
    BY <1>2 DEF Grant, Accounts, TypeOK
  <2>3. value' = value - 1 /\ pending' = pending /\ issued' = issued
    BY <1>2 DEF Grant
  <2>4. /\ value' \in Nat /\ pending' \in Nat /\ issued' \in Nat
        /\ holders' \subseteq Threads
        /\ PermitConservation'
    BY <2>1, <2>2, <2>3, GrantAccounts
  <2>5. TypeOK'
    BY <1>2, <2>1, <2>4, GotoType DEF Grant, Accounts, TypeOK, room, life, bias, Place
  <2>6. BlockedHoldNothing'
    BY <2>1 DEF Accounts, TypeOK, BlockedHoldNothing, Goto
  <2> QED
    BY <2>4, <2>5, <2>6 DEF Accounts
<1>3. CASE FlushAndGrant(t)
  <2>1. PICK W \in SUBSET waiters : WakeThenGoto(W, t, "idle")
    BY <1>3 DEF FlushAndGrant
  <2>2. t \notin holders /\ holders' = holders \union {t}
    BY <1>3 DEF FlushAndGrant, Trying, Accounts, BlockedHoldNothing
  <2>3. /\ pending - 1 \in Nat /\ 0 \in Nat
        /\ (pending - 1) + 0 = value + pending - 1
    BY <1>3 DEF FlushAndGrant, FlushDue, Accounts, TypeOK
  <2>4. value' = pending - 1 /\ pending' = 0 /\ issued' = issued
    BY <1>3 DEF FlushAndGrant
  <2>5. /\ value' \in Nat /\ pending' \in Nat /\ issued' \in Nat
        /\ holders' \subseteq Threads
        /\ PermitConservation'
    BY <2>2, <2>3, <2>4, GrantAccounts
  <2>6. TypeOK'
    BY <1>3, <2>1, <2>5, RoomType DEF FlushAndGrant, Accounts, TypeOK, life, bias, Place
  <2>7. BlockedHoldNothing'
    BY <2>1, <2>2 DEF Accounts, TypeOK, BlockedHoldNothing, WakeThenGoto
  <2> QED
    BY <2>5, <2>6, <2>7 DEF Accounts
<1>4. CASE Park(t)
  <2>1. /\ waiters' \subseteq Threads /\ ahead' \subseteq waiters' \X waiters'
        /\ UNCHANGED <<pool, life, bias, call>>
        /\ Goto(t, "wait")
    BY <1>4 DEF Park, Enqueue, Accounts, TypeOK
  <2>2. TypeOK'
    BY <2>1, NumbersKept, GotoType DEF Accounts, TypeOK, pool, life, bias, Place
  <2>3. BlockedHoldNothing'
    BY <1>4, <2>1 DEF Accounts, TypeOK, BlockedHoldNothing, Goto, pool, Park, Trying
  <2> QED
    BY <2>1, <2>2, <2>3, NumbersKept DEF Accounts
<1>5. CASE Withdraw(t)
  <2>1. /\ waiters' \subseteq Threads /\ ahead' \subseteq waiters' \X waiters'
        /\ UNCHANGED <<pool, life, bias, call>>
        /\ \E p \in {"failed", "idle"} : Goto(t, p)
    BY <1>5 DEF Withdraw, Remove, Accounts, TypeOK
  <2>2. TypeOK'
    BY <2>1, NumbersKept, GotoType DEF Accounts, TypeOK, pool, life, bias, Place
  <2>3. BlockedHoldNothing'
    BY <2>1 DEF Accounts, TypeOK, BlockedHoldNothing, Goto, pool
  <2> QED
    BY <2>1, <2>2, <2>3, NumbersKept DEF Accounts
<1> QED
  BY <1>1, <1>2, <1>3, <1>4, <1>5 DEF Acquire

\* The first half of a releasing call.
LEMMA BeginAccounts ==
  ASSUME Accounts, NEW t \in Threads, NEW n \in Nat, NEW q \in Nat, NEW to \in AllIds,
         Add(n), (n >= 1 /\ Return(t, n)) \/ Mint(n), Begin(t, q, to)
  PROVE  Accounts'
<1>1. /\ value' \in Nat /\ pending' \in Nat /\ issued' \in Nat
      /\ holders' \subseteq Threads
      /\ PermitConservation'
  BY AddAccounts
<1>2. to \in SUBSET Threads
  BY BoundsAssumption DEF AllIds
<1>3. call' \in [quota : Nat, to : SUBSET Threads]
  BY <1>2 DEF Begin
<1>4. TypeOK'
  BY <1>1, <1>3, GotoType DEF Begin, Accounts, TypeOK, room, life, bias, Place
<1>5. holders' \subseteq holders
  BY DEF Return, Mint
<1>6. BlockedHoldNothing'
  BY <1>5 DEF Accounts, TypeOK, BlockedHoldNothing, Goto, Begin
<1> QED
  BY <1>1, <1>4, <1>6 DEF Accounts

LEMMA ReleaseAccounts ==
  ASSUME Accounts, NEW t \in Threads,
         \/ \E n \in Quota, to \in AllIds : Release(t, n, to) \/ Notify(t, n, to)
         \/ \E to \in AllIds : NotifyAll(t, to)
  PROVE  Accounts'
<1>1. CASE \E n \in Quota, to \in AllIds : Release(t, n, to) \/ Notify(t, n, to)
  <2>1. PICK n \in Quota, to \in AllIds : Release(t, n, to) \/ Notify(t, n, to)
    BY <1>1
  <2>2. n \in Nat /\ n >= 1
    BY BoundsAssumption DEF Quota
  <2> QED
    BY <2>1, <2>2, BeginAccounts DEF Release, Notify
<1>2. CASE \E to \in AllIds : NotifyAll(t, to)
  <2>1. PICK to \in AllIds : NotifyAll(t, to)
    BY <1>2
  <2>2. Cardinality(waiters) \in Nat /\ Cardinality(waiters \intersect to) \in Nat
    BY CountType DEF Accounts, TypeOK
  <2> QED
    BY <2>1, <2>2, BeginAccounts DEF NotifyAll
<1> QED
  BY <1>1, <1>2

\* A step that moves permits and wakes waiters, in the name of t.
LEMMA WakeAccounts ==
  ASSUME Accounts, NEW t \in Threads, NEW n \in Nat, n <= pending,
         value' = value + n, pending' = pending - n,
         UNCHANGED <<holders, issued>>,
         waiters' \subseteq Threads, ahead' \subseteq waiters' \X waiters',
         pc' \in [Threads -> Place],
         \A u \in Threads : pc'[u] \in {"wait", "late", "woken"}
                               => pc[u] \in {"wait", "late", "woken"},
         arg' \in [Threads -> Nat \union {NoBias}],
         threshold' = threshold, disposed' \in BOOLEAN, gone' \in BOOLEAN,
         call' \in [quota : Nat, to : SUBSET Threads]
  PROVE  Accounts'
<1>1. /\ value' \in Nat /\ pending' \in Nat /\ issued' \in Nat
      /\ holders' \subseteq Threads
      /\ PermitConservation'
  BY MoveAccounts
<1>2. TypeOK'
  BY <1>1 DEF Accounts, TypeOK
<1>3. BlockedHoldNothing'
  BY DEF Accounts, BlockedHoldNothing
<1> QED
  BY <1>1, <1>2, <1>3 DEF Accounts

\* Whoever is in acquire after a wake-up was there before.
LEMMA WakeKeepsBlocked ==
  ASSUME Accounts, NEW t \in Threads, NEW p \in {"idle", "failed"},
         (\E W : WakeThenGoto(W, t, p)) \/ NotifyEverybody(t, p) \/ Goto(t, p)
  PROVE  \A u \in Threads : pc'[u] \in {"wait", "late", "woken"}
                               => pc[u] \in {"wait", "late", "woken"}
BY DEF Accounts, TypeOK, WakeThenGoto, NotifyEverybody, Goto

LEMMA DeliverAccounts ==
  ASSUME Accounts, NEW t \in Threads, Deliver(t)
  PROVE  Accounts'
<1>1. PICK W \in SUBSET waiters : WakeThenGoto(W, t, "idle")
  BY DEF Deliver, DeliverClassic, DeliverBiased
<1>2. call' = NoCall /\ UNCHANGED <<holders, issued, life, bias>>
  BY DEF Deliver, DeliverClassic, DeliverBiased, pool
<1>3. call.quota \in Nat
  BY DEF Accounts, TypeOK
<1>4. \E n \in Nat : n <= pending /\ value' = value + n /\ pending' = pending - n
  <2>1. CASE DeliverClassic(t)
    <3>1. 0 \in Nat /\ 0 <= pending /\ value = value + 0 /\ pending = pending - 0
      BY DEF Accounts, TypeOK
    <3> QED
      BY <2>1, <3>1 DEF DeliverClassic, pool
  <2>2. CASE DeliverBiased(t)
    BY <1>3, <2>2, FlushableBound DEF DeliverBiased, Accounts
  <2> QED
    BY <2>1, <2>2 DEF Deliver
<1>5. call' \in [quota : Nat, to : SUBSET Threads]
  BY <1>2 DEF NoCall
<1>6. /\ waiters' \subseteq Threads /\ ahead' \subseteq waiters' \X waiters'
      /\ pc' \in [Threads -> Place]
  BY <1>1, RoomType DEF Accounts, Place
<1> QED
  BY <1>1, <1>2, <1>4, <1>5, <1>6, WakeKeepsBlocked, WakeAccounts
     DEF Accounts, TypeOK, life, bias

LEMMA BypassAccounts ==
  ASSUME Accounts, NEW t \in Threads,
         Bypass(t) \/ \E n \in Quota, to \in AllIds : BypassAndNotify(t, n, to)
  PROVE  Accounts'
<1>1. UNCHANGED <<holders, issued, life, bias, call>>
  BY DEF Bypass, BypassAndNotify
<1>2. CASE Bypass(t)
  <2>1. pending \in Nat /\ pending <= pending /\ pending - pending = 0
    BY DEF Accounts, TypeOK
  <2>2. value' = value + pending /\ pending' = pending - pending
    BY <1>2, <2>1 DEF Bypass
  <2>3. /\ waiters' \subseteq Threads /\ ahead' \subseteq waiters' \X waiters'
        /\ pc' \in [Threads -> Place]
    BY <1>2, EverybodyType DEF Bypass, Accounts, Place
  <2>4. NotifyEverybody(t, "idle")
    BY <1>2 DEF Bypass
  <2> QED
    BY <1>1, <2>1, <2>2, <2>3, <2>4, WakeKeepsBlocked, WakeAccounts
       DEF Accounts, TypeOK, life, bias
<1>3. CASE \E n \in Quota, to \in AllIds : BypassAndNotify(t, n, to)
  <2>1. PICK n \in Quota, to \in AllIds : BypassAndNotify(t, n, to)
    BY <1>3
  <2>2. PICK W \in SUBSET waiters : WakeThenGoto(W, t, "idle")
    BY <2>1 DEF BypassAndNotify
  <2>3. AtMost(pending, n) \in Nat /\ AtMost(pending, n) <= pending
    BY BoundsAssumption DEF AtMost, Quota, Accounts, TypeOK
  <2>4. value' = value + AtMost(pending, n) /\ pending' = pending - AtMost(pending, n)
    BY <2>1 DEF BypassAndNotify
  <2>5. /\ waiters' \subseteq Threads /\ ahead' \subseteq waiters' \X waiters'
        /\ pc' \in [Threads -> Place]
    BY <2>2, RoomType DEF Accounts, Place
  <2> QED
    BY <1>1, <2>2, <2>3, <2>4, <2>5, WakeKeepsBlocked, WakeAccounts
       DEF Accounts, TypeOK, life, bias
<1> QED
  BY <1>2, <1>3

LEMMA DecreaseAccounts ==
  ASSUME Accounts, NEW t \in Threads, NEW n \in Quota, Decrease(t, n)
  PROVE  Accounts'
<1>1. /\ value \in Nat /\ pending \in Nat /\ issued \in Nat
      /\ Cardinality(holders) \in Nat
      /\ value + pending + Cardinality(holders) = issued
      /\ n \in Nat /\ n <= value
  BY BoundsAssumption, CountType DEF Accounts, TypeOK, PermitConservation, Quota, Decrease
<1>2. /\ value' = value - n /\ issued' = issued - n
      /\ UNCHANGED <<pending, holders, room, life, bias, call>>
      /\ Goto(t, "idle")
  BY DEF Decrease
<1>3. value - n \in Nat /\ issued - n \in Nat
  BY <1>1
<1>4. (value - n) + pending + Cardinality(holders) = issued - n
  BY <1>1
<1>5. PermitConservation'
  BY <1>2, <1>4 DEF PermitConservation
<1>6. TypeOK'
  BY <1>2, <1>3, GotoType DEF Accounts, TypeOK, room, life, bias, Place
<1>7. BlockedHoldNothing'
  BY <1>2 DEF Accounts, TypeOK, BlockedHoldNothing, Goto
<1> QED
  BY <1>5, <1>6, <1>7 DEF Accounts

LEMMA NothingAccounts ==
  ASSUME Accounts, NEW t \in Threads,
         NothingToDo(t) \/ \E th \in Retunes : Retune(t, th)
  PROVE  Accounts'
<1>1. /\ UNCHANGED <<pool, room, life, call>>
      /\ \E p \in {"idle", "tune"} : Goto(t, p)
  BY DEF NothingToDo, Retune
<1>2. /\ threshold' \in Nat \union {NoBias}
      /\ arg' \in [Threads -> Nat \union {NoBias}]
  BY BoundsAssumption DEF NothingToDo, Retune, bias, Accounts, TypeOK
<1>3. TypeOK'
  BY <1>1, <1>2, NumbersKept, GotoType DEF Accounts, TypeOK, pool, room, life, Place
<1>4. BlockedHoldNothing'
  BY <1>1 DEF Accounts, TypeOK, BlockedHoldNothing, Goto, pool
<1> QED
  BY <1>1, <1>3, <1>4, NumbersKept DEF Accounts

LEMMA VanishAccounts ==
  ASSUME Accounts, NEW t \in Threads, NEW u \in Threads, BiasVanishes(t, u)
  PROVE  Accounts'
<1>1. /\ UNCHANGED <<pool, room, life>>
      /\ \E p \in {"idle", "failed"} : pc' = [pc EXCEPT ![t] = p, ![u] = "tune"]
  BY DEF BiasVanishes
<1>2. threshold' \in Nat \union {NoBias} /\ arg' \in [Threads -> Nat \union {NoBias}]
  BY DEF BiasVanishes, Accounts, TypeOK
<1>3. call' \in [quota : Nat, to : SUBSET Threads]
  <2>1. call' = NoCall \/ call' = call
    BY DEF BiasVanishes
  <2>2. NoCall \in [quota : Nat, to : SUBSET Threads]
    BY DEF NoCall
  <2> QED
    BY <2>1, <2>2 DEF Accounts, TypeOK
<1>4. pc' \in [Threads -> Place]
  BY <1>1 DEF Accounts, TypeOK, Place
<1>5. TypeOK'
  BY <1>1, <1>2, <1>3, <1>4, NumbersKept DEF Accounts, TypeOK, pool, room, life
<1>6. BlockedHoldNothing'
  BY <1>1 DEF Accounts, TypeOK, BlockedHoldNothing, pool
<1> QED
  BY <1>1, <1>5, <1>6, NumbersKept DEF Accounts

LEMMA RetuneAccounts ==
  ASSUME Accounts, NEW t \in Threads, RetuneOff(t) \/ RetuneTo(t)
  PROVE  Accounts'
<1>1. /\ UNCHANGED <<threshold, holders, issued, life, call>>
      /\ arg' \in [Threads -> Nat \union {NoBias}]
  BY DEF RetuneOff, RetuneTo, Retuning, Accounts, TypeOK
<1>2. pending \in Nat /\ value \in Nat /\ pending <= pending /\ pending - pending = 0
      /\ 0 <= pending /\ value + 0 = value /\ pending - 0 = pending
  BY DEF Accounts, TypeOK
<1>3. CASE RetuneOff(t)
  <2>1. value' = value + pending /\ pending' = pending - pending
    BY <1>2, <1>3 DEF RetuneOff
  <2>2. NotifyEverybody(t, "idle") \/ (Goto(t, "idle") /\ UNCHANGED room)
    BY <1>3 DEF RetuneOff
  <2>3. /\ waiters' \subseteq Threads /\ ahead' \subseteq waiters' \X waiters'
        /\ pc' \in [Threads -> Place]
    BY <2>2, EverybodyType, GotoType DEF Accounts, TypeOK, Place, room
  <2> QED
    BY <1>1, <1>2, <2>1, <2>2, <2>3, WakeKeepsBlocked, WakeAccounts
       DEF Accounts, TypeOK, life
<1>4. CASE RetuneTo(t)
  <2>1. \/ /\ \E W \in SUBSET waiters : WakeThenGoto(W, t, "idle")
           /\ value' = value + pending /\ pending' = pending - pending
        \/ /\ Goto(t, "idle") /\ UNCHANGED room
           /\ value' = value + 0 /\ pending' = pending - 0
    BY <1>2, <1>4 DEF RetuneTo
  <2>2. /\ waiters' \subseteq Threads /\ ahead' \subseteq waiters' \X waiters'
        /\ pc' \in [Threads -> Place]
    BY <2>1, RoomType, GotoType DEF Accounts, TypeOK, Place, room
  <2> QED
    BY <1>1, <1>2, <2>1, <2>2, WakeKeepsBlocked, WakeAccounts
       DEF Accounts, TypeOK, life
<1> QED
  BY <1>3, <1>4

LEMMA DisposeAccounts ==
  ASSUME Accounts, NEW t \in Threads, Dispose(t)
  PROVE  Accounts'
<1>1. /\ UNCHANGED <<pool, bias, call>>
      /\ disposed' \in BOOLEAN /\ gone' \in BOOLEAN
      /\ NotifyEverybody(t, "idle")
  BY DEF Dispose
<1>2. /\ waiters' \subseteq Threads /\ ahead' \subseteq waiters' \X waiters'
      /\ pc' \in [Threads -> Place]
  BY <1>1, EverybodyType DEF Accounts, Place
<1>3. TypeOK'
  BY <1>1, <1>2, NumbersKept DEF Accounts, TypeOK, pool, bias
<1>4. BlockedHoldNothing'
  BY <1>1, WakeKeepsBlocked DEF Accounts, BlockedHoldNothing, pool
<1> QED
  BY <1>1, <1>3, <1>4, NumbersKept DEF Accounts

LEMMA LateAccounts ==
  ASSUME Accounts, NEW t \in Threads,
         \/ LateCall(t) \/ LateFlush(t)
         \/ \E n \in Quota : LateRelease(t, n) \/ LateNotify(t, n)
  PROVE  Accounts'
<1>1. /\ Goto(t, "failed")
      /\ UNCHANGED <<threshold, room, life, call>>
      /\ arg' \in [Threads -> Nat \union {NoBias}]
  BY DEF LateCall, LateFlush, LateRelease, LateNotify, FailWith, Accounts, TypeOK
<1>2. /\ value' \in Nat /\ pending' \in Nat /\ issued' \in Nat
      /\ holders' \subseteq holders
      /\ PermitConservation'
  <2>1. CASE LateCall(t)
    BY <2>1, NumbersKept DEF LateCall, pool
  <2>2. CASE LateFlush(t)
    <3>1. pending \in Nat /\ pending <= pending /\ pending - pending = 0
      BY DEF Accounts, TypeOK
    <3> QED
      BY <2>2, <3>1, MoveAccounts DEF LateFlush
  <2>3. CASE \E n \in Quota : LateRelease(t, n) \/ LateNotify(t, n)
    <3>1. PICK n \in Quota : LateRelease(t, n) \/ LateNotify(t, n)
      BY <2>3
    <3>2. n \in Nat /\ n >= 1
      BY BoundsAssumption DEF Quota
    <3>3. Add(n) /\ ((n >= 1 /\ Return(t, n)) \/ Mint(n))
      BY <3>1, <3>2 DEF LateRelease, LateNotify
    <3>4. holders' \subseteq holders
      BY <3>3 DEF Return, Mint
    <3> QED
      BY <3>2, <3>3, <3>4, AddAccounts
  <2> QED
    BY <2>1, <2>2, <2>3
<1>3. TypeOK'
  BY <1>1, <1>2, GotoType DEF Accounts, TypeOK, room, life, Place
<1>4. BlockedHoldNothing'
  BY <1>1, <1>2 DEF Accounts, TypeOK, BlockedHoldNothing, Goto
<1> QED
  BY <1>2, <1>3, <1>4 DEF Accounts

LEMMA AccountsStep == Accounts /\ [Next]_vars => Accounts'
<1> SUFFICES ASSUME Accounts, [Next]_vars PROVE Accounts'
  OBVIOUS
<1>1. CASE Next
  <2>1. PICK t \in Threads : Step(t)
    BY <1>1 DEF Next
  <2> QED
    BY <2>1, AcquireAccounts, ReleaseAccounts, DeliverAccounts, BypassAccounts,
       DecreaseAccounts, NothingAccounts, VanishAccounts, RetuneAccounts, DisposeAccounts, LateAccounts
       DEF Step, CalmStep, Acquire
<1>2. CASE UNCHANGED vars
  BY <1>2 DEF vars, Accounts, TypeOK, PermitConservation, BlockedHoldNothing
<1> QED
  BY <1>1, <1>2

LEMMA AccountsInvariant == Spec => []Accounts
BY AccountsInit, AccountsStep, PTL DEF Spec

(* The state keeps its types whatever the clients do: in particular none of *)
(* the three permit counters ever becomes negative.                         *)
THEOREM TypeCorrect == Spec => []TypeOK
<1>1. Accounts => TypeOK
  BY DEF Accounts
<1> QED
  BY <1>1, AccountsInvariant, PTL

(* No permit is lost or made up by any of acquire, release, notify, the    *)
(* flushes, a retuning, a timeout, an exception of a callback or disposal. *)
THEOREM Conservation == Spec => []PermitConservation
<1>1. Accounts => PermitConservation
  BY DEF Accounts
<1> QED
  BY <1>1, AccountsInvariant, PTL

-----------------------------------------------------------------------------
(* FlowRegulator implements PermitPool.                                    *)

LEMMA PoolInit == Init => Pool!Init
BY BoundsAssumption DEF Init, Pool!Init

LEMMA PoolStep == Accounts /\ [Next]_vars => [Pool!Next]_(Pool!vars)
<1> SUFFICES ASSUME Accounts, [Next]_vars PROVE Pool!Next \/ UNCHANGED Pool!vars
  OBVIOUS
<1>0. /\ value \in Nat /\ pending \in Nat /\ issued \in Nat
      /\ holders \subseteq Threads
      /\ value + pending + Cardinality(holders) = issued
      /\ Cardinality(holders) \in Nat
  BY CountType DEF Accounts, TypeOK, PermitConservation
<1>1. ASSUME UNCHANGED <<pool, life>>
      PROVE  UNCHANGED Pool!vars
  BY <1>1 DEF pool, life, Pool!vars
<1>2. ASSUME NEW t \in Threads, Grant(t)
      PROVE  Pool!Next
  <2>1. t \notin holders
    BY <1>2 DEF Grant, Trying, Accounts, BlockedHoldNothing
  <2>2. value + pending > 0 /\ (value - 1) + pending = (value + pending) - 1
    BY <1>0, <1>2 DEF Grant
  <2>3. /\ ~disposed /\ disposed' = disposed /\ issued' = issued
        /\ value' = value - 1 /\ pending' = pending
        /\ holders' = holders \union {t}
    BY <1>2 DEF Grant, life
  <2>4. Pool!Take(t)
    BY <2>1, <2>2, <2>3 DEF Pool!Take
  <2> QED
    BY <2>4 DEF Pool!Next
<1>3. ASSUME NEW t \in Threads, FlushAndGrant(t)
      PROVE  Pool!Next
  <2>1. t \notin holders
    BY <1>3 DEF FlushAndGrant, Trying, Accounts, BlockedHoldNothing
  <2>2. value + pending > 0 /\ (pending - 1) + 0 = (value + pending) - 1
    BY <1>0, <1>3 DEF FlushAndGrant, FlushDue
  <2>3. /\ ~disposed /\ disposed' = disposed /\ issued' = issued
        /\ value' = pending - 1 /\ pending' = 0
        /\ holders' = holders \union {t}
    BY <1>3 DEF FlushAndGrant, life
  <2>4. Pool!Take(t)
    BY <2>1, <2>2, <2>3 DEF Pool!Take
  <2> QED
    BY <2>4 DEF Pool!Next
<1>4. ASSUME NEW n \in Nat, Add(n)
      PROVE  value' + pending' = (value + pending) + n
  BY <1>0, <1>4 DEF Add
<1>5. ASSUME NEW t \in Threads, NEW n \in Quota, Add(n), Return(t, n), disposed' = disposed
      PROVE  Pool!Next
  <2>1. n \in Nat /\ n >= 1 /\ n \in 0 .. MaxPermits
    BY BoundsAssumption DEF Quota
  <2>2. value' + pending' = (value + pending) + n
    BY <1>4, <1>5, <2>1
  <2>3. CASE t \in holders
    <3>1. Pool!Give(t, n)
      BY <1>5, <2>1, <2>2, <2>3 DEF Pool!Give, Return
    <3> QED
      BY <2>1, <3>1 DEF Pool!Next
  <2>4. CASE t \notin holders
    <3>1. holders' = holders /\ issued' = issued + n
      BY <1>0, <1>5, <2>1, <2>4 DEF Return
    <3>2. Pool!Issue(n)
      BY <1>5, <2>2, <3>1 DEF Pool!Issue
    <3> QED
      BY <2>1, <3>2 DEF Pool!Next
  <2> QED
    BY <2>3, <2>4
<1>6. ASSUME NEW n \in Nat, n <= MaxPermits, Add(n), Mint(n), disposed' = disposed
      PROVE  Pool!Next
  <2>1. n \in 0 .. MaxPermits
    BY <1>6, BoundsAssumption
  <2>2. value' + pending' = (value + pending) + n
    BY <1>4, <1>6
  <2>3. Pool!Issue(n)
    BY <1>6, <2>2 DEF Pool!Issue, Mint
  <2> QED
    BY <2>1, <2>3 DEF Pool!Next
<1>7. ASSUME NEW n \in Nat, NEW v, NEW q, v = value + n, q = pending - n
      PROVE  v + q = value + pending
  BY <1>0, <1>7
<1>8. ASSUME NEW t \in Threads, Step(t)
      PROVE  Pool!Next \/ UNCHANGED Pool!vars
  <2>1. CASE \/ Enter(t) \/ TurnAway(t) \/ GiveUp(t) \/ Park(t) \/ Expire(t) \/ Withdraw(t)
             \/ NothingToDo(t) \/ DeliverClassic(t) \/ LateCall(t)
             \/ \E th \in Retunes : Retune(t, th)
             \/ \E u \in Threads : BiasVanishes(t, u)
    BY <1>1, <2>1 DEF Enter, TurnAway, GiveUp, Park, Expire, Withdraw, NothingToDo,
                      DeliverClassic, LateCall, FailWith, Retune, BiasVanishes
  <2>2. CASE Grant(t) \/ FlushAndGrant(t)
    BY <1>2, <1>3, <2>2
  <2>3. CASE \E n \in Quota, to \in AllIds : Release(t, n, to) \/ Notify(t, n, to)
    <3>1. PICK n \in Quota, to \in AllIds : Release(t, n, to) \/ Notify(t, n, to)
      BY <2>3
    <3>2. n \in Nat /\ n <= MaxPermits
      BY BoundsAssumption DEF Quota
    <3>3. Add(n) /\ (Return(t, n) \/ Mint(n)) /\ disposed' = disposed
      BY <3>1 DEF Release, Notify, Begin, life
    <3> QED
      BY <1>5, <1>6, <3>2, <3>3
  <2>4. CASE \E to \in AllIds : NotifyAll(t, to)
    <3>1. PICK to \in AllIds : NotifyAll(t, to)
      BY <2>4
    <3> DEFINE n == Cardinality(waiters \intersect to)
    <3>2. n \in Nat
      BY CountType DEF Accounts, TypeOK
    <3>3. Add(n) /\ Mint(n) /\ disposed' = disposed
      BY <3>1 DEF NotifyAll, Begin, life
    <3> HIDE DEF n
    <3>4. n <= MaxPermits
      BY <1>0, <3>2, <3>3, BoundsAssumption DEF Mint
    <3> QED
      BY <1>6, <3>2, <3>3, <3>4
  <2>5. CASE DeliverBiased(t)
    <3>1. Flushable(call.quota) \in Nat
      BY <2>5, FlushableBound DEF DeliverBiased, Accounts, TypeOK
    <3>2. value' + pending' = value + pending
      BY <1>7, <2>5, <3>1 DEF DeliverBiased
    <3> QED
      BY <2>5, <3>2 DEF DeliverBiased, life, Pool!vars
  <2>6. CASE Bypass(t) \/ \E n \in Quota, to \in AllIds : BypassAndNotify(t, n, to)
    <3>1. \E n \in Nat : value' = value + n /\ pending' = pending - n
      <4>1. pending - pending = 0
        BY <1>0
      <4>2. \A n \in Quota : AtMost(pending, n) \in Nat
        BY <1>0, BoundsAssumption DEF AtMost, Quota
      <4> QED
        BY <1>0, <2>6, <4>1, <4>2 DEF Bypass, BypassAndNotify
    <3>2. value' + pending' = value + pending
      BY <1>7, <3>1
    <3> QED
      BY <2>6, <3>2 DEF Bypass, BypassAndNotify, life, Pool!vars
  <2>7. CASE \E n \in Quota : Decrease(t, n)
    <3>1. PICK n \in Quota : Decrease(t, n)
      BY <2>7
    <3>2. n \in Nat /\ n \in 0 .. MaxPermits
      BY BoundsAssumption DEF Quota
    <3>3. /\ value' = value - n /\ pending' = pending /\ issued' = issued - n
          /\ holders' = holders /\ disposed' = disposed /\ n <= value
      BY <3>1 DEF Decrease, life
    <3>4. /\ n <= value + pending
          /\ (value - n) + pending = (value + pending) - n
      BY <1>0, <3>2, <3>3
    <3>5. Pool!Retire(n)
      BY <3>3, <3>4 DEF Pool!Retire
    <3> QED
      BY <3>2, <3>5 DEF Pool!Next
  <2>8. CASE RetuneOff(t) \/ RetuneTo(t)
    <3>1. \E n \in Nat : value' = value + n /\ pending' = pending - n
      <4>1. pending - pending = 0 /\ value + 0 = value /\ pending - 0 = pending
        BY <1>0
      <4> QED
        BY <1>0, <2>8, <4>1 DEF RetuneOff, RetuneTo
    <3>2. value' + pending' = value + pending
      BY <1>7, <3>1
    <3> QED
      BY <2>8, <3>2 DEF RetuneOff, RetuneTo, Retuning, life, Pool!vars
  <2>9. CASE Dispose(t)
    BY <2>9 DEF Dispose, pool, Pool!Close, Pool!Next
  <2>10. CASE LateFlush(t)
    <3>1. /\ value' = value + pending /\ pending' = 0
          /\ UNCHANGED <<holders, issued, disposed>>
      BY <2>10 DEF LateFlush, FailWith, life
    <3>2. (value + pending) + 0 = value + pending
      BY <1>0
    <3> QED
      BY <3>1, <3>2 DEF Pool!vars
  <2>11. CASE \E n \in Quota : LateRelease(t, n) \/ LateNotify(t, n)
    <3>1. PICK n \in Quota : LateRelease(t, n) \/ LateNotify(t, n)
      BY <2>11
    <3>2. n \in Nat /\ n <= MaxPermits
      BY BoundsAssumption DEF Quota
    <3>3. Add(n) /\ (Return(t, n) \/ Mint(n)) /\ disposed' = disposed
      BY <3>1 DEF LateRelease, LateNotify, FailWith, life
    <3> QED
      BY <1>5, <1>6, <3>2, <3>3
  <2> QED
    BY <1>8, <2>1, <2>2, <2>3, <2>4, <2>5, <2>6, <2>7, <2>8, <2>9, <2>10, <2>11
       DEF Step, CalmStep, Acquire, Deliver
<1> QED
  BY <1>1, <1>8 DEF Next, vars, pool, life

(* With its queue and its bias abstracted away the regulator is a plain    *)
(* permit pool: a permit is granted only while one is free and before      *)
(* disposal, and only clients change how many there are.                   *)
THEOREM Refinement == Spec => ImplementsPool
BY PoolInit, PoolStep, AccountsInvariant, PTL DEF Spec, ImplementsPool, Pool!Spec

-----------------------------------------------------------------------------
(* The lock and the end of the regulator.                                  *)

\* One thread at a time is between the halves of a call, and a disposed
\* regulator has an empty queue for good.
Discipline ==
  /\ \A t, u \in Threads : pc[t] = "busy" /\ pc[u] = "busy" => t = u
  /\ gone => disposed
  /\ disposed => waiters = {}

\* All a step does to the waiting room and the places of the threads.
Movement(t) ==
  \/ /\ UNCHANGED room
     /\ \E p \in Place \ {"busy", "wait", "woken"} : Goto(t, p)
  \/ /\ UNCHANGED room
     /\ \E p \in {"idle", "failed"}, u \in Threads :
          pc' = [pc EXCEPT ![t] = p, ![u] = "tune"]
  \/ LockFree /\ Goto(t, "busy") /\ UNCHANGED room /\ ~gone
  \/ LockFree /\ ~disposed /\ Enqueue(t) /\ Goto(t, "wait")
  \/ \E p \in {"idle", "failed"} : LockFree /\ Remove({t}) /\ Goto(t, p)
  \/ \E W \in SUBSET waiters : WakeThenGoto(W, t, "idle")
  \/ LockFree /\ NotifyEverybody(t, "idle")

LEMMA StepMoves ==
  ASSUME NEW t \in Threads, Step(t)
  PROVE  Movement(t)
<1>1. CASE Enter(t) \/ Acquire(t) \/ Expire(t) \/ Withdraw(t)
  BY <1>1 DEF Movement, Place, Enter, Acquire, Grant, TurnAway, GiveUp, FlushAndGrant, Park,
              Expire, Withdraw, Trying
<1>2. CASE \/ \E n \in Quota, to \in AllIds : Release(t, n, to) \/ Notify(t, n, to)
           \/ \E to \in AllIds : NotifyAll(t, to)
  BY <1>2 DEF Movement, Release, Notify, NotifyAll, Inside, Begin
<1>3. CASE \/ Deliver(t) \/ Bypass(t) \/ Dispose(t)
           \/ \E n \in Quota, to \in AllIds : BypassAndNotify(t, n, to)
  BY <1>3 DEF Movement, Deliver, DeliverClassic, DeliverBiased, Bypass, Dispose,
              BypassAndNotify, Inside
<1>4. CASE \/ NothingToDo(t) \/ RetuneOff(t) \/ RetuneTo(t)
           \/ \E n \in Quota : Decrease(t, n)
           \/ \E th \in Retunes : Retune(t, th)
  BY <1>4 DEF Movement, Place, NothingToDo, RetuneOff, RetuneTo, Retuning, Decrease, Retune
<1>5. CASE \/ LateCall(t) \/ LateFlush(t)
           \/ \E n \in Quota : LateRelease(t, n) \/ LateNotify(t, n)
  BY <1>5 DEF Movement, Place, LateCall, LateFlush, LateRelease, LateNotify, FailWith
<1>6. CASE \E u \in Threads : BiasVanishes(t, u)
  BY <1>6 DEF Movement, BiasVanishes
<1> QED
  BY <1>1, <1>2, <1>3, <1>4, <1>5, <1>6 DEF Step, CalmStep, Acquire

\* Only dispose ends the regulator, and it empties the queue.
LEMMA StepEnds ==
  ASSUME NEW t \in Threads, Step(t)
  PROVE  \/ UNCHANGED life
         \/ disposed' = TRUE /\ NotifyEverybody(t, "idle")
BY DEF Step, CalmStep, Enter, Acquire, Grant, TurnAway, GiveUp, FlushAndGrant, Park, Expire, Withdraw,
       Release, Notify, NotifyAll, Begin, NothingToDo, Deliver, DeliverClassic, DeliverBiased,
       Bypass, BypassAndNotify, Decrease, Retune, RetuneOff, RetuneTo, Retuning, Dispose,
       LateCall, LateFlush, LateRelease, LateNotify, FailWith, BiasVanishes

LEMMA DisciplineStep ==
  ASSUME Accounts, Discipline, [Next]_vars
  PROVE  Discipline'
<1>1. CASE UNCHANGED vars
  BY <1>1 DEF vars, Discipline
<1>2. CASE Next
  <2>1. PICK t \in Threads : Step(t)
    BY <1>2 DEF Next
  <2>2. Movement(t)
    BY <2>1, StepMoves
  <2>3. \A u, v \in Threads : pc'[u] = "busy" /\ pc'[v] = "busy" => u = v
    BY <2>2 DEF Movement, Discipline, Accounts, TypeOK, Goto, WakeThenGoto, NotifyEverybody,
                LockFree, Place
  <2>4. ASSUME NotifyEverybody(t, "idle")
        PROVE  waiters' = {}
    BY <2>4 DEF NotifyEverybody, WakeThenGoto, Remove
  <2>5. ASSUME UNCHANGED life
        PROVE  (gone => disposed)' /\ (disposed => waiters = {})'
    BY <2>2, <2>4, <2>5 DEF Movement, Discipline, life, room, Remove, WakeThenGoto
  <2>6. ASSUME disposed' = TRUE, NotifyEverybody(t, "idle")
        PROVE  (gone => disposed)' /\ (disposed => waiters = {})'
    BY <2>4, <2>6
  <2> QED
    BY <2>1, <2>3, <2>5, <2>6, StepEnds DEF Discipline
<1> QED
  BY <1>1, <1>2

LEMMA DisciplineInvariant == Spec => []Discipline
<1>1. Init => Discipline
  BY DEF Init, Discipline
<1>2. Accounts /\ Discipline /\ [Next]_vars => Discipline'
  BY DisciplineStep
<1> QED
  BY <1>1, <1>2, AccountsInvariant, PTL DEF Spec

(* Unless a callback raises inside notify_all, no thread is ever blocked   *)
(* where notifiers and dispose cannot find it.                             *)
THEOREM Reachable == ASSUME ~Faulty PROVE Spec => []ParkedIsQueued
<1>1. Init => ParkedIsQueued
  BY DEF Init, ParkedIsQueued
<1>2. Accounts /\ ParkedIsQueued /\ [Next]_vars => ParkedIsQueued'
  <2> SUFFICES ASSUME Accounts, ParkedIsQueued, [Next]_vars PROVE ParkedIsQueued'
    OBVIOUS
  <2>1. CASE UNCHANGED vars
    BY <2>1 DEF vars, ParkedIsQueued
  <2>2. CASE Next
    <3>1. PICK t \in Threads : Step(t)
      BY <2>2 DEF Next
    <3>2. Movement(t)
      BY <3>1, StepMoves
    <3> QED
      BY <3>2 DEF Movement, ParkedIsQueued, Accounts, TypeOK, Goto, WakeThenGoto, Remove,
                  Enqueue, NotifyEverybody, room, Place
  <2> QED
    BY <2>1, <2>2
<1> QED
  BY <1>1, <1>2, AccountsInvariant, PTL DEF Spec

-----------------------------------------------------------------------------
(* Pending permits stay within the reserve, when clients name no targets   *)
(* and leave the threshold alone.  (A targeted notification may wake fewer *)
(* waiters than the permits it lets go.)                                   *)

\* PendingOnlyInReserve, and why it is restored when a releasing call ends:
\* what its first half left pending above the reserve is at most its quota.
ReserveInv ==
  threshold # NoBias /\ pending > 0 =>
    \/ Cardinality(waiters) <= threshold
    \/ ~LockFree /\ pending <= call.quota

Untargeted == Targets = {} /\ Retunes = {}

LEMMA CountSubset ==
  ASSUME NEW S, S \subseteq Threads, NEW W, W \subseteq S
  PROVE  /\ Cardinality(W) \in Nat /\ Cardinality(S) \in Nat
         /\ Cardinality(W) <= Cardinality(S)
BY CountType, FS_Subset

\* Waiters only leave: the reserve keeps what it may.
LEMMA ReserveShrinks ==
  ASSUME Accounts, ReserveInv, LockFree, threshold' = threshold,
         waiters' \subseteq waiters, pending' > 0 => pending > 0
  PROVE  ReserveInv'
<1>1. /\ Cardinality(waiters') \in Nat /\ Cardinality(waiters) \in Nat
      /\ Cardinality(waiters') <= Cardinality(waiters)
  BY CountSubset DEF Accounts, TypeOK
<1> SUFFICES ASSUME threshold # NoBias, pending > 0
             PROVE  Cardinality(waiters') <= threshold
  BY DEF ReserveInv
<1>2. Cardinality(waiters) <= threshold /\ threshold \in Nat
  BY DEF ReserveInv, Accounts, TypeOK
<1> QED
  BY <1>1, <1>2

\* Nothing the invariant looks at changes, whoever has the lock.
LEMMA ReserveKept ==
  ASSUME ReserveInv, UNCHANGED <<threshold, pending, waiters, call>>,
         LockFree' = LockFree
  PROVE  ReserveInv'
BY DEF ReserveInv

LEMMA ReserveBegin ==
  ASSUME Accounts, Untargeted, ReserveInv, NEW t \in Threads,
         NEW n \in Nat, NEW q \in Nat, n <= q, LockFree,
         Add(n), Begin(t, q, Threads)
  PROVE  ReserveInv'
<1>1. UNCHANGED <<waiters, threshold>> /\ call' = [quota |-> q, to |-> Threads]
  BY DEF Begin, room, bias
<1>2. ~LockFree'
  BY DEF Begin, Goto, LockFree, Accounts, TypeOK
<1> SUFFICES ASSUME threshold # NoBias, pending' > 0,
                    ~(Cardinality(waiters) <= threshold)
             PROVE  pending' <= q
  BY <1>1, <1>2 DEF ReserveInv
<1>3. pending \in Nat /\ pending' = pending + n
  BY DEF Add, Accounts, TypeOK
<1>4. pending = 0
  BY <1>3 DEF ReserveInv
<1> QED
  BY <1>3, <1>4

LEMMA ReserveDeliver ==
  ASSUME Accounts, Untargeted, ReserveInv, NEW t \in Threads, DeliverBiased(t),
         call.to = Threads
  PROVE  ReserveInv'
<1> DEFINE n == Flushable(call.quota)
<1>0. call.quota \in Nat /\ threshold \in Nat /\ pending \in Nat /\ waiters \subseteq Threads
  BY DEF Accounts, TypeOK, DeliverBiased
<1>1. Cardinality(waiters) \in Nat
  BY <1>0, CountType
<1>2. n \in Nat
  BY <1>0, FlushableBound DEF Accounts, DeliverBiased
<1>3. PICK W \in SUBSET waiters : Selected(W, n, Threads) /\ WakeThenGoto(W, t, "idle")
  BY DEF DeliverBiased
<1>4. /\ Cardinality(W) = AtMost(n, Cardinality(waiters))
      /\ Cardinality(waiters \ W) = Cardinality(waiters) - Cardinality(W)
  BY <1>2, <1>3, SelectedCount DEF Accounts
<1>5. waiters' = waiters \ W /\ threshold' = threshold /\ pending' = pending - n
  BY <1>3 DEF WakeThenGoto, Remove, DeliverBiased, bias
<1> SUFFICES ASSUME pending - n > 0
             PROVE  Cardinality(waiters \ W) <= threshold
  BY <1>5 DEF ReserveInv
<1>6. CASE Cardinality(waiters) <= threshold
  BY <1>0, <1>1, <1>4, <1>6, CountSubset
<1>7. CASE ~(Cardinality(waiters) <= threshold)
  <2>1. pending <= call.quota /\ pending > 0
    BY <1>0, <1>2, <1>7 DEF ReserveInv, DeliverBiased
  <2>2. n = Cardinality(waiters) - threshold
    BY <1>0, <1>1, <1>7, <2>1 DEF Flushable, Excess, AtMost
  <2>3. Cardinality(W) = n
    BY <1>0, <1>1, <1>4, <1>7, <2>2 DEF AtMost
  <2> QED
    BY <1>0, <1>1, <1>4, <2>2, <2>3
<1> QED
  BY <1>6, <1>7

\* Without targets every notification is for anybody.
CallForAll == \A t \in Threads : pc[t] = "busy" => call.to = Threads

\* Between the halves of a call the other threads can only enter or expire.
LEMMA WhileBusy ==
  ASSUME NEW t \in Threads, Step(t), ~LockFree, Retunes = {}
  PROVE  \/ /\ UNCHANGED <<pool, room, life, bias, call>>
            /\ \/ pc[t] = "idle" /\ Goto(t, "lock")
               \/ pc[t] = "wait" /\ t \in Timed /\ Goto(t, "late")
         \/ Deliver(t)
BY DEF Step, CalmStep, Enter, Acquire, Grant, TurnAway, GiveUp, FlushAndGrant, Park, Trying, Expire,
       Withdraw, Release, Notify, NotifyAll, Inside, NothingToDo, Bypass, BypassAndNotify,
       Decrease, Retune, RetuneOff, RetuneTo, Retuning, Dispose, LateCall, LateFlush,
       LateRelease, LateNotify, FailWith

LEMMA CallForAllStep ==
  ASSUME Accounts, Discipline, Untargeted, CallForAll, [Next]_vars
  PROVE  CallForAll'
<1>1. CASE UNCHANGED vars
  BY <1>1 DEF vars, CallForAll
<1>2. CASE Next
  <2>1. PICK t \in Threads : Step(t)
    BY <1>2 DEF Next
  <2>2. CASE ~LockFree
    <3>1. CASE UNCHANGED call
      BY <2>1, <2>2, <3>1, WhileBusy DEF CallForAll, Untargeted, Goto, Deliver, DeliverClassic,
         DeliverBiased, WakeThenGoto, Accounts, TypeOK
    <3>2. CASE Deliver(t)
      BY <3>2 DEF CallForAll, Deliver, DeliverClassic, DeliverBiased, WakeThenGoto, Discipline,
         Accounts, TypeOK
    <3> QED
      BY <2>1, <2>2, <3>1, <3>2, WhileBusy DEF Untargeted
  <2>3. CASE LockFree
    <3>1. CASE \E q : Begin(t, q, Threads)
      BY <3>1 DEF CallForAll, Begin
    <3>2. CASE ~\E q : Begin(t, q, Threads)
      <4>1. \A u \in Threads : pc'[u] # "busy"
        <5>1. /\ ~\E n \in Quota, to \in AllIds : Release(t, n, to) \/ Notify(t, n, to)
              /\ ~\E to \in AllIds : NotifyAll(t, to)
          BY <3>2 DEF Release, Notify, NotifyAll, AllIds, Untargeted
        <5>2. ~Goto(t, "busy")
          BY <2>1, <5>1 DEF Step, CalmStep, Accounts, TypeOK, Goto, WakeThenGoto, NotifyEverybody,
             Enter, Acquire, Grant, TurnAway, GiveUp, FlushAndGrant, Park, Expire, Withdraw,
             NothingToDo, Deliver, DeliverClassic, DeliverBiased, Bypass, BypassAndNotify,
             Decrease, Retune, RetuneOff, RetuneTo, Dispose, LateCall, LateFlush,
             LateRelease, LateNotify, FailWith, Untargeted
        <5>3. Movement(t)
          BY <2>1, StepMoves
        <5> QED
          BY <2>3, <5>2, <5>3 DEF Movement, LockFree, Goto, WakeThenGoto, NotifyEverybody,
             Accounts, TypeOK, Place
      <4> QED
        BY <4>1 DEF CallForAll
    <3> QED
      BY <3>1, <3>2
  <2> QED
    BY <2>2, <2>3
<1> QED
  BY <1>1, <1>2

LEMMA ReserveStep ==
  ASSUME Accounts, Discipline, Untargeted, CallForAll, ReserveInv, [Next]_vars
  PROVE  ReserveInv'
<1>1. CASE UNCHANGED vars
  BY <1>1, ReserveKept DEF vars, LockFree
<1>2. CASE Next
  <2>1. PICK t \in Threads : Step(t)
    BY <1>2 DEF Next
  <2>2. CASE ~LockFree /\ ~Deliver(t)
    <3>1. /\ UNCHANGED <<pool, room, life, bias, call>>
          /\ \/ pc[t] = "idle" /\ Goto(t, "lock")
             \/ pc[t] = "wait" /\ t \in Timed /\ Goto(t, "late")
      BY <2>1, <2>2, WhileBusy DEF Untargeted
    <3>2. LockFree' = LockFree
      BY <3>1 DEF LockFree, Goto, Accounts, TypeOK
    <3> QED
      BY <3>1, <3>2, ReserveKept DEF pool, room, bias
  <2>3. CASE DeliverBiased(t)
    BY <2>3, ReserveDeliver DEF CallForAll, DeliverBiased
  <2>4. CASE DeliverClassic(t)
    BY <2>4 DEF DeliverClassic, ReserveInv, bias
  <2>5. CASE \/ \E n \in Quota, to \in AllIds : Release(t, n, to) \/ Notify(t, n, to)
             \/ \E to \in AllIds : NotifyAll(t, to)
    <3>1. Cardinality(waiters) \in Nat /\ waiters \intersect Threads = waiters
      BY CountType DEF Accounts, TypeOK
    <3>2. \E n, q \in Nat : n <= q /\ Add(n) /\ Begin(t, q, Threads)
      BY <2>5, <3>1, BoundsAssumption DEF Untargeted, AllIds, Quota, Release, Notify, NotifyAll
    <3>3. LockFree
      BY <2>5 DEF Release, Notify, NotifyAll, Inside
    <3> QED
      BY <3>2, <3>3, ReserveBegin
  <2>6. CASE LockFree /\ Park(t)
    <3> SUFFICES ASSUME threshold # NoBias, pending > 0
                 PROVE  Cardinality(waiters') <= threshold
      BY <2>6 DEF Park, ReserveInv, bias, pool
    <3>1. ~(Cardinality(waiters) + 1 > threshold)
      BY <2>6 DEF Park, FlushDue
    <3>2. Cardinality(waiters) \in Nat /\ threshold \in Nat
      BY CountType DEF Accounts, TypeOK
    <3>3. CASE t \in waiters
      <4>1. waiters' = waiters
        BY <2>6, <3>3 DEF Park, Enqueue
      <4> QED
        BY <3>1, <3>2, <4>1
    <3>4. CASE t \notin waiters
      <4>1. waiters' = waiters \union {t}
        BY <2>6 DEF Park, Enqueue
      <4>2. Cardinality(waiters') = Cardinality(waiters) + 1
        BY <3>4, <4>1, CountAdd DEF Accounts, TypeOK
      <4> QED
        BY <3>1, <3>2, <4>2
    <3> QED
      BY <3>3, <3>4
  <2>7. CASE /\ LockFree /\ ~Deliver(t) /\ ~Park(t)
             /\ ~\E n \in Quota, to \in AllIds : Release(t, n, to) \/ Notify(t, n, to)
             /\ ~\E to \in AllIds : NotifyAll(t, to)
    <3>1. threshold' = threshold
      BY <2>1, <2>7 DEF Step, CalmStep, Untargeted, bias, Enter, Acquire, Grant, TurnAway, GiveUp,
         FlushAndGrant, Expire, Withdraw, NothingToDo, Bypass, BypassAndNotify, Decrease,
         RetuneOff, RetuneTo, Retuning, Dispose, LateCall, LateFlush, LateRelease, LateNotify,
         FailWith
    <3>2. waiters' \subseteq waiters
      BY <2>1, <2>7 DEF Step, CalmStep, Untargeted, room, Enter, Acquire, Grant, TurnAway, GiveUp,
         FlushAndGrant, Expire, Withdraw, NothingToDo, Bypass, BypassAndNotify, Decrease,
         RetuneOff, RetuneTo, Dispose, LateCall, LateFlush, LateRelease, LateNotify,
         FailWith, WakeThenGoto, NotifyEverybody, Remove
    <3>3. CASE \E n \in Quota : LateRelease(t, n) \/ LateNotify(t, n)
      <4>1. waiters' = {}
        BY <3>3 DEF LateRelease, LateNotify, FailWith, Discipline, room
      <4>2. Cardinality(waiters') = 0
        BY <4>1, FS_EmptySet
      <4>3. threshold # NoBias => 0 <= threshold
        BY DEF Accounts, TypeOK
      <4> QED
        BY <3>1, <4>2, <4>3 DEF ReserveInv
    <3>4. CASE ~\E n \in Quota : LateRelease(t, n) \/ LateNotify(t, n)
      <4>1. pending' > 0 => pending > 0
        <5>1. pending \in Nat
          BY DEF Accounts, TypeOK
        <5> QED
          BY <2>1, <2>7, <3>4, <5>1, BoundsAssumption DEF Step, CalmStep, Untargeted, pool, Enter, Acquire,
             Grant, TurnAway, GiveUp, FlushAndGrant, Expire, Withdraw, NothingToDo, Bypass,
             BypassAndNotify, Decrease, RetuneOff, RetuneTo, Dispose, LateCall, LateFlush
      <4> QED
        BY <2>7, <3>1, <3>2, <4>1, ReserveShrinks
    <3> QED
      BY <3>3, <3>4
  <2> QED
    BY <2>2, <2>3, <2>4, <2>5, <2>6, <2>7 DEF Deliver
<1> QED
  BY <1>1, <1>2

(* Permits are held back only while no more than threshold threads wait,   *)
(* with timeouts, raising callbacks and disposal at any moment.            *)
THEOREM ReserveRespected ==
  ASSUME Targets = {}, Retunes = {}
  PROVE  Spec => []PendingOnlyInReserve
<1>1. Init => CallForAll /\ ReserveInv
  BY DEF Init, CallForAll, ReserveInv
<1>2. Accounts /\ Discipline /\ CallForAll /\ ReserveInv /\ [Next]_vars
        => CallForAll' /\ ReserveInv'
  BY CallForAllStep, ReserveStep DEF Untargeted
<1>3. ReserveInv => PendingOnlyInReserve
  BY DEF ReserveInv, PendingOnlyInReserve
<1> QED
  BY <1>1, <1>2, <1>3, AccountsInvariant, DisciplineInvariant, PTL DEF Spec

-----------------------------------------------------------------------------
(* No permit is stranded, when moreover nobody gives up waiting and no     *)
(* callback raises.                                                        *)

Patient == Untargeted /\ Timed = {} /\ ~Faulty

\* The queue and the blocked threads are the same: nobody is queued who
\* could not use a notification, nobody blocked who would not get one.
QueueIsParked == waiters = In("wait")

\* What a call that added permits to the counter has still to notify.
Due == IF ~LockFree /\ threshold = NoBias THEN call.quota ELSE 0

\* NoStrandedPermit with the permits of an unfinished call accounted for.
SupplyInv == waiters = {} \/ value <= Cardinality(In("woken")) + Due

LEMMA QueueIsParkedStep ==
  ASSUME Accounts, Patient, QueueIsParked, [Next]_vars
  PROVE  QueueIsParked'
<1>1. CASE UNCHANGED vars
  BY <1>1 DEF vars, QueueIsParked, In
<1>2. CASE Next
  <2>1. PICK t \in Threads : Step(t)
    BY <1>2 DEF Next
  <2>2. CASE /\ UNCHANGED room
             /\ pc[t] # "wait"
             /\ \E p \in Place \ {"wait"} : Goto(t, p)
    BY <2>2 DEF QueueIsParked, In, room, Goto, Accounts, TypeOK
  <2>3. CASE Park(t)
    BY <2>3 DEF Park, Enqueue, QueueIsParked, In, Goto, Accounts, TypeOK
  <2>4. CASE \E W \in SUBSET waiters : pc[t] # "wait" /\ WakeThenGoto(W, t, "idle")
    BY <2>4 DEF QueueIsParked, In, WakeThenGoto, Remove, Accounts, TypeOK
  <2>5. CASE pc[t] # "wait" /\ NotifyEverybody(t, "idle")
    BY <2>5 DEF QueueIsParked, In, NotifyEverybody, WakeThenGoto, Remove, Accounts, TypeOK,
                Patient
  <2>6. CASE pc[t] = "late" /\ Withdraw(t)
    BY <2>6 DEF Withdraw, QueueIsParked, In, Remove, Goto, Accounts, TypeOK
  <2>7. pc[t] # "wait"
    BY <2>1 DEF Patient, Untargeted, Step, CalmStep, Enter, Acquire, Grant, TurnAway, GiveUp,
       FlushAndGrant, Park, Trying, Expire, Withdraw, Release, Notify, NotifyAll, Inside,
       NothingToDo, Deliver, DeliverClassic, DeliverBiased, Bypass, BypassAndNotify, Decrease,
       Retune, RetuneOff, RetuneTo, Retuning, Dispose, LateCall, LateFlush, LateRelease,
       LateNotify, FailWith
  <2>8. CASE /\ ~Park(t) /\ ~Withdraw(t)
             /\ ~\E W \in SUBSET waiters : WakeThenGoto(W, t, "idle")
             /\ ~NotifyEverybody(t, "idle")
    <3>1. UNCHANGED room /\ \E p \in Place \ {"wait"} : Goto(t, p)
      BY <2>1, <2>8 DEF Patient, Untargeted, Step, CalmStep, Enter, Acquire, Grant, TurnAway, GiveUp,
       FlushAndGrant, Expire, Release, Notify, NotifyAll, Begin, Place,
       NothingToDo, Deliver, DeliverClassic, DeliverBiased, Bypass, BypassAndNotify, Decrease,
       Retune, RetuneOff, RetuneTo, Dispose, LateCall, LateFlush, LateRelease,
       LateNotify, FailWith
    <3> QED
      BY <2>2, <2>7, <3>1
  <2>9. CASE Withdraw(t)
    BY <2>6, <2>9 DEF Withdraw
  <2> QED
    BY <2>3, <2>4, <2>5, <2>7, <2>8, <2>9
<1> QED
  BY <1>1, <1>2

LEMMA WokenType ==
  ASSUME Accounts
  PROVE  In("woken") \subseteq Threads /\ Cardinality(In("woken")) \in Nat
BY CountType DEF In

\* A thread that was not woken goes elsewhere: as many are woken as before.
LEMMA WokenSame ==
  ASSUME Accounts, NEW t \in Threads, NEW p \in Place \ {"woken"}, Goto(t, p), pc[t] # "woken"
  PROVE  In("woken")' = In("woken")
BY DEF In, Goto, Accounts, TypeOK

\* A woken thread goes on: there is one less.
LEMMA WokenLess ==
  ASSUME Accounts, NEW t \in Threads, NEW p \in Place \ {"woken"}, Goto(t, p), pc[t] = "woken"
  PROVE  Cardinality(In("woken")') = Cardinality(In("woken")) - 1
<1>1. In("woken")' = In("woken") \ {t} /\ t \in In("woken") /\ In("woken") \subseteq Threads
  BY DEF In, Goto, Accounts, TypeOK
<1> QED
  BY <1>1, CountDrop

\* Every notification of a queued thread wakes one more.
LEMMA WokenMore ==
  ASSUME Accounts, QueueIsParked, NEW t \in Threads, NEW W \in SUBSET waiters,
         WakeThenGoto(W, t, "idle"), pc[t] # "wait"
  PROVE  /\ pc[t] # "woken" => Cardinality(In("woken")') = Cardinality(In("woken")) + Cardinality(W)
         /\ pc[t] = "woken" => Cardinality(In("woken")') = Cardinality(In("woken")) - 1 + Cardinality(W)
<1>1. W \subseteq Threads /\ In("woken") \subseteq Threads
  BY DEF Accounts, TypeOK, In
<1>2. \A u \in W : pc[u] = "wait" /\ u # t
  BY DEF QueueIsParked, In
<1>3. In("woken")' = (In("woken") \ {t}) \union W
  BY <1>1, <1>2 DEF In, WakeThenGoto, Accounts, TypeOK
<1>4. (In("woken") \ {t}) \intersect W = {}
  BY <1>2 DEF In
<1>5. IsFiniteSet(In("woken") \ {t}) /\ IsFiniteSet(W)
  BY <1>1, CountType
<1>6. Cardinality(In("woken")') = Cardinality(In("woken") \ {t}) + Cardinality(W)
  <2>1. Cardinality(In("woken")')
          = Cardinality(In("woken") \ {t}) + Cardinality(W)
              - Cardinality((In("woken") \ {t}) \intersect W)
    BY <1>3, <1>5, FS_Union
  <2>2. Cardinality((In("woken") \ {t}) \intersect W) = 0
    BY <1>4, FS_EmptySet
  <2>3. Cardinality(In("woken") \ {t}) \in Nat /\ Cardinality(W) \in Nat
    BY <1>1, CountType
  <2> QED
    BY <2>1, <2>2, <2>3
<1>7. CASE pc[t] = "woken"
  <2>1. Cardinality(In("woken") \ {t}) = Cardinality(In("woken")) - 1
    BY <1>1, <1>7, CountDrop DEF In
  <2> QED
    BY <1>6, <1>7, <2>1
<1>8. CASE pc[t] # "woken"
  <2>1. In("woken") \ {t} = In("woken")
    BY <1>8 DEF In
  <2> QED
    BY <1>6, <1>8, <2>1
<1> QED
  BY <1>7, <1>8

LEMMA DueType == ASSUME Accounts PROVE Due \in Nat
BY DEF Due, Accounts, TypeOK

\* A step that leaves enough threads woken leaves enough on offer.
LEMMA SupplyEnough ==
  ASSUME Accounts, Accounts', NEW v \in Nat, NEW k \in Nat, v <= k,
         value' = v, Cardinality(In("woken")') = k
  PROVE  SupplyInv'
<1>1. Due' \in Nat
  BY DEF Due, Accounts, TypeOK
<1>2. PICK d \in Nat : d = Due'
  BY <1>1
<1>3. v <= k + d
  OBVIOUS
<1> QED
  BY <1>2, <1>3 DEF SupplyInv

\* Notifying n waiters covers n more permits, or leaves nobody to cover for.
LEMMA SupplyWake ==
  ASSUME Accounts, Accounts', QueueIsParked, NEW t \in Threads, NEW n \in Nat,
         NEW W \in SUBSET waiters,
         Selected(W, n, Threads), WakeThenGoto(W, t, "idle"), pc[t] # "wait",
         NEW v \in Nat, value' = v,
         v <= (IF pc[t] = "woken" THEN Cardinality(In("woken")) - 1 ELSE Cardinality(In("woken"))) + n
  PROVE  SupplyInv'
<1>1. /\ Cardinality(W) = AtMost(n, Cardinality(waiters))
      /\ Cardinality(waiters \ W) = Cardinality(waiters) - Cardinality(W)
  BY SelectedCount DEF Accounts
<1>2. waiters' = waiters \ W
  BY DEF WakeThenGoto, Remove
<1>3. /\ Cardinality(waiters) \in Nat /\ waiters \ W \subseteq Threads
      /\ Cardinality(In("woken")) \in Nat /\ Cardinality(W) \in Nat
  BY CountType DEF Accounts, TypeOK, In
<1>4. CASE Cardinality(waiters) <= n
  <2>1. Cardinality(W) = Cardinality(waiters)
    BY <1>1, <1>3, <1>4 DEF AtMost
  <2>2. Cardinality(waiters \ W) = 0
    BY <1>1, <1>3, <2>1
  <2>3. waiters \ W = {}
    BY <1>3, <2>2, CountType, FS_EmptySet
  <2> QED
    BY <1>2, <2>3 DEF SupplyInv
<1>5. CASE n < Cardinality(waiters)
  <2>1. Cardinality(W) = n
    BY <1>1, <1>3, <1>5 DEF AtMost
  <2>2. CASE pc[t] = "woken"
    <3>1. Cardinality(In("woken")') = Cardinality(In("woken")) - 1 + n
      BY <2>1, <2>2, WokenMore
    <3>2. v <= Cardinality(In("woken")) - 1 + n
      BY <2>2
    <3>3. Cardinality(In("woken")) - 1 + n \in Nat
      BY <1>3, <3>2
    <3> QED
      BY <3>1, <3>2, <3>3, SupplyEnough
  <2>3. CASE pc[t] # "woken"
    <3>1. Cardinality(In("woken")') = Cardinality(In("woken")) + n
      BY <2>1, <2>3, WokenMore
    <3>2. v <= Cardinality(In("woken")) + n /\ Cardinality(In("woken")) + n \in Nat
      BY <1>3, <2>3
    <3> QED
      BY <3>1, <3>2, SupplyEnough
  <2> QED
    BY <2>2, <2>3
<1> QED
  BY <1>3, <1>4, <1>5

\* The permits of the first half are due until the second.
LEMMA SupplyBegin ==
  ASSUME Accounts, SupplyInv, NEW t \in Threads,
         NEW n \in Nat, NEW q \in Nat, n <= q, LockFree, pc[t] = "lock",
         Add(n), Begin(t, q, Threads)
  PROVE  SupplyInv'
<1>1. UNCHANGED <<waiters, threshold>> /\ call' = [quota |-> q, to |-> Threads]
  BY DEF Begin, room, bias
<1>2. ~LockFree'
  BY DEF Begin, Goto, LockFree, Accounts, TypeOK
<1>3. In("woken")' = In("woken")
  BY WokenSame DEF Begin, Place
<1>4. Cardinality(In("woken")) \in Nat /\ value \in Nat
  BY WokenType DEF Accounts, TypeOK
<1>5. waiters # {} => value <= Cardinality(In("woken"))
  BY <1>4 DEF SupplyInv, Due
<1>6. CASE threshold = NoBias
  <2>1. value' = value + n
    BY <1>6 DEF Add
  <2>2. Due' = q
    BY <1>1, <1>2, <1>6 DEF Due
  <2>3. waiters # {} => value + n <= Cardinality(In("woken")) + q
    BY <1>4, <1>5
  <2> QED
    BY <1>1, <1>3, <2>1, <2>2, <2>3 DEF SupplyInv
<1>7. CASE threshold # NoBias
  <2>1. value' = value
    BY <1>7 DEF Add
  <2>2. Due' = 0
    BY <1>1, <1>2, <1>7 DEF Due
  <2>3. waiters # {} => value <= Cardinality(In("woken")) + 0
    BY <1>4, <1>5
  <2> QED
    BY <1>1, <1>3, <2>1, <2>2, <2>3 DEF SupplyInv
<1> QED
  BY <1>6, <1>7

LEMMA SupplyDeliver ==
  ASSUME Accounts, Accounts', QueueIsParked, SupplyInv, NEW t \in Threads, Deliver(t),
         call.to = Threads
  PROVE  SupplyInv'
<1>1. /\ pc[t] # "wait" /\ pc[t] # "woken" /\ ~LockFree
      /\ call.quota \in Nat /\ value \in Nat /\ Cardinality(In("woken")) \in Nat
  BY WokenType DEF Deliver, DeliverClassic, DeliverBiased, LockFree, Accounts, TypeOK
<1>2. CASE waiters = {}
  BY <1>2 DEF SupplyInv, Deliver, DeliverClassic, DeliverBiased, WakeThenGoto, Remove
<1>3. CASE waiters # {} /\ DeliverClassic(t)
  <2>1. PICK W \in SUBSET waiters :
          Selected(W, call.quota, Threads) /\ WakeThenGoto(W, t, "idle")
    BY <1>3 DEF DeliverClassic
  <2>2. value <= Cardinality(In("woken")) + call.quota
    BY <1>1, <1>3 DEF SupplyInv, Due, DeliverClassic
  <2>3. value' = value
    BY <1>3 DEF DeliverClassic, pool
  <2> QED
    BY <1>1, <2>1, <2>2, <2>3, SupplyWake
<1>4. CASE waiters # {} /\ DeliverBiased(t)
  <2> DEFINE n == Flushable(call.quota)
  <2>1. n \in Nat
    BY <1>1, <1>4, FlushableBound DEF DeliverBiased, Accounts
  <2>2. PICK W \in SUBSET waiters : Selected(W, n, Threads) /\ WakeThenGoto(W, t, "idle")
    BY <1>4 DEF DeliverBiased
  <2>3. value <= Cardinality(In("woken"))
    BY <1>1, <1>4 DEF SupplyInv, Due, DeliverBiased
  <2>4. value' = value + n
    BY <1>4 DEF DeliverBiased
  <2>5. value + n \in Nat /\ value + n <= Cardinality(In("woken")) + n
    BY <1>1, <2>1, <2>3
  <2> HIDE DEF n
  <2> QED
    BY <1>1, <2>1, <2>2, <2>4, <2>5, SupplyWake
<1> QED
  BY <1>2, <1>3, <1>4 DEF Deliver

LEMMA SupplyAcquire ==
  ASSUME Accounts, Accounts', Discipline, QueueIsParked, SupplyInv, Patient,
         NEW t \in Threads, Acquire(t)
  PROVE  SupplyInv'
<1>1. /\ LockFree /\ pc[t] \in {"lock", "woken"}
      /\ value \in Nat /\ pending \in Nat /\ Cardinality(In("woken")) \in Nat
      /\ (pc[t] = "woken" => Cardinality(In("woken")) >= 1)
  <2>1. LockFree /\ pc[t] \in {"lock", "woken"}
    BY DEF Acquire, Grant, TurnAway, GiveUp, FlushAndGrant, Park, Trying
  <2>2. value \in Nat /\ pending \in Nat /\ Cardinality(In("woken")) \in Nat
    BY WokenType DEF Accounts, TypeOK
  <2>3. ASSUME pc[t] = "woken"
        PROVE  Cardinality(In("woken")) >= 1
    <3>1. t \in In("woken") /\ In("woken") \subseteq Threads
      BY <2>3 DEF In
    <3>2. Cardinality(In("woken") \ {t}) = Cardinality(In("woken")) - 1
      BY <3>1, CountDrop
    <3>3. Cardinality(In("woken") \ {t}) \in Nat
      BY <3>1, CountType
    <3> QED
      BY <2>2, <3>2, <3>3
  <2> QED
    BY <2>1, <2>2, <2>3
<1>2. waiters # {} => value <= Cardinality(In("woken"))
  BY <1>1 DEF SupplyInv, Due
<1>3. CASE Grant(t)
  <2>1. value' = value - 1 /\ waiters' = waiters /\ Goto(t, "idle") /\ value - 1 \in Nat
    BY <1>1, <1>3 DEF Grant, room
  <2>2. CASE waiters = {}
    BY <2>1, <2>2 DEF SupplyInv
  <2>3. CASE waiters # {} /\ pc[t] = "woken"
    <3>1. Cardinality(In("woken")') = Cardinality(In("woken")) - 1
      BY <2>1, <2>3, WokenLess DEF Place
    <3>2. value - 1 <= Cardinality(In("woken")) - 1 /\ Cardinality(In("woken")) - 1 \in Nat
      BY <1>1, <1>2, <2>3
    <3> QED
      BY <2>1, <3>1, <3>2, SupplyEnough
  <2>4. CASE waiters # {} /\ pc[t] # "woken"
    <3>1. In("woken")' = In("woken")
      BY <2>1, <2>4, WokenSame DEF Place
    <3>2. value - 1 <= Cardinality(In("woken"))
      BY <1>1, <1>2, <2>4
    <3> QED
      BY <1>1, <2>1, <3>1, <3>2, SupplyEnough
  <2> QED
    BY <2>2, <2>3, <2>4
<1>4. CASE TurnAway(t)
  BY <1>4 DEF TurnAway, Discipline, SupplyInv, room
<1>5. CASE GiveUp(t)
  BY <1>5 DEF GiveUp, Patient
<1>6. CASE FlushAndGrant(t)
  <2>1. PICK W \in SUBSET waiters :
          Selected(W, pending, Threads) /\ WakeThenGoto(W, t, "idle")
    BY <1>6 DEF FlushAndGrant
  <2>2. value' = pending - 1 /\ pending - 1 \in Nat
    BY <1>1, <1>6 DEF FlushAndGrant, FlushDue
  <2>3. pending - 1 <= (IF pc[t] = "woken" THEN Cardinality(In("woken")) - 1
                                           ELSE Cardinality(In("woken"))) + pending
    BY <1>1
  <2> QED
    BY <1>1, <2>1, <2>2, <2>3, SupplyWake
<1>7. CASE Park(t)
  <2>1. value' = 0
    BY <1>7 DEF Park, pool
  <2>2. Cardinality(In("woken")') \in Nat
    BY CountType DEF In, Accounts, TypeOK
  <2>3. PICK k \in Nat : k = Cardinality(In("woken")')
    BY <2>2
  <2> QED
    BY <2>1, <2>3, SupplyEnough
<1> QED
  BY <1>3, <1>4, <1>5, <1>6, <1>7 DEF Acquire

\* Nothing the invariant looks at changes.
LEMMA SupplyKept ==
  ASSUME Accounts, SupplyInv, NEW t \in Threads, NEW p \in Place \ {"woken", "busy"},
         Goto(t, p), pc[t] \notin {"woken", "busy"},
         UNCHANGED <<waiters, threshold, value, call>>
  PROVE  SupplyInv'
<1>1. In("woken")' = In("woken")
  BY WokenSame
<1>2. LockFree' = LockFree
  BY DEF LockFree, Goto, Accounts, TypeOK
<1>3. Due' = Due
  BY <1>2 DEF Due
<1> QED
  BY <1>1, <1>3 DEF SupplyInv

LEMMA SupplyStep ==
  ASSUME Accounts, Accounts', Discipline, CallForAll, Patient, QueueIsParked, SupplyInv,
         [Next]_vars
  PROVE  SupplyInv'
<1>1. CASE UNCHANGED vars
  BY <1>1 DEF vars, SupplyInv, Due, LockFree, In
<1>2. CASE Next
  <2>1. PICK t \in Threads : Step(t)
    BY <1>2 DEF Next
  <2>2. /\ value \in Nat /\ pending \in Nat /\ Cardinality(In("woken")) \in Nat
    BY WokenType DEF Accounts, TypeOK
  <2>3. CASE Enter(t) \/ NothingToDo(t)
    BY <2>3, SupplyKept DEF Enter, NothingToDo, pool, room, bias, Place
  <2>4. CASE Acquire(t)
    BY <2>4, SupplyAcquire
  <2>5. CASE Expire(t)
    BY <2>5 DEF Expire, Patient
  <2>6. CASE Withdraw(t)
    <3>1. waiters' = waiters
      BY <2>6 DEF Withdraw, Remove, QueueIsParked, In
    <3> QED
      BY <2>6, <3>1, SupplyKept DEF Withdraw, pool, bias, Place
  <2>7. CASE \/ \E n \in Quota, to \in AllIds : Release(t, n, to) \/ Notify(t, n, to)
             \/ \E to \in AllIds : NotifyAll(t, to)
    <3>1. Cardinality(waiters) \in Nat /\ waiters \intersect Threads = waiters
      BY CountType DEF Accounts, TypeOK
    <3>2. \E n, q \in Nat : n <= q /\ Add(n) /\ Begin(t, q, Threads)
      BY <2>7, <3>1, BoundsAssumption
         DEF Patient, Untargeted, AllIds, Quota, Release, Notify, NotifyAll
    <3>3. LockFree /\ pc[t] = "lock"
      BY <2>7 DEF Release, Notify, NotifyAll, Inside
    <3> QED
      BY <3>2, <3>3, SupplyBegin
  <2>8. CASE Deliver(t)
    <3>1. call.to = Threads
      BY <2>8 DEF CallForAll, Deliver, DeliverClassic, DeliverBiased
    <3> QED
      BY <2>8, <3>1, SupplyDeliver
  <2>9. ASSUME NotifyEverybody(t, "idle")
        PROVE  SupplyInv'
    BY <2>9 DEF NotifyEverybody, WakeThenGoto, Remove, SupplyInv
  <2>10. CASE \E n \in Quota, to \in AllIds : BypassAndNotify(t, n, to)
    <3>1. PICK n \in Quota : BypassAndNotify(t, n, Threads)
      BY <2>10 DEF Patient, Untargeted, AllIds
    <3>2. PICK W \in SUBSET waiters : Selected(W, n, Threads) /\ WakeThenGoto(W, t, "idle")
      BY <3>1 DEF BypassAndNotify
    <3>3. n \in Nat /\ AtMost(pending, n) \in Nat /\ AtMost(pending, n) <= n
      BY <2>2, BoundsAssumption DEF AtMost, Quota
    <3>4. value' = value + AtMost(pending, n) /\ pc[t] = "lock" /\ LockFree
      BY <3>1 DEF BypassAndNotify, Inside
    <3>5. CASE waiters = {}
      BY <3>2, <3>5 DEF WakeThenGoto, Remove, SupplyInv
    <3>6. CASE waiters # {}
      <4>1. value <= Cardinality(In("woken"))
        BY <2>2, <3>4, <3>6 DEF SupplyInv, Due
      <4>2. /\ value + AtMost(pending, n) \in Nat
            /\ value + AtMost(pending, n) <= Cardinality(In("woken")) + n
        BY <2>2, <3>3, <4>1
      <4> QED
        BY <3>2, <3>3, <3>4, <4>2, SupplyWake
    <3> QED
      BY <3>5, <3>6
  <2>11. CASE \E n \in Quota : Decrease(t, n)
    <3>1. PICK n \in Quota : Decrease(t, n)
      BY <2>11
    <3>2. /\ value' = value - n /\ value - n \in Nat /\ value - n <= value
          /\ LockFree /\ UNCHANGED waiters
      BY <2>2, <3>1, BoundsAssumption DEF Decrease, Quota, room
    <3>3. In("woken")' = In("woken")
      BY <3>1, WokenSame DEF Decrease, Place
    <3>4. waiters # {} => value <= Cardinality(In("woken"))
      BY <2>2, <3>2 DEF SupplyInv, Due
    <3>5. waiters # {} => value - n <= Cardinality(In("woken"))
      BY <2>2, <3>2, <3>4
    <3>6. CASE waiters = {}
      BY <3>2, <3>6 DEF SupplyInv
    <3>7. CASE waiters # {}
      BY <2>2, <3>2, <3>3, <3>5, <3>7, SupplyEnough
    <3> QED
      BY <3>6, <3>7
  <2>12. CASE Retuning(t) /\ (RetuneOff(t) \/ RetuneTo(t))
    <3>1. CASE NotifyEverybody(t, "idle")
      BY <2>9, <3>1
    <3>2. CASE Goto(t, "idle") /\ UNCHANGED <<room, value>>
      BY <2>12, <3>2, SupplyKept DEF Retuning, room, Place
    <3>3. CASE /\ \E W \in SUBSET waiters :
                    Selected(W, pending, Threads) /\ WakeThenGoto(W, t, "idle")
               /\ value' = value + pending
      <4>1. PICK W \in SUBSET waiters :
              Selected(W, pending, Threads) /\ WakeThenGoto(W, t, "idle")
        BY <3>3
      <4>2. pc[t] = "tune" /\ LockFree
        BY <2>12 DEF Retuning
      <4>3. CASE waiters = {}
        BY <4>1, <4>3 DEF WakeThenGoto, Remove, SupplyInv
      <4>4. CASE waiters # {}
        <5>1. value <= Cardinality(In("woken"))
          BY <2>2, <4>2, <4>4 DEF SupplyInv, Due
        <5>2. /\ value + pending \in Nat
              /\ value + pending <= Cardinality(In("woken")) + pending
          BY <2>2, <5>1
        <5> QED
          BY <2>2, <3>3, <4>1, <4>2, <5>2, SupplyWake
      <4> QED
        BY <4>3, <4>4
    <3>4. value + 0 = value
      BY <2>2
    <3>5. pending = 0 \/ pending > 0
      BY <2>2
    <3>6. CASE RetuneOff(t) /\ pending > 0
      BY <3>1, <3>6 DEF RetuneOff
    <3>7. CASE RetuneOff(t) /\ pending = 0
      <4>1. value' = value /\ UNCHANGED room /\ Goto(t, "idle")
        BY <3>4, <3>7 DEF RetuneOff
      <4> QED
        BY <3>2, <4>1
    <3>8. CASE RetuneTo(t)
      BY <3>2, <3>3, <3>8 DEF RetuneTo, room
    <3> QED
      BY <2>12, <3>5, <3>6, <3>7, <3>8
  <2>13. CASE \/ LateCall(t) \/ LateFlush(t)
              \/ \E n \in Quota : LateRelease(t, n) \/ LateNotify(t, n)
    BY <2>13 DEF LateCall, LateFlush, LateRelease, LateNotify, FailWith, Discipline, room,
                 SupplyInv
  <2>14. NoBias \notin Retunes /\ ~\E th \in Retunes : Retune(t, th)
    BY DEF Patient, Untargeted
  <2>15. Bypass(t) \/ Dispose(t) => NotifyEverybody(t, "idle")
    BY DEF Bypass, Dispose
  <2> QED
    BY <2>1, <2>3, <2>4, <2>5, <2>6, <2>7, <2>8, <2>9, <2>10, <2>11, <2>12, <2>13, <2>14,
       <2>15 DEF Step, CalmStep, Acquire, RetuneOff, RetuneTo
<1> QED
  BY <1>1, <1>2

(* A free permit is always on offer: while anybody waits, there are no     *)
(* more permits in the counter than threads on their way to take one.      *)
THEOREM NoneStranded ==
  ASSUME Timed = {}, Targets = {}, Retunes = {}, ~Faulty
  PROVE  Spec => []NoStrandedPermit
<1>0. Patient /\ Untargeted
  BY DEF Patient, Untargeted
<1>1. Init => CallForAll /\ QueueIsParked /\ SupplyInv
  <2>1. Init => CallForAll
    BY BoundsAssumption DEF Init, CallForAll
  <2>2. Init => QueueIsParked
    BY DEF Init, QueueIsParked, In
  <2>3. Init => SupplyInv
    BY DEF Init, SupplyInv
  <2> QED
    BY <2>1, <2>2, <2>3
<1>2. Accounts /\ Accounts' /\ Discipline /\ CallForAll /\ QueueIsParked /\ SupplyInv
        /\ [Next]_vars => CallForAll' /\ QueueIsParked' /\ SupplyInv'
  BY <1>0, CallForAllStep, QueueIsParkedStep, SupplyStep
<1>3. Accounts /\ SupplyInv => NoStrandedPermit
  <2> SUFFICES ASSUME Accounts, SupplyInv, LockFree, waiters # {}
               PROVE  value <= Cardinality(In("woken"))
    BY DEF NoStrandedPermit
  <2>1. Due = 0 /\ Cardinality(In("woken")) \in Nat
    BY WokenType DEF Due
  <2> QED
    BY <2>1 DEF SupplyInv
<1> QED
  BY <1>1, <1>2, <1>3, AccountsInvariant, DisciplineInvariant, PTL DEF Spec

=============================================================================
