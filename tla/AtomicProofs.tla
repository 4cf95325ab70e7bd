---------------------------- MODULE AtomicProofs ----------------------------
(***************************************************************************)
(* LockedObjects implements AtomicObjects, for every set of threads, every *)
(* finite set of objects and every number of versions: the steps that the  *)
(* calls still have to take, the locks they have and what they have seen   *)
(* make an invariant, and each step maps to a step or a stutter.           *)
(***************************************************************************)
EXTENDS LockedObjectsProofs

-----------------------------------------------------------------------------
(* The invariant: moments.                                                 *)

\* A thread has the locks that its steps to come need, or takes them first.
GuardsFit(t, call, s) ==
  \A i \in At(s, Guarding(call)) : Within(s, i) /\ (owner[s[i][2]] = t \/ Before(s, i, s[i][2]))

\* Calls that keep nothing of what they see, or have not begun to see.
Blind(call, s) == call \in Loose \/ At(s, {"look", "put"}) # {}

\* What a call has seen is still so, until it has seen all, and what it
\* updates until it has done that.
ViewFits(t, call, s, v) ==
  /\ Blind(call, s) => v = <<>>
  /\ \A p \in DOMAIN v : At(s, Sights) # {} \/ HasOn(s, {"update"}, p) =>
       owner[p] = t /\ val[p] = v[p] /\ val[p].first = val[p].second

\* One half of o has been written, the other has not.
HalfIn(s, o) == HasOn(s, {"fill"}, o) /\ ~HasOn(s, {"half"}, o)

HalfDone(t, o) == HalfIn(job[t].todo, o)

HalvesFit ==
  \A o \in Objects :
    /\ \A t \in Threads : HalfDone(t, o) => owner[o] = t /\ val[o].first = After(val[o].second)
    /\ val[o].first # val[o].second => \E t \in Threads : HalfDone(t, o)

ThreadFits(t, call, s, v) == MomentFits(call, s) /\ GuardsFit(t, call, s) /\ ViewFits(t, call, s, v)

AtomicInv ==
  /\ LockedInv
  /\ \A t \in Threads : ThreadFits(t, job[t].call, job[t].todo, job[t].seen)
  /\ HalvesFit

-----------------------------------------------------------------------------
(* One step is taken from the steps to come, and what is left is in order. *)

\* r is what is left of s when its first step has been taken.
Rest(r, s) == s # <<>> /\ r = Tail(s)

\* Where what is left was, and where what is to come is left.
LEMMA TailAt ==
  ASSUME NEW s \in Seq(Step), NEW r, Rest(r, s), NEW words, NEW i \in At(r, words)
  PROVE  i \in Nat \ {0} /\ i + 1 \in At(s, words) /\ r[i] = s[i + 1]
BY TailSteps DEF At, Rest

LEMMA PastAt ==
  ASSUME NEW s \in Seq(Step), NEW r, Rest(r, s), NEW words, NEW i \in At(s, words)
  PROVE  i \in Nat \ {0} /\ (i = 1 \/ (i - 1 \in At(r, words) /\ r[i - 1] = s[i]))
BY TailSteps DEF At, Rest

LEMMA HeadAt ==
  ASSUME NEW s \in Seq(Step), NEW r, Rest(r, s), NEW words
  PROVE  1 \in At(s, words) <=> s[1][1] \in words
BY DEF At, Rest

\* The first step apart, the same is still to come.
LEMMA TailHas ==
  ASSUME NEW s \in Seq(Step), NEW r, Rest(r, s), NEW words, NEW o
  PROVE  HasOn(s, words, o) <=> HasOn(r, words, o) \/ (s[1][1] \in words /\ s[1][2] = o)
<1>1. ASSUME HasOn(s, words, o)
      PROVE  HasOn(r, words, o) \/ (s[1][1] \in words /\ s[1][2] = o)
  <2>1. PICK i \in At(s, words) : s[i][2] = o
    BY <1>1 DEF HasOn
  <2>2. i = 1 \/ (i - 1 \in At(r, words) /\ r[i - 1] = s[i])
    BY PastAt
  <2>3. i = 1 => s[1][1] \in words
    BY HeadAt
  <2> QED
    BY <2>1, <2>2, <2>3 DEF HasOn
<1>2. ASSUME HasOn(r, words, o) PROVE HasOn(s, words, o)
  <2>1. PICK i \in At(r, words) : r[i][2] = o
    BY <1>2 DEF HasOn
  <2>2. i + 1 \in At(s, words) /\ s[i + 1] = r[i]
    BY TailAt
  <2> QED
    BY <2>1, <2>2 DEF HasOn
<1>3. ASSUME s[1][1] \in words, s[1][2] = o PROVE HasOn(s, words, o)
  BY <1>3, HeadAt DEF HasOn
<1> QED
  BY <1>1, <1>2, <1>3

LEMMA TailWrites ==
  ASSUME NEW s \in Seq(Step), NEW r, Rest(r, s), WritesFit(s)
  PROVE  WritesFit(r)
<1>2. \A i \in At(r, {"fill"}), k \in At(r, Sights) : k < i
  <2> SUFFICES ASSUME NEW i \in At(r, {"fill"}), NEW k \in At(r, Sights) PROVE k < i
    OBVIOUS
  <2>1. i \in Nat /\ i + 1 \in At(s, {"fill"}) /\ k \in Nat /\ k + 1 \in At(s, Sights)
    BY TailAt, PastAt
  <2>2. k + 1 < i + 1
    BY <2>1 DEF WritesFit
  <2> QED
    BY <2>1, <2>2
<1>3. \A i, k \in At(r, Final) : i = k
  <2> SUFFICES ASSUME NEW i \in At(r, Final), NEW k \in At(r, Final) PROVE i = k
    OBVIOUS
  <2>1. i \in Nat /\ i + 1 \in At(s, Final) /\ k \in Nat /\ k + 1 \in At(s, Final)
    BY TailAt, PastAt
  <2>2. i + 1 = k + 1
    BY <2>1 DEF WritesFit
  <2> QED
    BY <2>1, <2>2
<1>4. \A i, k \in At(r, {"half"}) : i = k
  <2> SUFFICES ASSUME NEW i \in At(r, {"half"}), NEW k \in At(r, {"half"}) PROVE i = k
    OBVIOUS
  <2>1. i \in Nat /\ i + 1 \in At(s, {"half"}) /\ k \in Nat /\ k + 1 \in At(s, {"half"})
    BY TailAt, PastAt
  <2>2. i + 1 = k + 1
    BY <2>1 DEF WritesFit
  <2> QED
    BY <2>1, <2>2
<1>5. \A i \in At(r, {"half"}) : \E k \in At(r, {"fill"}) : i < k /\ r[k][2] = r[i][2]
  <2> SUFFICES ASSUME NEW i \in At(r, {"half"})
               PROVE  \E k \in At(r, {"fill"}) : i < k /\ r[k][2] = r[i][2]
    OBVIOUS
  <2>1. i \in Nat \ {0} /\ i + 1 \in At(s, {"half"}) /\ r[i] = s[i + 1]
    BY TailAt, PastAt
  <2>2. PICK k \in At(s, {"fill"}) : i + 1 < k /\ s[k][2] = s[i + 1][2]
    BY <2>1 DEF WritesFit
  <2>3. k \in Nat /\ k # 1
    BY TailAt, PastAt, <2>1, <2>2
  <2>4. k - 1 \in At(r, {"fill"}) /\ r[k - 1] = s[k]
    BY TailAt, PastAt, <2>3
  <2>5. i < k - 1 /\ r[k - 1][2] = r[i][2]
    BY <2>1, <2>2, <2>3, <2>4
  <2> QED
    BY <2>4, <2>5
<1>6. ASSUME At(r, {"update", "fill"}) # {}, NEW i \in At(r, {"lock"})
      PROVE  \E k \in At(r, Sights) : i < k
  <2>1. At(s, {"update", "fill"}) # {}
    BY TailAt, PastAt, <1>6
  <2>2. i \in Nat \ {0} /\ i + 1 \in At(s, {"lock"})
    BY TailAt, PastAt
  <2>3. PICK k \in At(s, Sights) : i + 1 < k
    BY <2>1, <2>2 DEF WritesFit
  <2>4. k \in Nat /\ k # 1
    BY TailAt, PastAt, <2>2, <2>3
  <2>5. k - 1 \in At(r, Sights) /\ i < k - 1
    BY TailAt, PastAt, <2>2, <2>3, <2>4
  <2> QED
    BY <2>5
<1> QED
  BY <1>2, <1>3, <1>4, <1>5, <1>6 DEF WritesFit

\* A late step is the last that is due before nothing more is seen.
LEMMA LateLast ==
  ASSUME NEW s \in Seq(Step), NEW r, Rest(r, s), InOrder(s), s[1][1] \in Late
  PROVE  At(r, Sights) = {}
<1> SUFFICES ASSUME NEW i \in At(r, Sights) PROVE FALSE
  OBVIOUS
<1>1. i \in Nat \ {0} /\ i + 1 \in At(s, Sights)
  BY TailAt
<1>2. 1 \in At(s, Late)
  BY HeadAt
<1>3. i + 1 <= 1
  BY <1>1, <1>2 DEF InOrder
<1> QED
  BY <1>1, <1>3

LEMMA TailInOrder ==
  ASSUME NEW s \in Seq(Step), NEW r, Rest(r, s), InOrder(s)
  PROVE  InOrder(r)
<1> SUFFICES ASSUME NEW i \in At(r, Late), NEW k \in At(r, Sights) PROVE k <= i
  BY DEF InOrder
<1>1. i \in Nat /\ i + 1 \in At(s, Late)
  BY TailAt
<1>2. k \in Nat /\ k + 1 \in At(s, Sights)
  BY TailAt
<1>3. k + 1 <= i + 1
  BY <1>1, <1>2 DEF InOrder
<1> QED
  BY <1>1, <1>2, <1>3

LEMMA TailEmpty ==
  ASSUME NEW s \in Seq(Step), NEW r, Rest(r, s), NEW words, At(s, words) = {}
  PROVE  At(r, words) = {}
<1>1. \A i \in At(r, words) : i + 1 \in At(s, words)
  BY TailAt
<1> QED
  BY <1>1

LEMMA TailKeeps ==
  ASSUME NEW call, NEW s \in Seq(Step), NEW r, Rest(r, s), KeepsFit(call, s)
  PROVE  KeepsFit(call, r)
<1> SUFFICES ASSUME call \notin Loose
             PROVE  /\ InOrder(r)
                    /\ At(r, {"fill"}) # {} /\ At(r, {"half"}) = {} => At(r, Sights) = {}
                    /\ At(r, {"put"}) # {} => At(r, Sights) = {}
                    /\ At(r, {"look"}) # {} => Len(r) = 1
  BY DEF KeepsFit
<1>1. /\ InOrder(s)
      /\ At(s, {"fill"}) # {} /\ At(s, {"half"}) = {} => At(s, Sights) = {}
      /\ At(s, {"put"}) # {} => At(s, Sights) = {}
      /\ At(s, {"look"}) # {} => Len(s) = 1
  BY DEF KeepsFit
<1>2. ASSUME At(r, {"fill"}) # {}, At(r, {"half"}) = {} PROVE At(r, Sights) = {}
  <2>1. At(s, {"fill"}) # {}
    BY <1>2, TailEmpty
  <2>2. CASE At(s, {"half"}) = {}
    BY <1>1, <2>1, <2>2, TailEmpty
  <2>3. CASE At(s, {"half"}) # {}
    <3>1. PICK i \in At(s, {"half"}) : TRUE
      BY <2>3
    <3>2. i # 1 => i - 1 \in At(r, {"half"})
      BY PastAt
    <3>3. 1 \in At(s, {"half"})
      BY <1>2, <3>1, <3>2
    <3>4. s[1][1] \in Late
      BY <3>3 DEF At, Late
    <3> QED
      BY <1>1, <3>4, LateLast
  <2> QED
    BY <2>2, <2>3
<1>3. ASSUME At(r, {"put"}) # {} PROVE At(r, Sights) = {}
  BY <1>1, <1>3, TailEmpty
<1>4. ASSUME At(r, {"look"}) # {} PROVE Len(r) = 1
  <2>1. Len(s) = 1 /\ Len(r) = Len(s) - 1
    BY <1>1, <1>4, TailEmpty, TailSteps DEF Rest
  <2>2. r = <<>>
    BY <2>1, TailSteps DEF Rest
  <2> QED
    BY <1>4, <2>2 DEF At
<1> QED
  BY <1>1, <1>2, <1>3, <1>4, TailInOrder

\* The order of the steps outlasts each of them.
LEMMA TailMoment ==
  ASSUME NEW call, NEW s \in Seq(Step), NEW r, Rest(r, s), MomentFits(call, s)
  PROVE  MomentFits(call, r)
<1>1. WritesFit(s) /\ KeepsFit(call, s) /\ BranchesFit(call, s)
  BY DEF MomentFits
<1>2. WritesFit(r) /\ KeepsFit(call, r)
  BY <1>1, TailWrites, TailKeeps
<1>3. ASSUME NEW i \in At(r, {"look"}) PROVE BranchFits(call, r[i])
  <2>1. i + 1 \in At(s, {"look"}) /\ r[i] = s[i + 1]
    BY TailAt
  <2> QED
    BY <1>1, <2>1 DEF BranchesFit
<1> QED
  BY <1>2, <1>3 DEF MomentFits, BranchesFit

LEMMA StepObject == \A s \in Seq(Step) : \A i \in DOMAIN s : s[i][2] \in Objects
BY DEF Step, Plain

LEMMA ViewObjects ==
  ASSUME NEW v \in Views
  PROVE  DOMAIN v \subseteq Objects /\ \A p \in DOMAIN v : v[p] \in Whole
BY DEF Views

\* After an unlock nothing is to come that needs a lock.
LEMMA TailGuards ==
  ASSUME NEW t, NEW call, NEW s \in Seq(Step), NEW r, Rest(r, s),
         GuardsFit(t, call, s),
         s[1][1] = "unlock" \/ \A p \in Objects : owner[p] = t => owner'[p] = t,
         s[1][1] = "lock" => owner'[s[1][2]] = t
  PROVE  GuardsFit(t, call, r)'
<1> SUFFICES ASSUME NEW i \in At(r, Guarding(call))
             PROVE  Within(r, i) /\ (owner'[r[i][2]] = t \/ Before(r, i, r[i][2]))
  BY DEF GuardsFit
<1>1. i \in Nat \ {0} /\ i + 1 \in At(s, Guarding(call)) /\ r[i] = s[i + 1]
  BY TailAt
<1>2. Within(s, i + 1) /\ (owner[r[i][2]] = t \/ Before(s, i + 1, r[i][2]))
  BY <1>1 DEF GuardsFit
<1>3. Within(r, i)
  <2> SUFFICES ASSUME NEW k \in At(r, {"unlock"}) PROVE i < k
    BY DEF Within
  <2>1. k \in Nat /\ k + 1 \in At(s, {"unlock"})
    BY TailAt
  <2>2. i + 1 < k + 1
    BY <1>2, <2>1 DEF Within
  <2> QED
    BY <1>1, <2>1, <2>2
<1>4. s[1][1] # "unlock"
  <2> SUFFICES ASSUME s[1][1] = "unlock" PROVE FALSE
    OBVIOUS
  <2>1. 1 \in At(s, {"unlock"})
    BY HeadAt
  <2>2. i + 1 < 1
    BY <1>2, <2>1 DEF Within
  <2> QED
    BY <1>1, <2>2
<1>5. CASE owner[r[i][2]] = t
  <2>1. r[i][2] \in Objects
    BY <1>1, StepObject DEF At
  <2> QED
    BY <1>3, <1>4, <1>5, <2>1
<1>6. CASE Before(s, i + 1, r[i][2])
  <2>1. PICK k \in At(s, {"lock"}) : k < i + 1 /\ s[k][2] = r[i][2]
    BY <1>6 DEF Before
  <2>2. CASE k = 1
    <3>1. s[1][1] = "lock"
      BY <2>1, <2>2 DEF At
    <3> QED
      BY <1>3, <2>1, <2>2, <3>1
  <2>3. CASE k # 1
    <3>1. k \in Nat /\ k - 1 \in At(r, {"lock"}) /\ r[k - 1] = s[k]
    BY <2>3, PastAt
    <3>2. k - 1 < i /\ r[k - 1][2] = r[i][2]
      BY <1>1, <2>1, <3>1
    <3> QED
      BY <1>3, <3>1, <3>2 DEF Before
  <2> QED
    BY <2>2, <2>3
<1> QED
  BY <1>2, <1>5, <1>6

\* Which step begins an object's half-written state, and which ends it.
LEMMA TailHalves ==
  ASSUME NEW s \in Seq(Step), NEW r, Rest(r, s), WritesFit(s), NEW p
  PROVE  /\ HalfIn(r, p) => \/ HalfIn(s, p) /\ s[1][1] \notin Writing
                            \/ s[1][1] = "half" /\ s[1][2] = p
         /\ HalfIn(s, p) => HalfIn(r, p) \/ (s[1][1] = "fill" /\ s[1][2] = p)
         /\ s[1][1] = "half" /\ s[1][2] = p => HalfIn(r, p)
<1>1. /\ HasOn(s, {"fill"}, p) <=> HasOn(r, {"fill"}, p) \/ (s[1][1] \in {"fill"} /\ s[1][2] = p)
      /\ HasOn(s, {"half"}, p) <=> HasOn(r, {"half"}, p) \/ (s[1][1] \in {"half"} /\ s[1][2] = p)
  BY TailHas
<1>2. HalfIn(s, p) => HalfIn(r, p) \/ (s[1][1] = "fill" /\ s[1][2] = p)
  BY <1>1 DEF HalfIn
<1>3. ASSUME HalfIn(r, p), s[1][1] \in Writing
      PROVE  s[1][1] = "half" /\ s[1][2] = p
  <2>1. PICK i \in At(r, {"fill"}) : r[i][2] = p
    BY <1>3 DEF HalfIn, HasOn
  <2>2. i \in Nat \ {0} /\ i + 1 \in At(s, {"fill"}) /\ s[i + 1] = r[i]
    BY TailAt
  <2>3. i + 1 \in At(s, Final) /\ i + 1 # 1
    BY <2>2 DEF At, Final
  <2>4. s[1][1] \notin Final
    <3> SUFFICES ASSUME s[1][1] \in Final PROVE FALSE
      OBVIOUS
    <3>1. 1 \in At(s, Final)
      BY HeadAt
    <3> QED
      BY <2>3, <3>1 DEF WritesFit
  <2>5. s[1][1] = "half"
    BY <1>3, <2>4 DEF Writing, Final
  <2>6. 1 \in At(s, {"half"})
    BY <2>5, HeadAt
  <2>7. PICK k \in At(s, {"fill"}) : s[k][2] = s[1][2]
    BY <2>6 DEF WritesFit
  <2>8. k \in At(s, Final)
    BY <2>7 DEF At, Final
  <2>9. k = i + 1
    BY <2>3, <2>8 DEF WritesFit
  <2> QED
    BY <2>1, <2>2, <2>5, <2>7, <2>9
<1>4. HalfIn(r, p) => HalfIn(s, p) \/ (s[1][1] = "half" /\ s[1][2] = p)
  BY <1>1 DEF HalfIn
<1>5. ASSUME s[1][1] = "half", s[1][2] = p PROVE HalfIn(r, p)
  <2>1. 1 \in At(s, {"half"})
    BY <1>5, HeadAt
  <2>2. PICK k \in At(s, {"fill"}) : 1 < k /\ s[k][2] = p
    BY <1>5, <2>1 DEF WritesFit
  <2>3. k # 1
    BY <2>2
  <2>4. k - 1 \in At(r, {"fill"}) /\ r[k - 1] = s[k]
    BY <2>2, <2>3, PastAt
  <2>5. HasOn(r, {"fill"}, p)
    BY <2>2, <2>4 DEF HasOn
  <2>6. At(r, {"half"}) = {}
    <3> SUFFICES ASSUME NEW i \in At(r, {"half"}) PROVE FALSE
      OBVIOUS
    <3>1. i \in Nat \ {0} /\ i + 1 \in At(s, {"half"})
      BY TailAt
    <3>2. i + 1 = 1
      BY <2>1, <3>1 DEF WritesFit
    <3> QED
      BY <3>1, <3>2
  <2> QED
    BY <2>5, <2>6 DEF HalfIn, HasOn
<1> QED
  BY <1>2, <1>3, <1>4, <1>5

\* Half a write is to come under the lock of its object.
LEMMA HalfGuarded ==
  ASSUME NEW t, NEW call, NEW s \in Seq(Step), NEW r, Rest(r, s), GuardsFit(t, call, s),
         NEW p, HalfIn(s, p)
  PROVE  s[1][1] # "unlock"
<1>1. PICK i \in At(s, {"fill"}) : s[i][2] = p
  BY DEF HalfIn, HasOn
<1>2. i \in At(s, Guarding(call)) /\ i \in Nat \ {0}
  BY <1>1, TailAt DEF At, Guarding
<1>3. Within(s, i)
  BY <1>2 DEF GuardsFit
<1>4. s[1][1] = "unlock" => 1 \in At(s, {"unlock"})
  BY HeadAt
<1> QED
  BY <1>2, <1>3, <1>4 DEF Within

\* With a write or an unlock the call is done with what it has seen.
LEMMA LateView ==
  ASSUME NEW t, NEW call, NEW s \in Seq(Step), NEW r, Rest(r, s), NEW v,
         MomentFits(call, s), GuardsFit(t, call, s), Blind(call, s) => v = <<>>,
         s[1][1] \in Writing \union {"unlock"}
  PROVE  v = <<>> \/ (At(r, Sights) = {} /\ \A p : ~HasOn(r, {"update"}, p))
<1> SUFFICES ASSUME call \notin Loose, s[1][1] # "put"
             PROVE  At(r, Sights) = {} /\ \A p : ~HasOn(r, {"update"}, p)
  <2>1. s[1][1] = "put" => At(s, {"put", "look"}) # {}
    BY HeadAt
  <2>2. At(s, {"put", "look"}) = At(s, {"look", "put"})
    BY DEF At
  <2> QED
    BY <2>1, <2>2 DEF Blind
<1>1. InOrder(s) /\ WritesFit(s)
  BY DEF MomentFits, KeepsFit
<1>2. s[1][1] \in Late
  BY DEF Late, Final, Writing
<1>3. At(r, Sights) = {}
  BY <1>1, <1>2, LateLast
<1>4. At(r, {"update"}) = {}
  <2> SUFFICES ASSUME NEW i \in At(r, {"update"}) PROVE FALSE
    OBVIOUS
  <2>1. i \in Nat \ {0} /\ i + 1 \in At(s, {"update"})
    BY TailAt
  <2>2. i + 1 \in At(s, Final) /\ i + 1 \in At(s, Guarding(call)) /\ i + 1 # 1
    BY <2>1 DEF At, Final, Guarding
  <2>3. CASE s[1][1] \in Final
    <3>1. 1 \in At(s, Final)
      BY <2>3, HeadAt
    <3> QED
      BY <1>1, <2>2, <3>1 DEF WritesFit
  <2>4. CASE s[1][1] = "half"
    <3>1. 1 \in At(s, {"half"})
      BY <2>4, HeadAt
    <3>2. PICK k \in At(s, {"fill"}) : TRUE
      BY <1>1, <3>1 DEF WritesFit
    <3>3. k \in At(s, Final) /\ s[k][1] = "fill"
      BY <3>2 DEF At, Final
    <3>4. k = i + 1 /\ s[i + 1][1] = "update"
      BY <1>1, <2>1, <2>2, <3>3 DEF WritesFit, At
    <3> QED
      BY <3>3, <3>4
  <2>5. CASE s[1][1] = "unlock"
    <3>1. 1 \in At(s, {"unlock"})
      BY <2>5, HeadAt
    <3>2. i + 1 < 1
      BY <2>2, <3>1 DEF GuardsFit, Within
    <3> QED
      BY <2>1, <3>2
  <2> QED
    BY <2>3, <2>4, <2>5 DEF Writing, Final
<1> QED
  BY <1>3, <1>4 DEF HasOn

\* What is seen is still so after a step that neither writes it nor gives its
\* lock up.
LEMMA TailView ==
  ASSUME NEW t, NEW call, NEW s \in Seq(Step), NEW r, Rest(r, s), NEW v \in Views,
         MomentFits(call, s), GuardsFit(t, call, s), ViewFits(t, call, s, v),
         \/ s[1][1] \in Writing \union {"unlock"}
         \/ \A p \in Objects : owner[p] = t => owner'[p] = t /\ val'[p] = val[p]
  PROVE  ViewFits(t, call, r, v)'
<1>1. Blind(call, r) => Blind(call, s)
  <2>1. At(r, {"look", "put"}) # {} => At(s, {"look", "put"}) # {}
    BY TailEmpty
  <2> QED
    BY <2>1 DEF Blind
<1>2. Blind(call, r) => v = <<>>
  BY <1>1 DEF ViewFits
<1>3. ASSUME NEW p \in DOMAIN v, At(r, Sights) # {} \/ HasOn(r, {"update"}, p)
      PROVE  owner'[p] = t /\ val'[p] = v[p] /\ val'[p].first = val'[p].second
  <2>1. p \in Objects /\ v # <<>> /\ (Blind(call, s) => v = <<>>)
    <3>1. DOMAIN v # DOMAIN <<>>
      BY <1>3
    <3> QED
      BY <1>3, <3>1, ViewObjects DEF ViewFits
  <2>2. ~(s[1][1] \in Writing \union {"unlock"})
    BY <1>3, <2>1, LateView
  <2>3. At(s, Sights) # {} \/ HasOn(s, {"update"}, p)
    BY <1>3, TailEmpty, TailHas
  <2>4. owner[p] = t /\ val[p] = v[p] /\ val[p].first = val[p].second
    BY <2>3 DEF ViewFits
  <2> QED
    BY <2>1, <2>2, <2>4
<1> QED
  BY <1>2, <1>3 DEF ViewFits

-----------------------------------------------------------------------------
(* The steps of a thread keep the moments of the calls.                    *)

LEMMA AtomicThread ==
  ASSUME AtomicInv, NEW t \in Threads, NEW s, s = job[t].todo
  PROVE  /\ s \in Seq(Step) /\ job[t] \in JobState /\ job[t].seen \in Views
         /\ MomentFits(job[t].call, s) /\ GuardsFit(t, job[t].call, s)
         /\ ViewFits(t, job[t].call, s, job[t].seen)
BY DEF AtomicInv, LockedInv, ObjectTypes, JobState, ThreadFits

LEMMA OthersAtomic ==
  ASSUME NEW u, NEW call, NEW s \in Seq(Step), NEW v \in Views,
         \A p \in Objects : owner[p] = u => owner'[p] = u /\ val'[p] = val[p],
         ThreadFits(u, call, s, v)
  PROVE  ThreadFits(u, call, s, v)'
<1>1. MomentFits(call, s) /\ GuardsFit(u, call, s) /\ ViewFits(u, call, s, v)
  BY DEF ThreadFits
<1>2. GuardsFit(u, call, s)'
  <2> SUFFICES ASSUME NEW i \in At(s, Guarding(call))
               PROVE  Within(s, i) /\ (owner'[s[i][2]] = u \/ Before(s, i, s[i][2]))
    BY DEF GuardsFit
  <2>1. Within(s, i) /\ (owner[s[i][2]] = u \/ Before(s, i, s[i][2]))
    BY <1>1 DEF GuardsFit
  <2>2. s[i][2] \in Objects
    BY StepObject DEF At
  <2> QED
    BY <2>1, <2>2
<1>3. ViewFits(u, call, s, v)'
  <2> SUFFICES ASSUME NEW p \in DOMAIN v, At(s, Sights) # {} \/ HasOn(s, {"update"}, p)
               PROVE  owner'[p] = u /\ val'[p] = v[p] /\ val'[p].first = val'[p].second
    BY <1>1 DEF ViewFits
  <2>1. owner[p] = u /\ val[p] = v[p] /\ val[p].first = val[p].second
    BY <1>1 DEF ViewFits
  <2> QED
    BY <2>1, ViewObjects
<1> QED
  BY <1>1, <1>2, <1>3 DEF ThreadFits

\* A step of t keeps the invariant if it keeps t's part, and the others' locks
\* and values.
LEMMA MoveAtomic ==
  ASSUME AtomicInv, LockedInv', NEW t \in Threads,
         \A u \in Threads \ {t} : job'[u] = job[u],
         \A u \in Threads \ {t}, p \in Objects :
           owner[p] = u => owner'[p] = u /\ val'[p] = val[p],
         NEW call, job'[t].call = call, NEW s, job'[t].todo = s, NEW v, job'[t].seen = v,
         ThreadFits(t, call, s, v)',
         \A p \in Objects : HalfIn(s, p) => owner'[p] = t /\ val'[p].first = After(val'[p].second),
         \A p \in Objects : val'[p].first # val'[p].second =>
           HalfIn(s, p) \/ (val'[p] = val[p] /\ ~HalfDone(t, p))
  PROVE  AtomicInv'
<1>1. ASSUME NEW u \in Threads
      PROVE  ThreadFits(u, job[u].call, job[u].todo, job[u].seen)'
  <2>1. CASE u = t
    BY <2>1
  <2>2. CASE u # t
    <3>1. PICK c, q, w : c = job[u].call /\ q = job[u].todo /\ w = job[u].seen
      OBVIOUS
    <3>2. q \in Seq(Step) /\ w \in Views /\ ThreadFits(u, c, q, w)
      BY <3>1, AtomicThread DEF AtomicInv
    <3>3. ThreadFits(u, c, q, w)'
      BY <2>2, <3>2, OthersAtomic
    <3>4. job'[u] = job[u]
      BY <2>2
    <3> QED
      BY <3>1, <3>3, <3>4
  <2> QED
    BY <2>1, <2>2
<1>2. HalvesFit'
  <2>1. ASSUME NEW p \in Objects, NEW u \in Threads, HalfDone(u, p)'
        PROVE  owner'[p] = u /\ val'[p].first = After(val'[p].second)
    <3>1. CASE u = t
      BY <2>1, <3>1 DEF HalfDone
    <3>2. CASE u # t
      <4>1. HalfDone(u, p)
        BY <2>1, <3>2 DEF HalfDone
      <4>2. owner[p] = u /\ val[p].first = After(val[p].second)
        BY <4>1 DEF AtomicInv, HalvesFit
      <4> QED
        BY <3>2, <4>2
    <3> QED
      BY <3>1, <3>2
  <2>2. ASSUME NEW p \in Objects, val'[p].first # val'[p].second
        PROVE  \E u \in Threads : HalfDone(u, p)'
    <3>1. CASE HalfIn(s, p)
      BY <3>1 DEF HalfDone
    <3>2. CASE val'[p] = val[p] /\ ~HalfDone(t, p)
      <4>1. PICK u \in Threads : HalfDone(u, p)
        BY <2>2, <3>2 DEF AtomicInv, HalvesFit
      <4>2. job'[u] = job[u]
        BY <3>2, <4>1
      <4> QED
        BY <4>1, <4>2 DEF HalfDone
    <3> QED
      BY <2>2, <3>1, <3>2
  <2> QED
    BY <2>1, <2>2 DEF HalvesFit
<1> QED
  BY <1>1, <1>2 DEF AtomicInv

LEMMA NothingLeftAtomic ==
  ASSUME NEW t, NEW s, s = <<>>, NEW v, v = <<>>
  PROVE  ThreadFits(t, "none", s, v)' /\ \A p : ~HalfIn(s, p)
<1>1. \A words : At(s, words) = {}
  BY DEF At
<1>2. DOMAIN v = {}
  OBVIOUS
<1>3. MomentFits("none", s)
  BY <1>1 DEF MomentFits, WritesFit, KeepsFit, BranchesFit, InOrder
<1>4. GuardsFit(t, "none", s)' /\ ViewFits(t, "none", s, v)'
  BY <1>1, <1>2 DEF GuardsFit, ViewFits
<1> QED
  BY <1>1, <1>3, <1>4 DEF ThreadFits, HalfIn, HasOn

\* t goes on with its call, or comes back from it.
Goes(t, r, v) ==
  /\ \A u \in Threads \ {t} : job'[u] = job[u]
  /\ \/ r = <<>> /\ job'[t].call = "none" /\ job'[t].todo = r /\ job'[t].seen = <<>>
     \/ r # <<>> /\ job'[t].call = job[t].call /\ job'[t].todo = r /\ job'[t].seen = v

LEMMA ReadGoes ==
  ASSUME LockedInv, NEW t \in Threads, NEW r, NEW v,
         job' = [job EXCEPT ![t] =
                   IF r = <<>> THEN Idle ELSE [@ EXCEPT !.todo = r, !.seen = v]]
  PROVE  Goes(t, r, v)
<1>1. job \in [Threads -> JobState] /\ job[t] \in JobState
  BY DEF LockedInv, ObjectTypes
<1>2. CASE r = <<>>
  BY <1>1, <1>2 DEF Goes, Idle
<1>3. CASE r # <<>>
  <2>1. job'[t] = [job[t] EXCEPT !.todo = r, !.seen = v]
    BY <1>1, <1>3
  <2>2. job'[t].call = job[t].call /\ job'[t].todo = r /\ job'[t].seen = v
    BY <1>1, <2>1 DEF JobState
  <2> QED
    BY <1>1, <1>3, <2>2 DEF Goes
<1> QED
  BY <1>2, <1>3

LEMMA AdvanceGoes ==
  ASSUME LockedInv, NEW t \in Threads, Advance(t)
  PROVE  Goes(t, Tail(job[t].todo), job[t].seen)
<1>1. job \in [Threads -> JobState] /\ job[t] \in JobState
  BY DEF LockedInv, ObjectTypes
<1>2. PICK r, v : r = Tail(job[t].todo) /\ v = job[t].seen
  OBVIOUS
<1>3. [job[t] EXCEPT !.todo = r] = [job[t] EXCEPT !.todo = r, !.seen = v]
  BY <1>1, <1>2 DEF JobState
<1>4. job' = [job EXCEPT ![t] =
                IF r = <<>> THEN Idle ELSE [@ EXCEPT !.todo = r, !.seen = v]]
  BY <1>2, <1>3 DEF Advance, Continue
<1> QED
  BY <1>2, <1>4, ReadGoes

LEMMA GoesAtomic ==
  ASSUME AtomicInv, LockedInv', NEW t \in Threads,
         NEW r, Rest(r, job[t].todo), NEW v, Goes(t, r, v),
         \A u \in Threads \ {t}, p \in Objects :
           owner[p] = u => owner'[p] = u /\ val'[p] = val[p],
         NEW call, call = job[t].call, GuardsFit(t, call, r)', ViewFits(t, call, r, v)',
         \A p \in Objects : HalfIn(r, p) => owner'[p] = t /\ val'[p].first = After(val'[p].second),
         \A p \in Objects : val'[p].first # val'[p].second =>
           HalfIn(r, p) \/ (val'[p] = val[p] /\ ~HalfDone(t, p))
  PROVE  AtomicInv'
<1>1. \A u \in Threads \ {t} : job'[u] = job[u]
  BY DEF Goes
<1>2. CASE r = <<>>
  <2>1. job'[t].call = "none" /\ job'[t].todo = r /\ job'[t].seen = <<>>
    BY <1>2 DEF Goes
  <2>2. PICK w : w = <<>>
    OBVIOUS
  <2>3. ThreadFits(t, "none", r, w)'
    BY <1>2, <2>2, NothingLeftAtomic
  <2> QED
    BY <1>1, <2>1, <2>2, <2>3, MoveAtomic
<1>3. CASE r # <<>>
  <2>1. job'[t].call = call /\ job'[t].todo = r /\ job'[t].seen = v
    BY <1>3 DEF Goes
  <2>2. MomentFits(call, r)
    BY AtomicThread, TailMoment
  <2>3. ThreadFits(t, call, r, v)'
    BY <2>2 DEF ThreadFits
  <2> QED
    BY <1>1, <2>1, <2>3, MoveAtomic
<1> QED
  BY <1>2, <1>3

\* A step after which the call has seen what it had seen before.
LEMMA AdvanceAtomic ==
  ASSUME AtomicInv, LockedInv', NEW t \in Threads, NEW what, NEW o, Due(t, what, o), Advance(t),
         \A u \in Threads \ {t}, p \in Objects :
           owner[p] = u => owner'[p] = u /\ val'[p] = val[p],
         what = "unlock" \/ \A p \in Objects : owner[p] = t => owner'[p] = t,
         what = "lock" => owner'[o] = t,
         \A p \in Objects : val'[p] = val[p] \/ (p = o /\ what \in Writing),
         what = "half" => owner'[o] = t /\ val'[o].first = After(val'[o].second),
         what \in Final => val'[o].first = val'[o].second
  PROVE  AtomicInv'
<1>1. PICK s, r, c, v : s = job[t].todo /\ r = Tail(s) /\ c = job[t].call /\ v = job[t].seen
  OBVIOUS
<1>2. LockedInv
  BY DEF AtomicInv
<1>3. s \in Seq(Step) /\ Rest(r, s) /\ s[1][1] = what /\ s[1][2] = o /\ o \in Objects
  BY <1>1, <1>2, DueStep DEF Rest
<1>4. Goes(t, r, v)
  BY <1>1, <1>2, AdvanceGoes
<1>5. v \in Views /\ MomentFits(c, s) /\ GuardsFit(t, c, s) /\ ViewFits(t, c, s, v)
  BY <1>1, AtomicThread
<1>6. GuardsFit(t, c, r)'
  BY <1>1, <1>3, <1>5, TailGuards
<1>7. ViewFits(t, c, r, v)'
  <2>1. \/ s[1][1] \in Writing \union {"unlock"}
        \/ \A p \in Objects : owner[p] = t => owner'[p] = t /\ val'[p] = val[p]
    BY <1>3
  <2> QED
    BY <1>1, <1>3, <1>5, <2>1, TailView
<1>8. ASSUME NEW p \in Objects
      PROVE  /\ HalfIn(r, p) => \/ HalfIn(s, p) /\ what \notin Writing
                                \/ what = "half" /\ o = p
             /\ HalfIn(s, p) => HalfIn(r, p) \/ (what = "fill" /\ o = p)
             /\ what = "half" /\ o = p => HalfIn(r, p)
  <2>1. WritesFit(s)
    BY <1>5 DEF MomentFits
  <2> QED
    BY <1>1, <1>3, <2>1, TailHalves
<1>9. ASSUME NEW p \in Objects, HalfIn(r, p)
      PROVE  owner'[p] = t /\ val'[p].first = After(val'[p].second)
  <2>1. CASE HalfIn(s, p) /\ what \notin Writing
    <3>1. owner[p] = t /\ val[p].first = After(val[p].second)
      BY <1>1, <2>1 DEF AtomicInv, HalvesFit, HalfDone
    <3>2. what # "unlock"
      BY <1>3, <1>5, <2>1, HalfGuarded
    <3> QED
      BY <2>1, <3>1, <3>2
  <2>2. CASE what = "half" /\ o = p
    BY <2>2
  <2> QED
    BY <1>8, <1>9, <2>1, <2>2
<1>10. ASSUME NEW p \in Objects, val'[p].first # val'[p].second, ~HalfIn(r, p)
       PROVE  val'[p] = val[p] /\ ~HalfDone(t, p)
  <2>1. ~(p = o /\ what \in Writing)
    BY <1>8, <1>10 DEF Writing, Final
  <2>2. ~HalfIn(s, p)
    BY <1>8, <1>10, <2>1 DEF Writing
  <2> QED
    BY <1>1, <2>1, <2>2 DEF HalfDone
<1> QED
  BY <1>1, <1>3, <1>4, <1>6, <1>7, <1>9, <1>10, GoesAtomic

\* The lock that a step needs is there when the step is due.
LEMMA OwnsDue ==
  ASSUME AtomicInv, NEW t \in Threads, NEW what, NEW o, Due(t, what, o),
         what \in Guarding(job[t].call)
  PROVE  owner[o] = t
<1>1. PICK s, r : s = job[t].todo /\ r = Tail(s)
  OBVIOUS
<1>2. s \in Seq(Step) /\ Rest(r, s) /\ s[1][1] = what /\ s[1][2] = o
  BY <1>1, DueStep DEF AtomicInv, Rest
<1>3. 1 \in At(s, Guarding(job[t].call)) /\ \A k \in At(s, {"lock"}) : k \in Nat \ {0}
  BY <1>2, PastAt, HeadAt
<1>4. owner[o] = t \/ Before(s, 1, o)
  BY <1>1, <1>2, <1>3, AtomicThread DEF GuardsFit
<1> QED
  BY <1>3, <1>4 DEF Before

\* A value that nobody else is writing is whole.
LEMMA WholeOpen ==
  ASSUME AtomicInv, NEW t \in Threads, NEW o \in Objects, Open(t, o), ~HalfDone(t, o)
  PROVE  val[o].first = val[o].second
<1> SUFFICES ASSUME NEW u \in Threads, HalfDone(u, o) PROVE FALSE
  BY DEF AtomicInv, HalvesFit
<1>1. owner[o] = u
  BY DEF AtomicInv, HalvesFit
<1> QED
  BY <1>1, LockedObjectsAssumption DEF Open

LEMMA AcquireAtomic ==
  ASSUME AtomicInv, NEW t \in Threads, NEW o, Acquire(t, o)
  PROVE  AtomicInv'
<1>1. /\ Due(t, "lock", o) /\ Open(t, o) /\ Advance(t) /\ val' = val
      /\ owner' = [owner EXCEPT ![o] = t]
  BY DEF Acquire
<1>2. LockedInv' /\ o \in Objects /\ owner \in [Objects -> Threads \union {NoThread}]
  BY <1>1, AcquireInv, DueStep DEF AtomicInv, LockedInv, ObjectTypes, LockTypes
<1>3. \A u \in Threads, p \in Objects : owner[p] = u => owner'[p] = u
  BY <1>1, <1>2, LockedObjectsAssumption DEF Open
<1>4. owner'[o] = t
  BY <1>1, <1>2
<1> QED
  BY <1>1, <1>2, <1>3, <1>4, AdvanceAtomic DEF Final

LEMMA ReleaseAtomic ==
  ASSUME AtomicInv, NEW t \in Threads, NEW o, Release(t, o)
  PROVE  AtomicInv'
<1>1. /\ Due(t, "unlock", o) /\ Advance(t) /\ val' = val
      /\ owner' = [owner EXCEPT ![o] = IF depth[o] = 1 THEN NoThread ELSE t]
      /\ depth' = [depth EXCEPT ![o] = @ - 1]
  BY DEF Release
<1>2. /\ LockedInv' /\ LockedInv /\ LockTypes /\ o \in Objects
      /\ owner \in [Objects -> Threads \union {NoThread}]
  BY <1>1, ReleaseInv, DueStep DEF AtomicInv, LockedInv, ObjectTypes, LockTypes
<1>3. owner[o] = t
  <2>1. PICK s, r : s = job[t].todo /\ r = Tail(s)
    OBVIOUS
  <2>2. s \in Seq(Step) /\ s # <<>> /\ s[1] = Do("unlock", o) /\ LocksFit(t, s)
    BY <1>1, <1>2, <2>1, DueStep DEF LockedInv
  <2> QED
    BY <1>1, <1>2, <2>1, <2>2, ReleaseLocks
<1>4. \A u \in Threads \ {t}, p \in Objects : owner[p] = u => owner'[p] = u
  BY <1>1, <1>2, <1>3
<1> QED
  BY <1>1, <1>2, <1>4, AdvanceAtomic DEF Final

LEMMA SetFreezeAtomic ==
  ASSUME AtomicInv, NEW t \in Threads, NEW o, SetFreeze(t, o)
  PROVE  AtomicInv'
<1>1. PICK what \in {"freeze", "unfreeze"} : Due(t, what, o)
  BY DEF SetFreeze
<1>2. Advance(t) /\ val' = val /\ owner' = owner
  BY DEF SetFreeze
<1>3. LockedInv'
  BY SetFreezeInv DEF AtomicInv
<1> QED
  BY <1>1, <1>2, <1>3, AdvanceAtomic DEF Final

LEMMA CheckAtomic ==
  ASSUME AtomicInv, NEW t \in Threads, NEW o, Check(t, o)
  PROVE  AtomicInv'
<1>1. Due(t, "check", o) /\ val' = val /\ owner' = owner
  BY DEF Check
<1>2. LockedInv' /\ LockedInv
  BY CheckInv DEF AtomicInv
<1>3. CASE Advance(t)
  BY <1>1, <1>2, <1>3, AdvanceAtomic DEF Final
<1>4. CASE Continue(t, <<>>)
  <2>1. PICK s, e : s = job[t].todo /\ e = <<>>
    OBVIOUS
  <2>2. 1 \in DOMAIN s /\ s[1][1] = "check"
    BY <1>1, <1>2, <2>1, DueStep
  <2>3. HoldsNothing(t)
    BY <1>2, <2>1, <2>2 DEF LockedInv, AsksFit
  <2>4. \A p \in Objects : ~HalfDone(t, p)
    BY <2>3 DEF HoldsNothing, AtomicInv, HalvesFit
  <2>5. /\ \A u \in Threads \ {t} : job'[u] = job[u]
        /\ job'[t].call = "none" /\ job'[t].todo = e /\ job'[t].seen = e
    BY <1>2, <1>4, <2>1 DEF Continue, Idle, LockedInv, ObjectTypes
  <2>6. ThreadFits(t, "none", e, e)' /\ \A p : ~HalfIn(e, p)
    BY <2>1, NothingLeftAtomic
  <2> QED
    BY <1>1, <1>2, <2>4, <2>5, <2>6, MoveAtomic
<1> QED
  BY <1>3, <1>4 DEF Check

LEMMA BeginAtomic ==
  ASSUME AtomicInv, NEW t \in Threads, Begin(t)
  PROVE  AtomicInv'
<1>1. LockedInv' /\ LockedInv /\ job \in [Threads -> JobState] /\ offer \in Families
  BY BeginInv DEF AtomicInv, LockedInv, ObjectTypes
<1>2. /\ job[t] = Idle /\ val' = val /\ owner' = owner
      /\ \E k \in offer, x, y \in Objects :
           job' = [job EXCEPT ![t] = [Idle EXCEPT !.call = k, !.todo = Script[k][x][y]]]
  BY DEF Begin
<1>3. PICK k \in offer, x \in Objects, y \in Objects :
        job' = [job EXCEPT ![t] = [Idle EXCEPT !.call = k, !.todo = Script[k][x][y]]]
  BY <1>2
<1>4. PICK s, v : s = Script[k][x][y] /\ v = <<>>
  OBVIOUS
<1>5. job'[t] = [Idle EXCEPT !.call = k, !.todo = s]
  BY <1>1, <1>3, <1>4
<1>6. job'[t].call = k /\ job'[t].todo = s /\ job'[t].seen = v
  BY <1>4, <1>5 DEF Idle
<1>7. \A u \in Threads \ {t} : job'[u] = job[u]
  BY <1>1, <1>3
<1>8. k \in Kinds
  BY <1>1, LockedObjectsAssumption
<1>9. MomentFits(k, s) /\ StartsFit(k, s)
  BY <1>4, <1>8, ScriptBegins DEF Begins
<1>10. GuardsFit(t, k, s)'
  BY <1>9 DEF GuardsFit, StartsFit
<1>11. DOMAIN v = {}
  BY <1>4
<1>12. ViewFits(t, k, s, v)'
  BY <1>4, <1>11 DEF ViewFits
<1>13. ASSUME NEW p PROVE ~HalfIn(s, p)
  <2> SUFFICES ASSUME NEW i \in At(s, {"fill"}), s[i][2] = p PROVE HasOn(s, {"half"}, p)
    BY DEF HalfIn, HasOn
  <2>1. PICK n \in At(s, {"half"}) : TRUE
    BY <1>9 DEF StartsFit
  <2>2. PICK m \in At(s, {"fill"}) : s[m][2] = s[n][2]
    BY <1>9, <2>1 DEF MomentFits, WritesFit
  <2>3. i \in At(s, Final) /\ m \in At(s, Final)
    BY <2>2 DEF At, Final
  <2>4. m = i
    BY <1>9, <2>3 DEF MomentFits, WritesFit
  <2> QED
    BY <2>1, <2>2, <2>4 DEF HasOn
<1>14. ASSUME NEW p PROVE ~HalfDone(t, p)
  <2>1. job[t].todo = <<>>
    BY <1>2 DEF Idle
  <2> QED
    BY <2>1 DEF HalfDone, HalfIn, HasOn, At
<1>15. ThreadFits(t, k, s, v)'
  BY <1>9, <1>10, <1>12 DEF ThreadFits
<1> QED
  BY <1>1, <1>2, <1>6, <1>7, <1>13, <1>14, <1>15, MoveAtomic

\* A call that has the lock of o, or does without, and has still to see it, has
\* not written a half of it.
LEMMA SeeingNoHalf ==
  ASSUME AtomicInv, NEW t \in Threads, job[t].call \notin Loose, At(job[t].todo, Sights) # {},
         NEW p
  PROVE  ~HalfDone(t, p)
<1> SUFFICES ASSUME HalfDone(t, p) PROVE FALSE
  OBVIOUS
<1>1. PICK s : s = job[t].todo
  OBVIOUS
<1>2. WritesFit(s) /\ KeepsFit(job[t].call, s)
  BY <1>1, AtomicThread DEF MomentFits
<1>3. PICK i \in At(s, {"fill"}) : s[i][2] = p
  BY <1>1 DEF HalfDone, HalfIn, HasOn
<1>4. At(s, {"half"}) # {}
  BY <1>1, <1>2, <1>3 DEF KeepsFit
<1>5. PICK n \in At(s, {"half"}) : TRUE
  BY <1>4
<1>6. PICK m \in At(s, {"fill"}) : s[m][2] = s[n][2]
  BY <1>2, <1>5 DEF WritesFit
<1>7. i \in At(s, Final) /\ m \in At(s, Final)
  BY <1>3, <1>6 DEF At, Final
<1>8. m = i
  BY <1>2, <1>7 DEF WritesFit
<1>9. HasOn(s, {"half"}, p)
  BY <1>3, <1>5, <1>6, <1>8 DEF HasOn
<1> QED
  BY <1>1, <1>9 DEF HalfDone, HalfIn

LEMMA WriteAtomic ==
  ASSUME AtomicInv, NEW t \in Threads, NEW o, Write(t, o)
  PROVE  AtomicInv'
<1>1. PICK what \in Writing : Due(t, what, o)
  BY DEF Write, Writing
<1>2. Advance(t) /\ owner' = owner
  BY DEF Write
<1>3. LockedInv' /\ LockedInv /\ o \in Objects /\ val \in [Objects -> Whole]
  BY <1>1, WriteInv, DueStep DEF AtomicInv, LockedInv, ObjectTypes
<1>4. \A w : Due(t, w, o) => w = what
  BY <1>1 DEF Due
<1>5. \A p \in Objects : p # o => val'[p] = val[p]
  BY <1>3 DEF Write
<1>6. what # "put" => owner[o] = t
  <2>1. what # "put" => what \in Guarding(job[t].call)
    BY DEF Writing, Guarding
  <2> QED
    BY <1>1, <2>1, OwnsDue
<1>7. Open(t, o)
  BY <1>4, <1>6 DEF Write, Open
<1>8. \A u \in Threads \ {t}, p \in Objects : owner[p] = u => owner'[p] = u /\ val'[p] = val[p]
  BY <1>2, <1>5, <1>7, LockedObjectsAssumption DEF Open
<1>9. ASSUME what = "half"
      PROVE  owner'[o] = t /\ val'[o].first = After(val'[o].second)
  <2>1. val' = [val EXCEPT ![o].first = After(@)]
    BY <1>4, <1>9 DEF Write
  <2>2. val'[o].first = After(val[o].first) /\ val'[o].second = val[o].second
    BY <1>3, <2>1 DEF Whole
  <2>3. ~HalfDone(t, o)
    <3>1. PICK s, r : s = job[t].todo /\ r = Tail(s)
      OBVIOUS
    <3>2. s \in Seq(Step) /\ Rest(r, s) /\ s[1][1] = "half" /\ s[1][2] = o
      BY <1>1, <1>3, <1>9, <3>1, DueStep DEF Rest
    <3>3. HasOn(s, {"half"}, o)
      BY <3>2, HeadAt DEF HasOn
    <3> QED
      BY <3>1, <3>3 DEF HalfDone, HalfIn
  <2>4. val[o].first = val[o].second
    BY <1>3, <1>7, <2>3, WholeOpen
  <2> QED
    BY <1>2, <1>6, <1>9, <2>2, <2>4
<1>10. ASSUME what \in Final PROVE val'[o].first = val'[o].second
  <2>1. CASE what = "fill"
    <3>1. val' = [val EXCEPT ![o].second = val[o].first]
      BY <1>4, <2>1 DEF Write
    <3> QED
      BY <1>3, <3>1 DEF Whole
  <2>2. CASE what # "fill"
    <3>1. \E n : val' = [val EXCEPT ![o] = Both(n)]
      BY <1>4, <1>10, <2>2 DEF Write, Final
    <3> QED
      BY <1>3, <3>1 DEF Both
  <2> QED
    BY <2>1, <2>2
<1>11. \A p \in Objects : val'[p] = val[p] \/ (p = o /\ what \in Writing)
  BY <1>5
<1>12. what # "lock" /\ \A p \in Objects : owner[p] = t => owner'[p] = t
  BY <1>2 DEF Writing
<1> QED
  BY <1>1, <1>2, <1>3, <1>8, <1>9, <1>10, <1>11, <1>12, AdvanceAtomic

\* What a call keeps of what it sees.
Kept(t, o) ==
  IF job[t].call \in Loose
    THEN <<>>
    ELSE [p \in DOMAIN job[t].seen \cup {o} |-> IF p = o THEN val[o] ELSE job[t].seen[p]]

\* What is seen by a call that keeps it is its own and whole, also before.
LEMMA SeenWhole ==
  ASSUME AtomicInv, NEW t \in Threads, NEW o, Read(t, o), job[t].call \notin Loose
  PROVE  /\ o \in Objects /\ Open(t, o) /\ val[o].first = val[o].second
         /\ Due(t, "read", o) => owner[o] = t
         /\ \A p \in DOMAIN job[t].seen :
              owner[p] = t /\ val[p] = job[t].seen[p] /\ val[p].first = val[p].second
<1>1. PICK what \in {"read", "get"} : Due(t, what, o)
  BY DEF Read
<1>2. LockedInv
  BY DEF AtomicInv
<1>3. PICK s, r : s = job[t].todo /\ r = Tail(s)
  OBVIOUS
<1>4. s \in Seq(Step) /\ Rest(r, s) /\ s[1][1] = what /\ s[1][2] = o /\ o \in Objects
  BY <1>1, <1>2, <1>3, DueStep DEF Rest
<1>5. At(s, Sights) # {}
  <2>1. what \in Sights
    BY DEF Sights, Seeing
  <2> QED
    BY <1>4, <2>1, HeadAt
<1>6. Due(t, "read", o) => owner[o] = t
  <2>1. "read" \in Guarding(job[t].call)
    BY DEF Guarding
  <2> QED
    BY <2>1, OwnsDue
<1>7. Open(t, o)
  BY <1>6 DEF Read, Open
<1>8. val[o].first = val[o].second
  BY <1>3, <1>4, <1>5, <1>7, SeeingNoHalf, WholeOpen
<1>9. ViewFits(t, job[t].call, s, job[t].seen)
  BY <1>3, AtomicThread
<1> QED
  BY <1>4, <1>5, <1>6, <1>7, <1>8, <1>9 DEF ViewFits

\* With all seen but what is due, the lock of what is still to be written is there.
LEMMA OwnerWhen ==
  ASSUME NEW t, NEW call, NEW s \in Seq(Step), WritesFit(s), GuardsFit(t, call, s),
         \A n \in At(s, Sights) : n = 1,
         NEW o, HasOn(s, {"update", "fill"}, o)
  PROVE  owner[o] = t
<1>1. PICK i \in At(s, {"update", "fill"}) : s[i][2] = o
  BY DEF HasOn
<1>2. i \in At(s, Guarding(call))
  BY DEF At, Guarding
<1>3. owner[o] = t \/ Before(s, i, o)
  BY <1>1, <1>2 DEF GuardsFit
<1>4. ASSUME NEW k \in At(s, {"lock"}) PROVE FALSE
  <2>1. PICK n \in At(s, Sights) : k < n
    BY <1>1 DEF WritesFit
  <2>2. k \in Nat \ {0} /\ n = 1
    BY <2>1 DEF At
  <2> QED
    BY <2>1, <2>2
<1> QED
  BY <1>3, <1>4 DEF Before

LEMMA ReadAtomic ==
  ASSUME AtomicInv, NEW t \in Threads, NEW o, Read(t, o)
  PROVE  AtomicInv'
<1>1. PICK what \in {"read", "get"} : Due(t, what, o)
  BY DEF Read
<1>2. LockedInv' /\ LockedInv
  BY ReadInv DEF AtomicInv
<1>3. PICK s, r, c, v : s = job[t].todo /\ r = Tail(s) /\ c = job[t].call /\ v = Kept(t, o)
  OBVIOUS
<1>4. s \in Seq(Step) /\ Rest(r, s) /\ s[1][1] = what /\ s[1][2] = o /\ o \in Objects
  BY <1>1, <1>2, <1>3, DueStep DEF Rest
<1>5. val' = val /\ owner' = owner
  BY DEF Read
<1>6. Goes(t, r, v)
  <2>1. job' = [job EXCEPT ![t] =
                  IF r = <<>> THEN Idle ELSE [@ EXCEPT !.todo = r, !.seen = v]]
    BY <1>3 DEF Read, Kept
  <2> QED
    BY <1>2, <2>1, ReadGoes
<1>7. MomentFits(c, s) /\ GuardsFit(t, c, s) /\ ViewFits(t, c, s, job[t].seen)
  BY <1>3, AtomicThread
<1>8. GuardsFit(t, c, r)'
  <2>1. s[1][1] # "lock"
    BY <1>4
  <2> QED
    BY <1>4, <1>5, <1>7, <2>1, TailGuards
<1>9. ViewFits(t, c, r, v)'
  <2>1. CASE c \in Loose
    <3>1. v = <<>> /\ DOMAIN v = {}
      BY <1>3, <2>1 DEF Kept
    <3> QED
      BY <3>1 DEF ViewFits
  <2>2. CASE c \notin Loose
    <3>1. At(s, Sights) # {}
      BY <1>4, HeadAt DEF Sights, Seeing
    <3>2. KeepsFit(c, s) /\ WritesFit(s)
      BY <1>7 DEF MomentFits
    <3>3. ~Blind(c, r)
      <4>1. At(r, {"put"}) = {}
        BY <1>4, <2>2, <3>1, <3>2, TailEmpty DEF KeepsFit
      <4>2. At(r, {"look"}) = {}
        <5> SUFFICES ASSUME At(r, {"look"}) # {} PROVE FALSE
          OBVIOUS
        <5>1. At(s, {"look"}) # {}
          BY <1>4, TailEmpty
        <5>2. Len(s) = 1
          BY <2>2, <3>2, <5>1 DEF KeepsFit
        <5>3. r = <<>>
          BY <1>4, <5>2, TailSteps DEF Rest
        <5> QED
          BY <5>3 DEF At
      <4> QED
        BY <2>2, <4>1, <4>2 DEF Blind, At
    <3>4. /\ val[o].first = val[o].second
          /\ Due(t, "read", o) => owner[o] = t
          /\ \A p \in DOMAIN job[t].seen :
               owner[p] = t /\ val[p] = job[t].seen[p] /\ val[p].first = val[p].second
      BY <1>3, <2>2, SeenWhole
    <3>5. ASSUME At(r, Sights) # {} \/ HasOn(r, {"update"}, o), what = "get" PROVE owner[o] = t
      <4>1. InOrder(s) /\ s[1][1] \in Late
        BY <1>4, <2>2, <3>2, <3>5 DEF KeepsFit, Late
      <4>2. At(r, Sights) = {}
        BY <1>4, <4>1, LateLast
      <4>3. HasOn(s, {"update", "fill"}, o)
        <5>1. HasOn(s, {"update"}, o)
          BY <1>4, <3>5, <4>2, TailHas
        <5> QED
          BY <5>1 DEF HasOn, At
      <4>4. \A n \in At(s, Sights) : n = 1
        BY <1>4, <4>2, PastAt
      <4> QED
        BY <1>4, <1>7, <3>2, <4>3, <4>4, OwnerWhen
    <3>6. ASSUME NEW p \in DOMAIN v, At(r, Sights) # {} \/ HasOn(r, {"update"}, p)
          PROVE  owner[p] = t /\ val[p] = v[p] /\ val[p].first = val[p].second
      <4>1. /\ p = o \/ p \in DOMAIN job[t].seen
            /\ v[p] = IF p = o THEN val[o] ELSE job[t].seen[p]
        BY <1>3, <2>2, <3>6 DEF Kept
      <4>2. CASE p = o
        BY <1>1, <3>4, <3>5, <3>6, <4>1, <4>2
      <4>3. CASE p # o
        BY <3>4, <4>1, <4>3
      <4> QED
        BY <4>2, <4>3
    <3> QED
      BY <1>5, <3>3, <3>6 DEF ViewFits
  <2> QED
    BY <2>1, <2>2
<1>10. ASSUME NEW p \in Objects
       PROVE  (HalfIn(r, p) => HalfDone(t, p)) /\ (HalfDone(t, p) => HalfIn(r, p))
  <2>1. WritesFit(s) /\ what \notin Writing
    BY <1>7 DEF MomentFits, Writing
  <2>2. /\ HalfIn(r, p) => HalfIn(s, p)
        /\ HalfIn(s, p) => HalfIn(r, p)
    BY <1>4, <2>1, TailHalves DEF Writing
  <2> QED
    BY <1>3, <2>2 DEF HalfDone
<1>11. \A p \in Objects : HalfIn(r, p) => owner'[p] = t /\ val'[p].first = After(val'[p].second)
  BY <1>5, <1>10 DEF AtomicInv, HalvesFit
<1>12. \A p \in Objects : val'[p].first # val'[p].second =>
         HalfIn(r, p) \/ (val'[p] = val[p] /\ ~HalfDone(t, p))
  BY <1>5, <1>10
<1>13. \A u \in Threads \ {t}, p \in Objects : owner[p] = u => owner'[p] = u /\ val'[p] = val[p]
  BY <1>5
<1> QED
  BY <1>2, <1>3, <1>4, <1>6, <1>8, <1>9, <1>11, <1>12, <1>13, GoesAtomic

\* Another first step that looks the same to words leaves them where they are.
LEMMA ReplacedAt ==
  ASSUME NEW s \in Seq(Step), s # <<>>, NEW n, NEW e, Replaces(n, s, e),
         NEW words, s[1][1] \in words <=> e[1] \in words
  PROVE  At(n, words) = At(s, words)
BY DEF Replaces, At

LEMMA ReplacedHas ==
  ASSUME NEW s \in Seq(Step), s # <<>>, NEW n, NEW e, Replaces(n, s, e),
         NEW words, s[1][1] \notin words, e[1] \notin words, NEW p
  PROVE  HasOn(n, words, p) <=> HasOn(s, words, p)
<1>1. At(n, words) = At(s, words)
  BY ReplacedAt
<1>2. \A i \in At(s, words) : n[i] = s[i]
  BY DEF Replaces, At
<1> QED
  BY <1>1, <1>2 DEF HasOn

\* A glance that has become a read leaves the moment of the call in order.
LEMMA GlancedMoment ==
  ASSUME NEW t, NEW call, NEW s \in Seq(Step), s # <<>>, NEW o, s[1][1] = "glance",
         MomentFits(call, s), GuardsFit(t, call, s),
         NEW w, NEW c, GlancesAt(o, call, w, c), NEW n, Replaces(n, s, Do(w, o))
  PROVE  MomentFits(c, n) /\ GuardsFit(t, c, n)
<1>1. /\ w \in {"read", "get"} /\ Do(w, o)[1] = w /\ n[1][1] = w /\ Len(n) = Len(s)
      /\ \A i \in DOMAIN s \ {1} : n[i] = s[i]
  BY DEF GlancesAt, Replaces, Do
<1>2. \/ c = call /\ w = "get"
      \/ c \in Loose /\ w = "read" /\ (c = call \/ call \notin Loose)
  BY DEF GlancesAt, Lockless, Loose
<1>3. \A words : (w \in words <=> "glance" \in words) => At(n, words) = At(s, words)
  BY <1>1, ReplacedAt
<1>4. /\ At(n, {"fill"}) = At(s, {"fill"}) /\ At(n, {"half"}) = At(s, {"half"})
      /\ At(n, {"put"}) = At(s, {"put"}) /\ At(n, {"look"}) = At(s, {"look"})
      /\ At(n, {"lock"}) = At(s, {"lock"}) /\ At(n, {"unlock"}) = At(s, {"unlock"})
      /\ At(n, {"update", "fill"}) = At(s, {"update", "fill"})
  BY <1>1, <1>3
<1>5. At(n, Sights) = At(s, Sights)
  BY <1>1, <1>3 DEF Sights, Seeing
<1>6. At(n, Final) = At(s, Final)
  BY <1>1, <1>3 DEF Final
<1>7. \A words : "glance" \notin words => \A i \in At(s, words) : n[i] = s[i]
  BY <1>1 DEF At
<1>8. WritesFit(s) /\ KeepsFit(call, s) /\ BranchesFit(call, s)
  BY DEF MomentFits
<1>9. WritesFit(n)
  <2>1. \A i \in At(s, {"half"}) \union At(s, {"fill"}) : n[i] = s[i]
    BY <1>7
  <2> QED
    BY <1>4, <1>5, <1>6, <1>8, <2>1 DEF WritesFit
<1>10. KeepsFit(c, n)
  <2> SUFFICES ASSUME c \notin Loose PROVE KeepsFit(c, n)
    BY DEF KeepsFit
  <2>1. c = call /\ w = "get"
    BY <1>2
  <2>2. At(n, Late) = At(s, Late)
    BY <1>3, <2>1 DEF Late
  <2>3. InOrder(n)
    BY <1>5, <1>8, <2>1, <2>2 DEF KeepsFit, InOrder
  <2> QED
    BY <1>1, <1>4, <1>5, <1>8, <2>1, <2>3 DEF KeepsFit
<1>11. BranchesFit(c, n)
  <2> SUFFICES ASSUME NEW i \in At(s, {"look"}) PROVE BranchFits(c, n[i])
    BY <1>4 DEF BranchesFit
  <2>1. n[i] = s[i] /\ BranchFits(call, s[i])
    BY <1>7, <1>8 DEF BranchesFit
  <2> QED
    BY <1>2, <2>1 DEF BranchFits
<1>12. GuardsFit(t, c, n)
  <2> SUFFICES ASSUME NEW i \in At(n, Guarding(c))
               PROVE  Within(n, i) /\ (owner[n[i][2]] = t \/ Before(n, i, n[i][2]))
    BY DEF GuardsFit
  <2>1. i # 1
    BY <1>1, <1>2 DEF At, Guarding
  <2>2. i \in At(s, Guarding(call)) /\ n[i] = s[i]
    <3>1. i \in DOMAIN s /\ n[i] = s[i] /\ s[i][1] \in Guarding(c)
      BY <1>1, <2>1 DEF At, Replaces
    <3> QED
      BY <1>2, <3>1 DEF At, Guarding
  <2>3. Within(s, i) /\ (owner[s[i][2]] = t \/ Before(s, i, s[i][2]))
    BY <2>2 DEF GuardsFit
  <2>4. \A k \in At(s, {"lock"}) : n[k] = s[k]
    BY <1>7
  <2> QED
    BY <1>4, <2>2, <2>3, <2>4 DEF Within, Before
<1> QED
  BY <1>9, <1>10, <1>11, <1>12 DEF MomentFits

\* What a glance does to the call of its thread: it goes on seeing, and what it
\* has half written is the same.
LEMMA GlancedAtomic ==
  ASSUME AtomicInv, NEW t \in Threads, NEW o, GlanceFirst(t, o)
  PROVE  /\ \A u \in Threads \ {t} : job'[u] = job[u]
         /\ \E c, n, v :
              /\ job'[t].call = c /\ job'[t].todo = n /\ job'[t].seen = v
              /\ v = <<>> \/ (v = job[t].seen /\ c = job[t].call)
              /\ MomentFits(c, n) /\ GuardsFit(t, c, n) /\ At(n, Sights) # {}
              /\ At(n, {"look", "put"}) = At(job[t].todo, {"look", "put"})
              /\ \A p : HasOn(n, {"update"}, p) <=> HasOn(job[t].todo, {"update"}, p)
              /\ \A p : HalfIn(n, p) <=> HalfIn(job[t].todo, p)
         /\ At(job[t].todo, Sights) # {}
<1>1. LockedInv /\ Due(t, "glance", o)
  BY DEF AtomicInv, GlanceFirst
<1>2. PICK w, c, n, v, j :
        /\ j \in JobState
        /\ GlancesAt(o, job[t].call, w, c) /\ Replaces(n, job[t].todo, Do(w, o))
        /\ v = IF w = "read" THEN <<>> ELSE job[t].seen
        /\ job' = [job EXCEPT ![t] = j] /\ j.call = c /\ j.todo = n /\ j.seen = v
  BY <1>1, Glanced
<1>3. PICK s, call : s = job[t].todo /\ call = job[t].call
  OBVIOUS
<1>4. s \in Seq(Step) /\ s # <<>> /\ 1 \in DOMAIN s /\ s[1][1] = "glance"
  BY <1>1, <1>3, DueStep
<1>5. MomentFits(call, s) /\ GuardsFit(t, call, s)
  BY <1>3, AtomicThread
<1>6. GlancesAt(o, call, w, c) /\ Replaces(n, s, Do(w, o))
  BY <1>2, <1>3
<1>7. MomentFits(c, n) /\ GuardsFit(t, c, n)
  BY <1>4, <1>5, <1>6, GlancedMoment
<1>8. /\ w \in {"read", "get"} /\ Do(w, o)[1] = w
      /\ v = <<>> \/ (v = job[t].seen /\ c = call)
  BY <1>2, <1>6 DEF GlancesAt, Do
<1>9. At(n, {"look", "put"}) = At(s, {"look", "put"})
  BY <1>4, <1>6, <1>8, ReplacedAt
<1>10. At(s, Sights) # {} /\ At(n, Sights) = At(s, Sights)
  <2>1. "glance" \in Sights /\ w \in Sights
    BY <1>8 DEF Sights, Seeing
  <2>2. 1 \in At(s, Sights)
    BY <1>4, <2>1 DEF At
  <2> QED
    BY <1>4, <1>6, <1>8, <2>1, <2>2, ReplacedAt
<1>11. ASSUME NEW words, words \subseteq {"update", "fill", "half"}
       PROVE  \A p : HasOn(n, words, p) <=> HasOn(s, words, p)
  <2>1. w \notin words /\ "glance" \notin words
    BY <1>8, <1>11
  <2> QED
    BY <1>4, <1>6, <1>8, <2>1, ReplacedHas
<1>12. \A p : HasOn(n, {"update"}, p) <=> HasOn(s, {"update"}, p)
  BY <1>11
<1>13. \A p : HalfIn(n, p) <=> HalfIn(s, p)
  BY <1>11 DEF HalfIn
<1>14. /\ \A u \in Threads \ {t} : job'[u] = job[u]
       /\ job'[t].call = c /\ job'[t].todo = n /\ job'[t].seen = v
  BY <1>1, <1>2 DEF LockedInv, ObjectTypes
<1> QED
  BY <1>3, <1>7, <1>8, <1>9, <1>10, <1>12, <1>13, <1>14

LEMMA GlanceFirstAtomic ==
  ASSUME AtomicInv, NEW t \in Threads, NEW o, GlanceFirst(t, o)
  PROVE  AtomicInv'
<1>1. LockedInv' /\ val' = val /\ owner' = owner
  BY GlanceFirstInv DEF AtomicInv, GlanceFirst
<1>2. \A u \in Threads \ {t} : job'[u] = job[u]
  BY GlancedAtomic
<1>3. PICK s, call, seen : s = job[t].todo /\ call = job[t].call /\ seen = job[t].seen
  OBVIOUS
<1>4. At(s, Sights) # {} /\ ViewFits(t, call, s, seen)
  BY <1>3, AtomicThread, GlancedAtomic
<1>5. PICK c, n, v :
        /\ job'[t].call = c /\ job'[t].todo = n /\ job'[t].seen = v
        /\ v = <<>> \/ (v = seen /\ c = call)
        /\ MomentFits(c, n) /\ GuardsFit(t, c, n) /\ At(n, Sights) # {}
        /\ At(n, {"look", "put"}) = At(s, {"look", "put"})
        /\ \A p : HasOn(n, {"update"}, p) <=> HasOn(s, {"update"}, p)
        /\ \A p : HalfIn(n, p) <=> HalfIn(s, p)
  BY <1>3, GlancedAtomic
<1>6. GuardsFit(t, c, n)'
  BY <1>1, <1>5 DEF GuardsFit
<1>7. ViewFits(t, c, n, v)'
  <2>1. CASE v = <<>>
    <3>1. DOMAIN v = {}
      BY <2>1
    <3> QED
      BY <2>1, <3>1 DEF ViewFits
  <2>2. CASE v = seen /\ c = call
    <3>1. Blind(c, n) => v = <<>>
      BY <1>4, <1>5, <2>2 DEF ViewFits, Blind
    <3>2. \A p \in DOMAIN v : owner[p] = t /\ val[p] = v[p] /\ val[p].first = val[p].second
      BY <1>4, <2>2 DEF ViewFits
    <3> QED
      BY <1>1, <3>1, <3>2 DEF ViewFits
  <2> QED
    BY <1>5, <2>1, <2>2
<1>8. ThreadFits(t, c, n, v)'
  BY <1>5, <1>6, <1>7 DEF ThreadFits
<1>9. \A p : HalfIn(n, p) <=> HalfDone(t, p)
  BY <1>3, <1>5 DEF HalfDone
<1>10. \A p \in Objects : HalfIn(n, p) => owner'[p] = t /\ val'[p].first = After(val'[p].second)
  BY <1>1, <1>9 DEF AtomicInv, HalvesFit
<1>11. \A p \in Objects : val'[p].first # val'[p].second =>
         HalfIn(n, p) \/ (val'[p] = val[p] /\ ~HalfDone(t, p))
  BY <1>1, <1>9
<1>12. \A u \in Threads \ {t}, p \in Objects : owner[p] = u => owner'[p] = u /\ val'[p] = val[p]
  BY <1>1
<1>13. job'[t].call = c /\ job'[t].todo = n /\ job'[t].seen = v
  BY <1>5
<1> QED
  BY <1>1, <1>2, <1>8, <1>10, <1>11, <1>12, <1>13, MoveAtomic

\* What a look leads to has its locks to come, sees something and writes nothing.
LedFits(c, n) ==
  /\ MomentFits(c, n)
  /\ \A i \in At(n, Guarding(c)) : Within(n, i) /\ Before(n, i, n[i][2])
  /\ At(n, Sights) # {} /\ At(n, Writing) = {}

LEMMA OnlyAt ==
  ASSUME NEW s, NEW words, Only(s, words), NEW others, others \cap words = {}
  PROVE  At(s, others) = {}
BY DEF Only, At

\* Either branch of a look is in order, with its locks still to come.
LEMMA LookedMoment ==
  ASSUME NEW s \in Seq(Step), s # <<>>, s[1][1] = "look",
         NEW call, LooksFit(call, s), MomentFits(call, s),
         NEW c, NEW n, LookBranch(s, c, n)
  PROVE  LedFits(c, n) /\ At(s, Writing) = {}
<1>1. call = "lookNest" /\ Len(s) = 1 /\ Only(n, Seeing \union Locking)
  BY LookedFits
<1>2. \/ c = call /\ n = s[1][4] /\ c \notin Loose
      \/ c \in Loose /\ n = s[1][3]
  BY <1>1 DEF LookBranch, Loose
<1>3. At(n, Writing) = {} /\ At(n, {"look"}) = {}
  <2>1. (Writing \union {"look"}) \cap (Seeing \union Locking) = {}
    BY DEF Writing, Seeing, Locking
  <2> QED
    BY <1>1, <2>1, OnlyAt
<1>4. At(s, Writing) = {}
  BY <1>1 DEF At, Writing
<1>5. BranchFits(call, s[1])
  <2>1. 1 \in At(s, {"look"})
    BY DEF At
  <2> QED
    BY <2>1 DEF MomentFits, BranchesFit
<1>6. At(n, Sights) # {}
  BY <1>2, <1>5 DEF BranchFits
<1>7. At(n, {"fill"}) = {} /\ At(n, Final) = {} /\ At(n, {"half"}) = {}
      /\ At(n, {"update", "fill"}) = {} /\ At(n, {"put"}) = {}
  BY <1>3 DEF At, Writing, Final
<1>8. WritesFit(n)
  BY <1>7 DEF WritesFit
<1>9. KeepsFit(c, n)
  <2> SUFFICES ASSUME c \notin Loose PROVE KeepsFit(c, n)
    BY DEF KeepsFit
  <2>1. InOrder(n)
    BY <1>1, <1>2, <1>5 DEF BranchFits, Loose
  <2> QED
    BY <1>3, <1>7, <2>1 DEF KeepsFit
<1>10. BranchesFit(c, n)
  BY <1>3 DEF BranchesFit
<1>11. ASSUME NEW i \in At(n, Guarding(c)) PROVE Within(n, i) /\ Before(n, i, n[i][2])
  <2>1. i \in At(n, {"read"}) /\ c \notin Loose
    <3>1. i \in DOMAIN n /\ n[i][1] \in Guarding(c) /\ n[i][1] \notin Writing
      BY <1>3 DEF At
    <3> QED
      BY <3>1 DEF Guarding, Writing, At
  <2> QED
    BY <1>2, <1>5, <2>1 DEF BranchFits
<1> QED
  BY <1>3, <1>4, <1>6, <1>8, <1>9, <1>10, <1>11 DEF MomentFits, LedFits

\* What a look does to the call of its thread.
LEMMA LookedAtomic ==
  ASSUME AtomicInv, NEW t \in Threads, NEW o, LookFirst(t, o)
  PROVE  /\ \A u \in Threads \ {t} : job'[u] = job[u]
         /\ \E c, n, v :
              /\ job'[t].call = c /\ job'[t].todo = n /\ job'[t].seen = v
              /\ v = <<>> /\ LedFits(c, n)
         /\ At(job[t].todo, Sights) # {} /\ At(job[t].todo, Writing) = {}
<1>1. LockedInv /\ Due(t, "look", o)
  BY DEF AtomicInv, LookFirst
<1>2. PICK c, n, j :
        /\ j \in JobState
        /\ LookBranch(job[t].todo, c, n)
        /\ job' = [job EXCEPT ![t] = j] /\ j.call = c /\ j.todo = n /\ j.seen = job[t].seen
  BY <1>1, Looked
<1>3. PICK s, v, call : s = job[t].todo /\ v = job[t].seen /\ call = job[t].call
  OBVIOUS
<1>4. s \in Seq(Step) /\ s # <<>> /\ 1 \in DOMAIN s /\ s[1][1] = "look"
  BY <1>1, <1>3, DueStep
<1>5. LooksFit(call, s) /\ MomentFits(call, s) /\ ViewFits(t, call, s, v)
  BY <1>1, <1>3, AtomicThread DEF LockedInv, JobFits
<1>6. LookBranch(s, c, n)
  BY <1>2, <1>3
<1>7. LedFits(c, n) /\ At(s, Writing) = {}
  BY <1>4, <1>5, <1>6, LookedMoment
<1>8. At(s, {"look", "put"}) # {} /\ At(s, Sights) # {}
  BY <1>4 DEF At, Sights
<1>9. v = <<>>
  <2>1. Blind(call, s)
    BY <1>8 DEF Blind, At
  <2> QED
    BY <1>5, <2>1 DEF ViewFits
<1>10. /\ \A u \in Threads \ {t} : job'[u] = job[u]
       /\ job'[t].call = c /\ job'[t].todo = n /\ job'[t].seen = v
  BY <1>1, <1>2, <1>3 DEF LockedInv, ObjectTypes
<1> QED
  BY <1>3, <1>7, <1>8, <1>9, <1>10

LEMMA NoHalf ==
  ASSUME NEW s, At(s, Writing) = {}
  PROVE  \A p : ~HalfIn(s, p)
BY DEF HalfIn, HasOn, At, Writing

LEMMA LookFirstAtomic ==
  ASSUME AtomicInv, NEW t \in Threads, NEW o, LookFirst(t, o)
  PROVE  AtomicInv'
<1>1. LockedInv' /\ val' = val /\ owner' = owner
  BY LookFirstInv DEF AtomicInv, LookFirst
<1>2. /\ \A u \in Threads \ {t} : job'[u] = job[u]
      /\ At(job[t].todo, Writing) = {}
  BY LookedAtomic
<1>3. PICK c, n, v :
        /\ job'[t].call = c /\ job'[t].todo = n /\ job'[t].seen = v
        /\ v = <<>> /\ LedFits(c, n)
  BY LookedAtomic
<1>4. GuardsFit(t, c, n)'
  BY <1>3 DEF GuardsFit, LedFits
<1>5. ViewFits(t, c, n, v)'
  <2>1. DOMAIN v = {}
    BY <1>3
  <2> QED
    BY <1>3, <2>1 DEF ViewFits
<1>6. ThreadFits(t, c, n, v)'
  BY <1>3, <1>4, <1>5 DEF ThreadFits, LedFits
<1>7. \A p : ~HalfIn(n, p) /\ ~HalfDone(t, p)
  BY <1>2, <1>3, NoHalf DEF HalfDone, LedFits
<1> QED
  BY <1>1, <1>2, <1>3, <1>6, <1>7, MoveAtomic

LEMMA InitAtomic == Init => AtomicInv
<1> SUFFICES ASSUME Init PROVE AtomicInv
  OBVIOUS
<1>1. \A t \in Threads : job[t].call = "none" /\ job[t].todo = <<>> /\ job[t].seen = <<>>
  BY DEF Init, Idle
<1>2. \A words : At(<<>>, words) = {}
  BY DEF At
<1>3. ASSUME NEW t \in Threads PROVE ThreadFits(t, job[t].call, job[t].todo, job[t].seen)
  <2>1. MomentFits("none", <<>>)
    BY <1>2 DEF MomentFits, WritesFit, KeepsFit, BranchesFit, InOrder
  <2>2. GuardsFit(t, "none", <<>>)
    BY <1>2 DEF GuardsFit
  <2>3. ViewFits(t, "none", <<>>, <<>>)
    BY NothingSeen DEF ViewFits
  <2> QED
    BY <1>1, <2>1, <2>2, <2>3 DEF ThreadFits
<1>4. HalvesFit
  <2>1. \A t \in Threads, p \in Objects : ~HalfDone(t, p)
    BY <1>1, <1>2 DEF HalfDone, HalfIn, HasOn
  <2>2. \A p \in Objects : val[p].first = val[p].second
    BY DEF Init
  <2> QED
    BY <2>1, <2>2 DEF HalvesFit
<1> QED
  BY <1>3, <1>4, InitInv DEF AtomicInv

LEMMA StutterAtomic ==
  ASSUME AtomicInv, UNCHANGED vars
  PROVE  AtomicInv'
<1>1. UNCHANGED <<owner, val, job>> /\ LockedInv'
  BY StutterInv DEF vars, AtomicInv
<1>2. HalvesFit'
  BY <1>1 DEF AtomicInv, HalvesFit, HalfDone
<1>3. ASSUME NEW t \in Threads PROVE ThreadFits(t, job[t].call, job[t].todo, job[t].seen)'
  BY <1>1 DEF AtomicInv, ThreadFits, GuardsFit, ViewFits
<1> QED
  BY <1>1, <1>2, <1>3 DEF AtomicInv

\* The invariant holds whatever the threads do.
LEMMA AtomicInvariant == Spec => []AtomicInv
<1>1. AtomicInv /\ [Next]_vars => AtomicInv'
  <2> SUFFICES ASSUME AtomicInv, [Next]_vars PROVE AtomicInv'
    OBVIOUS
  <2>1. ASSUME NEW t \in Threads, Begin(t) PROVE AtomicInv'
    BY <2>1, BeginAtomic
  <2>2. ASSUME NEW t \in Threads, Proceed(t) PROVE AtomicInv'
    <3>1. PICK o : \/ Acquire(t, o) \/ Release(t, o)
                   \/ Read(t, o) \/ Write(t, o)
                   \/ Check(t, o) \/ GlanceFirst(t, o) \/ LookFirst(t, o)
                   \/ SetFreeze(t, o)
      BY <2>2 DEF Proceed
    <3> QED
      BY <3>1, AcquireAtomic, ReleaseAtomic, ReadAtomic, WriteAtomic, CheckAtomic,
         GlanceFirstAtomic, LookFirstAtomic, SetFreezeAtomic
  <2>3. CASE UNCHANGED vars
    BY <2>3, StutterAtomic
  <2> QED
    BY <2>1, <2>2, <2>3 DEF Next
<1> QED
  BY <1>1, InitAtomic, PTL DEF Spec

-----------------------------------------------------------------------------
(* Every call happens at one moment.                                       *)

\* What the refinement mapping makes of an object, and of a thread.
Val(o) == IF Pending(o) THEN After(val[o].second) ELSE val[o].second

Shown(v) == [o \in DOMAIN v |-> Version(v[o])]
Out(t) == IF Decided(t) /\ job[t].seen # <<>> THEN Shown(job[t].seen) ELSE Nothing

Pend(t, o) == Decided(t) /\ Yet(t, {"update", "fill"}, o)

AtomicStep == Atomic!Next \/ UNCHANGED Atomic!vars

\* A step that the abstract state does not show, or only as a return.
LEMMA QuietStep ==
  ASSUME NEW t \in Threads, \A u \in Threads \ {t} : Out(u)' = Out(u), Out(t)' \in {Out(t), Nothing},
         \A p \in Objects : Val(p)' = Val(p)
  PROVE  AtomicStep
<1>1. [o \in Objects |-> Val(o)]' = [o \in Objects |-> Val(o)]
  OBVIOUS
<1>2. CASE Out(t)' = Out(t)
  <2>1. [u \in Threads |-> Out(u)]' = [u \in Threads |-> Out(u)]
    BY <1>2
  <2> QED
    BY <1>1, <2>1 DEF AtomicStep, Atomic!vars, Val, Out, Shown
<1>3. CASE Out(t)' = Nothing
  <2>1. [u \in Threads |-> Out(u)]' = [[u \in Threads |-> Out(u)] EXCEPT ![t] = Nothing]
    BY <1>3
  <2>2. Atomic!Return(t)
    BY <1>1, <2>1 DEF Atomic!Return, Val, Out, Shown
  <2> QED
    BY <2>2 DEF AtomicStep, Atomic!Next
<1> QED
  BY <1>2, <1>3

\* o gets a new version.
Bumped(o) == /\ Val(o)' = After(Val(o))
             /\ \A p \in Objects \ {o} : Val(p)' = Val(p)

LEMMA BumpStep ==
  ASSUME NEW o \in Objects, Bumped(o)
  PROVE  Atomic!Bump(o)
<1>1. [p \in Objects |-> Val(p)]' = [[p \in Objects |-> Val(p)] EXCEPT ![o] = After(@)]
  BY DEF Bumped
<1> QED
  BY <1>1 DEF Atomic!Bump, Val, After

\* A step that gives an object its next version, and shows nothing.
LEMMA WriteStep ==
  ASSUME NEW o \in Objects, Bumped(o), \A u \in Threads : Out(u)' = Out(u)
  PROVE  AtomicStep
<1>1. [u \in Threads |-> Out(u)]' = [u \in Threads |-> Out(u)]
  OBVIOUS
<1>2. Atomic!Write(o)
  BY <1>1, BumpStep DEF Atomic!Write, Out, Shown
<1> QED
  BY <1>2 DEF AtomicStep, Atomic!Next

\* The moment of a call: it shows what there is, and may change one object.
LEMMA TakeStep ==
  ASSUME NEW t \in Threads, NEW operands \in SUBSET Objects,
         Out(t) = Nothing, Out(t)' = [p \in operands |-> Val(p)],
         \A u \in Threads \ {t} : Out(u)' = Out(u),
         \/ \A p \in Objects : Val(p)' = Val(p)
         \/ \E o \in Objects : Bumped(o)
  PROVE  AtomicStep
<1>1. [u \in Threads |-> Out(u)]'
        = [[u \in Threads |-> Out(u)] EXCEPT ![t] = [p \in operands |-> [o \in Objects |-> Val(o)][p]]]
  OBVIOUS
<1>2. Atomic!See(t, operands)
  BY <1>1 DEF Atomic!See, Val, Out, Shown
<1>3. [u \in Threads |-> Out(u)][t] = Nothing
  OBVIOUS
<1>4. [o \in Objects |-> Val(o)]' = [o \in Objects |-> Val(o)] \/ \E o \in Objects : Atomic!Bump(o)
  BY BumpStep
<1>5. Atomic!Take(t, operands)
  BY <1>2, <1>3, <1>4 DEF Atomic!Take, Val, Out, Shown
<1> QED
  BY <1>5 DEF AtomicStep, Atomic!Next

\* What a job shows, and has still to write, with its steps s.
Shows(t, s, v) ==
  /\ Out(t) = IF At(s, Sights) = {} /\ v # <<>> THEN Shown(v) ELSE Nothing
  /\ \A p : Pend(t, p) <=> At(s, Sights) = {} /\ HasOn(s, {"update", "fill"}, p)

LEMMA JobOut ==
  ASSUME LockedInv, NEW t \in Threads, NEW s, s = job[t].todo, s # <<>>, NEW v, v = job[t].seen
  PROVE  Shows(t, s, v)
<1>1. job[t] # Idle
  BY DEF Idle
<1>2. s \in Seq(Step)
  BY DEF LockedInv, ObjectTypes, JobState
<1>3. Reading(t) <=> At(s, Sights) # {}
  BY <1>2, StepObject DEF Reading, Yet, At, Sights, Seeing
<1>4. Decided(t) <=> At(s, Sights) = {}
  BY <1>1, <1>3 DEF Decided
<1>5. \A p : Yet(t, {"update", "fill"}, p) <=> HasOn(s, {"update", "fill"}, p)
  BY DEF Yet, HasOn, At
<1> QED
  BY <1>4, <1>5 DEF Out, Pend, Shows

LEMMA NextOut ==
  ASSUME NEW t \in Threads, NEW s \in Seq(Step), s = job'[t].todo, NEW v, v = job'[t].seen,
         s = <<>> => v = <<>>
  PROVE  /\ Out(t)' = IF At(s, Sights) = {} /\ v # <<>> THEN Shown(v) ELSE Nothing
         /\ \A p : Pend(t, p)' <=> At(s, Sights) = {} /\ HasOn(s, {"update", "fill"}, p)
<1>1. s # <<>> => job'[t] # Idle
  BY DEF Idle
<1>2. Reading(t)' <=> At(s, Sights) # {}
  BY StepObject DEF Reading, Yet, At, Sights, Seeing
<1>3. s # <<>> => (Decided(t)' <=> At(s, Sights) = {})
  BY <1>1, <1>2 DEF Decided
<1>4. \A p : Yet(t, {"update", "fill"}, p)' <=> HasOn(s, {"update", "fill"}, p)
  BY DEF Yet, HasOn, At
<1>5. s = <<>> => At(s, {"update", "fill"}) = {}
  BY DEF At
<1>6. Out(t)' = IF At(s, Sights) = {} /\ v # <<>> THEN Shown(v) ELSE Nothing
  BY <1>3 DEF Out, Shown
<1> QED
  BY <1>3, <1>4, <1>5, <1>6 DEF Pend, HasOn

LEMMA GoesOut ==
  ASSUME NEW t \in Threads, NEW r \in Seq(Step), NEW v, Goes(t, r, v)
  PROVE  /\ Out(t)' = IF r # <<>> /\ At(r, Sights) = {} /\ v # <<>> THEN Shown(v) ELSE Nothing
         /\ \A p : Pend(t, p)' <=> At(r, Sights) = {} /\ HasOn(r, {"update", "fill"}, p)
<1>1. job'[t].todo = r
  BY DEF Goes
<1>2. PICK w : w = job'[t].seen
  OBVIOUS
<1>3. w = IF r = <<>> THEN <<>> ELSE v
  BY <1>2 DEF Goes
<1>4. /\ Out(t)' = IF At(r, Sights) = {} /\ w # <<>> THEN Shown(w) ELSE Nothing
      /\ \A p : Pend(t, p)' <=> At(r, Sights) = {} /\ HasOn(r, {"update", "fill"}, p)
  BY <1>1, <1>2, <1>3, NextOut
<1> QED
  BY <1>3, <1>4

LEMMA SameOut ==
  ASSUME NEW u, job'[u] = job[u]
  PROVE  Out(u)' = Out(u) /\ \A p : Pend(u, p)' <=> Pend(u, p)
BY DEF Out, Shown, Pend, Decided, Reading, Yet

\* Who has a new version to write has the lock.
LEMMA PendOwner ==
  ASSUME AtomicInv, NEW t \in Threads, NEW p, Pend(t, p)
  PROVE  owner[p] = t
<1>1. PICK s, c : s = job[t].todo /\ c = job[t].call
  OBVIOUS
<1>2. s \in Seq(Step) /\ WritesFit(s) /\ GuardsFit(t, c, s)
  BY <1>1, AtomicThread DEF MomentFits
<1>3. HasOn(s, {"update", "fill"}, p)
  BY <1>1 DEF Pend, Yet, HasOn, At
<1>4. s # <<>>
  BY <1>3 DEF HasOn, At
<1>5. PICK v : v = job[t].seen
  OBVIOUS
<1>6. Shows(t, s, v)
  BY <1>1, <1>4, <1>5, JobOut DEF AtomicInv
<1>7. At(s, Sights) = {}
  BY <1>6 DEF Shows
<1> QED
  BY <1>2, <1>3, <1>7, OwnerWhen

\* Only t can have a new version of o to write.
LEMMA OpenVal ==
  ASSUME AtomicInv, NEW t \in Threads, NEW o, Open(t, o)
  PROVE  Pending(o) <=> Pend(t, o)
<1>1. ASSUME NEW u \in Threads, Pend(u, o) PROVE u = t
  BY <1>1, PendOwner, LockedObjectsAssumption DEF Open
<1> QED
  BY <1>1 DEF Pending, Pend

LEMMA NextVal ==
  ASSUME AtomicInv, NEW t \in Threads, \A u \in Threads \ {t} : job'[u] = job[u],
         NEW o, Open(t, o)
  PROVE  Pending(o)' <=> Pend(t, o)'
<1>1. ASSUME NEW u \in Threads, u # t PROVE ~Pend(u, o)'
  <2>1. Pend(u, o)' <=> Pend(u, o)
    BY <1>1, SameOut
  <2>2. owner[o] # u
    BY <1>1, LockedObjectsAssumption DEF Open
  <2> QED
    BY <2>1, <2>2, PendOwner
<1>2. Pending(o)' <=> \E u \in Threads : Pend(u, o)'
  BY DEF Pending, Pend
<1> QED
  BY <1>1, <1>2

\* What t does changes nothing of p.
LEMMA SameVal ==
  ASSUME NEW t \in Threads, \A u \in Threads \ {t} : job'[u] = job[u],
         NEW p, Pend(t, p)' <=> Pend(t, p), val'[p].second = val[p].second
  PROVE  Val(p)' = Val(p)
<1>1. \A u \in Threads : Pend(u, p)' <=> Pend(u, p)
  BY SameOut
<1>2. Pending(p)' <=> \E u \in Threads : Pend(u, p)'
  BY DEF Pending, Pend
<1>3. Pending(p) <=> \E u \in Threads : Pend(u, p)
  BY DEF Pending, Pend
<1>4. Pending(p)' <=> Pending(p)
  BY <1>1, <1>2, <1>3
<1> QED
  BY <1>4 DEF Val, After

\* A step that sees nothing and completes no new version leaves what its
\* thread shows and has still to write, or it is the last.
LEMMA AdvanceOut ==
  ASSUME AtomicInv, NEW t \in Threads, NEW what, NEW o, Due(t, what, o), Advance(t),
         what \notin Sights \union {"update", "fill"}
  PROVE  /\ \A u \in Threads \ {t} : job'[u] = job[u]
         /\ Out(t)' \in {Out(t), Nothing}
         /\ \A p : Pend(t, p)' <=> Pend(t, p)
<1>1. PICK s, r, v : s = job[t].todo /\ r = Tail(s) /\ v = job[t].seen
  OBVIOUS
<1>2. LockedInv
  BY DEF AtomicInv
<1>3. s \in Seq(Step) /\ Rest(r, s) /\ s # <<>> /\ s[1][1] = what
  BY <1>1, <1>2, DueStep DEF Rest
<1>4. r \in Seq(Step)
  BY <1>3, TailSteps DEF Rest
<1>5. Goes(t, r, v)
  BY <1>1, <1>2, AdvanceGoes
<1>6. At(r, Sights) = {} <=> At(s, Sights) = {}
  <2>1. At(r, Sights) = {} => At(s, Sights) = {}
    BY <1>3, PastAt, HeadAt
  <2> QED
    BY <1>3, <2>1, TailEmpty
<1>7. \A p : HasOn(r, {"update", "fill"}, p) <=> HasOn(s, {"update", "fill"}, p)
  BY <1>3, TailHas
<1>8. Shows(t, s, v)
  <2>1. s = job[t].todo /\ v = job[t].seen /\ s # <<>>
    BY <1>1, <1>3
  <2> QED
    BY <1>2, <2>1, JobOut
<1>9. /\ Out(t)' = IF r # <<>> /\ At(r, Sights) = {} /\ v # <<>> THEN Shown(v) ELSE Nothing
      /\ \A p : Pend(t, p)' <=> At(r, Sights) = {} /\ HasOn(r, {"update", "fill"}, p)
  BY <1>4, <1>5, GoesOut
<1>10. Out(t)' \in {Out(t), Nothing}
  BY <1>6, <1>8, <1>9 DEF Shows
<1>11. \A p : Pend(t, p)' <=> Pend(t, p)
  BY <1>6, <1>7, <1>8, <1>9 DEF Shows
<1> QED
  BY <1>5, <1>10, <1>11 DEF Goes

\* What t shows is as before or gone, and no value is changed.
LEMMA StaysQuiet ==
  ASSUME NEW t \in Threads, \A u \in Threads \ {t} : job'[u] = job[u],
         Out(t)' \in {Out(t), Nothing}, \A p : Pend(t, p)' <=> Pend(t, p),
         \A p \in Objects : val'[p].second = val[p].second
  PROVE  AtomicStep
<1>1. \A p \in Objects : Val(p)' = Val(p)
  BY SameVal
<1>2. \A u \in Threads \ {t} : Out(u)' = Out(u)
  BY SameOut
<1> QED
  BY <1>1, <1>2, QuietStep

LEMMA AdvanceQuiet ==
  ASSUME AtomicInv, NEW t \in Threads, NEW what, NEW o, Due(t, what, o), Advance(t),
         what \notin Sights \union {"update", "fill"},
         \A p \in Objects : val'[p].second = val[p].second
  PROVE  AtomicStep
BY AdvanceOut, StaysQuiet

LEMMA AcquireStep ==
  ASSUME AtomicInv, NEW t \in Threads, NEW o, Acquire(t, o)
  PROVE  AtomicStep
<1>1. Due(t, "lock", o) /\ Advance(t) /\ val' = val
  BY DEF Acquire
<1> QED
  BY <1>1, AdvanceQuiet DEF Sights, Seeing

LEMMA ReleaseStep ==
  ASSUME AtomicInv, NEW t \in Threads, NEW o, Release(t, o)
  PROVE  AtomicStep
<1>1. Due(t, "unlock", o) /\ Advance(t) /\ val' = val
  BY DEF Release
<1> QED
  BY <1>1, AdvanceQuiet DEF Sights, Seeing

LEMMA SetFreezeStep ==
  ASSUME AtomicInv, NEW t \in Threads, NEW o, SetFreeze(t, o)
  PROVE  AtomicStep
<1>1. Advance(t) /\ val' = val /\ \E what \in {"freeze", "unfreeze"} : Due(t, what, o)
  BY DEF SetFreeze
<1> QED
  BY <1>1, AdvanceQuiet DEF Sights, Seeing

LEMMA CheckStep ==
  ASSUME AtomicInv, NEW t \in Threads, NEW o, Check(t, o)
  PROVE  AtomicStep
<1>1. Due(t, "check", o) /\ val' = val
  BY DEF Check
<1>2. CASE Advance(t)
  BY <1>1, <1>2, AdvanceQuiet DEF Sights, Seeing
<1>3. CASE Continue(t, <<>>)
  <2>1. LockedInv /\ job \in [Threads -> JobState]
    BY DEF AtomicInv, LockedInv, ObjectTypes
  <2>2. PICK s, e : s = job[t].todo /\ e = <<>>
    OBVIOUS
  <2>3. 1 \in DOMAIN s /\ s[1][1] = "check"
    BY <1>1, <2>1, <2>2, DueStep
  <2>4. HoldsNothing(t)
    BY <2>1, <2>2, <2>3 DEF LockedInv, AsksFit
  <2>5. \A p \in Objects : ~Pend(t, p)
    BY <2>4, PendOwner DEF HoldsNothing
  <2>6. /\ \A u \in Threads \ {t} : job'[u] = job[u]
        /\ job'[t].todo = e /\ job'[t].seen = e
    BY <1>3, <2>1, <2>2 DEF Continue, Idle
  <2>7. At(e, {"update", "fill"}) = {} /\ e \in Seq(Step)
    BY <2>2 DEF At
  <2>8. Out(t)' = Nothing /\ \A p : ~Pend(t, p)'
    BY <2>2, <2>6, <2>7, NextOut DEF HasOn
  <2>9. \A p \in Objects : Val(p)' = Val(p)
    BY <1>1, <2>5, <2>6, <2>8, SameVal
  <2>10. \A u \in Threads \ {t} : Out(u)' = Out(u)
    BY <2>6, SameOut
  <2> QED
    BY <2>8, <2>9, <2>10, QuietStep
<1> QED
  BY <1>2, <1>3 DEF Check

LEMMA BeginStep ==
  ASSUME AtomicInv, NEW t \in Threads, Begin(t)
  PROVE  AtomicStep
<1>1. LockedInv' /\ LockedInv /\ job \in [Threads -> JobState] /\ offer \in Families
  BY BeginInv DEF AtomicInv, LockedInv, ObjectTypes
<1>2. job[t] = Idle /\ val' = val
  BY DEF Begin
<1>3. PICK k \in offer, x \in Objects, y \in Objects :
        job' = [job EXCEPT ![t] = [Idle EXCEPT !.call = k, !.todo = Script[k][x][y]]]
  BY DEF Begin
<1>4. PICK s, v : s = Script[k][x][y] /\ v = <<>>
  OBVIOUS
<1>5. job'[t] = [Idle EXCEPT !.call = k, !.todo = s]
  BY <1>1, <1>3, <1>4
<1>6. job'[t].todo = s /\ job'[t].seen = v
  BY <1>4, <1>5 DEF Idle
<1>7. \A u \in Threads \ {t} : job'[u] = job[u]
  BY <1>1, <1>3
<1>8. k \in Kinds
  BY <1>1, LockedObjectsAssumption
<1>9. WritesFit(s) /\ StartsFit(k, s)
  BY <1>4, <1>8, ScriptBegins DEF Begins, MomentFits
<1>10. s \in Seq(Step)
  BY <1>1, <1>6 DEF LockedInv, ObjectTypes, JobState
<1>11. /\ Out(t)' = IF At(s, Sights) = {} /\ v # <<>> THEN Shown(v) ELSE Nothing
       /\ \A p : Pend(t, p)' <=> At(s, Sights) = {} /\ HasOn(s, {"update", "fill"}, p)
  BY <1>4, <1>6, <1>10, NextOut
<1>12. At(s, {"update", "fill"}) # {} => At(s, Sights) # {}
  <2> SUFFICES ASSUME NEW i \in At(s, {"update", "fill"}) PROVE At(s, Sights) # {}
    OBVIOUS
  <2>1. i \in At(s, Guarding(k))
    BY DEF At, Guarding
  <2>2. PICK n \in At(s, {"lock"}) : TRUE
    BY <1>9, <2>1 DEF StartsFit, Before
  <2> QED
    BY <1>9, <2>2 DEF WritesFit
<1>13. \A p : ~Pend(t, p)'
  BY <1>11, <1>12 DEF HasOn
<1>14. ~Decided(t)
  BY <1>2 DEF Decided
<1>15. Out(t) = Nothing /\ \A p : ~Pend(t, p)
  BY <1>14 DEF Out, Pend
<1>16. Out(t)' = Nothing
  BY <1>4, <1>11
<1> QED
  BY <1>2, <1>7, <1>13, <1>15, <1>16, StaysQuiet

LEMMA GlanceFirstStep ==
  ASSUME AtomicInv, NEW t \in Threads, NEW o, GlanceFirst(t, o)
  PROVE  AtomicStep
<1>1. LockedInv' /\ LockedInv /\ val' = val
  BY GlanceFirstInv DEF AtomicInv, GlanceFirst
<1>2. \A u \in Threads \ {t} : job'[u] = job[u]
  BY GlancedAtomic
<1>3. PICK n, v : n = job'[t].todo /\ v = job'[t].seen /\ At(n, Sights) # {}
  <2>1. PICK c, n, v : /\ job'[t].call = c /\ job'[t].todo = n /\ job'[t].seen = v
                       /\ At(n, Sights) # {}
    BY GlancedAtomic
  <2> QED
    BY <2>1
<1>4. n \in Seq(Step)
  BY <1>1, <1>3 DEF LockedInv, ObjectTypes, JobState
<1>5. Out(t)' = Nothing /\ \A p : ~Pend(t, p)'
  <2>1. n # <<>>
    BY <1>3 DEF At
  <2> QED
    BY <1>3, <1>4, <2>1, NextOut
<1>6. PICK s, w : s = job[t].todo /\ w = job[t].seen
  OBVIOUS
<1>7. At(s, Sights) # {} /\ s # <<>>
  BY <1>6, GlancedAtomic DEF At
<1>8. Shows(t, s, w)
  BY <1>1, <1>6, <1>7, JobOut
<1>9. \A p : ~Pend(t, p)
  BY <1>7, <1>8 DEF Shows
<1> QED
  BY <1>1, <1>2, <1>5, <1>9, StaysQuiet

LEMMA LookFirstStep ==
  ASSUME AtomicInv, NEW t \in Threads, NEW o, LookFirst(t, o)
  PROVE  AtomicStep
<1>1. LockedInv' /\ LockedInv /\ val' = val
  BY LookFirstInv DEF AtomicInv, LookFirst
<1>2. \A u \in Threads \ {t} : job'[u] = job[u]
  BY LookedAtomic
<1>3. PICK c, n, v :
        /\ job'[t].call = c /\ job'[t].todo = n /\ job'[t].seen = v
        /\ v = <<>> /\ LedFits(c, n)
  BY LookedAtomic
<1>4. n \in Seq(Step)
  BY <1>1, <1>3 DEF LockedInv, ObjectTypes, JobState
<1>5. Out(t)' = Nothing /\ \A p : ~Pend(t, p)'
  <2>1. At(n, Sights) # {}
    BY <1>3 DEF LedFits
  <2>2. n = job'[t].todo /\ v = job'[t].seen /\ v = <<>>
    BY <1>3
  <2> QED
    BY <1>4, <2>1, <2>2, NextOut
<1>6. PICK s, w : s = job[t].todo /\ w = job[t].seen
  OBVIOUS
<1>7. At(s, Sights) # {}
  BY <1>6, LookedAtomic
<1>8. s # <<>>
  BY <1>7 DEF At
<1>9. Shows(t, s, w)
  BY <1>1, <1>6, <1>8, JobOut
<1>10. \A p : ~Pend(t, p)
  BY <1>7, <1>9 DEF Shows
<1> QED
  BY <1>1, <1>2, <1>5, <1>10, StaysQuiet

\* With the last sight a new version may become pending; it is of one object,
\* which the thread has for itself.
LEMMA ReadBumps ==
  ASSUME AtomicInv, NEW t \in Threads, NEW s \in Seq(Step), s = job[t].todo,
         NEW r, Rest(r, s), At(s, Sights) # {}, At(r, Sights) = {},
         \A u \in Threads \ {t} : job'[u] = job[u], val' = val,
         \A p : ~Pend(t, p), \A p : Pend(t, p)' <=> HasOn(r, {"update", "fill"}, p)
  PROVE  \/ \A p \in Objects : Val(p)' = Val(p)
         \/ \E p \in Objects : Bumped(p) /\ r # <<>>
<1>1. CASE \A p \in Objects : ~Pend(t, p)'
  BY <1>1, SameVal
<1>2. CASE \E p \in Objects : Pend(t, p)'
  <2>1. PICK p \in Objects : Pend(t, p)'
    BY <1>2
  <2>2. PICK call : call = job[t].call
    OBVIOUS
  <2>3. WritesFit(s) /\ GuardsFit(t, call, s)
    BY <2>2, AtomicThread DEF MomentFits
  <2>4. \A n \in At(s, Sights) : n = 1
    BY PastAt
  <2>5. HasOn(r, {"update", "fill"}, p)
    BY <2>1
  <2>6. HasOn(s, {"update", "fill"}, p)
    BY <2>5, TailHas
  <2>7. owner[p] = t
    BY <2>3, <2>4, <2>6, OwnerWhen
  <2>8. Open(t, p)
    BY <2>7 DEF Open
  <2>9. ~Pending(p) /\ Pending(p)'
    BY <2>1, <2>8, OpenVal, NextVal
  <2>10. Val(p)' = After(Val(p))
    BY <2>9 DEF Val, After
  <2>11. ASSUME NEW q, q # p PROVE ~Pend(t, q)'
    <3> SUFFICES ASSUME HasOn(r, {"update", "fill"}, q) PROVE FALSE
      OBVIOUS
    <3>1. HasOn(s, {"update", "fill"}, q)
      BY TailHas
    <3>2. PICK i \in At(s, {"update", "fill"}) : s[i][2] = q
      BY <3>1 DEF HasOn
    <3>3. PICK k \in At(s, {"update", "fill"}) : s[k][2] = p
      BY <2>6 DEF HasOn
    <3>4. i \in At(s, Final) /\ k \in At(s, Final)
      BY <3>2, <3>3 DEF At, Final
    <3>5. i = k
      BY <2>3, <3>4 DEF WritesFit
    <3> QED
      BY <2>11, <3>2, <3>3, <3>5
  <2>12. \A q \in Objects \ {p} : Val(q)' = Val(q)
    BY <2>11, SameVal
  <2>13. r # <<>>
    BY <2>5 DEF HasOn, At
  <2> QED
    BY <2>10, <2>12, <2>13 DEF Bumped
<1> QED
  BY <1>1, <1>2

\* The last sight of a call that keeps what it sees shows what there is.
LEMMA ReadShows ==
  ASSUME AtomicInv, NEW t \in Threads, NEW o, Read(t, o), job[t].call \notin Loose,
         \A p : ~Pend(t, p), NEW v, v = Kept(t, o)
  PROVE  /\ DOMAIN v \in SUBSET Objects /\ v # <<>>
         /\ Shown(v) = [p \in DOMAIN v |-> Val(p)]
<1>1. v = [p \in DOMAIN job[t].seen \cup {o} |-> IF p = o THEN val[o] ELSE job[t].seen[p]]
  BY DEF Kept
<1>2. /\ o \in Objects /\ Open(t, o) /\ val[o].first = val[o].second
      /\ \A p \in DOMAIN job[t].seen :
           owner[p] = t /\ val[p] = job[t].seen[p] /\ val[p].first = val[p].second
  BY SeenWhole
<1>3. job[t].seen \in Views
  BY DEF AtomicInv, LockedInv, ObjectTypes, JobState
<1>4. DOMAIN job[t].seen \subseteq Objects
  BY <1>3, ViewObjects
<1>5. ASSUME NEW p \in DOMAIN v PROVE Version(v[p]) = Val(p)
  <2>1. Open(t, p) /\ v[p] = val[p] /\ val[p].first = val[p].second
    BY <1>1, <1>2, <1>5 DEF Open
  <2>2. ~Pending(p)
    BY <2>1, OpenVal
  <2> QED
    BY <2>1, <2>2 DEF Version, Val
<1>6. o \in DOMAIN v
  BY <1>1
<1>7. DOMAIN v \in SUBSET Objects
  BY <1>1, <1>2, <1>4
<1>8. v # <<>>
  BY <1>6, NothingSeen
<1>9. Shown(v) = [p \in DOMAIN v |-> Val(p)]
  BY <1>5 DEF Shown
<1> QED
  BY <1>7, <1>8, <1>9

LEMMA ReadStep ==
  ASSUME AtomicInv, NEW t \in Threads, NEW o, Read(t, o)
  PROVE  AtomicStep
<1>1. PICK what \in {"read", "get"} : Due(t, what, o)
  BY DEF Read
<1>2. LockedInv
  BY DEF AtomicInv
<1>3. PICK s, r, v, w : s = job[t].todo /\ r = Tail(s) /\ v = Kept(t, o) /\ w = job[t].seen
  OBVIOUS
<1>4. s \in Seq(Step) /\ Rest(r, s) /\ s[1][1] = what /\ s # <<>> /\ r \in Seq(Step)
  BY <1>1, <1>2, <1>3, DueStep, TailSteps DEF Rest
<1>5. val' = val
  BY DEF Read
<1>6. Goes(t, r, v)
  <2>1. job' = [job EXCEPT ![t] =
                  IF r = <<>> THEN Idle ELSE [@ EXCEPT !.todo = r, !.seen = v]]
    BY <1>3 DEF Read, Kept
  <2> QED
    BY <1>2, <2>1, ReadGoes
<1>7. At(s, Sights) # {}
  BY <1>4, HeadAt DEF Sights, Seeing
<1>8. Shows(t, s, w)
  <2>1. s = job[t].todo /\ w = job[t].seen /\ s # <<>>
    BY <1>3, <1>4
  <2> QED
    BY <1>2, <2>1, JobOut
<1>9. Out(t) = Nothing /\ \A p : ~Pend(t, p)
  BY <1>7, <1>8 DEF Shows
<1>10. /\ Out(t)' = IF r # <<>> /\ At(r, Sights) = {} /\ v # <<>> THEN Shown(v) ELSE Nothing
       /\ \A p : Pend(t, p)' <=> At(r, Sights) = {} /\ HasOn(r, {"update", "fill"}, p)
  BY <1>4, <1>6, GoesOut
<1>11. /\ \A u \in Threads \ {t} : job'[u] = job[u]
       /\ \A u \in Threads \ {t} : Out(u)' = Out(u)
  BY <1>6, SameOut DEF Goes
<1>12. CASE At(r, Sights) # {}
  BY <1>5, <1>9, <1>10, <1>11, <1>12, StaysQuiet
<1>13. CASE At(r, Sights) = {}
  <2>1. \/ \A p \in Objects : Val(p)' = Val(p)
        \/ \E p \in Objects : Bumped(p) /\ r # <<>>
    <3>1. s = job[t].todo
      BY <1>3
    <3> QED
      BY <1>4, <1>5, <1>7, <1>9, <1>10, <1>11, <1>13, <3>1, ReadBumps
  <2>2. CASE job[t].call \in Loose
    <3>1. v = <<>>
      BY <1>3, <2>2 DEF Kept
    <3>2. Out(t)' = Nothing
      BY <1>10, <3>1
    <3>3. \A u \in Threads : Out(u)' = Out(u)
      BY <1>9, <1>11, <3>2
    <3> QED
      BY <1>11, <2>1, <3>2, <3>3, QuietStep, WriteStep
  <2>3. CASE job[t].call \notin Loose
    <3>1. /\ DOMAIN v \in SUBSET Objects /\ v # <<>>
          /\ Shown(v) = [p \in DOMAIN v |-> Val(p)]
      BY <1>3, <1>9, <2>3, ReadShows
    <3>2. CASE r = <<>>
      <4>1. Out(t)' = Nothing
        BY <1>10, <3>2
      <4> QED
        BY <1>11, <2>1, <3>2, <4>1, QuietStep
    <3>3. CASE r # <<>>
      <4>1. Out(t)' = [p \in DOMAIN v |-> Val(p)]
        BY <1>10, <1>13, <3>1, <3>3
      <4> QED
        BY <1>9, <1>11, <2>1, <3>1, <4>1, TakeStep
    <3> QED
      BY <3>2, <3>3
  <2> QED
    BY <2>2, <2>3
<1> QED
  BY <1>12, <1>13

\* The one write of a call.
LEMMA OneWrite ==
  ASSUME NEW s \in Seq(Step), s # <<>>, WritesFit(s), s[1][1] \in Final
  PROVE  /\ \A words, p : words \subseteq Final /\ HasOn(s, words, p) => s[1][1] \in words /\ s[1][2] = p
         /\ \A r, words, p : Rest(r, s) /\ words \subseteq Final => ~HasOn(r, words, p)
<1>1. 1 \in At(s, Final)
  BY DEF At
<1>2. \A i \in At(s, Final) : i = 1
  BY <1>1 DEF WritesFit
<1>3. \A words : words \subseteq Final => \A i \in At(s, words) : i = 1
  BY <1>2 DEF At
<1>4. ASSUME NEW words, NEW p, words \subseteq Final, HasOn(s, words, p)
      PROVE  s[1][1] \in words /\ s[1][2] = p
  BY <1>3, <1>4 DEF HasOn, At
<1>5. ASSUME NEW r, NEW words, NEW p, Rest(r, s), words \subseteq Final, HasOn(r, words, p)
      PROVE  FALSE
  <2>1. PICK i \in At(r, words) : TRUE
    BY <1>5 DEF HasOn
  <2>2. i \in Nat \ {0} /\ i + 1 \in At(s, words)
    BY <1>5, <2>1, TailAt
  <2> QED
    BY <1>3, <1>5, <2>2
<1> QED
  BY <1>4, <1>5

\* A version that was pending is there.
LEMMA CompleteStep ==
  ASSUME AtomicInv, NEW t \in Threads, NEW what \in {"update", "fill"}, NEW o,
         Due(t, what, o), Advance(t), At(job[t].todo, Sights) = {},
         val'[o].second = After(val[o].second), \A p \in Objects \ {o} : val'[p] = val[p]
  PROVE  AtomicStep
<1>1. PICK s, r, v : s = job[t].todo /\ r = Tail(s) /\ v = job[t].seen
  OBVIOUS
<1>2. LockedInv
  BY DEF AtomicInv
<1>3. s \in Seq(Step) /\ Rest(r, s) /\ s # <<>> /\ s[1][1] = what /\ s[1][2] = o /\ r \in Seq(Step)
  BY <1>1, <1>2, DueStep, TailSteps DEF Rest
<1>4. Goes(t, r, v)
  BY <1>1, <1>2, AdvanceGoes
<1>5. Shows(t, s, v)
  <2>1. s = job[t].todo /\ v = job[t].seen /\ s # <<>>
    BY <1>1, <1>3
  <2> QED
    BY <1>2, <2>1, JobOut
<1>6. At(s, Sights) = {}
  BY <1>1
<1>7. At(r, Sights) = {}
  BY <1>3, <1>6, TailEmpty
<1>8. WritesFit(s)
  BY <1>1, AtomicThread DEF MomentFits
<1>9. {"update", "fill"} \subseteq Final /\ what \in Final
  BY DEF Final
<1>10. \A p : HasOn(s, {"update", "fill"}, p) => p = o
  BY <1>3, <1>8, <1>9, OneWrite
<1>11. HasOn(s, {"update", "fill"}, o)
  BY <1>3, HeadAt DEF HasOn
<1>12. \A p : ~HasOn(r, {"update", "fill"}, p)
  BY <1>3, <1>8, <1>9, OneWrite
<1>13. Pend(t, o) /\ \A p : p # o => ~Pend(t, p)
  BY <1>5, <1>6, <1>10, <1>11 DEF Shows
<1>14. /\ Out(t)' = IF r # <<>> /\ At(r, Sights) = {} /\ v # <<>> THEN Shown(v) ELSE Nothing
       /\ \A p : Pend(t, p)' <=> At(r, Sights) = {} /\ HasOn(r, {"update", "fill"}, p)
  BY <1>3, <1>4, GoesOut
<1>15. \A p : ~Pend(t, p)'
  BY <1>12, <1>14
<1>16. \A u \in Threads \ {t} : job'[u] = job[u]
  BY <1>4 DEF Goes
<1>17. Open(t, o)
  BY <1>13, PendOwner DEF Open
<1>18. Pending(o) /\ ~Pending(o)'
  BY <1>13, <1>15, <1>16, <1>17, OpenVal, NextVal
<1>19. Val(o)' = Val(o)
  BY <1>18 DEF Val
<1>20. \A p \in Objects \ {o} : Val(p)' = Val(p)
  BY <1>13, <1>15, <1>16, SameVal
<1>21. Out(t)' \in {Out(t), Nothing}
  BY <1>5, <1>6, <1>14 DEF Shows
<1>22. \A u \in Threads \ {t} : Out(u)' = Out(u)
  BY <1>16, SameOut
<1> QED
  BY <1>19, <1>20, <1>21, <1>22, QuietStep

LEMMA UpdateStep ==
  ASSUME AtomicInv, NEW t \in Threads, NEW o, Due(t, "update", o), Advance(t),
         val' = [val EXCEPT ![o] = Both(After(job[t].seen[o].second))]
  PROVE  AtomicStep
<1>1. PICK s, c, v : s = job[t].todo /\ c = job[t].call /\ v = job[t].seen
  OBVIOUS
<1>2. LockedInv
  BY DEF AtomicInv
<1>3. s \in Seq(Step) /\ 1 \in DOMAIN s /\ s[1][1] = "update" /\ s[1][2] = o /\ o \in Objects
  BY <1>1, <1>2, DueStep
<1>4. UpdatesFit(c, s, v)
  BY <1>1, <1>2 DEF LockedInv, JobFits
<1>5. c \notin Loose /\ o \in DOMAIN v
  <2>1. \A k \in DOMAIN s : ~(k < 1)
    BY <1>3
  <2> QED
    BY <1>3, <1>4, <2>1 DEF UpdatesFit
<1>6. KeepsFit(c, s) /\ ViewFits(t, c, s, v)
  BY <1>1, AtomicThread DEF MomentFits
<1>7. At(s, Sights) = {}
  <2> SUFFICES ASSUME NEW k \in At(s, Sights) PROVE FALSE
    OBVIOUS
  <2>1. 1 \in At(s, Late)
    BY <1>3 DEF At, Late, Final
  <2>2. k <= 1
    BY <1>5, <1>6, <2>1 DEF KeepsFit, InOrder
  <2>3. k = 1
    BY <1>3, <2>2 DEF At
  <2> QED
    BY <1>3, <2>3 DEF At, Sights, Seeing
<1>8. val[o] = v[o]
  <2>1. HasOn(s, {"update"}, o)
    BY <1>3 DEF HasOn, At
  <2> QED
    BY <1>5, <1>6, <2>1 DEF ViewFits
<1>9. val \in [Objects -> Whole]
  BY <1>2 DEF LockedInv, ObjectTypes
<1>10. val'[o].second = After(val[o].second)
  BY <1>1, <1>3, <1>8, <1>9 DEF Both
<1>11. \A p \in Objects \ {o} : val'[p] = val[p]
  BY <1>9
<1> QED
  BY <1>1, <1>7, <1>10, <1>11, CompleteStep

LEMMA FillStep ==
  ASSUME AtomicInv, NEW t \in Threads, NEW o, Due(t, "fill", o), Advance(t),
         val' = [val EXCEPT ![o].second = val[o].first]
  PROVE  AtomicStep
<1>1. PICK s : s = job[t].todo
  OBVIOUS
<1>2. LockedInv
  BY DEF AtomicInv
<1>3. s \in Seq(Step) /\ s # <<>> /\ 1 \in DOMAIN s /\ s[1][1] = "fill" /\ s[1][2] = o /\ o \in Objects
  BY <1>1, <1>2, DueStep
<1>4. WritesFit(s)
  BY <1>1, AtomicThread DEF MomentFits
<1>5. 1 \in At(s, {"fill"}) /\ \A words : At(s, words) \subseteq Nat \ {0}
  BY <1>3 DEF At
<1>6. At(s, Sights) = {}
  <2>1. \A k \in At(s, Sights) : k < 1
    BY <1>4, <1>5 DEF WritesFit
  <2> QED
    BY <1>5, <2>1
<1>7. At(s, {"half"}) = {}
  <2> SUFFICES ASSUME NEW i \in At(s, {"half"}) PROVE FALSE
    OBVIOUS
  <2>1. PICK k \in At(s, {"fill"}) : i < k
    BY <1>4 DEF WritesFit
  <2>2. k \in At(s, Final) /\ 1 \in At(s, Final)
    BY <1>5, <2>1 DEF At, Final
  <2>3. k = 1
    BY <1>4, <2>2 DEF WritesFit
  <2> QED
    BY <1>5, <2>1, <2>3
<1>8. HalfDone(t, o)
  BY <1>1, <1>3, <1>5, <1>7 DEF HalfDone, HalfIn, HasOn
<1>9. val[o].first = After(val[o].second)
  BY <1>3, <1>8 DEF AtomicInv, HalvesFit
<1>10. val \in [Objects -> Whole]
  BY <1>2 DEF LockedInv, ObjectTypes
<1>11. val'[o].second = After(val[o].second)
  BY <1>3, <1>9, <1>10 DEF Whole
<1>12. \A p \in Objects \ {o} : val'[p] = val[p]
  BY <1>10
<1> QED
  BY <1>1, <1>6, <1>11, <1>12, CompleteStep

LEMMA PutStep ==
  ASSUME AtomicInv, NEW t \in Threads, NEW o, Due(t, "put", o), Advance(t), Open(t, o),
         val' = [val EXCEPT ![o] = Both(After(@.second))]
  PROVE  AtomicStep
<1>1. PICK s, c, v : s = job[t].todo /\ c = job[t].call /\ v = job[t].seen
  OBVIOUS
<1>2. LockedInv /\ val \in [Objects -> Whole]
  BY DEF AtomicInv, LockedInv, ObjectTypes
<1>3. s \in Seq(Step) /\ s # <<>> /\ 1 \in DOMAIN s /\ s[1][1] = "put" /\ o \in Objects
  BY <1>1, <1>2, DueStep
<1>4. WritesFit(s) /\ ViewFits(t, c, s, v)
  BY <1>1, AtomicThread DEF MomentFits
<1>5. Shows(t, s, v)
  <2>1. s = job[t].todo /\ v = job[t].seen /\ s # <<>>
    BY <1>1, <1>3
  <2> QED
    BY <1>2, <2>1, JobOut
<1>6. v = <<>>
  <2>1. 1 \in At(s, {"look", "put"})
    BY <1>3 DEF At
  <2> QED
    BY <1>4, <2>1 DEF ViewFits, Blind
<1>7. \A p : ~HasOn(s, {"update", "fill"}, p)
  <2>1. {"update", "fill"} \subseteq Final /\ s[1][1] \in Final
    BY <1>3 DEF Final
  <2> QED
    BY <1>3, <1>4, <2>1, OneWrite
<1>8. Out(t) = Nothing /\ \A p : ~Pend(t, p)
  BY <1>5, <1>6, <1>7 DEF Shows
<1>9. /\ \A u \in Threads \ {t} : job'[u] = job[u]
      /\ Out(t)' \in {Out(t), Nothing}
      /\ \A p : Pend(t, p)' <=> Pend(t, p)
  BY AdvanceOut DEF Sights, Seeing
<1>10. ~Pending(o) /\ ~Pending(o)'
  BY <1>8, <1>9, OpenVal, NextVal
<1>11. val'[o].second = After(val[o].second)
  BY <1>2, <1>3 DEF Both
<1>12. Val(o)' = After(Val(o))
  BY <1>10, <1>11 DEF Val
<1>13. \A p \in Objects \ {o} : Val(p)' = Val(p)
  <2>1. \A p \in Objects \ {o} : val'[p] = val[p]
    BY <1>2
  <2> QED
    BY <1>9, <2>1, SameVal
<1>14. Bumped(o)
  BY <1>12, <1>13 DEF Bumped
<1>15. \A u \in Threads : Out(u)' = Out(u)
  BY <1>8, <1>9, SameOut
<1> QED
  BY <1>3, <1>14, <1>15, WriteStep

LEMMA HalfStep ==
  ASSUME AtomicInv, NEW t \in Threads, NEW o, Due(t, "half", o), Advance(t),
         val' = [val EXCEPT ![o].first = After(@)]
  PROVE  AtomicStep
<1>1. val \in [Objects -> Whole]
  BY DEF AtomicInv, LockedInv, ObjectTypes
<1>2. \A p \in Objects : val'[p].second = val[p].second
  BY <1>1 DEF Whole
<1> QED
  BY <1>2, AdvanceQuiet DEF Sights, Seeing

LEMMA InitMaps == Init => Atomic!Init
<1> SUFFICES ASSUME Init PROVE Atomic!Init
  OBVIOUS
<1>1. \A t \in Threads : ~Decided(t)
  BY DEF Init, Decided
<1>2. \A o \in Objects : ~Pending(o)
  BY <1>1 DEF Pending
<1>3. \A o \in Objects : val[o].second = 0
  BY DEF Init
<1> QED
  BY <1>1, <1>2, <1>3 DEF Atomic!Init

LEMMA StepMaps ==
  ASSUME AtomicInv, [Next]_vars
  PROVE  AtomicStep
<1>1. ASSUME NEW t \in Threads, Begin(t) PROVE AtomicStep
  BY <1>1, BeginStep
<1>2. ASSUME NEW t \in Threads, Proceed(t) PROVE AtomicStep
  <2>1. PICK o : \/ Acquire(t, o) \/ Release(t, o)
                 \/ Read(t, o) \/ Write(t, o)
                 \/ Check(t, o) \/ GlanceFirst(t, o) \/ LookFirst(t, o)
                 \/ SetFreeze(t, o)
    BY <1>2 DEF Proceed
  <2>2. CASE Write(t, o)
    BY <2>2, PutStep, UpdateStep, HalfStep, FillStep DEF Write
  <2> QED
    BY <2>1, <2>2, AcquireStep, ReleaseStep, ReadStep, CheckStep, GlanceFirstStep,
       LookFirstStep, SetFreezeStep
<1>3. CASE UNCHANGED vars
  <2>1. UNCHANGED <<val, job>>
    BY <1>3 DEF vars
  <2> QED
    BY <2>1 DEF AtomicStep, Atomic!vars, Pending, Decided, Reading, Yet
<1> QED
  BY <1>1, <1>2, <1>3 DEF Next

(* Every method of SyncInt, SyncFloat, SyncBool, SyncString and SyncRef,    *)
(* and of ConcurrentList, Dict, Set, Bag, Queue and Stack, whose kind is    *)
(* not loose happens at one moment, with however many threads and objects:  *)
(* the values it sees its operands had at the same time, none of them half  *)
(* written, and what it writes follows what it has seen.  That holds        *)
(* although extend writes element by element, and methods call each other   *)
(* under RLocks.  A call that finds an operand frozen becomes a loose one:  *)
(* it reads without the lock, maybe half of what a late writer does, but    *)
(* its own write is still one new version.                                  *)
THEOREM CallsAreAtomic == Spec => ImplementsAtomic
<1>1. AtomicInv /\ [Next]_vars => [Atomic!Next]_(Atomic!vars)
  BY StepMaps DEF AtomicStep
<1> QED
  BY <1>1, InitMaps, AtomicInvariant, PTL DEF Spec, ImplementsAtomic, Atomic!Spec

=============================================================================
