-------------------------- MODULE LockedObjectsProofs --------------------------
(***************************************************************************)
(* Theorems about LockedObjects for every set of threads, every finite set *)
(* of objects and every number of versions.                                *)
(***************************************************************************)
EXTENDS LockedObjects, FiniteSetTheorems, SequenceTheorems, TLAPS

-----------------------------------------------------------------------------
(* What the steps to come of a call look like.                             *)

Locking == {"lock", "unlock"}
Seeing == {"read", "get", "glance"}
Writing == {"put", "update", "half", "fill"}
Words == Locking \union Seeing \union Writing \union {"check", "freeze", "unfreeze"}

Plain == Words \X Objects
Step == Plain \union ({"look"} \X Objects \X Seq(Plain) \X Seq(Plain))

\* What a call can have seen of the objects.
Views == UNION {[seenOf -> Whole] : seenOf \in SUBSET Objects}

Only(s, words) == \A i \in DOMAIN s : s[i][1] \in words

\* The places of the steps that take a lock or give it up.
Marks(s) == {i \in DOMAIN s : s[i][1] \in Locking}

\* Such steps are still to come: none; a lock and its release; two locks, the
\* lower one first, and their releases; and what remains of these.
Bare(s) == Marks(s) = {}

LocksOne(s, x) ==
  \E i, j \in DOMAIN s :
    i < j /\ Marks(s) = {i, j} /\ s[i] = Do("lock", x) /\ s[j] = Do("unlock", x)

InOne(s, x) == \E i \in DOMAIN s : Marks(s) = {i} /\ s[i] = Do("unlock", x)

LocksTwo(s, x, y) ==
  \E i, j, k, l \in DOMAIN s :
    /\ i < j /\ j < k /\ k < l /\ Marks(s) = {i, j, k, l}
    /\ s[i] = Do("lock", x) /\ s[j] = Do("lock", y)
    /\ s[k] = Do("unlock", y) /\ s[l] = Do("unlock", x)

InFirst(s, x, y) ==
  \E i, j, k \in DOMAIN s :
    /\ i < j /\ j < k /\ Marks(s) = {i, j, k}
    /\ s[i] = Do("lock", y) /\ s[j] = Do("unlock", y) /\ s[k] = Do("unlock", x)

InBoth(s, x, y) ==
  \E i, j \in DOMAIN s :
    /\ i < j /\ Marks(s) = {i, j}
    /\ s[i] = Do("unlock", y) /\ s[j] = Do("unlock", x)

-----------------------------------------------------------------------------
(* The invariant: jobs.                                                    *)

JobState == [call : Kinds \union {"none", "lockless"}, todo : Seq(Step), seen : Views]

\* What may stand beside a glance: the call is one that nests, or has no lock
\* to take; it neither updates nor disposes of anything, and a call that keeps
\* what it sees has no other brief critical section.
GlancesFit(call, s) ==
  \A i \in DOMAIN s : s[i][1] = "glance" =>
    /\ call \in Nesting \/ Bare(s)
    /\ \A k \in DOMAIN s : s[k][1] \notin {"update", "freeze"}
    /\ call # "dispose"
    /\ call \in Loose \/ \A k \in DOMAIN s : s[k][1] \in Brief \union {"glance"} => k = i

\* A look is the only step of lookNest, is done without the lock, and leads to
\* steps that do not look again.
LooksFit(call, s) ==
  \A i \in DOMAIN s : s[i][1] = "look" =>
    /\ call = "lookNest" /\ Len(s) = 1
    /\ Only(s[i][3], Seeing) /\ Only(s[i][4], Seeing \union Locking)
    /\ GlancesFit(call, s[i][4]) /\ \E x \in Objects : LocksOne(s[i][4], x)

\* The kinds of call that are told apart keep to their kinds of step; calls
\* that do not nest have no brief critical section within another one.
CallFits(call, s) ==
  /\ call \in Ending => Only(s, Seeing \union Locking \union {"put"})
  /\ (\E i \in DOMAIN s : s[i][1] = "freeze") => call = "freeze"
  /\ call \in Nesting \/ Bare(s) \/ \A i \in DOMAIN s : s[i][1] \notin Brief
  /\ GlancesFit(call, s)

\* A call has seen what it updates, or sees it first.
UpdatesFit(call, s, views) ==
  \A i \in DOMAIN s : s[i][1] = "update" =>
    /\ call \notin Loose
    /\ \/ s[i][2] \in DOMAIN views
       \/ \E k \in DOMAIN s : k < i /\ s[k] = Do("read", s[i][2])

\* A call asks whether the object is frozen before anything else.
ChecksFit(s) == \A i \in DOMAIN s : s[i][1] = "check" => i = 1

JobFits(j) ==
  /\ LooksFit(j.call, j.todo) /\ CallFits(j.call, j.todo)
  /\ UpdatesFit(j.call, j.todo, j.seen) /\ ChecksFit(j.todo)

-----------------------------------------------------------------------------
(* The invariant: locks.                                                   *)

HoldsNothing(t) == \A o \in Objects : owner[o] # t

HoldsOne(t, x) ==
  /\ \A o \in Objects : owner[o] = t <=> o = x
  /\ depth[x] = 1

HoldsTwo(t, x, y) ==
  /\ \A o \in Objects : owner[o] = t <=> o \in {x, y}
  /\ depth[x] = IF x = y THEN 2 ELSE 1
  /\ depth[y] = IF x = y THEN 2 ELSE 1

\* A thread has the locks that the steps of its call are to give up.
LocksFit(t, s) ==
  \/ HoldsNothing(t) /\ Bare(s)
  \/ \E x \in Objects : HoldsNothing(t) /\ LocksOne(s, x)
  \/ \E x \in Objects : HoldsOne(t, x) /\ InOne(s, x)
  \/ \E x, y \in Objects : x <= y /\ HoldsNothing(t) /\ LocksTwo(s, x, y)
  \/ \E x, y \in Objects : x <= y /\ HoldsOne(t, x) /\ InFirst(s, x, y)
  \/ \E x, y \in Objects : x <= y /\ HoldsTwo(t, x, y) /\ InBoth(s, x, y)

LockTypes ==
  /\ owner \in [Objects -> Threads \union {NoThread}]
  /\ depth \in [Objects -> 0 .. 2]
  /\ \A o \in Objects : owner[o] = NoThread <=> depth[o] = 0

ObjectTypes ==
  /\ LockTypes
  /\ val \in [Objects -> Whole]
  /\ frozen \in [Objects -> BOOLEAN]
  /\ job \in [Threads -> JobState]
  /\ offer \in Families

\* A call that is still to ask whether the object is frozen has no lock yet.
AsksFit(t, s) == \A i \in DOMAIN s : s[i][1] = "check" => HoldsNothing(t)

\* Only objects that can be frozen are, and calls are among those on offer.
OffersFit ==
  /\ \A o \in Objects : frozen[o] => "freeze" \in offer
  /\ \A t \in Threads : job[t].call \in offer \union {"none", "lockless"}

LockedInv ==
  /\ ObjectTypes
  /\ OffersFit
  /\ \A t \in Threads :
       JobFits(job[t]) /\ LocksFit(t, job[t].todo) /\ AsksFit(t, job[t].todo)


-----------------------------------------------------------------------------
(* The order of the steps of a call, which makes its moment.               *)

\* The places of the steps to come that do one of these.
At(s, words) == {i \in DOMAIN s : s[i][1] \in words}
HasOn(s, words, o) == \E i \in At(s, words) : s[i][2] = o

Sights == Seeing \union {"look"}         \* what Reading looks for
Final == {"put", "update", "fill"}
Late == {"get", "glance", "look", "half", "unlock", "freeze", "unfreeze"} \union Final

\* Nothing is seen after a late step.
InOrder(s) == \A i \in At(s, Late), k \in At(s, Sights) : k <= i

\* There is one write, half of it before the other half; it is the last step
\* that depends on what is seen; and what it depends on is seen under its lock.
WritesFit(s) ==
  /\ \A i \in At(s, {"fill"}), k \in At(s, Sights) : k < i
  /\ \A i, k \in At(s, Final) : i = k
  /\ \A i, k \in At(s, {"half"}) : i = k
  /\ \A i \in At(s, {"half"}) : \E k \in At(s, {"fill"}) : i < k /\ s[k][2] = s[i][2]
  /\ At(s, {"update", "fill"}) # {} =>
       \A i \in At(s, {"lock"}) : \E k \in At(s, Sights) : i < k

\* Calls that keep what they see do not write before they have seen it all.
KeepsFit(call, s) ==
  call \notin Loose =>
    /\ InOrder(s)
    /\ At(s, {"fill"}) # {} /\ At(s, {"half"}) = {} => At(s, Sights) = {}
    /\ At(s, {"put"}) # {} => At(s, Sights) = {}
    /\ At(s, {"look"}) # {} => Len(s) = 1

\* The steps that need the lock of their object.
Guarding(call) == {"update", "half", "fill"} \union (IF call \in Loose THEN {} ELSE {"read"})

Within(s, i) == \A k \in At(s, {"unlock"}) : i < k
Before(s, i, o) == \E k \in At(s, {"lock"}) : k < i /\ s[k][2] = o

\* A look leads to something that is seen, and in a call that keeps it to
\* steps in this order.
BranchFits(call, step) ==
  /\ At(step[3], Sights) # {} /\ At(step[4], Sights) # {}
  /\ call \notin Loose =>
       /\ InOrder(step[4])
       /\ \A k \in At(step[4], {"read"}) :
            Within(step[4], k) /\ Before(step[4], k, step[4][k][2])

BranchesFit(call, s) == \A i \in At(s, {"look"}) : BranchFits(call, s[i])

MomentFits(call, s) == WritesFit(s) /\ KeepsFit(call, s) /\ BranchesFit(call, s)

\* At the beginning every such lock is still to come, and so is the first half.
StartsFit(call, s) ==
  /\ \A i \in At(s, Guarding(call)) : Within(s, i) /\ Before(s, i, s[i][2])
  /\ At(s, {"fill"}) # {} => At(s, {"half"}) # {}

-----------------------------------------------------------------------------
(* The steps of each kind of call.                                         *)

\* A call that writes an object either asks first, or does not care.
Asks(call, s) ==
  \A i \in DOMAIN s : s[i][1] \in Writing =>
    \/ call \in {"set", "update", "pairUpdate", "nestUpdate", "rawUpdate"} \union Ending
    \/ \E k \in DOMAIN s : s[k] = Do("check", s[i][2])

ShapeFits(s) ==
  \/ Bare(s)
  \/ \E x \in Objects : LocksOne(s, x)
  \/ \E x, y \in Objects : x <= y /\ LocksTwo(s, x, y)

Begins(call, s) ==
  /\ s \in Seq(Step)
  /\ LooksFit(call, s) /\ CallFits(call, s) /\ UpdatesFit(call, s, <<>>) /\ ChecksFit(s)
  /\ ShapeFits(s) /\ Asks(call, s)
  /\ MomentFits(call, s) /\ StartsFit(call, s)

LEMMA DoTypes == \A w \in Words, o \in Objects : Do(w, o) \in Step /\ Do(w, o) \in Plain
BY DEF Do, Step, Plain

\* The order of the steps of each kind that does not look.
LEMMA SetMoment ==
  ASSUME NEW s, NEW x, DOMAIN s = 1 .. 1,
         s[1] = Do("put", x)
  PROVE  MomentFits("set", s) /\ StartsFit("set", s)
<1>1. /\ At(s, Sights) = {} /\ At(s, Late) = {1} /\ At(s, Final) = {1}
      /\ At(s, {"lock"}) = {} /\ At(s, {"unlock"}) = {}
      /\ At(s, {"half"}) = {} /\ At(s, {"fill"}) = {}
      /\ At(s, {"update", "fill"}) = {} /\ At(s, {"put"}) = {1}
      /\ At(s, {"look"}) = {} /\ At(s, Guarding("set")) = {}
  BY DEF At, Sights, Seeing, Late, Final, Guarding, Loose, Do
<1>2. MomentFits("set", s)
  BY <1>1 DEF MomentFits, WritesFit, KeepsFit, BranchesFit, InOrder, Loose, Do
<1>3. StartsFit("set", s)
  BY <1>1 DEF StartsFit, Within, Before, Do
<1> QED
  BY <1>2, <1>3

LEMMA ApartMoment ==
  ASSUME NEW s, NEW x, NEW y, DOMAIN s = 1 .. 2,
         s[1] = Do("get", x), s[2] = Do("get", y)
  PROVE  MomentFits("apart", s) /\ StartsFit("apart", s)
<1>1. /\ At(s, Sights) = {1, 2} /\ At(s, Late) = {1, 2} /\ At(s, Final) = {}
      /\ At(s, {"lock"}) = {} /\ At(s, {"unlock"}) = {}
      /\ At(s, {"half"}) = {} /\ At(s, {"fill"}) = {}
      /\ At(s, {"update", "fill"}) = {} /\ At(s, {"put"}) = {}
      /\ At(s, {"look"}) = {} /\ At(s, Guarding("apart")) = {}
  BY DEF At, Sights, Seeing, Late, Final, Guarding, Loose, Do
<1>2. MomentFits("apart", s)
  BY <1>1 DEF MomentFits, WritesFit, KeepsFit, BranchesFit, InOrder, Loose, Do
<1>3. StartsFit("apart", s)
  BY <1>1 DEF StartsFit, Within, Before, Do
<1> QED
  BY <1>2, <1>3

LEMMA PeekMoment ==
  ASSUME NEW s, NEW x, DOMAIN s = 1 .. 1,
         s[1] = Do("read", x)
  PROVE  MomentFits("peek", s) /\ StartsFit("peek", s)
<1>1. /\ At(s, Sights) = {1} /\ At(s, Late) = {} /\ At(s, Final) = {}
      /\ At(s, {"lock"}) = {} /\ At(s, {"unlock"}) = {}
      /\ At(s, {"half"}) = {} /\ At(s, {"fill"}) = {}
      /\ At(s, {"update", "fill"}) = {} /\ At(s, {"put"}) = {}
      /\ At(s, {"look"}) = {} /\ At(s, Guarding("peek")) = {}
  BY DEF At, Sights, Seeing, Late, Final, Guarding, Loose, Do
<1>2. MomentFits("peek", s)
  BY <1>1 DEF MomentFits, WritesFit, KeepsFit, BranchesFit, InOrder, Loose, Do
<1>3. StartsFit("peek", s)
  BY <1>1 DEF StartsFit, Within, Before, Do
<1> QED
  BY <1>2, <1>3

LEMMA LookReadMoment ==
  ASSUME NEW s, NEW x, DOMAIN s = 1 .. 1,
         s[1] = Do("glance", x)
  PROVE  MomentFits("lookRead", s) /\ StartsFit("lookRead", s)
<1>1. /\ At(s, Sights) = {1} /\ At(s, Late) = {1} /\ At(s, Final) = {}
      /\ At(s, {"lock"}) = {} /\ At(s, {"unlock"}) = {}
      /\ At(s, {"half"}) = {} /\ At(s, {"fill"}) = {}
      /\ At(s, {"update", "fill"}) = {} /\ At(s, {"put"}) = {}
      /\ At(s, {"look"}) = {} /\ At(s, Guarding("lookRead")) = {}
  BY DEF At, Sights, Seeing, Late, Final, Guarding, Loose, Do
<1>2. MomentFits("lookRead", s)
  BY <1>1 DEF MomentFits, WritesFit, KeepsFit, BranchesFit, InOrder, Loose, Do
<1>3. StartsFit("lookRead", s)
  BY <1>1 DEF StartsFit, Within, Before, Do
<1> QED
  BY <1>2, <1>3

LEMMA LookApartMoment ==
  ASSUME NEW s, NEW x, NEW y, DOMAIN s = 1 .. 2,
         s[1] = Do("glance", x), s[2] = Do("glance", y)
  PROVE  MomentFits("lookApart", s) /\ StartsFit("lookApart", s)
<1>1. /\ At(s, Sights) = {1, 2} /\ At(s, Late) = {1, 2} /\ At(s, Final) = {}
      /\ At(s, {"lock"}) = {} /\ At(s, {"unlock"}) = {}
      /\ At(s, {"half"}) = {} /\ At(s, {"fill"}) = {}
      /\ At(s, {"update", "fill"}) = {} /\ At(s, {"put"}) = {}
      /\ At(s, {"look"}) = {} /\ At(s, Guarding("lookApart")) = {}
  BY DEF At, Sights, Seeing, Late, Final, Guarding, Loose, Do
<1>2. MomentFits("lookApart", s)
  BY <1>1 DEF MomentFits, WritesFit, KeepsFit, BranchesFit, InOrder, Loose, Do
<1>3. StartsFit("lookApart", s)
  BY <1>1 DEF StartsFit, Within, Before, Do
<1> QED
  BY <1>2, <1>3

LEMMA GuardedSetMoment ==
  ASSUME NEW s, NEW x, DOMAIN s = 1 .. 2,
         s[1] = Do("check", x), s[2] = Do("put", x)
  PROVE  MomentFits("guardedSet", s) /\ StartsFit("guardedSet", s)
<1>1. /\ At(s, Sights) = {} /\ At(s, Late) = {2} /\ At(s, Final) = {2}
      /\ At(s, {"lock"}) = {} /\ At(s, {"unlock"}) = {}
      /\ At(s, {"half"}) = {} /\ At(s, {"fill"}) = {}
      /\ At(s, {"update", "fill"}) = {} /\ At(s, {"put"}) = {2}
      /\ At(s, {"look"}) = {} /\ At(s, Guarding("guardedSet")) = {}
  BY DEF At, Sights, Seeing, Late, Final, Guarding, Loose, Do
<1>2. MomentFits("guardedSet", s)
  BY <1>1 DEF MomentFits, WritesFit, KeepsFit, BranchesFit, InOrder, Loose, Do
<1>3. StartsFit("guardedSet", s)
  BY <1>1 DEF StartsFit, Within, Before, Do
<1> QED
  BY <1>2, <1>3

LEMMA DisposeMoment ==
  ASSUME NEW s, NEW x, DOMAIN s = 1 .. 1,
         s[1] = Do("put", x)
  PROVE  MomentFits("dispose", s) /\ StartsFit("dispose", s)
<1>1. /\ At(s, Sights) = {} /\ At(s, Late) = {1} /\ At(s, Final) = {1}
      /\ At(s, {"lock"}) = {} /\ At(s, {"unlock"}) = {}
      /\ At(s, {"half"}) = {} /\ At(s, {"fill"}) = {}
      /\ At(s, {"update", "fill"}) = {} /\ At(s, {"put"}) = {1}
      /\ At(s, {"look"}) = {} /\ At(s, Guarding("dispose")) = {}
  BY DEF At, Sights, Seeing, Late, Final, Guarding, Loose, Do
<1>2. MomentFits("dispose", s)
  BY <1>1 DEF MomentFits, WritesFit, KeepsFit, BranchesFit, InOrder, Loose, Do
<1>3. StartsFit("dispose", s)
  BY <1>1 DEF StartsFit, Within, Before, Do
<1> QED
  BY <1>2, <1>3

LEMMA FreezeMoment ==
  ASSUME NEW s, NEW x, DOMAIN s = 1 .. 1,
         s[1] = Do("freeze", x)
  PROVE  MomentFits("freeze", s) /\ StartsFit("freeze", s)
<1>1. /\ At(s, Sights) = {} /\ At(s, Late) = {1} /\ At(s, Final) = {}
      /\ At(s, {"lock"}) = {} /\ At(s, {"unlock"}) = {}
      /\ At(s, {"half"}) = {} /\ At(s, {"fill"}) = {}
      /\ At(s, {"update", "fill"}) = {} /\ At(s, {"put"}) = {}
      /\ At(s, {"look"}) = {} /\ At(s, Guarding("freeze")) = {}
  BY DEF At, Sights, Seeing, Late, Final, Guarding, Loose, Do
<1>2. MomentFits("freeze", s)
  BY <1>1 DEF MomentFits, WritesFit, KeepsFit, BranchesFit, InOrder, Loose, Do
<1>3. StartsFit("freeze", s)
  BY <1>1 DEF StartsFit, Within, Before, Do
<1> QED
  BY <1>2, <1>3

LEMMA UnfreezeMoment ==
  ASSUME NEW s, NEW x, DOMAIN s = 1 .. 1,
         s[1] = Do("unfreeze", x)
  PROVE  MomentFits("unfreeze", s) /\ StartsFit("unfreeze", s)
<1>1. /\ At(s, Sights) = {} /\ At(s, Late) = {1} /\ At(s, Final) = {}
      /\ At(s, {"lock"}) = {} /\ At(s, {"unlock"}) = {}
      /\ At(s, {"half"}) = {} /\ At(s, {"fill"}) = {}
      /\ At(s, {"update", "fill"}) = {} /\ At(s, {"put"}) = {}
      /\ At(s, {"look"}) = {} /\ At(s, Guarding("unfreeze")) = {}
  BY DEF At, Sights, Seeing, Late, Final, Guarding, Loose, Do
<1>2. MomentFits("unfreeze", s)
  BY <1>1 DEF MomentFits, WritesFit, KeepsFit, BranchesFit, InOrder, Loose, Do
<1>3. StartsFit("unfreeze", s)
  BY <1>1 DEF StartsFit, Within, Before, Do
<1> QED
  BY <1>2, <1>3

LEMMA ReadMoment ==
  ASSUME NEW s, NEW x, DOMAIN s = 1 .. 3,
         s[1] = Do("lock", x), s[2] = Do("read", x), s[3] = Do("unlock", x)
  PROVE  MomentFits("read", s) /\ StartsFit("read", s)
<1>1. /\ At(s, Sights) = {2} /\ At(s, Late) = {3} /\ At(s, Final) = {}
      /\ At(s, {"lock"}) = {1} /\ At(s, {"unlock"}) = {3}
      /\ At(s, {"half"}) = {} /\ At(s, {"fill"}) = {}
      /\ At(s, {"update", "fill"}) = {} /\ At(s, {"put"}) = {}
      /\ At(s, {"look"}) = {} /\ At(s, Guarding("read")) = {2}
  BY DEF At, Sights, Seeing, Late, Final, Guarding, Loose, Do
<1>2. MomentFits("read", s)
  BY <1>1 DEF MomentFits, WritesFit, KeepsFit, BranchesFit, InOrder, Loose, Do
<1>3. StartsFit("read", s)
  BY <1>1 DEF StartsFit, Within, Before, Do
<1> QED
  BY <1>2, <1>3

LEMMA UpdateMoment ==
  ASSUME NEW s, NEW x, DOMAIN s = 1 .. 4,
         s[1] = Do("lock", x), s[2] = Do("read", x), s[3] = Do("update", x),
         s[4] = Do("unlock", x)
  PROVE  MomentFits("update", s) /\ StartsFit("update", s)
<1>1. /\ At(s, Sights) = {2} /\ At(s, Late) = {3, 4} /\ At(s, Final) = {3}
      /\ At(s, {"lock"}) = {1} /\ At(s, {"unlock"}) = {4}
      /\ At(s, {"half"}) = {} /\ At(s, {"fill"}) = {}
      /\ At(s, {"update", "fill"}) = {3} /\ At(s, {"put"}) = {}
      /\ At(s, {"look"}) = {} /\ At(s, Guarding("update")) = {2, 3}
  BY DEF At, Sights, Seeing, Late, Final, Guarding, Loose, Do
<1>2. MomentFits("update", s)
  BY <1>1 DEF MomentFits, WritesFit, KeepsFit, BranchesFit, InOrder, Loose, Do
<1>3. StartsFit("update", s)
  BY <1>1 DEF StartsFit, Within, Before, Do
<1> QED
  BY <1>2, <1>3

LEMMA NestReadMoment ==
  ASSUME NEW s, NEW x, NEW y, DOMAIN s = 1 .. 4,
         s[1] = Do("lock", x), s[2] = Do("read", x), s[3] = Do("get", y),
         s[4] = Do("unlock", x)
  PROVE  MomentFits("nestRead", s) /\ StartsFit("nestRead", s)
<1>1. /\ At(s, Sights) = {2, 3} /\ At(s, Late) = {3, 4} /\ At(s, Final) = {}
      /\ At(s, {"lock"}) = {1} /\ At(s, {"unlock"}) = {4}
      /\ At(s, {"half"}) = {} /\ At(s, {"fill"}) = {}
      /\ At(s, {"update", "fill"}) = {} /\ At(s, {"put"}) = {}
      /\ At(s, {"look"}) = {} /\ At(s, Guarding("nestRead")) = {2}
  BY DEF At, Sights, Seeing, Late, Final, Guarding, Loose, Do
<1>2. MomentFits("nestRead", s)
  BY <1>1 DEF MomentFits, WritesFit, KeepsFit, BranchesFit, InOrder, Loose, Do
<1>3. StartsFit("nestRead", s)
  BY <1>1 DEF StartsFit, Within, Before, Do
<1> QED
  BY <1>2, <1>3

LEMMA NestUpdateMoment ==
  ASSUME NEW s, NEW x, NEW y, DOMAIN s = 1 .. 5,
         s[1] = Do("lock", x), s[2] = Do("read", x), s[3] = Do("get", y),
         s[4] = Do("update", x), s[5] = Do("unlock", x)
  PROVE  MomentFits("nestUpdate", s) /\ StartsFit("nestUpdate", s)
<1>1. /\ At(s, Sights) = {2, 3} /\ At(s, Late) = {3, 4, 5}
      /\ At(s, Final) = {4} /\ At(s, {"lock"}) = {1}
      /\ At(s, {"unlock"}) = {5} /\ At(s, {"half"}) = {}
      /\ At(s, {"fill"}) = {} /\ At(s, {"update", "fill"}) = {4}
      /\ At(s, {"put"}) = {} /\ At(s, {"look"}) = {}
      /\ At(s, Guarding("nestUpdate")) = {2, 4}
  BY DEF At, Sights, Seeing, Late, Final, Guarding, Loose, Do
<1>2. MomentFits("nestUpdate", s)
  BY <1>1 DEF MomentFits, WritesFit, KeepsFit, BranchesFit, InOrder, Loose, Do
<1>3. StartsFit("nestUpdate", s)
  BY <1>1 DEF StartsFit, Within, Before, Do
<1> QED
  BY <1>2, <1>3

LEMMA GuardedUpdateMoment ==
  ASSUME NEW s, NEW x, DOMAIN s = 1 .. 5,
         s[1] = Do("check", x), s[2] = Do("lock", x), s[3] = Do("read", x),
         s[4] = Do("update", x), s[5] = Do("unlock", x)
  PROVE  MomentFits("guardedUpdate", s) /\ StartsFit("guardedUpdate", s)
<1>1. /\ At(s, Sights) = {3} /\ At(s, Late) = {4, 5} /\ At(s, Final) = {4}
      /\ At(s, {"lock"}) = {2} /\ At(s, {"unlock"}) = {5}
      /\ At(s, {"half"}) = {} /\ At(s, {"fill"}) = {}
      /\ At(s, {"update", "fill"}) = {4} /\ At(s, {"put"}) = {}
      /\ At(s, {"look"}) = {} /\ At(s, Guarding("guardedUpdate")) = {3, 4}
  BY DEF At, Sights, Seeing, Late, Final, Guarding, Loose, Do
<1>2. MomentFits("guardedUpdate", s)
  BY <1>1 DEF MomentFits, WritesFit, KeepsFit, BranchesFit, InOrder, Loose, Do
<1>3. StartsFit("guardedUpdate", s)
  BY <1>1 DEF StartsFit, Within, Before, Do
<1> QED
  BY <1>2, <1>3

LEMMA GuardedBulkMoment ==
  ASSUME NEW s, NEW x, NEW y, DOMAIN s = 1 .. 6,
         s[1] = Do("check", x), s[2] = Do("lock", x), s[3] = Do("glance", y),
         s[4] = Do("half", x), s[5] = Do("fill", x), s[6] = Do("unlock", x)
  PROVE  MomentFits("guardedBulk", s) /\ StartsFit("guardedBulk", s)
<1>1. /\ At(s, Sights) = {3} /\ At(s, Late) = {3, 4, 5, 6}
      /\ At(s, Final) = {5} /\ At(s, {"lock"}) = {2}
      /\ At(s, {"unlock"}) = {6} /\ At(s, {"half"}) = {4}
      /\ At(s, {"fill"}) = {5} /\ At(s, {"update", "fill"}) = {5}
      /\ At(s, {"put"}) = {} /\ At(s, {"look"}) = {}
      /\ At(s, Guarding("guardedBulk")) = {4, 5}
  BY DEF At, Sights, Seeing, Late, Final, Guarding, Loose, Do
<1>2. MomentFits("guardedBulk", s)
  BY <1>1 DEF MomentFits, WritesFit, KeepsFit, BranchesFit, InOrder, Loose, Do
<1>3. StartsFit("guardedBulk", s)
  BY <1>1 DEF StartsFit, Within, Before, Do
<1> QED
  BY <1>2, <1>3

LEMMA GuardedGatherMoment ==
  ASSUME NEW s, NEW x, NEW y, DOMAIN s = 1 .. 7,
         s[1] = Do("check", x), s[2] = Do("lock", x), s[3] = Do("glance", y),
         s[4] = Do("half", x), s[5] = Do("glance", y), s[6] = Do("fill", x),
         s[7] = Do("unlock", x)
  PROVE  MomentFits("guardedGather", s) /\ StartsFit("guardedGather", s)
<1>1. /\ At(s, Sights) = {3, 5} /\ At(s, Late) = {3, 4, 5, 6, 7}
      /\ At(s, Final) = {6} /\ At(s, {"lock"}) = {2}
      /\ At(s, {"unlock"}) = {7} /\ At(s, {"half"}) = {4}
      /\ At(s, {"fill"}) = {6} /\ At(s, {"update", "fill"}) = {6}
      /\ At(s, {"put"}) = {} /\ At(s, {"look"}) = {}
      /\ At(s, Guarding("guardedGather")) = {4, 6}
  BY DEF At, Sights, Seeing, Late, Final, Guarding, Loose, Do
<1>2. MomentFits("guardedGather", s)
  BY <1>1 DEF MomentFits, WritesFit, KeepsFit, BranchesFit, InOrder, Loose, Do
<1>3. StartsFit("guardedGather", s)
  BY <1>1 DEF StartsFit, Within, Before, Do
<1> QED
  BY <1>2, <1>3

LEMMA GuardedClientMoment ==
  ASSUME NEW s, NEW x, NEW y, DOMAIN s = 1 .. 7,
         s[1] = Do("check", x), s[2] = Do("lock", x), s[3] = Do("read", x),
         s[4] = Do("glance", y), s[5] = Do("half", x), s[6] = Do("fill", x),
         s[7] = Do("unlock", x)
  PROVE  MomentFits("guardedClient", s) /\ StartsFit("guardedClient", s)
<1>1. /\ At(s, Sights) = {3, 4} /\ At(s, Late) = {4, 5, 6, 7}
      /\ At(s, Final) = {6} /\ At(s, {"lock"}) = {2}
      /\ At(s, {"unlock"}) = {7} /\ At(s, {"half"}) = {5}
      /\ At(s, {"fill"}) = {6} /\ At(s, {"update", "fill"}) = {6}
      /\ At(s, {"put"}) = {} /\ At(s, {"look"}) = {}
      /\ At(s, Guarding("guardedClient")) = {3, 5, 6}
  BY DEF At, Sights, Seeing, Late, Final, Guarding, Loose, Do
<1>2. MomentFits("guardedClient", s)
  BY <1>1 DEF MomentFits, WritesFit, KeepsFit, BranchesFit, InOrder, Loose, Do
<1>3. StartsFit("guardedClient", s)
  BY <1>1 DEF StartsFit, Within, Before, Do
<1> QED
  BY <1>2, <1>3

LEMMA RawUpdateMoment ==
  ASSUME NEW s, NEW x, NEW y, DOMAIN s = 1 .. 6,
         s[1] = Do("lock", x), s[2] = Do("read", y), s[3] = Do("half", x),
         s[4] = Do("read", y), s[5] = Do("fill", x), s[6] = Do("unlock", x)
  PROVE  MomentFits("rawUpdate", s) /\ StartsFit("rawUpdate", s)
<1>1. /\ At(s, Sights) = {2, 4} /\ At(s, Late) = {3, 5, 6}
      /\ At(s, Final) = {5} /\ At(s, {"lock"}) = {1}
      /\ At(s, {"unlock"}) = {6} /\ At(s, {"half"}) = {3}
      /\ At(s, {"fill"}) = {5} /\ At(s, {"update", "fill"}) = {5}
      /\ At(s, {"put"}) = {} /\ At(s, {"look"}) = {}
      /\ At(s, Guarding("rawUpdate")) = {3, 5}
  BY DEF At, Sights, Seeing, Late, Final, Guarding, Loose, Do
<1>2. MomentFits("rawUpdate", s)
  BY <1>1 DEF MomentFits, WritesFit, KeepsFit, BranchesFit, InOrder, Loose, Do
<1>3. StartsFit("rawUpdate", s)
  BY <1>1 DEF StartsFit, Within, Before, Do
<1> QED
  BY <1>2, <1>3

LEMMA SessionMoment ==
  ASSUME NEW s, NEW x, NEW y, DOMAIN s = 1 .. 5,
         s[1] = Do("lock", x), s[2] = Do("read", x), s[3] = Do("glance", y),
         s[4] = Do("unlock", x), s[5] = Do("put", x)
  PROVE  MomentFits("session", s) /\ StartsFit("session", s)
<1>1. /\ At(s, Sights) = {2, 3} /\ At(s, Late) = {3, 4, 5}
      /\ At(s, Final) = {5} /\ At(s, {"lock"}) = {1}
      /\ At(s, {"unlock"}) = {4} /\ At(s, {"half"}) = {}
      /\ At(s, {"fill"}) = {} /\ At(s, {"update", "fill"}) = {}
      /\ At(s, {"put"}) = {5} /\ At(s, {"look"}) = {}
      /\ At(s, Guarding("session")) = {}
  BY DEF At, Sights, Seeing, Late, Final, Guarding, Loose, Do
<1>2. MomentFits("session", s)
  BY <1>1 DEF MomentFits, WritesFit, KeepsFit, BranchesFit, InOrder, Loose, Do
<1>3. StartsFit("session", s)
  BY <1>1 DEF StartsFit, Within, Before, Do
<1> QED
  BY <1>2, <1>3

LEMMA PairReadMoment ==
  ASSUME NEW s, NEW a, NEW b, NEW x, NEW y, DOMAIN s = 1 .. 6,
         x \in {a, b}, y \in {a, b},
         s[1] = Do("lock", a), s[2] = Do("lock", b), s[3] = Do("read", x),
         s[4] = Do("read", y), s[5] = Do("unlock", b),
         s[6] = Do("unlock", a)
  PROVE  MomentFits("pairRead", s) /\ StartsFit("pairRead", s)
<1>1. /\ At(s, Sights) = {3, 4} /\ At(s, Late) = {5, 6} /\ At(s, Final) = {}
      /\ At(s, {"lock"}) = {1, 2} /\ At(s, {"unlock"}) = {5, 6}
      /\ At(s, {"half"}) = {} /\ At(s, {"fill"}) = {}
      /\ At(s, {"update", "fill"}) = {} /\ At(s, {"put"}) = {}
      /\ At(s, {"look"}) = {} /\ At(s, Guarding("pairRead")) = {3, 4}
  BY DEF At, Sights, Seeing, Late, Final, Guarding, Loose, Do
<1>2. MomentFits("pairRead", s)
  BY <1>1 DEF MomentFits, WritesFit, KeepsFit, BranchesFit, InOrder, Loose, Do
<1>3. StartsFit("pairRead", s)
  BY <1>1 DEF StartsFit, Within, Before, Do
<1> QED
  BY <1>2, <1>3

LEMMA PairUpdateMoment ==
  ASSUME NEW s, NEW a, NEW b, NEW x, NEW y, DOMAIN s = 1 .. 7,
         x \in {a, b}, y \in {a, b},
         s[1] = Do("lock", a), s[2] = Do("lock", b), s[3] = Do("read", y),
         s[4] = Do("read", x), s[5] = Do("update", x),
         s[6] = Do("unlock", b), s[7] = Do("unlock", a)
  PROVE  MomentFits("pairUpdate", s) /\ StartsFit("pairUpdate", s)
<1>1. /\ At(s, Sights) = {3, 4} /\ At(s, Late) = {5, 6, 7}
      /\ At(s, Final) = {5} /\ At(s, {"lock"}) = {1, 2}
      /\ At(s, {"unlock"}) = {6, 7} /\ At(s, {"half"}) = {}
      /\ At(s, {"fill"}) = {} /\ At(s, {"update", "fill"}) = {5}
      /\ At(s, {"put"}) = {} /\ At(s, {"look"}) = {}
      /\ At(s, Guarding("pairUpdate")) = {3, 4, 5}
  BY DEF At, Sights, Seeing, Late, Final, Guarding, Loose, Do
<1>2. MomentFits("pairUpdate", s)
  BY <1>1 DEF MomentFits, WritesFit, KeepsFit, BranchesFit, InOrder, Loose, Do
<1>3. StartsFit("pairUpdate", s)
  BY <1>1 DEF StartsFit, Within, Before, Do
<1> QED
  BY <1>2, <1>3

LEMMA BareKinds ==
  ASSUME NEW x \in Objects, NEW y \in Objects,
         NEW k \in {"set", "apart", "peek", "lookRead", "lookApart", "guardedSet",
                "dispose", "freeze", "unfreeze"},
         NEW s, s = Script[k][x][y]
  PROVE  Begins(k, s)
<1>1. CASE k = "set"
  <2>1. s = Put(x)
    BY <1>1 DEF Script, Steps, Kinds
  <2>2. s \in Seq(Step) /\ Len(s) = 1
    BY <2>1, DoTypes, SMTT(60) DEF Guarded, With, Get, Put, Client, Glance, InPlace, Do, Words, Locking, Seeing, Writing
  <2>3. /\ DOMAIN s = 1 .. 1
        /\ s[1] = Do("put", x)
    BY <2>1, <2>2, DoTypes, SMTT(60) DEF Guarded, With, Get, Put, Client, Glance, InPlace, Do, Words, Locking, Seeing, Writing
  <2>4. Marks(s) = {}
    BY <2>3 DEF Marks, Locking, Do
  <2>5. ShapeFits(s)
    BY <2>3, <2>4 DEF ShapeFits, Bare
  <2>6. (\A i \in DOMAIN s : s[i][1] # "look") /\ ChecksFit(s)
    BY <2>3 DEF ChecksFit, Do
  <2>7. Asks(k, s)
    BY <1>1, <2>3 DEF Asks, Do, Writing, Ending
  <2>8. CallFits(k, s)
    BY <1>1, <2>3, <2>4 DEF CallFits, GlancesFit, Bare, Only, Do, Seeing, Locking, Ending, Nesting, Loose, Brief
  <2>9. UpdatesFit(k, s, <<>>)
    BY <1>1, <2>3 DEF UpdatesFit, Do, Loose
  <2>10. MomentFits(k, s) /\ StartsFit(k, s)
    BY <1>1, <2>3, SetMoment
  <2> QED
    BY <2>2, <2>5, <2>6, <2>7, <2>8, <2>9, <2>10 DEF Begins, LooksFit
<1>2. CASE k = "apart"
  <2>1. s = Get(x) \o Get(y)
    BY <1>2 DEF Script, Steps, Kinds
  <2>2. s \in Seq(Step) /\ Len(s) = 2
    BY <2>1, DoTypes, SMTT(60) DEF Guarded, With, Get, Put, Client, Glance, InPlace, Do, Words, Locking, Seeing, Writing
  <2>3. /\ DOMAIN s = 1 .. 2
        /\ s[1] = Do("get", x) /\ s[2] = Do("get", y)
    BY <2>1, <2>2, DoTypes, SMTT(60) DEF Guarded, With, Get, Put, Client, Glance, InPlace, Do, Words, Locking, Seeing, Writing
  <2>4. Marks(s) = {}
    BY <2>3 DEF Marks, Locking, Do
  <2>5. ShapeFits(s)
    BY <2>3, <2>4 DEF ShapeFits, Bare
  <2>6. (\A i \in DOMAIN s : s[i][1] # "look") /\ ChecksFit(s)
    BY <2>3 DEF ChecksFit, Do
  <2>7. Asks(k, s)
    BY <1>2, <2>3 DEF Asks, Do, Writing, Ending
  <2>8. CallFits(k, s)
    BY <1>2, <2>3, <2>4 DEF CallFits, GlancesFit, Bare, Only, Do, Seeing, Locking, Ending, Nesting, Loose, Brief
  <2>9. UpdatesFit(k, s, <<>>)
    BY <1>2, <2>3 DEF UpdatesFit, Do, Loose
  <2>10. MomentFits(k, s) /\ StartsFit(k, s)
    BY <1>2, <2>3, ApartMoment
  <2> QED
    BY <2>2, <2>5, <2>6, <2>7, <2>8, <2>9, <2>10 DEF Begins, LooksFit
<1>3. CASE k = "peek"
  <2>1. s = <<Do("read", x)>>
    BY <1>3 DEF Script, Steps, Kinds
  <2>2. s \in Seq(Step) /\ Len(s) = 1
    BY <2>1, DoTypes, SMTT(60) DEF Guarded, With, Get, Put, Client, Glance, InPlace, Do, Words, Locking, Seeing, Writing
  <2>3. /\ DOMAIN s = 1 .. 1
        /\ s[1] = Do("read", x)
    BY <2>1, <2>2, DoTypes, SMTT(60) DEF Guarded, With, Get, Put, Client, Glance, InPlace, Do, Words, Locking, Seeing, Writing
  <2>4. Marks(s) = {}
    BY <2>3 DEF Marks, Locking, Do
  <2>5. ShapeFits(s)
    BY <2>3, <2>4 DEF ShapeFits, Bare
  <2>6. (\A i \in DOMAIN s : s[i][1] # "look") /\ ChecksFit(s)
    BY <2>3 DEF ChecksFit, Do
  <2>7. Asks(k, s)
    BY <1>3, <2>3 DEF Asks, Do, Writing, Ending
  <2>8. CallFits(k, s)
    BY <1>3, <2>3, <2>4 DEF CallFits, GlancesFit, Bare, Only, Do, Seeing, Locking, Ending, Nesting, Loose, Brief
  <2>9. UpdatesFit(k, s, <<>>)
    BY <1>3, <2>3 DEF UpdatesFit, Do, Loose
  <2>10. MomentFits(k, s) /\ StartsFit(k, s)
    BY <1>3, <2>3, PeekMoment
  <2> QED
    BY <2>2, <2>5, <2>6, <2>7, <2>8, <2>9, <2>10 DEF Begins, LooksFit
<1>4. CASE k = "guardedSet"
  <2>1. s = Guarded(x, Put(x))
    BY <1>4 DEF Script, Steps, Kinds
  <2>2. s \in Seq(Step) /\ Len(s) = 2
    BY <2>1, DoTypes, SMTT(60) DEF Guarded, With, Get, Put, Client, Glance, InPlace, Do, Words, Locking, Seeing, Writing
  <2>3. /\ DOMAIN s = 1 .. 2
        /\ s[1] = Do("check", x) /\ s[2] = Do("put", x)
    BY <2>1, <2>2, DoTypes, SMTT(60) DEF Guarded, With, Get, Put, Client, Glance, InPlace, Do, Words, Locking, Seeing, Writing
  <2>4. Marks(s) = {}
    BY <2>3 DEF Marks, Locking, Do
  <2>5. ShapeFits(s)
    BY <2>3, <2>4 DEF ShapeFits, Bare
  <2>6. (\A i \in DOMAIN s : s[i][1] # "look") /\ ChecksFit(s)
    BY <2>3 DEF ChecksFit, Do
  <2>7. Asks(k, s)
    BY <1>4, <2>3 DEF Asks, Do, Writing, Ending
  <2>8. CallFits(k, s)
    BY <1>4, <2>3, <2>4 DEF CallFits, GlancesFit, Bare, Only, Do, Seeing, Locking, Ending, Nesting, Loose, Brief
  <2>9. UpdatesFit(k, s, <<>>)
    BY <1>4, <2>3 DEF UpdatesFit, Do, Loose
  <2>10. MomentFits(k, s) /\ StartsFit(k, s)
    BY <1>4, <2>3, GuardedSetMoment
  <2> QED
    BY <2>2, <2>5, <2>6, <2>7, <2>8, <2>9, <2>10 DEF Begins, LooksFit
<1>5. CASE k = "dispose"
  <2>1. s = Put(x)
    BY <1>5 DEF Script, Steps, Kinds
  <2>2. s \in Seq(Step) /\ Len(s) = 1
    BY <2>1, DoTypes, SMTT(60) DEF Guarded, With, Get, Put, Client, Glance, InPlace, Do, Words, Locking, Seeing, Writing
  <2>3. /\ DOMAIN s = 1 .. 1
        /\ s[1] = Do("put", x)
    BY <2>1, <2>2, DoTypes, SMTT(60) DEF Guarded, With, Get, Put, Client, Glance, InPlace, Do, Words, Locking, Seeing, Writing
  <2>4. Marks(s) = {}
    BY <2>3 DEF Marks, Locking, Do
  <2>5. ShapeFits(s)
    BY <2>3, <2>4 DEF ShapeFits, Bare
  <2>6. (\A i \in DOMAIN s : s[i][1] # "look") /\ ChecksFit(s)
    BY <2>3 DEF ChecksFit, Do
  <2>7. Asks(k, s)
    BY <1>5, <2>3 DEF Asks, Do, Writing, Ending
  <2>8. CallFits(k, s)
    BY <1>5, <2>3, <2>4 DEF CallFits, GlancesFit, Bare, Only, Do, Seeing, Locking, Ending, Nesting, Loose, Brief
  <2>9. UpdatesFit(k, s, <<>>)
    BY <1>5, <2>3 DEF UpdatesFit, Do, Loose
  <2>10. MomentFits(k, s) /\ StartsFit(k, s)
    BY <1>5, <2>3, DisposeMoment
  <2> QED
    BY <2>2, <2>5, <2>6, <2>7, <2>8, <2>9, <2>10 DEF Begins, LooksFit
<1>6. CASE k = "freeze"
  <2>1. s = <<Do("freeze", x)>>
    BY <1>6 DEF Script, Steps, Kinds
  <2>2. s \in Seq(Step) /\ Len(s) = 1
    BY <2>1, DoTypes, SMTT(60) DEF Guarded, With, Get, Put, Client, Glance, InPlace, Do, Words, Locking, Seeing, Writing
  <2>3. /\ DOMAIN s = 1 .. 1
        /\ s[1] = Do("freeze", x)
    BY <2>1, <2>2, DoTypes, SMTT(60) DEF Guarded, With, Get, Put, Client, Glance, InPlace, Do, Words, Locking, Seeing, Writing
  <2>4. Marks(s) = {}
    BY <2>3 DEF Marks, Locking, Do
  <2>5. ShapeFits(s)
    BY <2>3, <2>4 DEF ShapeFits, Bare
  <2>6. (\A i \in DOMAIN s : s[i][1] # "look") /\ ChecksFit(s)
    BY <2>3 DEF ChecksFit, Do
  <2>7. Asks(k, s)
    BY <1>6, <2>3 DEF Asks, Do, Writing, Ending
  <2>8. CallFits(k, s)
    BY <1>6, <2>3, <2>4 DEF CallFits, GlancesFit, Bare, Only, Do, Seeing, Locking, Ending, Nesting, Loose, Brief
  <2>9. UpdatesFit(k, s, <<>>)
    BY <1>6, <2>3 DEF UpdatesFit, Do, Loose
  <2>10. MomentFits(k, s) /\ StartsFit(k, s)
    BY <1>6, <2>3, FreezeMoment
  <2> QED
    BY <2>2, <2>5, <2>6, <2>7, <2>8, <2>9, <2>10 DEF Begins, LooksFit
<1>7. CASE k = "unfreeze"
  <2>1. s = <<Do("unfreeze", x)>>
    BY <1>7 DEF Script, Steps, Kinds
  <2>2. s \in Seq(Step) /\ Len(s) = 1
    BY <2>1, DoTypes, SMTT(60) DEF Guarded, With, Get, Put, Client, Glance, InPlace, Do, Words, Locking, Seeing, Writing
  <2>3. /\ DOMAIN s = 1 .. 1
        /\ s[1] = Do("unfreeze", x)
    BY <2>1, <2>2, DoTypes, SMTT(60) DEF Guarded, With, Get, Put, Client, Glance, InPlace, Do, Words, Locking, Seeing, Writing
  <2>4. Marks(s) = {}
    BY <2>3 DEF Marks, Locking, Do
  <2>5. ShapeFits(s)
    BY <2>3, <2>4 DEF ShapeFits, Bare
  <2>6. (\A i \in DOMAIN s : s[i][1] # "look") /\ ChecksFit(s)
    BY <2>3 DEF ChecksFit, Do
  <2>7. Asks(k, s)
    BY <1>7, <2>3 DEF Asks, Do, Writing, Ending
  <2>8. CallFits(k, s)
    BY <1>7, <2>3, <2>4 DEF CallFits, GlancesFit, Bare, Only, Do, Seeing, Locking, Ending, Nesting, Loose, Brief
  <2>9. UpdatesFit(k, s, <<>>)
    BY <1>7, <2>3 DEF UpdatesFit, Do, Loose
  <2>10. MomentFits(k, s) /\ StartsFit(k, s)
    BY <1>7, <2>3, UnfreezeMoment
  <2> QED
    BY <2>2, <2>5, <2>6, <2>7, <2>8, <2>9, <2>10 DEF Begins, LooksFit
<1>8. CASE k = "lookRead"
  <2>1. s = Glance(x)
    BY <1>8 DEF Script, Steps, Kinds
  <2>2. s \in Seq(Step) /\ Len(s) = 1
    BY <2>1, DoTypes, SMTT(60) DEF Guarded, With, Get, Put, Client, Glance, InPlace, Do, Words, Locking, Seeing, Writing
  <2>3. /\ DOMAIN s = 1 .. 1
        /\ s[1] = Do("glance", x)
    BY <2>1, <2>2, DoTypes, SMTT(60) DEF Guarded, With, Get, Put, Client, Glance, InPlace, Do, Words, Locking, Seeing, Writing
  <2>4. Marks(s) = {}
    BY <2>3 DEF Marks, Locking, Do
  <2>5. ShapeFits(s)
    BY <2>3, <2>4 DEF ShapeFits, Bare
  <2>6. (\A i \in DOMAIN s : s[i][1] # "look") /\ ChecksFit(s)
    BY <2>3 DEF ChecksFit, Do
  <2>7. Asks(k, s)
    BY <1>8, <2>3 DEF Asks, Do, Writing, Ending
  <2>8. CallFits(k, s)
    BY <1>8, <2>3, <2>4 DEF CallFits, GlancesFit, Bare, Only, Do, Seeing, Locking, Ending, Nesting, Loose, Brief
  <2>9. UpdatesFit(k, s, <<>>)
    BY <1>8, <2>3 DEF UpdatesFit, Do, Loose
  <2>10. MomentFits(k, s) /\ StartsFit(k, s)
    BY <1>8, <2>3, LookReadMoment
  <2> QED
    BY <2>2, <2>5, <2>6, <2>7, <2>8, <2>9, <2>10 DEF Begins, LooksFit
<1>9. CASE k = "lookApart"
  <2>1. s = Glance(x) \o Glance(y)
    BY <1>9 DEF Script, Steps, Kinds
  <2>2. s \in Seq(Step) /\ Len(s) = 2
    BY <2>1, DoTypes, SMTT(60) DEF Guarded, With, Get, Put, Client, Glance, InPlace, Do, Words, Locking, Seeing, Writing
  <2>3. /\ DOMAIN s = 1 .. 2
        /\ s[1] = Do("glance", x) /\ s[2] = Do("glance", y)
    BY <2>1, <2>2, DoTypes, SMTT(60) DEF Guarded, With, Get, Put, Client, Glance, InPlace, Do, Words, Locking, Seeing, Writing
  <2>4. Marks(s) = {}
    BY <2>3 DEF Marks, Locking, Do
  <2>5. ShapeFits(s)
    BY <2>3, <2>4 DEF ShapeFits, Bare
  <2>6. (\A i \in DOMAIN s : s[i][1] # "look") /\ ChecksFit(s)
    BY <2>3 DEF ChecksFit, Do
  <2>7. Asks(k, s)
    BY <1>9, <2>3 DEF Asks, Do, Writing, Ending
  <2>8. CallFits(k, s)
    BY <1>9, <2>3, <2>4 DEF CallFits, GlancesFit, Bare, Only, Do, Seeing, Locking, Ending, Nesting, Loose, Brief
  <2>9. UpdatesFit(k, s, <<>>)
    BY <1>9, <2>3 DEF UpdatesFit, Do, Loose
  <2>10. MomentFits(k, s) /\ StartsFit(k, s)
    BY <1>9, <2>3, LookApartMoment
  <2> QED
    BY <2>2, <2>5, <2>6, <2>7, <2>8, <2>9, <2>10 DEF Begins, LooksFit
<1> QED
  BY <1>1, <1>2, <1>3, <1>4, <1>5, <1>6, <1>7, <1>8, <1>9

LEMMA OneLockKinds ==
  ASSUME NEW x \in Objects, NEW y \in Objects,
         NEW k \in {"read", "update", "nestRead", "nestUpdate", "guardedUpdate",
                "guardedBulk", "guardedGather", "guardedClient", "rawUpdate", "session"},
         NEW s, s = Script[k][x][y]
  PROVE  Begins(k, s)
<1>1. CASE k = "read"
  <2>1. s = With(x, <<Do("read", x)>>)
    BY <1>1 DEF Script, Steps, Kinds
  <2>2. s \in Seq(Step) /\ Len(s) = 3
    BY <2>1, DoTypes, SMTT(60) DEF Guarded, With, Get, Put, Client, Glance, InPlace, Do, Words, Locking, Seeing, Writing
  <2>3. /\ DOMAIN s = 1 .. 3
        /\ s[1] = Do("lock", x) /\ s[2] = Do("read", x) /\ s[3] = Do("unlock", x)
    BY <2>1, <2>2, DoTypes, SMTT(60) DEF Guarded, With, Get, Put, Client, Glance, InPlace, Do, Words, Locking, Seeing, Writing
  <2>4. Marks(s) = {1, 3}
    BY <2>3 DEF Marks, Locking, Do
  <2>5. ShapeFits(s)
    BY <2>3, <2>4 DEF ShapeFits, LocksOne
  <2>6. (\A i \in DOMAIN s : s[i][1] # "look") /\ ChecksFit(s)
    BY <2>3 DEF ChecksFit, Do
  <2>7. Asks(k, s)
    BY <1>1, <2>3 DEF Asks, Do, Writing, Ending
  <2>8. CallFits(k, s)
    BY <1>1, <2>3, <2>4 DEF CallFits, GlancesFit, Bare, Only, Do, Seeing, Locking, Ending, Nesting, Loose, Brief
  <2>9. UpdatesFit(k, s, <<>>)
    BY <1>1, <2>3 DEF UpdatesFit, Do, Loose
  <2>10. MomentFits(k, s) /\ StartsFit(k, s)
    BY <1>1, <2>3, ReadMoment
  <2> QED
    BY <2>2, <2>5, <2>6, <2>7, <2>8, <2>9, <2>10 DEF Begins, LooksFit
<1>2. CASE k = "update"
  <2>1. s = With(x, <<Do("read", x), Do("update", x)>>)
    BY <1>2 DEF Script, Steps, Kinds
  <2>2. s \in Seq(Step) /\ Len(s) = 4
    BY <2>1, DoTypes, SMTT(60) DEF Guarded, With, Get, Put, Client, Glance, InPlace, Do, Words, Locking, Seeing, Writing
  <2>3. /\ DOMAIN s = 1 .. 4
        /\ s[1] = Do("lock", x) /\ s[2] = Do("read", x) /\ s[3] = Do("update", x) /\ s[4] = Do("unlock", x)
        /\ s[4] = Do("unlock", x)
    BY <2>1, <2>2, DoTypes, SMTT(60) DEF Guarded, With, Get, Put, Client, Glance, InPlace, Do, Words, Locking, Seeing, Writing
  <2>4. Marks(s) = {1, 4}
    BY <2>3 DEF Marks, Locking, Do
  <2>5. ShapeFits(s)
    BY <2>3, <2>4 DEF ShapeFits, LocksOne
  <2>6. (\A i \in DOMAIN s : s[i][1] # "look") /\ ChecksFit(s)
    BY <2>3 DEF ChecksFit, Do
  <2>7. Asks(k, s)
    BY <1>2, <2>3 DEF Asks, Do, Writing, Ending
  <2>8. CallFits(k, s)
    BY <1>2, <2>3, <2>4 DEF CallFits, GlancesFit, Bare, Only, Do, Seeing, Locking, Ending, Nesting, Loose, Brief
  <2>9. UpdatesFit(k, s, <<>>)
    BY <1>2, <2>3 DEF UpdatesFit, Do, Loose
  <2>10. MomentFits(k, s) /\ StartsFit(k, s)
    BY <1>2, <2>3, UpdateMoment
  <2> QED
    BY <2>2, <2>5, <2>6, <2>7, <2>8, <2>9, <2>10 DEF Begins, LooksFit
<1>3. CASE k = "nestRead"
  <2>1. s = With(x, <<Do("read", x)>> \o Get(y))
    BY <1>3 DEF Script, Steps, Kinds
  <2>2. s \in Seq(Step) /\ Len(s) = 4
    BY <2>1, DoTypes, SMTT(60) DEF Guarded, With, Get, Put, Client, Glance, InPlace, Do, Words, Locking, Seeing, Writing
  <2>3. /\ DOMAIN s = 1 .. 4
        /\ s[1] = Do("lock", x) /\ s[2] = Do("read", x) /\ s[3] = Do("get", y) /\ s[4] = Do("unlock", x)
        /\ s[4] = Do("unlock", x)
    BY <2>1, <2>2, DoTypes, SMTT(60) DEF Guarded, With, Get, Put, Client, Glance, InPlace, Do, Words, Locking, Seeing, Writing
  <2>4. Marks(s) = {1, 4}
    BY <2>3 DEF Marks, Locking, Do
  <2>5. ShapeFits(s)
    BY <2>3, <2>4 DEF ShapeFits, LocksOne
  <2>6. (\A i \in DOMAIN s : s[i][1] # "look") /\ ChecksFit(s)
    BY <2>3 DEF ChecksFit, Do
  <2>7. Asks(k, s)
    BY <1>3, <2>3 DEF Asks, Do, Writing, Ending
  <2>8. CallFits(k, s)
    BY <1>3, <2>3, <2>4 DEF CallFits, GlancesFit, Bare, Only, Do, Seeing, Locking, Ending, Nesting, Loose, Brief
  <2>9. UpdatesFit(k, s, <<>>)
    BY <1>3, <2>3 DEF UpdatesFit, Do, Loose
  <2>10. MomentFits(k, s) /\ StartsFit(k, s)
    BY <1>3, <2>3, NestReadMoment
  <2> QED
    BY <2>2, <2>5, <2>6, <2>7, <2>8, <2>9, <2>10 DEF Begins, LooksFit
<1>4. CASE k = "nestUpdate"
  <2>1. s = With(x, Client(x, y))
    BY <1>4 DEF Script, Steps, Kinds
  <2>2. s \in Seq(Step) /\ Len(s) = 5
    BY <2>1, DoTypes, SMTT(60) DEF Guarded, With, Get, Put, Client, Glance, InPlace, Do, Words, Locking, Seeing, Writing
  <2>3. /\ DOMAIN s = 1 .. 5
        /\ s[1] = Do("lock", x) /\ s[2] = Do("read", x) /\ s[3] = Do("get", y) /\ s[4] = Do("update", x)
        /\ s[4] = Do("update", x) /\ s[5] = Do("unlock", x)
    BY <2>1, <2>2, DoTypes, SMTT(60) DEF Guarded, With, Get, Put, Client, Glance, InPlace, Do, Words, Locking, Seeing, Writing
  <2>4. Marks(s) = {1, 5}
    BY <2>3 DEF Marks, Locking, Do
  <2>5. ShapeFits(s)
    BY <2>3, <2>4 DEF ShapeFits, LocksOne
  <2>6. (\A i \in DOMAIN s : s[i][1] # "look") /\ ChecksFit(s)
    BY <2>3 DEF ChecksFit, Do
  <2>7. Asks(k, s)
    BY <1>4, <2>3 DEF Asks, Do, Writing, Ending
  <2>8. CallFits(k, s)
    BY <1>4, <2>3, <2>4 DEF CallFits, GlancesFit, Bare, Only, Do, Seeing, Locking, Ending, Nesting, Loose, Brief
  <2>9. UpdatesFit(k, s, <<>>)
    BY <1>4, <2>3 DEF UpdatesFit, Do, Loose
  <2>10. MomentFits(k, s) /\ StartsFit(k, s)
    BY <1>4, <2>3, NestUpdateMoment
  <2> QED
    BY <2>2, <2>5, <2>6, <2>7, <2>8, <2>9, <2>10 DEF Begins, LooksFit
<1>5. CASE k = "guardedUpdate"
  <2>1. s = Guarded(x, With(x, <<Do("read", x), Do("update", x)>>))
    BY <1>5 DEF Script, Steps, Kinds
  <2>2. s \in Seq(Step) /\ Len(s) = 5
    BY <2>1, DoTypes, SMTT(60) DEF Guarded, With, Get, Put, Client, Glance, InPlace, Do, Words, Locking, Seeing, Writing
  <2>3. /\ DOMAIN s = 1 .. 5
        /\ s[1] = Do("check", x) /\ s[2] = Do("lock", x) /\ s[3] = Do("read", x) /\ s[4] = Do("update", x)
        /\ s[4] = Do("update", x) /\ s[5] = Do("unlock", x)
    BY <2>1, <2>2, DoTypes, SMTT(60) DEF Guarded, With, Get, Put, Client, Glance, InPlace, Do, Words, Locking, Seeing, Writing
  <2>4. Marks(s) = {2, 5}
    BY <2>3 DEF Marks, Locking, Do
  <2>5. ShapeFits(s)
    BY <2>3, <2>4 DEF ShapeFits, LocksOne
  <2>6. (\A i \in DOMAIN s : s[i][1] # "look") /\ ChecksFit(s)
    BY <2>3 DEF ChecksFit, Do
  <2>7. Asks(k, s)
    BY <1>5, <2>3 DEF Asks, Do, Writing, Ending
  <2>8. CallFits(k, s)
    BY <1>5, <2>3, <2>4 DEF CallFits, GlancesFit, Bare, Only, Do, Seeing, Locking, Ending, Nesting, Loose, Brief
  <2>9. UpdatesFit(k, s, <<>>)
    BY <1>5, <2>3 DEF UpdatesFit, Do, Loose
  <2>10. MomentFits(k, s) /\ StartsFit(k, s)
    BY <1>5, <2>3, GuardedUpdateMoment
  <2> QED
    BY <2>2, <2>5, <2>6, <2>7, <2>8, <2>9, <2>10 DEF Begins, LooksFit
<1>6. CASE k = "guardedBulk"
  <2>1. s = Guarded(x, With(x, Glance(y) \o InPlace(x)))
    BY <1>6 DEF Script, Steps, Kinds
  <2>2. s \in Seq(Step) /\ Len(s) = 6
    BY <2>1, DoTypes, SMTT(60) DEF Guarded, With, Get, Put, Client, Glance, InPlace, Do, Words, Locking, Seeing, Writing
  <2>3. /\ DOMAIN s = 1 .. 6
        /\ s[1] = Do("check", x) /\ s[2] = Do("lock", x) /\ s[3] = Do("glance", y)
        /\ s[4] = Do("half", x) /\ s[5] = Do("fill", x) /\ s[6] = Do("unlock", x)
    BY <2>1, <2>2, DoTypes, SMTT(60) DEF Guarded, With, Get, Put, Client, Glance, InPlace, Do, Words, Locking, Seeing, Writing
  <2>4. Marks(s) = {2, 6}
    BY <2>3 DEF Marks, Locking, Do
  <2>5. ShapeFits(s)
    BY <2>3, <2>4 DEF ShapeFits, LocksOne
  <2>6. (\A i \in DOMAIN s : s[i][1] # "look") /\ ChecksFit(s)
    BY <2>3 DEF ChecksFit, Do
  <2>7. Asks(k, s)
    BY <1>6, <2>3 DEF Asks, Do, Writing, Ending
  <2>8. CallFits(k, s)
    BY <1>6, <2>3, <2>4 DEF CallFits, GlancesFit, Bare, Only, Do, Seeing, Locking, Ending, Nesting, Loose, Brief
  <2>9. UpdatesFit(k, s, <<>>)
    BY <1>6, <2>3 DEF UpdatesFit, Do, Loose
  <2>10. MomentFits(k, s) /\ StartsFit(k, s)
    BY <1>6, <2>3, GuardedBulkMoment
  <2> QED
    BY <2>2, <2>5, <2>6, <2>7, <2>8, <2>9, <2>10 DEF Begins, LooksFit
<1>7. CASE k = "guardedGather"
  <2>1. s = Guarded(x, With(x, Glance(y) \o <<Do("half", x)>> \o Glance(y) \o <<Do("fill", x)>>))
    BY <1>7 DEF Script, Steps, Kinds
  <2>2. s \in Seq(Step) /\ Len(s) = 7
    BY <2>1, DoTypes, SMTT(60) DEF Guarded, With, Get, Put, Client, Glance, InPlace, Do, Words, Locking, Seeing, Writing
  <2>3. /\ DOMAIN s = 1 .. 7
        /\ s[1] = Do("check", x) /\ s[2] = Do("lock", x) /\ s[3] = Do("glance", y)
        /\ s[4] = Do("half", x) /\ s[5] = Do("glance", y) /\ s[6] = Do("fill", x)
        /\ s[7] = Do("unlock", x)
    BY <2>1, <2>2, DoTypes, SMTT(60) DEF Guarded, With, Get, Put, Client, Glance, InPlace, Do, Words, Locking, Seeing, Writing
  <2>4. Marks(s) = {2, 7}
    BY <2>3 DEF Marks, Locking, Do
  <2>5. ShapeFits(s)
    BY <2>3, <2>4 DEF ShapeFits, LocksOne
  <2>6. (\A i \in DOMAIN s : s[i][1] # "look") /\ ChecksFit(s)
    BY <2>3 DEF ChecksFit, Do
  <2>7. Asks(k, s)
    BY <1>7, <2>3 DEF Asks, Do, Writing, Ending
  <2>8. CallFits(k, s)
    BY <1>7, <2>3, <2>4 DEF CallFits, GlancesFit, Bare, Only, Do, Seeing, Locking, Ending, Nesting, Loose, Brief
  <2>9. UpdatesFit(k, s, <<>>)
    BY <1>7, <2>3 DEF UpdatesFit, Do, Loose
  <2>10. MomentFits(k, s) /\ StartsFit(k, s)
    BY <1>7, <2>3, GuardedGatherMoment
  <2> QED
    BY <2>2, <2>5, <2>6, <2>7, <2>8, <2>9, <2>10 DEF Begins, LooksFit
<1>8. CASE k = "guardedClient"
  <2>1. s = Guarded(x, With(x, <<Do("read", x)>> \o Glance(y) \o InPlace(x)))
    BY <1>8 DEF Script, Steps, Kinds
  <2>2. s \in Seq(Step) /\ Len(s) = 7
    BY <2>1, DoTypes, SMTT(60) DEF Guarded, With, Get, Put, Client, Glance, InPlace, Do, Words, Locking, Seeing, Writing
  <2>3. /\ DOMAIN s = 1 .. 7
        /\ s[1] = Do("check", x) /\ s[2] = Do("lock", x) /\ s[3] = Do("read", x) /\ s[4] = Do("glance", y)
        /\ s[5] = Do("half", x) /\ s[6] = Do("fill", x) /\ s[7] = Do("unlock", x)
    BY <2>1, <2>2, DoTypes, SMTT(60) DEF Guarded, With, Get, Put, Client, Glance, InPlace, Do, Words, Locking, Seeing, Writing
  <2>4. Marks(s) = {2, 7}
    BY <2>3 DEF Marks, Locking, Do
  <2>5. ShapeFits(s)
    BY <2>3, <2>4 DEF ShapeFits, LocksOne
  <2>6. (\A i \in DOMAIN s : s[i][1] # "look") /\ ChecksFit(s)
    BY <2>3 DEF ChecksFit, Do
  <2>7. Asks(k, s)
    BY <1>8, <2>3 DEF Asks, Do, Writing, Ending
  <2>8. CallFits(k, s)
    BY <1>8, <2>3, <2>4 DEF CallFits, GlancesFit, Bare, Only, Do, Seeing, Locking, Ending, Nesting, Loose, Brief
  <2>9. UpdatesFit(k, s, <<>>)
    BY <1>8, <2>3 DEF UpdatesFit, Do, Loose
  <2>10. MomentFits(k, s) /\ StartsFit(k, s)
    BY <1>8, <2>3, GuardedClientMoment
  <2> QED
    BY <2>2, <2>5, <2>6, <2>7, <2>8, <2>9, <2>10 DEF Begins, LooksFit
<1>9. CASE k = "rawUpdate"
  <2>1. s = With(x, <<Do("read", y), Do("half", x), Do("read", y), Do("fill", x)>>)
    BY <1>9 DEF Script, Steps, Kinds
  <2>2. s \in Seq(Step) /\ Len(s) = 6
    BY <2>1, DoTypes, SMTT(60) DEF Guarded, With, Get, Put, Client, Glance, InPlace, Do, Words, Locking, Seeing, Writing
  <2>3. /\ DOMAIN s = 1 .. 6
        /\ s[1] = Do("lock", x) /\ s[2] = Do("read", y) /\ s[3] = Do("half", x) /\ s[4] = Do("read", y)
        /\ s[4] = Do("read", y) /\ s[5] = Do("fill", x) /\ s[6] = Do("unlock", x)
    BY <2>1, <2>2, DoTypes, SMTT(60) DEF Guarded, With, Get, Put, Client, Glance, InPlace, Do, Words, Locking, Seeing, Writing
  <2>4. Marks(s) = {1, 6}
    BY <2>3 DEF Marks, Locking, Do
  <2>5. ShapeFits(s)
    BY <2>3, <2>4 DEF ShapeFits, LocksOne
  <2>6. (\A i \in DOMAIN s : s[i][1] # "look") /\ ChecksFit(s)
    BY <2>3 DEF ChecksFit, Do
  <2>7. Asks(k, s)
    BY <1>9, <2>3 DEF Asks, Do, Writing, Ending
  <2>8. CallFits(k, s)
    BY <1>9, <2>3, <2>4 DEF CallFits, GlancesFit, Bare, Only, Do, Seeing, Locking, Ending, Nesting, Loose, Brief
  <2>9. UpdatesFit(k, s, <<>>)
    BY <1>9, <2>3 DEF UpdatesFit, Do, Loose
  <2>10. MomentFits(k, s) /\ StartsFit(k, s)
    BY <1>9, <2>3, RawUpdateMoment
  <2> QED
    BY <2>2, <2>5, <2>6, <2>7, <2>8, <2>9, <2>10 DEF Begins, LooksFit
<1>10. CASE k = "session"
  <2>1. s = With(x, <<Do("read", x)>> \o Glance(y)) \o Put(x)
    BY <1>10 DEF Script, Steps, Kinds
  <2>2. s \in Seq(Step) /\ Len(s) = 5
    BY <2>1, DoTypes, SMTT(60) DEF Guarded, With, Get, Put, Client, Glance, InPlace, Do, Words, Locking, Seeing, Writing
  <2>3. /\ DOMAIN s = 1 .. 5
        /\ s[1] = Do("lock", x) /\ s[2] = Do("read", x) /\ s[3] = Do("glance", y) /\ s[4] = Do("unlock", x)
        /\ s[4] = Do("unlock", x) /\ s[5] = Do("put", x)
    BY <2>1, <2>2, DoTypes, SMTT(60) DEF Guarded, With, Get, Put, Client, Glance, InPlace, Do, Words, Locking, Seeing, Writing
  <2>4. Marks(s) = {1, 4}
    BY <2>3 DEF Marks, Locking, Do
  <2>5. ShapeFits(s)
    BY <2>3, <2>4 DEF ShapeFits, LocksOne
  <2>6. (\A i \in DOMAIN s : s[i][1] # "look") /\ ChecksFit(s)
    BY <2>3 DEF ChecksFit, Do
  <2>7. Asks(k, s)
    BY <1>10, <2>3 DEF Asks, Do, Writing, Ending
  <2>8. CallFits(k, s)
    BY <1>10, <2>3, <2>4 DEF CallFits, GlancesFit, Bare, Only, Do, Seeing, Locking, Ending, Nesting, Loose, Brief
  <2>9. UpdatesFit(k, s, <<>>)
    BY <1>10, <2>3 DEF UpdatesFit, Do, Loose
  <2>10. MomentFits(k, s) /\ StartsFit(k, s)
    BY <1>10, <2>3, SessionMoment
  <2> QED
    BY <2>2, <2>5, <2>6, <2>7, <2>8, <2>9, <2>10 DEF Begins, LooksFit
<1> QED
  BY <1>1, <1>2, <1>3, <1>4, <1>5, <1>6, <1>7, <1>8, <1>9, <1>10

LEMMA TwoLockKinds ==
  ASSUME NEW x \in Objects, NEW y \in Objects, NEW k \in {"pairRead", "pairUpdate"},
         NEW s, s = Script[k][x][y]
  PROVE  Begins(k, s)
<1>1. CASE k = "pairRead"
  <2>1. s = WithBoth(x, y, <<Do("read", x), Do("read", y)>>)
    BY <1>1 DEF Script, Steps, Kinds
  <2>2. PICK a, b \in Objects : a <= b /\ x \in {a, b} /\ y \in {a, b}
          /\ s = With(a, With(b, <<Do("read", x), Do("read", y)>>))
    BY <2>1, LockedObjectsAssumption DEF WithBoth
  <2>3. s \in Seq(Step) /\ Len(s) = 6
    BY <2>2, DoTypes, SMTT(60) DEF Guarded, With, Get, Put, Client, Glance, InPlace, Do, Words, Locking, Seeing, Writing
  <2>4. /\ DOMAIN s = 1 .. 6
        /\ s[1] = Do("lock", a) /\ s[2] = Do("lock", b) /\ s[3] = Do("read", x)
        /\ s[4] = Do("read", y) /\ s[5] = Do("unlock", b) /\ s[6] = Do("unlock", a)
    BY <2>2, <2>3, DoTypes, SMTT(60) DEF Guarded, With, Get, Put, Client, Glance, InPlace, Do, Words, Locking, Seeing, Writing
  <2>5. Marks(s) = {1, 2, 5, 6}
    BY <2>4 DEF Marks, Locking, Do
  <2>6. LocksTwo(s, a, b)
    BY <2>4, <2>5 DEF LocksTwo
  <2>7. (\A i \in DOMAIN s : s[i][1] # "look") /\ ChecksFit(s)
    BY <2>4 DEF ChecksFit, Do
  <2>8. Asks(k, s)
    BY <1>1, <2>4 DEF Asks, Do, Writing, Ending
  <2>9. CallFits(k, s)
    BY <1>1, <2>4 DEF CallFits, GlancesFit, Do, Seeing, Locking, Ending, Nesting, Brief
  <2>10. UpdatesFit(k, s, <<>>)
    BY <1>1, <2>4 DEF UpdatesFit, Do, Loose
  <2>11. x \in {a, b} /\ y \in {a, b}
    BY <2>2, Zenon
  <2>12. MomentFits(k, s) /\ StartsFit(k, s)
    BY <1>1, <2>4, <2>11, PairReadMoment
  <2> QED
    BY <2>2, <2>3, <2>6, <2>7, <2>8, <2>9, <2>10, <2>12 DEF Begins, LooksFit, ShapeFits
<1>2. CASE k = "pairUpdate"
  <2>1. s = WithBoth(x, y, <<Do("read", y), Do("read", x), Do("update", x)>>)
    BY <1>2 DEF Script, Steps, Kinds
  <2>2. PICK a, b \in Objects : a <= b /\ x \in {a, b} /\ y \in {a, b}
          /\ s = With(a, With(b, <<Do("read", y), Do("read", x), Do("update", x)>>))
    BY <2>1, LockedObjectsAssumption DEF WithBoth
  <2>3. s \in Seq(Step) /\ Len(s) = 7
    BY <2>2, DoTypes, SMTT(60) DEF Guarded, With, Get, Put, Client, Glance, InPlace, Do, Words, Locking, Seeing, Writing
  <2>4. /\ DOMAIN s = 1 .. 7
        /\ s[1] = Do("lock", a) /\ s[2] = Do("lock", b) /\ s[3] = Do("read", y)
        /\ s[4] = Do("read", x) /\ s[5] = Do("update", x) /\ s[6] = Do("unlock", b)
        /\ s[7] = Do("unlock", a)
    BY <2>2, <2>3, DoTypes, SMTT(60) DEF Guarded, With, Get, Put, Client, Glance, InPlace, Do, Words, Locking, Seeing, Writing
  <2>5. Marks(s) = {1, 2, 6, 7}
    BY <2>4 DEF Marks, Locking, Do
  <2>6. LocksTwo(s, a, b)
    BY <2>4, <2>5 DEF LocksTwo
  <2>7. (\A i \in DOMAIN s : s[i][1] # "look") /\ ChecksFit(s)
    BY <2>4 DEF ChecksFit, Do
  <2>8. Asks(k, s)
    BY <1>2, <2>4 DEF Asks, Do, Writing, Ending
  <2>9. CallFits(k, s)
    BY <1>2, <2>4 DEF CallFits, GlancesFit, Do, Seeing, Locking, Ending, Nesting, Brief
  <2>10. UpdatesFit(k, s, <<>>)
    BY <1>2, <2>4 DEF UpdatesFit, Do, Loose
  <2>11. x \in {a, b} /\ y \in {a, b}
    BY <2>2, Zenon
  <2>12. MomentFits(k, s) /\ StartsFit(k, s)
    BY <1>2, <2>4, <2>11, PairUpdateMoment
  <2> QED
    BY <2>2, <2>3, <2>6, <2>7, <2>8, <2>9, <2>10, <2>12 DEF Begins, LooksFit, ShapeFits
<1> QED
  BY <1>1, <1>2

\* A look is a step, and is no step of another kind.
LEMMA LookTypes ==
  ASSUME NEW o \in Objects, NEW a \in Seq(Plain), NEW b \in Seq(Plain), NEW e,
         e = <<"look", o, a, b>>
  PROVE  e \in Step /\ e[1] = "look" /\ e[3] = a /\ e[4] = b
BY DEF Step

\* The call that first looks.
LEMMA LookKind ==
  ASSUME NEW x \in Objects, NEW y \in Objects, NEW s, s = Script["lookNest"][x][y]
  PROVE  Begins("lookNest", s)
<1> DEFINE body == <<Do("read", x)>> \o Glance(y)
           locked == With(x, body)
<1>1. s = <<<<"look", x, body, locked>>>>
  BY DEF Script, Steps, Kinds, Look
<1>2. /\ body \in Seq(Plain) /\ Len(body) = 2
      /\ body[1] = Do("read", x) /\ body[2] = Do("glance", y)
  BY DoTypes, SMTT(60) DEF Glance, Do, Words, Seeing
<1>3. Only(body, Seeing)
  BY <1>2 DEF Only, Seeing, Do
<1>4. locked \in Seq(Plain) /\ Len(locked) = 4
  BY DoTypes, SMTT(60) DEF With, Glance, Do, Words, Seeing, Locking
<1>5. /\ DOMAIN locked = 1 .. 4
      /\ locked[1] = Do("lock", x) /\ locked[2] = Do("read", x)
      /\ locked[3] = Do("glance", y) /\ locked[4] = Do("unlock", x)
  BY <1>4, DoTypes, SMTT(60) DEF With, Glance, Do, Words, Seeing, Locking
<1> HIDE DEF locked, body
<1>6. Only(locked, Seeing \union Locking) /\ Marks(locked) = {1, 4}
  BY <1>5 DEF Only, Marks, Seeing, Locking, Do
<1>7. LocksOne(locked, x) /\ GlancesFit("lookNest", locked)
  BY <1>5, <1>6 DEF LocksOne, GlancesFit, Nesting, Brief, Do
<1>8. <<"look", x, body, locked>> \in Step
  BY <1>2, <1>4, LookTypes
<1>9. /\ s \in Seq(Step) /\ Len(s) = 1 /\ s[1] = <<"look", x, body, locked>>
      /\ DOMAIN s = {1} /\ s[1][1] = "look" /\ s[1][3] = body /\ s[1][4] = locked
  BY <1>1, <1>8
<1>10. At(body, Sights) # {} /\ At(locked, Sights) # {}
  BY <1>2, <1>5 DEF At, Sights, Seeing, Do
<1>11. /\ At(locked, Late) = {3, 4} /\ At(locked, Sights) = {2, 3}
       /\ At(locked, {"read"}) = {2} /\ At(locked, {"lock"}) = {1}
       /\ At(locked, {"unlock"}) = {4}
  BY <1>5 DEF At, Late, Final, Sights, Seeing, Do
<1>12. BranchFits("lookNest", s[1])
  BY <1>5, <1>9, <1>10, <1>11 DEF BranchFits, InOrder, Within, Before, Do
<1>13. LooksFit("lookNest", s)
  BY <1>3, <1>6, <1>7, <1>9 DEF LooksFit
<1>14. Marks(s) = {} /\ ShapeFits(s)
  BY <1>9 DEF Marks, Locking, ShapeFits, Bare
<1>15. ChecksFit(s) /\ UpdatesFit("lookNest", s, <<>>) /\ Asks("lookNest", s)
  BY <1>9 DEF ChecksFit, UpdatesFit, Asks, Writing
<1>16. CallFits("lookNest", s)
  BY <1>9, <1>14 DEF CallFits, GlancesFit, Bare, Ending
<1>17. \A words : "look" \notin words => At(s, words) = {}
  BY <1>9 DEF At
<1>18. WritesFit(s) /\ KeepsFit("lookNest", s)
  BY <1>9, <1>17 DEF WritesFit, KeepsFit, InOrder, At, Final
<1>19. MomentFits("lookNest", s) /\ StartsFit("lookNest", s)
  BY <1>9, <1>12, <1>17, <1>18 DEF MomentFits, BranchesFit, StartsFit, Guarding, At
<1> QED
  BY <1>9, <1>13, <1>14, <1>15, <1>16, <1>19 DEF Begins

\* Every call a client can make begins like this.
LEMMA ScriptBegins ==
  ASSUME NEW k \in Kinds, NEW x \in Objects, NEW y \in Objects
  PROVE  Begins(k, Script[k][x][y])
BY BareKinds, OneLockKinds, TwoLockKinds, LookKind DEF Kinds

-----------------------------------------------------------------------------
(* One step is taken from the steps to come.                               *)

LEMMA TailSteps ==
  ASSUME NEW s \in Seq(Step), s # <<>>, NEW r, r = Tail(s)
  PROVE  /\ r \in Seq(Step)
         /\ 1 \in DOMAIN s /\ Head(s) = s[1] /\ s[1] \in Step
         /\ \A i \in DOMAIN r : i \in Nat \ {0} /\ i + 1 \in DOMAIN s /\ r[i] = s[i + 1]
         /\ \A i \in DOMAIN s \ {1} : i - 1 \in DOMAIN r /\ s[i] = r[i - 1]
         /\ \A i \in DOMAIN s : i \in Nat \ {0}
         /\ Len(r) = Len(s) - 1
BY HeadTailProperties

LEMMA TailMarks ==
  ASSUME NEW s \in Seq(Step), s # <<>>, NEW r, r = Tail(s)
  PROVE  /\ Marks(s) \subseteq DOMAIN s
         /\ \A i \in Marks(r) : i + 1 \in Marks(s)
         /\ \A i \in Marks(s) \ {1} : i - 1 \in Marks(r)
         /\ 1 \in Marks(s) <=> s[1][1] \in Locking
<1>1. /\ 1 \in DOMAIN s
      /\ \A i \in DOMAIN r : i \in Nat \ {0} /\ i + 1 \in DOMAIN s /\ r[i] = s[i + 1]
      /\ \A i \in DOMAIN s \ {1} : i - 1 \in DOMAIN r /\ s[i] = r[i - 1]
  BY TailSteps
<1> QED
  BY <1>1 DEF Marks

\* What is left still fits the call.
LEMMA TailFits ==
  ASSUME NEW call, NEW s \in Seq(Step), s # <<>>, NEW r, r = Tail(s),
         LooksFit(call, s), CallFits(call, s), ChecksFit(s)
  PROVE  LooksFit(call, r) /\ CallFits(call, r) /\ ChecksFit(r)
<1>1. /\ 1 \in DOMAIN s /\ Len(r) = Len(s) - 1 /\ Len(r) \in Nat
      /\ \A i \in DOMAIN r : i \in Nat \ {0} /\ i + 1 \in DOMAIN s /\ r[i] = s[i + 1]
  BY TailSteps
<1>2. Bare(s) => Bare(r)
  BY TailMarks DEF Bare
<1>3. ASSUME NEW words, Only(s, words) PROVE Only(r, words)
  BY <1>1, <1>3 DEF Only
<1>4. LooksFit(call, r)
  BY <1>1 DEF LooksFit
<1>7. GlancesFit(call, r)
  <2> SUFFICES ASSUME NEW i \in DOMAIN r, r[i][1] = "glance"
               PROVE  /\ call \in Nesting \/ Bare(r)
                      /\ \A k \in DOMAIN r : r[k][1] \notin {"update", "freeze"}
                      /\ call # "dispose"
                      /\ \/ call \in Loose
                         \/ \A k \in DOMAIN r : r[k][1] \in Brief \union {"glance"} => k = i
    BY DEF GlancesFit
  <2>1. /\ call \in Nesting \/ Bare(s)
        /\ \A k \in DOMAIN s : s[k][1] \notin {"update", "freeze"} /\ call # "dispose"
        /\ call \in Loose
             \/ \A k \in DOMAIN s : s[k][1] \in Brief \union {"glance"} => k = i + 1
    BY <1>1 DEF CallFits, GlancesFit
  <2>2. call \in Loose \/ \A k \in DOMAIN r : r[k][1] \in Brief \union {"glance"} => k = i
    BY <1>1, <2>1
  <2> QED
    BY <1>1, <1>2, <2>1, <2>2
<1>5. CallFits(call, r)
  BY <1>1, <1>2, <1>3, <1>7 DEF CallFits
<1>6. ChecksFit(r)
  BY <1>1 DEF ChecksFit
<1> QED
  BY <1>4, <1>5, <1>6

\* A read adds to what the call has seen, other steps leave it alone.
LEMMA TailUpdates ==
  ASSUME NEW call, NEW s \in Seq(Step), s # <<>>, NEW r, r = Tail(s), NEW v, NEW w,
         UpdatesFit(call, s, v),
         call \in Loose \/ DOMAIN v \subseteq DOMAIN w,
         call \in Loose \/ s[1][1] # "read" \/ s[1][2] \in DOMAIN w
  PROVE  UpdatesFit(call, r, w)
<1>1. /\ \A i \in DOMAIN r : i \in Nat \ {0} /\ i + 1 \in DOMAIN s /\ r[i] = s[i + 1]
      /\ \A i \in DOMAIN s \ {1} : i - 1 \in DOMAIN r /\ s[i] = r[i - 1]
      /\ \A i \in DOMAIN s : i \in Nat \ {0}
  BY TailSteps
<1> SUFFICES ASSUME NEW i \in DOMAIN r, r[i][1] = "update"
             PROVE  /\ call \notin Loose
                    /\ \/ r[i][2] \in DOMAIN w
                       \/ \E k \in DOMAIN r : k < i /\ r[k] = Do("read", r[i][2])
  BY DEF UpdatesFit
<1>0. call \notin Loose
  BY <1>1 DEF UpdatesFit
<1>2. CASE s[i + 1][2] \in DOMAIN v
  <2>1. r[i][2] = s[i + 1][2]
    BY <1>1
  <2>2. DOMAIN v \subseteq DOMAIN w
    BY <1>0
  <2> QED
    BY <1>0, <1>2, <2>1, <2>2
<1>3. ASSUME NEW k \in DOMAIN s, k < i + 1, s[k] = Do("read", s[i + 1][2])
      PROVE  \/ r[i][2] \in DOMAIN w
             \/ \E l \in DOMAIN r : l < i /\ r[l] = Do("read", r[i][2])
  <2>1. CASE k = 1
    BY <1>0, <1>1, <1>3, <2>1 DEF Do
  <2>2. CASE k # 1
    <3>1. k - 1 \in DOMAIN r /\ r[k - 1] = s[k] /\ k \in Nat /\ i \in Nat
      BY <1>1, <2>2
    <3>2. k - 1 < i /\ r[k - 1] = Do("read", r[i][2])
      BY <1>1, <1>3, <3>1
    <3> QED
      BY <3>1, <3>2
  <2> QED
    BY <2>1, <2>2
<1> QED
  BY <1>0, <1>1, <1>2, <1>3 DEF UpdatesFit

LEMMA MarksMove ==
  ASSUME NEW s \in Seq(Step), s # <<>>, NEW r, r = Tail(s)
  PROVE  Marks(r) = {i - 1 : i \in Marks(s) \ {1}}
<1>1. /\ \A i \in Marks(r) : i + 1 \in Marks(s)
      /\ \A i \in Marks(s) \ {1} : i - 1 \in Marks(r)
  BY TailMarks
<1>2. /\ \A i \in Marks(r) : i \in Nat \ {0}
      /\ \A i \in Marks(s) : i \in Nat \ {0}
  BY TailSteps DEF Marks
<1>3. ASSUME NEW i \in Marks(r) PROVE i \in {k - 1 : k \in Marks(s) \ {1}}
  <2>1. i + 1 \in Marks(s) \ {1} /\ i = (i + 1) - 1
    BY <1>1, <1>2
  <2> QED
    BY <2>1
<1> QED
  BY <1>1, <1>3

\* A step that is not about a lock leaves the locks to come as they are.
LEMMA TailShape ==
  ASSUME NEW s \in Seq(Step), s # <<>>, s[1][1] \notin Locking, NEW r, r = Tail(s)
  PROVE  /\ Bare(s) => Bare(r)
         /\ \A x \in Objects : LocksOne(s, x) => LocksOne(r, x)
         /\ \A x \in Objects : InOne(s, x) => InOne(r, x)
         /\ \A x, y \in Objects : LocksTwo(s, x, y) => LocksTwo(r, x, y)
         /\ \A x, y \in Objects : InFirst(s, x, y) => InFirst(r, x, y)
         /\ \A x, y \in Objects : InBoth(s, x, y) => InBoth(r, x, y)
<1>1. /\ \A i \in DOMAIN s \ {1} : i - 1 \in DOMAIN r /\ r[i - 1] = s[i]
      /\ \A i \in DOMAIN s : i \in Nat \ {0}
  BY TailSteps
<1>2. Marks(r) = {i - 1 : i \in Marks(s)} /\ 1 \notin Marks(s)
  <2>1. 1 \notin Marks(s)
    BY TailMarks
  <2>2. Marks(s) \ {1} = Marks(s)
    BY <2>1
  <2> QED
    BY <2>1, <2>2, MarksMove
<1>3. Bare(s) => Bare(r)
  BY <1>2 DEF Bare
<1>4. ASSUME NEW x \in Objects, LocksOne(s, x) PROVE LocksOne(r, x)
  <2>1. PICK i, j \in DOMAIN s : /\ i < j /\ Marks(s) = {i, j}
                                 /\ s[i] = Do("lock", x) /\ s[j] = Do("unlock", x)
    BY <1>4 DEF LocksOne
  <2>2. i # 1 /\ j # 1 /\ Marks(r) = {i - 1, j - 1}
    BY <1>2, <2>1
  <2>3. i - 1 \in DOMAIN r /\ j - 1 \in DOMAIN r /\ i - 1 < j - 1
    BY <1>1, <2>1, <2>2
  <2> QED
    BY <1>1, <2>1, <2>2, <2>3 DEF LocksOne
<1>5. ASSUME NEW x \in Objects, InOne(s, x) PROVE InOne(r, x)
  <2>1. PICK i \in DOMAIN s : Marks(s) = {i} /\ s[i] = Do("unlock", x)
    BY <1>5 DEF InOne
  <2>2. i # 1 /\ Marks(r) = {i - 1}
    BY <1>2, <2>1
  <2> QED
    BY <1>1, <2>1, <2>2 DEF InOne
<1>6. ASSUME NEW x \in Objects, NEW y \in Objects, LocksTwo(s, x, y) PROVE LocksTwo(r, x, y)
  <2>1. PICK i, j, k, l \in DOMAIN s :
          /\ i < j /\ j < k /\ k < l /\ Marks(s) = {i, j, k, l}
          /\ s[i] = Do("lock", x) /\ s[j] = Do("lock", y)
          /\ s[k] = Do("unlock", y) /\ s[l] = Do("unlock", x)
    BY <1>6 DEF LocksTwo
  <2>2. i # 1 /\ j # 1 /\ k # 1 /\ l # 1 /\ Marks(r) = {i - 1, j - 1, k - 1, l - 1}
    BY <1>2, <2>1
  <2>3. i - 1 < j - 1 /\ j - 1 < k - 1 /\ k - 1 < l - 1
    BY <1>1, <2>1
  <2>4. i - 1 \in DOMAIN r /\ j - 1 \in DOMAIN r /\ k - 1 \in DOMAIN r /\ l - 1 \in DOMAIN r
    BY <1>1, <2>1, <2>2
  <2>5. /\ r[i - 1] = Do("lock", x) /\ r[j - 1] = Do("lock", y)
        /\ r[k - 1] = Do("unlock", y) /\ r[l - 1] = Do("unlock", x)
    BY <1>1, <2>1, <2>2
  <2>6. PICK a, b, c, d \in DOMAIN r : a = i - 1 /\ b = j - 1 /\ c = k - 1 /\ d = l - 1
    BY <2>4
  <2>7. a < b /\ b < c /\ c < d /\ Marks(r) = {a, b, c, d}
    BY <2>2, <2>3, <2>6
  <2>8. /\ r[a] = Do("lock", x) /\ r[b] = Do("lock", y)
        /\ r[c] = Do("unlock", y) /\ r[d] = Do("unlock", x)
    BY <2>5, <2>6
  <2> QED
    BY <2>7, <2>8, Zenon DEF LocksTwo
<1>7. ASSUME NEW x \in Objects, NEW y \in Objects, InFirst(s, x, y) PROVE InFirst(r, x, y)
  <2>1. PICK i, j, k \in DOMAIN s :
          /\ i < j /\ j < k /\ Marks(s) = {i, j, k}
          /\ s[i] = Do("lock", y) /\ s[j] = Do("unlock", y) /\ s[k] = Do("unlock", x)
    BY <1>7 DEF InFirst
  <2>2. i # 1 /\ j # 1 /\ k # 1 /\ Marks(r) = {i - 1, j - 1, k - 1}
    BY <1>2, <2>1
  <2>3. i - 1 < j - 1 /\ j - 1 < k - 1
    BY <1>1, <2>1
  <2>8. i - 1 \in DOMAIN r /\ j - 1 \in DOMAIN r /\ k - 1 \in DOMAIN r
    BY <1>1, <2>1, <2>2
  <2>4. /\ r[i - 1] = Do("lock", y) /\ r[j - 1] = Do("unlock", y)
        /\ r[k - 1] = Do("unlock", x)
    BY <1>1, <2>1, <2>2
  <2>5. PICK a, b, c \in DOMAIN r : a = i - 1 /\ b = j - 1 /\ c = k - 1
    BY <2>8
  <2>6. a < b /\ b < c /\ Marks(r) = {a, b, c}
    BY <2>2, <2>3, <2>5
  <2>7. r[a] = Do("lock", y) /\ r[b] = Do("unlock", y) /\ r[c] = Do("unlock", x)
    BY <2>4, <2>5
  <2> QED
    BY <2>6, <2>7, Zenon DEF InFirst
<1>8. ASSUME NEW x \in Objects, NEW y \in Objects, InBoth(s, x, y) PROVE InBoth(r, x, y)
  <2>1. PICK i, j \in DOMAIN s : /\ i < j /\ Marks(s) = {i, j}
                                 /\ s[i] = Do("unlock", y) /\ s[j] = Do("unlock", x)
    BY <1>8 DEF InBoth
  <2>2. i # 1 /\ j # 1 /\ Marks(r) = {i - 1, j - 1}
    BY <1>2, <2>1
  <2>3. i - 1 < j - 1 /\ {i - 1, j - 1} \subseteq DOMAIN r
    BY <1>1, <2>1, <2>2
  <2>4. r[i - 1] = Do("unlock", y) /\ r[j - 1] = Do("unlock", x)
    BY <1>1, <2>1, <2>2
  <2> QED
    BY <2>2, <2>3, <2>4 DEF InBoth
<1> QED
  BY <1>3, <1>4, <1>5, <1>6, <1>7, <1>8

\* A step that takes o: it was the only lock to come, or the first, or the second.
LEMMA LockShape ==
  ASSUME NEW o \in Objects, NEW s \in Seq(Step), s # <<>>, s[1] = Do("lock", o),
         NEW r, r = Tail(s)
  PROVE  /\ ~Bare(s)
         /\ \A x, y \in Objects : ~InOne(s, x) /\ ~InBoth(s, x, y)
         /\ \A x \in Objects : LocksOne(s, x) => x = o /\ InOne(r, x)
         /\ \A x, y \in Objects : LocksTwo(s, x, y) => x = o /\ InFirst(r, x, y)
         /\ \A x, y \in Objects : InFirst(s, x, y) => y = o /\ InBoth(r, x, y)
<1>1. /\ \A i \in DOMAIN s \ {1} : i - 1 \in DOMAIN r /\ r[i - 1] = s[i]
      /\ \A i \in DOMAIN s : i \in Nat \ {0}
      /\ 1 \in DOMAIN s
  BY TailSteps
<1>2. Marks(r) = {i - 1 : i \in Marks(s) \ {1}} /\ 1 \in Marks(s)
  <2>1. s[1][1] \in Locking
    BY DEF Do, Locking
  <2> QED
    BY <2>1, MarksMove, TailMarks
<1>3. \A w, p : Do(w, p)[1] = w /\ Do(w, p)[2] = p
  BY DEF Do
<1>4. ~Bare(s) /\ \A x, y \in Objects : ~InOne(s, x) /\ ~InBoth(s, x, y)
  BY <1>2, <1>3 DEF Bare, InOne, InBoth
<1>5. ASSUME NEW x \in Objects, LocksOne(s, x) PROVE x = o /\ InOne(r, x)
  <2>1. PICK i, j \in DOMAIN s : /\ i < j /\ Marks(s) = {i, j}
                                 /\ s[i] = Do("lock", x) /\ s[j] = Do("unlock", x)
    BY <1>5 DEF LocksOne
  <2>2. i = 1 /\ j # 1 /\ Marks(r) = {j - 1}
    BY <1>1, <1>2, <2>1
  <2>3. x = o
    BY <1>3, <2>1, <2>2
  <2> QED
    BY <1>1, <2>1, <2>2, <2>3 DEF InOne
<1>6. ASSUME NEW x \in Objects, NEW y \in Objects, LocksTwo(s, x, y)
      PROVE  x = o /\ InFirst(r, x, y)
  <2>1. PICK i, j, k, l \in DOMAIN s :
          /\ i < j /\ j < k /\ k < l /\ Marks(s) = {i, j, k, l}
          /\ s[i] = Do("lock", x) /\ s[j] = Do("lock", y)
          /\ s[k] = Do("unlock", y) /\ s[l] = Do("unlock", x)
    BY <1>6 DEF LocksTwo
  <2>2. i = 1 /\ 1 \notin {j, k, l}
    BY <1>1, <1>2, <2>1
  <2>3. Marks(r) = {j - 1, k - 1, l - 1}
    BY <1>2, <2>1, <2>2
  <2>4. /\ j - 1 < k - 1 /\ k - 1 < l - 1
        /\ j - 1 \in DOMAIN r /\ k - 1 \in DOMAIN r /\ l - 1 \in DOMAIN r
    BY <1>1, <2>1, <2>2
  <2>5. /\ r[j - 1] = Do("lock", y) /\ r[k - 1] = Do("unlock", y)
        /\ r[l - 1] = Do("unlock", x)
    BY <1>1, <2>1, <2>2
  <2>6. x = o
    BY <1>3, <2>1, <2>2
  <2>7. PICK a, b, c \in DOMAIN r : a = j - 1 /\ b = k - 1 /\ c = l - 1
    BY <2>4
  <2> QED
    BY <2>3, <2>4, <2>5, <2>6, <2>7 DEF InFirst
<1>7. ASSUME NEW x \in Objects, NEW y \in Objects, InFirst(s, x, y)
      PROVE  y = o /\ InBoth(r, x, y)
  <2>1. PICK i, j, k \in DOMAIN s :
          /\ i < j /\ j < k /\ Marks(s) = {i, j, k}
          /\ s[i] = Do("lock", y) /\ s[j] = Do("unlock", y) /\ s[k] = Do("unlock", x)
    BY <1>7 DEF InFirst
  <2>2. i = 1 /\ 1 \notin {j, k}
    BY <1>1, <1>2, <2>1
  <2>3. Marks(r) = {j - 1, k - 1}
    BY <1>2, <2>1, <2>2
  <2>4. j - 1 < k - 1 /\ {j - 1, k - 1} \subseteq DOMAIN r
    BY <1>1, <2>1, <2>2
  <2>5. r[j - 1] = Do("unlock", y) /\ r[k - 1] = Do("unlock", x)
    BY <1>1, <2>1, <2>2
  <2>6. y = o
    BY <1>3, <2>1, <2>2
  <2> QED
    BY <2>3, <2>4, <2>5, <2>6 DEF InBoth
<1> QED
  BY <1>4, <1>5, <1>6, <1>7

\* A step that gives o up: the inner one of two locks, or the only one.
LEMMA UnlockShape ==
  ASSUME NEW o \in Objects, NEW s \in Seq(Step), s # <<>>, s[1] = Do("unlock", o),
         NEW r, r = Tail(s)
  PROVE  /\ ~Bare(s)
         /\ \A x, y \in Objects : ~LocksOne(s, x) /\ ~LocksTwo(s, x, y) /\ ~InFirst(s, x, y)
         /\ \A x \in Objects : InOne(s, x) => x = o /\ Bare(r)
         /\ \A x, y \in Objects : InBoth(s, x, y) => y = o /\ InOne(r, x)
<1>1. /\ \A i \in DOMAIN s \ {1} : i - 1 \in DOMAIN r /\ r[i - 1] = s[i]
      /\ \A i \in DOMAIN s : i \in Nat \ {0}
      /\ 1 \in DOMAIN s
  BY TailSteps
<1>2. Marks(r) = {i - 1 : i \in Marks(s) \ {1}} /\ 1 \in Marks(s)
  <2>1. s[1][1] \in Locking
    BY DEF Do, Locking
  <2> QED
    BY <2>1, MarksMove, TailMarks
<1>3. \A w, p : Do(w, p)[1] = w /\ Do(w, p)[2] = p
  BY DEF Do
<1>4. ~Bare(s)
  BY <1>2 DEF Bare
<1>5. ASSUME NEW i \in DOMAIN s, i \in Marks(s), \A j \in Marks(s) : i <= j
      PROVE  i = 1 /\ s[i][1] = "unlock"
  BY <1>1, <1>2, <1>3, <1>5
<1>6. ASSUME NEW x \in Objects, NEW y \in Objects
      PROVE  ~LocksOne(s, x) /\ ~LocksTwo(s, x, y) /\ ~InFirst(s, x, y)
  <2>1. ASSUME LocksOne(s, x) PROVE FALSE
    <3>1. PICK i, j \in DOMAIN s : i < j /\ Marks(s) = {i, j} /\ s[i] = Do("lock", x)
      BY <2>1 DEF LocksOne
    <3> QED
      BY <1>1, <1>3, <1>5, <3>1
  <2>2. ASSUME LocksTwo(s, x, y) PROVE FALSE
    <3>1. PICK i, j, k, l \in DOMAIN s :
            /\ i < j /\ j < k /\ k < l /\ Marks(s) = {i, j, k, l} /\ s[i] = Do("lock", x)
      BY <2>2 DEF LocksTwo
    <3>2. \A n \in Marks(s) : i <= n
      BY <1>1, <3>1
    <3> QED
      BY <1>3, <1>5, <3>1, <3>2
  <2>3. ASSUME InFirst(s, x, y) PROVE FALSE
    <3>1. PICK i, j, k \in DOMAIN s :
            i < j /\ j < k /\ Marks(s) = {i, j, k} /\ s[i] = Do("lock", y)
      BY <2>3 DEF InFirst
    <3>2. \A n \in Marks(s) : i <= n
      BY <1>1, <3>1
    <3> QED
      BY <1>3, <1>5, <3>1, <3>2
  <2> QED
    BY <2>1, <2>2, <2>3
<1>7. ASSUME NEW x \in Objects, InOne(s, x) PROVE x = o /\ Bare(r)
  <2>1. PICK i \in DOMAIN s : Marks(s) = {i} /\ s[i] = Do("unlock", x)
    BY <1>7 DEF InOne
  <2>2. i = 1 /\ Marks(r) = {}
    BY <1>2, <2>1
  <2> QED
    BY <1>3, <2>1, <2>2 DEF Bare
<1>8. ASSUME NEW x \in Objects, NEW y \in Objects, InBoth(s, x, y)
      PROVE  y = o /\ InOne(r, x)
  <2>1. PICK i, j \in DOMAIN s : /\ i < j /\ Marks(s) = {i, j}
                                 /\ s[i] = Do("unlock", y) /\ s[j] = Do("unlock", x)
    BY <1>8 DEF InBoth
  <2>2. i = 1 /\ j # 1 /\ Marks(r) = {j - 1}
    BY <1>1, <1>2, <2>1
  <2>3. y = o
    BY <1>3, <2>1, <2>2
  <2> QED
    BY <1>1, <2>1, <2>2, <2>3 DEF InOne
<1> QED
  BY <1>4, <1>6, <1>7, <1>8

-----------------------------------------------------------------------------
(* What a step does to the locks of its thread, and of the others.         *)

LEMMA KeepLocks ==
  ASSUME NEW t \in Threads, NEW s \in Seq(Step), s # <<>>, s[1][1] \notin Locking,
         NEW r, r = Tail(s), LocksFit(t, s), UNCHANGED <<owner, depth>>
  PROVE  LocksFit(t, r)'
<1>1. /\ HoldsNothing(t)' <=> HoldsNothing(t)
      /\ \A x \in Objects : HoldsOne(t, x)' <=> HoldsOne(t, x)
      /\ \A x, y \in Objects : HoldsTwo(t, x, y)' <=> HoldsTwo(t, x, y)
  BY DEF HoldsNothing, HoldsOne, HoldsTwo
<1>2. /\ Bare(s) => Bare(r)
      /\ \A x \in Objects : LocksOne(s, x) => LocksOne(r, x)
      /\ \A x \in Objects : InOne(s, x) => InOne(r, x)
      /\ \A x, y \in Objects : LocksTwo(s, x, y) => LocksTwo(r, x, y)
      /\ \A x, y \in Objects : InFirst(s, x, y) => InFirst(r, x, y)
      /\ \A x, y \in Objects : InBoth(s, x, y) => InBoth(r, x, y)
  BY TailShape
<1> QED
  BY <1>1, <1>2, Zenon DEF LocksFit

LEMMA OthersKeepLocks ==
  ASSUME NEW u \in Threads, NEW s, LocksFit(u, s), AsksFit(u, s),
         \A o \in Objects : /\ owner'[o] = u <=> owner[o] = u
                            /\ owner[o] = u => depth'[o] = depth[o]
  PROVE  LocksFit(u, s)' /\ AsksFit(u, s)'
<1>1. /\ HoldsNothing(u) => HoldsNothing(u)'
      /\ \A x \in Objects : HoldsOne(u, x) => HoldsOne(u, x)'
      /\ \A x, y \in Objects : HoldsTwo(u, x, y) => HoldsTwo(u, x, y)'
  BY DEF HoldsNothing, HoldsOne, HoldsTwo
<1>2. LocksFit(u, s)'
  BY <1>1, Zenon DEF LocksFit
<1> QED
  BY <1>1, <1>2 DEF AsksFit

LEMMA AcquireLocks ==
  ASSUME LockTypes, NEW t \in Threads, NEW o \in Objects, Open(t, o),
         NEW s \in Seq(Step), s # <<>>, s[1] = Do("lock", o), NEW r, r = Tail(s), LocksFit(t, s),
         owner' = [owner EXCEPT ![o] = t], depth' = [depth EXCEPT ![o] = @ + 1]
  PROVE  LockTypes' /\ LocksFit(t, r)'
<1>1. /\ owner[o] = t \/ depth[o] = 0
      /\ \A p \in Objects : owner'[p] = IF p = o THEN t ELSE owner[p]
      /\ \A p \in Objects : depth'[p] = IF p = o THEN depth[o] + 1 ELSE depth[p]
  BY DEF Open, LockTypes
<1>2. /\ ~Bare(s)
      /\ \A x, y \in Objects : ~InOne(s, x) /\ ~InBoth(s, x, y)
      /\ \A x \in Objects : LocksOne(s, x) => x = o /\ InOne(r, x)
      /\ \A x, y \in Objects : LocksTwo(s, x, y) => x = o /\ InFirst(r, x, y)
      /\ \A x, y \in Objects : InFirst(s, x, y) => y = o /\ InBoth(r, x, y)
  <2>1. ~Bare(s) /\ (\A x, y \in Objects : ~InOne(s, x) /\ ~InBoth(s, x, y))
    BY LockShape
  <2>2. ASSUME NEW x \in Objects, LocksOne(s, x) PROVE x = o /\ InOne(r, x)
    BY <2>2, LockShape
  <2>3. \A x, y \in Objects : LocksTwo(s, x, y) => x = o /\ InFirst(r, x, y)
    BY LockShape
  <2>4. \A x, y \in Objects : InFirst(s, x, y) => y = o /\ InBoth(r, x, y)
    BY LockShape
  <2> QED
    BY <2>1, <2>2, <2>3, <2>4
<1>3. SUFFICES depth[o] \in {0, 1} /\ LocksFit(t, r)'
  <2>1. depth' \in [Objects -> 0 .. 2] /\ owner' \in [Objects -> Threads \union {NoThread}]
    BY <1>3 DEF LockTypes
  <2>2. \A p \in Objects : owner'[p] = NoThread <=> depth'[p] = 0
    BY <1>1, <1>3, LockedObjectsAssumption DEF LockTypes
  <2> QED
    BY <1>3, <2>1, <2>2 DEF LockTypes
<1>4. ASSUME HoldsNothing(t) PROVE depth[o] = 0 /\ HoldsOne(t, o)'
  BY <1>1, <1>4 DEF HoldsNothing, HoldsOne
<1>5. ASSUME NEW x \in Objects, HoldsNothing(t), LocksOne(s, x)
      PROVE  depth[o] \in {0, 1} /\ LocksFit(t, r)'
  BY <1>2, <1>4, <1>5 DEF LocksFit
<1>6. ASSUME NEW x \in Objects, NEW y \in Objects, x <= y, HoldsNothing(t), LocksTwo(s, x, y)
      PROVE  depth[o] \in {0, 1} /\ LocksFit(t, r)'
  BY <1>2, <1>4, <1>6 DEF LocksFit
<1>7. ASSUME NEW x \in Objects, NEW y \in Objects, x <= y, HoldsOne(t, x), InFirst(s, x, y)
      PROVE  depth[o] \in {0, 1} /\ LocksFit(t, r)'
  <2>1. y = o /\ InBoth(r, x, y)
    BY <1>2, <1>7
  <2>2. depth[o] = IF x = y THEN 1 ELSE 0
    BY <1>1, <1>7, <2>1 DEF HoldsOne
  <2>3. HoldsTwo(t, x, y)'
    BY <1>1, <1>7, <2>1, <2>2 DEF HoldsOne, HoldsTwo
  <2> QED
    BY <1>7, <2>1, <2>2, <2>3 DEF LocksFit
<1>8. \/ \E x \in Objects : HoldsNothing(t) /\ LocksOne(s, x)
      \/ \E x, y \in Objects : x <= y /\ HoldsNothing(t) /\ LocksTwo(s, x, y)
      \/ \E x, y \in Objects : x <= y /\ HoldsOne(t, x) /\ InFirst(s, x, y)
  BY <1>2, Zenon DEF LocksFit
<1> QED
  BY <1>5, <1>6, <1>7, <1>8

LEMMA ReleaseLocks ==
  ASSUME LockTypes, NEW t \in Threads, NEW o \in Objects,
         NEW s \in Seq(Step), s # <<>>, s[1] = Do("unlock", o), NEW r, r = Tail(s), LocksFit(t, s),
         owner' = [owner EXCEPT ![o] = IF depth[o] = 1 THEN NoThread ELSE t],
         depth' = [depth EXCEPT ![o] = @ - 1]
  PROVE  LockTypes' /\ LocksFit(t, r)' /\ owner[o] = t
<1>1. /\ \A p \in Objects : owner'[p] = IF p = o THEN IF depth[o] = 1 THEN NoThread ELSE t
                                                 ELSE owner[p]
      /\ \A p \in Objects : depth'[p] = IF p = o THEN depth[o] - 1 ELSE depth[p]
      /\ t # NoThread
  BY LockedObjectsAssumption DEF LockTypes
<1>2. /\ ~Bare(s)
      /\ \A x, y \in Objects : ~LocksOne(s, x) /\ ~LocksTwo(s, x, y) /\ ~InFirst(s, x, y)
      /\ \A x \in Objects : InOne(s, x) => x = o /\ Bare(r)
      /\ \A x, y \in Objects : InBoth(s, x, y) => y = o /\ InOne(r, x)
  BY UnlockShape
<1>3. SUFFICES owner[o] = t /\ depth[o] \in {1, 2} /\ LocksFit(t, r)'
  <2>1. depth' \in [Objects -> 0 .. 2] /\ owner' \in [Objects -> Threads \union {NoThread}]
    BY <1>3 DEF LockTypes
  <2>2. \A p \in Objects : owner'[p] = NoThread <=> depth'[p] = 0
    BY <1>1, <1>3 DEF LockTypes
  <2> QED
    BY <1>3, <2>1, <2>2 DEF LockTypes
<1>4. ASSUME NEW x \in Objects, HoldsOne(t, x), InOne(s, x)
      PROVE  owner[o] = t /\ depth[o] \in {1, 2} /\ LocksFit(t, r)'
  <2>1. HoldsNothing(t)'
    BY <1>1, <1>2, <1>4 DEF HoldsOne, HoldsNothing
  <2> QED
    BY <1>2, <1>4, <2>1 DEF LocksFit, HoldsOne
<1>5. ASSUME NEW x \in Objects, NEW y \in Objects, x <= y, HoldsTwo(t, x, y), InBoth(s, x, y)
      PROVE  owner[o] = t /\ depth[o] \in {1, 2} /\ LocksFit(t, r)'
  <2>1. y = o /\ InOne(r, x)
    BY <1>2, <1>5
  <2>2. HoldsOne(t, x)'
    BY <1>1, <1>5, <2>1 DEF HoldsTwo, HoldsOne
  <2> QED
    BY <1>5, <2>1, <2>2 DEF LocksFit, HoldsTwo
<1>6. \/ \E x \in Objects : HoldsOne(t, x) /\ InOne(s, x)
      \/ \E x, y \in Objects : x <= y /\ HoldsTwo(t, x, y) /\ InBoth(s, x, y)
  BY <1>2, Zenon DEF LocksFit
<1> QED
  BY <1>4, <1>5, <1>6

-----------------------------------------------------------------------------
(* The steps of a thread.                                                  *)

LEMMA NothingLeftFits ==
  ASSUME NEW call, NEW views
  PROVE  /\ LooksFit(call, <<>>) /\ CallFits(call, <<>>)
         /\ UpdatesFit(call, <<>>, views) /\ ChecksFit(<<>>)
         /\ Bare(<<>>) /\ <<>> \in Seq(Step)
<1>1. DOMAIN <<>> = {} /\ <<>> \in Seq(Step)
  OBVIOUS
<1> QED
  BY <1>1 DEF LooksFit, CallFits, GlancesFit, UpdatesFit, ChecksFit, Bare, Marks, Only

LEMMA NothingSeen == <<>> \in Views /\ DOMAIN <<>> = {}
BY DEF Views

\* A thread goes on with its call, or comes back from it.
LEMMA MoveInv ==
  ASSUME LockedInv, NEW t \in Threads,
         NEW j \in JobState, job' = [job EXCEPT ![t] = j],
         NEW call, j.call = call, NEW s, j.todo = s, NEW v, j.seen = v,
         LooksFit(call, s), CallFits(call, s), UpdatesFit(call, s, v), ChecksFit(s),
         call \in offer \union {"none", "lockless"}, LocksFit(t, s)', AsksFit(t, s)',
         \A u \in Threads \ {t} : LocksFit(u, job[u].todo)' /\ AsksFit(u, job[u].todo)',
         LockTypes', val' \in [Objects -> Whole], frozen' \in [Objects -> BOOLEAN],
         \A o \in Objects : frozen'[o] => "freeze" \in offer,
         UNCHANGED offer
  PROVE  LockedInv'
<1>1. /\ job' \in [Threads -> JobState]
      /\ \A u \in Threads \ {t} : job'[u] = job[u]
      /\ job'[t].call = call /\ job'[t].todo = s /\ job'[t].seen = v
  BY DEF LockedInv, ObjectTypes
<1>2. ObjectTypes'
  BY <1>1 DEF LockedInv, ObjectTypes
<1>3. OffersFit'
  BY <1>1 DEF LockedInv, OffersFit
<1>4. ASSUME NEW u \in Threads
      PROVE  JobFits(job[u])' /\ LocksFit(u, job[u].todo)' /\ AsksFit(u, job[u].todo)'
  <2>1. CASE u = t
    BY <1>1, <2>1 DEF JobFits
  <2>2. CASE u # t
    BY <1>1, <2>2 DEF LockedInv, JobFits
  <2> QED
    BY <2>1, <2>2
<1> QED
  BY <1>2, <1>3, <1>4 DEF LockedInv

\* What is known of the step that is due.
LEMMA DueStep ==
  ASSUME LockedInv, NEW t \in Threads, NEW what, NEW o, Due(t, what, o),
         NEW s, s = job[t].todo
  PROVE  /\ s \in Seq(Step) /\ s # <<>> /\ 1 \in DOMAIN s /\ s[1] \in Step /\ Head(s) = s[1]
         /\ s[1][1] = what /\ s[1][2] = o /\ o \in Objects
         /\ what # "look" => s[1] = Do(what, o)
<1>1. s \in Seq(Step)
  BY DEF LockedInv, ObjectTypes, JobState
<1>2. s # <<>> /\ Head(s)[1] = what /\ Head(s)[2] = o
  BY DEF Due
<1>3. 1 \in DOMAIN s /\ s[1] \in Step /\ Head(s) = s[1]
  BY <1>1, <1>2
<1>4. o \in Objects /\ (what # "look" => s[1] = Do(what, o))
  BY <1>2, <1>3 DEF Step, Plain, Do
<1> QED
  BY <1>1, <1>2, <1>3, <1>4

\* What is left of a job fits it; v is what the call has then seen.
LEMMA LeftFits ==
  ASSUME NEW i \in JobState, JobFits(i), i.todo # <<>>,
         NEW r, r = Tail(i.todo), NEW v,
         i.call \in Loose \/ DOMAIN i.seen \subseteq DOMAIN v,
         i.call \in Loose \/ i.todo[1][1] # "read" \/ i.todo[1][2] \in DOMAIN v
  PROVE  /\ r \in Seq(Step) /\ i.call \in Kinds \union {"none", "lockless"}
         /\ LooksFit(i.call, r) /\ CallFits(i.call, r)
         /\ UpdatesFit(i.call, r, v) /\ ChecksFit(r)
         /\ \A n \in DOMAIN r : r[n][1] # "check"
<1>1. /\ i.todo \in Seq(Step) /\ i.call \in Kinds \union {"none", "lockless"}
      /\ LooksFit(i.call, i.todo) /\ CallFits(i.call, i.todo)
      /\ UpdatesFit(i.call, i.todo, i.seen) /\ ChecksFit(i.todo)
  BY DEF JobState, JobFits
<1>2. r \in Seq(Step)
  BY <1>1, TailSteps
<1>3. \A n \in DOMAIN r : r[n][1] # "check"
  <2>1. \A n \in DOMAIN r : n \in Nat \ {0} /\ n + 1 \in DOMAIN i.todo /\ r[n] = i.todo[n + 1]
    BY <1>1, TailSteps
  <2> QED
    BY <1>1, <2>1 DEF ChecksFit
<1>4. LooksFit(i.call, r) /\ CallFits(i.call, r) /\ ChecksFit(r)
  BY <1>1, TailFits
<1>5. UpdatesFit(i.call, r, v)
  BY <1>1, TailUpdates
<1> QED
  BY <1>1, <1>2, <1>3, <1>4, <1>5

\* The next step is taken.
LEMMA GoOnInv ==
  ASSUME LockedInv, NEW t \in Threads, NEW what, NEW o, Due(t, what, o),
         NEW r, r = Tail(job[t].todo), NEW v \in Views,
         job[t].call \in Loose \/ DOMAIN job[t].seen \subseteq DOMAIN v,
         job[t].call \in Loose \/ what # "read" \/ o \in DOMAIN v,
         job' = [job EXCEPT ![t] =
                   IF r = <<>> THEN Idle ELSE [@ EXCEPT !.todo = r, !.seen = v]],
         LocksFit(t, r)',
         \A u \in Threads \ {t} : LocksFit(u, job[u].todo)' /\ AsksFit(u, job[u].todo)',
         LockTypes', val' \in [Objects -> Whole], frozen' \in [Objects -> BOOLEAN],
         \A p \in Objects : frozen'[p] => "freeze" \in offer,
         UNCHANGED offer
  PROVE  LockedInv'
<1>1. job[t] \in JobState /\ JobFits(job[t]) /\ job[t].call \in offer \union {"none", "lockless"}
  BY DEF LockedInv, ObjectTypes, OffersFit
<1>2. job[t].todo # <<>> /\ job[t].todo[1][1] = what /\ job[t].todo[1][2] = o
  BY DueStep
<1> DEFINE c == job[t].call
<1>3. /\ r \in Seq(Step) /\ c \in Kinds \union {"none", "lockless"}
      /\ LooksFit(c, r) /\ CallFits(c, r) /\ UpdatesFit(c, r, v) /\ ChecksFit(r)
      /\ \A n \in DOMAIN r : r[n][1] # "check"
  BY <1>1, <1>2, LeftFits
<1>4. AsksFit(t, r)'
  BY <1>3 DEF AsksFit
<1>5. CASE r = <<>>
  <2>1. PICK j : j = [call |-> "none", todo |-> <<>>, seen |-> <<>>]
    OBVIOUS
  <2>2. job' = [job EXCEPT ![t] = j]
    BY <1>5, <2>1 DEF Idle
  <2>3. j \in JobState /\ j.call = "none" /\ j.todo = r /\ j.seen = <<>>
    BY <1>3, <1>5, <2>1, NothingSeen DEF JobState
  <2>4. /\ LooksFit("none", r) /\ CallFits("none", r)
        /\ UpdatesFit("none", r, <<>>) /\ ChecksFit(r)
    BY <1>5, NothingLeftFits
  <2> QED
    BY <1>4, <2>2, <2>3, <2>4, MoveInv
<1>6. CASE r # <<>>
  <2>1. PICK j : j = [job[t] EXCEPT !.todo = r, !.seen = v]
    OBVIOUS
  <2>2. job' = [job EXCEPT ![t] = j]
    BY <1>6, <2>1
  <2>3. j \in JobState /\ j.call = c /\ j.todo = r /\ j.seen = v
    BY <1>1, <1>3, <2>1 DEF JobState
  <2>4. c \in offer \union {"none", "lockless"}
    BY <1>1
  <2> HIDE DEF c
  <2> QED
    BY <1>3, <1>4, <2>2, <2>3, <2>4, MoveInv
<1> QED
  BY <1>5, <1>6

\* A step that changes neither locks nor what the call has seen.
LEMMA AdvanceInv ==
  ASSUME LockedInv, NEW t \in Threads, NEW what, NEW o, Due(t, what, o),
         Advance(t), job[t].call \in Loose \/ what # "read",
         NEW r, r = Tail(job[t].todo), LocksFit(t, r)',
         \A u \in Threads \ {t} : LocksFit(u, job[u].todo)' /\ AsksFit(u, job[u].todo)',
         LockTypes', val' \in [Objects -> Whole], frozen' \in [Objects -> BOOLEAN],
         \A p \in Objects : frozen'[p] => "freeze" \in offer,
         UNCHANGED offer
  PROVE  LockedInv'
<1>1. PICK v : v = job[t].seen
  OBVIOUS
<1>2. job[t] \in JobState /\ v \in Views
  BY <1>1 DEF LockedInv, ObjectTypes, JobState
<1>3. [job[t] EXCEPT !.todo = r] = [job[t] EXCEPT !.todo = r, !.seen = v]
  BY <1>1, <1>2 DEF JobState
<1>4. job' = [job EXCEPT ![t] =
                IF r = <<>> THEN Idle ELSE [@ EXCEPT !.todo = r, !.seen = v]]
  BY <1>3 DEF Advance, Continue
<1>5. DOMAIN job[t].seen \subseteq DOMAIN v
  BY <1>1
<1> QED
  BY <1>2, <1>4, <1>5, GoOnInv

\* The others keep the locks they have.
LEMMA OthersInv ==
  ASSUME LockedInv, NEW t \in Threads, \A u \in Threads \ {t} : job'[u] = job[u],
         \A u \in Threads \ {t}, o \in Objects :
           /\ owner'[o] = u <=> owner[o] = u
           /\ owner[o] = u => depth'[o] = depth[o]
  PROVE  \A u \in Threads \ {t} : LocksFit(u, job[u].todo)' /\ AsksFit(u, job[u].todo)'
<1> SUFFICES ASSUME NEW u \in Threads \ {t}
             PROVE  LocksFit(u, job[u].todo)' /\ AsksFit(u, job[u].todo)'
  OBVIOUS
<1>1. LocksFit(u, job[u].todo) /\ AsksFit(u, job[u].todo)
  BY DEF LockedInv
<1> QED
  BY <1>1, OthersKeepLocks

\* A thread that has not come to a lock, or is past them, has none.
LEMMA BareHolds ==
  ASSUME NEW t \in Threads, NEW s, LocksFit(t, s), Bare(s)
  PROVE  HoldsNothing(t)
BY DEF LocksFit, Bare, LocksOne, InOne, LocksTwo, InFirst, InBoth

LEMMA BeginInv ==
  ASSUME LockedInv, NEW t \in Threads, Begin(t)
  PROVE  LockedInv'
<1>1. PICK k \in offer, x, y \in Objects :
        /\ k = "freeze" => x \in Freezable
        /\ job' = [job EXCEPT ![t] = [Idle EXCEPT !.call = k, !.todo = Script[k][x][y]]]
  BY DEF Begin
<1>2. k \in Kinds /\ job[t] = Idle
  BY LockedObjectsAssumption DEF LockedInv, ObjectTypes, Begin
<1>3. PICK s : s = Script[k][x][y]
  OBVIOUS
<1>4. PICK j : j = [Idle EXCEPT !.call = k, !.todo = s]
  OBVIOUS
<1>5. job' = [job EXCEPT ![t] = j]
  BY <1>1, <1>3, <1>4
<1>6. /\ s \in Seq(Step)
      /\ LooksFit(k, s) /\ CallFits(k, s) /\ UpdatesFit(k, s, <<>>) /\ ChecksFit(s)
      /\ ShapeFits(s)
  BY <1>2, <1>3, ScriptBegins DEF Begins
<1>7. j \in JobState /\ j.call = k /\ j.todo = s /\ j.seen = <<>>
  BY <1>2, <1>4, <1>6, NothingSeen DEF JobState, Idle
<1>8. HoldsNothing(t)
  <2>1. LocksFit(t, job[t].todo) /\ job[t].todo = <<>>
    BY <1>2 DEF LockedInv, Idle
  <2> QED
    BY <2>1, NothingLeftFits, BareHolds
<1>9. HoldsNothing(t)' /\ UNCHANGED <<owner, depth, val, frozen, offer>>
  BY <1>8 DEF HoldsNothing, Begin
<1>10. LocksFit(t, s)' /\ AsksFit(t, s)'
  BY <1>6, <1>9 DEF LocksFit, AsksFit, ShapeFits
<1>11. \A u \in Threads \ {t} : LocksFit(u, job[u].todo)' /\ AsksFit(u, job[u].todo)'
  BY <1>5, <1>9, OthersInv DEF LockedInv, ObjectTypes
<1>12. LockTypes' /\ val' \in [Objects -> Whole] /\ frozen' \in [Objects -> BOOLEAN]
  BY <1>9 DEF LockedInv, ObjectTypes, LockTypes
<1>13. \A o \in Objects : frozen'[o] => "freeze" \in offer
  BY <1>9 DEF LockedInv, OffersFit
<1> QED
  BY <1>5, <1>6, <1>7, <1>9, <1>10, <1>11, <1>12, <1>13, MoveInv

LEMMA AcquireInv ==
  ASSUME LockedInv, NEW t \in Threads, NEW o, Acquire(t, o)
  PROVE  LockedInv'
<1>1. /\ Due(t, "lock", o) /\ Open(t, o) /\ Advance(t) /\ UNCHANGED <<val, frozen, offer>>
      /\ owner' = [owner EXCEPT ![o] = t] /\ depth' = [depth EXCEPT ![o] = @ + 1]
  BY DEF Acquire
<1>2. PICK s, r : s = job[t].todo /\ r = Tail(s)
  OBVIOUS
<1>3. s \in Seq(Step) /\ s # <<>> /\ o \in Objects /\ s[1] = Do("lock", o)
  BY <1>1, <1>2, DueStep
<1>4. LockTypes /\ LocksFit(t, s)
  BY <1>2 DEF LockedInv, ObjectTypes
<1>5. LockTypes' /\ LocksFit(t, r)'
  BY <1>1, <1>2, <1>3, <1>4, AcquireLocks
<1>6. \A u \in Threads \ {t} : job'[u] = job[u]
  BY <1>1 DEF Advance, Continue, LockedInv, ObjectTypes
<1>7. \A u \in Threads \ {t}, p \in Objects :
        /\ owner'[p] = u <=> owner[p] = u
        /\ owner[p] = u => depth'[p] = depth[p]
  BY <1>1, <1>3, <1>4, LockedObjectsAssumption DEF Open, LockTypes
<1>8. \A u \in Threads \ {t} : LocksFit(u, job[u].todo)' /\ AsksFit(u, job[u].todo)'
  BY <1>6, <1>7, OthersInv
<1>9. val' \in [Objects -> Whole] /\ frozen' \in [Objects -> BOOLEAN]
  BY <1>1 DEF LockedInv, ObjectTypes
<1>10. \A p \in Objects : frozen'[p] => "freeze" \in offer
  BY <1>1 DEF LockedInv, OffersFit
<1> QED
  BY <1>1, <1>2, <1>5, <1>8, <1>9, <1>10, AdvanceInv

LEMMA ReleaseInv ==
  ASSUME LockedInv, NEW t \in Threads, NEW o, Release(t, o)
  PROVE  LockedInv'
<1>1. /\ Due(t, "unlock", o) /\ Advance(t) /\ UNCHANGED <<val, frozen, offer>>
      /\ owner' = [owner EXCEPT ![o] = IF depth[o] = 1 THEN NoThread ELSE t]
      /\ depth' = [depth EXCEPT ![o] = @ - 1]
  BY DEF Release
<1>2. PICK s, r : s = job[t].todo /\ r = Tail(s)
  OBVIOUS
<1>3. s \in Seq(Step) /\ s # <<>> /\ o \in Objects /\ s[1] = Do("unlock", o)
  BY <1>1, <1>2, DueStep
<1>4. LockTypes /\ LocksFit(t, s)
  BY <1>2 DEF LockedInv, ObjectTypes
<1>5. LockTypes' /\ LocksFit(t, r)' /\ owner[o] = t
  BY <1>1, <1>2, <1>3, <1>4, ReleaseLocks
<1>6. \A u \in Threads \ {t} : job'[u] = job[u]
  BY <1>1 DEF Advance, Continue, LockedInv, ObjectTypes
<1>7. \A u \in Threads \ {t}, p \in Objects :
        /\ owner'[p] = u <=> owner[p] = u
        /\ owner[p] = u => depth'[p] = depth[p]
  BY <1>1, <1>3, <1>4, <1>5, LockedObjectsAssumption DEF LockTypes
<1>8. \A u \in Threads \ {t} : LocksFit(u, job[u].todo)' /\ AsksFit(u, job[u].todo)'
  BY <1>6, <1>7, OthersInv
<1>9. val' \in [Objects -> Whole] /\ frozen' \in [Objects -> BOOLEAN]
  BY <1>1 DEF LockedInv, ObjectTypes
<1>10. \A p \in Objects : frozen'[p] => "freeze" \in offer
  BY <1>1 DEF LockedInv, OffersFit
<1> QED
  BY <1>1, <1>2, <1>5, <1>8, <1>9, <1>10, AdvanceInv

\* Steps that leave the locks alone.
LEMMA LocksStay ==
  ASSUME LockedInv, NEW t \in Threads, NEW what, NEW o, Due(t, what, o), what \notin Locking,
         NEW r, r = Tail(job[t].todo), UNCHANGED <<owner, depth>>,
         \A u \in Threads \ {t} : job'[u] = job[u]
  PROVE  /\ LocksFit(t, r)' /\ LockTypes'
         /\ \A u \in Threads \ {t} : LocksFit(u, job[u].todo)' /\ AsksFit(u, job[u].todo)'
<1>1. PICK s : s = job[t].todo
  OBVIOUS
<1>2. s \in Seq(Step) /\ s # <<>> /\ s[1][1] = what
  BY <1>1, DueStep
<1>3. LocksFit(t, s)
  BY <1>1 DEF LockedInv
<1>4. LocksFit(t, r)'
  BY <1>1, <1>2, <1>3, KeepLocks
<1>5. \A u \in Threads \ {t} : LocksFit(u, job[u].todo)' /\ AsksFit(u, job[u].todo)'
  BY OthersInv
<1> QED
  BY <1>4, <1>5 DEF LockedInv, ObjectTypes, LockTypes

LEMMA ReadInv ==
  ASSUME LockedInv, NEW t \in Threads, NEW o, Read(t, o)
  PROVE  LockedInv'
<1>1. PICK what \in {"read", "get"} : Due(t, what, o)
  BY DEF Read
<1>2. PICK r : r = Tail(job[t].todo)
  OBVIOUS
<1>3. PICK v : v = IF job[t].call \in Loose
                     THEN <<>>
                     ELSE [p \in DOMAIN job[t].seen \cup {o} |->
                             IF p = o THEN val[o] ELSE job[t].seen[p]]
  OBVIOUS
<1>4. /\ job' = [job EXCEPT ![t] =
                   IF r = <<>> THEN Idle ELSE [@ EXCEPT !.todo = r, !.seen = v]]
      /\ UNCHANGED <<owner, depth, val, frozen, offer>>
  BY <1>2, <1>3 DEF Read
<1>5. o \in Objects /\ job[t] \in JobState /\ val[o] \in Whole
  BY <1>1, DueStep DEF LockedInv, ObjectTypes
<1>6. PICK S \in SUBSET Objects : job[t].seen \in [S -> Whole]
  BY <1>5 DEF JobState, Views
<1>7. v \in Views
  <2>1. CASE job[t].call \in Loose
    BY <1>3, <2>1, NothingSeen
  <2>2. CASE job[t].call \notin Loose
    <3>1. v \in [S \union {o} -> Whole]
      BY <1>3, <1>5, <1>6, <2>2
    <3> QED
      BY <1>5, <3>1 DEF Views
  <2> QED
    BY <2>1, <2>2
<1>8. /\ job[t].call \in Loose \/ DOMAIN job[t].seen \subseteq DOMAIN v
      /\ job[t].call \in Loose \/ what # "read" \/ o \in DOMAIN v
  BY <1>3
<1>9. \A u \in Threads \ {t} : job'[u] = job[u]
  BY <1>4 DEF LockedInv, ObjectTypes
<1>10. /\ LocksFit(t, r)' /\ LockTypes'
       /\ \A u \in Threads \ {t} : LocksFit(u, job[u].todo)' /\ AsksFit(u, job[u].todo)'
  BY <1>1, <1>2, <1>4, <1>9, LocksStay DEF Locking
<1>11. /\ val' \in [Objects -> Whole] /\ frozen' \in [Objects -> BOOLEAN]
       /\ \A p \in Objects : frozen'[p] => "freeze" \in offer
  BY <1>4 DEF LockedInv, ObjectTypes, OffersFit
<1> QED
  BY <1>1, <1>2, <1>4, <1>7, <1>8, <1>10, <1>11, GoOnInv

LEMMA AfterType == \A n \in Nat : After(n) \in 0 .. Versions - 1
BY LockedObjectsAssumption DEF After

LEMMA WriteInv ==
  ASSUME LockedInv, NEW t \in Threads, NEW o, Write(t, o)
  PROVE  LockedInv'
<1>1. PICK what \in Writing : Due(t, what, o)
  BY DEF Write, Writing
<1>2. Advance(t) /\ UNCHANGED <<owner, depth, frozen, offer>>
  BY DEF Write
<1>3. PICK s, r : s = job[t].todo /\ r = Tail(s)
  OBVIOUS
<1>4. /\ s \in Seq(Step) /\ s # <<>> /\ 1 \in DOMAIN s /\ s[1][1] = what /\ s[1][2] = o
      /\ o \in Objects
  BY <1>1, <1>3, DueStep
<1>5. val \in [Objects -> Whole] /\ val[o] \in Whole
  BY <1>4 DEF LockedInv, ObjectTypes
<1>6. val' \in [Objects -> Whole]
  <2>1. CASE Due(t, "update", o) /\ val' = [val EXCEPT ![o] = Both(After(job[t].seen[o].second))]
    <3>1. s[1][1] = "update"
      BY <2>1, <1>3, DueStep
    <3>2. UpdatesFit(job[t].call, s, job[t].seen) /\ job[t] \in JobState
      BY <1>3 DEF LockedInv, JobFits, ObjectTypes
    <3>3. \A k \in DOMAIN s : ~(k < 1)
      BY <1>4
    <3>4. o \in DOMAIN job[t].seen
      BY <1>4, <3>1, <3>2, <3>3 DEF UpdatesFit
    <3>5. PICK S \in SUBSET Objects : job[t].seen \in [S -> Whole]
      BY <3>2 DEF JobState, Views
    <3>6. job[t].seen[o].second \in Nat
      BY <3>4, <3>5 DEF Whole
    <3>7. Both(After(job[t].seen[o].second)) \in Whole
      BY <3>6, AfterType DEF Both, Whole
    <3> QED
      BY <1>5, <2>1, <3>7
  <2>2. CASE val' = [val EXCEPT ![o] = Both(After(@.second))]
    <3>1. Both(After(val[o].second)) \in Whole
      BY <1>5, AfterType DEF Both, Whole
    <3> QED
      BY <1>5, <2>2, <3>1
  <2>3. CASE val' = [val EXCEPT ![o].first = After(@)]
    <3>1. After(val[o].first) \in 0 .. Versions - 1
      BY <1>5, AfterType DEF Whole
    <3> QED
      BY <1>5, <2>3, <3>1 DEF Whole
  <2>4. CASE val' = [val EXCEPT ![o].second = val[o].first]
    BY <1>5, <2>4 DEF Whole
  <2> QED
    BY <2>1, <2>2, <2>3, <2>4 DEF Write
<1>7. \A u \in Threads \ {t} : job'[u] = job[u]
  BY <1>2 DEF Advance, Continue, LockedInv, ObjectTypes
<1>8. /\ LocksFit(t, r)' /\ LockTypes'
      /\ \A u \in Threads \ {t} : LocksFit(u, job[u].todo)' /\ AsksFit(u, job[u].todo)'
  BY <1>1, <1>2, <1>3, <1>7, LocksStay DEF Writing, Locking
<1>9. /\ frozen' \in [Objects -> BOOLEAN]
      /\ \A p \in Objects : frozen'[p] => "freeze" \in offer
  BY <1>2 DEF LockedInv, ObjectTypes, OffersFit
<1> QED
  BY <1>1, <1>2, <1>3, <1>6, <1>8, <1>9, AdvanceInv DEF Writing

LEMMA SetFreezeInv ==
  ASSUME LockedInv, NEW t \in Threads, NEW o, SetFreeze(t, o)
  PROVE  LockedInv'
<1>1. PICK what \in {"freeze", "unfreeze"} : Due(t, what, o)
  BY DEF SetFreeze
<1>2. Advance(t) /\ UNCHANGED <<owner, depth, val, offer>>
  BY DEF SetFreeze
<1>3. PICK s, r : s = job[t].todo /\ r = Tail(s)
  OBVIOUS
<1>4. \A u \in Threads \ {t} : job'[u] = job[u]
  BY <1>2 DEF Advance, Continue, LockedInv, ObjectTypes
<1>5. /\ LocksFit(t, r)' /\ LockTypes'
      /\ \A u \in Threads \ {t} : LocksFit(u, job[u].todo)' /\ AsksFit(u, job[u].todo)'
  BY <1>1, <1>2, <1>3, <1>4, LocksStay DEF Locking
<1>6. frozen' \in [Objects -> BOOLEAN] /\ \A p \in Objects : frozen'[p] => "freeze" \in offer
  <2>1. ASSUME Due(t, "freeze", o) PROVE "freeze" \in offer
    <3>1. 1 \in DOMAIN s /\ s[1][1] = "freeze"
      BY <1>3, <2>1, DueStep
    <3>2. job[t].call = "freeze"
      BY <1>3, <3>1 DEF LockedInv, JobFits, CallFits
    <3> QED
      BY <3>2 DEF LockedInv, OffersFit
  <2>2. /\ frozen \in [Objects -> BOOLEAN] /\ o \in Objects
        /\ \A p \in Objects : frozen[p] => "freeze" \in offer
    BY <1>1, DueStep DEF LockedInv, ObjectTypes, OffersFit
  <2>3. CASE Due(t, "freeze", o) /\ frozen' = [frozen EXCEPT ![o] = TRUE]
    BY <2>1, <2>2, <2>3
  <2>4. CASE frozen' = [frozen EXCEPT ![o] = FALSE]
    <3>1. frozen' \in [Objects -> BOOLEAN]
      BY <2>2, <2>4
    <3>2. \A p \in Objects : frozen'[p] => frozen[p]
      BY <2>2, <2>4
    <3> QED
      BY <2>2, <3>1, <3>2
  <2> QED
    BY <2>3, <2>4 DEF SetFreeze
<1>7. val' \in [Objects -> Whole]
  BY <1>2 DEF LockedInv, ObjectTypes
<1> QED
  BY <1>1, <1>2, <1>3, <1>5, <1>6, <1>7, AdvanceInv

LEMMA CheckInv ==
  ASSUME LockedInv, NEW t \in Threads, NEW o, Check(t, o)
  PROVE  LockedInv'
<1>1. Due(t, "check", o) /\ UNCHANGED <<owner, depth, val, frozen, offer>>
  BY DEF Check
<1>2. PICK s, r : s = job[t].todo /\ r = Tail(s)
  OBVIOUS
<1>3. \A u \in Threads \ {t} : job'[u] = job[u]
  BY DEF Check, Advance, Continue, LockedInv, ObjectTypes
<1>4. /\ LocksFit(t, r)' /\ LockTypes'
      /\ \A u \in Threads \ {t} : LocksFit(u, job[u].todo)' /\ AsksFit(u, job[u].todo)'
  BY <1>1, <1>2, <1>3, LocksStay DEF Locking
<1>5. /\ val' \in [Objects -> Whole] /\ frozen' \in [Objects -> BOOLEAN]
      /\ \A p \in Objects : frozen'[p] => "freeze" \in offer
  BY <1>1 DEF LockedInv, ObjectTypes, OffersFit
<1>6. CASE Advance(t)
  BY <1>1, <1>2, <1>4, <1>5, <1>6, AdvanceInv
<1>7. CASE Continue(t, <<>>)
  <2>1. 1 \in DOMAIN s /\ s[1][1] = "check"
    BY <1>1, <1>2, DueStep
  <2>2. HoldsNothing(t)
    BY <1>2, <2>1 DEF LockedInv, AsksFit
  <2>3. PICK e : e = <<>>
    OBVIOUS
  <2>4. PICK j : j = [call |-> "none", todo |-> e, seen |-> <<>>]
    OBVIOUS
  <2>5. job' = [job EXCEPT ![t] = j]
    BY <1>7, <2>3, <2>4 DEF Continue, Idle
  <2>6. j \in JobState /\ j.call = "none" /\ j.todo = e /\ j.seen = <<>>
    BY <2>3, <2>4, NothingLeftFits, NothingSeen DEF JobState
  <2>7. /\ LooksFit("none", e) /\ CallFits("none", e)
        /\ UpdatesFit("none", e, <<>>) /\ ChecksFit(e) /\ Bare(e) /\ DOMAIN e = {}
    BY <2>3, NothingLeftFits, NothingSeen
  <2>8. LocksFit(t, e)' /\ AsksFit(t, e)'
    BY <1>1, <2>2, <2>7 DEF LocksFit, AsksFit, HoldsNothing
  <2> QED
    BY <1>1, <1>4, <1>5, <2>5, <2>6, <2>7, <2>8, MoveInv
<1> QED
  BY <1>6, <1>7 DEF Check

\* What a glance at o becomes: a read without the lock, or with it.
GlancesAt(o, call, w, c) ==
  \/ w = "get" /\ c = call
  \/ w = "read" /\ c = Lockless(call)

\* n is s with another first step.
Replaces(n, s, e) ==
  /\ n \in Seq(Step) /\ Len(n) = Len(s) /\ DOMAIN n = DOMAIN s
  /\ n[1] = e /\ \A i \in DOMAIN s \ {1} : n[i] = s[i]

LEMMA ReplacedMarks ==
  ASSUME NEW s, NEW n, NEW e, Replaces(n, s, e), 1 \in DOMAIN s,
         e[1] \notin Locking, s[1][1] \notin Locking
  PROVE  Marks(n) = Marks(s) /\ \A i \in Marks(s) : n[i] = s[i]
BY DEF Replaces, Marks

LEMMA TwoLocksAt ==
  ASSUME NEW s, NEW x \in Objects, NEW y \in Objects,
         NEW i \in DOMAIN s, NEW j \in DOMAIN s, NEW k \in DOMAIN s, NEW l \in DOMAIN s,
         i < j /\ j < k /\ k < l /\ Marks(s) = {i, j, k, l},
         s[i] = Do("lock", x) /\ s[j] = Do("lock", y),
         s[k] = Do("unlock", y) /\ s[l] = Do("unlock", x)
  PROVE  LocksTwo(s, x, y)
BY Zenon DEF LocksTwo

\* The locks to come are the same.
LEMMA ReplacedShape ==
  ASSUME NEW t \in Threads, NEW s, NEW n, DOMAIN n = DOMAIN s,
         Marks(n) = Marks(s), \A i \in Marks(s) : n[i] = s[i],
         LocksFit(t, s), UNCHANGED <<owner, depth>>
  PROVE  LocksFit(t, n)'
<1>1. /\ HoldsNothing(t)' <=> HoldsNothing(t)
      /\ \A x \in Objects : HoldsOne(t, x)' <=> HoldsOne(t, x)
      /\ \A x, y \in Objects : HoldsTwo(t, x, y)' <=> HoldsTwo(t, x, y)
  BY DEF HoldsNothing, HoldsOne, HoldsTwo
<1>2. Bare(s) => Bare(n)
  BY DEF Bare
<1>3. \A x \in Objects : (LocksOne(s, x) => LocksOne(n, x)) /\ (InOne(s, x) => InOne(n, x))
  BY DEF LocksOne, InOne
<1>4. \A x, y \in Objects : LocksTwo(s, x, y) => LocksTwo(n, x, y)
  <2> SUFFICES ASSUME NEW x \in Objects, NEW y \in Objects, LocksTwo(s, x, y)
               PROVE  LocksTwo(n, x, y)
    OBVIOUS
  <2>1. PICK i, j, k, l \in DOMAIN s :
          /\ i < j /\ j < k /\ k < l /\ Marks(s) = {i, j, k, l}
          /\ s[i] = Do("lock", x) /\ s[j] = Do("lock", y)
          /\ s[k] = Do("unlock", y) /\ s[l] = Do("unlock", x)
    BY DEF LocksTwo
  <2>2. /\ i \in DOMAIN n /\ j \in DOMAIN n /\ k \in DOMAIN n /\ l \in DOMAIN n
        /\ i < j /\ j < k /\ k < l /\ Marks(n) = {i, j, k, l}
        /\ n[i] = Do("lock", x) /\ n[j] = Do("lock", y)
        /\ n[k] = Do("unlock", y) /\ n[l] = Do("unlock", x)
    BY <2>1
  <2> QED
    BY <2>2, TwoLocksAt
<1>5. \A x, y \in Objects : InFirst(s, x, y) => InFirst(n, x, y)
  BY DEF InFirst
<1>6. \A x, y \in Objects : InBoth(s, x, y) => InBoth(n, x, y)
  BY DEF InBoth
<1> QED
  BY <1>1, <1>2, <1>3, <1>4, <1>5, <1>6, Zenon DEF LocksFit

\* What is then to come fits the call, also one that has become a loose one,
\* and whatever it has seen.
LEMMA GlancedFits ==
  ASSUME NEW call, NEW s \in Seq(Step), s # <<>>, NEW o \in Objects, s[1] = Do("glance", o),
         CallFits(call, s), ChecksFit(s), LooksFit(call, s), NEW views,
         NEW w, NEW c, GlancesAt(o, call, w, c), NEW n, Replaces(n, s, Do(w, o))
  PROVE  /\ LooksFit(c, n) /\ CallFits(c, n) /\ UpdatesFit(c, n, views) /\ ChecksFit(n)
<1>1. /\ w \in {"read", "get"} /\ 1 \in DOMAIN s /\ s[1][1] = "glance"
      /\ DOMAIN n = DOMAIN s /\ n[1][1] = w /\ Len(n) = Len(s)
      /\ \A i \in DOMAIN s \ {1} : n[i] = s[i]
  BY DEF GlancesAt, Replaces, Do
<1>2. Bare(s) => Bare(n)
  BY <1>1 DEF Bare, Marks, Locking
<1>3. /\ call \in Nesting \/ Bare(s)
      /\ \A k \in DOMAIN s : s[k][1] \notin {"update", "freeze"}
      /\ call \in Loose \/ \A k \in DOMAIN s : s[k][1] \in Brief \union {"glance"} => k = 1
  BY <1>1 DEF CallFits, GlancesFit
<1>4. UpdatesFit(c, n, views) /\ ChecksFit(n)
  BY <1>1, <1>3 DEF UpdatesFit, ChecksFit
<1>5. LooksFit(c, n)
  BY <1>1 DEF LooksFit
<1>6. CASE c = call
  <2>1. GlancesFit(c, n)
    BY <1>1, <1>2, <1>3, <1>6 DEF GlancesFit, CallFits
  <2>2. c \in Ending => Only(n, Seeing \union Locking \union {"put"})
    BY <1>1, <1>6 DEF CallFits, Only, Seeing
  <2>3. \A i \in DOMAIN n : n[i][1] # "freeze"
    BY <1>1, <1>3
  <2> QED
    BY <1>2, <1>3, <1>4, <1>5, <1>6, <2>1, <2>2, <2>3 DEF CallFits
<1>7. CASE call \notin Loose /\ c = "lockless" /\ w = "read"
  <2>1. \A k \in DOMAIN n : n[k][1] \notin Brief \union {"glance"}
    BY <1>1, <1>3, <1>7 DEF Brief
  <2>2. \A i \in DOMAIN n : n[i][1] # "freeze"
    BY <1>1, <1>3
  <2>3. GlancesFit(c, n)
    BY <2>1 DEF GlancesFit
  <2> QED
    BY <1>4, <1>5, <1>7, <2>1, <2>2, <2>3 DEF CallFits, Ending
<1> QED
  BY <1>4, <1>5, <1>6, <1>7 DEF GlancesAt, Lockless

\* What a glance does to the call of its thread.
LEMMA Glanced ==
  ASSUME LockedInv, NEW t \in Threads, NEW o, GlanceFirst(t, o)
  PROVE  \E w, c, n, v, j :
           /\ j \in JobState
           /\ GlancesAt(o, job[t].call, w, c) /\ Replaces(n, job[t].todo, Do(w, o))
           /\ v = IF w = "read" THEN <<>> ELSE job[t].seen
           /\ job' = [job EXCEPT ![t] = j] /\ j.call = c /\ j.todo = n /\ j.seen = v
<1> PICK s : s = job[t].todo
  OBVIOUS
<1>1. Due(t, "glance", o) /\ job \in [Threads -> JobState]
  BY DEF GlanceFirst, LockedInv, ObjectTypes
<1>2. s \in Seq(Step) /\ s # <<>> /\ 1 \in DOMAIN s /\ o \in Objects
  BY <1>1, DueStep
<1>3. PICK w, c, v : /\ w = IF frozen[o] THEN "read" ELSE "get"
                     /\ c = IF frozen[o] THEN Lockless(job[t].call) ELSE job[t].call
                     /\ v = IF frozen[o] THEN <<>> ELSE job[t].seen
  OBVIOUS
<1>4. GlancesAt(o, job[t].call, w, c) /\ w \in {"read", "get"}
  BY <1>3 DEF GlancesAt
<1>5. Do(w, o) \in Step
  BY <1>2, <1>4, DoTypes DEF Words, Seeing
<1>6. PICK n : n = [s EXCEPT ![1] = Do(w, o)]
  OBVIOUS
<1>7. Replaces(n, s, Do(w, o))
  BY <1>2, <1>5, <1>6 DEF Replaces
<1>8. job' = [job EXCEPT ![t].call = c, ![t].todo[1] = Do(w, o), ![t].seen = v]
  BY <1>3 DEF GlanceFirst
<1>9. PICK j : j = [[[job[t] EXCEPT !.call = c] EXCEPT !.todo = n] EXCEPT !.seen = v]
  OBVIOUS
<1>10. job' = [job EXCEPT ![t] = j]
  BY <1>1, <1>6, <1>8, <1>9 DEF JobState
<1>11. c \in Kinds \union {"none", "lockless"} /\ n \in Seq(Step) /\ job[t] \in JobState
  BY <1>1, <1>3, <1>7 DEF JobState, Lockless, Replaces
<1>12. v \in Views /\ v = IF w = "read" THEN <<>> ELSE job[t].seen
  BY <1>3, <1>11, NothingSeen DEF JobState
<1>13. j \in JobState /\ j.call = c /\ j.todo = n /\ j.seen = v
  BY <1>9, <1>11, <1>12 DEF JobState
<1> QED
  BY <1>4, <1>7, <1>10, <1>12, <1>13

LEMMA GlanceFirstInv ==
  ASSUME LockedInv, NEW t \in Threads, NEW o, GlanceFirst(t, o)
  PROVE  LockedInv'
<1>1. PICK w, c, n, v, j :
        /\ j \in JobState
        /\ GlancesAt(o, job[t].call, w, c) /\ Replaces(n, job[t].todo, Do(w, o))
        /\ job' = [job EXCEPT ![t] = j] /\ j.call = c /\ j.todo = n /\ j.seen = v
  BY Glanced
<1>2. Due(t, "glance", o) /\ UNCHANGED <<owner, depth, val, frozen, offer>>
  BY DEF GlanceFirst
<1> PICK s, call : s = job[t].todo /\ call = job[t].call
  OBVIOUS
<1>3. /\ s \in Seq(Step) /\ s # <<>> /\ 1 \in DOMAIN s /\ s[1] = Do("glance", o)
      /\ s[1][1] = "glance" /\ o \in Objects
  BY <1>2, DueStep
<1>4. LooksFit(call, s) /\ CallFits(call, s) /\ ChecksFit(s) /\ LocksFit(t, s)
  BY DEF LockedInv, JobFits
<1>5. GlancesAt(o, call, w, c) /\ Replaces(n, s, Do(w, o))
  BY <1>1
<1>6. LooksFit(c, n) /\ CallFits(c, n) /\ UpdatesFit(c, n, v) /\ ChecksFit(n)
  BY <1>3, <1>4, <1>5, GlancedFits
<1>7. Do(w, o)[1] \notin Locking /\ s[1][1] \notin Locking
  BY <1>3, <1>5 DEF GlancesAt, Do, Locking
<1>8. /\ DOMAIN n = DOMAIN s /\ n[1] = Do(w, o) /\ Marks(n) = Marks(s)
      /\ \A i \in Marks(s) : n[i] = s[i]
  BY <1>3, <1>5, <1>7, ReplacedMarks DEF Replaces
<1>9. LocksFit(t, n)'
  BY <1>2, <1>4, <1>8, ReplacedShape
<1>10. AsksFit(t, n)'
  <2>1. \A i \in DOMAIN n : n[i][1] # "check"
    BY <1>5, <1>6, <1>8 DEF ChecksFit, GlancesAt, Do
  <2> QED
    BY <2>1 DEF AsksFit
<1>11. \A u \in Threads \ {t} : job'[u] = job[u]
  BY <1>1 DEF LockedInv, ObjectTypes
<1>12. \A u \in Threads \ {t} : LocksFit(u, job[u].todo)' /\ AsksFit(u, job[u].todo)'
  BY <1>2, <1>11, OthersInv
<1>13. /\ LockTypes' /\ val' \in [Objects -> Whole] /\ frozen' \in [Objects -> BOOLEAN]
       /\ \A p \in Objects : frozen'[p] => "freeze" \in offer
  BY <1>2 DEF LockedInv, ObjectTypes, OffersFit, LockTypes
<1>14. c \in offer \union {"none", "lockless"}
  BY <1>5 DEF LockedInv, OffersFit, GlancesAt, Lockless
<1> QED
  BY <1>1, <1>2, <1>6, <1>9, <1>10, <1>12, <1>13, <1>14, MoveInv

\* What a look leads to.
LookBranch(s, c, a) ==
  \/ c = "lookNest" /\ a = s[1][4]
  \/ c = "lockless" /\ a = s[1][3]

LEMMA LookedFits ==
  ASSUME NEW s \in Seq(Step), s # <<>>, s[1][1] = "look",
         NEW call, LooksFit(call, s), NEW c, NEW a, LookBranch(s, c, a)
  PROVE  /\ call = "lookNest" /\ Len(s) = 1 /\ Bare(s)
         /\ a \in Seq(Step) /\ Only(a, Seeing \union Locking)
         /\ LooksFit(c, a) /\ CallFits(c, a) /\ ChecksFit(a)
         /\ Bare(a) \/ \E x \in Objects : LocksOne(a, x)
<1>1. 1 \in DOMAIN s /\ s[1] \in Step
  OBVIOUS
<1>2. /\ call = "lookNest" /\ Len(s) = 1
      /\ Only(s[1][3], Seeing) /\ Only(s[1][4], Seeing \union Locking)
      /\ GlancesFit("lookNest", s[1][4]) /\ \E x \in Objects : LocksOne(s[1][4], x)
  BY <1>1 DEF LooksFit
<1>3. Bare(s)
  BY <1>2 DEF Bare, Marks, Locking
<1>4. a \in Seq(Step)
  <2>1. s[1] \in {"look"} \X Objects \X Seq(Plain) \X Seq(Plain)
    BY <1>1 DEF Step, Plain, Words, Locking, Seeing, Writing
  <2> QED
    BY <2>1 DEF Step, LookBranch
<1>5. Only(a, Seeing \union Locking)
  BY <1>2 DEF LookBranch, Only
<1>6. LooksFit(c, a) /\ ChecksFit(a) /\ \A i \in DOMAIN a : a[i][1] \notin {"update", "freeze"}
  BY <1>5 DEF LooksFit, ChecksFit, Only, Seeing, Locking
<1>7. CASE c = "lookNest" /\ a = s[1][4]
  <2>1. CallFits(c, a)
    BY <1>2, <1>6, <1>7 DEF CallFits, Ending, Nesting
  <2> QED
    BY <1>2, <1>3, <1>4, <1>5, <1>6, <1>7, <2>1
<1>8. CASE c = "lockless" /\ a = s[1][3]
  <2>1. Bare(a)
    BY <1>2, <1>8 DEF Bare, Marks, Only, Seeing, Locking
  <2>2. CallFits(c, a)
    BY <1>6, <1>8, <2>1 DEF CallFits, GlancesFit, Ending, Loose
  <2> QED
    BY <1>2, <1>3, <1>4, <1>5, <1>6, <2>1, <2>2
<1> QED
  BY <1>7, <1>8 DEF LookBranch

\* What a look does to the call of its thread.
LEMMA Looked ==
  ASSUME LockedInv, NEW t \in Threads, NEW o, LookFirst(t, o)
  PROVE  \E c, a, j :
           /\ j \in JobState
           /\ LookBranch(job[t].todo, c, a)
           /\ job' = [job EXCEPT ![t] = j] /\ j.call = c /\ j.todo = a /\ j.seen = job[t].seen
<1> PICK s : s = job[t].todo
  OBVIOUS
<1>1. Due(t, "look", o) /\ job \in [Threads -> JobState]
  BY DEF LookFirst, LockedInv, ObjectTypes
<1>2. /\ s \in Seq(Step) /\ s # <<>> /\ 1 \in DOMAIN s /\ Head(s) = s[1] /\ s[1][1] = "look"
  BY <1>1, DueStep
<1>3. LooksFit(job[t].call, s) /\ job[t].call = "lookNest"
  BY <1>2 DEF LockedInv, JobFits, LooksFit
<1>4. PICK a, c : /\ a = IF frozen[o] THEN s[1][3] ELSE s[1][4]
                  /\ c = IF frozen[o] THEN "lockless" ELSE "lookNest"
  OBVIOUS
<1>5. LookBranch(s, c, a)
  BY <1>4 DEF LookBranch
<1>6. a \in Seq(Step) /\ Len(s) = 1
  BY <1>2, <1>3, <1>5, LookedFits
<1>7. a \o Tail(s) = a
  <2>1. Tail(s) = <<>>
    <3>1. PICK r : r = Tail(s)
      OBVIOUS
    <3>2. r \in Seq(Step) /\ Len(r) = 0
      BY <1>2, <1>6, <3>1, TailSteps
    <3> QED
      BY <3>1, <3>2
  <2> QED
    BY <1>6, <2>1, ConcatEmptySeq
<1>8. job' = [job EXCEPT ![t].call = c, ![t].todo = a]
  BY <1>2, <1>3, <1>4, <1>7 DEF LookFirst, Lockless, Loose
<1>9. PICK j : j = [[job[t] EXCEPT !.call = c] EXCEPT !.todo = a]
  OBVIOUS
<1>10. j \in JobState /\ j.call = c /\ j.todo = a /\ j.seen = job[t].seen
  BY <1>1, <1>4, <1>6, <1>9 DEF JobState, Kinds
<1>11. job' = [job EXCEPT ![t] = j]
  BY <1>1, <1>8, <1>9
<1> QED
  BY <1>5, <1>10, <1>11

LEMMA LookFirstInv ==
  ASSUME LockedInv, NEW t \in Threads, NEW o, LookFirst(t, o)
  PROVE  LockedInv'
<1>1. PICK c, n, j :
        /\ j \in JobState
        /\ LookBranch(job[t].todo, c, n)
        /\ job' = [job EXCEPT ![t] = j] /\ j.call = c /\ j.todo = n
  BY Looked
<1>2. UNCHANGED <<owner, depth, val, frozen, offer>> /\ Due(t, "look", o)
  BY DEF LookFirst
<1> PICK s, call : s = job[t].todo /\ call = job[t].call
  OBVIOUS
<1>3. /\ s \in Seq(Step) /\ s # <<>> /\ s[1][1] = "look" /\ LooksFit(call, s)
      /\ LookBranch(s, c, n)
  BY <1>1, <1>2, DueStep DEF LockedInv, JobFits
<1>4. /\ call = "lookNest" /\ Bare(s)
      /\ Only(n, Seeing \union Locking)
      /\ LooksFit(c, n) /\ CallFits(c, n) /\ ChecksFit(n)
      /\ Bare(n) \/ \E x \in Objects : LocksOne(n, x)
  BY <1>3, LookedFits
<1>5. PICK v : j.seen = v
  OBVIOUS
<1>6. \A i \in DOMAIN n : n[i][1] \notin {"update", "check"}
  BY <1>4 DEF Only, Seeing, Locking
<1>7. UpdatesFit(c, n, v)
  BY <1>6 DEF UpdatesFit
<1>8. HoldsNothing(t)'
  <2>1. LocksFit(t, s)
    BY DEF LockedInv
  <2> QED
    BY <1>2, <1>4, <2>1, BareHolds DEF HoldsNothing
<1>9. LocksFit(t, n)' /\ AsksFit(t, n)'
  BY <1>4, <1>6, <1>8 DEF LocksFit, AsksFit
<1>10. \A u \in Threads \ {t} : job'[u] = job[u]
  BY <1>1 DEF LockedInv, ObjectTypes
<1>11. \A u \in Threads \ {t} : LocksFit(u, job[u].todo)' /\ AsksFit(u, job[u].todo)'
  BY <1>2, <1>10, OthersInv
<1>12. /\ LockTypes' /\ val' \in [Objects -> Whole] /\ frozen' \in [Objects -> BOOLEAN]
       /\ \A p \in Objects : frozen'[p] => "freeze" \in offer
  BY <1>2 DEF LockedInv, ObjectTypes, OffersFit, LockTypes
<1>13. c \in offer \union {"none", "lockless"}
  BY <1>3, <1>4 DEF LockedInv, OffersFit, LookBranch
<1> QED
  BY <1>1, <1>2, <1>4, <1>5, <1>7, <1>9, <1>11, <1>12, <1>13, MoveInv

-----------------------------------------------------------------------------
(* The invariant holds.                                                    *)

LEMMA InitInv == Init => LockedInv
<1> SUFFICES ASSUME Init PROVE LockedInv
  OBVIOUS
<1>1. \A t \in Threads : job[t].call = "none" /\ job[t].todo = <<>> /\ job[t].seen = <<>>
  BY DEF Init, Idle
<1>2. ObjectTypes
  <2>1. [call |-> "none", todo |-> <<>>, seen |-> <<>>] \in JobState
    BY NothingLeftFits, NothingSeen DEF JobState
  <2>2. job \in [Threads -> JobState]
    BY <2>1 DEF Init, Idle
  <2>3. val \in [Objects -> Whole]
    BY LockedObjectsAssumption DEF Init, Whole
  <2> QED
    BY <2>2, <2>3 DEF Init, ObjectTypes, LockTypes
<1>3. OffersFit
  BY <1>1 DEF OffersFit, Init
<1>4. ASSUME NEW t \in Threads
      PROVE  JobFits(job[t]) /\ LocksFit(t, job[t].todo) /\ AsksFit(t, job[t].todo)
  <2>1. HoldsNothing(t)
    BY LockedObjectsAssumption DEF Init, HoldsNothing
  <2>2. JobFits(job[t]) /\ Bare(job[t].todo)
    BY <1>1, NothingLeftFits DEF JobFits
  <2> QED
    BY <2>1, <2>2 DEF LocksFit, AsksFit
<1> QED
  BY <1>2, <1>3, <1>4 DEF LockedInv

LEMMA StutterInv ==
  ASSUME LockedInv, UNCHANGED vars
  PROVE  LockedInv'
<1>1. UNCHANGED <<owner, depth, val, frozen, job, offer>>
  BY DEF vars
<1>2. ObjectTypes' /\ OffersFit'
  BY <1>1 DEF LockedInv, ObjectTypes, LockTypes, OffersFit
<1>3. ASSUME NEW t \in Threads
      PROVE  JobFits(job[t])' /\ LocksFit(t, job[t].todo)' /\ AsksFit(t, job[t].todo)'
  <2>1. JobFits(job[t]) /\ LocksFit(t, job[t].todo) /\ AsksFit(t, job[t].todo)
    BY DEF LockedInv
  <2>2. LocksFit(t, job[t].todo)' /\ AsksFit(t, job[t].todo)'
    BY <1>1, <2>1, OthersKeepLocks
  <2> QED
    BY <1>1, <2>1, <2>2 DEF JobFits
<1> QED
  BY <1>2, <1>3 DEF LockedInv

LEMMA LockedInvariant == Spec => []LockedInv
<1>1. LockedInv /\ [Next]_vars => LockedInv'
  <2> SUFFICES ASSUME LockedInv, [Next]_vars PROVE LockedInv'
    OBVIOUS
  <2>1. ASSUME NEW t \in Threads, Begin(t) PROVE LockedInv'
    BY <2>1, BeginInv
  <2>2. ASSUME NEW t \in Threads, Proceed(t) PROVE LockedInv'
    <3>1. PICK o : \/ Acquire(t, o) \/ Release(t, o)
                   \/ Read(t, o) \/ Write(t, o)
                   \/ Check(t, o) \/ GlanceFirst(t, o) \/ LookFirst(t, o)
                   \/ SetFreeze(t, o)
      BY <2>2 DEF Proceed
    <3> QED
      BY <3>1, AcquireInv, ReleaseInv, ReadInv, WriteInv, CheckInv, GlanceFirstInv,
         LookFirstInv, SetFreezeInv
  <2>3. CASE UNCHANGED vars
    BY <2>3, StutterInv
  <2> QED
    BY <2>1, <2>2, <2>3 DEF Next
<1> QED
  BY <1>1, InitInv, PTL DEF Spec

-----------------------------------------------------------------------------
(* Types and deadlock.                                                     *)

\* Values and locks are of their types whatever the threads do, also the ones
\* of a counter that update writes from what its call has seen; no lock is
\* released more often than it was taken (the RLocks of all classes).
THEOREM TypeCorrect == Spec => []LockedTypeOK
<1>1. LockedInv => LockedTypeOK
  BY DEF LockedInv, ObjectTypes, LockTypes, LockedTypeOK, JobState
<1> QED
  BY <1>1, LockedInvariant, PTL

LEMMA LargestNatural ==
  ASSUME NEW S \in SUBSET Nat, S # {}, IsFiniteSet(S)
  PROVE  \E m \in S : \A n \in S : n <= m
<1> DEFINE Above(n) == {p \in S : n <= p}
           Sets == {Above(n) : n \in S}
<1>1. IsWellFoundedOn(StrictSubsetOrdering(S), SUBSET S)
  BY FS_StrictSubsetOrderingWellFounded, FS_FiniteSubsetsOfFinite
<1>2. Sets \subseteq SUBSET S /\ Sets # {}
  OBVIOUS
<1>3. PICK a \in Sets : \A b \in Sets : <<b, a>> \notin StrictSubsetOrdering(S)
  <2> HIDE DEF Sets
  <2> QED
    BY <1>1, <1>2, WFMin
<1>4. PICK m \in S : a = Above(m)
  OBVIOUS
<1>5. ASSUME NEW n \in S, m < n PROVE FALSE
  <2>1. Above(n) \in Sets
    OBVIOUS
  <2>2. Above(n) \subseteq Above(m)
    <3>1. \A p \in S : n <= p => m <= p
      BY <1>5
    <3> QED
      BY <3>1, Zenon
  <2>3. m \in Above(m) /\ m \notin Above(n)
    BY <1>5
  <2>4. <<Above(n), a>> \in StrictSubsetOrdering(S)
    BY <1>4, <2>2, <2>3 DEF StrictSubsetOrdering
  <2> QED
    BY <1>3, <2>1, <2>4
<1> QED
  BY <1>5

\* A call that does not nest has the lower of its two locks when it waits.
LEMMA WaitsUpwards ==
  ASSUME LockedInv, NEW t \in Threads, job[t].call \notin Nesting,
         NEW what \in Brief \union {"lock"}, NEW o, Due(t, what, o), owner[o] # t,
         NEW x \in Objects, owner[x] = t
  PROVE  o \in Objects /\ x < o
<1>1. PICK s, r : s = job[t].todo /\ r = Tail(s)
  OBVIOUS
<1>2. /\ s \in Seq(Step) /\ s # <<>> /\ 1 \in DOMAIN s /\ s[1][1] = what /\ o \in Objects
      /\ s[1] = Do(what, o)
  BY <1>1, DueStep DEF Brief
<1>3. LocksFit(t, s) /\ CallFits(job[t].call, s)
  BY <1>1 DEF LockedInv, JobFits
<1>4. ~HoldsNothing(t)
  BY DEF HoldsNothing
<1>5. ~Bare(s)
  BY <1>3, <1>4, BareHolds
<1>6. what = "lock"
  BY <1>2, <1>3, <1>5 DEF CallFits
<1>7. PICK y, z \in Objects : y <= z /\ HoldsOne(t, y) /\ InFirst(s, y, z)
  <2>1. \A p, q \in Objects : ~InOne(s, p) /\ ~InBoth(s, p, q)
    BY <1>1, <1>2, <1>6, LockShape
  <2> QED
    BY <1>3, <1>4, <2>1 DEF LocksFit
<1>8. z = o
  BY <1>1, <1>2, <1>6, <1>7, LockShape
<1>9. x = y /\ x # o
  BY <1>7 DEF HoldsOne
<1> QED
  BY <1>2, <1>7, <1>8, <1>9, LockedObjectsAssumption

\* Threads that wait for each other in a circle do so because of a call that
\* takes a lock in the middle of its critical section: the methods that take
\* both locks in the order of the operands' ids, as the binary operations of
\* the sync types do, are safe among themselves, for any number of threads and
\* objects.
THEOREM CirclesNeedNesting == Spec => []CircleHasNesting
<1>1. ASSUME LockedInv, NEW S \in SUBSET Threads, Circle(S),
             \A t \in S : job[t].call \notin Nesting
      PROVE  FALSE
  <2> DEFINE W == {o \in Objects : \E t \in S, what \in Brief \union {"lock"} :
                     Due(t, what, o) /\ owner[o] \in S \ {t}}
  <2>1. ASSUME NEW u \in S
        PROVE  \E o \in W : \A x \in Objects : owner[x] = u => x < o
    <3>1. PICK v \in S, o \in Objects, what \in Brief \union {"lock"} :
            Due(u, what, o) /\ owner[o] = v /\ v # u
      BY <1>1, <2>1 DEF Circle, Blocks
    <3>2. o \in W
      BY <3>1
    <3>3. \A x \in Objects : owner[x] = u => x < o
      BY <1>1, <3>1, WaitsUpwards
    <3> QED
      BY <3>2, <3>3
  <2>2. W # {} /\ W \in SUBSET Nat /\ IsFiniteSet(W)
    BY <1>1, <2>1, LockedObjectsAssumption, FS_Subset DEF Circle
  <2>3. PICK m \in W : \A n \in W : n <= m
    BY <2>2, LargestNatural
  <2>4. PICK u \in S : owner[m] = u
    BY <2>3
  <2>5. PICK o \in W : m < o
    BY <2>1, <2>3, <2>4
  <2> QED
    BY <2>2, <2>3, <2>5
<1>2. LockedInv => CircleHasNesting
  BY <1>1 DEF CircleHasNesting
<1> QED
  BY <1>2, LockedInvariant, PTL

-----------------------------------------------------------------------------
(* Freezing.                                                               *)

\* A thread takes the step that is due, or its call ends.
LEMMA StepTaken ==
  ASSUME LockedInv, NEW t \in Threads, NEW o,
         \/ Acquire(t, o) \/ Release(t, o) \/ Read(t, o) \/ Write(t, o)
         \/ Check(t, o) \/ SetFreeze(t, o)
  PROVE  /\ \A u \in Threads \ {t} : job'[u] = job[u]
         /\ job[t].todo # <<>>
         /\ \/ job'[t].todo = <<>>
            \/ /\ job'[t].call = job[t].call /\ job'[t].todo = Tail(job[t].todo)
               /\ ~(Due(t, "check", o) /\ frozen[o])
<1>1. job \in [Threads -> JobState] /\ job[t] \in JobState
  BY DEF LockedInv, ObjectTypes
<1>2. /\ \A u \in Threads \ {t} : job'[u] = job[u]
      /\ job[t].todo # <<>>
  BY <1>1 DEF Acquire, Release, Read, Write, Check, SetFreeze, Advance, Continue, Due
<1>3. ASSUME Advance(t), ~(Due(t, "check", o) /\ frozen[o])
      PROVE  \/ job'[t].todo = <<>>
             \/ /\ job'[t].call = job[t].call /\ job'[t].todo = Tail(job[t].todo)
                /\ ~(Due(t, "check", o) /\ frozen[o])
  <2>1. CASE Tail(job[t].todo) = <<>>
    BY <1>1, <1>3, <2>1 DEF Advance, Continue, Idle
  <2>2. CASE Tail(job[t].todo) # <<>>
    <3>1. job'[t] = [job[t] EXCEPT !.todo = Tail(job[t].todo)]
      BY <1>1, <1>3, <2>2 DEF Advance, Continue
    <3> QED
      BY <1>1, <1>3, <3>1 DEF JobState
  <2> QED
    BY <2>1, <2>2
<1>4. CASE Acquire(t, o) \/ Release(t, o) \/ Write(t, o) \/ SetFreeze(t, o)
  BY <1>2, <1>3, <1>4 DEF Acquire, Release, Write, SetFreeze, Due
<1>5. CASE Read(t, o)
  <2>1. PICK r, v : /\ r = Tail(job[t].todo)
                    /\ job' = [job EXCEPT ![t] =
                                 IF r = <<>> THEN Idle ELSE [@ EXCEPT !.todo = r, !.seen = v]]
    BY <1>5 DEF Read
  <2>2. ~Due(t, "check", o)
    BY <1>5 DEF Read, Due
  <2>3. CASE r = <<>>
    BY <1>1, <1>2, <2>1, <2>3 DEF Idle
  <2>4. CASE r # <<>>
    <3>1. job'[t] = [job[t] EXCEPT !.todo = r, !.seen = v]
      BY <1>1, <2>1, <2>4
    <3>2. job'[t].call = job[t].call /\ job'[t].todo = r
      BY <1>1, <3>1 DEF JobState
    <3> QED
      BY <1>2, <2>1, <2>2, <3>2
  <2> QED
    BY <2>3, <2>4
<1>6. CASE Check(t, o)
  <2>1. CASE frozen[o]
    BY <1>1, <1>2, <1>6, <2>1 DEF Check, Continue, Idle
  <2>2. CASE ~frozen[o]
    BY <1>2, <1>3, <1>6, <2>2 DEF Check
  <2> QED
    BY <2>1, <2>2
<1> QED
  BY <1>4, <1>5, <1>6

\* Nobody comes past the check on a frozen collection.
LEMMA StaysSettled ==
  ASSUME LockedInv, Next, NEW o \in Objects, Settled(o), NEW u \in Threads,
         Yet(u, Writing, o)'
  PROVE  Yet(u, {"check"}, o)' \/ job'[u].call \in Ending
<1>1. frozen[o] /\ (Yet(u, Writing, o) => Yet(u, {"check"}, o) \/ job[u].call \in Ending)
  BY DEF Settled, Writing
<1>2. CASE job'[u] = job[u]
  BY <1>1, <1>2 DEF Yet
<1>3. CASE Begin(u)
  <2>1. PICK k \in offer, x, y \in Objects :
          job' = [job EXCEPT ![u] = [Idle EXCEPT !.call = k, !.todo = Script[k][x][y]]]
    BY <1>3 DEF Begin
  <2>2. k \in Kinds /\ offer \in Families
    BY LockedObjectsAssumption DEF LockedInv, ObjectTypes
  <2>3. PICK s : s = Script[k][x][y]
    OBVIOUS
  <2>4. Asks(k, s)
    BY <2>2, <2>3, ScriptBegins DEF Begins
  <2>5. job'[u].call = k /\ job'[u].todo = s
    <3>1. job'[u] = [Idle EXCEPT !.call = k, !.todo = s]
      BY <2>1, <2>3 DEF LockedInv, ObjectTypes
    <3> QED
      BY <3>1 DEF Idle
  <2>6. k \notin {"set", "update", "pairUpdate", "nestUpdate", "rawUpdate"}
    BY <1>1, <2>2, FreezeAssumption DEF LockedInv, OffersFit
  <2>7. PICK i \in DOMAIN s : s[i][1] \in Writing /\ s[i][2] = o
    BY <2>5 DEF Yet
  <2>8. k \in Ending \/ \E n \in DOMAIN s : s[n] = Do("check", o)
    BY <2>4, <2>6, <2>7 DEF Asks
  <2> QED
    BY <2>5, <2>8 DEF Yet, Do
<1>4. ASSUME NEW p, LookFirst(u, p) PROVE FALSE
  <2>1. PICK c, n, j :
          /\ j \in JobState
          /\ LookBranch(job[u].todo, c, n)
          /\ job' = [job EXCEPT ![u] = j] /\ j.todo = n
    BY <1>4, Looked
  <2>2. PICK s : s = job[u].todo
    OBVIOUS
  <2>3. s \in Seq(Step) /\ s # <<>> /\ s[1][1] = "look" /\ LooksFit(job[u].call, s)
    BY <1>4, <2>2, DueStep DEF LookFirst, LockedInv, JobFits
  <2>4. Only(n, Seeing \union Locking)
    BY <2>1, <2>2, <2>3, LookedFits
  <2>5. job'[u].todo = n
    BY <2>1 DEF LockedInv, ObjectTypes
  <2> QED
    BY <2>4, <2>5 DEF Yet, Only, Seeing, Locking, Writing
<1>7. ASSUME NEW p, GlanceFirst(u, p)
      PROVE  Yet(u, {"check"}, o)' \/ job'[u].call \in Ending
  <2>1. PICK w, c, n, j :
          /\ j \in JobState
          /\ GlancesAt(p, job[u].call, w, c) /\ Replaces(n, job[u].todo, Do(w, p))
          /\ job' = [job EXCEPT ![u] = j] /\ j.call = c /\ j.todo = n
    BY <1>7, Glanced
  <2>2. PICK s : s = job[u].todo
    OBVIOUS
  <2>3. 1 \in DOMAIN s /\ s[1][1] = "glance" /\ job'[u].todo = n /\ job'[u].call = c
    <3>1. 1 \in DOMAIN s /\ s[1][1] = "glance"
      BY <1>7, <2>2, DueStep DEF GlanceFirst
    <3>2. job'[u] = j
      BY <2>1 DEF LockedInv, ObjectTypes
    <3> QED
      BY <2>1, <3>1, <3>2
  <2>4. /\ DOMAIN n = DOMAIN s /\ n[1][1] \in {"read", "get"}
        /\ \A i \in DOMAIN s \ {1} : n[i] = s[i]
    BY <2>1, <2>2 DEF Replaces, GlancesAt, Do
  <2>5. Yet(u, Writing, o)
    BY <2>2, <2>3, <2>4 DEF Yet, Writing
  <2>6. Yet(u, {"check"}, o) => Yet(u, {"check"}, o)'
    BY <2>2, <2>3, <2>4 DEF Yet
  <2>7. job[u].call \in Ending => c \in Ending
    <3>1. CallFits(job[u].call, s)
      BY <2>2 DEF LockedInv, JobFits
    <3>2. CASE job[u].call = "dispose"
      BY <2>3, <3>1, <3>2 DEF CallFits, GlancesFit, Nesting, Loose
    <3>3. CASE job[u].call = "session"
      BY <2>1, <3>3 DEF GlancesAt, Lockless, Loose
    <3> QED
      BY <3>2, <3>3 DEF Ending
  <2> QED
    BY <1>1, <2>3, <2>5, <2>6, <2>7
<1>5. ASSUME NEW p, p = Head(job[u].todo)[2],
             \/ Acquire(u, p) \/ Release(u, p) \/ Read(u, p) \/ Write(u, p)
             \/ Check(u, p) \/ SetFreeze(u, p)
      PROVE  job'[u].call \in Ending
  <2>1. PICK s, r : s = job[u].todo /\ r = Tail(s)
    OBVIOUS
  <2>2. PICK i \in DOMAIN job'[u].todo :
          job'[u].todo[i][1] \in Writing /\ job'[u].todo[i][2] = o
    BY DEF Yet
  <2>3. job'[u].todo # <<>>
    BY <2>2
  <2>4. /\ job'[u].call = job[u].call /\ job'[u].todo = r /\ s # <<>>
        /\ ~(Due(u, "check", p) /\ frozen[p])
    BY <1>5, <2>1, <2>3, StepTaken
  <2>5. s \in Seq(Step) /\ ChecksFit(s)
    BY <2>1 DEF LockedInv, ObjectTypes, JobState, JobFits
  <2>6. Head(s) = s[1] /\ i + 1 \in DOMAIN s /\ r[i] = s[i + 1]
    BY <2>1, <2>2, <2>4, <2>5, TailSteps
  <2>7. Yet(u, Writing, o)
    BY <2>1, <2>2, <2>4, <2>6 DEF Yet
  <2>8. ~Yet(u, {"check"}, o)
    <3> SUFFICES ASSUME NEW k \in DOMAIN s, s[k][1] = "check", s[k][2] = o PROVE FALSE
      BY <2>1 DEF Yet
    <3>1. k = 1
      BY <2>5 DEF ChecksFit
    <3> QED
      BY <1>1, <1>5, <2>1, <2>4, <2>6, <3>1 DEF Due
  <2> QED
    BY <1>1, <2>4, <2>7, <2>8
<1>6. ASSUME NEW t \in Threads, t # u, Begin(t) \/ Proceed(t) PROVE job'[u] = job[u]
  <2>1. CASE Begin(t)
    BY <1>6, <2>1 DEF Begin, LockedInv, ObjectTypes
  <2>2. ASSUME NEW p, LookFirst(t, p) PROVE job'[u] = job[u]
    BY <1>6, <2>2, Looked DEF LockedInv, ObjectTypes
  <2>4. ASSUME NEW p, GlanceFirst(t, p) PROVE job'[u] = job[u]
    BY <1>6, <2>4, Glanced DEF LockedInv, ObjectTypes
  <2>3. CASE Proceed(t)
    BY <1>6, <2>2, <2>3, <2>4, StepTaken DEF Proceed
  <2> QED
    BY <1>6, <2>1, <2>3
<1> QED
  BY <1>2, <1>3, <1>4, <1>5, <1>6, <1>7 DEF Next, Proceed

\* What is written to a settled collection is dispose's.
LEMMA SettledWrites ==
  ASSUME LockedInv, Next, NEW o \in Objects, Settled(o), val'[o] # val[o]
  PROVE  \E t \in Threads : job[t].call \in Ending /\ Due(t, "put", o)
<1>1. PICK t \in Threads : \E p : Write(t, p)
  BY DEF Next, Proceed, Begin, Acquire, Release, Read, Check, GlanceFirst, LookFirst,
         SetFreeze
<1>2. PICK p : Write(t, p)
  BY <1>1
<1>3. PICK what \in Writing : Due(t, what, p)
  BY <1>2 DEF Write, Writing
<1>4. val \in [Objects -> Whole] /\ job[t] \in JobState
  BY DEF LockedInv, ObjectTypes
<1>5. p = o
  BY <1>2, <1>4 DEF Write
<1>6. PICK s : s = job[t].todo
  OBVIOUS
<1>7. 1 \in DOMAIN s /\ s[1][1] = what /\ s[1][2] = o
  BY <1>3, <1>5, <1>6, DueStep
<1>8. ChecksFit(s) /\ CallFits(job[t].call, s)
  BY <1>6 DEF LockedInv, JobFits
<1>9. Yet(t, Writing, o) /\ ~Yet(t, {"check"}, o)
  BY <1>6, <1>7, <1>8 DEF Yet, ChecksFit, Writing
<1>10. job[t].call \in Ending
  BY <1>9 DEF Settled, Writing
<1>11. what = "put"
  BY <1>7, <1>8, <1>10 DEF CallFits, Only, Seeing, Locking, Writing
<1> QED
  BY <1>3, <1>5, <1>10, <1>11

\* ConcurrentList, Dict and Set check _freeze before they take their lock, so
\* a writer can be past the check when freeze sets it; but once those have
\* ended, no call that has begun since can write: the collection keeps its
\* value until it is unfrozen, but for dispose and sessions.
THEOREM FrozenKeeps == Spec => FrozenStays
<1>1. ASSUME LockedInv, Next, NEW o \in Objects, Settled(o), frozen'[o]
      PROVE  /\ Settled(o)'
             /\ val'[o] # val[o] => \E t \in Threads :
                  job[t].call \in Ending /\ Due(t, "put", o)
  <2>1. \A u \in Threads :
          Yet(u, Writing, o)' => Yet(u, {"check"}, o)' \/ job'[u].call \in Ending
    BY <1>1, StaysSettled
  <2>2. Settled(o)'
    BY <1>1, <2>1 DEF Settled, Writing
  <2> QED
    BY <1>1, <2>2, SettledWrites
<1>2. LockedInv /\ [Next]_vars =>
        [\A o \in Objects : Settled(o) /\ frozen'[o] =>
           /\ Settled(o)'
           /\ val'[o] # val[o] => \E t \in Threads :
                job[t].call \in Ending /\ Due(t, "put", o)]_vars
  BY <1>1
<1> QED
  BY <1>2, LockedInvariant, PTL DEF Spec, FrozenStays

===============================================================================
