---------------------------- MODULE LockedObjects ----------------------------
(***************************************************************************)
(* The locks of the sync types (SyncInt, SyncFloat, SyncBool, SyncString,  *)
(* SyncRef) and of the collections (ConcurrentList, Dict, Set, Bag, Queue, *)
(* Stack), and the freezing of the first three.                            *)
(*                                                                         *)
(* A call is one of some twenty kinds, named for what it does to locks and *)
(* values: SyncTypes and Collections list the methods of each kind.  The   *)
(* kind gives the call its steps (Steps below), and threads take the steps *)
(* of their calls one by one.                                              *)
(*                                                                         *)
(* A value is a version, in two halves: loops like that of extend write    *)
(* one after the other, everything else both at once.  Elements are plain  *)
(* values, whose == and hash take no locks.                                *)
(***************************************************************************)
EXTENDS Integers, Sequences, FiniteSets

CONSTANTS
  Threads,
  Objects,    \* numbers: the order of their ids
  Versions,   \* bound: versions are counted modulo Versions
  Freezable,  \* bound: the objects that clients freeze
  Families,   \* sets of kinds, one of which the objects offer
  NoThread, Nothing

Kinds == {"read", "set", "update", "pairRead", "pairUpdate", "nestRead",
  "nestUpdate", "apart", "peek", "lookRead", "lookApart", "lookNest",
  "guardedSet", "guardedUpdate", "guardedBulk", "guardedGather",
  "guardedClient", "rawUpdate", "session", "dispose", "freeze", "unfreeze"}

ASSUME LockedObjectsAssumption ==
  /\ Objects \subseteq Nat /\ IsFiniteSet(Objects)
  /\ Versions \in Nat \ {0, 1}
  /\ Freezable \subseteq Objects
  /\ Families \subseteq SUBSET Kinds
  /\ NoThread \notin Threads
  /\ \A S \in SUBSET Objects : Nothing \notin [S -> 0 .. Versions - 1]

\* Objects that can be frozen have no writers that do not ask.
ASSUME FreezeAssumption ==
  \A family \in Families : "freeze" \in family =>
    family \cap {"set", "update", "pairUpdate", "nestUpdate", "rawUpdate"} = {}

VARIABLES
  owner,    \* the thread that has the object's lock, or NoThread
  depth,    \* how often it has it: the locks are RLocks
  val,      \* the two halves of the object's value
  frozen,   \* _freeze
  job,      \* the call each thread is in, or Idle
  offer     \* the kinds of call the objects offer, chosen once

vars == <<owner, depth, val, frozen, job, offer>>

-----------------------------------------------------------------------------
(* The steps of a call.  x is self, y the other operand, or an object that *)
(* a client's function, called under the lock, makes use of.               *)

Do(what, o) == <<what, o>>

\* with o._lock: body
With(o, body) == <<Do("lock", o)>> \o body \o <<Do("unlock", o)>>

\* Slip: the two locks are taken in the order of the operands.
WithBothAsTheyCome(x, y, body) == With(x, With(y, body))

\* Slip: the locks are given up before the body has been run.
WithBothBriefly(x, y, body) == With(x, With(y, <<>>)) \o body

(* Both locks, in the order of the ids.                                    *)
WithBoth(x, y, body) ==
  IF x <= y THEN With(x, With(y, body)) ELSE With(y, With(x, body))

\* A critical section that only reads or writes o once is one step.
Brief == {"get", "put", "freeze", "unfreeze"}

Get(o) == <<Do("get", o)>>
Put(o) == <<Do("put", o)>>

\* Slip: the check is missing.
Unguarded(x, section) == section

\* Writers of a collection: raise when it is frozen, else take the lock.
Guarded(x, section) == <<Do("check", x)>> \o section

\* Readers of a collection do without the lock when it is frozen, whether they
\* are called by a client or by a method of another collection.
Glance(o) == <<Do("glance", o)>>

\* A method that runs a client's function for each item.
Look(o, unlocked, locked) == <<<<"look", o, unlocked, locked>>>>

InPlace(x) == <<Do("half", x), Do("fill", x)>>

Client(x, y) == <<Do("read", x)>> \o Get(y) \o <<Do("update", x)>>

Steps(x, y) == [
  read          |-> With(x, <<Do("read", x)>>),
  set           |-> Put(x),
  update        |-> With(x, <<Do("read", x), Do("update", x)>>),
  pairRead      |-> WithBoth(x, y, <<Do("read", x), Do("read", y)>>),
  pairUpdate    |-> WithBoth(x, y, <<Do("read", y), Do("read", x), Do("update", x)>>),
  nestRead      |-> With(x, <<Do("read", x)>> \o Get(y)),
  nestUpdate    |-> With(x, Client(x, y)),
  apart         |-> Get(x) \o Get(y),
  peek          |-> <<Do("read", x)>>,
  lookRead      |-> Glance(x),
  lookApart     |-> Glance(x) \o Glance(y),
  lookNest      |-> LET body == <<Do("read", x)>> \o Glance(y) IN Look(x, body, With(x, body)),
  guardedSet    |-> Guarded(x, Put(x)),
  guardedUpdate |-> Guarded(x, With(x, <<Do("read", x), Do("update", x)>>)),
  guardedBulk   |-> Guarded(x, With(x, Glance(y) \o InPlace(x))),
  guardedGather |-> Guarded(x, With(x, Glance(y) \o <<Do("half", x)>>
                                         \o Glance(y) \o <<Do("fill", x)>>)),
  guardedClient |-> Guarded(x, With(x, <<Do("read", x)>> \o Glance(y) \o InPlace(x))),
  rawUpdate     |-> With(x, <<Do("read", y), Do("half", x), Do("read", y), Do("fill", x)>>),
  session       |-> With(x, <<Do("read", x)>> \o Glance(y)) \o Put(x),
  dispose       |-> Put(x),
  freeze        |-> <<Do("freeze", x)>>,
  unfreeze      |-> <<Do("unfreeze", x)>>]

Script == [k \in Kinds |-> [x \in Objects |-> [y \in Objects |-> Steps(x, y)[k]]]]

-----------------------------------------------------------------------------
Idle == [call |-> "none", todo |-> <<>>, seen |-> <<>>]

Init ==
  /\ owner = [o \in Objects |-> NoThread]
  /\ depth = [o \in Objects |-> 0]
  /\ val = [o \in Objects |-> [first |-> 0, second |-> 0]]
  /\ frozen = [o \in Objects |-> FALSE]
  /\ job = [t \in Threads |-> Idle]
  /\ offer \in Families

\* t's next step does what to o.
Due(t, what, o) ==
  /\ job[t].todo # <<>>
  /\ LET step == Head(job[t].todo) IN step[1] = what /\ step[2] = o

Open(t, o) == owner[o] \in {NoThread, t}

\* After the last step the call returns.
Continue(t, rest) ==
  job' = [job EXCEPT ![t] = IF rest = <<>> THEN Idle ELSE [@ EXCEPT !.todo = rest]]

Advance(t) == Continue(t, Tail(job[t].todo))

Begin(t) ==
  /\ job[t] = Idle
  /\ \E k \in offer, x, y \in Objects :
       /\ k = "freeze" => x \in Freezable
       /\ job' = [job EXCEPT ![t] = [Idle EXCEPT !.call = k, !.todo = Script[k][x][y]]]
  /\ UNCHANGED <<owner, depth, val, frozen, offer>>

\* Slip: a Lock where the code has an RLock.
AcquireOnce(t, o) ==
  /\ Due(t, "lock", o)
  /\ owner[o] = NoThread
  /\ owner' = [owner EXCEPT ![o] = t]
  /\ depth' = [depth EXCEPT ![o] = @ + 1]
  /\ Advance(t)
  /\ UNCHANGED <<val, frozen, offer>>

Acquire(t, o) ==
  /\ Due(t, "lock", o)
  /\ Open(t, o)
  /\ owner' = [owner EXCEPT ![o] = t]
  /\ depth' = [depth EXCEPT ![o] = @ + 1]
  /\ Advance(t)
  /\ UNCHANGED <<val, frozen, offer>>

\* Slip: the lock is free after the first release.
ReleaseWholly(t, o) ==
  /\ Due(t, "unlock", o)
  /\ owner' = [owner EXCEPT ![o] = NoThread]
  /\ depth' = [depth EXCEPT ![o] = @ - 1]
  /\ Advance(t)
  /\ UNCHANGED <<val, frozen, offer>>

Release(t, o) ==
  /\ Due(t, "unlock", o)
  /\ owner' = [owner EXCEPT ![o] = IF depth[o] = 1 THEN NoThread ELSE t]
  /\ depth' = [depth EXCEPT ![o] = @ - 1]
  /\ Advance(t)
  /\ UNCHANGED <<val, frozen, offer>>

\* Kinds whose operands are not seen at one moment; what they see is not kept.
Loose == {"apart", "peek", "lookApart", "rawUpdate", "guardedGather", "session",
          "lockless"}

\* A call that reads a frozen object without its lock becomes a loose one: a
\* writer that asked before the freeze may be halfway through.
Lockless(call) == IF call \in Loose THEN call ELSE "lockless"

Read(t, o) ==
  /\ Due(t, "read", o) \/ (Due(t, "get", o) /\ Open(t, o))
  /\ LET rest == Tail(job[t].todo)
         seen == IF job[t].call \in Loose
                   THEN <<>>
                   ELSE [p \in DOMAIN job[t].seen \cup {o} |->
                           IF p = o THEN val[o] ELSE job[t].seen[p]]
     IN  job' = [job EXCEPT ![t] =
                   IF rest = <<>> THEN Idle ELSE [@ EXCEPT !.todo = rest, !.seen = seen]]
  /\ UNCHANGED <<owner, depth, val, frozen, offer>>

\* A frozen collection raises TypeError.
Check(t, o) ==
  /\ Due(t, "check", o)
  /\ IF frozen[o] THEN Continue(t, <<>>) ELSE Advance(t)
  /\ UNCHANGED <<owner, depth, val, frozen, offer>>

\* The read comes after the look, and the object may be unfrozen between them.
GlanceFirst(t, o) ==
  /\ Due(t, "glance", o)
  /\ job' = [job EXCEPT
       ![t].call = IF frozen[o] THEN Lockless(@) ELSE @,
       ![t].todo[1] = Do(IF frozen[o] THEN "read" ELSE "get", o),
       ![t].seen = IF frozen[o] THEN <<>> ELSE @]
  /\ UNCHANGED <<owner, depth, val, frozen, offer>>

LookFirst(t, o) ==
  /\ Due(t, "look", o)
  /\ LET step == Head(job[t].todo)
     IN  job' = [job EXCEPT
           ![t].call = IF frozen[o] THEN Lockless(@) ELSE @,
           ![t].todo = (IF frozen[o] THEN step[3] ELSE step[4]) \o Tail(@)]
  /\ UNCHANGED <<owner, depth, val, frozen, offer>>

After(n) == (n + 1) % Versions

Both(n) == [first |-> n, second |-> n]

\* put and update write the whole value, half and fill a half each.
Write(t, o) ==
  /\ \/ Due(t, "put", o) /\ Open(t, o) /\ val' = [val EXCEPT ![o] = Both(After(@.second))]
     \/ Due(t, "update", o) /\ val' = [val EXCEPT ![o] = Both(After(job[t].seen[o].second))]
     \/ Due(t, "half", o) /\ val' = [val EXCEPT ![o].first = After(@)]
     \/ Due(t, "fill", o) /\ val' = [val EXCEPT ![o].second = val[o].first]
  /\ Advance(t)
  /\ UNCHANGED <<owner, depth, frozen, offer>>

SetFreeze(t, o) ==
  /\ Open(t, o)
  /\ \/ Due(t, "freeze", o) /\ frozen' = [frozen EXCEPT ![o] = TRUE]
     \/ Due(t, "unfreeze", o) /\ frozen' = [frozen EXCEPT ![o] = FALSE]
  /\ Advance(t)
  /\ UNCHANGED <<owner, depth, val, offer>>

Proceed(t) ==
  /\ job[t] # Idle
  /\ LET o == Head(job[t].todo)[2]
     IN  \/ Acquire(t, o) \/ Release(t, o)
         \/ Read(t, o) \/ Write(t, o)
         \/ Check(t, o) \/ GlanceFirst(t, o) \/ LookFirst(t, o)
         \/ SetFreeze(t, o)

Next == \E t \in Threads : Begin(t) \/ Proceed(t)

Spec == Init /\ [][Next]_vars

(* Nobody has to call anything; a call that has begun goes on, and gets a  *)
(* lock that is free again and again.                                      *)
FairSpec == Spec /\ \A t \in Threads : SF_vars(Proceed(t))

-----------------------------------------------------------------------------
Whole == [first : 0 .. Versions - 1, second : 0 .. Versions - 1]

\* Types, and the locks: an owner has its lock once or more often, nobody
\* has a free one.
LockedTypeOK ==
  /\ owner \in [Objects -> Threads \cup {NoThread}]
  /\ depth \in [Objects -> 0 .. 2]
  /\ val \in [Objects -> Whole]
  /\ frozen \in [Objects -> BOOLEAN]
  /\ \A t \in Threads : job[t].call \in Kinds \cup {"none", "lockless"}
  /\ \A o \in Objects : owner[o] = NoThread <=> depth[o] = 0

-----------------------------------------------------------------------------
(* Calls that happen at one moment.                                        *)

\* Among t's steps to come is one of these, on o.
Yet(t, whats, o) ==
  \E i \in DOMAIN job[t].todo : job[t].todo[i][1] \in whats /\ job[t].todo[i][2] = o

Reading(t) == \E o \in Objects : Yet(t, {"read", "get", "glance", "look"}, o)

\* t has seen all that it will see.
Decided(t) == job[t] # Idle /\ ~Reading(t)

\* A version that depends on what its writer has seen, and is still to be written.
Pending(o) == \E t \in Threads : Decided(t) /\ Yet(t, {"update", "fill"}, o)

Version(v) == IF v.first = v.second THEN v.second ELSE Nothing

Atomic == INSTANCE AtomicObjects WITH
  val <- [o \in Objects |-> IF Pending(o) THEN After(val[o].second) ELSE val[o].second],
  out <- [t \in Threads |->
            IF Decided(t) /\ job[t].seen # <<>>
              THEN [o \in DOMAIN job[t].seen |-> Version(job[t].seen[o])]
              ELSE Nothing]

\* Every call but the loose ones happens at one moment between its beginning
\* and its return, with whatever loose calls, frozen objects and deadlocks
\* around it: it sees whole values that its operands have at the same time,
\* and no new version overwrites one that it does not follow.  Not so a call
\* with an operand that it finds frozen: it reads that one without the lock,
\* and can see half of what a late writer does; but what it writes itself is
\* one new version like any other.
ImplementsAtomic == Atomic!Spec

-----------------------------------------------------------------------------
(* Deadlock.                                                               *)

\* Kinds that take a lock with another one in hand, in the order they come.
Nesting == {"nestRead", "nestUpdate", "lookNest", "guardedBulk",
  "guardedGather", "guardedClient", "session"}

Blocks(u, t) == \E o \in Objects, what \in Brief \cup {"lock"} :
  Due(t, what, o) /\ owner[o] = u /\ u # t

Circle(S) == S # {} /\ \A t \in S : \E u \in S : Blocks(u, t)

\* When threads wait for each other in a circle, a nesting call is among them:
\* calls that take both locks in the order of the ids never do by themselves.
CircleHasNesting ==
  \A S \in SUBSET Threads : Circle(S) => \E t \in S : job[t].call \in Nesting

\* What the class documentation of the sync types says.
NoCircle == \A S \in SUBSET Threads : ~Circle(S)

\* Every call returns, unless a nesting call is made.
CallsReturn ==
  \A t \in Threads :
    job[t] # Idle ~> job[t] = Idle \/ \E u \in Threads : job[u].call \in Nesting

-----------------------------------------------------------------------------
(* Freezing.                                                               *)

Ending == {"dispose", "session"}

\* Frozen, and no call is past the check that would still change it.
Settled(o) ==
  /\ frozen[o]
  /\ \A t \in Threads :
       Yet(t, {"put", "update", "half", "fill"}, o)
         => Yet(t, {"check"}, o) \/ job[t].call \in Ending

\* Once the calls that had begun before freeze have ended, a frozen collection
\* keeps its value until it is unfrozen or disposed of.
FrozenStays ==
  [][\A o \in Objects : Settled(o) /\ frozen'[o] =>
       /\ Settled(o)'
       /\ val'[o] # val[o] => \E t \in Threads :
            job[t].call \in Ending /\ Due(t, "put", o)]_vars

=============================================================================
