# Verification of ThreadFactory

ThreadFactory is a library of synchronisation primitives, coordinators,
dispatchers and thread-safe containers for Python without a global interpreter
lock. Everything interesting in it happens between threads: who is woken, who
finds what when the lock is theirs again, what a timeout, a reset or a
`dispose` does to the threads that are inside. This directory holds TLA+ models
of that, TLC configurations for small instances, and proofs for TLAPS.

Paths below are relative to `src/src/thread_factory/` unless they start with
`tests/`.

## 1. Inventory

### Primitives (`synchronization/primitives`)

**SmartCondition** (`smart_condition.py`). State: a queue of `Waiter`s, each
with a private lock, the condition's own lock, a registry of callbacks by
factory id. Operations: `wait`, `wait_for`, `notify`, `notify_all`,
`notify_and_call`, `notify_all_and_call`, `dispose`. A notifier takes a Waiter
off the queue and releases its lock; a waiter whose time is up stays in the
queue until it has the condition's lock again. Hard: the window between the
timeout and the lock; callbacks that raise half-way through a loop; `dispose`
without the lock. Correct when a blocked thread is always in the queue.

**FlowRegulator** (`flow_regulator.py`). A semaphore over a SmartCondition.
State: `_value`, `_pending_permits`, `_bias_threshold`, `_disposed`. With a
bias, released permits are buffered until more than a threshold of threads
wait. Operations: `acquire`, `release`, `notify`, `notify_all`,
`increase_permits`, `decrease_permits`, `bypass_bias`,
`bypass_bias_and_notify`, `set_bias_threshold`, `dispose`. Hard: permits move
between buffer, counter and threads in many places; the threshold is written
without the lock and read up to four times by `release`; calls that are on their way to
the lock when it is disposed of. Correct when permits are conserved, when none
lies idle while somebody waits, and when the bias holds back no more than it
may.

**Dynaphore** (`dynaphore.py`). `threading.Semaphore` with permits added and
removed at run time. State: `_value`, `_cond`, `_disposed`. Operations:
`wait_for_permit`, `release_permit`, `increase_permits`, `decrease_permits`,
`set_permits`, `release_all`, `dispose`. Hard: as many notifications as
permits, some of them spent on waiters whose time is up; permits taken out
while a woken thread is on its way; `_cond = None` written outside of the lock.

**SignalBarrier** (`signal_barrier.py`). Counts arrivals up to a threshold and
opens, by itself or by `release`; a reusable one counts the threads out again
and closes behind the last. State: `_count`, `_released`, `_threshold`,
`_disposed`. Operations: `wait`, `release`, `set_threshold`, `reset`,
`notify_all_override`, `dispose`. Hard: arrivals while it drains, thresholds
that move under the waiters, timeouts that leave a thread counted, overrides
that clear the count with threads inside. Correct when it opens to a full house
and to nothing less, lets everybody out, and is as new afterwards.

**TransitCondition, Latch, SignalLatch** (`transit_condition.py`, `latch.py`,
`signal_latch.py`). A condition whose notifier may hand over a callback, and a
flag under it. Operations: `open`, `close` or `reset`, `closed`, `dispose`.
`Latch` waits in a loop; `SignalLatch` looks and then waits once, and gives the
lock up in between. Hard: a pulse (open, then closed again) before the waiter
looks; `dispose`, which drains the waiters without the lock while a thread is
between look and parking. Correct when an open latch holds nobody.

### Coordinators (`synchronization/coordinators`, `synchronization/execution`)

**Conductor** (`conductor.py`). Threads meet at a main barrier (SignalBarrier,
or ClockBarrier with a timeout), take a permit of a Dynaphore, run the tasks one
after the other and meet at an internal reusable SignalBarrier after each;
the first one there runs the callback; a manual gate may hold them at the end.
State of its own: `_released`, `_broken`, `_disposed`, callback flags.
Operations: `start`, `release`, `reset`, `notify_all_override`, `dispose`. Hard:
three primitives whose states have to agree, surplus threads, overrides and
disposal at any point. Correct when no task starts before its threads are
there, no more than threshold threads work, callbacks come last, and `start`
returns.

**MultiConductor** (`multi_conductor.py`), **BypassConductor**
(`bypass_conductor.py`). The same over groups of tasks, or over functions. With
distributed execution the first thread of a group makes a fork processor that
gives the tasks out, under a flag `_create_fork`; in a BypassConductor the
first one stores the outcome, under `_outcome_set`. All meet at a barrier, and
each takes the flag down. Hard: the flag is taken down without a lock after the
barrier, possibly after a faster thread has put it up for the next group; the
barrier can be lapped; `reset` leaves flag and processor as they are. Correct
when each group's tasks run as often as they have slots, and each stage has one
outcome.

**ClockBarrier** (`clock_barrier.py`). A barrier with a generation object and one
deadline for the cohort, from its first arrival on. State: `_count`,
`_generation`, `_start_time`, `_broken`. Operations: `wait`, `release` (which
breaks it), `reset`, `dispose`. Hard: breaking starts no new generation, so that
a woken thread waits on; a reset while threads of the old round are on their way
out. Correct when the count is the crowd of the round and every wait ends.

**TransitBarrier** (`transit_barrier.py`). Counts to a threshold and runs an
action, by itself or by `release`, `release_with_action`, `notify_all_override`.
Its wait is one untested wait without a loop. Hard: who takes the count back.
Correct when an open barrier holds nobody and rounds do not mix.

**Scout** (`scout.py`). One thread watches a predicate with a timeout on behalf of
others, with its condition held while predicate and handlers run.

### Dispatchers and controller

**Fork, SignalFork** (`fork.py`, `signal_fork.py`) hand out slots of callables,
each with a cap, under one lock per unit. Hard: a unit found free is taken in a
second critical section; `_forks_closed` and the shared counter are written
without the unit locks; `reset` goes through the units one by one. Correct when
no slot is given twice and nobody is turned away while there is one.

**SyncFork, SyncSignalFork** (`sync_fork.py`, `sync_signal_fork.py`) let the threads
go when all slots are taken, with a Scout for the timeout. Hard: the fork's and
the scout's lock are taken in both orders; the timeout against the last arrival.
Correct when nobody runs before the fork is full and everybody comes out.

**SignalController** keeps a registry of objects, forwards commands to them and is
notified by them, each under its own lock.

### Containers, sync types, utilities

**Sync types** (`concurrency/sync_types`) wrap a value with an RLock; most
operations on two of them take both locks in `id` order, some take the second
with the first in hand. **ConcurrentList, Dict, Set** can be frozen: writers look
at `_freeze` before they take the lock, readers of a frozen one take none.
**ConcurrentBag, Queue, Stack** have a lock only. Hard: operations on two of them,
in both directions at once; writers that had looked before `freeze`. Correct when
calls happen at one moment, a frozen collection keeps its value, and calls return.

**ConcurrentBuffer, ConcurrentCollection** spread items over shards with locks of
their own; `dequeue` chooses one by an unlocked look at shared arrays of lengths
and timestamps. Correct when `Empty` is raised for a reason.

**Outcome** (`outcome.py`) is a write-once result. Hard: `dispose` marks, settles,
purges and drops its condition in separate steps. Correct when all readers get
the same answer and none stays. The rest (packages, router groups, object and
tree managers, timers, parallel loops) has little shared state.

### How they interact

Calls go downwards: Conductor to SignalBarrier and Dynaphore, FlowRegulator to
SmartCondition to ConcurrentQueue, SyncFork to Scout, MultiConductor to the
forks. Callbacks come back up: `on_broken` of ClockBarrier into the Conductor,
Scout's predicate and handlers into SyncFork, callbacks of waiters in the
notifying or in the awaited thread. The controller stands on both sides: objects
notify and unregister, it invokes and disposes. Nothing is persistent; there are
no crashes to recover from.

`PROJECT.json` lists every component with its status and every hazard at its
line.

## 2. Modules

| module | what it is |
| --- | --- |
| `PermitPool` | the abstract promise of a permit primitive: free, held, issued |
| `SmartCondition` | queue, enqueueing and selection of the smart condition |
| `FlowRegulator` | the regulator on top of it; implements `PermitPool` |
| `FlowRegulatorProofs` | its theorems |
| `Dynaphore` | the dynamic semaphore; implements `PermitPool` |
| `DynaphoreProofs` | its theorems |
| `SignalBarrier` | the count-to-threshold barrier |
| `SignalBarrierProofs` | its theorems |
| `Conductor` | composes two `SignalBarrier`s and a `Dynaphore` by INSTANCE |
| `ConductorProofs` | its theorems |
| `AtomicObjects` | the abstract promise of a locked object: calls happen at one moment |
| `LockedObjects` | locks, values and freezing of sync types and collections; implements `AtomicObjects` |
| `LockedObjectsProofs` | its theorems but the refinement |
| `AtomicProofs` | that it implements `AtomicObjects` |
| `SyncTypes`, `Collections` | which kinds of call the methods of each class are |
| `Waiting` | what the small waiting objects share: threads on a condition |
| `ClockBarrier`, `TransitBarrier`, `Latches`, `Outcome` | one object each (`Latches`: both latches), over `Waiting` |
| `Forks` | `Fork` and `SignalFork` |
| `SyncForks` | `SyncFork` and `SyncSignalFork` with their `Scout` |
| `Shards` | `ConcurrentBuffer` and `ConcurrentCollection` |
| `CoordinationProofs` | theorems about `ClockBarrier`, `TransitBarrier`, `Outcome`, `Forks`, `SyncForks` and `Shards` |
| `Stages` | the fork loop of `MultiConductor` and the stages of `BypassConductor`, over `SignalBarrier` |
| `StagesProofs` | its theorem |
| `MCPrimitives` | `SignalBarrier`, `Dynaphore` and `FlowRegulator` side by side; Init chooses the one that is used |
| `MCCoordination` | the eight modules from `ClockBarrier` to `Stages` side by side; Init chooses the one that is used |
| the other `MC...` | the constants TLC needs; no behaviour |

### State and actions

A thread's place in the code is one variable per module (`pc`, `at`); the values
are listed in the modules. A block `with self._cond:` is one step, cut where
`wait` gives the lock up. Where the code reads or writes shared state outside of
its lock, that is a step of its own: `Retune` (the write of
`_bias_threshold`), `Begin` and `Deliver` (the first read of it in `release`, and
the later ones, with the lock kept in between: `call`), `CallPermits` and `Ask`
(entry checks), `MarkPermitsDisposed` and `DropCondition` (`Dynaphore.dispose`), `MarkDisposed` and
`NotifyDisposed` (`SignalBarrier.dispose`). `Deliver` and the
flush check of `acquire` read the threshold two or three times; a write in between
makes a difference only if it writes None, and that is `BiasVanishes`, which does the
write and the rest of the call together. A timeout is a step (`Expire`, `RunOut`) that
may come at any time and leaves the thread in the queue; taking the lock back
and finding out is the next one.

`SmartCondition` keeps the queue as a set with an order (`ahead`), which is what
`notify` looks at. `threading.Condition`, which is not part of the repository,
is modelled in `Dynaphore` as notifying any of its waiters, which includes the
FIFO order it has, and in `SignalBarrier` by `notify_all` alone.

In `Conductor` a thread that is inside one of the three primitives takes that
module's steps. The Conductor's own blocks are one step. `dispose` is one step
although it is long, because a thread it wakes cannot tell: it needs `_lock`
for the next thing it does, or finds an attribute that is `None`.

`LockedObjects` gives each call a list of steps (`Steps`): lock, unlock, read,
write, the look at `_freeze`. Some twenty such kinds are enough for all
methods of the classes; `SyncTypes` and `Collections` have the kinds of the methods
for each stretch of the source, and name the methods of the less common ones.
A read of a collection begins with a look at `_freeze` (`GlanceFirst`, `LookFirst`):
frozen, it is read without its lock, by its own methods and by those that have it as
an operand. Only `==` of `ConcurrentDict` takes the operand's lock whether it is
frozen or not, and the sync types, Bag, Queue and Stack cannot be frozen.
A value is a version in two halves, which `extend` and its like write one after
the other. A critical section that touches its object once is one step; one that
takes another lock is as many as there are, so that the other thread gets in
between. The kinds a class has are a family; operands come from the same one.

`ClockBarrier`, `TransitBarrier`, `Latches` and `Outcome` cut their calls where the
lock is given up, as `SignalBarrier` does. The deadline of a `ClockBarrier` is a
phase of its round (`unset`, `running`, `over`) that `Elapse` moves on. Each
`dispose` is as many steps as it leaves locks or writes without one.

`Forks` follows a call unit by unit: each look takes the unit's lock, and a unit
whose callable runs cannot be looked at. `SyncForks` has, besides the state of fork
and scout, who holds one of the two locks while asking for the other; what asks
for nothing is one step. In `Shards` items are counted, not named; the arrays are
separate from the items, written under the shard's lock and read without it.
`Stages` keeps the processors as they are made, since a thread may hold on to an
older one, and notes for each stage how often a thread on its way out of another one
has taken its flag down (`late`).

### Seeded faults

Definitions whose comment starts with `Slip:` are not part of any specification.
Each is a plausible wrong version of the action that follows it (a dropped
guard, one notification for many permits, a barrier that is not closed). Put in
the place of that action, it makes TLC find the property violated that
`PROJECT.json` pairs it with: evidence that the property looks at the code.

## 3. Runs

| run | instance | result |
| --- | --- | --- |
| `regulator_calm` | 4 threads, 3 permits, thresholds None, 0, 1, 2; patient clients (`CalmSpec`: `CalmStep` only, so no timeouts and no retuning; no targets, no raising callbacks) | no stranded permit, bias keeps within its reserve, blocked threads reachable; disposal and free permits reach waiters |
| `regulator_timeout` | 3 threads, one with a timeout | **violated**: a permit is stranded |
| `primitives` | one object at a time. `SignalBarrier`: 4 threads, thresholds 1 to 3, reusable or not, manual or not, every command; `Dynaphore`: 4 threads, 2 permits; `FlowRegulator`: 3 threads, 2 permits, one targeted, bias switched at run time, callbacks that raise; one thread with a timeout | the barrier opens to a full house only, and then always, lets everybody out and closes as new; no idle permit of the dynaphore, free permits are taken; the accounts of both balance and they implement `PermitPool` |
| `conductor` | 3 threads for 2 places, 1 task, one with a timeout, every command, reusable or not, manual or not | threshold before tasks, at most threshold workers, no callback before threshold threads have run the first task, workers return |
| `conductor_steps` | 2 threads, 2 places, 2 tasks, no commands | **violated**: `start` never returns |
| `conductor_dispose` | 3 threads for 2 places, dispose | **violated**: a surplus thread stays blocked |
| `objects` | 2 threads, 2 objects of one family, every kind of call the family has, one object that is frozen | implements `AtomicObjects`; only nesting calls deadlock; frozen values stay; calls return |
| `objects_compare` | 2 threads, 2 `SyncInt`s | **violated**: comparisons wait for each other |
| `coordination` | one object at a time, 3 threads, one with a timeout; thresholds up to 3; 2 units of caps 0 and 1; up to 3 slots; 2 shards of 2 items; 2 stages of 2 tasks for 2 threads | counts are crowds; rounds do not mix; open objects hold nobody; one answer; slots counted; nobody runs early; no reasonless `Empty`; work once per stage and late lowering; waits end |
| `sync_signal_fork` | a `SyncSignalFork` with a timeout, 3 threads | **violated**: last arrival and scout block each other |
| `transit_reset` | a `TransitBarrier`, 3 threads | **violated**: an automatic reusable barrier does not reset itself |
| `fork_step` | a `Fork` or `SignalFork` of 2 units with step 2, 3 threads | **violated**: a caller is turned away while there is a slot |

### What the violations show

*regulator_timeout.* `t1` waits with a timeout, `t2` without. Its timeout
passes, and before `t1` has the lock again a release notifies the first in the
queue, which is `t1`. `t1` returns False. The permit is in `_value`, `t2` sleeps.
`Dynaphore` does not have this: `Condition.wait_for` looks at the counter once
more after the timeout, and takes the permit.

*conductor_steps.* `t1` and `t2` meet after the first task; `t1` passes and, while
`t2` is still on its way out, has run the second task and comes back. The
barrier is open until `t2` has left, so `t1` passes, is counted in and out, and
returns. `t2` leaves (the barrier closes), runs the second task, arrives alone,
and waits for ever.

*conductor_dispose.* The main barrier of a round lets a third thread through
while it drains. There is no permit left for it. `dispose` notifies it, it
finds `_value` at 0 and waits again on a condition that no reference leads to.

*transit_reset.* The thread that brings the count to the threshold opens the barrier
and returns; those that have waited take themselves off the count. So it does not
come to zero, the barrier stays open, and whoever comes next passes by. The docs of
the class and of `wait` say that it resets after the last thread, and a test
(`tests/synchronization/coordinators/test_transit_barrier.py:183`) says so too, of a
barrier for which the answer is the same either way. `RoundsApart`, in
`coordination`, is what does hold: a barrier that is closed again, by its last waiter
after a release by hand or by `reset`, has none of the old round left.

*fork_step.* With two units and step 2 the selector looks at one unit twice. A thread
finds a slot in the first unit, the start moves on to the second, and the next thread
looks only there, finds nothing, raises "all forks are at capacity" and closes the
fork. The docs recommend larger steps. What does hold for every step is
`SlotsCounted`: those who are turned away have come by taken slots only.

*objects_compare.* `a < b` in one thread and `b < a` in the other: `__lt__` holds
its own lock while `other.get()` asks for the other's. The arithmetic operators take
both locks in `id` order and do not have this: `CircleHasNesting` holds in
`objects` with every method of every class.

*sync_signal_fork.* The last thread to arrive opens the fork and then, with
`_selector_lock` held, takes the scout's condition to notify it. The scout has
that condition and takes `_selector_lock` for its predicate. `SyncFork` notifies
after it has left the lock, and passes the same property in `coordination`.

Known and without a run of its own: `ClockBarrier.release` promises to release the
threads that wait (`clock_barrier.py:164-169`), but they wait on for the deadline of
their round. `ClockWaitsEnd` says no more than that they come out then.

### Bounds, and why they are enough

- `MaxPermits`: clients issue no more permits. Every defect of the accounts needs
  one permit too many or too few and a second one to tell it from.
- Three or four threads: one that times out or is targeted, one that should get
  the permit instead, one that calls, one surplus.
- A thread that holds a permit does not acquire another (named in the guards as
  `holders`), and no call is entered after the object is disposed of; calls
  entered before are followed to their end.
- `MaxCount`: no thread calls `SignalBarrier.wait` with that many counted. Without
  it, threads that give up would let the count grow for ever.
- `objects`: a circle of waiting needs two threads and two locks, and so does an
  operation on two operands that is torn. `Versions` is 2: a lost write shows as
  a version that does not change when it should. One object can be frozen; the
  other can be its operand.
- Elements of collections are plain values, whose `==` and `hash` take no locks.
- `coordination` runs its objects one at a time, since they share nothing. A
  third thread writes nothing into an outcome, two threads are enough to race
  for a slot (`Forks`), and for a shard one that takes beside one that does
  everything. `MaxCount` and `MaxItems` bound the calls as above.
- `Settings`: the passing run has `SyncFork` with and without a timeout and
  `SyncSignalFork` without one; the remaining case is `sync_signal_fork`.
- `FreezeAssumption` (`LockedObjects`): a class whose objects can be frozen has no
  writer that neither asks whether they are nor disposes of them. It says something
  about the classes, and TLC evaluates it on the tables of `SyncTypes` and
  `Collections`.
- `Step` (`Forks`) is any number; 1 in `coordination`, 2 in `fork_step`. The caps are 0
  or 1, which is enough for a unit that is full and one that is not.
- `Followed` (`Stages`): once a thread has lapped the others or a round has begun with
  a flag left up nothing is promised, and only the rounds with a left-behind thread
  and a left-over processor are followed further. Late writes of the flag are
  followed all the way.
- `BetweenRounds`: a Conductor is reset with nobody inside `start`. A reset at any
  time is checked for `SignalBarrier`.
- No controller is attached; callbacks return or raise, but do not call back into
  the object. Controller notifications change none of the state modelled.
- `orderly` in `SignalBarrier` remembers that nobody has given up, overridden or
  reset with threads inside. The code keeps no promise about the count after
  that (its own comment on `reset` says so), and the properties leave it out.
- One task in `conductor`: with two, `conductor_steps` shows what happens.

`abreast` in `Stages` and `steady` in `Forks` do the same: they remember that nobody has
passed a barrier without all the others and no round began with a flag left up, and
that every reset found nobody inside. So does `orderly` in `TransitBarrier`: nobody
timed out and no reset came upon threads inside.

Loose calls (`Loose` in `LockedObjects`) take no part in the promise that a call sees its
operands at one moment: kinds that read one object after the other or without a lock,
and, whatever their kind, calls that read an operand without its lock because they find
it frozen. A writer that looked at `_freeze` before it was set may then be halfway
through, and `x.extend(y)` sees half of what it does. What a loose call writes is one
version like any other.

Deadlock is not checked: clients may stop calling, and then everything rests.

### Fairness

Nobody has to call anything: no fairness is assumed of `Enter`, `Call`, `Start`,
releases or commands, nor of timeouts. What is assumed is that a thread that
runs goes on (weak fairness of a call with the lock in hand, of a thread that
has been notified, of tasks and callbacks), and that a lock which is free again
and again is obtained (strong fairness, `Resume` in `FlowRegulator` and
`Dynaphore`, where the step is enabled only while the lock is free or the counter
has not been emptied by somebody else). Python's locks promise no order but
starve nobody in practice; the operating system schedules every thread. In
`LockedObjects` it is strong fairness of every step of a call. In `MCCoordination`
it is weak fairness of each thread that is inside an object (`GoesOn`), which
includes that a timeout passes, of the clock of a `ClockBarrier` and of a
`dispose` that has begun (`Begun`); that a lock is obtained which is free only now
and then need not be assumed.

## 4. Proofs

Eight modules prove theorems for every set of threads and every value of the
constants.

### FlowRegulatorProofs

| theorem | statement |
| --- | --- |
| `TypeCorrect` | the types; no counter becomes negative |
| `Conservation` | free + pending + held permits = permits issued |
| `Refinement` | the regulator implements `PermitPool` |
| `Reachable` | without raising callbacks, a blocked thread is in the queue |
| `ReserveRespected` | without targets and retuning, the bias holds permits back only while at most threshold threads wait |
| `NoneStranded` | without timeouts, targets, retuning and raising callbacks, no permit is stranded |

The assumptions are the module's `ThreadsFinite` and `BoundsAssumption` and, in the
last three, the restriction of the clients named in the theorem. The two
violation-prone features are exactly those that have to be excluded:
`regulator_timeout` shows why for timeouts.

*The accounts.* `PermitConservation` alone is not inductive: a thread granted a
permit might already hold one, and the set of holders would not grow.
`Accounts` adds types and `BlockedHoldNothing`: who waits holds no permit.
One lemma per action shows that it keeps the sum; flushes move permits, grants
move one to a thread. `PoolStep` maps every action to a step of the pool or to
a stutter, on the same invariant.

*The queue.* `Discipline` says that only one thread is between the halves of a
call, and who may be parked. `Reachable` follows from it: a Waiter leaves the
queue only together with its thread's wake-up.

*The reserve.* `ReserveInv` counts the permits that the call in progress is about
to hand out; between calls it is `PendingOnlyInReserve`. `CallForAll` (no call
names targets) keeps the count of the selected equal to what was asked for.

*A threshold that becomes None* (`BiasVanishes`) between two looks at it is a step of
two threads. It moves no permit and no waiter, so that the accounts and `Reachable`
keep; the last two theorems exclude retuning.

*The supply.* `SupplyInv` says that free permits do not exceed woken threads plus
`Due`, the wake-ups the call in progress still owes. It needs `QueueIsParked`: the
queue holds exactly the parked threads, which is false once a timeout leaves a
late thread in it. That is where the proof, like the code, needs patience.

### DynaphoreProofs

| theorem | statement |
| --- | --- |
| `TypeCorrect` | the types; the counter of permits never becomes negative |
| `Refinement` | the dynaphore implements `PermitPool` |
| `NoneIdle` | every free permit has a notified or arriving thread while another is parked, until disposal |

From `DynaphoreAssumption` alone, with no restriction of the clients: timeouts,
resizing and disposal are all allowed. `Accounts` joins the types to two facts
that make each other inductive: free permits plus holders are the permits issued,
and no more are issued than `MaxPermits`. `NoIdlePermit` preserves itself; its
proof is about counting, in `NotifyCounts`: if a thread is still parked after a
notification of n, then n threads have joined those underway.

### SignalBarrierProofs

| theorem | statement |
| --- | --- |
| `TypeCorrect` | the types and the bounds of the counter, overrides included |
| `FullHouse` | an automatic barrier is not closed over a full house |
| `NobodyBehind` | nobody is parked behind an open barrier |
| `NextRound` | an empty reusable barrier counts nobody and is closed |
| `OpensFull` | whatever opens the barrier, threshold threads are there |

None of the middle ones is inductive. The code keeps a number, `_count`, and no
record of who is inside; `Counted` says how the two are related as long as nobody
gives up and nothing is forced: `_count` equals the number of threads inside, except
that a one-way barrier goes on counting those it has let out, and a disposed one
those it has sent away. `Bounded` is what is left of it otherwise, for the
type invariant. One lemma per kind of move (`CallCounts`, `EnterCounts`,
`StayCounts`, `WakingCounts`) says what it does to the numbers, so that every step
is arithmetic. `OpeningStep` is the action property, by the same invariant.

### ConductorProofs

| theorem | statement |
| --- | --- |
| `TypeCorrect` | the types of the conductor and of the three primitives inside it |
| `WaitsForThreshold` | no task runs before threshold threads have called `start` |
| `WithinThreshold` | at most threshold threads run the tasks of a round |
| `CallbackWaits` | until disposal, no callback runs before threshold threads have run the first task |

From `ConductorAssumption` alone: any number of threads, tasks and commands,
surplus threads, timeouts and overrides included. `ConductorInv` says where a thread
can be inside which primitive (`Placed`), that the main barrier counts its crowd and
has let nobody past while threads are missing (`Unopened`), that the permits left
and the threads that have had one are no more than the threshold (`PermitsSpent`),
and that the internal barrier is shut until threshold threads have run the first
task (`Unmet`). The barrier's `Counted` would not do here: it is about orderly
rounds, and timeouts and overrides of the main barrier are not.

`CallbackAfterAll` speaks of the first task for a reason the proof brought to light.
With two tasks or more a thread can lap the others at the internal barrier
(`conductor_steps`), and then runs the callback of a later task alone.

### LockedObjectsProofs

| theorem | statement |
| --- | --- |
| `TypeCorrect` | the types; a lock is released as often as it was taken, a free one by nobody |
| `CirclesNeedNesting` | threads wait for each other in a circle only if a call among them nests |
| `FrozenKeeps` | a frozen collection whose earlier writers have ended keeps its value |

For any number of threads, any finite set of objects and every kind of call.
`LockedInv` describes the steps a call has left, instead of listing them: `LocksFit`
says that a thread has the locks its remaining steps give up, as often as they do,
and that two locks are taken in the order of the ids; `CallFits`, `LooksFit`,
`UpdatesFit` and `ChecksFit` say which steps a kind of call can still take. Each
kind is shown to begin so (`Begins`), and each step to leave it so.

*Circles.* In a circle without a nesting call everybody who waits has at most the
lower one of two locks and waits for the higher one. Objects are finitely many, so
somebody in the circle waits for the largest; the thread that has it waits for one
that is larger still.

*Freezing.* `FreezeAssumption` (see Bounds) and `AsksFit`: a call asks whether the
object is frozen before it has any lock, and none that has still to ask can write.

### AtomicProofs

| theorem | statement |
| --- | --- |
| `CallsAreAtomic` | `LockedObjects` implements `AtomicObjects`: every call that is not loose, as those are that read a frozen operand without its lock, happens at one moment |

That moment is the last step that sees something; a write that depends on nothing
seen (`put`) is one by itself. For the steps before and after to be stutters,
`AtomicInv` needs more than `LockedInv`, which it contains:

- `MomentFits`, about the steps to come: there is one write; it comes after all that
  is seen; nothing is seen after a lock has been given up (`InOrder`); a look leads
  to a branch that is in the same order, and a glance to a read under the lock or to a
  loose call, of which none of this is asked. It is shown for each kind of call at its
  beginning, where `StartsFit` says in addition that every lock it needs is still to
  be taken, and kept by taking the first step away.
- `GuardsFit`: a thread has the lock of what it is going to read or write, or takes it
  first, and does not give it up before.
- `ViewFits`: what a call has seen is still so until it has seen everything, and what
  it updates until it has done that, because it has the locks.
- `HalvesFit`: an object whose halves differ is one whose lock a thread has, between
  its two writes.

The mapping gives an object its next version as soon as the call that will write it
has seen all (`Pending`). So the last sight shows what the operands are in the
abstract state (`ReadShows`: they are whole, and nobody else's version is pending on
an object whose lock the caller has), and gives at most one of them its next version
in the same step (`ReadBumps`); the write that follows changes nothing there
(`CompleteStep`). From `LockedObjectsAssumption` alone; nothing is assumed of the
schedule, and loose calls, nested ones and deadlocks are all part of it. Loose calls
keep nothing of what they see; their writes are moments too.

### CoordinationProofs

| theorem | statement |
| --- | --- |
| `ClockCountsItsCrowd` | the count of a `ClockBarrier` that is whole is its crowd, and the clock runs exactly while there is one |
| `OpenTransitHoldsNobody` | nobody stays parked in an open `TransitBarrier` |
| `TransitRoundsApart` | a closed `TransitBarrier` counts whoever is inside and has nobody of an earlier round on the way out |
| `OutcomeHasOneAnswer` | all who ask an `Outcome` are told the same |
| `NobodyRunsEarly` | nobody runs before a `SyncFork` or `SyncSignalFork` is full or released |
| `SlotsGivenOnce` | no slot of a `Fork` or `SignalFork` is given twice, and who is turned away has come by taken slots only, for every step |
| `RefusedOnlyWhenFull` | if the step has no factor in common with the number of units, all slots are taken then |
| `EmptyHasAReason` | a `dequeue` or `peek` that nobody disturbs finds what was there |

The first three invariants are inductive with the types. `OutcomeInv` adds
`AnswerKept`: what may have been told at each stage of `dispose`, which alone can
change what is known, and only if that is a result. It needs `OutcomeAssumption`:
"no value" is neither a value nor the error that `dispose` stores. `ShardsInv` says
that the arrays are as the shards' locks left them (`ArraysUpright`), that a
`ConcurrentCollection` looks at its shards one after the other, around the end
(`Stretches`), and that an item that was there all along has been found or is still
to come (`NothingPassed`).

`SyncInv` counts: each thread between taking its slot and being counted
(`Uncounted`) holds a slot that `blocked` does not show yet, so that `blocked` can
reach the number of routes only when all slots are taken (`Slots`); `Reasons` says what
can have opened the barrier. `ForksInv` says that a unit which a call does not look at
any more is full and stays so (`NothingMissed`). That a scan comes by every unit,
`StepReachesAll`, is the condition of `RefusedOnlyWhenFull` alone: for a step that has it
from one starting point, modular arithmetic gives it from every other. `fork_step`
shows why the condition is needed.

### StagesProofs

| theorem | statement |
| --- | --- |
| `WorkOncePerStage` | a stage somebody has left had one processor or outcome, and one more for each late lowering of its flag; without any, each task ran as often as it has slots |

`StagesInv` holds as long as the threads are abreast: the crew is no larger than the
barrier (`Counted`) and nobody has left a stage before all had come to its barrier
(`Abreast`). A slow thread may have left the barrier and be yet to lower the flag when
the next stage has begun. `Flagged` says which flag can be up, and that the work of a
stage is done exactly once more than it has been undone by such a thread, or has to be
done again, and then not all have found it done (`Served`). As long as none has
(`UnderWay`), the current processor is the one the stage's threads use (`Shared`), and
the rest is about numbers: there is a set of slots given out, one for each thread that
has taken one, and for each task its runs, the threads about to run it and the slots
left add up to its cap.

### What is not proved

The nine liveness properties (`PermitIsTaken`, `DisposeReleases`, `OpenReleases`,
`WorkersReturn`, `CallsReturn`, `ClockWaitsEnd`, `LatchLetsGo`, `ReadersLeave`,
`UsesEnd`) are out of reach of TLAPS and are model-checked only; `Latches` has no other
property. Every invariant, action property and refinement that a passing run checks
is stated by a theorem. Each inductive invariant was model-checked on the instance of
its run before it was proved.

## 5. Not modelled

- `SignalController`. It has a registry under one lock and calls the registered
  objects; the hazard is the order of its lock and theirs (`dispose` of an object
  unregisters with its own lock held, `dispose` of the controller disposes of the
  objects). The objects are modelled without a controller, whose notifications
  change none of their state.
- `Package`, `RouterGroup`, `ConcurrentTools`, `ObjectManager`, `TreeManager`, the
  timers and interfaces: callables, loops over disjoint chunks, containers under
  one lock.
- Of `MultiConductor`: the loop without forks, which is the Conductor's; the
  ClockBarrier variant, manual release, callbacks, and `Group`. Of
  `BypassConductor`: moving limits. Main barrier and permits are one step there.
- Of `Conductor`: the ClockBarrier variant and the outcomes of tasks.
- Of `Scout`: autoreset and the failure callbacks, which the forks do not use.
- Logging and ids, the controller's events, `acquire(blocking=False)` of the
  regulator (which the code ignores), users of `Dynaphore.condition`.
- `Dynaphore.dispose` writes `_disposed` and `_cond` without the lock; those writes
  fall between other threads' critical sections in the model, not inside them.
- In `Shards`: which head is the oldest, and which shard an item goes to.
- In `SyncForks`: a reset with threads inside.

## 6. Plan

What is left, in the order of what it would add:

| subject | content |
| --- | --- |
| `Conductor` with a `ClockBarrier` | the callback `on_broken` with the barrier's lock held |
| `SignalController` | who holds which lock while asking for which |

Recursion is avoided throughout; parameters are constants with named assumptions;
every module keeps one action per operation or critical section.
