------------------------------ MODULE Conductor ------------------------------
(***************************************************************************)
(* Conductor without a timeout: threads meet at a SignalBarrier, take a    *)
(* permit of a Dynaphore and run the tasks in step, meeting at a reusable  *)
(* internal SignalBarrier after each one.                                  *)
(*                                                                         *)
(* The two barriers and the dynaphore are instances of their modules: a    *)
(* thread inside one of them takes that module's steps.  The Conductor's   *)
(* own `with self._lock` blocks are one step each, dispose included: the   *)
(* threads it wakes need that lock, or an object it has just set to None,  *)
(* before they can tell how far it has got.                                *)
(***************************************************************************)
EXTENDS Integers, FiniteSets

CONSTANTS
  Threads,
  Threshold,     \* _threshold
  NTasks,        \* how many tasks there are
  Impatient,     \* threads that pass a timeout to start
  Commands,      \* what the owner may do
  Reusables,     \* the reusable flags an owner may choose
  Manuals        \* the manual_release flags an owner may choose

Command == {"release", "reset", "notify_all_override", "dispose"}

ASSUME ConductorAssumption ==
  /\ IsFiniteSet(Threads)
  /\ Threshold \in Nat \ {0}
  /\ NTasks \in Nat
  /\ Impatient \subseteq Threads
  /\ Commands \subseteq Command
  /\ Reusables \subseteq BOOLEAN
  /\ Manuals \subseteq BOOLEAN

VARIABLES
  released,    \* _released
  broken,      \* _broken
  disposed,    \* _disposed, and that of the three primitives
  gateSet,     \* _manual_release_gate
  reusable,    \* reusable, chosen once
  manual,      \* manual_release, chosen once
  mCount, mReleased, mAt,    \* _main_barrier
  sCount, sReleased, sAt,    \* _internal_threshold_barrier
  permits, dAt,              \* _dynaphore
  pc,          \* where each thread is in start
  task,        \* the index of the task each thread is at
  done,        \* <<t, i>> : t has run task i in this round
  called,      \* _callback_executed_flags
  arrived      \* threads that entered start in this round

mainVars == <<mCount, mReleased, mAt>>
stepVars == <<sCount, sReleased, sAt>>
permitVars == <<permits, dAt>>
flags == <<released, broken, disposed, gateSet, reusable, manual>>
history == <<done, called, arrived>>
vars == <<flags, mainVars, stepVars, permitVars, pc, task, history>>

Main == INSTANCE SignalBarrier WITH
          count <- mCount, released <- mReleased, at <- mAt,
          threshold <- Threshold, manual <- FALSE, orderly <- TRUE,
          MaxThreshold <- Threshold, MaxCount <- Cardinality(Threads), Timed <- {}

Meet == INSTANCE SignalBarrier WITH
          count <- sCount, released <- sReleased, at <- sAt,
          threshold <- Threshold, manual <- FALSE, orderly <- TRUE, reusable <- TRUE,
          MaxThreshold <- Threshold, MaxCount <- Cardinality(Threads), Timed <- {}

Permits == INSTANCE Dynaphore WITH
             value <- permits, permitAt <- dAt,
             permitsDisposed <- disposed, gone <- disposed,
             holders <- {}, issued <- 0,
             MaxPermits <- Threshold, Timed <- Impatient

(* idle      outside of start, or returned from it                         *)
(* main      at the main barrier                                           *)
(* passed    past it                                                       *)
(* permit    at the dynaphore                                              *)
(* granted   with a permit                                                 *)
(* task      at the head of the loop over the tasks                        *)
(* meet      at the internal barrier                                       *)
(* callback  past it, about to run the callback if nobody has              *)
(* finish    past the tasks                                                *)
(* gate      blocked on the manual gate                                    *)
Place == {"idle", "main", "passed", "permit", "granted", "task", "meet", "callback",
          "finish", "gate"}

Init ==
  /\ released = FALSE /\ broken = FALSE /\ disposed = FALSE /\ gateSet = FALSE
  /\ reusable \in Reusables
  /\ manual \in Manuals
  /\ mCount = 0 /\ mReleased = FALSE /\ mAt = [t \in Threads |-> "out"]
  /\ sCount = 0 /\ sReleased = FALSE /\ sAt = [t \in Threads |-> "out"]
  /\ permits = Threshold /\ dAt = [t \in Threads |-> "out"]
  /\ pc = [t \in Threads |-> "idle"]
  /\ task = [t \in Threads |-> 1]
  /\ done = {} /\ called = {} /\ arrived = {}

Goto(t, p) == pc' = [pc EXCEPT ![t] = p]

-----------------------------------------------------------------------------
(* start                                                                   *)

Start(t) ==
  /\ pc[t] = "idle"
  /\ ~disposed /\ ~broken /\ ~(released /\ ~reusable)
  /\ Goto(t, "main")
  /\ task' = [task EXCEPT ![t] = 1]
  /\ arrived' = arrived \union {t}
  /\ UNCHANGED <<flags, mainVars, stepVars, permitVars, done, called>>

(* _main_barrier.wait(); what it returns is not looked at, so a thread     *)
(* that a spent barrier turns away goes on like the others.                *)
MainBarrier(t) ==
  /\ pc[t] = "main"
  /\ \/ mAt[t] = "out" /\ Main!IsSpent /\ UNCHANGED mainVars /\ Goto(t, "passed")
     \/ Main!Call(t) /\ UNCHANGED pc
     \/ /\ Main!TurnAway(t) \/ Main!ArriveAndPass(t) \/ Main!ArriveAndWait(t)
             \/ Main!Leave(t) \/ Main!WaitAgain(t)
        /\ IF mAt'[t] = "out" THEN Goto(t, "passed") ELSE UNCHANGED pc
  /\ UNCHANGED <<flags, stepVars, permitVars, task, history>>

\* Slip: the thread goes to work without a permit.
CheckBrokenOnly(t) ==
  /\ pc[t] = "passed" /\ Goto(t, IF broken THEN "idle" ELSE "task")
  /\ UNCHANGED <<flags, mainVars, stepVars, permitVars, task, history>>

CheckBroken(t) ==
  /\ \/ pc[t] = "passed" /\ Goto(t, IF broken THEN "idle" ELSE "permit")
     \/ pc[t] = "granted" /\ Goto(t, IF broken THEN "idle" ELSE "task")
  /\ UNCHANGED <<flags, mainVars, stepVars, permitVars, task, history>>

(* _dynaphore.wait_for_permit(timeout).  With the conductor disposed of    *)
(* the attribute is None; the exception ends start.                        *)
TakePermit(t) ==
  /\ pc[t] = "permit"
  /\ \/ dAt[t] = "out" /\ disposed /\ UNCHANGED permitVars /\ Goto(t, "idle")
     \/ Permits!Ask(t) /\ UNCHANGED pc
     \/ Permits!Take(t) /\ Goto(t, "granted")
     \/ Permits!Block(t) /\ UNCHANGED pc
     \/ Permits!GoWithout(t) /\ Goto(t, "idle")
     \/ dAt[t] = "ask" /\ Permits!Trip(t) /\ permits' = permits /\ Goto(t, "idle")
  /\ UNCHANGED <<flags, mainVars, stepVars, task, history>>

PermitTimeout(t) ==
  /\ Permits!RunOut(t)
  /\ UNCHANGED <<flags, mainVars, stepVars, pc, task, history>>

-----------------------------------------------------------------------------
(* _execute_operations                                                     *)

\* Slip: the threads do not meet after the task.
RunTaskAlone(t) ==
  /\ pc[t] = "task"
  /\ IF broken \/ disposed \/ task[t] > NTasks
       THEN Goto(t, "finish") /\ UNCHANGED done
       ELSE /\ done' = done \union {<<t, task[t]>>}
            /\ Goto(t, "callback")
  /\ UNCHANGED <<flags, mainVars, stepVars, permitVars, task, called, arrived>>

RunTask(t) ==
  /\ pc[t] = "task"
  /\ IF broken \/ disposed \/ task[t] > NTasks
       THEN Goto(t, "finish") /\ UNCHANGED done
       ELSE /\ done' = done \union {<<t, task[t]>>}
            /\ Goto(t, "meet")
  /\ UNCHANGED <<flags, mainVars, stepVars, permitVars, task, called, arrived>>

\* _internal_threshold_barrier.wait(), or None once disposed of.
MeetOthers(t) ==
  /\ pc[t] = "meet"
  /\ \/ sAt[t] = "out" /\ disposed /\ UNCHANGED stepVars /\ Goto(t, "idle")
     \/ ~disposed /\ Meet!Call(t) /\ UNCHANGED pc
     \/ /\ Meet!TurnAway(t) \/ Meet!ArriveAndPass(t) \/ Meet!ArriveAndWait(t)
             \/ Meet!Leave(t) \/ Meet!WaitAgain(t)
        /\ IF sAt'[t] = "out" THEN Goto(t, "callback") ELSE UNCHANGED pc
  /\ UNCHANGED <<flags, mainVars, permitVars, task, history>>

\* The first thread that gets here runs the callback of the task.
RunCallback(t) ==
  /\ pc[t] = "callback"
  /\ called' = called \union {task[t]}
  /\ task' = [task EXCEPT ![t] = @ + 1]
  /\ Goto(t, "task")
  /\ UNCHANGED <<flags, mainVars, stepVars, permitVars, done, arrived>>

Finish(t) ==
  /\ pc[t] = "finish"
  /\ IF manual
       THEN /\ Goto(t, IF gateSet THEN "idle" ELSE "gate")
            /\ UNCHANGED released
       ELSE Goto(t, "idle") /\ released' = TRUE
  /\ UNCHANGED <<broken, disposed, gateSet, reusable, manual,
                 mainVars, stepVars, permitVars, task, history>>

-----------------------------------------------------------------------------
(* The owner: release, notify_all_override, reset, dispose                 *)

\* Event.set(): whoever blocks on the gate returns from start.
OpenGate ==
  /\ gateSet' = manual
  /\ pc' = [t \in Threads |-> IF pc[t] = "gate" /\ manual THEN "idle" ELSE pc[t]]

Release ==
  /\ ~disposed /\ manual /\ ~released
  /\ released' = TRUE
  /\ OpenGate
  /\ UNCHANGED <<broken, disposed, reusable, manual, mainVars, stepVars, permitVars,
                 task, history>>

\* Slip: the conductor is not marked as broken.
OverrideUnbroken ==
  /\ ~disposed /\ ~released
  /\ released' = TRUE
  /\ Main!NotifyAllOverride \/ (mReleased /\ UNCHANGED mainVars)
  /\ dAt' = Permits!Told(Permits!Queued)
  /\ OpenGate
  /\ UNCHANGED <<broken, disposed, reusable, manual, stepVars, permits, task, history>>

(* Main barrier, dynaphore and gate let go; the internal barrier is not    *)
(* touched, and a thread the dynaphore wakes finds no permit.              *)
NotifyAllOverride ==
  /\ ~disposed /\ ~released
  /\ broken' = TRUE /\ released' = TRUE
  /\ Main!NotifyAllOverride \/ (mReleased /\ UNCHANGED mainVars)
  /\ dAt' = Permits!Told(Permits!Queued)
  /\ OpenGate
  /\ UNCHANGED <<disposed, reusable, manual, stepVars, permits, task, history>>

\* Bound: owners reset between rounds, with nobody inside start.
BetweenRounds == \A t \in Threads : pc[t] = "idle"

\* Slip: the round's permits come on top of those left over.
ResetAddsPermits ==
  /\ ~disposed /\ reusable /\ BetweenRounds
  /\ released' = FALSE /\ broken' = FALSE /\ gateSet' = FALSE
  /\ Main!Reset /\ Meet!Reset
  /\ permits' = permits + Threshold
  /\ called' = {} /\ done' = {} /\ arrived' = {}
  /\ UNCHANGED <<disposed, reusable, manual, pc, task, dAt>>

Reset ==
  /\ ~disposed /\ reusable /\ BetweenRounds
  /\ released' = FALSE /\ broken' = FALSE /\ gateSet' = FALSE
  /\ Main!Reset /\ Meet!Reset
  /\ permits' = Threshold
  /\ IF permits < Threshold THEN dAt' \in Permits!Notified(Threshold - permits)
                            ELSE UNCHANGED dAt
  /\ called' = {} /\ done' = {} /\ arrived' = {}
  /\ UNCHANGED <<disposed, reusable, manual, pc, task>>

\* Slip: the internal barrier is forgotten.
DisposeForgetful ==
  /\ ~disposed
  /\ disposed' = TRUE /\ broken' = TRUE /\ released' = TRUE
  /\ mAt' = Main!Awakened
  /\ dAt' = Permits!Told(Permits!Queued)
  /\ OpenGate
  /\ UNCHANGED <<reusable, manual, mCount, mReleased, stepVars, permits,
                 task, history>>

Dispose ==
  /\ ~disposed
  /\ disposed' = TRUE /\ broken' = TRUE /\ released' = TRUE
  /\ mAt' = Main!Awakened /\ sAt' = Meet!Awakened
  /\ dAt' = Permits!Told(Permits!Queued)
  /\ OpenGate
  /\ UNCHANGED <<reusable, manual, mCount, mReleased, sCount, sReleased, permits,
                 task, history>>

-----------------------------------------------------------------------------

Advance(t) ==
  \/ MainBarrier(t) \/ CheckBroken(t) \/ TakePermit(t)
  \/ RunTask(t) \/ MeetOthers(t) \/ RunCallback(t) \/ Finish(t)

Owner ==
  \/ "release" \in Commands /\ Release
  \/ "notify_all_override" \in Commands /\ NotifyAllOverride
  \/ "reset" \in Commands /\ Reset
  \/ "dispose" \in Commands /\ Dispose

Next == Owner \/ \E t \in Threads : Start(t) \/ Advance(t) \/ PermitTimeout(t)

Spec == Init /\ [][Next]_vars

(* A thread inside start that is not blocked runs on: tasks and callbacks  *)
(* return, locks are granted.  Nobody has to call start or to command      *)
(* anything, and timeouts may be long.                                     *)
FairSpec == Spec /\ \A t \in Threads : WF_vars(Advance(t))

-----------------------------------------------------------------------------

TypeOK ==
  /\ released \in BOOLEAN /\ broken \in BOOLEAN /\ disposed \in BOOLEAN
  /\ gateSet \in BOOLEAN /\ reusable \in BOOLEAN /\ manual \in BOOLEAN
  /\ mCount \in Int /\ mReleased \in BOOLEAN /\ mAt \in [Threads -> Main!Place]
  /\ sCount \in Int /\ sReleased \in BOOLEAN /\ sAt \in [Threads -> Meet!Place]
  /\ permits \in 0 .. Threshold /\ dAt \in [Threads -> Permits!PermitPlace]
  /\ pc \in [Threads -> Place]
  /\ task \in [Threads -> 1 .. NTasks + 1]
  /\ done \subseteq Threads \X (1 .. NTasks)
  /\ called \subseteq 1 .. NTasks
  /\ arrived \subseteq Threads

Workers == {t \in Threads : \E i \in 1 .. NTasks : <<t, i>> \in done}
RanBy(i) == {t \in Threads : <<t, i>> \in done}

(* No task runs before threshold threads have come, even when an override  *)
(* or dispose empties the main barrier early (start).                      *)
TasksWaitForThreshold == done # {} => Cardinality(arrived) >= Threshold

(* However many threads call start, no more than threshold of them run the *)
(* tasks of a round (start: one permit for each).                          *)
WorkersWithinThreshold == Cardinality(Workers) <= Threshold

(* No callback runs before threshold threads have run the first task: that *)
(* far the threads are in step (_execute_operations).  dispose lets them   *)
(* go early, and at a later task a thread that has lapped the others may   *)
(* call back alone.                                                        *)
CallbackAfterAll ==
  ~disposed /\ called # {} => Cardinality(RanBy(1)) >= Threshold

(* A thread that got a permit comes through, whatever the others do: it    *)
(* waits for nobody who does not come, except for the owner at the manual  *)
(* gate.  An override is left out: it does not open the internal barrier.  *)
WorkersReturn ==
  \A t \in Threads :
    pc[t] = "granted" ~> (pc[t] \in {"idle", "gate"} \/ (broken /\ ~disposed))

(* The same for the threads before the main barrier: once threshold of     *)
(* them have come, each returns from start or waits at the manual gate.    *)
StartReturns ==
  \A t \in Threads :
    (pc[t] # "idle" /\ Cardinality(arrived) >= Threshold)
      ~> (pc[t] \in {"idle", "gate"} \/ broken)

(* dispose unblocks every thread that is in start.                         *)
DisposeReleases == disposed ~> \A t \in Threads : pc[t] = "idle"

=============================================================================
