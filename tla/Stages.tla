-------------------------------- MODULE Stages --------------------------------
(***************************************************************************)
(* Threads that go through stages together: the forked loop of a           *)
(* MultiConductor over its groups, and BypassConductor.transit over its    *)
(* functions.  In each stage the first thread does what is to be done      *)
(* once, all meet at a reusable SignalBarrier, and each of them then takes *)
(* the first one's flag down for the next stage.                           *)
(*                                                                         *)
(*   MultiConductor   the first makes the fork processor that gives the    *)
(*                    group's tasks to the threads (flag: _create_fork);   *)
(*                    a SignalFork runs them at once, a SyncSignalFork     *)
(*                    when all threads have come                           *)
(*   BypassConductor  the first stores the stage's outcome (_outcome_set)  *)
(*                                                                         *)
(* The main barrier and the permits of a MultiConductor (modules Conductor *)
(* and Dynaphore) are taken together here: they let a full crew in at      *)
(* once.  reset is called when everybody is out or waits at the barrier.   *)
(* A reusable MultiConductor without a manual release; no controller; the  *)
(* limit of a BypassConductor is not changed.                              *)
(***************************************************************************)
EXTENDS Waiting, Sequences

CONSTANTS
  Limit,     \* _threshold, _limit: as many threads are let in
  NStages,   \* groups, or functions
  NTasks     \* tasks of each group

ASSUME StagesAssumption ==
  /\ Limit \in 1 .. Cardinality(Threads)
  /\ NStages \in Nat /\ NTasks \in Nat \ {0}

Task == 1 .. NTasks

VARIABLES
  stageAt,    \* where each thread is
  stage,      \* the stage each thread is at
  share,      \* the processor each thread has read, and the task it got there
  procs,      \* the fork processors made: left (slots of each task), blocked
  stages,     \* forks, sync; flag: 0, or the stage it was set in; current
              \* (_fork_processor), broken, released, collapsed; taken: the
              \* permits taken, _count
  mCount, mReleased, mAt, stagesDisposed,   \* the barrier; _disposed
  past,       \* history: per stage, once: how often the first's work was done,
              \* late: how often its flag was taken down from another stage,
              \* ran: how often each task was run, met: who came to the barrier
  abreast     \* history: nobody has passed a barrier without all the others
              \* (MeetOthers), and rounds have begun with nothing left over
              \* (Gather, ResetStages)

meetVars == <<mCount, mReleased, mAt>>
stagesVars == <<stageAt, stage, share, procs, stages, meetVars, stagesDisposed,
                past, abreast>>

Meet == INSTANCE SignalBarrier WITH
  count <- mCount, released <- mReleased, at <- mAt, disposed <- stagesDisposed,
  threshold <- Limit, manual <- FALSE, reusable <- TRUE, orderly <- TRUE,
  MaxThreshold <- Limit, MaxCount <- 2 * Limit, Timed <- {}, Commands <- {},
  Reusables <- {TRUE}, Manuals <- {FALSE}

NoShare == [proc |-> 0, task |-> 0]
Nothing ==
  [s \in 1 .. NStages |-> [once |-> 0, late |-> 0, ran |-> [i \in Task |-> 0],
                           met |-> {}]]

StagesInit ==
  /\ stageAt = Everywhere("out") /\ stage = Everywhere(1) /\ share = Everywhere(NoShare)
  /\ procs = <<>>
  /\ \E f, s \in BOOLEAN :
       stages = [forks |-> f, sync |-> f /\ s, flag |-> 0, current |-> 0,
                 broken |-> FALSE, released |-> FALSE, collapsed |-> FALSE,
                 taken |-> 0]
  /\ mCount = 0 /\ mReleased = FALSE /\ mAt = Everywhere("out")
  /\ stagesDisposed = FALSE
  /\ past = Nothing
  /\ abreast = TRUE

At(t, p) == stageAt[t] = p /\ ~stagesDisposed
Onto(t, p) == stageAt' = Sent(stageAt, t, p)

\* The call ends, and with it the thread's local variables.
ComeOut(t) ==
  Onto(t, "out") /\ stage' = [stage EXCEPT ![t] = 1] /\ share' = [share EXCEPT ![t] = NoShare]

AllOut == \A t \in Threads : stageAt[t] = "out"

\* The first's work is done; the flag goes up.
Once(t) == past' = [past EXCEPT ![stage[t]].once = @ + 1]

-----------------------------------------------------------------------------
(* A round begins                                                          *)

\* A crew has passed the main barrier, and each of it has a permit.
Gather ==
  /\ stages.forks /\ ~stages.broken /\ ~stagesDisposed /\ stages.taken <= 0
  /\ \E crew \in SUBSET {t \in Threads : stageAt[t] = "out"} :
       /\ Cardinality(crew) = Limit
       /\ stageAt' = [t \in Threads |-> IF t \in crew THEN "head" ELSE stageAt[t]]
  /\ past' = Nothing
  /\ procs' = IF stages.current = 0 THEN <<>> ELSE <<procs[stages.current]>>
  /\ stages' = [stages EXCEPT !.current = Len(procs'), !.taken = @ + Limit]
  /\ abreast' = (abreast /\ stages.flag = 0)
  /\ UNCHANGED <<stage, share, meetVars, stagesDisposed>>

TryClaimSlot(t) ==
  /\ ~stages.forks /\ At(t, "out") /\ ~stages.collapsed /\ stages.taken < Limit
  /\ stages' = [stages EXCEPT !.taken = @ + 1]
  /\ Onto(t, "head")
  /\ UNCHANGED <<stage, share, procs, meetVars, stagesDisposed, past, abreast>>

\* release_permit; _decrement_count, which stops at zero.
Vacated ==
  IF stages.forks THEN stages.taken - (IF stagesDisposed THEN 0 ELSE 1)
  ELSE IF stages.taken > 0 THEN stages.taken - 1 ELSE 0

\* The head of the loop.
StageHead(t) ==
  /\ stageAt[t] = "head" /\ (stages.forks \/ ~stagesDisposed)
  /\ IF stage[t] > NStages \/ (stages.forks /\ stages.broken)
       THEN /\ ComeOut(t)
            /\ stages' = [stages EXCEPT !.released = @ \/ stages.forks,
                                        !.collapsed = @ \/ ~stages.forks,
                                        !.taken = Vacated]
       ELSE /\ Onto(t, IF stages.forks THEN "make" ELSE "set")
            /\ UNCHANGED <<stage, share, stages>>
  /\ UNCHANGED <<procs, meetVars, stagesDisposed, past, abreast>>

-----------------------------------------------------------------------------
(* MultiConductor: _fork_execution_loop                                    *)

\* Each thread has a slot, and the tasks have the same number of them, or one
\* more.
Cap(i) == Cardinality({k \in 0 .. Limit - 1 : k % NTasks = i - 1})

NewProcessor == [left |-> [i \in Task |-> Cap(i)], blocked |-> 0]

\* Slip: the thread has looked at the flag before it had the lock.
MakeAnother(t) ==
  /\ At(t, "make")
  /\ procs' = Append(procs, NewProcessor)
  /\ stages' = [stages EXCEPT !.current = Len(procs'), !.flag = stage[t]]
  /\ Once(t)
  /\ Onto(t, "read")
  /\ UNCHANGED <<stage, share, meetVars, stagesDisposed, abreast>>

MakeProcessor(t) ==
  /\ At(t, "make")
  /\ IF stages.flag = 0
       THEN /\ procs' = Append(procs, NewProcessor)
            /\ stages' = [stages EXCEPT !.current = Len(procs'), !.flag = stage[t]]
            /\ Once(t)
       ELSE UNCHANGED <<procs, stages, past>>
  /\ Onto(t, "read")
  /\ UNCHANGED <<stage, share, meetVars, stagesDisposed, abreast>>

\* Without the lock: the processor may be a newer one by now.
ReadProcessor(t) ==
  /\ At(t, "read")
  /\ share' = [share EXCEPT ![t].proc = stages.current]
  /\ Onto(t, "use")
  /\ UNCHANGED <<stage, procs, stages, meetVars, stagesDisposed, past, abreast>>

RunTask(t, i) ==
  past' = [past EXCEPT ![stage[t]].ran[i] = @ + 1, ![stage[t]].met = @ \union {t}]

UseProcessor(t) ==
  /\ At(t, "use")
  /\ LET p == share[t].proc IN
     \E i \in Task :
       /\ procs[p].left[i] > 0
       /\ procs' = [procs EXCEPT ![p].left[i] = @ - 1, ![p].blocked = @ + 1]
       /\ IF stages.sync
            THEN /\ Onto(t, "await")
                 /\ share' = [share EXCEPT ![t].task = i]
                 /\ UNCHANGED past
            ELSE RunTask(t, i) /\ Onto(t, "meet") /\ UNCHANGED share
  /\ UNCHANGED <<stage, stages, meetVars, stagesDisposed, abreast>>

\* The SyncSignalFork is full: its event is set.
RunTogether(t) ==
  /\ At(t, "await") /\ procs[share[t].proc].blocked = Limit
  /\ RunTask(t, share[t].task) /\ Onto(t, "meet")
  /\ share' = [share EXCEPT ![t].task = 0]
  /\ UNCHANGED <<stage, procs, stages, meetVars, stagesDisposed, abreast>>

\* notify_all_override: the loops end at their next head, the inner barrier
\* is not touched.
Interrupted ==
  IF stages.released \/ stagesDisposed THEN stages
  ELSE [stages EXCEPT !.broken = TRUE, !.released = TRUE]

\* use_fork raises; start catches it and overrides.
NoTaskLeft(t) ==
  /\ At(t, "use") /\ \A i \in Task : procs[share[t].proc].left[i] = 0
  /\ stages' = [Interrupted EXCEPT !.taken = Vacated]
  /\ ComeOut(t)
  /\ UNCHANGED <<procs, meetVars, stagesDisposed, past, abreast>>

-----------------------------------------------------------------------------
(* BypassConductor: _set_result, _set_exception                            *)

SetOutcome(t) ==
  /\ At(t, "set")
  /\ LET first == stages.flag = 0 IN
       /\ stages' = [stages EXCEPT !.flag = IF first THEN stage[t] ELSE @]
       /\ past' = [past EXCEPT ![stage[t]].once = IF first THEN @ + 1 ELSE @,
                               ![stage[t]].met = @ \union {t}]
  /\ Onto(t, "meet")
  /\ UNCHANGED <<stage, share, procs, meetVars, stagesDisposed, abreast>>

-----------------------------------------------------------------------------
(* The barrier after each stage                                            *)

\* While the barrier drains, a fast thread that comes back to it goes straight
\* through: then it has met nobody.
MeetOthers(t) ==
  /\ stageAt[t] = "meet"
  /\ \/ Meet!Call(t) /\ (stages.forks \/ ~stagesDisposed) /\ UNCHANGED <<stageAt, abreast>>
     \/ /\ Meet!TurnAway(t) \/ Meet!ArriveAndPass(t) \/ Meet!ArriveAndWait(t)
             \/ Meet!Leave(t) \/ Meet!WaitAgain(t)
        /\ IF mAt'[t] = "out"
             THEN /\ Onto(t, "lower")
                  /\ abreast' = (abreast /\ Cardinality(past[stage[t]].met) = Limit)
             ELSE UNCHANGED <<stageAt, abreast>>
  /\ UNCHANGED <<stage, share, procs, stages, stagesDisposed, past>>

\* A slow thread takes down the flag that a fast one has put up for a later
\* stage.
LowerFlag(t) ==
  /\ stageAt[t] = "lower"
  /\ past' = IF stages.flag \in {0, stage[t]} THEN past
             ELSE [past EXCEPT ![stages.flag].late = @ + 1]
  /\ stages' = [stages EXCEPT !.flag = 0]
  /\ stage' = [stage EXCEPT ![t] = @ + 1]
  /\ Onto(t, "head")
  /\ UNCHANGED <<share, procs, meetVars, stagesDisposed, abreast>>

-----------------------------------------------------------------------------
(* The owner                                                               *)

\* notify_all_override; collapse.
OverrideStages ==
  /\ stages' = IF stages.forks THEN Interrupted ELSE [stages EXCEPT !.collapsed = TRUE]
  /\ UNCHANGED <<stageAt, stage, share, procs, meetVars, stagesDisposed, past,
                 abreast>>

\* reset leaves the flag and the processor of a MultiConductor as they are, and
\* the flag and the barrier of a BypassConductor.
ResetStages ==
  /\ ~stagesDisposed
  /\ \A t \in Threads : stageAt[t] = "out" \/ (stageAt[t] = "meet" /\ mAt[t] = "wait")
  /\ stages' = [stages EXCEPT !.broken = FALSE, !.released = FALSE, !.collapsed = FALSE,
                              !.taken = 0]
  /\ IF stages.forks THEN Meet!Reset ELSE UNCHANGED meetVars
  /\ past' = Nothing
  /\ abreast' = (AllOut /\ stages.flag = 0 /\ mCount' = 0)
  /\ UNCHANGED <<stageAt, stage, share, procs, stagesDisposed>>

DisposeStages ==
  /\ ~stagesDisposed
  /\ stagesDisposed' = TRUE
  /\ mAt' = Meet!Awakened
  /\ stages' = [stages EXCEPT !.broken = stages.forks, !.released = stages.forks,
                              !.collapsed = ~stages.forks]
  /\ UNCHANGED <<stageAt, stage, share, procs, mCount, mReleased, past, abreast>>

\* What the thread needs next is gone: it comes out by an exception.
StageFails(t) ==
  /\ stagesDisposed
  /\ \/ stages.forks /\ stageAt[t] \in {"make", "read", "use", "await"}
     \/ ~stages.forks /\ stageAt[t] \in {"head", "set"}
     \/ ~stages.forks /\ stageAt[t] = "meet" /\ mAt[t] = "out"
  /\ ComeOut(t)
  /\ stages' = [stages EXCEPT !.taken = Vacated]
  /\ UNCHANGED <<procs, meetVars, stagesDisposed, past, abreast>>

-----------------------------------------------------------------------------

StagesNext ==
  \/ Gather \/ OverrideStages \/ ResetStages \/ DisposeStages
  \/ \E t \in Threads :
       TryClaimSlot(t) \/ StageHead(t) \/ MakeProcessor(t) \/ ReadProcessor(t)
         \/ UseProcessor(t) \/ RunTogether(t) \/ NoTaskLeft(t) \/ SetOutcome(t)
         \/ MeetOthers(t) \/ LowerFlag(t) \/ StageFails(t)

StagesSpec == StagesInit /\ [][StagesNext]_stagesVars

(* When a thread goes on to the next stage, the first's work for this one  *)
(* is done, and once more for each time that a slow thread, on its way out *)
(* of another stage, took this stage's flag down; if none did, each task   *)
(* has been run as often as it has slots.  That is so as long as nobody    *)
(* laps the barrier and no round begins with a flag or a waiter left from  *)
(* before; both can happen (_fork_execution_loop, transit, reset).         *)
OncePerStage ==
  abreast /\ ~stagesDisposed =>
    \A t \in Threads : \A s \in 1 .. stage[t] - 1 :
      stageAt[t] # "out" =>
        /\ past[s].once = past[s].late + 1
        /\ stages.forks /\ past[s].late = 0 => \A i \in Task : past[s].ran[i] = Cap(i)

=============================================================================
