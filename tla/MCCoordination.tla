---------------------------- MODULE MCCoordination ----------------------------
(***************************************************************************)
(* The coordination objects, one at a time: Init chooses which of them the *)
(* threads use, the others stay as they are created.                       *)
(***************************************************************************)
EXTENDS ClockBarrier, TransitBarrier, Latches, Outcome, Forks, SyncForks, Shards,
        Stages

CONSTANTS t1, t2, t3, v1, v2,
  Objects   \* the objects to be used

VARIABLE used

MCThreads == {t1, t2, t3}
OneTimed == {t1}
TwoValues == {v1, v2}
Everything == {"clock", "transit", "latch", "outcome", "fork", "syncfork", "shards",
               "stages"}
SyncForkOnly == {"syncfork"}
TransitOnly == {"transit"}
ForkOnly == {"fork"}

\* A SyncFork with and without a timeout, and a SyncSignalFork without one.
Untroubled == {<<FALSE, FALSE, FALSE>>, <<FALSE, TRUE, FALSE>>,
               <<TRUE, FALSE, FALSE>>, <<TRUE, FALSE, TRUE>>}
\* A SyncSignalFork with a timeout.
SignalTimed == {<<TRUE, TRUE, FALSE>>}

vars == <<used, clockVars, transitVars, latchVars, outcomeVars, forksVars, syncVars,
          shardsVars, stagesVars>>

\* The settings of an object that is not used are fixed, so that it counts once.
Init ==
  /\ used \in Objects
  /\ ClockInit /\ TransitInit /\ LatchInit /\ OutcomeInit /\ ForksInit /\ SyncInit
  /\ ShardsInit /\ StagesInit
  /\ used # "clock" => clock.parties = 1
  /\ used # "transit" => transit.threshold = 1 /\ ~transit.reusable /\ ~transit.manual
  /\ used # "latch" => ~latch.looping
  /\ IF used = "fork"
       THEN \A u \in Unit : forks.cap[u] > 0 \/ u > 1
       ELSE (\A u \in Unit : forks.cap[u] = 0) /\ ~forks.signal /\ ~forks.rotate
  /\ used # "syncfork" => /\ fork.routes = 1
                          /\ <<fork.signal, fork.timed, fork.manual>> =
                               CHOOSE s \in Settings : TRUE
  /\ used # "shards" => ~store.timed
  /\ used # "stages" => ~stages.forks

OnClock ==
  /\ used = "clock"
  /\ UNCHANGED <<used, transitVars, latchVars, outcomeVars, forksVars,
                 syncVars, shardsVars, stagesVars>>

OnTransit ==
  /\ used = "transit"
  /\ UNCHANGED <<used, clockVars, latchVars, outcomeVars, forksVars,
                 syncVars, shardsVars, stagesVars>>

OnLatch ==
  /\ used = "latch"
  /\ UNCHANGED <<used, clockVars, transitVars, outcomeVars, forksVars,
                 syncVars, shardsVars, stagesVars>>

OnOutcome ==
  /\ used = "outcome"
  /\ UNCHANGED <<used, clockVars, transitVars, latchVars, forksVars,
                 syncVars, shardsVars, stagesVars>>

OnFork ==
  /\ used = "fork"
  /\ UNCHANGED <<used, clockVars, transitVars, latchVars, outcomeVars,
                 syncVars, shardsVars, stagesVars>>

OnSyncFork ==
  /\ used = "syncfork"
  /\ UNCHANGED <<used, clockVars, transitVars, latchVars, outcomeVars,
                 forksVars, shardsVars, stagesVars>>

OnShards ==
  /\ used = "shards"
  /\ UNCHANGED <<used, clockVars, transitVars, latchVars, outcomeVars,
                 forksVars, syncVars, stagesVars>>

OnStages ==
  /\ used = "stages"
  /\ UNCHANGED <<used, clockVars, transitVars, latchVars, outcomeVars,
                 forksVars, syncVars, shardsVars>>

\* Two writers are enough for an outcome, and two threads for the forks and the
\* shards, where one of them does nothing but take items.
TwoPick == pickAt'[t3] = "out"
OneTakes == shardAt'[t2] \in {"out", "take"} /\ shardAt'[t3] = "out"

\* The stages are looked at as long as the crew keeps abreast; after that only
\* where one is left behind at the barrier with the flag up, and a third thread
\* takes its place.
Followed ==
  IF abreast THEN stageAt'[t3] = "out"
  ELSE /\ stages.forks /\ ~stages.sync /\ stages.flag # 0
       /\ \E t \in Threads : mAt[t] = "wait" /\ mAt'[t] = "wait"

Next ==
  \/ OnClock /\ ClockNext
  \/ OnTransit /\ TransitNext
  \/ OnLatch /\ LatchNext
  \/ OnOutcome /\ OutcomeNext /\ errand'[t3] \notin Writes
  \/ OnFork /\ ForksNext /\ TwoPick
  \/ OnSyncFork /\ SyncNext
  \/ OnShards /\ ShardsNext /\ OneTakes
  \/ OnStages /\ StagesNext /\ Followed

\* A thread that is inside goes on when it can: a lock it waits for and that
\* is free is given to it, and a timeout passes.
GoesOn(t) ==
  \/ OnClock /\ ClockResume(t)
  \/ OnLatch /\ LatchResume(t)
  \/ OnOutcome /\ OutcomeResume(t)
  \/ OnSyncFork /\ SyncResume(t)

\* The clock of a ClockBarrier runs, and a dispose that has begun goes on.
Begun ==
  \/ OnClock /\ Elapse
  \/ OnLatch /\ latch.disposed = "marked" /\ OpenForGood
  \/ OnLatch /\ DisposeCondition
  \/ OnOutcome /\ Settle

Spec ==
  /\ Init /\ [][Next]_vars
  /\ \A t \in Threads : WF_vars(GoesOn(t))
  /\ WF_vars(Begun)

=============================================================================
