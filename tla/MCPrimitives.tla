----------------------------- MODULE MCPrimitives -----------------------------
(***************************************************************************)
(* SignalBarrier, Dynaphore and FlowRegulator, one at a time: Init chooses *)
(* which of them the threads use, the others stay as they are created.     *)
(* Here the clients of the regulator do everything its interface allows:   *)
(* one of them times out, targets are named, the bias is retuned and       *)
(* callbacks raise.                                                        *)
(***************************************************************************)
EXTENDS SignalBarrier, Dynaphore

CONSTANTS t1, t2, t3, t4

VARIABLES
  used,
  waiters, ahead, rValue, pending, bias, rDisposed, rGone, pc, arg, call, rHolders,
  rIssued     \* the regulator

MCThreads == {t1, t2, t3, t4}
OneTimed == {t1}

regulator == <<waiters, ahead, rValue, pending, bias, rDisposed, rGone, pc, arg, call,
               rHolders, rIssued>>

Regulator == INSTANCE FlowRegulator WITH
  Threads <- {t1, t2, t3}, Targets <- {{t1}}, Thresholds <- {-1, 1}, Retunes <- {-1, 1},
  Faulty <- TRUE,
  value <- rValue, threshold <- bias, disposed <- rDisposed, gone <- rGone,
  holders <- rHolders, issued <- rIssued

allVars == <<used, vars, permitVars, regulator>>

\* The settings of an object that is not used are fixed, so that it counts once.
MCInit ==
  /\ used \in {"barrier", "dynaphore", "regulator"}
  /\ Init /\ PermitsInit /\ Regulator!Init
  /\ used # "barrier" => threshold = 1 /\ ~reusable /\ ~manual
  /\ used # "dynaphore" => value = 0
  /\ used # "regulator" => rValue = 0 /\ bias = 1

Regulating == used = "regulator" /\ UNCHANGED <<used, vars, permitVars>>

\* Regulator!Next, one disjunct for each kind of step.
RegulatorNext ==
  \E t \in {t1, t2, t3} :
    \/ Regulating /\ Regulator!CalmStep(t)
    \/ Regulating /\ Regulator!GiveUp(t)
    \/ Regulating /\ Regulator!Expire(t)
    \/ Regulating /\ Regulator!Withdraw(t)
    \/ \E th \in {-1, 1} : Regulating /\ Regulator!Retune(t, th)
    \/ Regulating /\ Regulator!RetuneOff(t)
    \/ Regulating /\ Regulator!RetuneTo(t)
    \/ \E u \in {t1, t2, t3} : Regulating /\ Regulator!BiasVanishes(t, u)

MCNext ==
  \/ used = "barrier" /\ Next /\ UNCHANGED <<used, permitVars, regulator>>
  \/ used = "dynaphore" /\ PermitsNext /\ UNCHANGED <<used, vars, regulator>>
  \/ RegulatorNext

MCSpec ==
  /\ MCInit /\ [][MCNext]_allVars
  /\ Fairness /\ PermitsFairness

\* The regulator's state keeps its types: retuning, timeouts, raising callbacks
\* and decreases make none of its counters of permits negative.
RegulatorTypeOK == Regulator!TypeOK

\* Every permit the regulator has issued is free, pending or held: flushes and
\* grants move permits and make none up.
PermitConservation == Regulator!PermitConservation

\* The regulator implements PermitPool: a permit is granted only if it is there,
\* once, and not after disposal, however its clients behave.
RegulatorImplementsPool == Regulator!ImplementsPool

=============================================================================
