------------------------------- MODULE Outcome -------------------------------
(***************************************************************************)
(* Outcome: the result of a task, written once and waited for by many.     *)
(*                                                                         *)
(* Every call looks at _disposed (and at _condition) before it takes the   *)
(* lock; dispose sets the flag first, then, under the lock, an exception   *)
(* when there is no outcome yet, and at last, without the lock, removes    *)
(* the result and the condition.  A caller caught in between trips over    *)
(* None.                                                                   *)
(***************************************************************************)
EXTENDS Waiting

CONSTANTS
  Values,     \* what a task may return or raise
  NoValue     \* None

DisposedError == "disposed"

ASSUME OutcomeAssumption == NoValue \notin Values /\ NoValue # DisposedError

VARIABLES
  outcomeAt,
  errand,     \* what each thread that is inside has come for
  outcome,    \* done, result, exception, and how far dispose has come
  told        \* history: what result has answered

outcomeVars == <<outcomeAt, errand, outcome, told>>

Writes == {"result", "exception"} \X Values
Reading == <<"read", NoValue>>   \* result()
Asking == <<"ask", NoValue>>     \* exception()
Errand == Writes \union {Reading, Asking}
Purged == <<"result", NoValue>>

OutcomeInit ==
  /\ outcomeAt = Everywhere("out")
  /\ errand = Everywhere(Reading)
  /\ outcome = [done |-> FALSE, result |-> NoValue, exception |-> NoValue,
                disposed |-> "no"]
  /\ told = {}

-----------------------------------------------------------------------------

\* A call of set_result, set_exception, result or exception, past its look at
\* _disposed; the refused ones change nothing.
CallOutcome(t, what) ==
  /\ outcomeAt[t] = "out" /\ outcome.disposed = "no"
  /\ errand' = [errand EXCEPT ![t] = what]
  /\ outcomeAt' = Sent(outcomeAt, t, "lock")
  /\ UNCHANGED <<outcome, told>>

\* The end of the call, the others being where `at` says.
Leave(t, at) ==
  /\ outcomeAt' = Sent(at, t, "out")
  /\ errand' = [errand EXCEPT ![t] = Reading]

\* dispose has taken the condition away: the call raises.
Trip(t) ==
  /\ outcomeAt[t] = "lock" /\ outcome.disposed = "done"
  /\ Leave(t, outcomeAt)
  /\ UNCHANGED <<outcome, told>>

Locks(t) == outcomeAt[t] = "lock" /\ outcome.disposed # "done"

Filled(kind, v) ==
  IF kind = "result"
    THEN [outcome EXCEPT !.done = TRUE, !.result = v]
    ELSE [outcome EXCEPT !.done = TRUE, !.exception = v]

\* Slip: the later write replaces the earlier one.
Overwrite(t) ==
  /\ Locks(t) /\ errand[t] \in Writes
  /\ outcome' = Filled(errand[t][1], errand[t][2])
  /\ Leave(t, Roused(outcomeAt))
  /\ UNCHANGED told

\* Slip: a reader that came first is not woken.
WriteQuietly(t) ==
  /\ Locks(t) /\ errand[t] \in Writes
  /\ outcome' = IF outcome.done THEN outcome ELSE Filled(errand[t][1], errand[t][2])
  /\ Leave(t, outcomeAt)
  /\ UNCHANGED told

\* set_result, set_exception: the first one counts.
Write(t) ==
  /\ Locks(t) /\ errand[t] \in Writes
  /\ IF outcome.done
       THEN UNCHANGED outcome /\ Leave(t, outcomeAt)
       ELSE /\ outcome' = Filled(errand[t][1], errand[t][2])
            /\ Leave(t, Roused(outcomeAt))
  /\ UNCHANGED told

\* result raises the exception if there is one.
Known ==
  IF outcome.exception # NoValue
    THEN <<"exception", outcome.exception>>
    ELSE <<"result", outcome.result>>

Read(t) ==
  /\ Locks(t) \/ outcomeAt[t] = "woken"
  /\ errand[t] \notin Writes /\ outcome.done
  /\ told' = IF errand[t] = Reading THEN told \union {Known} ELSE told
  /\ Leave(t, outcomeAt)
  /\ UNCHANGED outcome

\* Disposal has begun and not got to the lock: told so without an answer.
ReadDisposed(t) ==
  /\ Locks(t) /\ errand[t] = Reading
  /\ ~outcome.done /\ outcome.disposed # "no"
  /\ Leave(t, outcomeAt)
  /\ UNCHANGED <<outcome, told>>

\* exception waits even then: dispose has yet to notify.
Await(t) ==
  /\ Locks(t) /\ errand[t] \notin Writes
  /\ ~outcome.done /\ (outcome.disposed = "no" \/ errand[t] = Asking)
  /\ outcomeAt' = Sent(outcomeAt, t, "wait")
  /\ UNCHANGED <<errand, outcome, told>>

TimesOut(t) ==
  /\ t \in Timed /\ errand[t] = Reading /\ outcomeAt[t] = "wait"
  /\ outcomeAt' = Sent(outcomeAt, t, "late")
  /\ UNCHANGED <<errand, outcome, told>>

\* wait_for looks once more before result raises TimeoutError.
ReadLate(t) ==
  /\ outcomeAt[t] = "late"
  /\ told' = IF outcome.done THEN told \union {Known} ELSE told
  /\ Leave(t, outcomeAt)
  /\ UNCHANGED outcome

-----------------------------------------------------------------------------
(* dispose                                                                 *)

OutcomeMarkDisposed ==
  /\ outcome.disposed = "no"
  /\ outcome' = [outcome EXCEPT !.disposed = "marked"]
  /\ UNCHANGED <<outcomeAt, errand, told>>

Settle ==
  /\ outcome.disposed = "marked"
  /\ IF outcome.done
       THEN /\ outcome' = [outcome EXCEPT !.disposed = "settled"]
            /\ UNCHANGED outcomeAt
       ELSE /\ outcome' = [outcome EXCEPT !.disposed = "settled", !.done = TRUE,
                                          !.exception = DisposedError]
            /\ outcomeAt' = Roused(outcomeAt)
  /\ UNCHANGED <<errand, told>>

Purge ==
  /\ outcome.disposed = "settled"
  /\ outcome' = [outcome EXCEPT !.disposed = "purged", !.result = NoValue]
  /\ UNCHANGED <<outcomeAt, errand, told>>

DropCondition ==
  /\ outcome.disposed = "purged"
  /\ outcome' = [outcome EXCEPT !.disposed = "done"]
  /\ UNCHANGED <<outcomeAt, errand, told>>

-----------------------------------------------------------------------------

OutcomeResume(t) ==
  Trip(t) \/ Write(t) \/ Read(t) \/ ReadDisposed(t) \/ Await(t) \/ ReadLate(t)

OutcomeNext ==
  \/ OutcomeMarkDisposed \/ Settle \/ Purge \/ DropCondition
  \/ \E t \in Threads :
       \/ \E what \in Errand : CallOutcome(t, what)
       \/ TimesOut(t) \/ OutcomeResume(t)

OutcomeSpec == OutcomeInit /\ [][OutcomeNext]_outcomeVars

-----------------------------------------------------------------------------

(* All who ask for the result are told the same: the first write counts,   *)
(* whatever other writers and dispose do.  Only a reader that is still     *)
(* inside when dispose has removed a result can be told None instead, and  *)
(* nobody is told None for an exception (set_result, set_exception,        *)
(* result, dispose).                                                       *)
OneAnswer ==
  /\ Cardinality(told \ {Purged}) <= 1
  /\ Purged \in told =>
       /\ outcome.disposed \in {"purged", "done"}
       /\ outcome.exception = NoValue

(* A reader does not wait for ever once there is an outcome or dispose has *)
(* begun (result, exception, set_result, set_exception, dispose).          *)
ReadersLeave ==
  \A t \in Threads :
    (outcomeAt[t] = "wait" /\ (outcome.done \/ outcome.disposed # "no"))
      ~> (outcomeAt[t] = "out")

=============================================================================
