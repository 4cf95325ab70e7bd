---------------------------- MODULE AtomicObjects ----------------------------
(***************************************************************************)
(* What the locks of the sync types and of the collections promise: every  *)
(* call that takes them happens at one moment.  A value is abstracted to a *)
(* version, counted modulo Versions.                                       *)
(***************************************************************************)
EXTENDS Integers

CONSTANTS Threads, Objects, Versions, Nothing

VARIABLES
  val,    \* the version of each object
  out     \* what each thread's call in progress has seen, or Nothing

vars == <<val, out>>

Init ==
  /\ val = [o \in Objects |-> 0]
  /\ out = [t \in Threads |-> Nothing]

Bump(o) == val' = [val EXCEPT ![o] = (@ + 1) % Versions]
See(t, operands) == out' = [out EXCEPT ![t] = [o \in operands |-> val[o]]]

\* One moment: the call sees its operands, and may give one of them a new value.
Take(t, operands) ==
  /\ out[t] = Nothing
  /\ See(t, operands)
  /\ val' = val \/ \E o \in Objects : Bump(o)

\* A call whose result does not depend on anything it has seen.
Write(o) == Bump(o) /\ out' = out

Return(t) ==
  /\ out' = [out EXCEPT ![t] = Nothing]
  /\ val' = val

Next ==
  \/ \E t \in Threads : Return(t) \/ \E operands \in SUBSET Objects : Take(t, operands)
  \/ \E o \in Objects : Write(o)

Spec == Init /\ [][Next]_vars
=============================================================================
