------------------------------ MODULE PermitPool ------------------------------
(***************************************************************************)
(* What a permit primitive promises, without its waiting room: permits are *)
(* either free or out with a holder, a permit is granted only while one is *)
(* free and the pool is open, and nothing but Issue and Retire changes how *)
(* many there are.                                                         *)
(***************************************************************************)
EXTENDS Integers

CONSTANTS
  Threads,
  Amounts    \* by how much a client may change the number of permits: naturals


VARIABLES
  free,      \* permits nobody holds
  holders,   \* threads that hold a permit
  issued,    \* permits in existence
  closed     \* the pool was disposed of

vars == <<free, holders, issued, closed>>

Init ==
  /\ free \in Nat
  /\ issued = free
  /\ holders = {}
  /\ closed = FALSE

\* A thread is granted a permit.
Take(t) ==
  /\ ~closed
  /\ free > 0
  /\ t \notin holders
  /\ free' = free - 1
  /\ holders' = holders \union {t}
  /\ UNCHANGED <<issued, closed>>

\* A holder gives its permit back.
Give(t, n) ==
  /\ t \in holders
  /\ n >= 1
  /\ free' = free + n
  /\ holders' = holders \ {t}
  /\ issued' = issued + (n - 1)
  /\ UNCHANGED closed

\* The client adds capacity.
Issue(n) ==
  /\ free' = free + n
  /\ issued' = issued + n
  /\ UNCHANGED <<holders, closed>>

\* The client removes capacity nobody is using.
Retire(n) ==
  /\ n <= free
  /\ free' = free - n
  /\ issued' = issued - n
  /\ UNCHANGED <<holders, closed>>

Close ==
  /\ closed' = TRUE
  /\ UNCHANGED <<free, holders, issued>>

Next ==
  \/ \E t \in Threads : Take(t) \/ \E n \in Amounts : Give(t, n)
  \/ \E n \in Amounts : Issue(n) \/ Retire(n)
  \/ Close

Spec == Init /\ [][Next]_vars

=============================================================================
