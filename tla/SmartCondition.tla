---------------------------- MODULE SmartCondition ----------------------------
(***************************************************************************)
(* The waiting room of SmartCondition: the FIFO queue of Waiter objects    *)
(* and the two ways out of it.  A notifier takes waiters from the front of *)
(* the queue (or, given factory_ids, the first matching ones) and releases *)
(* their private locks; a waiter whose timeout passed takes itself out,    *)
(* but only once it has the condition's lock back, so until then a         *)
(* notifier may still pick it and the notification is spent on it.         *)
(*                                                                         *)
(* The queue is kept as the set of queued threads and the order in which   *)
(* they came (a thread waits in one place only, so thread = Waiter).       *)
(***************************************************************************)
EXTENDS Integers, FiniteSets

CONSTANT Threads

VARIABLES
  waiters,   \* threads whose Waiter is in _waiters
  ahead      \* <<t, u>> : t's Waiter is in front of u's

Before(t, u) == <<t, u>> \in ahead

\* wait(): the caller's Waiter goes to the back of the queue.
Enqueue(t) ==
  /\ waiters' = waiters \union {t}
  /\ ahead' = ahead \union (waiters \X {t})

\* remove_item() of every member of W.
Remove(W) ==
  /\ waiters' = waiters \ W
  /\ ahead' = {p \in ahead : p[1] \notin W /\ p[2] \notin W}

AtMost(n, m) == IF n <= m THEN n ELSE m

(* The waiters notify(n, factory_ids) selects: the first n of the queued   *)
(* ones whose id is among the targets (all of them when no ids are given). *)
Selected(W, n, targets) ==
  LET eligible == waiters \intersect targets
  IN  /\ W \subseteq eligible
      /\ Cardinality(W) = AtMost(n, Cardinality(eligible))
      /\ \A w \in W, u \in eligible \ W : Before(w, u)

=============================================================================
