-------------------------------- MODULE Forks --------------------------------
(***************************************************************************)
(* Fork and SignalFork: each call of use_fork runs one of a list of        *)
(* callables, each of which may be used up to its cap.  A caller first     *)
(* looks for a unit with a free slot, one unit lock at a time, and takes   *)
(* the slot in a second critical section, going back to look when it was   *)
(* too late.  The callable runs with the unit's lock held.                 *)
(*                                                                         *)
(* A unit's `gate` is set and cleared together with its count: it says     *)
(* that the count has reached the cap.  The order in which a call looks at *)
(* the units is drawn when it begins: from the shared counter on, in steps *)
(* of Step, or (rotate_selectors) one half first and then the other.       *)
(* Callables do not call the fork; no controller.                          *)
(***************************************************************************)
EXTENDS Waiting, Sequences

CONSTANTS
  Units,     \* number of fork units
  MaxCap,    \* bound on the usage caps
  Step       \* selector_step: a Fork takes any number, a SignalFork at least 1

ASSUME ForksAssumption ==
  Units \in Nat \ {0} /\ MaxCap \in Nat /\ Step \in Int

Unit == 1 .. Units

VARIABLES
  pickAt,     \* where each thread is in use_fork
  scan,       \* the units each thread has still to look at
  unit,       \* the unit each thread has found, or runs; 0 for none
  uses,       \* gate_uses of each unit
  forks,      \* caps, signal (SignalFork), rotate; counter, closed, called
              \* (_callback_executed), disposed, resetting: the next unit
  steady      \* history: every reset found nobody inside

forksVars == <<pickAt, scan, unit, uses, forks, steady>>

ForksInit ==
  /\ pickAt = Everywhere("out")
  /\ scan = Everywhere(<<>>)
  /\ unit = Everywhere(0)
  /\ uses = [u \in Unit |-> 0]
  /\ \E c \in [Unit -> 0 .. MaxCap], s, r \in BOOLEAN :
       forks = [cap |-> c, signal |-> s, rotate |-> r, counter |-> 0, closed |-> FALSE,
                called |-> FALSE, disposed |-> FALSE, resetting |-> 0]
  /\ steady = TRUE

-----------------------------------------------------------------------------
(* use_fork                                                                *)

Free(u) == \A t \in Threads : ~(pickAt[t] = "runs" /\ unit[t] = u)
Room(u) == uses[u] < forks.cap[u]

\* A step that has a factor in common with the number of units comes by some of
\* them again and again and by others never.
StepFrom(c) == [i \in Unit |-> ((c + (i - 1) * Step) % Units) + 1]

Mid == Units \div 2
Half(first) ==
  IF first THEN [i \in Unit |-> i]
           ELSE [i \in Unit |-> IF i <= Units - Mid THEN Mid + i ELSE i - (Units - Mid)]

Orders == IF forks.rotate THEN {Half(TRUE), Half(FALSE)} ELSE {StepFrom(forks.counter)}

\* A call, or another attempt of one; a SignalFork known to be closed is not
\* looked at again.
LookAround(t) ==
  /\ pickAt[t] \in {"out", "again"} /\ ~forks.disposed
  /\ ~(forks.signal /\ forks.closed)
  /\ \E order \in Orders : scan' = [scan EXCEPT ![t] = order]
  /\ pickAt' = Sent(pickAt, t, "scan")
  /\ UNCHANGED <<unit, uses, forks, steady>>

PassUnit(t) ==
  /\ pickAt[t] = "scan" /\ scan[t] # <<>> /\ ~forks.disposed
  /\ Free(Head(scan[t])) /\ ~Room(Head(scan[t]))
  /\ scan' = [scan EXCEPT ![t] = Tail(@)]
  /\ UNCHANGED <<pickAt, unit, uses, forks, steady>>

FindUnit(t) ==
  /\ pickAt[t] = "scan" /\ scan[t] # <<>> /\ ~forks.disposed
  /\ Free(Head(scan[t])) /\ Room(Head(scan[t]))
  /\ pickAt' = Sent(pickAt, t, "found")
  /\ unit' = [unit EXCEPT ![t] = Head(scan[t])]
  /\ forks' = IF forks.rotate THEN forks
              ELSE [forks EXCEPT !.counter = Head(scan[t]) % Units]
  /\ scan' = [scan EXCEPT ![t] = <<>>]
  /\ UNCHANGED <<uses, steady>>

FindNone(t) ==
  /\ pickAt[t] = "scan" /\ scan[t] = <<>> /\ ~forks.disposed
  /\ forks' = [forks EXCEPT !.closed = TRUE]
  /\ pickAt' = Sent(pickAt, t, "none")
  /\ UNCHANGED <<scan, unit, uses, steady>>

\* use_fork raises; a SignalFork calls its callback back the first time.
Refuse(t) ==
  /\ \/ pickAt[t] = "none"
     \/ pickAt[t] \in {"out", "again"} /\ forks.signal /\ forks.closed /\ ~forks.disposed
  /\ forks' = [forks EXCEPT !.called = @ \/ forks.signal]
  /\ pickAt' = Sent(pickAt, t, "out")
  /\ UNCHANGED <<scan, unit, uses, steady>>

\* The unit is full by now (for a SignalFork also: it is disposed of).
TooLate(t) ==
  /\ pickAt[t] = "found" /\ Free(unit[t])
  /\ ~Room(unit[t]) \/ (forks.signal /\ forks.disposed)
  /\ pickAt' = Sent(pickAt, t, "again")
  /\ unit' = [unit EXCEPT ![t] = 0]
  /\ UNCHANGED <<scan, uses, forks, steady>>

\* Slip: the slot is taken without another look.
ReserveUnchecked(t) ==
  /\ pickAt[t] = "found" /\ Free(unit[t])
  /\ uses' = [uses EXCEPT ![unit[t]] = @ + 1]
  /\ pickAt' = Sent(pickAt, t, "runs")
  /\ UNCHANGED <<scan, unit, forks, steady>>

Reserve(t) ==
  /\ pickAt[t] = "found" /\ Free(unit[t])
  /\ Room(unit[t]) /\ ~(forks.signal /\ forks.disposed)
  /\ uses' = [uses EXCEPT ![unit[t]] = @ + 1]
  /\ pickAt' = Sent(pickAt, t, "runs")
  /\ UNCHANGED <<scan, unit, forks, steady>>

\* The callable returns or raises; after dispose it is None and trips.
Finish(t) ==
  /\ pickAt[t] = "runs"
  /\ pickAt' = Sent(pickAt, t, "out")
  /\ unit' = [unit EXCEPT ![t] = 0]
  /\ UNCHANGED <<scan, uses, forks, steady>>

\* A look at the list that dispose has removed.
TripOnNone(t) ==
  /\ pickAt[t] \in {"scan", "again"} /\ forks.disposed
  /\ pickAt' = Sent(pickAt, t, "out")
  /\ scan' = [scan EXCEPT ![t] = <<>>]
  /\ UNCHANGED <<unit, uses, forks, steady>>

-----------------------------------------------------------------------------
(* The owner                                                               *)

Idle == \A t \in Threads : pickAt[t] = "out"

BeginReset ==
  /\ forks.resetting = 0 /\ ~forks.disposed
  /\ forks' = [forks EXCEPT !.resetting = 1]
  /\ steady' = (steady /\ Idle)
  /\ UNCHANGED <<pickAt, scan, unit, uses>>

ResetUnit ==
  /\ forks.resetting \in Unit /\ Free(forks.resetting)
  /\ uses' = [uses EXCEPT ![forks.resetting] = 0]
  /\ forks' = [forks EXCEPT !.resetting = @ + 1]
  /\ steady' = (steady /\ Idle)
  /\ UNCHANGED <<pickAt, scan, unit>>

ReopenForks ==
  /\ forks.resetting = Units + 1
  /\ forks' = [forks EXCEPT !.resetting = 0, !.counter = 0, !.closed = FALSE,
                            !.called = @ /\ ~forks.signal]
  /\ steady' = (steady /\ Idle)
  /\ UNCHANGED <<pickAt, scan, unit, uses>>

DisposeForks ==
  /\ ~forks.disposed /\ forks.resetting = 0
  /\ forks' = [forks EXCEPT !.disposed = TRUE, !.closed = TRUE]
  /\ UNCHANGED <<pickAt, scan, unit, uses, steady>>

-----------------------------------------------------------------------------

ForksNext ==
  \/ BeginReset \/ ResetUnit \/ ReopenForks \/ DisposeForks
  \/ \E t \in Threads :
       LookAround(t) \/ PassUnit(t) \/ FindUnit(t) \/ FindNone(t) \/ Refuse(t)
         \/ TooLate(t) \/ Reserve(t) \/ Finish(t) \/ TripOnNone(t)

ForksSpec == ForksInit /\ [][ForksNext]_forksVars

\* A call has found no slot, or has left word (_forks_closed) that there is none.
TurnedAway == forks.closed \/ \E t \in Threads : pickAt[t] = "none"

\* No reset has had callers inside, and none is under way.
Undisturbed == steady /\ ~forks.disposed /\ forks.resetting = 0

\* The orders in which a call may have looked.
Ways ==
  IF forks.rotate THEN {Half(TRUE), Half(FALSE)}
  ELSE {StepFrom(c) : c \in 0 .. Units - 1}

(* A slot is given away once, though two threads may have found the same   *)
(* unit; and as long as resets find nobody inside, callers are turned away *)
(* only when every slot they come by is taken, also by the flag            *)
(* _forks_closed that outlives the look around (use_fork,                  *)
(* _select_fork_unit, _select_fork_unit_step, reset).  A step selector     *)
(* comes by every unit if its step and their number have no common factor. *)
SlotsCounted ==
  /\ \A u \in Unit : uses[u] <= forks.cap[u]
  /\ Undisturbed /\ TurnedAway =>
       \E order \in Ways : \A i \in Unit : ~Room(order[i])

(* What the error says, "all forks are at capacity", and the comment where *)
(* the flag is set, "all forks are exhausted" (_select_fork_unit_step):    *)
(* who is turned away finds no slot free anywhere.                         *)
RefusedWhenFull == Undisturbed /\ TurnedAway => \A u \in Unit : ~Room(u)

=============================================================================
