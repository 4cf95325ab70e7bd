-------------------------------- MODULE Shards --------------------------------
(***************************************************************************)
(* ConcurrentBuffer and ConcurrentCollection: items spread over shards,    *)
(* each with a lock of its own, and arrays of lengths and (buffer) head    *)
(* timestamps that are written under those locks and read without them.    *)
(*                                                                         *)
(* A dequeue reads the arrays shard by shard, picks one and only then      *)
(* takes its lock.  Items are told apart only by their shard, timestamps   *)
(* only by whether there is one: which of the occupied shards has the      *)
(* oldest head is left open.  So is the shard an item goes to, which the   *)
(* code chooses by the clock and by lengths it reads without a lock.       *)
(***************************************************************************)
EXTENDS Waiting

CONSTANTS
  NumShards,   \* _num_shards
  MaxItems     \* bound on the items of a shard

ASSUME ShardsAssumption == NumShards \in Nat \ {0} /\ MaxItems \in Nat

Shard == 1 .. NumShards

VARIABLES
  shardAt,     \* where each thread is
  seen,        \* what each thread has seen: the shards read and found occupied
  kept,        \* the items each thread has still to put back
  shards,      \* items, length (_length_array), stamped (_time_array > 0)
  store,       \* timed: a buffer, not a collection; disposed
  quiet        \* history: threads in whose call there have been items all
               \* along and nobody has removed any

shardsVars == <<shardAt, seen, kept, shards, store, quiet>>

Empty == [items |-> 0, length |-> 0, stamped |-> FALSE]

ShardsInit ==
  /\ shardAt = Everywhere("out")
  /\ seen = [t \in Threads |-> [read |-> {}, found |-> {}]]
  /\ kept = Everywhere(0)
  /\ shards = [i \in Shard |-> Empty]
  /\ \E b \in BOOLEAN : store = [timed |-> b, disposed |-> FALSE]
  /\ quiet = {}

-----------------------------------------------------------------------------

Goto(t, p) == shardAt' = Sent(shardAt, t, p)
NothingSeen == [read |-> {}, found |-> {}]
Forget(t) == seen' = [seen EXCEPT ![t] = NothingSeen]

\* An item leaves a shard: a call in which nothing else happens is quiet no more.
Disturb == quiet' = {}

\* enqueue_item, add_item: the first item of a shard brings the timestamp.
Put(i) ==
  [shards EXCEPT ![i].items = @ + 1, ![i].length = @ + 1,
                 ![i].stamped = IF shards[i].items = 0 THEN store.timed ELSE @]

\* enqueue, add
Enqueue(i) ==
  /\ ~store.disposed /\ shards[i].items < MaxItems
  /\ shards' = Put(i)
  /\ UNCHANGED <<shardAt, seen, kept, store, quiet>>

\* dequeue, pop, and peek_oldest of a buffer (a collection peeks under the
\* lock of each shard and changes nothing).
BeginScan(t, task) ==
  /\ shardAt[t] = "out" /\ ~store.disposed
  /\ task = "take" \/ store.timed
  /\ Goto(t, task)
  /\ quiet' = IF \E i \in Shard : shards[i].items > 0 THEN quiet \union {t} ELSE quiet \ {t}
  /\ UNCHANGED <<seen, kept, shards, store>>

Scanning(t) == shardAt[t] \in {"take", "peek"}

Occupied(i) == IF store.timed THEN shards[i].stamped ELSE shards[i].length > 0

\* A buffer reads all timestamps in order; a collection starts anywhere and
\* stops at the first shard with a length.
NextToRead(t) ==
  LET s == seen[t] IN
  IF store.timed
    THEN IF Cardinality(s.read) < NumShards THEN {Cardinality(s.read) + 1} ELSE {}
  ELSE IF s.found # {} THEN {}
  ELSE IF s.read = {} THEN Shard
  ELSE {i \in Shard \ s.read : (IF i = 1 THEN NumShards ELSE i - 1) \in s.read}

ReadArray(t, i) ==
  /\ Scanning(t) /\ i \in NextToRead(t)
  /\ seen' = [seen EXCEPT ![t] =
       [read |-> @.read \union {i},
        found |-> IF Occupied(i) THEN @.found \union {i} ELSE @.found]]
  /\ UNCHANGED <<shardAt, kept, shards, store, quiet>>

Ready(t) == Scanning(t) /\ NextToRead(t) = {}

\* Slip: the last item leaves its timestamp behind.
RemovalUnstamped(i) ==
  [shards EXCEPT ![i].items = @ - 1, ![i].length = @ - 1]

\* dequeue_item, pop_item
Removal(i) ==
  [shards EXCEPT ![i].items = @ - 1, ![i].length = @ - 1,
                 ![i].stamped = @ /\ shards[i].items > 1]

TakeItem(t) ==
  /\ Ready(t) /\ shardAt[t] = "take"
  /\ \E i \in seen[t].found : shards[i].items > 0 /\ shards' = Removal(i)
  /\ Disturb /\ Forget(t) /\ Goto(t, "out")
  /\ UNCHANGED <<kept, store>>

PeekItem(t) ==
  /\ Ready(t) /\ shardAt[t] = "peek"
  /\ \E i \in seen[t].found : shards[i].items > 0
  /\ Forget(t) /\ Goto(t, "out")
  /\ UNCHANGED <<kept, shards, store, quiet>>

\* Nothing was seen, or the shard chosen has been emptied since.
RaiseEmpty(t) ==
  /\ Ready(t)
  /\ seen[t].found = {} \/ \E i \in seen[t].found : shards[i].items = 0
  /\ Forget(t) /\ Goto(t, "out")
  /\ UNCHANGED <<kept, shards, store, quiet>>

-----------------------------------------------------------------------------
(* clear and dispose, shard by shard; remove_item and batch_update, which   *)
(* copy, clear and put back                                                *)

BeginRewrite(t) ==
  /\ shardAt[t] = "out" /\ ~store.disposed
  /\ Goto(t, "copy")
  /\ UNCHANGED <<seen, kept, shards, store, quiet>>

BeginClear(t, task) ==
  /\ shardAt[t] = "out" /\ ~store.disposed
  /\ Goto(t, task)
  /\ UNCHANGED <<seen, kept, shards, store, quiet>>

CopyShard(t) ==
  /\ shardAt[t] = "copy" /\ Cardinality(seen[t].read) < NumShards
  /\ LET i == Cardinality(seen[t].read) + 1 IN
     /\ seen' = [seen EXCEPT ![t].read = @ \union {i}]
     /\ kept' = [kept EXCEPT ![t] = @ + shards[i].items]
  /\ UNCHANGED <<shardAt, shards, store, quiet>>

\* remove_item puts back all items but one, or has not found it; batch_update
\* puts back what its function has left.
Copied(t) ==
  /\ shardAt[t] = "copy" /\ Cardinality(seen[t].read) = NumShards
  /\ Forget(t)
  /\ \/ /\ kept' = [kept EXCEPT ![t] = 0]
        /\ Goto(t, "out")
     \/ \E n \in {kept[t] - 1, kept[t]} :
          /\ n >= 0
          /\ kept' = [kept EXCEPT ![t] = n]
          /\ Goto(t, "clear")
  /\ UNCHANGED <<shards, store, quiet>>

ClearShard(t) ==
  /\ shardAt[t] \in {"clear", "dispose"} /\ Cardinality(seen[t].read) < NumShards
  /\ LET i == Cardinality(seen[t].read) + 1 IN
     /\ seen' = [seen EXCEPT ![t].read = @ \union {i}]
     /\ shards' = [shards EXCEPT ![i] = Empty]
     /\ IF shards[i].items > 0 THEN Disturb ELSE UNCHANGED quiet
  /\ UNCHANGED <<shardAt, kept, store>>

Cleared(t) ==
  /\ shardAt[t] \in {"clear", "dispose"} /\ Cardinality(seen[t].read) = NumShards
  /\ Forget(t)
  /\ Goto(t, IF kept[t] > 0 THEN "putBack" ELSE "out")
  /\ store' = [store EXCEPT !.disposed = @ \/ shardAt[t] = "dispose"]
  /\ UNCHANGED <<kept, shards, quiet>>

PutBack(t, i) ==
  /\ shardAt[t] = "putBack" /\ ~store.disposed
  /\ shards[i].items < MaxItems
  /\ shards' = Put(i)
  /\ kept' = [kept EXCEPT ![t] = @ - 1]
  /\ Goto(t, IF kept[t] > 1 THEN "putBack" ELSE "out")
  /\ UNCHANGED <<seen, store, quiet>>

-----------------------------------------------------------------------------

ShardsNext ==
  \/ \E i \in Shard : Enqueue(i)
  \/ \E t \in Threads :
       \/ \E task \in {"take", "peek"} : BeginScan(t, task)
       \/ \E task \in {"clear", "dispose"} : BeginClear(t, task)
       \/ \E i \in Shard : ReadArray(t, i) \/ PutBack(t, i)
       \/ TakeItem(t) \/ PeekItem(t) \/ RaiseEmpty(t)
       \/ BeginRewrite(t) \/ CopyShard(t) \/ Copied(t) \/ ClearShard(t) \/ Cleared(t)

ShardsSpec == ShardsInit /\ [][ShardsNext]_shardsVars

(* Empty is raised for a reason: either the store was empty when the call  *)
(* began, or somebody else has taken or cleared items since.  A dequeue    *)
(* never misses an item that was there all the time because the lengths or *)
(* timestamps it reads without a lock are behind (dequeue, pop,            *)
(* peek_oldest, dequeue_item, enqueue_item, clear).                        *)
EmptyOnlyWhenRaced ==
  \A t \in quiet :
    Ready(t) => seen[t].found # {} /\ \A i \in seen[t].found : shards[i].items > 0

=============================================================================
