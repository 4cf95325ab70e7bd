----------------------------- MODULE Collections -----------------------------
(***************************************************************************)
(* The kinds of call (LockedObjects) that the methods of the collections   *)
(* are, one set for each stretch of the source; the methods of the less    *)
(* common kinds are named.  ConcurrentList, Dict and Set can be frozen,    *)
(* Bag, Queue and Stack cannot.  The second operand of a bulk method is    *)
(* another collection, that of a method that takes a function is a         *)
(* collection or sync object the function uses.                            *)
(*                                                                         *)
(* ConcurrentDict.update asks the other dictionary for its keys and then   *)
(* for each value (guardedGather), its == takes the other's lock whether   *)
(* frozen or not (nestRead); ConcurrentBag.update goes through the other's *)
(* _bag without its lock (rawUpdate).                                      *)
(***************************************************************************)

ListDisposeToDelitem ==
  {"peek", "lookRead", "guardedSet", "guardedBulk", "dispose", "freeze",
   "unfreeze"}

ListAppendToRepr ==
  {"lookRead", "guardedSet", "guardedUpdate", "guardedBulk"}

ListStrToIndex ==
  {"pairRead", "peek", "lookRead", "guardedSet", "guardedBulk"}

\* lookNest: map, filter.
ListCountToFilter ==
  {"lookRead", "lookNest", "guardedSet", "guardedClient"}

ListReduceToExit ==
  {"lookRead", "guardedBulk", "session"}

DictDisposeToBool ==
  {"peek", "lookRead", "guardedSet", "dispose", "freeze", "unfreeze"}

\* nestRead: __eq__, __ne__.
DictIterToSetdefault ==
  {"nestRead", "lookRead", "guardedSet", "guardedUpdate"}

\* guardedGather: update.
DictUpdateToBatchUpdate ==
  {"lookRead", "guardedGather", "guardedClient"}

\* lookNest: map, filter.
DictMapToExit ==
  {"lookRead", "lookNest", "session"}

SetDisposeToIsFrozen ==
  {"peek", "dispose", "freeze", "unfreeze"}

SetAddToBinaryInplace ==
  {"lookApart", "guardedSet", "guardedBulk"}

SetUnionToNe ==
  {"lookApart"}

SetOrToIxor ==
  {"lookApart", "guardedBulk"}

SetMapToToSet ==
  {"lookRead", "guardedClient"}

SetToConcurrentListToCopyLocked ==
  {"read", "peek", "lookRead"}

SetEnterToExit ==
  {"session"}

BagDisposeToCountOf ==
  {"read", "set", "update", "dispose"}

\* nestRead: map, filter.
\* nestUpdate: batch_update.
BagIterToFilter ==
  {"read", "nestRead", "nestUpdate"}

\* rawUpdate: update.
BagReduceToUpdate ==
  {"read", "rawUpdate"}

BagExit ==
  {"dispose"}

QueueDisposeToDeepcopy ==
  {"read", "set", "update", "peek", "dispose"}

\* nestRead: map, filter.
\* nestUpdate: batch_update.
QueueEmptyToReduce ==
  {"read", "update", "nestRead", "nestUpdate"}

QueueEnterToExit ==
  {"session"}

StackDisposeToIsEmpty ==
  {"read", "set", "update", "peek", "dispose"}

\* nestRead: map, filter.
\* nestUpdate: batch_update.
StackDeepcopyToReduce ==
  {"read", "update", "nestRead", "nestUpdate"}

StackEnterToExit ==
  {"session"}

ListKinds == UNION {
  ListDisposeToDelitem, ListAppendToRepr, ListStrToIndex, ListCountToFilter,
  ListReduceToExit}

DictKinds == UNION {
  DictDisposeToBool, DictIterToSetdefault, DictUpdateToBatchUpdate,
  DictMapToExit}

SetKinds == UNION {
  SetDisposeToIsFrozen, SetAddToBinaryInplace, SetUnionToNe, SetOrToIxor,
  SetMapToToSet, SetToConcurrentListToCopyLocked, SetEnterToExit}

BagKinds == UNION {
  BagDisposeToCountOf, BagIterToFilter, BagReduceToUpdate, BagExit}

QueueKinds == UNION {
  QueueDisposeToDeepcopy, QueueEmptyToReduce, QueueEnterToExit}

StackKinds == UNION {
  StackDisposeToIsEmpty, StackDeepcopyToReduce, StackEnterToExit}

=============================================================================
