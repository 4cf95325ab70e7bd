--------------------------- MODULE MCLockedObjects ---------------------------
(* Instances of LockedObjects for TLC, over the methods the classes have.  *)
EXTENDS LockedObjects, SyncTypes, Collections, TLC

CONSTANTS t1, t2

TwoThreads == {t1, t2}
Symmetry == Permutations(TwoThreads)

\* Objects that can be operands of each other.
SyncFamily == SyncIntKinds \cup SyncFloatKinds \cup SyncBoolKinds
                \cup SyncStringKinds \cup SyncRefKinds
FreezableFamily == ListKinds \cup DictKinds \cup SetKinds
PlainFamily == BagKinds \cup QueueKinds \cup StackKinds

AllFamilies == {SyncFamily, FreezableFamily, PlainFamily}
SyncInts == {SyncIntKinds}
=============================================================================
