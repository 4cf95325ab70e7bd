\* Two threads, two objects of the same family, calls of every kind.
CONSTANTS
  t1 = t1
  t2 = t2
  Threads <- TwoThreads
  Objects = {1, 2}
  Versions = 2
  Freezable = {1}
  Families <- AllFamilies
  NoThread = NoThread
  Nothing = Nothing
SPECIFICATION FairSpec
INVARIANTS LockedTypeOK CircleHasNesting
PROPERTIES ImplementsAtomic FrozenStays CallsReturn
CHECK_DEADLOCK FALSE
