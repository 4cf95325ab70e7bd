\* Two SyncInts, two threads, the methods of SyncInt.
CONSTANTS
  t1 = t1
  t2 = t2
  Threads <- TwoThreads
  Objects = {1, 2}
  Versions = 2
  Freezable = {}
  Families <- SyncInts
  NoThread = NoThread
  Nothing = Nothing
SPECIFICATION Spec
INVARIANT NoCircle
CHECK_DEADLOCK FALSE
