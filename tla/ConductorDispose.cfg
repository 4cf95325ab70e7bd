\* One thread more than places; the owner disposes of the conductor.
CONSTANTS
  t1 = t1
  t2 = t2
  t3 = t3
  Threads <- Three
  Threshold = 2
  NTasks = 1
  Impatient <- NobodyImpatient
  Commands <- OnlyDispose
  Reusables = {FALSE}
  Manuals = {FALSE}
SPECIFICATION FairSpec
PROPERTY DisposeReleases
CHECK_DEADLOCK FALSE
