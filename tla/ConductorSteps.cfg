\* As many threads as places, two tasks, and nobody interferes.
CONSTANTS
  t1 = t1
  t2 = t2
  t3 = t3
  Threads <- Two
  Threshold = 2
  NTasks = 2
  Impatient <- NobodyImpatient
  Commands <- NoCommand
  Reusables = {FALSE}
  Manuals = {FALSE}
SPECIFICATION FairSpec
PROPERTY StartReturns
CHECK_DEADLOCK FALSE
