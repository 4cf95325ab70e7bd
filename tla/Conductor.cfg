\* Three threads for two places, one task, every command.
CONSTANTS
  t1 = t1
  t2 = t2
  t3 = t3
  Threads <- Three
  Threshold = 2
  NTasks = 1
  Impatient <- OneImpatient
  Commands <- Command
  Reusables = {TRUE, FALSE}
  Manuals = {TRUE, FALSE}
SPECIFICATION FairSpec
INVARIANTS TypeOK TasksWaitForThreshold WorkersWithinThreshold CallbackAfterAll
PROPERTY WorkersReturn
CHECK_DEADLOCK FALSE
