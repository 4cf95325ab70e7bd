\* Patient clients: no timeouts, no targeted notifications, no retuning.
CONSTANTS
  t1 = t1
  t2 = t2
  t3 = t3
  t4 = t4
  Threads <- MCFour
  MaxPermits = 3
  Timed <- NobodyTimed
  Targets <- NoTargets
  Thresholds <- AnyThreshold
  Retunes <- NoRetunes
  Faulty = FALSE
SPECIFICATION CalmSpec
INVARIANTS NoStrandedPermit PendingOnlyInReserve ParkedIsQueued
PROPERTIES DisposeReleases PermitIsTaken
CHECK_DEADLOCK FALSE
