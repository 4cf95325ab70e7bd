\* One thread acquires with a timeout; no bias.
CONSTANTS
  t1 = t1
  t2 = t2
  t3 = t3
  t4 = t4
  Threads <- MCThreads
  MaxPermits = 2
  Timed <- OneTimed
  Targets <- NoTargets
  Thresholds <- Unbiased
  Retunes <- NoRetunes
  Faulty = FALSE
SPECIFICATION Spec
INVARIANT NoStrandedPermit
CHECK_DEADLOCK FALSE
