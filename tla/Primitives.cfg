\* One thread waits with a timeout; the owner of the barrier uses every command.
CONSTANTS
  t1 = t1
  t2 = t2
  t3 = t3
  t4 = t4
  Threads <- MCThreads
  Timed <- OneTimed
  MaxThreshold = 3
  MaxCount = 4
  Commands <- Command
  Reusables = {TRUE, FALSE}
  Manuals = {TRUE, FALSE}
  MaxPermits = 2
SPECIFICATION MCSpec
INVARIANTS TypeOK FullHouseOpens OpenHoldsNobody RestIsReset NoIdlePermit
INVARIANTS PermitsTypeOK RegulatorTypeOK PermitConservation
PROPERTIES OpensToFullHouse OpenReleases PermitIsTaken ImplementsPool
PROPERTY RegulatorImplementsPool
CHECK_DEADLOCK FALSE
