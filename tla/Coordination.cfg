\* One of the three threads waits with a timeout where the call takes one.
CONSTANTS
  t1 = t1
  t2 = t2
  t3 = t3
  v1 = v1
  v2 = v2
  NoValue = NoValue
  Objects <- Everything
  Threads <- MCThreads
  Timed <- OneTimed
  MaxParties = 3
  MaxThreshold = 3
  MaxCount = 3
  Values <- TwoValues
  Units = 2
  MaxCap = 1
  Step = 1
  MaxRoutes = 3
  Settings <- Untroubled
  NumShards = 2
  MaxItems = 2
  Limit = 2
  NStages = 2
  NTasks = 2
SPECIFICATION Spec
INVARIANTS  CountIsCrowd OpenHoldsNobody RoundsApart OneAnswer
INVARIANTS SlotsCounted RunsOnlyFull EmptyOnlyWhenRaced
PROPERTIES ClockWaitsEnd LatchLetsGo ReadersLeave UsesEnd
CHECK_DEADLOCK FALSE
