\* A TransitBarrier and nothing else.
CONSTANTS
  t1 = t1
  t2 = t2
  t3 = t3
  v1 = v1
  v2 = v2
  NoValue = NoValue
  Objects <- TransitOnly
  Threads <- MCThreads
  Timed <- OneTimed
  MaxParties = 3
  MaxThreshold = 3
  MaxCount = 3
  Values <- TwoValues
  Units = 2
  MaxCap = 1
  Step = 1
  MaxRoutes = 3
  Settings <- Untroubled
  NumShards = 2
  MaxItems = 2
  Limit = 2
  NStages = 2
  NTasks = 2
SPECIFICATION Spec
PROPERTY ResetsItself
CHECK_DEADLOCK FALSE
