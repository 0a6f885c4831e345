SPECIFICATION Spec
CONSTANTS
  t1 = t1
  t2 = t2
  t3 = t3
  t4 = t4
  w1 = w1
  w2 = w2
  NoOwner = NoOwner
  Tasks = {t1, t2, t3, t4}
  Required = {t1, t2}
  Owners = {w1}
  Deps <- WideDeps
  Conflicts <- WideConflicts
  RetryLimit <- WideRetries
  Estimate <- WideEstimates
  Policy = "continue"
  HardLimit = 4
  LeaseTTL = 2
  AttemptCeiling = 3
  MaxConcurrency = 2
CHECK_DEADLOCK FALSE
INVARIANTS
  LeasesFit
  ClosesWithItsClosure
PROPERTIES
  ResultsInFenceOrder
  ClosedForGood
  NoRevival
  ImplementsFencedWork
