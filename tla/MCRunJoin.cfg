SPECIFICATION FairSpec
CONSTANTS
  t1 = t1
  t2 = t2
  t3 = t3
  t4 = t4
  w1 = w1
  w2 = w2
  NoOwner = NoOwner
  Tasks = {t1, t2, t3, t4}
  Required = {t4}
  Owners = {w1, w2}
  Deps <- JoinDeps
  Conflicts <- JoinConflicts
  RetryLimit <- JoinRetries
  Estimate <- JoinEstimates
  Policy = "block_descendants"
  HardLimit = 6
  LeaseTTL = 2
  AttemptCeiling = 3
  MaxConcurrency = 2
CHECK_DEADLOCK FALSE
INVARIANTS
  TypeOK
  FencingOK
  DependencyOrder
  BlocksExactlyBehind
  BudgetCap
PROPERTIES
  LeaseEnds
  ClosesOrExhausts
