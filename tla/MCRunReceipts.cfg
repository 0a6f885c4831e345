SPECIFICATION FairSpec
CONSTANTS
  t1 = t1
  t2 = t2
  Tasks = {t1, t2}
  Attempts <- OneRetry
  NoTask = NoTask
  NoCall = NoCall
CHECK_DEADLOCK FALSE
INVARIANTS
  SlicesMatchAttempts
  RefusedResultsAreFiled
  ReadersGetOneReceipt
PROPERTIES
  EverythingGetsFiled
