SPECIFICATION Spec
CONSTANTS
  t1 = t1
  t2 = t2
  Tasks = {t1, t2}
  Attempts <- NoRetry
  NoTask = NoTask
  NoCall = NoCall
CHECK_DEADLOCK FALSE
INVARIANT
  RepeatedResultAccepted
