SPECIFICATION FairSpec
CONSTANTS
  t1 = t1
  t2 = t2
  t3 = t3
  v1 = v1
  v2 = v2
  Requests = {t1, t2, t3}
  Visitors = {v1, v2}
  Senders <- MCSenders
  Limit = 1
  WindowLength = 0
  MaxTracked = 0
  MaxTime = 1
  Nothing = Nothing
CHECK_DEADLOCK FALSE
INVARIANTS
  ErrorsNeedOverlap
  LimitKept
PROPERTIES
  LimiterEnds
