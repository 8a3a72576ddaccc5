SPECIFICATION MCSpec
CONSTANTS
  Null = Null
  k1 = k1
  a = a
  b = b
  t1 = t1
  w1 = w1
  w2 = w2
  c1 = c1
  c2 = c2
  Loads <- MCLoads
  Key <- MCKey
  Workers = {w1, w2}
  Prefetch = 1
  RetryLimit = 1
  MaxCrashes = 2
  MaxFailures = 2
  MaxLostAcks = 1
  MaxFaults = 2
INVARIANTS
  AnswersExact
  NoTaskForgotten
  CompleteTasksHaveResults
  AnnouncedOnce
  CacheKept
PROPERTIES
  RecordsDelivered
  EventuallyHandled
\* The parts come to their ends.
CHECK_DEADLOCK FALSE
