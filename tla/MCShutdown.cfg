SPECIFICATION FairSpec
CONSTANTS
  e1 = e1
  h1 = h1
  t1 = t1
  w1 = w1
  Entries = {e1}
  Requests = {h1}
  Timers = {t1}
  Workers = {w1}
  QueueSize = 1
  NotifyQueueSize = 1
  LogQueueSize = 1
CHECK_DEADLOCK FALSE
INVARIANTS
  LogSendsOnOpenChannel
  EachStepAfterItsUsers
  CleanExitKeepsAll
PROPERTIES
  ShutdownEnds
