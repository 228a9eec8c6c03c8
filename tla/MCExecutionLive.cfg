SPECIFICATION FairSpec
CONSTANTS
  a = a
  b = b
  NoJob = NoJob
  Jobs = {a, b}
  RunIds = {1, 2, 3}
  Minutes = {1}
  SingleRun = {a}
  Priority <- BFirst
  Links <- OneLink
  Suspendable = {}
  Replicas = {i1}
  Slots = {s1}
  QueueSize = 1
  MaxConcurrent = 1
  ChainMaxDepth = 1
  Due <- FirstMinute
  Triggered = {b}
  MaxTriggers = 1
  MaxFaults = 1
INVARIANTS
  SingleRunExclusive
PROPERTIES
  EveryRowSettles
