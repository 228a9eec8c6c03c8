SPECIFICATION Spec
CONSTANTS
  a = a
  b = b
  NoJob = NoJob
  Jobs = {a, b}
  RunIds = {1, 2, 3}
  Minutes = {1}
  SingleRun = {a}
  Priority <- BFirst
  Links = {}
  Suspendable = {}
  Replicas = {i1}
  Slots = {s1, s2}
  QueueSize = 2
  MaxConcurrent = 2
  ChainMaxDepth = 1
  Due <- FirstMinute
  Triggered = {a}
  MaxTriggers = 1
  MaxFaults = 0
INVARIANTS
  SingleRunExclusive
