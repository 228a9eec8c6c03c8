SPECIFICATION Spec
CONSTANTS
  a = a
  b = b
  NoJob = NoJob
  Jobs = {a, b}
  RunIds = {1, 2, 3}
  Minutes = {1}
  SingleRun = {a}
  Priority <- BFirst
  Links = {}
  Suspendable = {}
  Replicas = {i1}
  Slots = {s1}
  QueueSize = 1
  MaxConcurrent = 1
  ChainMaxDepth = 1
  Due <- FirstMinute
  Triggered = {}
  MaxTriggers = 0
  MaxFaults = 0
PROPERTIES
  TerminalIsFinal
