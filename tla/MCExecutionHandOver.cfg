SPECIFICATION Spec
CONSTANTS
  a = a
  b = b
  NoJob = NoJob
  Jobs = {a}
  RunIds = {1, 2}
  Minutes = {1, 2}
  SingleRun = {a}
  Priority <- BFirst
  Links = {}
  Suspendable = {a}
  Replicas = {i1, i2}
  Slots = {s1}
  QueueSize = 1
  MaxConcurrent = 1
  ChainMaxDepth = 1
  Due <- BothMinutes
  Triggered = {}
  MaxTriggers = 1
  MaxFaults = 1
SYMMETRY Symmetry
INVARIANTS
  OneExecutionPerRow
  OneExecutionPerMinute
  ClaimedRowsHeld
PROPERTIES
  RecordedResultStands
