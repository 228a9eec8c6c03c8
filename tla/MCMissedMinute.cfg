SPECIFICATION Spec
CONSTANTS
  a = a
  b = b
  c = c
  Jobs = {a, b, c}
  Replicas = {i1}
  DryRunners = {}
  DueAt <- DueMinutes
  RunMissed = {b, c}
  MaxDelayMin <- Delays
  MissScanMin = 3
  UnitsPerMinute = 4
  TickUnits = 1
  Skews <- EitherWay
  LastMinute = 4
  MaxFaults = 1
CHECK_DEADLOCK FALSE
INVARIANTS
  DownMinutesReplayed
