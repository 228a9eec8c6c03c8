SPECIFICATION Spec
CONSTANTS
  a = a
  b = b
  c = c
  Jobs = {a, b, c}
  Replicas = {i1, i2, i3}
  DryRunners = {i3}
  DueAt <- DueMinutes
  RunMissed = {b, c}
  MaxDelayMin <- Delays
  MissScanMin = 3
  UnitsPerMinute = 4
  TickUnits = 1
  Skews <- EitherWay
  LastMinute = 6
  MaxFaults = 2
SYMMETRY Interchangeable
CHECK_DEADLOCK FALSE
INVARIANTS
  MissedReplayed
  NoMinuteSkipped
  LostMinutesAreReal
PROPERTIES
  NeverTooLate
