SPECIFICATION Spec
CONSTANTS
  p1 = p1 p2 = p2 p3 = p3 k1 = k1 k2 = k2 k3 = k3 k4 = k4 e1 = e1 e2 = e2 h1 = h1
  c1 = c1 c2 = c2
  Omitted = Omitted
  JobIds = {1, 2, 3, 4, 5}
  Projects = {p1, p2, p3}
  Codes = {k1, k2, k3, k4}
  Exprs = {e1, e2}
  Headers = {h1}
  Clients = {c1, c2}
  NewProjects = {p3}
  ChainMaxDepth = 2
  PageLimit = 500
  MaxFaults = 1
  Script <- MCScript
  Scenarios <- MCScenarios
  Payloads <- MCPayloads
  InitialKeys <- MCInitialKeys
  Prefixes = {"x", "y"}
  InitialJobs <- MCInitialJobs
INVARIANTS LoopNeedsRace PruneSparesDeclared
PROPERTIES DeletedStaysDown SyncIdempotent WritesInReach
