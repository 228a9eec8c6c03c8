SPECIFICATION Spec
CONSTANTS
  r1 = r1 r2 = r2 c1 = c1 c2 = c2
  Replicas = {r1, r2}
  Clients = {c1, c2}
  PerSecond = 2
  UserIds = {1, 2, 3}
  LinkIds = {1, 2}
  Passwords = {"p", "q"}
  Weak = {"w"}
  TokenTTL = 6
  ResetTTL = 3
  AccountScenarios <- MCAccountScenarios
  AccountsEnd = 7
  Users = {1, 2, 3, 4}
  Admins = {1}
  Projects = {"A", "B"}
  Every = "every"
  CustomRoles = {"steward"}
  Binary <- MCBinary
  Custom <- MCCustom
  Assigned <- MCAssigned
  MemberTodo <- MCMemberTodo
  RowIds = {1, 2}
  Hosts = {"h"}
  Ports = {80, 443}
  AnyPort = 0
  NoHost = ""
  Addresses = {"a1", "a2", "private"}
  Unusable = {"private"}
  Rows0 <- MCRows0
  Forms <- MCForms
  MaxWrites = 2
  MaxRestarts = 1
  Problems = {"stuck"}
  AlertRepeat = 3
  MaxSweeps = 3
  AlertsEnd = 5
  Sources = {"s1", "s2"}
  Proxies <- MCProxies
  Emails = {"e1"}
  NoEmail = ""
  Headers = {"", "X-Forwarded-For", "X-Real-Ip", "X-Unknown"}
  Attempts <- MCAttempts
  Limit = 2
  Period = 1
  MaxAttempts = 4
  LimitEnd = 3
  bounds <- MCBounds
  DaysOfWeek = 3
  Calendar <- MCCalendar
  ScanDays = 6
  Written <- MCWritten
  Starts = {0, 5, 6}
  MaxRuns = 4
  Commands <- MCCommands
  Pipelines = {"pipeline"}
  PageLimit = 1
  Day = 1
  MaxRows = 2
  CtlEnd = 3
  Runs = {1, 2}
  Codes = {200, 302}
  SuccessMin = 200
  SuccessMax = 299
  QueueSize = 1
  DefaultFloor = 12
  MaxTimeout = 2
  DialTimeout = 1
  Lists <- MCLists
  CallScenarios <- MCCallScenarios
INVARIANTS
  SessionsEndWithPassword
  OldLinksDieWithReset
  FirstAdminOnce
  NoEscalation
  ChangeSeenWhereMade
  RouteNeverLost
  AnsweredRouteInForce
  AttemptsBounded
  PreviewIsWhatFires
  ExitCodeTruthful
  NoDoubleWork
  ReportsAreTrue
PROPERTIES
  NarrowedStaysNarrow
  HeldBackOnlyIfAlerted
CHECK_DEADLOCK FALSE
