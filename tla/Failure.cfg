SPECIFICATION Spec
CONSTANTS
  UserBudget = 2
  SeBudget = 0
  CallBudget = 0
  TickBudget = 0
  GcBudget = 0
  CrashBudget = 0
  FaultBudget = 1
  LazySidecars = {l1}
  NoName = NoName
  ServiceEntries = {}
  Requests = {}
  SeHosts = {s1}
  SvcHosts = {v1}
  UserHost = s1
  Middleware = {}
  DefaultHost = DefaultHost
  MiddlewareHosts <- MCMiddlewareHosts
  Matched <- MCMatched
  UserHosts <- MCUserHosts
  Budget <- MCBudget
CHECK_DEADLOCK FALSE
INVARIANT FailureReported
