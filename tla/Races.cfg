SPECIFICATION Spec
CONSTANTS
  UserBudget = 1
  SeBudget = 1
  CallBudget = 2
  TickBudget = 0
  GcBudget = 1
  CrashBudget = 1
  FaultBudget = 1
  LazySidecars = {l1}
  NoName = NoName
  ServiceEntries = {e1}
  Requests = {r1, r2}
  SeHosts = {s1}
  SvcHosts = {v1, v2}
  UserHost = s1
  Middleware = {}
  DefaultHost = DefaultHost
  MiddlewareHosts <- MCMiddlewareHosts
  Matched <- MCMatched
  UserHosts <- MCUserHosts
  Budget <- MCBudget
CHECK_DEADLOCK FALSE
INVARIANTS TypeOK CopiesFaithful
PROPERTIES NoHostLost AtomicLists
