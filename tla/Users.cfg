SPECIFICATION Spec
CONSTANTS
  UserBudget = 3
  SeBudget = 1
  CallBudget = 0
  TickBudget = 0
  GcBudget = 1
  CrashBudget = 1
  FaultBudget = 0
  LazySidecars = {l1}
  NoName = NoName
  ServiceEntries = {e1}
  Requests = {}
  SeHosts = {s1}
  SvcHosts = {v1}
  UserHost = v1
  Middleware = {s1}
  DefaultHost = DefaultHost
  MiddlewareHosts <- MCMiddlewareHosts
  Matched <- MCMatched
  UserHosts <- MCUserHosts
  Budget <- MCBudget
CHECK_DEADLOCK FALSE
INVARIANTS SidecarInSync ServiceEntriesImported StatusInSync
