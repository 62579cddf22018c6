SPECIFICATION FairSpec
CONSTANTS
  UserBudget = 1
  SeBudget = 2
  CallBudget = 0
  TickBudget = 1
  GcBudget = 1
  CrashBudget = 0
  FaultBudget = 0
  LazySidecars = {l1}
  NoName = NoName
  ServiceEntries = {e1, e2}
  Requests = {}
  SeHosts = {s1}
  SvcHosts = {v1}
  UserHost = s1
  Middleware = {}
  DefaultHost = DefaultHost
  MiddlewareHosts <- MCMiddlewareHosts
  Matched <- MCMatched
  UserHosts <- MCUserHosts
  Budget <- MCBudget
CHECK_DEADLOCK FALSE
INVARIANTS SidecarInSync ServiceEntriesImported StatusInSync
PROPERTY ComesToRest
