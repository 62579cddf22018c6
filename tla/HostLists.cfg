SPECIFICATION Spec
CONSTANTS
  Hosts = {1, 2, 3, 4}
  DefaultHost = 2
  Middleware <- MCMiddleware
  MaxUser = 3
  MaxSe = 2
  MaxLen = 4
INVARIANTS TypeOK ListIsSet SidecarIsSet
PROPERTIES SecondReconcileIsNoop NoReimport
