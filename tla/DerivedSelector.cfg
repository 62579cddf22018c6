SPECIFICATION FairSpec
CONSTANTS
  Selectors = {NoLabels, app}
  NoLabels = NoLabels
  Nil = Nil
  ServiceLists <- OneService
  UserBudget = 2
  FaultBudget = 0
CHECK_DEADLOCK FALSE
PROPERTY GetsInSync
