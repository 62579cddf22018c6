SPECIFICATION Spec
CONSTANTS
  Selectors = {app}
  NoLabels = NoLabels
  Nil = Nil
  ServiceLists <- TwoServices
  UserBudget = 2
  FaultBudget = 0
CHECK_DEADLOCK FALSE
PROPERTY FilterSelects
