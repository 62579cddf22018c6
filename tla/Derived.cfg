SPECIFICATION FairSpec
CONSTANTS
  Selectors = {NoLabels, app, web}
  NoLabels = NoLabels
  Nil = Nil
  ServiceLists <- OneService
  UserBudget = 3
  FaultBudget = 2
CHECK_DEADLOCK FALSE
INVARIANTS TypeOK RestsInSync
PROPERTIES SyncedOrStuck FilterSelects
