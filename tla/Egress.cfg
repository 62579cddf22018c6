SPECIFICATION FairSpec
CONSTANTS
  MaxFrames = 1
  MaxEvents = 1
  Incarnations = 2
  DeleteBudget = 1
  OutageBudget = 1
  FaultBudget = 1
  Budget <- MCBudget
CHECK_DEADLOCK FALSE
INVARIANTS TypeOK RestoredAtRest
PROPERTY GetsToServe
