SPECIFICATION FairSpec
CONSTANTS
  MaxFrames = 2
  MaxEvents = 1
  Incarnations = 0
  DeleteBudget = 0
  OutageBudget = 0
  FaultBudget = 0
  Budget <- MCBudget
CHECK_DEADLOCK FALSE
PROPERTY ReconcileReturns
