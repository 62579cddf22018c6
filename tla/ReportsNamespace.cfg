SPECIFICATION Spec
CONSTANTS
  LazySidecars <- MCLazySidecars
  Namespace <- MCNamespace
  Selector <- MCSelector
  Calls <- ForeignCalls
  UserLists <- MCUserLists
  Text <- MCText
  Lower <- MCLower
  UserBudget = 0
  RefusedBudget = 0
  Budget <- MCBudget
CHECK_DEADLOCK FALSE
INVARIANT OnlySelected
