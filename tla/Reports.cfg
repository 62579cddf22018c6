SPECIFICATION FairSpec
CONSTANTS
  LazySidecars <- MCLazySidecars
  Namespace <- MCNamespace
  Selector <- MCSelector
  Calls <- MCCalls
  UserLists <- MCUserLists
  Text <- MCText
  Lower <- MCLower
  UserBudget = 1
  RefusedBudget = 1
  Budget <- MCBudget
CHECK_DEADLOCK FALSE
INVARIANTS TypeOK OneEntryPerService OnlyMatched
PROPERTY EveryCallLearned
