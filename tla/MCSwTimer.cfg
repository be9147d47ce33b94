SPECIFICATION FairSpec
CONSTANTS
  Periods = {0, 1, 2, 4}
  MaxCost = 5
CHECK_DEADLOCK FALSE
INVARIANTS
  TypeOK
PROPERTIES
  OnTime
  DestroyReturns
  ExpiresOrIsStopped
