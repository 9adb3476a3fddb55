SPECIFICATION MarkSpec
CONSTANTS
  Account <- MCAccount
  Shared <- MCShared
  RateIndependent <- MCRateIndependent
  Change <- MCChange
  LastDay = 3
  Back = 1
  Recent = 1
  MaxRows = 1
INVARIANT AlwaysServedIsRight
CHECK_DEADLOCK FALSE
