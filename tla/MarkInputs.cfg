SPECIFICATION MarkSpec
CONSTANTS
  Account <- MCAccount
  Shared <- MCShared
  RateIndependent <- MCRateIndependent
  Change <- MCChange
  LastDay = 3
  Back = 1
  Recent = 1
  MaxRows = 2
INVARIANTS
  TypeOK
  WrongIsPending
  ServedIsRight
  SeriesIsARun
PROPERTY
  RightIsKept
CONSTRAINT TwoHeld
CHECK_DEADLOCK FALSE
