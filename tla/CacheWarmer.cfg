SPECIFICATION Spec
CONSTANTS
  Key <- MCKey
  Page <- MCPage
  Tier <- MCTier
  Parts <- MCParts
  Direct <- MCDirect
  Later <- MCLater
  Warm <- MCWarm
  Quote = {"stock", "dollar"}
  LiveFx = "dollar"
  MaxRows = 1
  MaxPlain = 1
  MaxCommits = 1
  MaxTicks = 1
  LastDay = 2
INVARIANTS
  WarmerTypeOK
  ServesRight
  PricesAreRecorded
  RestIsWarm
CONSTRAINTS UntilSkipped TwoMoves
CHECK_DEADLOCK FALSE
