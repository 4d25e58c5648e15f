SPECIFICATION FairSpec
CONSTANTS
  Runs = {r1, r2}
  Operator = op
  NoRun = NoRun
  Keep = 2
  WallBudget = 1
  LeaseTTL = 2
  MaxId = 5
  MaxVersion = 3
  MaxDisturbances = 2
INVARIANT ServedIsActive
PROPERTY RetentionHolds
PROPERTY ImplementsSite
PROPERTY SourceGetsPublished
