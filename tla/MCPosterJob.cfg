\* Claim, call and write fit in StaleAfter; two failures besides the deadlines.
SPECIFICATION FairSpec
CONSTANTS
  r1 = r1  r2 = r2  None = None  BadKey = BadKey
  Runs <- TwoRuns
  Shows <- OneShow
  StaleAfter = 5
  DbTimeout = 1
  CredsTimeout = 1
  HttpTimeout = 2
  GenTimeout = 5
  LambdaTimeout = 1
  MaxFaults = 2
INVARIANTS TypeOK OneRunPerJob ReadyIsServable SidecarMeansPng DeletedStaysGone
PROPERTY PendingSettles
CHECK_DEADLOCK FALSE
