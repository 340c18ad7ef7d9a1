\* Two shows that differ in a diacritic.
SPECIFICATION Spec
CONSTANTS
  r1 = r1  r2 = r2  None = None  BadKey = BadKey
  Runs <- TwoRuns
  Shows <- TwoShows
  StaleAfter = 6
  DbTimeout = 1
  CredsTimeout = 1
  HttpTimeout = 3
  GenTimeout = 6
  LambdaTimeout = 2
  MaxFaults = 0
INVARIANT ReadyIsOwnShow
CHECK_DEADLOCK FALSE
