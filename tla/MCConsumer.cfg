\* The code's proportions: one handler fits in the visibility timeout
\* (25 s < 30 s), two do not.
SPECIFICATION FairSpec
CONSTANTS
  m1 = m1  m2 = m2  w1 = w1  w2 = w2  None = None
  Msgs <- TwoMsgs
  Workers <- TwoWorkers
  BatchSize = 2
  HandleTimeout = 2
  VisibilityTimeout = 3
  MaxReceive = 3
  MaxFaults = 1
INVARIANTS TypeOK TimelyHandlerOwns ExclusiveHandling DeadMeansLost
PROPERTIES ImplementsAtLeastOnce EveryMessageEnds
CHECK_DEADLOCK FALSE
