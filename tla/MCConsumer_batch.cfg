\* A batch does not fit in the visibility timeout (code: 10 * 25s > 30s).
SPECIFICATION Spec
CONSTANTS
  m1 = m1  m2 = m2  w1 = w1  w2 = w2  None = None
  Msgs <- TwoMsgs
  Workers <- TwoWorkers
  BatchSize = 2
  HandleTimeout = 2
  VisibilityTimeout = 3
  MaxReceive = 3
  MaxFaults = 0
SYMMETRY Symmetry
INVARIANT HandlerOwnsMessage
CHECK_DEADLOCK FALSE
