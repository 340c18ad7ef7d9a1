\* Up to two users of one address, three links, two requests at once and a failure.
SPECIFICATION Spec
CONSTANTS
  u1 = u1  u2 = u2  t1 = t1  t2 = t2  t3 = t3  r1 = r1  r2 = r2  None = None
  Users <- TwoUsers
  Tokens <- ThreeTokens
  Requests <- TwoRequests
  MaxFaults = 1
  MaxSubmits = 2
SYMMETRY Symmetry
INVARIANTS TypeOK ConsumedMeansConfirmed WelcomeMeansConfirmed OwnLinkConfirms ResetExactlyOnce
\* Idle once its tokens are used up.
CHECK_DEADLOCK FALSE
