\* More keys than the hard cap, and more requests under way than the burst: three
\* tokens spent at once are a debt that two windows do not refill.
SPECIFICATION Spec
CONSTANTS
  k1 = k1  k2 = k2  k3 = k3  k4 = k4  k5 = k5
  Keys <- FiveKeys
  MaxRequests = 3
  OnSuccess = TRUE
  Burst = 1
  Window = 2
  SweepAt = 2
  HardCap = 4
SYMMETRY Symmetry
INVARIANTS TypeOK DebtBounded MapBounded SweptOwesLittle RetryAfterRepays
PROPERTY SweepForgivesLittle
