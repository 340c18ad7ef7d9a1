------------------------- MODULE RateLimiterProofs -------------------------
(***************************************************************************)
(* What the rate limiter keeps for any number of clients and requests, any *)
(* limit and window, and any sizes of the map.                             *)
(***************************************************************************)
EXTENDS RateLimiter, FiniteSetTheorems, TLAPS

LEMMA Constants ==
    /\ Burst \in Nat /\ Burst >= 1 /\ Window \in Nat /\ Window >= 1
    /\ Token = Window /\ Full \in Nat /\ Full >= Token /\ Full >= Burst
    /\ MaxIdle \in Nat /\ MaxIdle >= 1
  <1>1. /\ Burst \in Nat /\ Burst >= 1 /\ Window \in Nat /\ Window >= 1
    BY LimiterAssumption
  <1>2. Burst * Window \in Nat /\ Burst * Window >= Window /\ Burst * Window >= Burst
    BY <1>1
  <1> QED BY <1>1, <1>2 DEF Token, Full, MaxIdle

\* What a sweep or an eviction leaves are old buckets.
LEMMA KeptBuckets == \A S \in Kept : S \subseteq buckets
  BY DEF Kept, Swept, Expired

LEMMA RefillGains ==
    ASSUME NEW n \in Int, n <= Full
    PROVE  Refilled(n) \in Int /\ n <= Refilled(n) /\ Refilled(n) <= Full
  BY Constants DEF Refilled, Min2
-----------------------------------------------------------------------------
(* Type correctness.                                                       *)

LEMMA InitType == Init => TypeOK
  BY Constants, LimiterAssumption DEF Init, TypeOK

LEMMA TouchType ==
    ASSUME TypeOK, NEW k \in Keys, NEW cost \in {0, Token}, Touch(k, cost)
    PROVE  /\ buckets' \subseteq Keys
           /\ level' \in [Keys -> Int]
           /\ \A j \in Keys : level'[j] <= Full
           /\ \A j \in Keys \ buckets' : level'[j] = Full
           /\ idle' \in [Keys -> 0..MaxIdle]
           /\ sinceSweep' \in 0..Window
  <1>1. PICK S \in Kept :
          /\ buckets' = S \cup {k}
          /\ level' = [j \in Keys |-> (IF j \in S THEN level[j] ELSE Full)
                                          - (IF j = k THEN cost ELSE 0)]
          /\ idle' = [j \in Keys |-> IF j \in S \ {k} THEN idle[j] ELSE 0]
          /\ sinceSweep' = IF SweepDue THEN 0 ELSE sinceSweep
    BY DEF Touch
  <1>2. cost \in Nat
    BY Constants
  <1>3. S \subseteq Keys
    BY <1>1, KeptBuckets DEF TypeOK
  <1> QED BY <1>1, <1>2, <1>3, Constants DEF TypeOK

\* While there is room for a request there is room for one of any key.
LEMMA Room ==
    ASSUME TypeOK, NEW k \in Keys, Cardinality(UnderWay) < MaxRequests
    PROVE  allowed[k] + 1 \in 0..MaxRequests
  <1>1. allowed[k] \in 0..MaxRequests /\ MaxRequests \in Nat
    BY LimiterAssumption DEF TypeOK
  <1> SUFFICES ASSUME allowed[k] = MaxRequests PROVE FALSE
    BY <1>1
  <1> DEFINE T == {k} \X (1..MaxRequests)
  <1>2. Cardinality(T) = MaxRequests
    <2>1. IsFiniteSet({k}) /\ Cardinality({k}) = 1
      BY FS_Singleton
    <2>2. IsFiniteSet(1..MaxRequests) /\ Cardinality(1..MaxRequests) = MaxRequests
      BY <1>1, FS_Interval
    <2>3. Cardinality(T) = 1 * MaxRequests
      BY <2>1, <2>2, FS_Product
    <2> QED BY <1>1, <2>3
  <1>3. T \subseteq UnderWay
    <2> SUFFICES ASSUME NEW i \in 1..MaxRequests PROVE <<k, i>> \in UnderWay
      OBVIOUS
    <2>1. i <= allowed[k]
      OBVIOUS
    <2> QED BY <2>1 DEF UnderWay
  <1>4. IsFiniteSet(UnderWay)
    <2>1. IsFiniteSet(Keys \X (1..MaxRequests))
      <3>1. IsFiniteSet(Keys) /\ IsFiniteSet(1..MaxRequests)
        BY <1>1, LimiterAssumption, FS_Interval
      <3> QED BY <3>1, FS_Product
    <2>2. UnderWay \subseteq Keys \X (1..MaxRequests)
      BY DEF UnderWay
    <2> QED BY <2>1, <2>2, FS_Subset
  <1> HIDE DEF T
  <1>5. Cardinality(T) <= Cardinality(UnderWay) /\ Cardinality(UnderWay) \in Nat
    BY <1>3, <1>4, FS_Subset, FS_CardinalityType
  <1> QED BY <1>1, <1>2, <1>5

LEMMA NextType == TypeOK /\ [Next]_vars => TypeOK'
  <1> SUFFICES ASSUME TypeOK, [Next]_vars PROVE TypeOK'
    OBVIOUS
  <1>1. ASSUME NEW k \in Keys, Allow(k) PROVE TypeOK'
    <2>1. Touch(k, 0) /\ allowed' = [allowed EXCEPT ![k] = @ + 1]
      BY <1>1 DEF Allow
    <2>2. allowed[k] + 1 \in 0..MaxRequests
      BY <1>1, Room DEF Allow
    <2> QED BY <2>1, <2>2, TouchType DEF TypeOK
  <1>2. ASSUME NEW k \in Keys, Deny(k) PROVE TypeOK'
    <2>1. Touch(k, 0) /\ UNCHANGED allowed
      BY <1>2 DEF Deny
    <2> QED BY <2>1, TouchType DEF TypeOK
  <1>3. ASSUME NEW k \in Keys, Record(k) PROVE TypeOK'
    <2>1. Touch(k, Token) /\ allowed' = [allowed EXCEPT ![k] = @ - 1]
      BY <1>3 DEF Record
    <2>2. allowed[k] - 1 \in 0..MaxRequests
      BY <1>3, LimiterAssumption DEF Record, TypeOK
    <2> QED BY <2>1, <2>2, TouchType DEF TypeOK
  <1>4. ASSUME NEW k \in Keys, Refused(k) PROVE TypeOK'
    <2>1. allowed[k] - 1 \in 0..MaxRequests
      BY <1>4, LimiterAssumption DEF Refused, TypeOK
    <2> QED BY <1>4, <2>1 DEF Refused, TypeOK
  <1>5. CASE Tick
    BY <1>5, RefillGains, Constants DEF Tick, TypeOK, Min2
  <1>6. CASE UNCHANGED vars
    BY <1>6 DEF vars, TypeOK
  <1> QED BY <1>1, <1>2, <1>3, <1>4, <1>5, <1>6 DEF Next

(* Buckets never hold more than the burst, a key without a bucket counts   *)
(* as full, and the timers stay in their ranges (NewMemory, bucketLocked). *)
THEOREM LimiterType == Spec => []TypeOK
  BY InitType, NextType, PTL DEF Spec
-----------------------------------------------------------------------------
(* The size of the map.                                                    *)

\* At the cap an eviction drops at least one bucket; below it there is room.
LEMMA KeptRoom ==
    ASSUME TypeOK, MapBounded, NEW S \in Kept
    PROVE  IsFiniteSet(S) /\ Cardinality(S) + 1 <= HardCap
  <1>1. IsFiniteSet(buckets) /\ Cardinality(buckets) \in Nat
    BY LimiterAssumption, FS_Subset, FS_CardinalityType DEF TypeOK
  <1>2. /\ IsFiniteSet(Swept)
        /\ Cardinality(Swept) \in Nat
        /\ Cardinality(Swept) <= Cardinality(buckets)
    <2>1. Swept \subseteq buckets
      BY DEF Swept, Expired
    <2> QED BY <1>1, <2>1, FS_Subset, FS_CardinalityType
  <1>3. HardCap \in Nat /\ HardCap >= 4 /\ Cardinality(buckets) <= HardCap
    BY LimiterAssumption DEF MapBounded
  <1>4. CASE AtCap /\ Cardinality(Swept) >= HardCap
    <2>1. PICK E \in Oldest(Swept) : S = Swept \ E
      BY <1>4 DEF Kept
    <2>2. E \subseteq Swept /\ Cardinality(E) = Cardinality(Swept) \div 4
      BY <2>1 DEF Oldest
    <2>3. Cardinality(Swept) = HardCap
      BY <1>1, <1>2, <1>3, <1>4
    <2>4. Cardinality(E) >= 1
      BY <1>3, <2>2, <2>3
    <2>5. Cardinality(S) = Cardinality(Swept) - Cardinality(E) /\ IsFiniteSet(S)
      <3>1. Swept \cap E = E
        BY <2>2
      <3>2. /\ IsFiniteSet(Swept \ E)
            /\ Cardinality(Swept \ E) = Cardinality(Swept) - Cardinality(Swept \cap E)
        BY <1>2, FS_Difference
      <3> QED BY <2>1, <3>1, <3>2
    <2>6. Cardinality(E) \in Nat
      BY <1>2, <2>2, FS_Subset, FS_CardinalityType
    <2> QED BY <1>3, <2>3, <2>4, <2>5, <2>6
  <1>5. CASE ~(AtCap /\ Cardinality(Swept) >= HardCap)
    <2>1. S = Swept
      BY <1>5 DEF Kept
    <2>2. Cardinality(Swept) < HardCap
      BY <1>1, <1>2, <1>3, <1>5 DEF AtCap
    <2> QED BY <1>2, <1>3, <2>1, <2>2
  <1> QED BY <1>4, <1>5

LEMMA TouchMap ==
    ASSUME TypeOK, MapBounded, NEW k \in Keys, NEW cost, Touch(k, cost)
    PROVE  MapBounded'
  <1>1. PICK S \in Kept : buckets' = S \cup {k}
    BY DEF Touch
  <1>2. IsFiniteSet(S) /\ Cardinality(S) + 1 <= HardCap /\ Cardinality(S) \in Nat
    BY KeptRoom, FS_CardinalityType
  <1>3. Cardinality(S \cup {k}) <= Cardinality(S) + 1
    <2>1. CASE k \in S
      <3>1. Cardinality(S \cup {k}) = Cardinality(S)
        BY <1>2, <2>1, FS_AddElement
      <3> QED BY <1>2, <3>1
    <2>2. CASE k \notin S
      <3>1. Cardinality(S \cup {k}) = Cardinality(S) + 1
        BY <1>2, <2>2, FS_AddElement
      <3> QED BY <1>2, <3>1
    <2> QED BY <2>1, <2>2
  <1>4. Cardinality(S \cup {k}) \in Nat
    BY <1>2, FS_AddElement, FS_CardinalityType
  <1> QED BY <1>1, <1>2, <1>3, <1>4, LimiterAssumption DEF MapBounded

LEMMA NextMap == TypeOK /\ MapBounded /\ [Next]_vars => MapBounded'
  <1> SUFFICES ASSUME TypeOK, MapBounded, [Next]_vars PROVE MapBounded'
    OBVIOUS
  <1>1. ASSUME NEW k \in Keys, Allow(k) \/ Deny(k) \/ Record(k) PROVE MapBounded'
    BY <1>1, TouchMap DEF Allow, Deny, Record
  <1>2. ASSUME NEW k \in Keys, Refused(k) PROVE MapBounded'
    BY <1>2 DEF Refused, MapBounded
  <1>3. CASE Tick \/ UNCHANGED vars
    BY <1>3 DEF Tick, vars, MapBounded
  <1> QED BY <1>1, <1>2, <1>3 DEF Next

(* hardBucketCap: however many new keys arrive between two sweeps, the map *)
(* never holds more buckets than the cap (bucketLocked).                   *)
THEOREM MapStaysBounded == Spec => []MapBounded
  <1>1. Init => MapBounded
    BY FS_EmptySet, LimiterAssumption DEF Init, MapBounded
  <1> QED BY <1>1, LimiterType, NextMap, PTL DEF Spec
-----------------------------------------------------------------------------
(* Debt.                                                                   *)

\* How low a key may be: each request but its own that are still to be recorded
\* may have spent the token it found.
Floor(k) == Token - Token * (MaxRequests - allowed[k])

Floored == \A k \in Keys : level[k] >= Floor(k)

LEMMA Distributes ==
    /\ \A w, x, y \in Int : w - w * (x - y) = w * (1 - x) + w * y
    /\ \A w, x, y \in Int : w * (x - (y - 1)) = w * (x - y) + w
  <1>1. \A w, x, y \in Int : w - w * (x - y) = w * (1 - x) + w * y
    OBVIOUS
  <1>2. \A w, x, y \in Int : w * (x - (y - 1)) = w * (x - y) + w
    OBVIOUS
  <1> QED BY <1>1, <1>2

LEMMA FloorFacts ==
    ASSUME TypeOK, NEW k \in Keys
    PROVE  /\ Floor(k) \in Int /\ Floor(k) <= Token
           /\ Lowest \in Int /\ Lowest <= Floor(k)
  <1> DEFINE c == allowed[k]
  <1>1. c \in Nat /\ MaxRequests \in Nat /\ c <= MaxRequests /\ Token \in Nat
    BY LimiterAssumption, Constants DEF TypeOK
  <1>2. Floor(k) = Token - Token * (MaxRequests - c) /\ Lowest = Token * (1 - MaxRequests)
    BY DEF Floor, Lowest
  <1> HIDE DEF c
  <1>3. /\ Token * (MaxRequests - c) \in Nat /\ Token * c \in Nat
        /\ Token * (1 - MaxRequests) \in Int
    BY <1>1
  <1>4. Floor(k) = Lowest + Token * c
    BY <1>1, <1>2, Distributes
  <1> QED BY <1>1, <1>2, <1>3, <1>4

\* A request that is no longer under way lowers the floor by a token.
LEMMA FloorDrops ==
    ASSUME TypeOK, NEW k \in Keys, allowed'[k] = allowed[k] - 1
    PROVE  Floor(k)' = Floor(k) - Token
  <1> DEFINE c == allowed[k]
  <1>1. c \in Nat /\ MaxRequests \in Nat /\ Token \in Nat
    BY LimiterAssumption, Constants DEF TypeOK
  <1>2. /\ Floor(k) = Token - Token * (MaxRequests - c)
        /\ Floor(k)' = Token - Token * (MaxRequests - (c - 1))
    BY DEF Floor, Token
  <1> HIDE DEF c
  <1>3. Token * (MaxRequests - c) \in Int
    BY <1>1
  <1> QED BY <1>1, <1>2, <1>3, Distributes

\* What a call leaves in the buckets: what was there or a full one, less what
\* the call spends.
LEMMA TouchLevel ==
    ASSUME TypeOK, NEW k \in Keys, NEW cost \in {0, Token}, Touch(k, cost)
    PROVE  \A j \in Keys : LET spent == IF j = k THEN cost ELSE 0
                           IN  level'[j] \in {level[j] - spent, Full - spent}
  BY DEF Touch

LEMMA NextFloor == TypeOK /\ Floored /\ [Next]_vars => Floored'
  <1> SUFFICES ASSUME TypeOK, Floored, [Next]_vars, NEW j \in Keys
               PROVE  level'[j] >= Floor(j)'
    BY DEF Floored, Floor, Token
  <1>1. TypeOK' /\ Floor(j)' \in Int /\ Floor(j)' <= Token
    <2>1. TypeOK'
      BY NextType
    <2>2. Token - Token * (MaxRequests - allowed'[j]) \in Int
      BY <2>1, LimiterAssumption, Constants DEF TypeOK
    <2>3. allowed'[j] \in Nat /\ allowed'[j] <= MaxRequests /\ MaxRequests \in Nat
      BY <2>1, LimiterAssumption DEF TypeOK
    <2>4. Token * (MaxRequests - allowed'[j]) \in Nat
      BY <2>3, Constants
    <2> QED BY <2>1, <2>2, <2>4, Constants DEF Floor, Token
  <1>2. /\ level[j] \in Int /\ level[j] >= Floor(j)
        /\ Floor(j) \in Int /\ Floor(j) <= Token
    BY FloorFacts DEF TypeOK, Floored
  <1>3. ASSUME allowed'[j] = allowed[j], level'[j] \in {level[j], Full}
        PROVE  level'[j] >= Floor(j)'
    <2>1. Floor(j)' = Floor(j)
      BY <1>3 DEF Floor, Token
    <2> QED BY <1>2, <1>3, <2>1, Constants
  <1>4. ASSUME NEW k \in Keys, Allow(k) PROVE level'[j] >= Floor(j)'
    <2>1. Touch(k, 0) /\ HasToken(k) /\ allowed' = [allowed EXCEPT ![k] = @ + 1]
      BY <1>4 DEF Allow
    <2>2. level'[j] \in {level[j] - 0, Full - 0}
      BY <2>1, TouchLevel
    <2>3. CASE j = k
      BY <1>1, <1>2, <2>1, <2>2, <2>3, Constants DEF HasToken
    <2>4. CASE j # k
      BY <1>2, <1>3, <2>1, <2>2, <2>4, Constants DEF TypeOK
    <2> QED BY <2>3, <2>4
  <1>5. ASSUME NEW k \in Keys, Deny(k) PROVE level'[j] >= Floor(j)'
    <2>1. Touch(k, 0) /\ allowed' = allowed
      BY <1>5 DEF Deny
    <2>2. level'[j] \in {level[j] - 0, Full - 0}
      BY <2>1, TouchLevel
    <2> QED BY <1>2, <1>3, <2>1, <2>2, Constants
  <1>6. ASSUME NEW k \in Keys, Record(k) PROVE level'[j] >= Floor(j)'
    <2>1. Touch(k, Token) /\ allowed' = [allowed EXCEPT ![k] = @ - 1]
      BY <1>6 DEF Record
    <2>2. CASE j = k
      <3>1. level'[j] \in {level[j] - Token, Full - Token}
        BY <2>1, <2>2, TouchLevel
      <3>2. Floor(j)' = Floor(j) - Token
        BY <2>1, <2>2, FloorDrops DEF TypeOK
      <3> QED BY <1>2, <3>1, <3>2, Constants
    <2>3. CASE j # k
      <3>1. level'[j] \in {level[j] - 0, Full - 0}
        BY <2>1, <2>3, TouchLevel
      <3> QED BY <1>2, <1>3, <2>1, <2>3, <3>1, Constants DEF TypeOK
    <2> QED BY <2>2, <2>3
  <1>7. ASSUME NEW k \in Keys, Refused(k) PROVE level'[j] >= Floor(j)'
    <2>1. level' = level /\ allowed' = [allowed EXCEPT ![k] = @ - 1]
      BY <1>7 DEF Refused
    <2>2. CASE j = k
      <3>1. Floor(j)' = Floor(j) - Token
        BY <2>1, <2>2, FloorDrops DEF TypeOK
      <3> QED BY <1>2, <2>1, <3>1, Constants
    <2>3. CASE j # k
      BY <1>3, <2>1, <2>3 DEF TypeOK
    <2> QED BY <2>2, <2>3
  <1>8. CASE Tick
    <2>1. level'[j] = IF j \in buckets THEN Refilled(level[j]) ELSE level[j]
      BY <1>8 DEF Tick
    <2>2. level'[j] \in Int /\ level'[j] >= level[j]
      BY <1>2, <2>1, RefillGains DEF TypeOK
    <2>3. Floor(j)' = Floor(j)
      BY <1>8 DEF Tick, Floor, Token
    <2> QED BY <1>2, <2>2, <2>3
  <1>9. CASE UNCHANGED vars
    BY <1>3, <1>9 DEF vars
  <1> QED BY <1>4, <1>5, <1>6, <1>7, <1>8, <1>9 DEF Next

LEMMA FloorInv == Spec => [](TypeOK /\ Floored)
  <1>1. Init => Floored
    <2> SUFFICES ASSUME Init, NEW k \in Keys PROVE level[k] >= Floor(k)
      BY DEF Floored
    <2>1. level[k] = Full
      BY DEF Init
    <2> QED BY <2>1, InitType, FloorFacts, Constants
  <1> QED BY <1>1, InitType, NextType, NextFloor, PTL DEF Spec

LEMMA FloorBounds == TypeOK /\ Floored => DebtBounded
  <1> SUFFICES ASSUME TypeOK, Floored, NEW k \in Keys PROVE level[k] >= Lowest
    BY DEF DebtBounded, Lowest
  <1>1. level[k] \in Int /\ level[k] >= Floor(k)
    BY DEF TypeOK, Floored
  <1> QED BY <1>1, FloorFacts

(* Record debits a bucket that concurrent requests have already emptied,   *)
(* but never below one token for each other request that can be under way. *)
THEOREM DebtStaysBounded == Spec => []DebtBounded
  BY FloorInv, FloorBounds, PTL
-----------------------------------------------------------------------------
(* What may be swept.                                                      *)

\* A bucket has refilled since it was last seen, when it was at its lowest.
Rested == \A k \in buckets : level[k] >= Min2(Full, Lowest + Burst * idle[k])

LEMMA LowestFacts == Lowest \in Int /\ Lowest <= Full
  <1>1. MaxRequests \in Nat /\ MaxRequests >= 1
    BY LimiterAssumption
  <1>2. Token * (MaxRequests - 1) \in Nat /\ Token * (1 - MaxRequests) \in Int
    BY <1>1, Constants
  <1>3. \A w, x \in Int : w * (1 - x) = 0 - w * (x - 1)
    OBVIOUS
  <1> QED BY <1>1, <1>2, <1>3, Constants DEF Lowest

LEMMA RefillStep ==
    ASSUME NEW i \in Nat
    PROVE  Burst * i \in Nat /\ Burst * (i + 1) = Burst * i + Burst
  <1>1. \A b, x \in Int : b * (x + 1) = b * x + b
    OBVIOUS
  <1> QED BY <1>1, Constants

LEMMA TouchRested ==
    ASSUME TypeOK, Rested, NEW k \in Keys, NEW cost \in {0, Token}, Touch(k, cost),
           level'[k] >= Lowest
    PROVE  Rested'
  <1>1. PICK S \in Kept :
          /\ buckets' = S \cup {k}
          /\ level' = [j \in Keys |-> (IF j \in S THEN level[j] ELSE Full)
                                          - (IF j = k THEN cost ELSE 0)]
          /\ idle' = [j \in Keys |-> IF j \in S \ {k} THEN idle[j] ELSE 0]
    BY DEF Touch
  <1> SUFFICES ASSUME NEW j \in buckets'
               PROVE  level'[j] >= Min2(Full, Lowest + Burst * idle'[j])
    BY DEF Rested, Lowest, Min2, Full, Token
  <1>2. CASE j = k
    <2>1. idle'[j] = 0 /\ Burst * 0 = 0
      BY <1>1, <1>2, Constants
    <2>2. level'[k] \in Int
      BY TouchType
    <2>3. Lowest + Burst * idle'[j] = Lowest
      BY <2>1, LowestFacts
    <2> QED BY <1>2, <2>2, <2>3, LowestFacts, Constants DEF Min2
  <1>3. CASE j # k
    <2>1. j \in S /\ j \in buckets /\ j \in Keys
      BY <1>1, <1>3, KeptBuckets DEF TypeOK
    <2>2. level'[j] = level[j] - 0 /\ idle'[j] = idle[j] /\ level[j] \in Int
      BY <1>1, <1>3, <2>1 DEF TypeOK
    <2>3. level'[j] = level[j]
      BY <2>2
    <2> QED BY <2>1, <2>2, <2>3 DEF Rested
  <1> QED BY <1>2, <1>3

LEMMA NextRested ==
    ASSUME TypeOK, Floored, Floored', Rested, [Next]_vars
    PROVE  Rested'
  <1>1. \A k \in Keys : level'[k] >= Lowest
    <2>1. TypeOK'
      BY NextType
    <2>2. DebtBounded'
      BY <2>1, FloorBounds, PTL
    <2> QED BY <2>2 DEF DebtBounded, Lowest, Token
  <1>2. ASSUME NEW k \in Keys, Allow(k) \/ Deny(k) \/ Record(k) PROVE Rested'
    BY <1>1, <1>2, TouchRested DEF Allow, Deny, Record
  <1>3. ASSUME NEW k \in Keys, Refused(k) PROVE Rested'
    BY <1>3 DEF Refused, Rested, Lowest, Min2, Full, Token
  <1>4. CASE Tick
    <2> SUFFICES ASSUME NEW k \in buckets
                 PROVE  level'[k] >= Min2(Full, Lowest + Burst * idle'[k])
      BY <1>4 DEF Tick, Rested, Lowest, Min2, Full, Token
    <2>1. /\ level'[k] = Refilled(level[k]) /\ idle'[k] = Min2(MaxIdle, idle[k] + 1)
          /\ level[k] \in Int /\ level[k] <= Full /\ idle[k] \in 0..MaxIdle
          /\ level[k] >= Min2(Full, Lowest + Burst * idle[k])
      BY <1>4 DEF Tick, TypeOK, Rested
    <2>2. CASE idle[k] = MaxIdle
      <3>1. idle'[k] = MaxIdle
        BY <2>1, <2>2, Constants DEF Min2
      <3>2. level'[k] \in Int /\ level'[k] >= level[k]
        BY <2>1, RefillGains
      <3>3. Burst * MaxIdle \in Nat
        BY RefillStep, Constants
      <3> QED BY <2>1, <2>2, <3>1, <3>2, <3>3, LowestFacts, Constants DEF Min2
    <2>3. CASE idle[k] # MaxIdle
      <3>1. idle'[k] = idle[k] + 1 /\ idle[k] \in Nat
        BY <2>1, <2>3, Constants DEF Min2
      <3>2. Burst * idle'[k] = Burst * idle[k] + Burst /\ Burst * idle[k] \in Nat
        BY <3>1, RefillStep
      <3> QED BY <2>1, <3>2, LowestFacts, Constants DEF Refilled, Min2
    <2> QED BY <2>2, <2>3
  <1>5. CASE UNCHANGED vars
    BY <1>5 DEF vars, Rested, Lowest, Min2, Full, Token
  <1> QED BY <1>2, <1>3, <1>4, <1>5 DEF Next

LEMMA RestedInv == Spec => [](TypeOK /\ Floored /\ Rested)
  <1>1. Init => Rested
    BY DEF Init, Rested
  <1>2. TypeOK /\ Floored /\ Rested /\ [Next]_vars => (TypeOK /\ Floored /\ Rested)'
    BY NextType, NextFloor, NextRested
  <1>3. Spec => [](TypeOK /\ Floored)
    BY FloorInv
  <1>4. Init => TypeOK /\ Rested
    BY <1>1, InitType
  <1> QED BY <1>2, <1>3, <1>4, PTL DEF Spec

LEMMA RestedOwes == TypeOK /\ Rested => SweptOwesLittle
  <1> SUFFICES ASSUME TypeOK, Rested, NEW k \in buckets, idle[k] > 2 * Window
               PROVE  level[k] >= Min2(Full, Lowest + Burst * MaxIdle)
    BY DEF SweptOwesLittle
  <1>1. idle[k] = MaxIdle
    BY Constants DEF TypeOK, MaxIdle
  <1> QED BY <1>1 DEF Rested

(* "anything idle that long is necessarily full" (Memory.Sweep), but for   *)
(* what the debt of the requests that can be under way at once exceeds the *)
(* refill of two windows, however many they are.                           *)
THEOREM SweptOwes == Spec => []SweptOwesLittle
  BY RestedInv, RestedOwes, PTL

LEMMA StepForgives == TypeOK /\ SweptOwesLittle /\ [Next]_vars =>
    (~AtCap => \A k \in buckets : level'[k] > level[k] =>
         \/ k \in buckets' /\ idle'[k] > 0
         \/ idle[k] > 2 * Window /\ level'[k] - level[k] <= Forgivable)
  <1> SUFFICES ASSUME TypeOK, SweptOwesLittle, [Next]_vars, ~AtCap,
                      NEW j \in buckets, level'[j] > level[j]
               PROVE  \/ j \in buckets' /\ idle'[j] > 0
                      \/ idle[j] > 2 * Window /\ level'[j] - level[j] <= Forgivable
    OBVIOUS
  <1>1. j \in Keys /\ level[j] \in Int /\ level[j] <= Full
    BY DEF TypeOK
  <1>2. ASSUME NEW k \in Keys, NEW cost \in {0, Token}, Touch(k, cost)
        PROVE  idle[j] > 2 * Window /\ level'[j] - level[j] <= Forgivable
    <2>1. PICK S \in Kept : level' = [i \in Keys |-> (IF i \in S THEN level[i] ELSE Full)
                                                  - (IF i = k THEN cost ELSE 0)]
      BY <1>2 DEF Touch
    <2>2. S = Swept
      BY DEF Kept
    <2>3. cost \in Nat
      BY Constants
    <2>4. j \notin S
      BY <1>1, <2>1, <2>3
    <2>5. idle[j] > 2 * Window
      BY <2>2, <2>4 DEF Swept, Expired
    <2>6. level[j] >= Min2(Full, Lowest + Burst * MaxIdle)
      BY <2>5 DEF SweptOwesLittle
    <2>7. level'[j] \in Int /\ level'[j] <= Full
      BY <1>1, <2>1, <2>3, <2>4, Constants
    <2>8. Burst * MaxIdle \in Nat
      BY RefillStep, Constants
    <2>9. level'[j] - level[j] <= Forgivable
      BY <1>1, <2>6, <2>7, <2>8, LowestFacts, Constants DEF Min2, Max2, Forgivable
    <2> QED BY <2>5, <2>9
  <1>3. ASSUME NEW k \in Keys, Allow(k) \/ Deny(k) \/ Record(k)
        PROVE  idle[j] > 2 * Window /\ level'[j] - level[j] <= Forgivable
    BY <1>2, <1>3 DEF Allow, Deny, Record
  <1>4. ASSUME NEW k \in Keys, Refused(k) PROVE FALSE
    BY <1>1, <1>4 DEF Refused
  <1>5. CASE Tick
    BY <1>1, <1>5, Constants DEF Tick, TypeOK, Min2
  <1>6. CASE UNCHANGED vars
    BY <1>1, <1>6 DEF vars
  <1> QED BY <1>3, <1>4, <1>5, <1>6 DEF Next

(* Below the hard cap no client gains budget by being dropped from the map *)
(* (sweepLocked), but for the rest of a debt that its idle time has not    *)
(* repaid: its bucket rises only as time passes.                           *)
THEOREM SweepForgives == Spec => SweepForgivesLittle
  BY SweptOwes, LimiterType, StepForgives, PTL DEF Spec, SweepForgivesLittle
-----------------------------------------------------------------------------
(* Retry-After.                                                            *)

\* Rounding up is the least whole number of units that covers.
LEMMA CeilCovers ==
    ASSUME NEW a \in Nat, NEW b \in Nat, b >= 1
    PROVE  /\ Ceil(a, b) \in Nat /\ b * Ceil(a, b) >= a
           /\ \A c \in Nat : b * c >= a => Ceil(a, b) <= c
  <1> DEFINE x == a + b - 1
             q == x \div b
  <1>1. x \in Nat
    OBVIOUS
  <1>2. q \in Int /\ x = b * q + (x % b) /\ 0 <= x % b /\ x % b < b
    BY <1>1
  <1>3. b * q >= a
    BY <1>2
  <1>4. q \in Nat
    BY <1>1, <1>2
  <1>5. ASSUME NEW c \in Nat, b * c >= a PROVE q <= c
    <2> SUFFICES ASSUME q >= c + 1 PROVE FALSE
      BY <1>4, <1>5
    <2>1. b * q >= b * (c + 1)
      BY <1>4
    <2>2. b * (c + 1) = b * c + b
      OBVIOUS
    <2>3. b * q < a + b
      BY <1>2
    <2> QED BY <1>2, <1>5, <2>1, <2>2, <2>3
  <1> QED BY <1>3, <1>4, <1>5 DEF Ceil

LEMMA RetryPays == TypeOK /\ DebtBounded => RetryAfterRepays
  <1> SUFFICES ASSUME TypeOK, DebtBounded, NEW k \in buckets, level[k] < Token
               PROVE  /\ Owed(level[k]) <= MaxRequests
                      /\ Owed(Comeback(k)) <= Max2(0, Owed(level[k]) - Burst)
    BY DEF RetryAfterRepays
  <1> DEFINE l == level[k]
             d == Token - l
             m == Owed(l)
  <1>1. /\ l \in Int /\ l >= Token * (1 - MaxRequests) /\ MaxRequests \in Nat
        /\ d \in Nat /\ Token \in Nat /\ Token >= 1 /\ d >= 1
    BY LimiterAssumption, Constants DEF TypeOK, DebtBounded
  <1>2. m = Ceil(d, Token)
    BY DEF Owed
  <1>3. /\ m \in Nat /\ Token * m >= d /\ \A c \in Nat : Token * c >= d => m <= c
    BY <1>1, <1>2, CeilCovers
  <1> HIDE DEF m
  <1>4. m <= MaxRequests
    <2>1. Token * (1 - MaxRequests) = Token - Token * MaxRequests
          /\ Token * MaxRequests \in Nat
      BY <1>1
    <2>2. Token * MaxRequests >= d
      BY <1>1, <2>1
    <2> QED BY <1>1, <1>3, <2>2
  <1> DEFINE x == Comeback(k)
             t == RetryAfter(k)
  <1>5. t \in {Window, Ceil(d, Burst)}
    BY DEF RetryAfter, Min2
  <1>6. CASE t = Ceil(d, Burst)
    <2>1. t \in Nat /\ Burst * t >= d
      BY <1>1, <1>6, CeilCovers, Constants
    <2>2. x = Min2(Full, l + Burst * t)
      BY DEF Comeback
    <2> HIDE DEF x, t
    <2>3. x >= Token
      BY <1>1, <2>1, <2>2, Constants DEF Min2
    <2>4. Owed(x) = 0
      BY <2>2, <2>3, <1>1, Constants DEF Owed, Min2
    <2> QED BY <1>3, <1>4, <2>4, Constants DEF Max2, m, x
  <1>7. CASE t # Ceil(d, Burst)
    <2>1. t = Window /\ Window < Ceil(d, Burst)
      BY <1>1, <1>5, <1>7, CeilCovers, Constants DEF RetryAfter, Min2
    <2>2. Full = Burst * Window /\ Full < d
      <3>1. /\ Ceil(d, Burst) \in Nat
            /\ \A c \in Nat : Burst * c >= d => Ceil(d, Burst) <= c
        BY <1>1, CeilCovers, Constants
      <3>2. Window \in Nat /\ Burst * Window \in Nat
        BY Constants
      <3> QED BY <1>1, <2>1, <3>1, <3>2, Constants DEF Full
    <2>3. x = l + Full /\ Token - x = d - Full /\ x < Token
      <3>1. x = Min2(Full, l + Full)
        BY <2>1 DEF Comeback, Full
      <3> QED BY <1>1, <2>2, <3>1, Constants DEF Min2
    <2>4. m - Burst \in Nat /\ Token * (m - Burst) >= d - Full
      <3>1. Token * m > Burst * Window /\ Token = Window
        BY <1>1, <1>3, <2>2, Constants
      <3>2. m > Burst
        <4>1. \A b, w, n \in Nat : n <= b => w * n <= b * w
          OBVIOUS
        <4> QED BY <1>3, <3>1, <4>1, Constants
      <3>3. Token * (m - Burst) = Token * m - Burst * Window
        <4>1. \A b, w, n \in Int : w * (n - b) = w * n - b * w
          OBVIOUS
        <4> QED BY <1>3, <3>1, <4>1, Constants
      <3>4. Token * m \in Nat /\ Burst * Window \in Nat
        BY <1>1, <1>3, Constants
      <3> QED BY <1>1, <1>3, <2>2, <3>2, <3>3, <3>4, Constants
    <2>5. Owed(x) = Ceil(d - Full, Token)
      BY <2>3 DEF Owed
    <2>6. Owed(x) <= m - Burst /\ Owed(x) \in Nat
      <3>1. d - Full \in Nat
        BY <1>1, <2>2, Constants
      <3> QED BY <1>1, <2>4, <2>5, <3>1, CeilCovers, Constants
    <2> HIDE DEF x
    <2> QED BY <1>3, <1>4, <2>4, <2>6, Constants DEF Max2, m, x
  <1> QED BY <1>6, <1>7

(* A refused client that comes back when it is told to, and with nobody    *)
(* else spending, needs at most requests / Burst waits, rounded up (Allow):*)
(* the cap at one window pays off a burst of whatever debt there is.       *)
THEOREM RetryAfterPays == Spec => []RetryAfterRepays
  BY LimiterType, DebtStaysBounded, RetryPays, PTL
=============================================================================
