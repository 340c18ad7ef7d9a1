---------------------------- MODULE RateLimiter ----------------------------
(***************************************************************************)
(* The in-process rate limiter (internal/ratelimit/memory.go) as the HTTP  *)
(* middleware uses it (internal/http/middleware/ratelimit.go): a request   *)
(* peeks with Allow and spends with Record, each under the limiter's lock  *)
(* but not both under one; RateLimitOnSuccess runs the handler in between  *)
(* and spends only for a 2xx.                                              *)
(*                                                                         *)
(* The clock is discrete.  A token is Window units, so that Burst tokens   *)
(* per Window is Burst units per tick and every level is a whole number.   *)
(***************************************************************************)
EXTENDS Integers, FiniteSets

CONSTANTS
    Keys,          \* client addresses, or users
    MaxRequests,   \* bound: requests under way at once
    OnSuccess,     \* the middleware counts successful requests only
    Burst,         \* requests per window (limit)
    Window,        \* ticks of a window
    SweepAt,       \* maxBucketsBeforeSweep (code: 10,000)
    HardCap        \* hardBucketCap (code: 50,000)

ASSUME LimiterAssumption ==
    /\ IsFiniteSet(Keys) /\ MaxRequests \in Nat \ {0}
    /\ OnSuccess \in BOOLEAN
    /\ Burst \in Nat \ {0} /\ Window \in Nat \ {0}
    /\ SweepAt \in Nat \ {0}
    /\ HardCap \in Nat /\ HardCap >= 4 /\ HardCap >= SweepAt

Token == Window
Full == Burst * Window
\* idle is counted up to the first value at which a bucket may be swept.
MaxIdle == 2 * Window + 1

VARIABLES
    buckets,      \* keys that have a bucket
    level,        \* level[k]: units in k's bucket; Full where there is none
    idle,         \* idle[k]: ticks since lastSeen, up to MaxIdle
    sinceSweep,   \* ticks since lastSweep, up to Window
    allowed       \* allowed[k]: k's requests between Allow and Record

vars == <<buckets, level, idle, sinceSweep, allowed>>

TypeOK == /\ buckets \subseteq Keys
          /\ level \in [Keys -> Int]
          /\ \A k \in Keys : level[k] <= Full
          /\ \A k \in Keys \ buckets : level[k] = Full
          /\ idle \in [Keys -> 0..MaxIdle]
          /\ sinceSweep \in 0..Window
          /\ allowed \in [Keys -> 0..MaxRequests]

\* NewMemory: lastSweep is the zero time.
Init == /\ buckets = {}
        /\ level = [k \in Keys |-> Full]
        /\ idle = [k \in Keys |-> 0]
        /\ sinceSweep = Window
        /\ allowed = [k \in Keys |-> 0]
-----------------------------------------------------------------------------
\* mutant: anything idle for half a window goes
ExpiredEarly == {k \in buckets : 2 * idle[k] > Window}

\* sweepLocked: lastSeen.Before(now - 2 * window)
Expired == {k \in buckets : idle[k] > 2 * Window}

\* mutant: nothing idle, nothing dropped
OldestNone(S) == {{}}

\* evictOldestLocked(len / 4): which buckets may go, equals in any order.
Oldest(S) == {E \in SUBSET S : /\ Cardinality(E) = Cardinality(S) \div 4
                               /\ \A e \in E, k \in S \ E : idle[e] >= idle[k]}

AtCap == Cardinality(buckets) >= HardCap
SweepDue == AtCap \/ (Cardinality(buckets) >= SweepAt /\ sinceSweep >= Window)
Swept == IF SweepDue THEN buckets \ Expired ELSE buckets

\* The sets of buckets bucketLocked may leave before it looks up its key.
Kept == IF AtCap /\ Cardinality(Swept) >= HardCap
        THEN {Swept \ E : E \in Oldest(Swept)}
        ELSE {Swept}

\* mutant: lastSeen is set when the bucket is made, and never again
TouchUnseen(k, cost) ==
    \E S \in Kept :
        /\ buckets' = S \cup {k}
        /\ level' = [j \in Keys |-> (IF j \in S THEN level[j] ELSE Full)
                                        - (IF j = k THEN cost ELSE 0)]
        /\ idle' = [j \in Keys |-> IF j \in S THEN idle[j] ELSE 0]
        /\ sinceSweep' = IF SweepDue THEN 0 ELSE sinceSweep

\* bucketLocked(k), then the spending of cost units.
Touch(k, cost) ==
    \E S \in Kept :
        /\ buckets' = S \cup {k}
        /\ level' = [j \in Keys |-> (IF j \in S THEN level[j] ELSE Full)
                                        - (IF j = k THEN cost ELSE 0)]
        /\ idle' = [j \in Keys |-> IF j \in S \ {k} THEN idle[j] ELSE 0]
        /\ sinceSweep' = IF SweepDue THEN 0 ELSE sinceSweep

\* mutant: an empty bucket still has its last token to give
HasTokenAlways(k) == level'[k] >= 0

HasToken(k) == level'[k] >= Token

\* The requests under way, each as its key and its number among that key's.
UnderWay == {u \in Keys \X (1..MaxRequests) : u[2] <= allowed[u[1]]}

\* Memory.Allow
Allow(k) == /\ Cardinality(UnderWay) < MaxRequests
            /\ Touch(k, 0)
            /\ HasToken(k)
            /\ allowed' = [allowed EXCEPT ![k] = @ + 1]

Deny(k) == /\ Touch(k, 0)
           /\ ~HasToken(k)
           /\ UNCHANGED allowed

\* Memory.Record: ReserveN debits whatever the level is.
Record(k) == /\ allowed[k] > 0
             /\ Touch(k, Token)
             /\ allowed' = [allowed EXCEPT ![k] = @ - 1]

\* RateLimitOnSuccess: the handler did not answer 2xx.
Refused(k) == /\ OnSuccess
              /\ allowed[k] > 0
              /\ allowed' = [allowed EXCEPT ![k] = @ - 1]
              /\ UNCHANGED <<buckets, level, idle, sinceSweep>>

Min2(a, b) == IF a < b THEN a ELSE b

\* mutant: the refill is not capped at the burst
RefilledUncapped(n) == n + Burst

\* rate.Limiter refills to its burst.
Refilled(n) == Min2(Full, n + Burst)

Tick == /\ level' = [k \in Keys |-> IF k \in buckets THEN Refilled(level[k]) ELSE level[k]]
        /\ idle' = [k \in Keys |-> IF k \in buckets THEN Min2(MaxIdle, idle[k] + 1) ELSE 0]
        /\ sinceSweep' = Min2(Window, sinceSweep + 1)
        /\ UNCHANGED <<buckets, allowed>>

Next == \/ \E k \in Keys : Allow(k) \/ Deny(k) \/ Record(k) \/ Refused(k)
        \/ Tick

Spec == Init /\ [][Next]_vars
-----------------------------------------------------------------------------
(* A burst that was let through before any of it was recorded puts a       *)
(* bucket in debt, but by no more than the requests that can be under way  *)
(* at once: Record debits unconditionally, and every debit was preceded by *)
(* a check that found a token.                                             *)
DebtBounded ==
    \A k \in Keys : level[k] >= Token * (1 - MaxRequests)

(* The map never outgrows hardBucketCap, even when every key is new.       *)
MapBounded == Cardinality(buckets) <= HardCap

Max2(a, b) == IF a < b THEN b ELSE a

\* The lowest a bucket can be: every request spent the token it found.
Lowest == Token * (1 - MaxRequests)

(* Sweep drops what is idle for more than two windows as "necessarily full *)
(* and carries no state worth keeping" (memory.go:138-140), because a      *)
(* bucket refills from empty in one.  A bucket in debt needs longer: what  *)
(* is old enough to be swept is full, or short of it by what the debt of   *)
(* the requests under way exceeds two windows' refill.                     *)
SweptOwesLittle ==
    \A k \in buckets : idle[k] > 2 * Window =>
        level[k] >= Min2(Full, Lowest + Burst * MaxIdle)

\* The most a sweep can forgive: nothing while there are few requests.
Forgivable == Max2(0, Full - (Lowest + Burst * MaxIdle))

(* Below the hard cap, dropping buckets gives nobody budget back but for   *)
(* that rest of a debt: a bucket gains only as time passes, or when it is  *)
(* swept, and then no more than Forgivable (memory.go:147-158).            *)
SweepForgivesLittle ==
    [][~AtCap => \A k \in buckets : level'[k] > level[k] =>
          \/ k \in buckets' /\ idle'[k] > 0
          \/ idle[k] > 2 * Window /\ level'[k] - level[k] <= Forgivable]_vars

\* Retry-After in ticks, rounded up, at most the window.
Ceil(a, b) == (a + b - 1) \div b

\* mutant: the time until the debt is paid, not until there is a token
RetryAfterDebt(k) == Min2(Window, Ceil(Max2(0, 0 - level[k]), Burst))

RetryAfter(k) == Min2(Window, Ceil(Token - level[k], Burst))

\* What k has after its Retry-After, if nobody spends from it meanwhile.
Comeback(k) == Min2(Full, level[k] + Burst * RetryAfter(k))

\* Tokens, whole or begun, that l is short of one.
Owed(l) == IF l < Token THEN Ceil(Token - l, Token) ELSE 0

(* Allow tells a refused client to come back "as the missing fraction of a *)
(* token accrues", but never later than in a window (memory.go:102-113),   *)
(* which is too soon for a bucket whose debt exceeds the burst.  Each wait *)
(* pays off a whole burst or lets the client through, so one that keeps to *)
(* Retry-After while nobody else spends is let through after at most       *)
(* MaxRequests / Burst waits, rounded up.                                  *)
RetryAfterRepays ==
    \A k \in buckets : level[k] < Token =>
        /\ Owed(level[k]) <= MaxRequests
        /\ Owed(Comeback(k)) <= Max2(0, Owed(level[k]) - Burst)
=============================================================================
