-------------------------- MODULE PosterJobProofs --------------------------
(***************************************************************************)
(* What PosterJob guarantees for every number of runs, shows and failures. *)
(***************************************************************************)
EXTENDS PosterJob, TLAPS

LEMMA Constants ==
    /\ StaleAfter \in Nat /\ DbTimeout \in Nat /\ HttpTimeout \in Nat
    /\ GenTimeout \in Nat /\ LambdaTimeout \in Nat /\ MaxFaults \in Nat
    /\ CredsTimeout \in Nat /\ CredsTimeout <= GenTimeout
    /\ None \notin Runs /\ BadKey \notin Runs /\ None # BadKey
BY PosterAssumption

LEMMA LeftBounds ==
    /\ MaxLeft \in Nat
    /\ DbTimeout \in 0..MaxLeft /\ CredsTimeout \in 0..MaxLeft /\ 0 \in 0..MaxLeft
    /\ \A c \in 0..MaxLeft : c <= CredsTimeout =>
          Min2(HttpTimeout, GenTimeout - (CredsTimeout - c)) \in 0..MaxLeft
BY Constants DEF MaxLeft, Max2, Min2

LEMMA JobOf == \A s \in Shows : JobID(s) \in Jobs
BY DEF Jobs

LEMMA KeyOf == \A j \in Jobs : KeyBase(j) \in Keys
BY DEF Keys

LEMMA Less1Facts == \A m, n \in Nat : n <= m => Less1(n) \in 0..m /\ Less1(n) <= n
BY DEF Less1

\* TypeOK, and that a run in "creds" has no more left than CredsTimeout.
TInv == TypeOK /\ \A r \in Runs : phase[r] = "creds" => left[r] <= CredsTimeout

LEMMA InitType == Init => TInv
BY Constants, LeftBounds DEF Init, TInv, TypeOK, Phases, Replies

LEMMA EnterType ==
    ASSUME TypeOK, NEW r \in Runs, NEW p \in Phases, NEW t \in 0..MaxLeft, Enter(r, p, t)
    PROVE  /\ phase' \in [Runs -> Phases] /\ left' \in [Runs -> 0..MaxLeft]
           /\ phase'[r] = p /\ left'[r] = t
           /\ \A q \in Runs \ {r} : phase'[q] = phase[q] /\ left'[q] = left[q]
BY DEF TypeOK, Enter

LEMMA NextType == TInv /\ [Next]_vars => TInv'
<1> SUFFICES ASSUME TInv, [Next]_vars PROVE TInv'
  OBVIOUS
<1>a. TypeOK
  BY DEF TInv
<1> USE Constants, LeftBounds
<1>1. ASSUME NEW r \in Runs, NEW s \in Shows, NEW f \in BOOLEAN, Post(r, s, f) PROVE TInv'
  <2>1. JobID(s) \in Jobs
    BY JobOf
  <2>2. /\ phase' \in [Runs -> Phases] /\ left' \in [Runs -> 0..MaxLeft]
        /\ phase'[r] = "claimed"
        /\ \A q \in Runs \ {r} : phase'[q] = phase[q] /\ left'[q] = left[q]
    BY <1>1, <1>a, EnterType DEF Post, Phases
  <2>3. /\ rowStatus' \in [Jobs -> {"absent", "pending", "ready", "failed"}]
        /\ rowAge' \in [Jobs -> 0..(StaleAfter + 1)] /\ rowRun' \in [Jobs -> Replies]
        /\ job' \in [Runs -> Jobs \cup {None}] /\ force' \in [Runs -> BOOLEAN]
        /\ \A q \in Runs : phase'[q] # "free" => job'[q] \in Jobs
    BY <1>1, <1>a, <2>1, <2>2 DEF Post, TypeOK, Replies
  <2> QED
    BY <1>1, <2>2, <2>3 DEF Post, TInv, TypeOK, lambdaVars, objects
<1>2. ASSUME NEW r \in Runs, ClaimLost(r) \/ Mark(r) \/ MarkLost(r) PROVE TInv'
  <2>1. Enter(r, "over", 0) /\ UNCHANGED <<userExists, job, force, result, lambdaVars, objects>>
        /\ phase[r] # "free"
    BY <1>2 DEF ClaimLost, Mark, MarkLost
  <2>2. /\ phase' \in [Runs -> Phases] /\ left' \in [Runs -> 0..MaxLeft]
        /\ phase'[r] = "over"
        /\ \A q \in Runs \ {r} : phase'[q] = phase[q] /\ left'[q] = left[q]
    BY <2>1, <1>a, EnterType DEF Phases
  <2>3. faults' \in 0..MaxFaults
    BY <1>2, <1>a DEF ClaimLost, Mark, MarkLost, FaultUnless, Fault, TypeOK
  <2>4. /\ rowStatus' \in [Jobs -> {"absent", "pending", "ready", "failed"}]
        /\ rowAge' \in [Jobs -> 0..(StaleAfter + 1)] /\ rowRun' \in [Jobs -> Replies]
    <3>1. CASE UNCHANGED rowVars
      BY <3>1, <1>a DEF rowVars, TypeOK
    <3>2. CASE Mark(r) /\ ~UNCHANGED rowVars
      <4>1. result[r] \in Replies
        BY <1>a DEF TypeOK
      <4> QED
        BY <3>2, <4>1, <1>a DEF Mark, Marked, TypeOK
    <3> QED
      BY <1>2, <3>1, <3>2 DEF ClaimLost, MarkLost
  <2> QED
    BY <2>1, <2>2, <2>3, <2>4 DEF TInv, TypeOK, lambdaVars, objects
<1>3. ASSUME NEW r \in Runs, Launch(r) PROVE TInv'
  <2>1. /\ phase' \in [Runs -> Phases] /\ left' \in [Runs -> 0..MaxLeft]
        /\ phase'[r] = "creds" /\ left'[r] = CredsTimeout
        /\ \A q \in Runs \ {r} : phase'[q] = phase[q] /\ left'[q] = left[q]
    BY <1>3, <1>a, EnterType DEF Launch, Phases
  <2> QED
    BY <1>3, <2>1 DEF Launch, TInv, TypeOK, rowVars, lambdaVars, objects
<1>4. ASSUME NEW r \in Runs, Send(r) PROVE TInv'
  <2> DEFINE t == Min2(HttpTimeout, GenTimeout - (CredsTimeout - left[r]))
  <2>1. t \in 0..MaxLeft
    BY <1>4 DEF Send, TInv, TypeOK
  <2>2. /\ phase' \in [Runs -> Phases] /\ left' \in [Runs -> 0..MaxLeft]
        /\ phase'[r] = "sent"
        /\ \A q \in Runs \ {r} : phase'[q] = phase[q] /\ left'[q] = left[q]
    BY <1>4, <1>a, <2>1, EnterType DEF Send, Phases
  <2>3. /\ lambda' \in [Runs -> {"none", "find", "work", "json", "replied", "dead"}]
        /\ \A q \in Runs \ {r} : lambda'[q] = lambda[q]
        /\ lambdaLeft' \in [Runs -> 0..LambdaTimeout]
    BY <1>4, <1>a DEF Send, TypeOK
  <2>4. \A q \in Runs :
           /\ phase'[q] # "free" => job[q] \in Jobs
           /\ phase'[q] = "free" => lambda'[q] = "none"
           /\ phase'[q] = "creds" => left'[q] <= CredsTimeout
    BY <1>4, <1>a, <2>2, <2>3 DEF Send, TInv, TypeOK
  <2>5. UNCHANGED <<userExists, rowVars, job, force, result, lambdaOut, objects, faults>>
    BY <1>4 DEF Send
  <2> HIDE Constants, LeftBounds
  <2>6. TypeOK'
    BY <1>a, <2>2, <2>3, <2>4, <2>5 DEF TypeOK, rowVars, objects
  <2> QED
    BY <2>4, <2>6 DEF TInv
<1>5. ASSUME NEW r \in Runs, Answered(r) \/ AnsweredBadKey(r) \/ CallFails(r) PROVE TInv'
  <2>1. PICK out \in Replies : GotReply(r, out)
    BY <1>5, <1>a DEF Answered, AnsweredBadKey, CallFails, TypeOK, Replies
  <2>2. /\ phase' \in [Runs -> Phases] /\ left' \in [Runs -> 0..MaxLeft]
        /\ phase'[r] = "mark"
        /\ \A q \in Runs \ {r} : phase'[q] = phase[q] /\ left'[q] = left[q]
    BY <2>1, <1>a, EnterType DEF GotReply, Phases
  <2>3. result' \in [Runs -> Replies]
    BY <2>1, <1>a DEF GotReply, Validated, Replies, TypeOK
  <2>4. faults' \in 0..MaxFaults /\ phase[r] # "free"
    BY <1>5, <1>a DEF Answered, AnsweredBadKey, CallFails, FaultUnless, Fault, TypeOK
  <2> QED
    BY <2>1, <2>2, <2>3, <2>4 DEF GotReply, TInv, TypeOK, rowVars, lambdaVars, objects
<1>6. ASSUME NEW r \in Runs, LambdaStep(r) PROVE TInv'
  <2>1. phase[r] # "free" /\ job[r] \in Jobs /\ Key(r) \in Keys
    BY <1>6, <1>a, KeyOf DEF LambdaStep, FindHit, FindMiss, FindFails, WorkFails, PutPng,
          PutSidecar, LambdaDies, LambdaGoto, Running, Key, TypeOK
  <2>2. /\ lambda' \in [Runs -> {"none", "find", "work", "json", "replied", "dead"}]
        /\ \A q \in Runs \ {r} : lambda'[q] = lambda[q]
        /\ lambdaOut' \in [Runs -> Replies] /\ UNCHANGED lambdaLeft
    BY <1>6, <1>a, <2>1 DEF LambdaStep, FindHit, FindMiss, FindFails, WorkFails, PutPng,
          PutSidecar, LambdaDies, LambdaGoto, Reply, TypeOK, Replies
  <2>3. png' \in [Keys -> Runs \cup {None}] /\ sidecar' \in [Keys -> Runs \cup {None}]
    BY <1>6, <1>a, <2>1 DEF LambdaStep, FindHit, FindMiss, FindFails, WorkFails, PutPng,
          PutSidecar, LambdaDies, objects, TypeOK
  <2>4. faults' \in 0..MaxFaults
    BY <1>6, <1>a DEF LambdaStep, FindHit, FindMiss, FindFails, WorkFails, PutPng,
          PutSidecar, LambdaDies, FaultUnless, Fault, TypeOK
  <2>5. UNCHANGED <<userExists, rowVars, runVars>>
    BY <1>6 DEF LambdaStep, FindHit, FindMiss, FindFails, WorkFails, PutPng,
          PutSidecar, LambdaDies, OnlyLambda
  <2> QED
    BY <2>1, <2>2, <2>3, <2>4, <2>5 DEF TInv, TypeOK, rowVars, runVars
<1>7. ASSUME NEW R \in SUBSET Runs, Crash(R) PROVE TInv'
  <2>1. phase' \in [Runs -> Phases]
        /\ \A q \in Runs : phase'[q] = phase[q] \/ (phase[q] # "free" /\ phase'[q] = "over")
    BY <1>7, <1>a DEF Crash, Live, TypeOK, Phases
  <2> QED
    BY <1>7, <2>1 DEF Crash, Fault, TInv, TypeOK, rowVars, lambdaVars, objects
<1>8. ASSUME DeleteUser PROVE TInv'
  BY <1>8 DEF DeleteUser, TInv, TypeOK, runVars, lambdaVars, objects, Replies
<1>9. ASSUME Tick PROVE TInv'
  <2>1. rowAge' \in [Jobs -> 0..(StaleAfter + 1)]
    BY <1>9 DEF Tick, Stale, TInv, TypeOK
  <2>2. left' \in [Runs -> 0..MaxLeft] /\ lambdaLeft' \in [Runs -> 0..LambdaTimeout]
        /\ \A r \in Runs : left'[r] <= left[r]
    <3>1. \A r \in Runs : left[r] \in Nat /\ left[r] <= MaxLeft
                         /\ lambdaLeft[r] \in Nat /\ lambdaLeft[r] <= LambdaTimeout
      BY <1>a DEF TypeOK
    <3>2. \A r \in Runs : Less1(left[r]) \in 0..MaxLeft /\ Less1(left[r]) <= left[r]
                         /\ Less1(lambdaLeft[r]) \in 0..LambdaTimeout
      BY <3>1, Less1Facts
    <3> QED BY <1>9, <3>2 DEF Tick
  <2> QED
    BY <1>9, <2>1, <2>2 DEF Tick, TInv, TypeOK, objects
<1>10. ASSUME UNCHANGED vars PROVE TInv'
  BY <1>10 DEF vars, rowVars, runVars, lambdaVars, objects, TInv, TypeOK
<1> QED
  BY <1>1, <1>2, <1>3, <1>4, <1>5, <1>6, <1>7, <1>8, <1>9, <1>10 DEF Next, RunStep

(* Every variable keeps its type: no phase is ever given more time than    *)
(* its budget, and a run that has begun is always a run for some job.      *)
THEOREM PosterType == Spec => []TypeOK
<1>1. TInv => TypeOK
  BY DEF TInv
<1> QED
  BY <1>1, InitType, NextType, PTL DEF Spec
-----------------------------------------------------------------------------
(* Deletion.                                                               *)

LEMMA DeletedStep ==
    ASSUME TInv, DeletedStaysGone, [Next]_vars
    PROVE  DeletedStaysGone'
<1>a. TypeOK
  BY DEF TInv
<1>1. ASSUME NEW r \in Runs, NEW s \in Shows, NEW f \in BOOLEAN, Post(r, s, f)
      PROVE  DeletedStaysGone'
  BY <1>1 DEF Post, DeletedStaysGone
<1>2. ASSUME NEW r \in Runs, Mark(r) PROVE DeletedStaysGone'
  <2>1. job[r] \in Jobs
    BY <1>2, <1>a DEF Mark, TypeOK
  <2> QED
    BY <1>2, <2>1 DEF Mark, Marked, rowVars, DeletedStaysGone
<1>3. ASSUME DeleteUser PROVE DeletedStaysGone'
  BY <1>3 DEF DeleteUser, DeletedStaysGone
<1>4. ASSUME UNCHANGED <<userExists, rowStatus>> PROVE DeletedStaysGone'
  BY <1>4 DEF DeletedStaysGone
<1>5. ASSUME NEW r \in Runs, RunStep(r), ~Mark(r) PROVE UNCHANGED <<userExists, rowStatus>>
  BY <1>5 DEF RunStep, ClaimLost, Launch, Send, Answered, AnsweredBadKey, CallFails,
              GotReply, MarkLost, rowVars
<1>6. ASSUME NEW r \in Runs, LambdaStep(r) PROVE UNCHANGED <<userExists, rowStatus>>
  BY <1>6 DEF LambdaStep, FindHit, FindMiss, FindFails, WorkFails, PutPng, PutSidecar,
              LambdaDies, OnlyLambda, rowVars
<1>7. ASSUME (\E R \in SUBSET Runs : Crash(R)) \/ Tick \/ UNCHANGED vars
      PROVE  UNCHANGED <<userExists, rowStatus>>
  BY <1>7 DEF Crash, Tick, vars, rowVars
<1> QED
  BY <1>1, <1>2, <1>3, <1>4, <1>5, <1>6, <1>7 DEF Next

(* Whatever goroutines were under way when the user was deleted, none of   *)
(* their status writes brings a job row back.                              *)
THEOREM NoResurrection == Spec => []DeletedStaysGone
<1>1. Init => DeletedStaysGone
  BY DEF Init, DeletedStaysGone
<1>2. TInv /\ DeletedStaysGone /\ [Next]_vars => DeletedStaysGone'
  BY DeletedStep
<1> QED
  BY <1>1, <1>2, InitType, NextType, PTL DEF Spec
-----------------------------------------------------------------------------
(***************************************************************************)
(* Objects.  The argument: a png object is never removed, and whatever     *)
(* names a run to serve (a sidecar, a reply, a row) came after its png.    *)
(***************************************************************************)
HasPng(j) == png[KeyBase(j)] # None

Backed ==
    /\ \A k \in Keys : sidecar[k] # None => png[k] # None
    /\ \A r \in Runs : lambda[r] = "json" => HasPng(job[r])
    /\ \A r \in Runs : lambda[r] = "replied" /\ lambdaOut[r] \in Runs => HasPng(job[r])
    /\ \A r \in Runs : phase[r] = "mark" => result[r] # BadKey
                       /\ (result[r] \in Runs => HasPng(job[r]))
    /\ \A j \in Jobs : rowStatus[j] = "ready" => rowRun[j] \in Runs /\ HasPng(j)

OInv == TInv /\ Backed

LEMMA NextBacked ==
    ASSUME OInv, [Next]_vars
    PROVE  Backed'
<1>a. TypeOK /\ Backed
  BY DEF OInv, TInv
<1> USE Constants
<1>1. ASSUME NEW r \in Runs, NEW s \in Shows, NEW f \in BOOLEAN, Post(r, s, f) PROVE Backed'
  <2>1. /\ \A q \in Runs \ {r} : phase'[q] = phase[q] /\ job'[q] = job[q]
        /\ phase'[r] = "claimed" /\ lambda[r] = "none"
        /\ \A j \in Jobs : rowStatus'[j] = "ready" =>
              rowStatus[j] = "ready" /\ rowRun'[j] = rowRun[j]
        /\ UNCHANGED <<result, lambda, lambdaOut, png, sidecar>>
    BY <1>1, <1>a, JobOf DEF Post, Enter, TypeOK, lambdaVars, objects
  <2> QED
    BY <1>a, <2>1 DEF Backed, HasPng
<1>2. ASSUME NEW r \in Runs, Answered(r) \/ AnsweredBadKey(r) \/ CallFails(r) PROVE Backed'
  <2>1. PICK out \in Replies : GotReply(r, out) /\ (out \in Runs => HasPng(job[r]))
    BY <1>2, <1>a DEF Answered, AnsweredBadKey, CallFails, TypeOK, Replies, Backed
  <2>2. /\ \A q \in Runs \ {r} : phase'[q] = phase[q] /\ result'[q] = result[q]
        /\ result'[r] = Validated(out)
        /\ UNCHANGED <<rowStatus, rowRun, job, lambda, lambdaOut, png, sidecar>>
    BY <2>1, <1>a DEF GotReply, Enter, TypeOK, rowVars, lambdaVars, objects
  <2> QED
    BY <1>a, <2>1, <2>2 DEF Backed, HasPng, Validated
<1>3. ASSUME NEW r \in Runs, Mark(r) PROVE Backed'
  <2>1. job[r] \in Jobs /\ result[r] \in Replies
    BY <1>3, <1>a DEF Mark, TypeOK
  <2>2. /\ \A q \in Runs : phase'[q] = "mark" => phase[q] = "mark"
        /\ UNCHANGED <<job, result, lambda, lambdaOut, png, sidecar>>
    BY <1>3, <1>a DEF Mark, Enter, TypeOK, lambdaVars, objects
  <2>3. \A j \in Jobs : rowStatus'[j] = "ready" => rowRun'[j] \in Runs /\ HasPng(j)
    BY <1>3, <1>a, <2>1 DEF Mark, Marked, rowVars, Backed, TypeOK, Replies
  <2> QED
    BY <1>a, <2>2, <2>3 DEF Backed, HasPng
<1>4. ASSUME NEW r \in Runs, ClaimLost(r) \/ Launch(r) \/ MarkLost(r) PROVE Backed'
  <2>1. /\ \A q \in Runs : phase'[q] = "mark" => phase[q] = "mark"
        /\ UNCHANGED <<rowStatus, rowRun, job, result, lambda, lambdaOut, png, sidecar>>
    BY <1>4, <1>a DEF ClaimLost, Launch, MarkLost, Enter, TypeOK, rowVars, lambdaVars, objects
  <2> QED
    BY <1>a, <2>1 DEF Backed, HasPng
<1>5. ASSUME NEW r \in Runs, Send(r) PROVE Backed'
  <2>1. /\ \A q \in Runs : phase'[q] = "mark" => phase[q] = "mark"
        /\ \A q \in Runs : lambda'[q] \in {"json", "replied"} => lambda'[q] = lambda[q]
        /\ UNCHANGED <<rowStatus, rowRun, job, result, lambdaOut, png, sidecar>>
    BY <1>5, <1>a DEF Send, Enter, TypeOK, rowVars, objects
  <2> QED
    BY <1>a, <2>1 DEF Backed, HasPng
<1>6. ASSUME NEW r \in Runs, LambdaStep(r) PROVE Backed'
  <2>1. phase[r] # "free" /\ job[r] \in Jobs /\ Key(r) \in Keys
    BY <1>6, <1>a, KeyOf DEF LambdaStep, FindHit, FindMiss, FindFails, WorkFails, PutPng,
          PutSidecar, LambdaDies, LambdaGoto, Running, Key, TypeOK
  <2>2. UNCHANGED <<rowStatus, rowRun, phase, job, result>>
    BY <1>6 DEF LambdaStep, FindHit, FindMiss, FindFails, WorkFails, PutPng,
          PutSidecar, LambdaDies, OnlyLambda, rowVars, runVars
  <2>3. \A k \in Keys : png[k] # None => png'[k] # None
    BY <1>6, <1>a DEF LambdaStep, FindHit, FindMiss, FindFails, WorkFails, PutPng,
          PutSidecar, LambdaDies, objects, TypeOK
  <2>4. \A q \in Runs \ {r} : lambda'[q] = lambda[q] /\ lambdaOut'[q] = lambdaOut[q]
    BY <1>6, <1>a DEF LambdaStep, FindHit, FindMiss, FindFails, WorkFails, PutPng,
          PutSidecar, LambdaDies, LambdaGoto, Reply, TypeOK
  <2>5. lambda'[r] = "json" => png'[Key(r)] # None
    BY <1>6, <1>a, <2>1 DEF LambdaStep, FindHit, FindMiss, FindFails, WorkFails, PutPng,
          PutSidecar, LambdaDies, LambdaGoto, Reply, TypeOK
  <2>6. lambda'[r] = "replied" /\ lambdaOut'[r] \in Runs => png'[Key(r)] # None
    BY <1>6, <1>a, <2>1 DEF LambdaStep, FindHit, FindMiss, FindFails, WorkFails, PutPng,
          PutSidecar, LambdaDies, LambdaGoto, Reply, TypeOK, Backed, objects, HasPng, Key
  <2>7. \A k \in Keys : sidecar'[k] # None => sidecar[k] # None \/ (k = Key(r) /\ png'[k] # None)
    BY <1>6, <1>a, <2>1 DEF LambdaStep, FindHit, FindMiss, FindFails, WorkFails, PutPng,
          PutSidecar, LambdaDies, objects, TypeOK, Backed, HasPng, Key
  <2>8. \A q \in Runs : phase[q] # "free" => KeyBase(job[q]) \in Keys
    BY <1>a, KeyOf DEF TypeOK
  <2>9. \A q \in Runs : lambda[q] # "none" => phase[q] # "free"
    BY <1>a DEF TypeOK
  <2> QED
    BY <1>a, <2>2, <2>3, <2>4, <2>5, <2>6, <2>7, <2>8, <2>9, KeyOf DEF Backed, HasPng, Key
<1>7. ASSUME NEW R \in SUBSET Runs, Crash(R) PROVE Backed'
  <2>1. /\ \A q \in Runs : phase'[q] = "mark" => phase[q] = "mark"
        /\ UNCHANGED <<rowStatus, rowRun, job, result, lambda, lambdaOut, png, sidecar>>
    BY <1>7 DEF Crash, rowVars, lambdaVars, objects
  <2> QED
    BY <1>a, <2>1 DEF Backed, HasPng
<1>8. ASSUME DeleteUser PROVE Backed'
  BY <1>8, <1>a DEF DeleteUser, runVars, lambdaVars, objects, Backed, HasPng
<1>9. ASSUME Tick \/ UNCHANGED vars PROVE Backed'
  BY <1>9, <1>a DEF Tick, vars, rowVars, runVars, lambdaVars, objects, Backed, HasPng
<1> QED
  BY <1>1, <1>2, <1>3, <1>4, <1>5, <1>6, <1>7, <1>8, <1>9 DEF Next, RunStep

LEMMA ObjectsInv == Spec => []OInv
<1>1. Init => OInv
  BY InitType, Constants DEF Init, OInv, Backed
<1>2. OInv /\ [Next]_vars => OInv'
  BY NextType, NextBacked DEF OInv
<1> QED
  BY <1>1, <1>2, PTL DEF Spec

(* Whatever dies between the two uploads, and however runs interleave on   *)
(* one key, a sidecar that find may hit on has a png beside it.            *)
THEOREM SidecarHasPng == Spec => []SidecarMeansPng
<1>1. OInv => SidecarMeansPng
  BY DEF OInv, Backed, SidecarMeansPng
<1> QED
  BY <1>1, ObjectsInv, PTL

(* Every ready row names a key that GetPoster can presign and that has a   *)
(* png under it.                                                           *)
THEOREM ReadyRowsServable == Spec => []ReadyIsServable
<1>1. OInv => ReadyIsServable
  BY DEF OInv, Backed, HasPng, ReadyIsServable
<1> QED
  BY <1>1, ObjectsInv, PTL
-----------------------------------------------------------------------------
(***************************************************************************)
(* One run per job.  The argument: while a run lives, the row it claimed   *)
(* stays pending, and the row's age and the time the run may still take    *)
(* add up to at most StaleAfter; so no claim is won beside it.             *)
(***************************************************************************)

\* The longest a run can take from its claim to its status write.
FitsStale ==
    2 * DbTimeout + Min2(CredsTimeout + HttpTimeout, GenTimeout) <= StaleAfter

\* The time run r may still take.
Remaining(r) ==
    CASE phase[r] = "claimed" -> left[r] + Min2(CredsTimeout + HttpTimeout, GenTimeout) + DbTimeout
      [] phase[r] = "creds"   -> left[r] + Min2(HttpTimeout, GenTimeout - CredsTimeout) + DbTimeout
      [] phase[r] = "sent"    -> left[r] + DbTimeout
      [] phase[r] = "mark"    -> left[r]
      [] OTHER -> 0

Holding(r) == Live(r) /\ userExists =>
                 /\ rowStatus[job[r]] = "pending"
                 /\ rowAge[job[r]] + Remaining(r) <= StaleAfter

ClaimInv == /\ TInv
            /\ OneRunPerJob
            /\ \A r \in Runs : Holding(r)

LEMMA RemainingNat == ASSUME TInv, NEW r \in Runs PROVE Remaining(r) \in Nat /\ left[r] \in Nat
<1>1. left[r] \in Nat /\ phase[r] \in Phases
  BY LeftBounds DEF TInv, TypeOK
<1> QED
  BY <1>1, Constants DEF Remaining, Phases, Min2

\* A step of one live run that leaves the rows and the other runs alone and
\* does not add to the time the run may still take.
LEMMA OneRunMoves ==
    ASSUME ClaimInv, TInv', NEW r \in Runs, Live(r),
           \A q \in Runs \ {r} : phase'[q] = phase[q] /\ left'[q] = left[q],
           Live(r)' => Remaining(r)' <= Remaining(r),
           UNCHANGED <<userExists, rowStatus, rowAge, job>>
    PROVE  OneRunPerJob' /\ \A q \in Runs : Holding(q)'
<1>a. TypeOK
  BY DEF ClaimInv, TInv
<1>1. \A q \in Runs : Live(q)' => Live(q)
  BY DEF Live
<1>2. OneRunPerJob'
  BY <1>1 DEF ClaimInv, OneRunPerJob
<1>3. ASSUME NEW q \in Runs, q # r PROVE Holding(q)'
  BY <1>3 DEF ClaimInv, Holding, Live, Remaining
<1>4. Holding(r)'
  <2> SUFFICES ASSUME Live(r)', userExists
               PROVE  rowStatus[job[r]] = "pending"
                      /\ rowAge[job[r]] + Remaining(r)' <= StaleAfter
    BY DEF Holding
  <2>1. rowStatus[job[r]] = "pending" /\ rowAge[job[r]] + Remaining(r) <= StaleAfter
    BY DEF ClaimInv, Holding
  <2>2. Remaining(r) \in Nat /\ Remaining(r)' \in Nat
    <3>1. left'[r] \in Nat /\ phase'[r] \in Phases
      BY LeftBounds DEF TInv, TypeOK
    <3>2. Remaining(r)' \in Nat
      BY <3>1, Constants DEF Remaining, Phases, Min2
    <3> QED BY <3>2, RemainingNat DEF ClaimInv
  <2>3. rowAge[job[r]] \in Nat
    <3>1. job[r] \in Jobs
      BY <1>a DEF Live, TypeOK
    <3> QED BY <3>1, <1>a, Constants DEF TypeOK
  <2> QED
    BY <2>1, <2>2, <2>3, Constants
<1> QED
  BY <1>2, <1>3, <1>4

LEMMA NextClaim ==
    ASSUME FitsStale, ClaimInv, [Next]_vars
    PROVE  ClaimInv'
<1>a. TInv /\ TypeOK /\ TInv'
  BY NextType DEF ClaimInv, TInv
<1> USE Constants
<1>1. ASSUME NEW r \in Runs, NEW s \in Shows, NEW f \in BOOLEAN, Post(r, s, f)
      PROVE  OneRunPerJob' /\ \A q \in Runs : Holding(q)'
  <2> DEFINE j == JobID(s)
  <2>0. j \in Jobs /\ phase[r] = "free" /\ userExists /\ userExists'
    BY <1>1, JobOf DEF Post
  <2>1. \A q \in Runs : Live(q) => q # r /\ job[q] # j
    <3> SUFFICES ASSUME NEW q \in Runs, Live(q), job[q] = j PROVE FALSE
      BY <2>0 DEF Live
    <3>1. rowStatus[j] = "pending" /\ rowAge[j] + Remaining(q) <= StaleAfter
      BY <2>0 DEF ClaimInv, Holding
    <3>2. rowAge[j] \in Nat /\ Remaining(q) \in Nat
      BY <2>0, <1>a, RemainingNat DEF TypeOK
    <3>3. ~Stale(j)
      BY <3>1, <3>2 DEF Stale
    <3> QED BY <1>1, <3>1, <3>3 DEF Post, Claimable
  <2>2. /\ phase'[r] = "claimed" /\ left'[r] = DbTimeout /\ job'[r] = j
        /\ \A q \in Runs \ {r} : phase'[q] = phase[q] /\ left'[q] = left[q] /\ job'[q] = job[q]
        /\ rowStatus'[j] = "pending" /\ rowAge'[j] = 0
        /\ \A k \in Jobs \ {j} : rowStatus'[k] = rowStatus[k] /\ rowAge'[k] = rowAge[k]
    BY <1>1, <2>0, <1>a DEF Post, Enter, TypeOK
  <2>3. \A q \in Runs : Live(q)' <=> Live(q) \/ q = r
    BY <2>2 DEF Live
  <2>4. OneRunPerJob'
    BY <2>1, <2>2, <2>3 DEF ClaimInv, OneRunPerJob
  <2>5. ASSUME NEW q \in Runs, q # r PROVE Holding(q)'
    <3>1. Live(q) => job[q] \in Jobs \ {j}
      BY <2>1, <1>a DEF Live, TypeOK
    <3>2. Remaining(q)' = Remaining(q)
      BY <2>2, <2>5 DEF Remaining
    <3> QED
      BY <2>0, <2>2, <2>3, <2>5, <3>1, <3>2 DEF ClaimInv, Holding
  <2>6. Holding(r)'
    <3>1. Remaining(r)' = DbTimeout + Min2(CredsTimeout + HttpTimeout, GenTimeout) + DbTimeout
      BY <2>2 DEF Remaining
    <3>2. Min2(CredsTimeout + HttpTimeout, GenTimeout) \in Nat
      BY DEF Min2
    <3>3. 0 + Remaining(r)' <= StaleAfter
      BY <3>1, <3>2 DEF FitsStale
    <3> QED BY <2>2, <3>3 DEF Holding
  <2> QED
    BY <2>4, <2>5, <2>6
<1>2. ASSUME NEW r \in Runs, ClaimLost(r) \/ MarkLost(r)
      PROVE  OneRunPerJob' /\ \A q \in Runs : Holding(q)'
  <2>1. /\ \A q \in Runs \ {r} : phase'[q] = phase[q] /\ left'[q] = left[q]
        /\ phase'[r] = "over" /\ Live(r)
        /\ UNCHANGED <<userExists, rowStatus, rowAge, job>>
    BY <1>2, <1>a DEF ClaimLost, MarkLost, Enter, Live, TypeOK, rowVars
  <2>2. ~Live(r)'
    BY <2>1 DEF Live
  <2> QED
    BY <1>a, <2>1, <2>2, OneRunMoves
<1>3. ASSUME NEW r \in Runs, Launch(r)
      PROVE  OneRunPerJob' /\ \A q \in Runs : Holding(q)'
  <2>1. /\ \A q \in Runs \ {r} : phase'[q] = phase[q] /\ left'[q] = left[q]
        /\ phase[r] = "claimed" /\ phase'[r] = "creds" /\ left'[r] = CredsTimeout
        /\ UNCHANGED <<userExists, rowStatus, rowAge, job>>
    BY <1>3, <1>a DEF Launch, Enter, TypeOK, rowVars
  <2>2. Live(r) /\ left[r] \in Nat
    BY <2>1, <1>a, RemainingNat DEF Live
  <2>3. Remaining(r)' <= Remaining(r)
    BY <2>1, <2>2 DEF Remaining, Min2
  <2> QED
    BY <1>a, <2>1, <2>2, <2>3, OneRunMoves
<1>4. ASSUME NEW r \in Runs, Send(r)
      PROVE  OneRunPerJob' /\ \A q \in Runs : Holding(q)'
  <2>1. /\ \A q \in Runs \ {r} : phase'[q] = phase[q] /\ left'[q] = left[q]
        /\ phase[r] = "creds" /\ phase'[r] = "sent"
        /\ left'[r] = Min2(HttpTimeout, GenTimeout - (CredsTimeout - left[r]))
        /\ UNCHANGED <<userExists, rowStatus, rowAge, job>>
    BY <1>4, <1>a DEF Send, Enter, TypeOK, rowVars
  <2>2. Live(r) /\ left[r] \in Nat /\ left[r] <= CredsTimeout
    BY <2>1, <1>a, RemainingNat DEF Live, TInv
  <2>3. Remaining(r)' <= Remaining(r)
    BY <2>1, <2>2 DEF Remaining, Min2
  <2> QED
    BY <1>a, <2>1, <2>2, <2>3, OneRunMoves
<1>5. ASSUME NEW r \in Runs, Answered(r) \/ AnsweredBadKey(r) \/ CallFails(r)
      PROVE  OneRunPerJob' /\ \A q \in Runs : Holding(q)'
  <2>1. /\ \A q \in Runs \ {r} : phase'[q] = phase[q] /\ left'[q] = left[q]
        /\ phase[r] \in {"creds", "sent"} /\ phase'[r] = "mark" /\ left'[r] = DbTimeout
        /\ UNCHANGED <<userExists, rowStatus, rowAge, job>>
    BY <1>5, <1>a DEF Answered, AnsweredBadKey, CallFails, GotReply, Enter, TypeOK, rowVars
  <2>2. Live(r) /\ left[r] \in Nat
    BY <2>1, <1>a, RemainingNat DEF Live
  <2>3. Remaining(r)' <= Remaining(r)
    BY <2>1, <2>2 DEF Remaining, Min2
  <2> QED
    BY <1>a, <2>1, <2>2, <2>3, OneRunMoves
<1>6. ASSUME NEW r \in Runs, Mark(r)
      PROVE  OneRunPerJob' /\ \A q \in Runs : Holding(q)'
  <2>1. /\ \A q \in Runs \ {r} : phase'[q] = phase[q] /\ left'[q] = left[q]
        /\ phase'[r] = "over" /\ Live(r) /\ job[r] \in Jobs
        /\ \A k \in Jobs \ {job[r]} : rowStatus'[k] = rowStatus[k] /\ rowAge'[k] = rowAge[k]
        /\ UNCHANGED <<userExists, job>>
    BY <1>6, <1>a DEF Mark, Marked, Enter, Live, TypeOK, rowVars
  <2>2. ~Live(r)' /\ \A q \in Runs : Live(q)' => Live(q)
    BY <2>1 DEF Live
  <2>3. ASSUME NEW q \in Runs PROVE Holding(q)'
    <3> SUFFICES ASSUME Live(q)', userExists' PROVE Holding(q)'
      BY DEF Holding
    <3>1. q # r /\ Live(q)
      BY <2>2
    <3>2. job[q] \in Jobs \ {job[r]}
      BY <2>1, <3>1, <1>a DEF ClaimInv, OneRunPerJob, Live, TypeOK
    <3>3. Remaining(q)' = Remaining(q)
      BY <2>1, <3>1 DEF Remaining
    <3> QED
      BY <2>1, <3>1, <3>2, <3>3 DEF ClaimInv, Holding
  <2> QED
    BY <2>1, <2>2, <2>3 DEF ClaimInv, OneRunPerJob
<1>7. ASSUME NEW r \in Runs, LambdaStep(r)
      PROVE  OneRunPerJob' /\ \A q \in Runs : Holding(q)'
  <2>1. UNCHANGED <<userExists, rowVars, runVars>>
    BY <1>7 DEF LambdaStep, FindHit, FindMiss, FindFails, WorkFails, PutPng,
          PutSidecar, LambdaDies, OnlyLambda
  <2> QED
    BY <2>1 DEF rowVars, runVars, ClaimInv, OneRunPerJob, Holding, Live, Remaining
<1>8. ASSUME NEW R \in SUBSET Runs, Crash(R)
      PROVE  OneRunPerJob' /\ \A q \in Runs : Holding(q)'
  <2>1. /\ \A q \in Runs : Live(q)' => Live(q) /\ phase'[q] = phase[q]
        /\ UNCHANGED <<userExists, rowStatus, rowAge, job, left>>
    BY <1>8 DEF Crash, Live, rowVars
  <2>2. \A q \in Runs : Live(q)' => Remaining(q)' = Remaining(q)
    BY <2>1 DEF Remaining
  <2> QED
    BY <2>1, <2>2 DEF ClaimInv, OneRunPerJob, Holding
<1>9. ASSUME DeleteUser
      PROVE  OneRunPerJob' /\ \A q \in Runs : Holding(q)'
  BY <1>9 DEF DeleteUser, runVars, ClaimInv, OneRunPerJob, Holding, Live
<1>10. ASSUME Tick
      PROVE  OneRunPerJob' /\ \A q \in Runs : Holding(q)'
  <2>1. UNCHANGED <<userExists, rowStatus, phase, job>>
    BY <1>10 DEF Tick
  <2>2. ASSUME NEW q \in Runs, Live(q), userExists PROVE Holding(q)'
    <3>1. rowStatus[job[q]] = "pending" /\ rowAge[job[q]] + Remaining(q) <= StaleAfter
      BY <2>2 DEF ClaimInv, Holding
    <3>2. left[q] \in Nat /\ left[q] > 0 /\ left'[q] = left[q] - 1
      BY <1>10, <2>2, <1>a, RemainingNat DEF Tick, Less1
    <3>3. Remaining(q)' = Remaining(q) - 1 /\ Remaining(q) \in Nat
      BY <2>1, <2>2, <3>2, <1>a, RemainingNat DEF Remaining, Live, Min2
    <3>4. job[q] \in Jobs /\ rowAge[job[q]] \in Nat
      BY <2>2, <1>a DEF Live, TypeOK
    <3>5. rowAge'[job[q]] <= rowAge[job[q]] + 1 /\ rowAge'[job[q]] \in Nat
      BY <1>10, <3>4 DEF Tick
    <3> QED
      BY <2>1, <3>1, <3>3, <3>4, <3>5 DEF Holding
  <2> QED
    BY <2>1, <2>2 DEF ClaimInv, OneRunPerJob, Holding, Live
<1>11. ASSUME UNCHANGED vars
      PROVE  OneRunPerJob' /\ \A q \in Runs : Holding(q)'
  BY <1>11 DEF vars, rowVars, runVars, ClaimInv, OneRunPerJob, Holding, Live, Remaining
<1>12. OneRunPerJob' /\ \A q \in Runs : Holding(q)'
  BY <1>1, <1>2, <1>3, <1>4, <1>5, <1>6, <1>7, <1>8, <1>9, <1>10, <1>11 DEF Next, RunStep
<1> QED
  BY <1>a, <1>12 DEF ClaimInv

(* While claim, call and status write together fit in StaleAfter, no two   *)
(* goroutines ever generate the same job, forced or not, in any task.      *)
THEOREM OneGenerationPerJob == ASSUME FitsStale PROVE Spec => []OneRunPerJob
<1>1. Init => ClaimInv
  BY InitType DEF Init, ClaimInv, OneRunPerJob, Holding, Live
<1>2. ClaimInv /\ [Next]_vars => ClaimInv'
  BY NextClaim
<1>3. ClaimInv => OneRunPerJob
  BY DEF ClaimInv
<1> QED
  BY <1>1, <1>2, <1>3, PTL DEF Spec
=============================================================================
