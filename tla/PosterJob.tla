----------------------------- MODULE PosterJob -----------------------------
(***************************************************************************)
(* Asynchronous poster generation for one user: the poster_jobs row that a *)
(* POST claims (internal/http/handlers/posters.go, poster_jobs.sql), the   *)
(* goroutine that calls the poster Lambda and writes the outcome           *)
(* (startGeneration, internal/poster/client.go), and the Lambda's S3       *)
(* objects (lambda/mastra-handler/src/poster.ts and poster-sink.ts).       *)
(*                                                                         *)
(* A run is one won claim: the goroutine it starts and the one Lambda      *)
(* invocation that goroutine makes.  Each run is used once, so the size    *)
(* of Runs bounds the number of claims.  The clock is discrete.            *)
(***************************************************************************)
EXTENDS Integers

CONSTANTS
    Runs,
    Shows,           \* what a client asks a poster for, see ShowType
    None,            \* no run
    BadKey,          \* a reply whose pngKey ValidateKey rejects
    StaleAfter,      \* stalePendingAfter (code: 6 min)
    DbTimeout,       \* budget of the claim and of each status write (5s)
    CredsTimeout,    \* how long retrieving credentials may take (the code
                     \* bounds it by GenTimeout only)
    HttpTimeout,     \* http.Client.Timeout (310s)
    GenTimeout,      \* defaultGenerateTimeout (6 min)
    LambdaTimeout,   \* the poster function's own cap (300s)
    MaxFaults        \* bound: failures the environment may inject

\* A name is its base letters and its combining marks.
ShowType == [letters: STRING, marks: STRING]

ASSUME PosterAssumption ==
    /\ Shows \subseteq ShowType
    /\ None \notin Runs /\ BadKey \notin Runs /\ None # BadKey
    /\ {StaleAfter, DbTimeout, HttpTimeout, GenTimeout, LambdaTimeout} \subseteq Nat \ {0}
    /\ CredsTimeout \in 1..GenTimeout
    /\ MaxFaults \in Nat

\* poster.JobID digests the trimmed, lower-cased text: marks count.
JobID(s) == [letters |-> s.letters, marks |-> s.marks]
Jobs == {JobID(s) : s \in Shows}

\* posterKeyBase digests the text with its marks stripped (NFKD).
KeyBase(j) == j.letters
Keys == {KeyBase(j) : j \in Jobs}

VARIABLES
    userExists,  \* FALSE once the user row is deleted (the rows cascade)
    rowStatus,   \* rowStatus[j]: absent, pending, ready or failed
    rowAge,      \* ticks since updated_at, up to StaleAfter + 1
    rowRun,      \* the run whose key and credit the row holds
    phase,       \* phase[r]: where run r's handler and goroutine are
    job, force,  \* what run r was claimed for
    left,        \* ticks left in the run's phase
    result,      \* the reply the goroutine is about to write
    lambda,      \* lambda[r]: where run r's invocation is
    lambdaLeft,
    lambdaOut,   \* what the invocation replies
    png,         \* png[k]: the run that wrote the png object, or None
    sidecar,     \* sidecar[k]: the run that wrote the json object, or None
    faults

rowVars == <<rowStatus, rowAge, rowRun>>
runVars == <<phase, job, force, left, result>>
lambdaVars == <<lambda, lambdaLeft, lambdaOut>>
objects == <<png, sidecar>>
vars == <<userExists, rowVars, runVars, lambdaVars, objects, faults>>

Phases == {"free", "claimed", "creds", "sent", "mark", "over"}
Live(r) == phase[r] \in {"claimed", "creds", "sent", "mark"}
Running(r) == lambda[r] \in {"find", "work", "json"}
Max2(a, b) == IF a > b THEN a ELSE b
Min2(a, b) == IF a < b THEN a ELSE b
MaxLeft == Max2(DbTimeout, Max2(CredsTimeout, HttpTimeout))
\* A reply: a run whose png and credit it names, BadKey, or None for a failure.
Replies == Runs \cup {None, BadKey}

TypeOK == /\ userExists \in BOOLEAN
          /\ rowStatus \in [Jobs -> {"absent", "pending", "ready", "failed"}]
          /\ rowAge \in [Jobs -> 0..(StaleAfter + 1)]
          /\ rowRun \in [Jobs -> Replies]
          /\ phase \in [Runs -> Phases]
          /\ job \in [Runs -> Jobs \cup {None}]
          /\ \A r \in Runs : phase[r] # "free" => job[r] \in Jobs
          /\ force \in [Runs -> BOOLEAN]
          /\ left \in [Runs -> 0..MaxLeft]
          /\ result \in [Runs -> Replies]
          /\ lambda \in [Runs -> {"none", "find", "work", "json", "replied", "dead"}]
          /\ \A r \in Runs : phase[r] = "free" => lambda[r] = "none"
          /\ lambdaLeft \in [Runs -> 0..LambdaTimeout]
          /\ lambdaOut \in [Runs -> Replies]
          /\ png \in [Keys -> Runs \cup {None}]
          /\ sidecar \in [Keys -> Runs \cup {None}]
          /\ faults \in 0..MaxFaults

Init == /\ userExists = TRUE
        /\ rowStatus = [j \in Jobs |-> "absent"]
        /\ rowAge = [j \in Jobs |-> 0]
        /\ rowRun = [j \in Jobs |-> None]
        /\ phase = [r \in Runs |-> "free"]
        /\ job = [r \in Runs |-> None]
        /\ force = [r \in Runs |-> FALSE]
        /\ left = [r \in Runs |-> 0]
        /\ result = [r \in Runs |-> None]
        /\ lambda = [r \in Runs |-> "none"]
        /\ lambdaLeft = [r \in Runs |-> 0]
        /\ lambdaOut = [r \in Runs |-> None]
        /\ png = [k \in Keys |-> None]
        /\ sidecar = [k \in Keys |-> None]
        /\ faults = 0

Fault == faults < MaxFaults /\ faults' = faults + 1
\* A deadline needs no injected failure.
FaultUnless(expired) == IF expired THEN UNCHANGED faults ELSE Fault
Enter(r, p, t) == /\ phase' = [phase EXCEPT ![r] = p]
                  /\ left' = [left EXCEPT ![r] = t]
-----------------------------------------------------------------------------
(* CreatePoster.                                                           *)

Stale(j) == rowAge[j] > StaleAfter

\* mutant: force re-claims a pending row too
ClaimableForced(j, f) == \/ rowStatus[j] \in {"absent", "failed"}
                         \/ rowStatus[j] = "pending" /\ (Stale(j) \/ f)
                         \/ rowStatus[j] = "ready" /\ f

\* mutant: a stale pending row is not claimable
ClaimableNoStale(j, f) == \/ rowStatus[j] \in {"absent", "failed"}
                          \/ rowStatus[j] = "ready" /\ f

\* ClaimPosterJob: which rows its INSERT ... ON CONFLICT WHERE accepts.
Claimable(j, f) == \/ rowStatus[j] \in {"absent", "failed"}
                   \/ rowStatus[j] = "pending" /\ Stale(j)
                   \/ rowStatus[j] = "ready" /\ f

\* A POST that wins the claim.  (One that does not changes nothing.)  The
\* row's user_id foreign key refuses a deleted user.
Post(r, s, f) ==
    LET j == JobID(s) IN
    /\ phase[r] = "free"
    /\ userExists
    /\ Claimable(j, f)
    /\ rowStatus' = [rowStatus EXCEPT ![j] = "pending"]
    /\ rowAge' = [rowAge EXCEPT ![j] = 0]
    /\ rowRun' = [rowRun EXCEPT ![j] = None]
    /\ job' = [job EXCEPT ![r] = j]
    /\ force' = [force EXCEPT ![r] = f]
    /\ Enter(r, "claimed", DbTimeout)
    /\ UNCHANGED <<userExists, result, lambdaVars, objects, faults>>

\* The claim committed but its reply did not come back in time: the handler
\* answers 500 and starts nothing.
ClaimLost(r) == /\ phase[r] = "claimed"
                /\ FaultUnless(left[r] = 0)
                /\ Enter(r, "over", 0)
                /\ UNCHANGED <<userExists, rowVars, job, force, result, lambdaVars, objects>>

\* startGeneration: the goroutine begins, with GenTimeout of its own.
Launch(r) == /\ phase[r] = "claimed"
             /\ Enter(r, "creds", CredsTimeout)
             /\ UNCHANGED <<userExists, rowVars, job, force, result, lambdaVars, objects, faults>>

\* mutant: the HTTP client has no timeout of its own
SendNoHttpTimeout(r) ==
    /\ phase[r] = "creds"
    /\ Enter(r, "sent", GenTimeout - (CredsTimeout - left[r]))
    /\ lambda' = [lambda EXCEPT ![r] = "find"]
    /\ lambdaLeft' = [lambdaLeft EXCEPT ![r] = LambdaTimeout]
    /\ UNCHANGED <<userExists, rowVars, job, force, result, lambdaOut, objects, faults>>

\* Client.Generate sends the signed request.
Send(r) == /\ phase[r] = "creds"
           /\ Enter(r, "sent", Min2(HttpTimeout, GenTimeout - (CredsTimeout - left[r])))
           /\ lambda' = [lambda EXCEPT ![r] = "find"]
           /\ lambdaLeft' = [lambdaLeft EXCEPT ![r] = LambdaTimeout]
           /\ UNCHANGED <<userExists, rowVars, job, force, result, lambdaOut, objects, faults>>
-----------------------------------------------------------------------------
(* processPosterRequest, in the Lambda.                                    *)

Key(r) == KeyBase(job[r])
Reply(r, out) == /\ lambda' = [lambda EXCEPT ![r] = "replied"]
                 /\ lambdaOut' = [lambdaOut EXCEPT ![r] = out]
                 /\ UNCHANGED lambdaLeft
LambdaGoto(r, from, to) == /\ lambda[r] = from
                           /\ lambda' = [lambda EXCEPT ![r] = to]
                           /\ UNCHANGED <<lambdaLeft, lambdaOut>>
OnlyLambda == UNCHANGED <<userExists, rowVars, runVars>>

\* sink.find: the sidecar decides.
FindHit(r) == /\ lambda[r] = "find" /\ ~force[r]
              /\ sidecar[Key(r)] # None
              /\ Reply(r, sidecar[Key(r)])
              /\ OnlyLambda /\ UNCHANGED <<objects, faults>>

FindMiss(r) == /\ LambdaGoto(r, "find", "work")
               /\ force[r] \/ sidecar[Key(r)] = None
               /\ OnlyLambda /\ UNCHANGED <<objects, faults>>

\* A find that throws is a miss.
FindFails(r) == /\ LambdaGoto(r, "find", "work")
                /\ Fault
                /\ OnlyLambda /\ UNCHANGED objects

\* The workflow ends in a controlled failure (422).
WorkFails(r) == /\ lambda[r] = "work"
                /\ Reply(r, None)
                /\ OnlyLambda /\ UNCHANGED <<objects, faults>>

\* mutant: the sidecar is written first
PutPngSidecarFirst(r) == /\ LambdaGoto(r, "work", "json")
                         /\ sidecar' = [sidecar EXCEPT ![Key(r)] = r]
                         /\ OnlyLambda /\ UNCHANGED <<png, faults>>

PutPng(r) == /\ LambdaGoto(r, "work", "json")
             /\ png' = [png EXCEPT ![Key(r)] = r]
             /\ OnlyLambda /\ UNCHANGED <<sidecar, faults>>

PutSidecar(r) == /\ lambda[r] = "json"
                 /\ Reply(r, r)
                 /\ sidecar' = [sidecar EXCEPT ![Key(r)] = r]
                 /\ OnlyLambda /\ UNCHANGED <<png, faults>>

\* An upload throws, or the function is killed, at the latest at its cap.
LambdaDies(r) == /\ Running(r)
                 /\ FaultUnless(lambdaLeft[r] = 0)
                 /\ lambda' = [lambda EXCEPT ![r] = "dead"]
                 /\ UNCHANGED <<lambdaLeft, lambdaOut>>
                 /\ OnlyLambda /\ UNCHANGED objects
-----------------------------------------------------------------------------
(* The goroutine, from the reply on.                                       *)

\* mutant: the key is not validated before the row goes ready
ValidatedNot(out) == out

\* poster.ValidateKey: a reply with an unexpected key is a failed run.
Validated(out) == IF out = BadKey THEN None ELSE out

GotReply(r, out) == /\ Enter(r, "mark", DbTimeout)
                    /\ result' = [result EXCEPT ![r] = Validated(out)]
                    /\ UNCHANGED <<userExists, rowVars, job, force, lambdaVars, objects>>

Answered(r) == /\ phase[r] = "sent" /\ lambda[r] = "replied"
               /\ GotReply(r, lambdaOut[r])
               /\ UNCHANGED faults

AnsweredBadKey(r) == /\ phase[r] = "sent" /\ lambda[r] = "replied"
                     /\ Fault
                     /\ GotReply(r, BadKey)

\* Generate returns an error: credentials or request failed, a deadline
\* passed, or the function answered neither 200 nor 422.  The invocation, if
\* there is one, goes on.
CallFails(r) == /\ phase[r] \in {"creds", "sent"}
                /\ FaultUnless(left[r] = 0 \/ lambda[r] = "dead")
                /\ GotReply(r, None)

\* mutant: the status write inserts a missing row
MarkedUpsert(j, out) ==
    /\ rowStatus' = [rowStatus EXCEPT ![j] = IF out = None THEN "failed" ELSE "ready"]
    /\ rowAge' = [rowAge EXCEPT ![j] = 0]
    /\ rowRun' = [rowRun EXCEPT ![j] = IF out = None THEN @ ELSE out]

\* MarkPosterJobReady and MarkPosterJobFailed: UPDATE ... WHERE id = $1.
Marked(j, out) ==
    IF rowStatus[j] = "absent" THEN UNCHANGED rowVars
    ELSE /\ rowStatus' = [rowStatus EXCEPT ![j] = IF out = None THEN "failed" ELSE "ready"]
         /\ rowAge' = [rowAge EXCEPT ![j] = 0]
         /\ rowRun' = [rowRun EXCEPT ![j] = IF out = None THEN @ ELSE out]

Mark(r) == /\ phase[r] = "mark"
           /\ Marked(job[r], result[r])
           /\ Enter(r, "over", 0)
           /\ UNCHANGED <<userExists, job, force, result, lambdaVars, objects, faults>>

\* The status write fails; its error is discarded.
MarkLost(r) == /\ phase[r] = "mark"
               /\ FaultUnless(left[r] = 0)
               /\ Enter(r, "over", 0)
               /\ UNCHANGED <<userExists, rowVars, job, force, result, lambdaVars, objects>>

\* A task stops: its handlers and goroutines are gone, the invocations stay.
Crash(R) == /\ \E r \in R : Live(r)
            /\ Fault
            /\ phase' = [r \in Runs |-> IF r \in R /\ Live(r) THEN "over" ELSE phase[r]]
            /\ UNCHANGED <<userExists, rowVars, job, force, left, result, lambdaVars, objects>>

\* DeleteMe: ON DELETE CASCADE.
DeleteUser == /\ userExists
              /\ userExists' = FALSE
              /\ rowStatus' = [j \in Jobs |-> "absent"]
              /\ rowRun' = [j \in Jobs |-> None]
              /\ UNCHANGED <<rowAge, runVars, lambdaVars, objects, faults>>

Less1(n) == IF n = 0 THEN 0 ELSE n - 1

\* Time passes, but not past a deadline.
Tick == /\ \A r \in Runs : /\ Live(r) => left[r] > 0
                           /\ Running(r) => lambdaLeft[r] > 0
        /\ rowAge' = [j \in Jobs |-> IF Stale(j) THEN rowAge[j] ELSE rowAge[j] + 1]
        /\ left' = [r \in Runs |-> Less1(left[r])]
        /\ lambdaLeft' = [r \in Runs |-> Less1(lambdaLeft[r])]
        /\ UNCHANGED <<userExists, rowStatus, rowRun, phase, job, force, result,
                       lambda, lambdaOut, objects, faults>>

RunStep(r) == \/ ClaimLost(r) \/ Launch(r) \/ Send(r)
              \/ Answered(r) \/ AnsweredBadKey(r) \/ CallFails(r)
              \/ Mark(r) \/ MarkLost(r)
LambdaStep(r) == \/ FindHit(r) \/ FindMiss(r) \/ FindFails(r) \/ WorkFails(r)
                 \/ PutPng(r) \/ PutSidecar(r) \/ LambdaDies(r)

Next == \/ \E r \in Runs : \/ \E s \in Shows, f \in BOOLEAN : Post(r, s, f)
                           \/ RunStep(r) \/ LambdaStep(r)
        \/ \E R \in SUBSET Runs : Crash(R)
        \/ DeleteUser
        \/ Tick

Spec == Init /\ [][Next]_vars

\* Goroutines and invocations run, and end by their deadlines; time passes;
\* and a client that still wants the poster posts again when it may.
Repost == \E r \in Runs, s \in Shows : Stale(JobID(s)) /\ Post(r, s, FALSE)
FairSpec == /\ Spec
            /\ \A r \in Runs : WF_vars(RunStep(r)) /\ WF_vars(LambdaStep(r))
            /\ WF_vars(Tick)
            /\ WF_vars(Repost)
-----------------------------------------------------------------------------
(* No two generations of the same job are under way in the API ("or two    *)
(* generations would run concurrently for the same job and the second      *)
(* would stomp the first's result", poster_jobs.sql).  Holds while the     *)
(* claim, the call and the status write together fit in StaleAfter.        *)
OneRunPerJob == \A q, r \in Runs : Live(q) /\ Live(r) /\ job[q] = job[r] => q = r

(* GetPoster can presign every ready row: the key passes ValidateKey and   *)
(* there is a png under it.                                                *)
ReadyIsServable == \A j \in Jobs : rowStatus[j] = "ready" =>
                       rowRun[j] \in Runs /\ png[KeyBase(j)] # None

(* A sidecar is never there without its png: what find hits on is a        *)
(* poster.                                                                 *)
SidecarMeansPng == \A k \in Keys : sidecar[k] # None => png[k] # None

(* After the user is deleted no status write brings a job row back.        *)
DeletedStaysGone == ~userExists => \A j \in Jobs : rowStatus[j] = "absent"

(* "any text that changes the poster changes the key" (poster-sink.ts): a  *)
(* ready row shows a poster that was made for its own show.                *)
ReadyIsOwnShow == \A j \in Jobs : rowStatus[j] = "ready" => job[rowRun[j]] = j

(* A job does not stay pending for ever, whatever was lost: it becomes     *)
(* ready, failed or absent, given a client that posts again.  (The bound   *)
(* Runs ends the posting; from then on nothing is claimed.)                *)
PendingSettles ==
    \A j \in Jobs : rowStatus[j] = "pending" ~>
        rowStatus[j] # "pending" \/ \A r \in Runs : phase[r] # "free"
=============================================================================
