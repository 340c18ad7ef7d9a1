----------------------------- MODULE Enrichment -----------------------------
(***************************************************************************)
(* The enrichment Lambda (lambda/mastra-handler/src/enrichment.ts and      *)
(* enrichment-cache.ts): every event is scraped again each day, and each   *)
(* invocation reads the S3 object of the event's artist, runs the          *)
(* workflows whose record is missing or stale, writes the object back and  *)
(* publishes the event.  Invocations for one artist may overlap.           *)
(***************************************************************************)
EXTENDS Integers, FiniteSets

CONSTANTS
    Msgs,          \* events of one artist
    Illustrated,   \* those that come with an image of their own
    Sections,      \* the workflows
    MaxConcurrency,  \* invocations under way at most: maximum_concurrency
    TTL,           \* TTL[s][status] in days, rounded up
    MaxReceive,    \* receives before a message goes to the dead letter queue
    MaxFaults      \* bound on failures of S3, SQS, MusicBrainz and the Lambda

VARIABLES
    entry,     \* the artist's cache entry: entry[s] is a record or NoRecord
    left,      \* left[m]: receives m still has; 0 when it is not on the queue
    scraped,   \* messages published today
    inv,       \* inv[m]: the invocation that has m in hand
    healed,    \* the providers answer again, and for good
    faults

vars == <<entry, left, scraped, inv, healed, faults>>

Statuses == {"ok", "none", "error"}
ASSUME EnrichmentAssumption ==
    /\ Illustrated \subseteq Msgs
    /\ TTL \in [Sections -> [Statuses -> Nat \ {0}]]
    /\ MaxReceive \in Nat \ {0} /\ MaxConcurrency \in Nat

NoRecord == [status |-> "missing", age |-> 0]
Empty == [s \in Sections |-> NoRecord]
Idle == [phase |-> "idle", blind |-> FALSE, read |-> Empty, runs |-> {}, overtaken |-> {}]

Init == /\ entry = Empty
        /\ left = [m \in Msgs |-> 0] /\ scraped = {}
        /\ inv = [m \in Msgs |-> Idle]
        /\ healed = FALSE /\ faults = 0

\* The age of a record is what isFresh computes from its timestamp.
\* mutant: an error suppresses the next attempt for good
isFreshError(rec, s) == rec.status = "error" \/ rec.age < TTL[s][rec.status]
isFresh(rec, s) == rec.age < TTL[s][rec.status]
cached(rec, s) == rec # NoRecord /\ isFresh(rec, s)
-----------------------------------------------------------------------------
(* Time, the scrapes and the queue.                                        *)

\* Beyond its TTL the age of a record no longer matters.
Older(rec, s) == IF rec # NoRecord /\ rec.age < TTL[s][rec.status]
                 THEN [rec EXCEPT !.age = @ + 1] ELSE rec
Busy == {m \in Msgs : inv[m].phase # "idle"}
\* An invocation lasts five minutes at most: none is under way over a day.
Tick == /\ Busy = {}
        /\ entry' = [s \in Sections |-> Older(entry[s], s)]
        /\ scraped' = {}
        /\ UNCHANGED <<left, inv, healed, faults>>

Heal == /\ ~healed /\ healed' = TRUE
        /\ UNCHANGED <<entry, left, scraped, inv, faults>>

Publish(m) == /\ m \notin scraped
              /\ scraped' = scraped \cup {m}
              /\ left' = [left EXCEPT ![m] = MaxReceive]
              /\ UNCHANGED <<entry, inv, healed, faults>>

\* What is in hand is invisible to the others.
Receive(m) == /\ m \notin Busy /\ left[m] > 0 /\ Cardinality(Busy) < MaxConcurrency
              /\ left' = [left EXCEPT ![m] = @ - 1]
              /\ inv' = [inv EXCEPT ![m] = [Idle EXCEPT !.phase = "read"]]
              /\ UNCHANGED <<entry, scraped, healed, faults>>
-----------------------------------------------------------------------------
(* One invocation: enrichEvent, and handleSQS around it.                   *)

Step(m, from, new) == inv[m].phase = from /\ inv' = [inv EXCEPT ![m] = new]
Emitting == [Idle EXCEPT !.phase = "emit"]
Fault == faults < MaxFaults /\ faults' = faults + 1
Elsewhere == UNCHANGED <<left, scraped, healed>>

\* The event's own image wins, so that its workflow has nothing to resolve.
Needed(m) == Sections \ (IF m \in Illustrated THEN {"image"} ELSE {})
Runs(m, read) == {s \in Needed(m) : ~cached(read[s], s)}

\* With everything fresh the event is published without another call.
Gate(m, read, blind) ==
    LET runs == Runs(m, read) IN
    Step(m, "read", IF runs = {} THEN Emitting
                    ELSE [inv[m] EXCEPT !.phase = "work", !.read = read, !.runs = runs, !.blind = blind])
ReadCache(m) == Gate(m, entry, FALSE) /\ UNCHANGED <<entry, faults>> /\ Elsewhere
\* An object that cannot be read is as good as none.
ReadFails(m) == Gate(m, Empty, TRUE) /\ Fault /\ UNCHANGED entry /\ Elsewhere

\* No artist, no workflow: the event goes on as it came.
PickArtistFails(m) == /\ Step(m, "work", Emitting) /\ Fault
                      /\ UNCHANGED entry /\ Elsewhere

\* A workflow never throws: an exception or its time budget is an "error".
Results(runs) == [runs -> IF healed THEN {"ok"} ELSE Statuses]
EnrichWorkflows(m) ==
    /\ \E result \in Results(inv[m].runs) :
         Step(m, "work", [inv[m] EXCEPT !.phase = "write", !.read =
             [s \in Sections |-> IF s \in inv[m].runs THEN [status |-> result[s], age |-> 0]
                                 ELSE inv[m].read[s]]])
    /\ UNCHANGED <<entry, faults>> /\ Elsewhere

\* mutant: the records that were not run again are forgotten
MergedRuns(m) == [s \in Sections |-> IF s \in inv[m].runs THEN inv[m].read[s] ELSE NoRecord]
Merged(m) == inv[m].read
\* One write of the whole object, over whatever others have written since.
WriteCache(m) ==
    /\ inv[m].phase = "write"
    /\ entry' = Merged(m)
    /\ inv' = [j \in Msgs |->
                 IF j = m THEN Emitting
                 ELSE [inv[j] EXCEPT !.overtaken =
                         IF inv[j].phase \in {"work", "write"} THEN @ \cup inv[m].runs ELSE @]]
    /\ UNCHANGED faults /\ Elsewhere
\* S3 refuses the object, or its schema does.
WriteFails(m) == /\ Step(m, "write", Emitting) /\ Fault
                 /\ UNCHANGED entry /\ Elsewhere

\* Published to the ingest queue, and deleted from this one.
Emit(m) == /\ Step(m, "emit", Idle)
           /\ left' = [left EXCEPT ![m] = 0]
           /\ UNCHANGED <<entry, scraped, healed, faults>>
\* sendBatch throws, the Lambda dies, or it dies after the publish: again.
InvocationFails(m) == /\ inv[m].phase # "idle" /\ Fault
                      /\ inv' = [inv EXCEPT ![m] = Idle]
                      /\ UNCHANGED <<entry, left, scraped, healed>>
-----------------------------------------------------------------------------
Works(m) == \/ ReadCache(m) \/ EnrichWorkflows(m) \/ WriteCache(m) \/ Emit(m)
Faulty(m) == \/ ReadFails(m) \/ PickArtistFails(m) \/ WriteFails(m) \/ InvocationFails(m)
Next == \/ Tick \/ Heal
        \/ \E m \in Msgs : Publish(m) \/ Receive(m) \/ Works(m) \/ Faulty(m)

\* A daily schedule, an event source mapping that polls, and a Lambda that
\* goes on or ends in InvocationFails.
Fairness == /\ WF_vars(Tick)
            /\ \A m \in Msgs : WF_vars(Publish(m)) /\ WF_vars(Receive(m)) /\ WF_vars(Works(m))
Spec == Init /\ [][Next]_vars /\ Fairness
-----------------------------------------------------------------------------
(* A good record that is still fresh gives way only to an invocation that  *)
(* had read the object before that record was written, or could not read   *)
(* it: the one write after the fan-out (enrichment.ts, enrichment-cache.ts *)
(* write) carries every section it did not run.                            *)
Good(records, s) == records[s].status = "ok" /\ cached(records[s], s)
Replaces(m) == inv[m].phase = "write" /\ inv'[m].phase = "emit" /\ entry' # entry
GoodGivesWay(s) == Good(entry, s) /\ ~Good(entry', s)
GoodSurvives ==
    [][\A m \in Msgs, s \in Sections :
         Replaces(m) /\ GoodGivesWay(s) => inv[m].blind \/ s \in inv[m].overtaken]_vars

(* Once the providers answer again, every section of an artist is good     *)
(* again and again: an error, an empty answer or a record lost to another  *)
(* invocation delays the next attempt by its TTL and no longer             *)
(* (enrichment-cache.ts: ttlMs, isFresh), as long as events without an     *)
(* image of their own are scraped.  It need not stay good: two invocations *)
(* that overlap every day may lose a record every day.                     *)
ErrorsHeal == \A s \in Sections : healed ~> Good(entry, s)
=============================================================================
