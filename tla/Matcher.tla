------------------------------ MODULE Matcher ------------------------------
(***************************************************************************)
(* internal/matcher: the embedding of the interests and the matches of one *)
(* user, as three kinds of run compute them side by side with the edits of *)
(* Interests.tla.  A worker embeds and matches after each message, the     *)
(* nightly Job does so for whoever needs it and archives events, and a     *)
(* Rescore matches after a change of threshold.  Every query is a step.    *)
(***************************************************************************)
EXTENDS Interests

CONSTANTS
    Events,
    Job, Rescore,      \* members of Matchers
    Thresholds         \* thresholds the user may choose

VARIABLES
    embedding,   \* users.interest_embedding
    threshold,   \* users.score_threshold, or the default of Config
    life,        \* life[e]: upcoming, unseen for seven days, archived or over
    embedded,    \* events with an embedding
    match,       \* match[e]: the user_event_match row, or NoMatch
    clock,       \* time.Now of the last match run
    run          \* run[p]: what p's run has read and has still to write

mvars == <<embedding, threshold, life, embedded, match, clock, run>>
vars == <<ivars, mvars>>

NoMatch == [score |-> 0, at |-> 0]
NoRun == [emb |-> NoEmbedding, thr |-> 0, rows |-> {}, todo |-> {}, at |-> 0]
Upcoming(e) == life[e] \in {"upcoming", "unseen"}

ASSUME MatcherAssumption == /\ Matchers = {Job, Rescore}
                            /\ Job # Rescore
                            /\ Thresholds \subseteq 200..600

TypeOK == /\ ITypeOK
          /\ stage \in [Procs -> {"idle", "replace", "events", "embed", "embedding",
                                  "user", "candidates", "upsert", "obsolete", "matched"}]
          /\ embedding = NoEmbedding \/ embedding \in SUBSET Names
          /\ threshold \in Thresholds \cup {Config.score_threshold}
          /\ life \in [Events -> {"upcoming", "unseen", "archived", "over"}]
          /\ embedded \subseteq Events
          /\ \A e \in Events : match[e].score \in 0..1000 /\ match[e].at \in 0..clock

Init == /\ IInit
        /\ embedding = IF rows = {} THEN NoEmbedding ELSE Text(rows)
        /\ threshold = Config.score_threshold
        /\ life = [e \in Events |-> "upcoming"]
        /\ embedded = {}
        /\ match = [e \in Events |-> NoMatch]
        /\ clock = 0
        /\ run = [p \in Procs |-> NoRun]

interestsAlone == UNCHANGED <<delivery, plan, spotify, changes>>
rowsAlone == UNCHANGED <<rows, newer, missed, delivery, plan, spotify>>
matcherAlone == rowsAlone /\ UNCHANGED changes
Step(p, from, to) == stage[p] = from /\ Goto(p, to)
-----------------------------------------------------------------------------
(* The nightly job up to its user embedder, and the user's new threshold.  *)

\* LoadConfig and SelectEventsNeedingEmbedding.
JobStarts == /\ Change
             /\ Step(Job, "idle", "events")
             /\ alone' = alone \cup {Job}
             /\ run' = [run EXCEPT ![Job].todo = {e \in Events \ embedded : Upcoming(e)}]
             /\ UNCHANGED <<embedding, threshold, life, embedded, match, clock>>
             /\ rowsAlone

JobEmbedsEvent(e) ==
    /\ stage[Job] = "events" /\ UNCHANGED stage
    /\ e \in run[Job].todo
    /\ embedded' = embedded \cup {e}
    /\ run' = [run EXCEPT ![Job].todo = @ \ {e}]
    /\ Wrote(Job)
    /\ UNCHANGED <<embedding, threshold, life, match, clock>> /\ matcherAlone

\* mutant: only users that were never embedded are selected
NeedsEmbeddingFirst == embedding = NoEmbedding

\* SelectUsersNeedingEmbedding: never embedded, or before the newest row.
NeedsEmbedding == embedding = NoEmbedding \/ newer # {}

JobSelectsUsers ==
    /\ run[Job].todo = {}
    /\ Step(Job, "events", IF NeedsEmbedding THEN "embed" ELSE "user")
    /\ UNCHANGED <<alone, mvars>> /\ matcherAlone

\* UpdateMatchThreshold answers at once and rescores in a goroutine.
UpdateMatchThreshold(t) ==
    /\ Change
    /\ t # threshold
    /\ threshold' = t
    /\ Step(Rescore, "idle", "user")
    /\ alone' = {Rescore}
    /\ rowsAlone
    /\ UNCHANGED <<embedding, life, embedded, match, clock, run>>

\* Any statement or call of either fails, or its process dies.
MatcherFails(p) == /\ p \in Matchers /\ stage[p] # "idle"
                   /\ Change
                   /\ Goto(p, "idle")
                   /\ run' = [run EXCEPT ![p] = NoRun]
                   /\ rowsAlone
                   /\ UNCHANGED <<alone, embedding, threshold, life, embedded, match, clock>>
-----------------------------------------------------------------------------
(* embedUsers: read the interests, call the embedder, store the vector.    *)

\* A user without any text is skipped and keeps the embedding there is.
EmbedReads(p) ==
    /\ Step(p, "embed", IF Text(rows) = {} THEN "user" ELSE "embedding")
    /\ run' = [run EXCEPT ![p].emb = IF Text(rows) = {} THEN @ ELSE Text(rows)]
    /\ UNCHANGED <<alone, embedding, threshold, life, embedded, match, clock>>
    /\ matcherAlone

\* The stamp is the time of the write, so no row there is newer any more.
EmbedWrites(p) ==
    /\ Step(p, "embedding", "user")
    /\ embedding' = run[p].emb
    /\ newer' = {}
    /\ missed' = (run[p].emb # Text(rows))
    /\ run' = [run EXCEPT ![p] = NoRun]
    /\ Wrote(p)
    /\ UNCHANGED <<rows, threshold, life, embedded, match, clock>>
    /\ interestsAlone
-----------------------------------------------------------------------------
(* MatchStep.Run for the one user.                                         *)

\* loadUsers: two queries with nothing written in between.
LoadUser(p) ==
    /\ Step(p, "user", "candidates")
    /\ run' = [run EXCEPT ![p].emb = embedding, ![p].thr = threshold, ![p].rows = rows]
    /\ UNCHANGED <<alone, embedding, threshold, life, embedded, match, clock>>
    /\ matcherAlone

\* The upcoming events over the threshold, with their scores.
Candidates(rs, emb, thr) ==
    {c \in {[event |-> e, score |-> Score(rs, emb, e, e \in embedded)] : e \in {f \in Events : Upcoming(f)}} :
        c.score > thr}

\* loadEvents, then runAt.  From here on the run's result is settled.
LoadEvents(p) ==
    /\ Step(p, "candidates", "upsert")
    /\ clock' = clock + 1
    /\ LET r == run[p]
       IN  run' = [run EXCEPT ![p] = [NoRun EXCEPT !.at = clock + 1,
                                                   !.todo = Candidates(r.rows, r.emb, r.thr)]]
    /\ UNCHANGED <<alone, embedding, threshold, life, embedded, match>>
    /\ matcherAlone

\* mutant: the conflict clause forgets computed_at
UpsertedUnstamped(e, score, at) ==
    [score |-> score, at |-> IF match[e] = NoMatch THEN at ELSE match[e].at]

Upserted(e, score, at) == [score |-> score, at |-> at]

UpsertUserEventMatch(p) ==
    /\ stage[p] = "upsert" /\ UNCHANGED stage
    /\ \E c \in run[p].todo :
           /\ match' = [match EXCEPT ![c.event] = Upserted(c.event, c.score, run[p].at)]
           /\ run' = [run EXCEPT ![p].todo = @ \ {c}]
    /\ Wrote(p)
    /\ UNCHANGED <<embedding, threshold, life, embedded, clock>> /\ matcherAlone

\* Stamps are only compared while a run is under way; the last one drops them.
DeleteStaleMatches(p) ==
    /\ run[p].todo = {}
    /\ Step(p, "upsert", "obsolete")
    /\ LET kept == {e \in Events : match[e].at >= run[p].at}
           last == \A q \in Procs \ {p} : run[q].at = 0
       IN  /\ match' = [e \in Events |-> IF e \notin kept THEN NoMatch
                                         ELSE IF last THEN [match[e] EXCEPT !.at = 0] ELSE match[e]]
           /\ clock' = IF last THEN 0 ELSE clock
    /\ run' = [run EXCEPT ![p] = NoRun]
    /\ Wrote(p)
    /\ UNCHANGED <<embedding, threshold, life, embedded>> /\ matcherAlone

DeleteObsoleteMatches(p) ==
    /\ Step(p, "obsolete", "matched")
    /\ match' = [e \in Events |-> IF Upcoming(e) THEN match[e] ELSE NoMatch]
    /\ Wrote(p)
    /\ UNCHANGED <<embedding, threshold, life, embedded, clock, run>> /\ matcherAlone

\* The job ends by archiving, a rescore just ends.
JobArchives == /\ Step(Job, "matched", "idle")
               /\ life' = [e \in Events |-> IF life[e] = "unseen" THEN "archived" ELSE life[e]]
               /\ Wrote(Job)
               /\ UNCHANGED <<embedding, threshold, embedded, match, clock, run>>
               /\ matcherAlone

RescoreEnds == /\ Step(Rescore, "matched", "idle")
               /\ UNCHANGED <<alone, mvars>> /\ matcherAlone
-----------------------------------------------------------------------------
(* The catalogue, as ingestion and time move it.                           *)

EventMoves(e) ==
    /\ Change
    /\ \/ life[e] \in {"unseen", "archived"} /\ life' = [life EXCEPT ![e] = "upcoming"]  \* UpsertEvent
       \/ life[e] = "upcoming" /\ life' = [life EXCEPT ![e] = "unseen"]
       \/ life[e] # "over" /\ life' = [life EXCEPT ![e] = "over"]
    /\ alone' = {}
    /\ UNCHANGED <<stage, embedding, threshold, embedded, match, clock, run>>
    /\ rowsAlone

Next == \/ INext /\ UNCHANGED <<embedding, threshold, life, embedded, match, clock>>
                 /\ run' = [p \in Procs |-> IF stage'[p] = "idle" THEN NoRun ELSE run[p]]
        \/ JobStarts \/ JobSelectsUsers \/ JobArchives \/ RescoreEnds
        \/ \E e \in Events : JobEmbedsEvent(e) \/ EventMoves(e)
        \/ \E t \in Thresholds : UpdateMatchThreshold(t)
        \/ \E p \in Procs : \/ EmbedReads(p) \/ EmbedWrites(p)
                            \/ LoadUser(p) \/ LoadEvents(p)
                            \/ UpsertUserEventMatch(p)
                            \/ DeleteStaleMatches(p) \/ DeleteObsoleteMatches(p)
                            \/ MatcherFails(p)

Spec == Init /\ [][Next]_vars
-----------------------------------------------------------------------------
(* Properties.                                                             *)

Matched(p) == p \in alone /\ stage[p] = "matched"

\* match_step.go scores what it loaded earlier and prunes by a time it took
\* after loading, so a run may undo the work of one that overlaps it.  A run
\* that nothing overlaps, and that fails nowhere, ends with exactly the matches
\* of the interests, embedding, threshold and upcoming events there are,
\* whatever earlier runs left behind.
LoneRunMatches ==
    \A p \in Procs : Matched(p) =>
        {[event |-> e, score |-> match[e].score] : e \in {f \in Events : match[f] # NoMatch}}
        = Candidates(rows, embedding, threshold)

\* user_embedder.go stamps an embedding with the time of the write, not of the
\* read, and users.sql selects users by their newest row.  After a message or
\* the job has run beside no other writer the embedding is that of the rows,
\* unless there is no text; only the job may leave one that went out of date
\* by a deletion or during an earlier embedder call.
EmbeddingCurrent ==
    \A p \in Procs \ {Rescore} : Matched(p) =>
        Text(rows) = {} \/ embedding = Text(rows) \/ (p = Job /\ missed)
=============================================================================
