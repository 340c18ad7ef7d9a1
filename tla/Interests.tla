----------------------------- MODULE Interests -----------------------------
(***************************************************************************)
(* The interests of one user: the rows of user_interests as they are       *)
(* edited by hand (http/handlers/manual_interests.go), replaced from queue *)
(* messages one statement at a time (ingest/interests.go), and fed by a    *)
(* Spotify connection that can be made and undone while a scrape of it is  *)
(* under way (http/handlers/spotify.go, scraper/spotify/adapter.go).       *)
(* Matcher.tla adds what happens to the rows after that.  Deliveries are   *)
(* those of AtLeastOnceQueue with its status left out: a message that was  *)
(* sent may be begun by any worker, again and after it was deleted.        *)
(***************************************************************************)
EXTENDS Scorer, SequencesExt

CONSTANTS
    Msgs, Workers, None,
    Scrapers,        \* runs of ScrapeOne: the daily task, a connect request
    Payloads,        \* what Spotify knows: [kind -> names, best rank first]
    Tags,            \* manual tags the user may type
    Matchers,        \* who runs the matcher apart from Workers: job, rescore
    MaxReceive,      \* deliveries of one message before redrive
    MaxDeliveries,   \* bound: deliveries of all messages
    MaxChanges       \* bound: edits, connects, disconnects, nightly runs, moves of
                     \* events and failures, all together

Procs == Workers \cup Matchers
OnlyEmbed == [k \in {} |-> <<>>]   \* op only_embed: a message without lists
Elems(s) == {s[i] : i \in 1..Len(s)}

ASSUME InterestsAssumption ==
    /\ \A p \in Payloads : /\ DOMAIN p = Kinds \ {"manual_tag"}
                           /\ \A k \in DOMAIN p : p[k] \in Seq(Elems(p[k]))
    /\ MaxReceive \in Nat /\ MaxChanges \in Nat
    /\ None \notin Msgs
    /\ Workers \cap Matchers = {}

VARIABLES
    body,       \* body[m]: the payload of m, OnlyEmbed, or None before it is sent
    active,     \* active[w]: the message w handles
    starts,     \* starts[m]: deliveries so far
    stage,      \* stage[p]: what p does next
    plan,       \* plan[w]: statements replaceInterests has still to run
    rows,       \* user_interests of the user
    newer,      \* rows whose updated_at is after interest_embedding_updated_at
    connected,  \* is there a row in user_spotify_tokens?
    leaving,    \* a disconnect has deleted the rows, not yet the tokens
    scrape,     \* scrape[s]: idle, load, refresh, fetch
    changes,    \* of those the bound is on
    alone,      \* processes since whose start nobody else wrote (history)
    missed,     \* the embedding went out of date other than by an upsert of a
                \* row that is newer than it (history)
    clean       \* the last disconnect found nothing under way (history)

ivars == <<body, active, starts, stage, plan, rows, newer, connected, leaving, scrape,
           changes, alone, missed, clean>>
delivery == <<body, active, starts>>
spotify == <<connected, leaving, scrape, clean>>

Names == Tags \cup UNION {UNION {Elems(p[k]) : k \in DOMAIN p} : p \in Payloads}
Spotify(rs) == {r \in rs : r.kind # "manual_tag"}

Weight(kind, rank) == IF kind = "spotify_top_genre" THEN rankGenreWeight(rank) ELSE RankWeight(rank)

\* The rank a name has in the end: a list may name it twice, and the upsert of
\* the later rank wins.
LastRanks(list) == {r \in 1..Len(list) : \A q \in 1..Len(list) : list[q] = list[r] => q <= r}

\* The rows a message that is applied alone leaves.
RowsOf(p) == UNION {{[kind |-> k, value |-> p[k][r], weight |-> Weight(k, r)] : r \in LastRanks(p[k])} :
                        k \in Kinds \ {"manual_tag"}}

\* Resolve: the genres of an artist that is neither cached nor found do not count.
WithoutGenres(p) == [p EXCEPT !["spotify_top_genre"] = <<>>]

\* The saved songs are best effort: without their scope the list is empty.
WithoutSaved(p) == [p EXCEPT !["spotify_saved_song_artist"] = <<>>]

Sent == Payloads \cup {WithoutGenres(p) : p \in Payloads} \cup {WithoutSaved(p) : p \in Payloads}

ITypeOK == /\ body \in [Msgs -> Sent \cup {OnlyEmbed, None}]
           /\ active \in [Workers -> Msgs \cup {None}]
           /\ starts \in [Msgs -> 0..MaxReceive]
           /\ \A r \in rows : r.kind \in Kinds /\ r.value \in Names /\ r.weight \in 100..1000
           /\ newer \subseteq rows
           /\ \A r, s \in rows : r.kind = s.kind /\ r.value = s.value => r = s
           /\ <<connected, leaving, missed, clean>> \in BOOLEAN \X BOOLEAN \X BOOLEAN \X BOOLEAN
           /\ scrape \in [Scrapers -> {"idle", "load", "refresh", "fetch"}]
           /\ alone \subseteq Procs
           /\ changes \in 0..MaxChanges

\* A new user, or one synced and embedded before.
IInit == /\ body = [m \in Msgs |-> None]
         /\ active = [w \in Workers |-> None]
         /\ starts = [m \in Msgs |-> 0]
         /\ stage = [p \in Procs |-> "idle"]
         /\ plan = [w \in Workers |-> <<>>]
         /\ \/ rows = {} /\ connected = FALSE
            \/ rows \in {RowsOf(p) : p \in Payloads} /\ connected = TRUE
         /\ newer = {}
         /\ leaving = FALSE
         /\ scrape = [s \in Scrapers |-> "idle"]
         /\ changes = 0
         /\ alone = {} /\ missed = FALSE /\ clean = ~connected

Change == changes < MaxChanges /\ changes' = changes + 1
Goto(p, s) == stage' = [stage EXCEPT ![p] = s]
\* A write of p: everyone else is no longer alone.  The user and the scrapers
\* are in no such set, so their writes empty it.
Wrote(p) == alone' = alone \cap {p}
-----------------------------------------------------------------------------
(* Rows.  An upsert sets updated_at, so a later selection for embedding    *)
(* sees it; a deletion leaves no trace.                                    *)

Deleted(gone) == /\ rows' = rows \ gone
                 /\ newer' = newer \ gone
                 /\ missed' = (missed \/ gone # {})

InsertRow(row) ==
    LET old == {r \in rows : r.kind = row.kind /\ r.value = row.value}
    IN  /\ rows' = (rows \ old) \cup {row}
        /\ newer' = (newer \ old) \cup {row}
        /\ missed' = FALSE
-----------------------------------------------------------------------------
(* The queue, as Consumer leaves it, and the replacement of the rows.      *)

\* mutant: kinds are filled without being emptied first
StatementsKeep(p) ==
    FlattenSeq([i \in 1..4 |-> LET k == SpotifyKinds[i]
        IN  [r \in 1..Len(p[k]) |-> [op |-> "insert", kind |-> k, value |-> p[k][r], rank |-> r]]])

\* One DELETE of the kind, then one INSERT for each name of its list.
Replacement(p, k) ==
    <<[op |-> "delete", kind |-> k]>>
    \o [r \in 1..Len(p[k]) |-> [op |-> "insert", kind |-> k, value |-> p[k][r], rank |-> r]]

Statements(p) == FlattenSeq([i \in 1..4 |-> Replacement(p, SpotifyKinds[i])])

RowOf(s) == [kind |-> s.kind, value |-> s.value, weight |-> Weight(s.kind, s.rank)]

CanBegin(m) == body[m] # None /\ starts[m] < MaxReceive

\* Handle: a replace message starts with its statements, only_embed without.
Begin(w, m) ==
    /\ active[w] = None /\ CanBegin(m)
    /\ MapThenSumSet(LAMBDA n : starts[n], Msgs) < MaxDeliveries
    /\ active' = [active EXCEPT ![w] = m]
    /\ starts' = [starts EXCEPT ![m] = @ + 1]
    /\ plan' = [plan EXCEPT ![w] = IF body[m] = OnlyEmbed THEN <<>> ELSE Statements(body[m])]
    /\ Goto(w, IF body[m] = OnlyEmbed THEN "embed" ELSE "replace")
    /\ alone' = alone \cup {w}
    /\ UNCHANGED <<body, rows, newer, spotify, changes, missed>>

replaceInterests(w) ==
    /\ stage[w] = "replace"
    /\ LET s == Head(plan[w])
       IN  IF s.op = "delete" THEN Deleted(Of(rows, s.kind)) ELSE InsertRow(RowOf(s))
    /\ plan' = [plan EXCEPT ![w] = Tail(@)]
    /\ IF Len(plan[w]) = 1 THEN Goto(w, "embed") ELSE UNCHANGED stage
    /\ Wrote(w)
    /\ UNCHANGED <<delivery, spotify, changes>>

\* Handle returned nil; whether the message is deleted too changes nothing.
Acknowledge(w) ==
    /\ stage[w] = "matched"
    /\ active' = [active EXCEPT ![w] = None]
    /\ Goto(w, "idle")
    /\ UNCHANGED <<body, starts, plan, rows, newer, spotify, changes, alone, missed>>

\* A statement or the embedder fails, or the task dies: what was written stays.
HandleFails(w) ==
    /\ active[w] # None
    /\ Change
    /\ active' = [active EXCEPT ![w] = None]
    /\ Goto(w, "idle")
    /\ plan' = [plan EXCEPT ![w] = <<>>]
    /\ UNCHANGED <<body, starts, rows, newer, spotify, alone, missed>>
-----------------------------------------------------------------------------
(* The user's own edits.                                                   *)

Send(m, b) == /\ body[m] = None
              /\ body' = [body EXCEPT ![m] = b]
              /\ UNCHANGED <<active, starts>>

\* publishEmbed is best effort: a failed send is logged, nothing else.
publishEmbed == \/ \E m \in Msgs : Send(m, OnlyEmbed)
                \/ UNCHANGED delivery

Tag(v) == [kind |-> "manual_tag", value |-> v, weight |-> 1000]

CreateManualInterest(v) ==
    /\ Change
    /\ Tag(v) \notin rows                       \* 409 duplicate_interest
    /\ InsertRow(Tag(v))
    /\ publishEmbed
    /\ alone' = {}
    /\ UNCHANGED <<stage, plan, spotify>>

\* A tag that is not there is deleted with the same 204 and the same message.
DeleteManualInterest(v) ==
    /\ Change
    /\ Deleted({Tag(v)} \cap rows)
    /\ publishEmbed
    /\ alone' = {}
    /\ UNCHANGED <<stage, plan, spotify>>
-----------------------------------------------------------------------------
(* The Spotify connection.                                                 *)

\* SpotifyExchange stores the tokens, then scrapes at once.
SpotifyExchange(s) ==
    /\ Change
    /\ scrape[s] = "idle"
    /\ connected' = TRUE
    /\ scrape' = [scrape EXCEPT ![s] = "load"]
    /\ clean' = FALSE
    /\ alone' = {}
    /\ UNCHANGED <<delivery, stage, plan, rows, newer, leaving, missed>>

quiet == UNCHANGED <<stage, plan, rows, newer, missed, alone>>

\* ScrapeAll lists the users with tokens.
ScrapeAll(s) ==
    /\ scrape[s] = "idle" /\ connected
    /\ \E m \in Msgs : body[m] = None           \* bound: there is a message left to send
    /\ scrape' = [scrape EXCEPT ![s] = "load"]
    /\ UNCHANGED <<delivery, connected, leaving, clean, changes>> /\ quiet

\* GetUserSpotifyTokens: no row is an error, an expired one is refreshed first.
ScrapeLoads(s) ==
    /\ scrape[s] = "load"
    /\ \E next \in IF connected THEN {"refresh", "fetch"} ELSE {"idle"} :
           scrape' = [scrape EXCEPT ![s] = next]
    /\ clean' = (clean /\ ~connected)
    /\ UNCHANGED <<delivery, connected, leaving, changes>> /\ quiet

\* The refreshed tokens are stored by an upsert, row or no row.
ScrapeRefreshes(s) ==
    /\ scrape[s] = "refresh"
    /\ connected' = TRUE
    /\ scrape' = [scrape EXCEPT ![s] = "fetch"]
    /\ UNCHANGED <<delivery, leaving, clean, changes>> /\ quiet

ScrapeSends(s) ==
    /\ scrape[s] = "fetch"
    /\ \E m \in Msgs, p \in Sent : Send(m, p)
    /\ scrape' = [scrape EXCEPT ![s] = "idle"]
    /\ UNCHANGED <<connected, leaving, clean, changes>> /\ quiet

ScrapeFails(s) ==
    /\ scrape[s] # "idle"
    /\ Change
    /\ scrape' = [scrape EXCEPT ![s] = "idle"]
    /\ UNCHANGED <<delivery, connected, leaving, clean>> /\ quiet

\* mutant: the saved songs are forgotten
DerivedKindsThree == {SpotifyKinds[i] : i \in {1, 2, 4}}

DerivedKinds == {SpotifyKinds[i] : i \in 1..4}

\* No scrape that read its tokens, no handler at work on the rows, and no
\* message that could still bring them back.
NothingUnderWay == /\ \A s \in Scrapers : scrape[s] \in {"idle", "load"}
                   /\ \A w \in Workers : stage[w] # "replace"
                   /\ \A m \in Msgs : CanBegin(m) => body[m] = OnlyEmbed

\* SpotifyDisconnect: DeleteSpotifyDerivedInterests, then DeleteUserSpotifyTokens.
SpotifyDisconnect ==
    /\ Change
    /\ ~leaving
    /\ connected                                \* the page offers it only then
    /\ Deleted({r \in rows : r.kind \in DerivedKinds})
    /\ leaving' = TRUE
    /\ clean' = NothingUnderWay
    /\ alone' = {}
    /\ UNCHANGED <<delivery, stage, plan, connected, scrape>>

DisconnectTokens ==
    /\ leaving
    /\ \/ connected' = FALSE /\ UNCHANGED <<changes, clean>>
       \/ Change /\ clean' = FALSE /\ UNCHANGED connected
    /\ leaving' = FALSE
    /\ UNCHANGED <<delivery, scrape>> /\ quiet
-----------------------------------------------------------------------------
INext == \/ \E w \in Workers : \/ \E m \in Msgs : Begin(w, m)
                               \/ replaceInterests(w)
                               \/ Acknowledge(w)
                               \/ HandleFails(w)
         \/ \E v \in Tags : CreateManualInterest(v) \/ DeleteManualInterest(v)
         \/ \E s \in Scrapers : \/ SpotifyExchange(s) \/ ScrapeAll(s) \/ ScrapeLoads(s)
                                \/ ScrapeRefreshes(s) \/ ScrapeSends(s) \/ ScrapeFails(s)
         \/ SpotifyDisconnect \/ DisconnectTokens
-----------------------------------------------------------------------------
(* Properties.                                                             *)

\* ingest/interests.go replaces a user's rows statement by statement, without
\* a transaction, and relies on redelivery.  Whatever an earlier handler left
\* half done, one that runs beside no other writer ends with exactly the rows
\* of its message, at the message's weights.
LoneReplaceRepairs ==
    \A w \in Workers \cap alone :
        stage[w] = "embed" /\ body[active[w]] # OnlyEmbed => Spotify(rows) = RowsOf(body[active[w]])

\* http/handlers/spotify.go undoes a connection in two statements and tells no
\* one.  If no scrape was under way, none read the tokens between the two, and
\* no replace message could still be handled, the user stays without tokens and
\* without Spotify rows until the next exchange.
DisconnectHolds == clean /\ ~leaving => ~connected /\ Spotify(rows) = {}
=============================================================================
