------------------------------ MODULE Calendar ------------------------------
(***************************************************************************)
(* A reader of the catalogue: the pages of a calendar feed, cut one        *)
(* request at a time by a keyset cursor, and one search, whose two queries *)
(* are separate statements (internal/http/handlers/calendar.go, search.go).*)
(* Between two statements ingest, the match job and time change the rows.  *)
(*                                                                         *)
(* Time is counted in half days: a day begins at an even instant, its      *)
(* midnight, and an event whose source names no time is stored there.      *)
(***************************************************************************)
EXTENDS Integers, FiniteSets, Sequences, SequencesExt, Fusion

CONSTANTS
    Events,          \* ids, ordered as the primary key is
    Slots,           \* the instants events start at
    Unclassified,    \* a segment that is NULL
    Filter, Other,   \* the segment the reader asks for, and a different one
    calendarPageSize, searchResultLimit, searchCandidateLimit,
    Still,           \* the rows on which what does not depend on them is exercised
    MaxChanges,      \* bound on the changes of rows
    Horizon          \* bound on the clock

VARIABLES
    row,      \* row[e]: the events row, joined with the reader's match
    now,
    walk,     \* the feed as the reader has it so far
    steady,   \* history: rows that stayed as the first page's query found them
    later,    \* history: rows moved to a later instant since then
    search,   \* one search request
    changes

cvars == <<row, now, walk, steady, later, search, changes>>

ASSUME CalendarAssumption == /\ Events \subseteq Nat /\ IsFiniteSet(Events)
                             /\ Slots \subseteq Nat
                             /\ calendarPageSize \in Nat \ {0}
                             /\ searchResultLimit \in Nat /\ searchCandidateLimit \in Nat
                             /\ searchResultLimit <= searchCandidateLimit

\* event_over_at: a date-only event has its whole day, another its runtime.
TimeTBD(e) == row[e].at % 2 = 0
OverAt(e) == IF TimeTBD(e) THEN row[e].at + 2 ELSE row[e].at + 1
Showable(e) == ~row[e].archived /\ OverAt(e) > now
Midnight == now - (now % 2)
Passes(e) == row[e].segment \in {Unclassified, Filter}
InFeed(feed, bound, e) == /\ Showable(e)
                          /\ feed = "mine" => row[e].matched
                          /\ Passes(e)
                          /\ row[e].at > bound

NoCursor == [at |-> -1, id |-> -1]
NoWalk == [phase |-> "idle", feed |-> "mine", cursor |-> NoCursor, shown |-> <<>>]
NoSearch == [phase |-> "idle", lexical |-> <<>>, semantic |-> <<>>, results |-> <<>>]

CInit == /\ row \in [Events -> [at : Slots, archived : {FALSE}, matched : BOOLEAN,
                                segment : {Unclassified, Other}]]
         /\ now = 1
         /\ walk = NoWalk /\ steady = {} /\ later = {}
         /\ search = NoSearch
         /\ changes = 0
-----------------------------------------------------------------------------
(* The keyset and the two page queries.                                    *)

Before(d, e) == row[d].at < row[e].at \/ (row[d].at = row[e].at /\ d < e)
\* mutant: a cursor that carries the timestamp alone.
AfterCursorTime(c, e) == row[e].at > c.at
AfterCursor(c, e) == row[e].at > c.at \/ (row[e].at = c.at /\ e > c.id)
PageLimit == calendarPageSize + 1
\* ORDER BY starts_at, id.
Ordered(es) == Sorted(es, {p \in es \X es : Before(p[1], p[2])})
Selected(feed, bound, c) == {e \in Events : InFeed(feed, bound, e) /\ AfterCursor(c, e)}
PageRows(feed, bound, c) == truncateIDs(Ordered(Selected(feed, bound, c)), PageLimit)

\* A row too many says that there is a next page, and is not part of this one.
NextCursor(rows) == [at |-> row[rows[calendarPageSize]].at, id |-> rows[calendarPageSize]]
Paged(w, rows) ==
    IF Len(rows) > calendarPageSize
    THEN [w EXCEPT !.phase = "more", !.cursor = NextCursor(rows),
                   !.shown = @ \o truncateIDs(rows, calendarPageSize)]
    ELSE [w EXCEPT !.phase = "done", !.shown = @ \o rows]

\* The first page: everything after the reader's midnight, and no cursor.
FirstPage(feed) ==
    /\ walk.phase = "idle" /\ search = NoSearch
    /\ walk' = Paged([walk EXCEPT !.feed = feed], PageRows(feed, Midnight, NoCursor))
    /\ steady' = {e \in Events : InFeed(feed, Midnight, e)}
    /\ UNCHANGED <<row, now, later, search, changes>>

\* A later page: the cursor, the filter again, and no bound.
NextPage == /\ walk.phase = "more"
            /\ walk' = Paged(walk, PageRows(walk.feed, -1, walk.cursor))
            /\ UNCHANGED <<row, now, steady, later, search, changes>>

\* What a request that fails leaves: the pages so far, to be asked on from.
GetMyCalendar == FirstPage("mine") \/ (walk.feed = "mine" /\ NextPage)
GetCityCalendar == FirstPage("city") \/ (walk.feed = "city" /\ NextPage)
-----------------------------------------------------------------------------
(* Search: the lexical query, the embedding of the text, the semantic one. *)

\* Similarity is not modelled, and rows change between the two queries: each
\* leg is any ranking of any events.
Rankings == SetToAllKPermutations(Events)
StandsStill == row = Still /\ now = 1 /\ walk = NoWalk

SearchEvents(semantic) ==
    /\ search.phase = "idle" /\ StandsStill
    /\ \E all \in Rankings :
         LET leg == truncateIDs(all, IF semantic THEN searchCandidateLimit ELSE searchResultLimit)
         IN  search' = IF semantic
                       THEN [search EXCEPT !.phase = "lexical", !.lexical = leg]
                       ELSE [search EXCEPT !.phase = "done", !.lexical = leg, !.results = leg]
    /\ UNCHANGED <<row, now, walk, steady, later, changes>>

\* No embedding, or no answer to the semantic query: the lexical leg alone.
SemanticLegFails ==
    /\ search.phase = "lexical"
    /\ search' = [search EXCEPT !.phase = "done",
                  !.results = truncateIDs(search.lexical, searchResultLimit)]
    /\ UNCHANGED <<row, now, walk, steady, later, changes>>

\* mutant: the list rendered out of the lexical rows alone.
ByIDLexical(lexical, semantic) == ToSet(lexical)
ByID(lexical, semantic) == ToSet(lexical) \cup ToSet(semantic)
applySemanticLeg ==
    /\ search.phase = "lexical"
    /\ \E all \in Rankings :
         LET semantic == truncateIDs(all, searchCandidateLimit)
             fused == fuseRRF(search.lexical, semantic, searchResultLimit)
         IN  search' = [search EXCEPT !.phase = "done", !.semantic = semantic,
                        !.results = resultsFor(fused, ByID(search.lexical, semantic))]
    /\ UNCHANGED <<row, now, walk, steady, later, changes>>
-----------------------------------------------------------------------------
(* The rest of the system, on the rows the reader reads.                   *)

\* steady keeps the events this change leaves alone, as the feed sees them.
Change(e, new) ==
    /\ changes < MaxChanges /\ new # row[e]
    /\ row' = [row EXCEPT ![e] = new]
    /\ changes' = changes + 1
    /\ steady' = steady \ {e}
    /\ later' = IF walk.phase # "idle" /\ new.at > row[e].at THEN later \cup {e} ELSE later
    /\ UNCHANGED <<now, walk, search>>

UpsertEvent(e) == \E at \in Slots, s \in {Unclassified, Other} :
    Change(e, [row[e] EXCEPT !.at = at, !.archived = FALSE,
               !.segment = IF s = Unclassified THEN @ ELSE s])
Archive(e) == Change(e, [row[e] EXCEPT !.archived = TRUE])
Match(e) == \E m \in BOOLEAN : Change(e, [row[e] EXCEPT !.matched = m])

Tick == /\ now < Horizon
        /\ now' = now + 1
        /\ steady' = {e \in steady : OverAt(e) > now'}
        /\ UNCHANGED <<row, walk, later, search, changes>>

Environment == /\ search = NoSearch
               /\ Tick \/ \E e \in Events : UpsertEvent(e) \/ Archive(e) \/ Match(e)
CNext == \/ GetMyCalendar \/ GetCityCalendar
         \/ \E semantic \in BOOLEAN : SearchEvents(semantic)
         \/ SemanticLegFails \/ applySemanticLeg
         \/ Environment
-----------------------------------------------------------------------------
(* A feed read to its end shows every event that stayed in it, unmoved,    *)
(* exactly once, whatever happened to the others between two pages, and    *)
(* shows an event twice only if it was moved to a later start meanwhile:   *)
(* the cursor (calendar.sql, cursor.go) names a place, not a row count.    *)
Times(e) == Cardinality({i \in DOMAIN walk.shown : walk.shown[i] = e})
SteadyShownOnce ==
    /\ walk.phase = "done" => \A e \in steady : Times(e) = 1
    /\ \A e \in Events : Times(e) > 1 => e \in later

(* A search lists as many of the events either query found as fit, each    *)
(* once, and never puts one above another that both queries rank at least  *)
(* as high: whatever only the semantic query knows is rendered             *)
(* (search.go: applySemanticLeg, resultsFor), and an embedding that fails  *)
(* costs the semantic leg and nothing else.                                *)
NotBelow(leg, d, e) == e \in ToSet(leg) => d \in ToSet(leg) /\ Rank(leg, d) <= Rank(leg, e)
Dominates(d, e) == d # e /\ NotBelow(search.lexical, d, e) /\ NotBelow(search.semantic, d, e)
Found == Legs(search.lexical, search.semantic)
SearchListsTheBest ==
    search.phase = "done" =>
      LET list == search.results IN
      /\ Len(list) = IF Cardinality(Found) > searchResultLimit THEN searchResultLimit
                     ELSE Cardinality(Found)
      /\ ToSet(list) \subseteq Found /\ Cardinality(ToSet(list)) = Len(list)
      /\ \A d, e \in Found : Dominates(d, e) /\ e \in ToSet(list)
                               => d \in ToSet(list) /\ Rank(list, d) < Rank(list, e)
=============================================================================
