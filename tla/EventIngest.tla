---------------------------- MODULE EventIngest ----------------------------
(***************************************************************************)
(* internal/ingest/events.go and enrichment.go over the upserts of         *)
(* sql/queries: what the events-enriched handler does to the rows of one   *)
(* event and of its headline artist.  A handler is a run of separate SQL   *)
(* statements with no transaction around them; each statement is a step    *)
(* here, and each may fail.  Deliveries come from AtLeastOnceQueue.        *)
(***************************************************************************)
EXTENDS AtLeastOnceQueue, Naturals, Sequences

CONSTANTS
    Content,       \* Content[m]: what the message carries, see ContentType
    Performers,    \* performer names
    Genres,        \* genre strings a message may carry
    KnownGenres,   \* the ones GenreExists finds
    Segments,      \* event segments
    SectionOrder,  \* enrichment sections in upsert order: image, bio, tour
    Duplicates,    \* may a message be delivered while another worker has it,
                   \* or after it was deleted?  (Consumer: BatchSize > 1)
    MaxReceive,    \* deliveries of one message before redrive (3)
    MaxFaults      \* bound: failures the environment may inject

Elems(s) == {s[i] : i \in 1..Len(s)}
Sections == Elems(SectionOrder)

\* decodes: FALSE when neither decode of the body works.  perfs: None stands
\* for an empty name.  genres: slugs, after NormalizeGenre.  artist: the
\* enrichment decoded and names an artist with status ok or not_found.
\* section: the status the section carries; "absent" when the message has no
\* such section, "bad" when validStatus or parseObservedDate rejects it.
ContentType == [decodes: BOOLEAN,
                perfs: Seq(Performers \cup {None}), genres: Seq(Genres),
                segment: Segments \cup {None},
                artist: BOOLEAN,
                section: [Sections -> {"absent", "ok", "none", "error", "bad"}]]

ASSUME IngestAssumption ==
    /\ Content \in [Msgs -> ContentType]
    /\ SectionOrder \in Seq(Sections)
    /\ None \notin Msgs
    /\ KnownGenres \subseteq Genres
    /\ Duplicates \in BOOLEAN
    /\ MaxReceive \in Nat \ {0}
    /\ MaxFaults \in Nat

VARIABLES
    starts,      \* starts[m]: deliveries so far
    event,       \* the events row: writer of its plain columns, link, segment
    perfs,       \* event_performers rows of the event
    genres,      \* event_genres rows of the event
    artist,      \* does the artists row exist?
    section,     \* section[s]: status and payload of the section's row
    acking,      \* acking[w]: the applied message w is about to delete
    pc,          \* pc[w]: statement the handler executes next
    todo,        \* todo[w]: performers, then genres, still to insert
    alone,       \* alone[w]: no other handler has run since w's began (history)
    faults

rows == <<event, perfs, genres, artist, section>>
vars == <<qvars, starts, acking, rows, pc, todo, alone, faults>>

NoEvent == [by |-> None, link |-> FALSE, segment |-> None]

TypeOK == /\ QTypeOK
          /\ starts \in [Msgs -> 0..MaxReceive]
          /\ acking \in [Workers -> Msgs \cup {None}]
          /\ event \in [by: Msgs \cup {None}, link: BOOLEAN, segment: Segments \cup {None}]
          /\ perfs \subseteq Performers
          /\ genres \subseteq KnownGenres
          /\ artist \in BOOLEAN
          /\ section \in [Sections -> [status: {"absent", "ok", "none", "error"},
                                       payload: Msgs \cup {None}]]
          /\ pc \in [Workers -> {"free", "source", "artist", "sections", "venue",
                                 "event", "clearPerfs", "perfs", "clearGenres", "genres"}]
          /\ alone \in [Workers -> BOOLEAN]
          /\ faults \in 0..MaxFaults

Init == /\ QInit
        /\ starts = [m \in Msgs |-> 0]
        /\ acking = [w \in Workers |-> None]
        /\ event = NoEvent
        /\ perfs = {} /\ genres = {}
        /\ artist = FALSE
        /\ section = [s \in Sections |-> [status |-> "absent", payload |-> None]]
        /\ pc = [w \in Workers |-> "free"]
        /\ todo = [w \in Workers |-> {}]
        /\ alone = [w \in Workers |-> FALSE]
        /\ faults = 0
-----------------------------------------------------------------------------
(* The queue, as Consumer leaves it.                                       *)

Send(m) == QSend(m) /\ UNCHANGED <<starts, acking, rows, pc, todo, alone, faults>>

\* A worker has m in hand, from the start of Handle to the end of the delete.
InHand(m) == \E v \in Workers : active[v] = m \/ acking[v] = m

Begin(w, m) == /\ acking[w] = None
               /\ starts[m] < MaxReceive
               /\ Duplicates \/ (status[m] = "queued" /\ ~InHand(m))
               /\ QBegin(w, m)
               /\ starts' = [starts EXCEPT ![m] = @ + 1]
               /\ pc' = [pc EXCEPT ![w] = "source"]
               /\ alone' = [v \in Workers |-> v = w /\ \A u \in Workers : active[u] = None]
               /\ UNCHANGED <<acking, rows, todo, faults>>

\* handleOne deletes what it applied; a message already gone stays gone.
Delete(w) == /\ acking[w] # None
             /\ IF status[acking[w]] = "queued" THEN QDelete(acking[w]) ELSE UNCHANGED qvars
             /\ acking' = [acking EXCEPT ![w] = None]
             /\ UNCHANGED <<starts, rows, pc, todo, alone, faults>>

Redrive(m) == /\ starts[m] = MaxReceive
              /\ Duplicates \/ ~InHand(m)
              /\ QRedrive(m)
              /\ UNCHANGED <<starts, acking, rows, pc, todo, alone, faults>>

\* A statement or the delete fails, or the task dies: the worker ends where it
\* is, and what it wrote stays.
Abandon(W) == /\ \E w \in W : active[w] # None \/ acking[w] # None
              /\ faults < MaxFaults
              /\ faults' = faults + 1
              /\ QAbandon(W)
              /\ acking' = [w \in Workers |-> IF w \in W THEN None ELSE acking[w]]
              /\ pc' = [w \in Workers |-> IF w \in W THEN "free" ELSE pc[w]]
              /\ UNCHANGED <<starts, rows, todo, alone>>
-----------------------------------------------------------------------------
(* handleMessage, statement by statement.                                  *)

Msg(w) == Content[active[w]]
Goto(w, from, to) == pc[w] = from /\ pc' = [pc EXCEPT ![w] = to]
QueueUnchanged == UNCHANGED <<qvars, starts, acking, alone, faults>>

\* Neither decode works: Handle logs the body and returns nil.
DropMalformed(w) == /\ pc[w] = "source" /\ ~Msg(w).decodes
                    /\ QSucceed(w)
                    /\ acking' = [acking EXCEPT ![w] = active[w]]
                    /\ pc' = [pc EXCEPT ![w] = "free"]
                    /\ UNCHANGED <<starts, rows, todo, alone, faults>>

\* GetEventSourceByName; a message without an artist skips the enrichment.
LookupSource(w) == /\ Goto(w, "source", IF Msg(w).artist THEN "artist" ELSE "venue")
                   /\ Msg(w).decodes
                   /\ UNCHANGED <<rows, todo>> /\ QueueUnchanged

\* A section with an unrecognised status or date is skipped.
ValidSections(w) == {i \in 1..Len(SectionOrder) :
                         Msg(w).section[SectionOrder[i]] \in {"ok", "none", "error"}}

\* The statement of the current loop that comes next.
First(w) == CHOOSE i \in todo[w] : \A j \in todo[w] : i <= j

UpsertArtist(w) == /\ Goto(w, "artist", "sections")
                   /\ artist' = TRUE
                   /\ todo' = [todo EXCEPT ![w] = ValidSections(w)]
                   /\ UNCHANGED <<event, perfs, genres, section>> /\ QueueUnchanged

\* mutant: the payload columns are assigned whatever the status
MergedSectionBlind(s, m) == [status |-> Content[m].section[s],
                             payload |-> IF Content[m].section[s] = "ok" THEN m ELSE None]

\* UpsertArtistImage, -Bio and -TourSnapshot: status is overwritten, the
\* payload columns only by an "ok".
MergedSection(s, m) == [status |-> Content[m].section[s],
                        payload |-> IF Content[m].section[s] = "ok"
                                    THEN m ELSE section[s].payload]

UpsertSection(w) == /\ Goto(w, "sections", "sections")
                    /\ todo[w] # {}
                    /\ LET s == SectionOrder[First(w)]
                       IN  section' = [section EXCEPT ![s] = MergedSection(s, active[w])]
                    /\ todo' = [todo EXCEPT ![w] = @ \ {First(w)}]
                    /\ UNCHANGED <<event, perfs, genres, artist>> /\ QueueUnchanged

SectionsDone(w) == /\ todo[w] = {}
                   /\ Goto(w, "sections", "venue")
                   /\ UNCHANGED <<rows, todo>> /\ QueueUnchanged

UpsertVenue(w) == /\ Goto(w, "venue", "event")
                  /\ UNCHANGED <<rows, todo>> /\ QueueUnchanged

\* mutant: EXCLUDED instead of COALESCE
CoalesceNot(new, old) == new

Coalesce(new, old) == IF new = None THEN old ELSE new

\* UpsertEvent: every plain column from the message, the artist link and the
\* segment only when the message has them.
UpsertEvent(w) == /\ Goto(w, "event", "clearPerfs")
                  /\ event' = [by |-> active[w],
                               link |-> Msg(w).artist \/ event.link,
                               segment |-> Coalesce(Msg(w).segment, event.segment)]
                  /\ UNCHANGED <<perfs, genres, artist, section, todo>> /\ QueueUnchanged

\* mutant: performers are added without deleting the old ones
ClearPerformersNot(w) == /\ Goto(w, "clearPerfs", "perfs")
                         /\ todo' = [todo EXCEPT ![w] = 1..Len(Msg(w).perfs)]
                         /\ UNCHANGED rows /\ QueueUnchanged

DeletePerformers(w) == /\ Goto(w, "clearPerfs", "perfs")
                       /\ perfs' = {}
                       /\ todo' = [todo EXCEPT ![w] = 1..Len(Msg(w).perfs)]
                       /\ UNCHANGED <<event, genres, artist, section>> /\ QueueUnchanged

\* INSERT ... ON CONFLICT DO NOTHING, in the message's order; empty names are
\* skipped.
InsertPerformer(w) == /\ Goto(w, "perfs", "perfs")
                      /\ todo[w] # {}
                      /\ perfs' = perfs \cup ({Msg(w).perfs[First(w)]} \ {None})
                      /\ todo' = [todo EXCEPT ![w] = @ \ {First(w)}]
                      /\ UNCHANGED <<event, genres, artist, section>> /\ QueueUnchanged

PerformersDone(w) == /\ todo[w] = {}
                     /\ Goto(w, "perfs", "clearGenres")
                     /\ UNCHANGED <<rows, todo>> /\ QueueUnchanged

DeleteGenres(w) == /\ Goto(w, "clearGenres", "genres")
                   /\ genres' = {}
                   /\ todo' = [todo EXCEPT ![w] = 1..Len(Msg(w).genres)]
                   /\ UNCHANGED <<event, perfs, artist, section>> /\ QueueUnchanged

\* mutant: genres are inserted without asking GenreExists
InsertGenreAny(w) == /\ Goto(w, "genres", "genres")
                     /\ todo[w] # {}
                     /\ genres' = genres \cup {Msg(w).genres[First(w)]}
                     /\ todo' = [todo EXCEPT ![w] = @ \ {First(w)}]
                     /\ UNCHANGED <<event, perfs, artist, section>> /\ QueueUnchanged

\* GenreExists and InsertEventGenre; an unknown genre is dropped.
InsertGenre(w) == /\ Goto(w, "genres", "genres")
                  /\ todo[w] # {}
                  /\ genres' = genres \cup ({Msg(w).genres[First(w)]} \cap KnownGenres)
                  /\ todo' = [todo EXCEPT ![w] = @ \ {First(w)}]
                  /\ UNCHANGED <<event, perfs, artist, section>> /\ QueueUnchanged

\* handleMessage returns nil.
Succeed(w) == /\ pc[w] = "genres" /\ todo[w] = {}
              /\ QSucceed(w)
              /\ acking' = [acking EXCEPT ![w] = active[w]]
              /\ pc' = [pc EXCEPT ![w] = "free"]
              /\ UNCHANGED <<starts, rows, todo, alone, faults>>

Statement(w) == \/ DropMalformed(w)
                \/ LookupSource(w) \/ UpsertArtist(w) \/ UpsertSection(w)
                \/ SectionsDone(w) \/ UpsertVenue(w) \/ UpsertEvent(w)
                \/ DeletePerformers(w) \/ InsertPerformer(w) \/ PerformersDone(w)
                \/ DeleteGenres(w) \/ InsertGenre(w) \/ Succeed(w)

Next == \/ \E m \in Msgs : Send(m) \/ Redrive(m)
        \/ \E w \in Workers : Statement(w) \/ Delete(w) \/ \E m \in Msgs : Begin(w, m)
        \/ \E W \in SUBSET Workers : Abandon(W)

Spec == Init /\ [][Next]_vars
-----------------------------------------------------------------------------
\* The event's rows are those of message m, the whole of them.
Whole(m) == /\ event.by = m
            /\ perfs = Elems(Content[m].perfs) \ {None}
            /\ genres = Elems(Content[m].genres) \cap KnownGenres

(* "a partial failure self-heals on redelivery" (enrichment.go).  A        *)
(* handler that ran with no other handler beside it is about to return nil *)
(* only with the whole of its message in the rows, whatever half-written   *)
(* rows it found.  (Two handlers of one event at once may leave a mixture, *)
(* and then the next message about the event repairs it.)                  *)
LoneHandlerRepairs ==
    \A w \in Workers :
        pc[w] = "genres" /\ todo[w] = {} /\ alone[w] => Whole(active[w])

(* No message, however late, duplicated or bare, blanks what enrichment    *)
(* wrote before: the artist link, the segment and the payload of every     *)
(* section (the COALESCE and CASE guards of the upserts).                  *)
EnrichmentKept ==
    [][/\ event.link => event'.link
       /\ event.segment # None => event'.segment # None
       /\ \A s \in Sections : section[s].payload # None => section'[s].payload # None]_vars

(* buildArtist shows a section whose status is "ok".  A transient error    *)
(* that reaches the row must not take a section the API was showing out    *)
(* of its replies.                                                         *)
Shown(s) == section[s].status = "ok" /\ section[s].payload # None
ErrorHidesNothing ==
    [][\A s \in Sections : Shown(s) /\ section'[s].status = "error" => Shown(s)']_vars
=============================================================================
