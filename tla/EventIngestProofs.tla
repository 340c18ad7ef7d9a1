------------------------- MODULE EventIngestProofs -------------------------
(***************************************************************************)
(* What the events-enriched handler keeps, for any messages about one      *)
(* event, any number of workers, deliveries and failures.                  *)
(***************************************************************************)
EXTENDS EventIngest, WellFoundedInduction, TLAPS

\* A handler is at a statement exactly while it applies a message.
Handling == \A w \in Workers : pc[w] = "free" <=> active[w] = None

TodoType == todo \in [Workers -> SUBSET Nat]

\* A loop has only elements of its own message left to insert.
TodoFits == \A w \in Workers :
    /\ pc[w] = "sections" => todo[w] \subseteq ValidSections(w)
    /\ pc[w] = "perfs" => todo[w] \subseteq 1..Len(Msg(w).perfs)
    /\ pc[w] = "genres" => todo[w] \subseteq 1..Len(Msg(w).genres)

\* Beside a handler that has been alone there is no other.
AloneIsAlone == \A w, v \in Workers :
    alone[w] /\ active[w] # None /\ v # w => active[v] = None

\* Elements of a loop already inserted.
Inserted(s, left) == {s[i] : i \in 1..Len(s) \ left}

EventWritten == {"clearPerfs", "perfs", "clearGenres", "genres"}

\* What a lone handler has written by each statement.
Progress(w) ==
    /\ pc[w] \in EventWritten => event.by = active[w]
    /\ pc[w] = "perfs" => perfs = Inserted(Msg(w).perfs, todo[w]) \ {None}
    /\ pc[w] \in {"clearGenres", "genres"} => perfs = Elems(Msg(w).perfs) \ {None}
    /\ pc[w] = "genres" => genres = Inserted(Msg(w).genres, todo[w]) \cap KnownGenres

LoneProgress == \A w \in Workers : alone[w] => Progress(w)

IngestInv == TodoType /\ Handling /\ TodoFits /\ AloneIsAlone /\ LoneProgress

\* The rows of TypeOK, and the statements of a handler.
RowsType == /\ event \in [by: Msgs \cup {None}, link: BOOLEAN, segment: Segments \cup {None}]
            /\ perfs \subseteq Performers
            /\ genres \subseteq KnownGenres
            /\ artist \in BOOLEAN
            /\ section \in [Sections -> [status: {"absent", "ok", "none", "error"},
                                         payload: Msgs \cup {None}]]

Statements == {"source", "artist", "sections", "venue", "event", "clearPerfs", "perfs",
               "clearGenres", "genres"}

LEMMA TypeParts ==
    TypeOK <=> /\ QTypeOK /\ RowsType
               /\ starts \in [Msgs -> 0..MaxReceive]
               /\ acking \in [Workers -> Msgs \cup {None}]
               /\ pc \in [Workers -> {"free"} \cup Statements]
               /\ alone \in [Workers -> BOOLEAN]
               /\ faults \in 0..MaxFaults
  <1>1. {"free"} \cup Statements = {"free", "source", "artist", "sections", "venue",
                                 "event", "clearPerfs", "perfs", "clearGenres", "genres"}
    BY DEF Statements
  <1> QED BY <1>1 DEF TypeOK, RowsType

(***************************************************************************)
(* A set of numbers that is not empty has a least one, so that a loop's    *)
(* next element is one it still has.                                       *)
(***************************************************************************)
LEMMA LeastOf ==
    ASSUME NEW T, T \subseteq Nat, T # {}
    PROVE  \E x \in T : \A y \in T : x <= y
  <1> DEFINE R == {ss \in Nat \X Nat : ss[1] < ss[2]}
  <1>1. IsWellFoundedOn(R, Nat)
    BY NatLessThanWellFounded DEF OpToRel
  <1>2. PICK x \in T : \A y \in T : ~(<<y, x>> \in R)
    <2> HIDE DEF R
    <2> QED BY <1>1, WFMin
  <1>3. ASSUME NEW y \in T PROVE x <= y
    <2>1. x \in Nat /\ y \in Nat
      OBVIOUS
    <2>2. y < x => <<y, x>> \in R
      BY <2>1
    <2> QED BY <2>1, <2>2, <1>2
  <1> QED BY <1>3

LEMMA FirstIsLeft ==
    ASSUME TodoType, NEW w \in Workers, todo[w] # {}
    PROVE  First(w) \in todo[w]
  <1>1. \E x \in todo[w] : \A y \in todo[w] : x <= y
    BY LeastOf DEF TodoType
  <1> QED BY <1>1 DEF First

\* A handler has a message, and no lone handler is beside it.
LEMMA InTheMiddle ==
    ASSUME TypeOK, IngestInv, NEW w \in Workers, pc[w] # "free"
    PROVE  /\ active[w] \in Msgs /\ active[w] # None /\ Content[active[w]] \in ContentType
           /\ \A v \in Workers : v # w /\ alone[v] => pc[v] = "free"
  <1>1. active[w] # None
    BY DEF IngestInv, Handling
  <1>2. active[w] \in Msgs
    BY <1>1 DEF TypeOK, QTypeOK
  <1>3. ASSUME NEW v \in Workers, v # w, alone[v] PROVE pc[v] = "free"
    BY <1>1, <1>3 DEF IngestInv, Handling, AloneIsAlone
  <1> QED BY <1>1, <1>2, <1>3, IngestAssumption

\* A handler goes from one statement to the next, or around its loop.
LEMMA OwnStep ==
    ASSUME TypeOK, IngestInv, NEW w \in Workers, pc[w] # "free",
           NEW to \in Statements, NEW left \in SUBSET Nat,
           pc' = [pc EXCEPT ![w] = to],
           todo' = [todo EXCEPT ![w] = left],
           QueueUnchanged, RowsType',
           to = "sections" => left \subseteq ValidSections(w),
           to = "perfs" => left \subseteq 1..Len(Msg(w).perfs),
           to = "genres" => left \subseteq 1..Len(Msg(w).genres),
           alone[w] => Progress(w)'
    PROVE  TypeOK' /\ IngestInv'
  <1>1. UNCHANGED <<status, active, applied, starts, acking, alone, faults>>
    BY DEF QueueUnchanged, qvars
  <1>2. pc \in [Workers -> {"free"} \cup Statements]
    BY TypeParts
  <1>3. TypeOK'
    <2>1. QTypeOK'
      BY <1>1 DEF TypeOK, QTypeOK
    <2>2. pc' \in [Workers -> {"free", "source", "artist", "sections", "venue", "event",
                              "clearPerfs", "perfs", "clearGenres", "genres"}]
      BY <1>2 DEF Statements
    <2> QED BY <1>1, <2>1, <2>2 DEF TypeOK, RowsType
  <1>4. TodoType'
    BY DEF IngestInv, TodoType
  <1>5. Handling'
    <2>1. to # "free"
      BY DEF Statements
    <2> QED BY <1>1, <1>2, <2>1 DEF IngestInv, Handling
  <1>6. TodoFits'
    BY <1>1, <1>2 DEF IngestInv, TodoType, TodoFits, ValidSections, Msg
  <1>7. AloneIsAlone'
    BY <1>1 DEF IngestInv, AloneIsAlone
  <1>8. LoneProgress'
    <2> SUFFICES ASSUME NEW v \in Workers, alone'[v] PROVE Progress(v)'
      BY DEF LoneProgress
    <2>1. CASE v = w
      BY <1>1, <2>1
    <2>2. CASE v # w
      <3>1. pc'[v] = "free"
        BY <1>1, <1>2, <2>2, InTheMiddle
      <3> QED BY <3>1 DEF Progress, EventWritten
    <2> QED BY <2>1, <2>2
  <1> QED BY <1>3, <1>4, <1>5, <1>6, <1>7, <1>8 DEF IngestInv

\* A statement before the rows of the event are written.
LEMMA EarlyStep ==
    ASSUME TypeOK, IngestInv, NEW w \in Workers, pc[w] # "free",
           NEW to \in {"artist", "sections", "venue", "event"}, NEW left \in SUBSET Nat,
           pc' = [pc EXCEPT ![w] = to],
           todo' = [todo EXCEPT ![w] = left],
           QueueUnchanged, RowsType',
           to = "sections" => left \subseteq ValidSections(w)
    PROVE  TypeOK' /\ IngestInv'
  <1>1. to \in Statements /\ to \notin EventWritten
    BY DEF Statements, EventWritten
  <1>2. pc'[w] = to
    BY TypeParts
  <1>3. Progress(w)'
    BY <1>1, <1>2 DEF Progress, EventWritten
  <1> QED BY <1>1, <1>3, OwnStep DEF EventWritten

LEMMA SameTodo ==
    ASSUME IngestInv, NEW w \in Workers
    PROVE  todo = [todo EXCEPT ![w] = todo[w]] /\ todo[w] \in SUBSET Nat
  BY DEF IngestInv, TodoType

LEMMA SameRows == ASSUME TypeOK, UNCHANGED rows PROVE RowsType'
  BY DEF TypeOK, RowsType, rows

LEMMA LookupSourceKeeps ==
    ASSUME TypeOK, IngestInv, NEW w \in Workers, LookupSource(w)
    PROVE  TypeOK' /\ IngestInv'
  <1> DEFINE to == IF Msg(w).artist THEN "artist" ELSE "venue"
             left == todo[w]
  <1>1. /\ to \in {"artist", "sections", "venue", "event"} /\ to # "sections"
    OBVIOUS
  <1>2. pc[w] # "free" /\ pc' = [pc EXCEPT ![w] = to] /\ UNCHANGED rows /\ QueueUnchanged
    BY DEF LookupSource, Goto
  <1>3. todo' = [todo EXCEPT ![w] = left] /\ left \in SUBSET Nat
    BY SameTodo DEF LookupSource
  <1> HIDE DEF to, left
  <1> QED BY <1>1, <1>2, <1>3, SameRows, EarlyStep

LEMMA UpsertArtistKeeps ==
    ASSUME TypeOK, IngestInv, NEW w \in Workers, UpsertArtist(w)
    PROVE  TypeOK' /\ IngestInv'
  <1> DEFINE left == ValidSections(w)
  <1>1. /\ pc[w] # "free" /\ pc' = [pc EXCEPT ![w] = "sections"] /\ QueueUnchanged
        /\ todo' = [todo EXCEPT ![w] = left]
    BY DEF UpsertArtist, Goto
  <1>2. RowsType'
    BY DEF UpsertArtist, TypeOK, RowsType
  <1>3. left \in SUBSET Nat
    BY IngestAssumption DEF ValidSections
  <1> HIDE DEF left
  <1>4. left \subseteq ValidSections(w)
    BY DEF left
  <1> QED BY <1>1, <1>2, <1>3, <1>4, EarlyStep

LEMMA UpsertSectionKeeps ==
    ASSUME TypeOK, IngestInv, NEW w \in Workers, UpsertSection(w)
    PROVE  TypeOK' /\ IngestInv'
  <1> DEFINE i == First(w)
             s == SectionOrder[i]
             new == MergedSection(s, active[w])
             left == todo[w] \ {i}
  <1>1. /\ pc[w] = "sections" /\ pc' = [pc EXCEPT ![w] = "sections"] /\ QueueUnchanged
        /\ todo' = [todo EXCEPT ![w] = left] /\ section' = [section EXCEPT ![s] = new]
        /\ UNCHANGED <<event, perfs, genres, artist>>
    BY DEF UpsertSection, Goto
  <1>2. i \in ValidSections(w) /\ left \subseteq ValidSections(w) /\ left \in SUBSET Nat
    <2>1. i \in todo[w]
      BY FirstIsLeft DEF UpsertSection, IngestInv
    <2> QED BY <1>1, <2>1 DEF IngestInv, TodoFits, TodoType
  <1>3. s \in Sections /\ Content[active[w]].section[s] \in {"ok", "none", "error"}
    BY <1>2, IngestAssumption DEF ValidSections, Sections, Elems, Msg
  <1>4. new \in [status: {"absent", "ok", "none", "error"}, payload: Msgs \cup {None}]
    <2>1. active[w] \in Msgs
      BY <1>1, InTheMiddle
    <2>2. section[s].payload \in Msgs \cup {None}
      BY <1>3 DEF TypeOK
    <2> QED BY <1>3, <2>1, <2>2 DEF MergedSection
  <1> HIDE DEF s, new, left
  <1>5. RowsType'
    BY <1>1, <1>3, <1>4 DEF TypeOK, RowsType
  <1> QED BY <1>1, <1>2, <1>5, EarlyStep

LEMMA PassOnKeeps ==
    ASSUME TypeOK, IngestInv, NEW w \in Workers, SectionsDone(w) \/ UpsertVenue(w)
    PROVE  TypeOK' /\ IngestInv'
  <1> DEFINE left == todo[w]
  <1>1. todo' = [todo EXCEPT ![w] = left] /\ left \in SUBSET Nat
    BY SameTodo DEF SectionsDone, UpsertVenue
  <1>2. UNCHANGED rows /\ QueueUnchanged /\ pc[w] # "free"
    BY DEF SectionsDone, UpsertVenue, Goto
  <1>3. \/ pc' = [pc EXCEPT ![w] = "venue"] \/ pc' = [pc EXCEPT ![w] = "event"]
    BY DEF SectionsDone, UpsertVenue, Goto
  <1> HIDE DEF left
  <1> QED BY <1>1, <1>2, <1>3, SameRows, EarlyStep

LEMMA UpsertEventKeeps ==
    ASSUME TypeOK, IngestInv, NEW w \in Workers, UpsertEvent(w)
    PROVE  TypeOK' /\ IngestInv'
  <1> DEFINE left == todo[w]
             link == Msg(w).artist \/ event.link
             seg == Coalesce(Msg(w).segment, event.segment)
  <1>1. /\ pc[w] = "event" /\ pc' = [pc EXCEPT ![w] = "clearPerfs"] /\ QueueUnchanged
        /\ event' = [by |-> active[w], link |-> link, segment |-> seg]
        /\ UNCHANGED <<perfs, genres, artist, section>>
    BY DEF UpsertEvent, Goto
  <1>2. todo' = [todo EXCEPT ![w] = left] /\ left \in SUBSET Nat
    BY SameTodo DEF UpsertEvent
  <1>3. active[w] \in Msgs /\ Content[active[w]] \in ContentType
    BY <1>1, InTheMiddle
  <1>4. link \in BOOLEAN /\ seg \in Segments \cup {None}
    BY <1>3 DEF TypeOK, Coalesce, Msg, ContentType
  <1> HIDE DEF left, link, seg
  <1>5. event'.by = active[w]
    BY <1>1
  <1>6. RowsType'
    BY <1>1, <1>3, <1>4 DEF TypeOK, RowsType
  <1>7. active' = active /\ pc'[w] = "clearPerfs"
    BY <1>1, TypeParts DEF QueueUnchanged, qvars
  <1>8. Progress(w)'
    BY <1>5, <1>7 DEF Progress
  <1> QED BY <1>1, <1>2, <1>6, <1>8, OwnStep DEF Statements

LEMMA DeletePerformersKeeps ==
    ASSUME TypeOK, IngestInv, NEW w \in Workers, DeletePerformers(w)
    PROVE  TypeOK' /\ IngestInv'
  <1> DEFINE s == Msg(w).perfs
             left == 1..Len(s)
  <1>1. /\ pc[w] = "clearPerfs" /\ pc' = [pc EXCEPT ![w] = "perfs"] /\ QueueUnchanged
        /\ todo' = [todo EXCEPT ![w] = left] /\ perfs' = {}
        /\ UNCHANGED <<event, genres, artist, section>>
    BY DEF DeletePerformers, Goto
  <1>2. s \in Seq(Performers \cup {None})
    BY <1>1, InTheMiddle DEF Msg, ContentType
  <1>3. left \in SUBSET Nat
    BY <1>2
  <1>4. RowsType'
    BY <1>1 DEF TypeOK, RowsType
  <1>5. ASSUME alone[w] PROVE Progress(w)'
    <2>1. /\ active' = active /\ pc'[w] = "perfs" /\ todo'[w] = left
      BY <1>1, TypeParts DEF QueueUnchanged, qvars, IngestInv, TodoType
    <2>2. event'.by = active[w]
      BY <1>1, <1>5 DEF IngestInv, LoneProgress, Progress, EventWritten
    <2>3. Inserted(s, left) = {}
      BY DEF Inserted
    <2>4. Msg(w)' = Msg(w)
      BY <2>1 DEF Msg
    <2> QED BY <1>1, <2>1, <2>2, <2>3, <2>4 DEF Progress
  <1>6. left \subseteq 1..Len(Msg(w).perfs)
    OBVIOUS
  <1> HIDE DEF left, s
  <1> QED BY <1>1, <1>3, <1>4, <1>5, <1>6, OwnStep DEF Statements

\* One more element of a loop.
LEMMA InsertOne ==
    ASSUME NEW S, NEW s \in Seq(S), NEW left \in SUBSET (1..Len(s)), NEW i \in left
    PROVE  /\ s[i] \in S /\ i \in 1..Len(s)
           /\ Inserted(s, left \ {i}) = Inserted(s, left) \cup {s[i]}
  BY DEF Inserted

LEMMA InsertPerformerKeeps ==
    ASSUME TypeOK, IngestInv, NEW w \in Workers, InsertPerformer(w)
    PROVE  TypeOK' /\ IngestInv'
  <1> DEFINE s == Msg(w).perfs
             i == First(w)
             left == todo[w] \ {i}
  <1>1. /\ pc[w] = "perfs" /\ pc' = [pc EXCEPT ![w] = "perfs"] /\ QueueUnchanged
        /\ todo' = [todo EXCEPT ![w] = left] /\ perfs' = perfs \cup ({s[i]} \ {None})
        /\ UNCHANGED <<event, genres, artist, section>>
    BY DEF InsertPerformer, Goto
  <1>2. s \in Seq(Performers \cup {None})
    BY <1>1, InTheMiddle DEF Msg, ContentType
  <1>3. i \in todo[w] /\ todo[w] \in SUBSET (1..Len(s)) /\ left \in SUBSET Nat
    <2>1. i \in todo[w]
      BY FirstIsLeft DEF InsertPerformer, IngestInv
    <2> QED BY <1>1, <2>1 DEF IngestInv, TodoFits, TodoType
  <1>4. s[i] \in Performers \cup {None} /\ Inserted(s, left) = Inserted(s, todo[w]) \cup {s[i]}
    <2> HIDE DEF s, i
    <2> QED BY <1>2, <1>3, InsertOne
  <1>5. RowsType'
    BY <1>1, <1>4 DEF TypeOK, RowsType
  <1>6. ASSUME alone[w] PROVE Progress(w)'
    <2>1. /\ active' = active /\ pc'[w] = "perfs" /\ todo'[w] = left
      BY <1>1, TypeParts DEF QueueUnchanged, qvars, IngestInv, TodoType
    <2>2. event'.by = active[w] /\ perfs = Inserted(s, todo[w]) \ {None}
      BY <1>1, <1>6 DEF IngestInv, LoneProgress, Progress, EventWritten
    <2>3. Msg(w)' = Msg(w)
      BY <2>1 DEF Msg
    <2>4. perfs' = Inserted(s, left) \ {None}
      BY <1>1, <1>4, <2>2
    <2> QED BY <2>1, <2>2, <2>3, <2>4 DEF Progress
  <1>7. left \subseteq 1..Len(Msg(w).perfs)
    BY <1>3
  <1> HIDE DEF left, s
  <1> QED BY <1>1, <1>3, <1>5, <1>6, <1>7, OwnStep DEF Statements

\* With nothing left a loop has inserted everything.
LEMMA AllInserted == ASSUME NEW s PROVE Inserted(s, {}) = Elems(s)
  BY DEF Inserted, Elems

LEMMA PerformersDoneKeeps ==
    ASSUME TypeOK, IngestInv, NEW w \in Workers, PerformersDone(w)
    PROVE  TypeOK' /\ IngestInv'
  <1> DEFINE left == todo[w]
  <1>1. /\ pc[w] = "perfs" /\ pc' = [pc EXCEPT ![w] = "clearGenres"] /\ QueueUnchanged
        /\ todo[w] = {} /\ UNCHANGED rows
    BY DEF PerformersDone, Goto
  <1>2. todo' = [todo EXCEPT ![w] = left] /\ left \in SUBSET Nat
    BY SameTodo DEF PerformersDone
  <1>3. ASSUME alone[w] PROVE Progress(w)'
    <2>1. active' = active /\ pc'[w] = "clearGenres"
      BY <1>1, TypeParts DEF QueueUnchanged, qvars
    <2>2. event'.by = active[w] /\ perfs' = Elems(Msg(w).perfs) \ {None}
      BY <1>1, <1>3, AllInserted DEF IngestInv, LoneProgress, Progress, EventWritten, rows
    <2>3. Msg(w)' = Msg(w)
      BY <2>1 DEF Msg
    <2> QED BY <2>1, <2>2, <2>3 DEF Progress
  <1> HIDE DEF left
  <1> QED BY <1>1, <1>2, <1>3, SameRows, OwnStep DEF Statements

LEMMA DeleteGenresKeeps ==
    ASSUME TypeOK, IngestInv, NEW w \in Workers, DeleteGenres(w)
    PROVE  TypeOK' /\ IngestInv'
  <1> DEFINE s == Msg(w).genres
             left == 1..Len(s)
  <1>1. /\ pc[w] = "clearGenres" /\ pc' = [pc EXCEPT ![w] = "genres"] /\ QueueUnchanged
        /\ todo' = [todo EXCEPT ![w] = left] /\ genres' = {}
        /\ UNCHANGED <<event, perfs, artist, section>>
    BY DEF DeleteGenres, Goto
  <1>2. s \in Seq(Genres)
    BY <1>1, InTheMiddle DEF Msg, ContentType
  <1>3. left \in SUBSET Nat
    BY <1>2
  <1>4. RowsType'
    BY <1>1 DEF TypeOK, RowsType
  <1>5. ASSUME alone[w] PROVE Progress(w)'
    <2>1. /\ active' = active /\ pc'[w] = "genres" /\ todo'[w] = left
      BY <1>1, TypeParts DEF QueueUnchanged, qvars, IngestInv, TodoType
    <2>2. event'.by = active[w] /\ perfs' = Elems(Msg(w).perfs) \ {None}
      BY <1>1, <1>5 DEF IngestInv, LoneProgress, Progress, EventWritten
    <2>3. Inserted(s, left) \cap KnownGenres = {}
      BY DEF Inserted
    <2>4. Msg(w)' = Msg(w)
      BY <2>1 DEF Msg
    <2> QED BY <1>1, <2>1, <2>2, <2>3, <2>4 DEF Progress
  <1>6. left \subseteq 1..Len(Msg(w).genres)
    OBVIOUS
  <1> HIDE DEF left, s
  <1> QED BY <1>1, <1>3, <1>4, <1>5, <1>6, OwnStep DEF Statements

LEMMA InsertGenreKeeps ==
    ASSUME TypeOK, IngestInv, NEW w \in Workers, InsertGenre(w)
    PROVE  TypeOK' /\ IngestInv'
  <1> DEFINE s == Msg(w).genres
             i == First(w)
             left == todo[w] \ {i}
  <1>1. /\ pc[w] = "genres" /\ pc' = [pc EXCEPT ![w] = "genres"] /\ QueueUnchanged
        /\ todo' = [todo EXCEPT ![w] = left] /\ genres' = genres \cup ({s[i]} \cap KnownGenres)
        /\ UNCHANGED <<event, perfs, artist, section>>
    BY DEF InsertGenre, Goto
  <1>2. s \in Seq(Genres)
    BY <1>1, InTheMiddle DEF Msg, ContentType
  <1>3. i \in todo[w] /\ todo[w] \in SUBSET (1..Len(s)) /\ left \in SUBSET Nat
    <2>1. i \in todo[w]
      BY FirstIsLeft DEF InsertGenre, IngestInv
    <2> QED BY <1>1, <2>1 DEF IngestInv, TodoFits, TodoType
  <1>4. Inserted(s, left) = Inserted(s, todo[w]) \cup {s[i]}
    <2> HIDE DEF s, i
    <2> QED BY <1>2, <1>3, InsertOne
  <1>5. RowsType'
    BY <1>1 DEF TypeOK, RowsType
  <1>6. ASSUME alone[w] PROVE Progress(w)'
    <2>1. /\ active' = active /\ pc'[w] = "genres" /\ todo'[w] = left
      BY <1>1, TypeParts DEF QueueUnchanged, qvars, IngestInv, TodoType
    <2>2. /\ event'.by = active[w] /\ perfs' = Elems(Msg(w).perfs) \ {None}
          /\ genres = Inserted(s, todo[w]) \cap KnownGenres
      BY <1>1, <1>6 DEF IngestInv, LoneProgress, Progress, EventWritten
    <2>3. Msg(w)' = Msg(w)
      BY <2>1 DEF Msg
    <2>4. genres' = Inserted(s, left) \cap KnownGenres
      BY <1>1, <1>4, <2>2
    <2> QED BY <2>1, <2>2, <2>3, <2>4 DEF Progress
  <1>7. left \subseteq 1..Len(Msg(w).genres)
    BY <1>3
  <1> HIDE DEF left, s
  <1> QED BY <1>1, <1>3, <1>5, <1>6, <1>7, OwnStep DEF Statements

\* Any set of handlers end, and write nothing.
LEMMA Stop ==
    ASSUME TypeOK, IngestInv, NEW W \in SUBSET Workers,
           active' = [v \in Workers |-> IF v \in W THEN None ELSE active[v]],
           pc' = [v \in Workers |-> IF v \in W THEN "free" ELSE pc[v]],
           UNCHANGED <<status, starts, rows, todo, alone>>,
           applied' \subseteq Msgs,
           acking' \in [Workers -> Msgs \cup {None}],
           faults' \in 0..MaxFaults
    PROVE  TypeOK' /\ IngestInv'
  <1>1. TypeOK'
    BY DEF TypeOK, QTypeOK, rows
  <1>2. TodoType' /\ Handling' /\ AloneIsAlone'
    BY DEF IngestInv, TodoType, Handling, AloneIsAlone
  <1>3. TodoFits'
    BY DEF IngestInv, TodoFits, ValidSections, Msg
  <1>4. LoneProgress'
    <2> SUFFICES ASSUME NEW v \in Workers, alone'[v] PROVE Progress(v)'
      BY DEF LoneProgress
    <2>1. CASE v \in W
      <3>1. pc'[v] = "free"
        BY <2>1
      <3> QED BY <3>1 DEF Progress, EventWritten
    <2>2. CASE v \notin W
      <3>1. pc'[v] = pc[v] /\ active'[v] = active[v] /\ Progress(v)
        BY <2>2 DEF IngestInv, LoneProgress
      <3> QED BY <3>1 DEF Progress, Msg, rows
    <2> QED BY <2>1, <2>2
  <1> QED BY <1>1, <1>2, <1>3, <1>4 DEF IngestInv

LEMMA EndKeeps ==
    ASSUME TypeOK, IngestInv, NEW w \in Workers, DropMalformed(w) \/ Succeed(w)
    PROVE  TypeOK' /\ IngestInv'
  <1> DEFINE W == {w}
  <1>1. /\ active' = [active EXCEPT ![w] = None] /\ pc' = [pc EXCEPT ![w] = "free"]
        /\ applied' = applied \cup {active[w]} /\ acking' = [acking EXCEPT ![w] = active[w]]
        /\ UNCHANGED <<status, starts, rows, todo, alone>> /\ faults' = faults /\ active[w] # None
    BY DEF DropMalformed, Succeed, QSucceed
  <1>2. active[w] \in Msgs
    BY <1>1 DEF TypeOK, QTypeOK
  <1>3. /\ active' = [v \in Workers |-> IF v \in W THEN None ELSE active[v]]
        /\ pc' = [v \in Workers |-> IF v \in W THEN "free" ELSE pc[v]]
    BY <1>1 DEF TypeOK, QTypeOK
  <1>4. /\ applied' \subseteq Msgs /\ acking' \in [Workers -> Msgs \cup {None}]
        /\ faults' \in 0..MaxFaults
    BY <1>1, <1>2 DEF TypeOK, QTypeOK
  <1>5. W \in SUBSET Workers
    OBVIOUS
  <1> HIDE DEF W
  <1> QED BY <1>1, <1>3, <1>4, <1>5, Stop

LEMMA AbandonKeeps ==
    ASSUME TypeOK, IngestInv, NEW W \in SUBSET Workers, Abandon(W)
    PROVE  TypeOK' /\ IngestInv'
  <1>1. /\ active' = [v \in Workers |-> IF v \in W THEN None ELSE active[v]]
        /\ pc' = [v \in Workers |-> IF v \in W THEN "free" ELSE pc[v]]
        /\ UNCHANGED <<status, starts, rows, todo, alone>> /\ applied' = applied
    BY DEF Abandon, QAbandon
  <1>2. acking' \in [Workers -> Msgs \cup {None}] /\ faults' \in 0..MaxFaults
    BY IngestAssumption DEF Abandon, TypeOK
  <1>3. applied' \subseteq Msgs
    BY <1>1 DEF TypeOK, QTypeOK
  <1> QED BY <1>1, <1>2, <1>3, Stop

\* A step of the queue alone.
LEMMA QueueKeeps ==
    ASSUME TypeOK, IngestInv,
           \/ \E m \in Msgs : Send(m) \/ Redrive(m)
           \/ \E w \in Workers : Delete(w)
    PROVE  TypeOK' /\ IngestInv'
  <1>1. UNCHANGED <<active, applied, starts, rows, pc, todo, alone, faults>>
    BY DEF Send, Redrive, Delete, QSend, QRedrive, QDelete, qvars
  <1>2. /\ status' \in [Msgs -> Status] /\ acking' \in [Workers -> Msgs \cup {None}]
    <2>1. ASSUME NEW m \in Msgs, Send(m) \/ Redrive(m)
          PROVE  status' \in [Msgs -> Status] /\ acking' = acking
      BY <2>1 DEF TypeOK, QTypeOK, Status, Send, Redrive, QSend, QRedrive
    <2>2. ASSUME NEW w \in Workers, Delete(w)
          PROVE  status' \in [Msgs -> Status] /\ acking' = [acking EXCEPT ![w] = None]
      BY <2>2 DEF TypeOK, QTypeOK, Status, Delete, QDelete, qvars
    <2> QED BY <2>1, <2>2 DEF TypeOK
  <1>3. TypeOK'
    BY <1>1, <1>2 DEF TypeOK, QTypeOK, rows
  <1>4. IngestInv'
    BY <1>1 DEF IngestInv, TodoType, Handling, TodoFits, AloneIsAlone, LoneProgress, Progress,
                ValidSections, Msg, rows
  <1> QED BY <1>3, <1>4

LEMMA BeginKeeps ==
    ASSUME TypeOK, IngestInv, NEW w \in Workers, NEW m \in Msgs, Begin(w, m)
    PROVE  TypeOK' /\ IngestInv'
  <1>1. /\ active[w] = None /\ active' = [active EXCEPT ![w] = m] /\ m # None
        /\ pc' = [pc EXCEPT ![w] = "source"] /\ UNCHANGED <<status, applied, acking, rows, todo, faults>>
        /\ starts' = [starts EXCEPT ![m] = @ + 1] /\ starts[m] < MaxReceive
    BY IngestAssumption DEF Begin, QBegin
  <1>2. \A v \in Workers : alone'[v] <=> v = w /\ \A u \in Workers : active[u] = None
    BY DEF Begin
  <1>3. alone' \in [Workers -> BOOLEAN]
    BY DEF Begin
  <1>4. TypeOK'
    <2>1. starts' \in [Msgs -> 0..MaxReceive]
      BY <1>1, IngestAssumption DEF TypeOK
    <2> QED BY <1>1, <1>3, <2>1 DEF TypeOK, QTypeOK, rows
  <1>5. TodoType' /\ Handling' /\ TodoFits'
    BY <1>1 DEF TypeOK, QTypeOK, IngestInv, TodoType, Handling, TodoFits, ValidSections, Msg
  <1>6. AloneIsAlone'
    BY <1>1, <1>2 DEF TypeOK, QTypeOK, AloneIsAlone
  <1>7. LoneProgress'
    <2> SUFFICES ASSUME NEW v \in Workers, alone'[v] PROVE Progress(v)'
      BY DEF LoneProgress
    <2>1. v = w
      BY <1>2
    <2>2. pc'[v] = "source"
      BY <1>1, <2>1 DEF TypeOK
    <2> QED BY <2>2 DEF Progress, EventWritten
  <1> QED BY <1>4, <1>5, <1>6, <1>7 DEF IngestInv

LEMMA NextIngest == TypeOK /\ IngestInv /\ [Next]_vars => TypeOK' /\ IngestInv'
  <1> SUFFICES ASSUME TypeOK, IngestInv, [Next]_vars PROVE TypeOK' /\ IngestInv'
    OBVIOUS
  <1>1. ASSUME NEW w \in Workers, Statement(w) PROVE TypeOK' /\ IngestInv'
    BY <1>1, EndKeeps, LookupSourceKeeps, UpsertArtistKeeps, UpsertSectionKeeps, PassOnKeeps,
       UpsertEventKeeps, DeletePerformersKeeps, InsertPerformerKeeps, PerformersDoneKeeps,
       DeleteGenresKeeps, InsertGenreKeeps
       DEF Statement
  <1>2. ASSUME NEW w \in Workers, NEW m \in Msgs, Begin(w, m) PROVE TypeOK' /\ IngestInv'
    BY <1>2, BeginKeeps
  <1>3. CASE \/ \E m \in Msgs : Send(m) \/ Redrive(m)
             \/ \E w \in Workers : Delete(w)
    BY <1>3, QueueKeeps
  <1>4. ASSUME NEW W \in SUBSET Workers, Abandon(W) PROVE TypeOK' /\ IngestInv'
    BY <1>4, AbandonKeeps
  <1>5. CASE UNCHANGED vars
    BY <1>5 DEF vars, qvars, rows, TypeOK, QTypeOK, IngestInv, TodoType, Handling, TodoFits, AloneIsAlone,
       LoneProgress, Progress, ValidSections, Msg
  <1> QED BY <1>1, <1>2, <1>3, <1>4, <1>5 DEF Next

LEMMA InitIngest == Init => TypeOK /\ IngestInv
  <1> SUFFICES ASSUME Init PROVE TypeOK /\ IngestInv
    OBVIOUS
  <1>1. TypeOK
    <2> DEFINE b == FALSE
    <2>1. b \in BOOLEAN /\ event = [by |-> None, link |-> b, segment |-> None]
      BY DEF Init, NoEvent
    <2> HIDE DEF b
    <2>2. event \in [by: Msgs \cup {None}, link: BOOLEAN, segment: Segments \cup {None}]
      BY <2>1
    <2>3. alone \in [Workers -> BOOLEAN] /\ artist \in BOOLEAN
      BY DEF Init
    <2> QED BY <2>2, <2>3, IngestAssumption DEF Init, QInit, TypeOK, QTypeOK, Status
  <1>2. IngestInv
    BY DEF Init, QInit, IngestInv, TodoType, Handling, TodoFits, AloneIsAlone, LoneProgress
  <1> QED BY <1>1, <1>2

LEMMA IngestInvariant == Spec => [](TypeOK /\ IngestInv)
  BY InitIngest, NextIngest, PTL DEF Spec

(* The shape of the rows: whatever the messages carry, only known genres    *)
(* and named performers are written, and no section has a status the table  *)
(* does not know.                                                           *)
THEOREM IngestType == Spec => []TypeOK
  BY IngestInvariant, PTL

(* "a partial failure self-heals on redelivery" (enrichment.go): a handler  *)
(* with no other beside it ends with the whole of its message in the rows,  *)
(* whatever those before it left half-written.                              *)
THEOREM LoneHandlerLeavesTheWhole == Spec => []LoneHandlerRepairs
  <1>1. TypeOK /\ IngestInv => LoneHandlerRepairs
    <2> SUFFICES ASSUME IngestInv, NEW w \in Workers, pc[w] = "genres", todo[w] = {}, alone[w]
                 PROVE  Whole(active[w])
      BY DEF LoneHandlerRepairs
    <2>1. Progress(w)
      BY DEF IngestInv, LoneProgress
    <2> QED BY <2>1, AllInserted DEF Progress, EventWritten, Whole, Msg
  <1> QED BY <1>1, IngestInvariant, PTL

(* The COALESCE and CASE guards of the upserts: no message, however late,   *)
(* duplicated or bare, blanks the artist link, the segment or the payload   *)
(* of a section.                                                            *)
THEOREM NothingEnrichedIsBlanked == Spec => EnrichmentKept
  <1> DEFINE Kept == /\ event.link => event'.link
                     /\ event.segment # None => event'.segment # None
                     /\ \A s \in Sections : section[s].payload # None => section'[s].payload # None
  <1>1. TypeOK /\ IngestInv /\ [Next]_vars => [Kept]_vars
    <2> SUFFICES ASSUME TypeOK, IngestInv, Next PROVE Kept
      OBVIOUS
    <2>1. ASSUME NEW w \in Workers, UpsertEvent(w) PROVE Kept
      <3>1. /\ event' = [by |-> active[w], link |-> Msg(w).artist \/ event.link,
                         segment |-> Coalesce(Msg(w).segment, event.segment)]
            /\ section' = section
        BY <2>1 DEF UpsertEvent
      <3> QED BY <3>1 DEF Coalesce
    <2>2. ASSUME NEW w \in Workers, UpsertSection(w) PROVE Kept
      <3> DEFINE x == SectionOrder[First(w)]
                 new == MergedSection(x, active[w])
      <3>1. event' = event /\ section' = [section EXCEPT ![x] = new] /\ pc[w] = "sections"
        BY <2>2 DEF UpsertSection, Goto
      <3>2. active[w] # None
        BY <3>1, InTheMiddle
      <3>3. section[x].payload # None => new.payload # None
        BY <3>2 DEF MergedSection
      <3> HIDE DEF x, new
      <3> QED BY <3>1, <3>3 DEF TypeOK
    <2>3. CASE event' = event /\ section' = section
      BY <2>3
    <2>4. \/ event' = event /\ section' = section
          \/ \E w \in Workers : UpsertEvent(w) \/ UpsertSection(w)
      BY DEF Next, Send, Redrive, Delete, Begin, Abandon, Statement, DropMalformed, LookupSource,
             UpsertArtist, SectionsDone, UpsertVenue, DeletePerformers, InsertPerformer,
             PerformersDone, DeleteGenres, InsertGenre, Succeed, rows
    <2> QED BY <2>1, <2>2, <2>3, <2>4
  <1> QED BY <1>1, IngestInvariant, PTL DEF Spec, EnrichmentKept
=============================================================================
