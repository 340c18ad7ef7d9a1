---------------------------- MODULE ListsProofs ----------------------------
(***************************************************************************)
(* What the going and not-interested lists of a tab come to, for any       *)
(* events, any number of mutations under way and any failures; what a walk *)
(* through the pages of a feed shows, for any page size and any changes of *)
(* the rows between two pages; and what a search lists, for any rankings.  *)
(***************************************************************************)
EXTENDS Lists, FiniteSetTheorems, SequenceTheorems, WellFoundedInduction, TLAPS

Mutation == [op : Ops, event : Events, phase : {"sent", "served", "failed"}, prev : SUBSET Events]
Fetch == [phase : {"idle", "sent", "read", "failed"}, rows : SUBSET Events]

ListsType == /\ going \subseteq Events /\ notInterested \subseteq Events
             /\ cache \in [Keys -> SUBSET Events]
             /\ loaded \subseteq Keys /\ joined \subseteq Keys
             /\ fetch \in [Keys -> Fetch]
             /\ call \in [Calls -> {NoCall} \cup Mutation]
             /\ late \subseteq [op : Ops, event : Events]
             /\ opened \in BOOLEAN /\ outrun \in BOOLEAN

\* Before the page is open there is nothing to fetch and no button to press.
Closed == ~opened => /\ \A k \in Keys : fetch[k] = NoFetch
                     /\ \A c \in Calls : call[c] = NoCall

\* The server has applied what the tab has not settled, or the tab has
\* changed a list early: either way k will be fetched once c settles.
Applied(c, k) == call[c].phase = "served" /\ k \in Invalidates(call[c].op, TRUE)
Early(c, k) == call[c] # NoCall /\ k \in Cancels(call[c].op)

\* A list that is not the server's has somebody to fetch it again, and an
\* answer on its way that is out of date has somebody to fetch after it, unless
\* that somebody has come and joined the first load.
Agrees(k) == /\ fetch[k].phase = "idle" /\ k \in loaded =>
                    \/ cache[k] = Answer[k] \/ k \in joined
                    \/ \E c \in Calls : Applied(c, k) \/ Early(c, k)
             /\ fetch[k].phase = "read" =>
                    \/ fetch[k].rows = Answer[k] \/ k \in joined
                    \/ \E c \in Calls : Applied(c, k)

ListsInv == opened /\ ~outrun => \A k \in Keys : Agrees(k)
-----------------------------------------------------------------------------
(* Operators.                                                              *)

\* Whatever a click changes early is fetched again when it settles, however it
\* settles; a success fetches at least what a failure does.
LEMMA InvalidatesCover ==
    ASSUME NEW op \in Ops, NEW ok \in BOOLEAN
    PROVE  /\ Cancels(op) \subseteq Invalidates(op, ok)
           /\ Invalidates(op, ok) \subseteq Keys
           /\ op = "AddNotInterested" => "calendar" \in Invalidates(op, ok)
  BY DEF Ops, Cancels, Invalidates, Keys

LEMMA AnswerType ==
    ASSUME going \subseteq Events, notInterested \subseteq Events
    PROVE  Answer \in [Keys -> SUBSET Events]
  BY DEF Answer, Keys, ListGoing, ListGoingEvents, ListNotInterested

\* The answers are a function of the lists, as long as the catalogue stands.
LEMMA AnswerSame ==
    ASSUME UNCHANGED cvars
    PROVE  /\ UNCHANGED <<going, notInterested>> => Answer' = Answer
           /\ UNCHANGED notInterested =>
                  \A k \in Keys \ {"event-going", "event-going-events"} : Answer'[k] = Answer[k]
           /\ UNCHANGED going =>
                  \A k \in Keys \ {"not-interested"} : Answer'[k] = Answer[k]
  <1> USE DEF Answer, ListGoing, ListGoingEvents, ListNotInterested, cvars
  <1>1. /\ \A e : OverAt(e)' = OverAt(e)
        /\ \A e, f, b : InFeed(f, b, e)' = InFeed(f, b, e)
        /\ Midnight' = Midnight
    BY DEF OverAt, TimeTBD, InFeed, Showable, Passes, Midnight
  <1>2. UNCHANGED <<going, notInterested>> => Answer' = Answer
    BY <1>1
  <1>3. UNCHANGED notInterested =>
            \A k \in Keys \ {"event-going", "event-going-events"} : Answer'[k] = Answer[k]
    BY <1>1 DEF Keys
  <1>4. UNCHANGED going => \A k \in Keys \ {"not-interested"} : Answer'[k] = Answer[k]
    BY <1>1 DEF Keys
  <1> QED BY <1>2, <1>3, <1>4

\* A mutation changes only answers that its success fetches again.
LEMMA ApplyShape ==
    ASSUME UNCHANGED cvars, ListsType, NEW r, r.op \in Ops, r.event \in Events, Apply(r)
    PROVE  /\ going' \subseteq Events /\ notInterested' \subseteq Events
           /\ \A k \in Keys \ Invalidates(r.op, TRUE) : Answer'[k] = Answer[k]
  <1>1. CASE r.op = "AddGoing"
    BY <1>1, AnswerSame DEF Apply, AddGoing, Invalidates, ListsType
  <1>2. CASE r.op = "ResetGoing"
    BY <1>2, AnswerSame DEF Apply, ClearGoing, Invalidates, ListsType
  <1>3. CASE r.op = "AddNotInterested"
    BY <1>3, AnswerSame DEF Apply, AddNotInterested, Invalidates, ListsType
  <1>4. CASE r.op = "ResetNotInterested"
    BY <1>4, AnswerSame DEF Apply, ClearNotInterested, Invalidates, ListsType
  <1> QED BY <1>1, <1>2, <1>3, <1>4 DEF Ops
-----------------------------------------------------------------------------
(* Types.                                                                  *)

LEMMA NoCallIsNone == NoCall.phase = "idle" /\ \A m \in Mutation : m # NoCall
  BY DEF Mutation, NoCall

\* What ends a mutation without settling it.
LEMMA EndsShape ==
    ASSUME ListsType, NEW c \in Calls, NEW phase \in {"served", "failed"}, Ends(c, phase)
    PROVE  /\ call[c] \in Mutation /\ call[c].phase = "sent"
           /\ call' \in [Calls -> {NoCall} \cup Mutation]
           /\ call'[c] \in Mutation /\ call'[c].phase = phase /\ call'[c].op = call[c].op
           /\ \A d \in Calls \ {c} : call'[d] = call[d]
  <1>1. call[c] \in Mutation /\ call[c].phase = "sent"
    BY DEF Ends, ListsType, NoCall
  <1> DEFINE new == [call[c] EXCEPT !.phase = phase]
  <1>2. call' = [call EXCEPT ![c] = new]
    BY DEF Ends
  <1>3. new \in Mutation /\ new.phase = phase /\ new.op = call[c].op
    BY <1>1 DEF Mutation
  <1> HIDE DEF new
  <1>4. call \in [Calls -> {NoCall} \cup Mutation]
    BY DEF ListsType
  <1>5. call' \in [Calls -> {NoCall} \cup Mutation]
    <2> HIDE DEF Mutation, NoCall
    <2> QED BY <1>2, <1>3, <1>4
  <1>6. call'[c] = new /\ \A d \in Calls \ {c} : call'[d] = call[d]
    <2> HIDE DEF Mutation, NoCall
    <2> QED BY <1>2, <1>4
  <1> QED BY <1>1, <1>3, <1>5, <1>6

LEMMA NoFetchType == /\ NoFetch \in Fetch /\ NoFetch.phase = "idle"
                     /\ \A p \in {"sent", "failed"} :
                            [NoFetch EXCEPT !.phase = p] \in Fetch
                            /\ [NoFetch EXCEPT !.phase = p].phase = p
                     /\ Sent \in Fetch /\ Sent.phase = "sent"
  BY DEF NoFetch, Fetch, Sent

LEMMA OptimisticType ==
    ASSUME ListsType, NEW op \in Ops, NEW e \in Events
    PROVE  /\ [k \in Keys |-> Optimistic(op, e, k)] \in [Keys -> SUBSET Events]
           /\ \A k \in Keys \ Cancels(op) : Optimistic(op, e, k) = cache[k]
  BY DEF ListsType, Optimistic

LEMMA InitLists == Init => ListsType /\ Closed
  BY NoFetchType DEF Init, LInit, ListsType, Closed

LEMMA ClickTypes ==
    ASSUME ListsType, NEW c \in Calls, NEW op \in Ops, NEW e \in Events, Click(c, op, e)
    PROVE  /\ call'[c] \in Mutation /\ call'[c].op = op /\ call'[c].phase = "sent"
           /\ ListsType'
  <1> DEFINE new == [op |-> op, event |-> e, phase |-> "sent",
                     prev |-> IF op = "AddNotInterested" THEN cache["calendar"] ELSE {}]
  <1>1. new \in Mutation /\ new.op = op /\ new.phase = "sent"
    BY DEF ListsType, Mutation, Keys
  <1>2. call' = [call EXCEPT ![c] = new]
    BY DEF Click
  <1> HIDE DEF new
  <1>5. call'[c] = new /\ call' \in [Calls -> {NoCall} \cup Mutation]
    <2>1. call \in [Calls -> {NoCall} \cup Mutation]
      BY DEF ListsType
    <2> HIDE DEF Mutation, NoCall
    <2> QED BY <1>1, <1>2, <2>1
  <1>3. fetch' \in [Keys -> Fetch]
    BY NoFetchType DEF Click, ListsType
  <1>4. cache' \in [Keys -> SUBSET Events]
    BY OptimisticType DEF Click
  <1>6. UNCHANGED <<going, notInterested, opened, late, outrun, joined>> /\ loaded' \subseteq Keys
    BY DEF Click, server, ListsType, Keys
  <1> QED BY <1>1, <1>3, <1>4, <1>5, <1>6 DEF ListsType

LEMMA SettleTypes ==
    ASSUME ListsType, NEW c \in Calls, Settle(c)
    PROVE  call[c] \in Mutation /\ ListsType'
  <1>1. call[c] \in Mutation
    BY DEF Settle, ListsType, NoCall
  <1>2. cache' \in [Keys -> SUBSET Events]
    BY <1>1 DEF Settle, ListsType, Mutation
  <1>3. fetch' \in [Keys -> Fetch]
    BY NoFetchType DEF Settle, ListsType
  <1>4. call' \in [Calls -> {NoCall} \cup Mutation]
    <2>1. call' = [call EXCEPT ![c] = NoCall] /\ call \in [Calls -> {NoCall} \cup Mutation]
      BY DEF Settle, ListsType
    <2> QED BY <2>1
  <1>5. UNCHANGED <<going, notInterested, opened, late, outrun, loaded>> /\ joined' \subseteq Keys
    <2>1. Invalidates(call[c].op, call[c].phase = "served") \subseteq Keys
      BY <1>1, InvalidatesCover DEF Mutation
    <2> QED BY <2>1 DEF Settle, server, ListsType
  <1> QED BY <1>1, <1>2, <1>3, <1>4, <1>5 DEF ListsType

LEMMA NextListsType ==
    ASSUME ListsType, [Next]_vars PROVE ListsType'
  <1>1. CASE UNCHANGED lvars
    BY <1>1 DEF lvars, server, tab, ListsType
  <1>2. CASE LNext /\ UNCHANGED cvars
    <2>1. CASE OpenPage
      BY <2>1, NoFetchType DEF OpenPage, server, ListsType
    <2>2. ASSUME NEW c \in Calls, NEW op \in Ops, NEW e \in Events, Click(c, op, e) PROVE ListsType'
      BY <2>2, ClickTypes
    <2>3. ASSUME NEW c \in Calls, Serve(c) PROVE ListsType'
      <3>1. call[c].op \in Ops /\ call[c].event \in Events
        BY <2>3, EndsShape DEF Serve, Mutation
      <3>2. going' \subseteq Events /\ notInterested' \subseteq Events
        BY <1>2, <2>3, <3>1, ApplyShape DEF Serve
      <3> QED BY <2>3, <3>2, EndsShape DEF Serve, tab, ListsType
    <2>4. ASSUME NEW c \in Calls, ServeFails(c) PROVE ListsType'
      BY <2>4, EndsShape DEF ServeFails, server, tab, ListsType
    <2>5. ASSUME NEW c \in Calls, ConnectionLost(c) PROVE ListsType'
      <3>1. call[c].op \in Ops /\ call[c].event \in Events
        BY <2>5, EndsShape DEF ConnectionLost, Mutation
      <3> QED BY <2>5, <3>1, EndsShape DEF ConnectionLost, server, tab, ListsType
    <2>6. ASSUME NEW c \in Calls, Settle(c) PROVE ListsType'
      BY <2>6, SettleTypes
    <2>7. ASSUME NEW r \in late, ServeLate(r) PROVE ListsType'
      <3>1. r.op \in Ops /\ r.event \in Events
        BY DEF ListsType
      <3>2. going' \subseteq Events /\ notInterested' \subseteq Events
        BY <1>2, <2>7, <3>1, ApplyShape DEF ServeLate
      <3> QED BY <2>7, <3>2 DEF ServeLate, tab, ListsType
    <2>8. ASSUME NEW k \in Keys, Read(k) PROVE ListsType'
      <3>1. [phase |-> "read", rows |-> Answer[k]] \in Fetch
        BY AnswerType DEF Fetch, ListsType
      <3> QED BY <2>8, <3>1 DEF Read, server, ListsType
    <2>9. ASSUME NEW k \in Keys, Land(k) PROVE ListsType'
      <3>1. fetch[k].rows \in SUBSET Events
        BY DEF ListsType, Fetch
      <3> QED BY <2>9, <3>1, NoFetchType DEF Land, server, ListsType
    <2>10. ASSUME NEW k \in Keys, FetchFails(k) PROVE ListsType'
      BY <2>10, NoFetchType DEF FetchFails, server, ListsType
    <2> QED BY <1>2, <2>1, <2>2, <2>3, <2>4, <2>5, <2>6, <2>7, <2>8, <2>9, <2>10 DEF LNext
  <1> QED BY <1>1, <1>2 DEF Next, vars, lvars
-----------------------------------------------------------------------------
(* Agreement.                                                              *)

LEMMA NextClosed ==
    ASSUME Closed, [Next]_vars PROVE Closed'
  <1>1. CASE UNCHANGED lvars
    BY <1>1 DEF lvars, tab, Closed
  <1>2. CASE LNext /\ opened'
    BY <1>2 DEF Closed
  <1>3. CASE LNext /\ ~opened'
    <2>1. ~opened
      BY <1>3 DEF LNext, OpenPage, Click, Serve, ServeFails, ConnectionLost, Settle, ServeLate,
                  Read, Land, FetchFails
    <2>2. \A k \in Keys : fetch[k].phase = "idle"
      BY <2>1 DEF Closed, NoFetch
    <2>3. \A c \in Calls : call[c].phase = "idle"
      BY <2>1, NoCallIsNone DEF Closed
    <2>4. PICK r \in late : ServeLate(r)
      BY <1>3, <2>1, <2>2, <2>3
         DEF LNext, OpenPage, Click, Serve, ServeFails, ConnectionLost, Ends, Settle,
             Read, Land, FetchFails, UnderWay
    <2> QED BY <2>1, <2>4 DEF ServeLate, tab, Closed
  <1> QED BY <1>1, <1>2, <1>3 DEF Next, vars, lvars

\* A step that leaves a list, its fetch and its answer alone, and settles no
\* mutation that was to fetch it.
LEMMA AgreesKept ==
    ASSUME NEW k \in Keys, Agrees(k), fetch'[k] = fetch[k], cache'[k] = cache[k],
           Answer'[k] = Answer[k], k \in loaded' => k \in loaded,
           k \in joined => k \in joined',
           \A c \in Calls : Applied(c, k) => Applied(c, k)',
           \A c \in Calls : Early(c, k) => Applied(c, k)' \/ Early(c, k)'
    PROVE  Agrees(k)'
  BY DEF Agrees

LEMMA OpenAgrees ==
    ASSUME OpenPage, NEW k \in Keys PROVE Agrees(k)'
  <1>1. fetch'[k].phase = "sent"
    BY NoFetchType DEF OpenPage
  <1> QED BY <1>1 DEF Agrees

LEMMA ClickAgrees ==
    ASSUME UNCHANGED cvars, ListsType, NEW c \in Calls, NEW op \in Ops, NEW e \in Events,
           Click(c, op, e), NEW k \in Keys, Agrees(k)
    PROVE  Agrees(k)'
  <1>1. Answer' = Answer
    BY AnswerSame DEF Click, server
  <1>2. call'[c].op = op /\ call'[c] # NoCall /\ call[c] = NoCall
        /\ \A d \in Calls \ {c} : call'[d] = call[d]
    <2>1. call'[c].op = op /\ call'[c] \in Mutation /\ call[c] = NoCall
      BY ClickTypes DEF Click
    <2> QED BY <2>1, NoCallIsNone DEF Click, ListsType
  <1>3. CASE k \in Cancels(op)
    <2>1. Early(c, k)'
      BY <1>2, <1>3 DEF Early
    <2>2. fetch'[k].phase # "read"
      BY <1>3 DEF Click, UnderWay, NoFetch
    <2> QED BY <2>1, <2>2 DEF Agrees
  <1>4. CASE k \notin Cancels(op)
    <2>1. fetch'[k] = fetch[k]
      BY <1>4 DEF Click
    <2>2. cache'[k] = cache[k] /\ joined' = joined /\ (k \in loaded' => k \in loaded)
      BY <1>4, OptimisticType DEF Click, Cancels
    <2>3. \A d \in Calls : (Applied(d, k) => Applied(d, k)') /\ (Early(d, k) => Early(d, k)')
      BY <1>2, NoCallIsNone DEF Applied, Early
    <2> QED BY <1>1, <2>1, <2>2, <2>3, AgreesKept
  <1> QED BY <1>3, <1>4

LEMMA ServeAgrees ==
    ASSUME UNCHANGED cvars, ListsType, NEW c \in Calls, Serve(c), NEW k \in Keys, Agrees(k)
    PROVE  Agrees(k)'
  <1>1. /\ call[c] \in Mutation /\ call[c].phase = "sent"
        /\ call'[c] \in Mutation /\ call'[c].phase = "served" /\ call'[c].op = call[c].op
        /\ \A d \in Calls \ {c} : call'[d] = call[d]
    BY EndsShape DEF Serve
  <1>2. UNCHANGED <<cache, loaded, fetch, joined>>
    BY DEF Serve, tab
  <1>3. CASE k \in Invalidates(call[c].op, TRUE)
    <2>1. Applied(c, k)'
      BY <1>1, <1>3 DEF Applied
    <2> QED BY <1>2, <2>1 DEF Agrees
  <1>4. CASE k \notin Invalidates(call[c].op, TRUE)
    <2>1. Answer'[k] = Answer[k]
      <3>1. call[c].op \in Ops /\ call[c].event \in Events /\ Apply(call[c])
        BY <1>1 DEF Serve, Mutation
      <3> QED BY <1>4, <3>1, ApplyShape
    <2>2. \A d \in Calls : (Applied(d, k) => Applied(d, k)') /\ (Early(d, k) => Early(d, k)')
      BY <1>1, NoCallIsNone DEF Applied, Early
    <2> QED BY <1>2, <2>1, <2>2, AgreesKept
  <1> QED BY <1>3, <1>4

LEMMA FailAgrees ==
    ASSUME UNCHANGED cvars, ListsType, NEW c \in Calls, ServeFails(c) \/ ConnectionLost(c),
           NEW k \in Keys, Agrees(k)
    PROVE  Agrees(k)'
  <1>1. /\ call[c] \in Mutation /\ call[c].phase = "sent"
        /\ call'[c] \in Mutation /\ call'[c].op = call[c].op
        /\ \A d \in Calls \ {c} : call'[d] = call[d]
    BY EndsShape DEF ServeFails, ConnectionLost
  <1>2. UNCHANGED <<cache, loaded, fetch, joined, going, notInterested>>
    BY DEF ServeFails, ConnectionLost, server, tab
  <1>3. \A d \in Calls : (Applied(d, k) => Applied(d, k)') /\ (Early(d, k) => Early(d, k)')
    BY <1>1, NoCallIsNone DEF Applied, Early
  <1> QED BY <1>2, <1>3, AnswerSame, AgreesKept

LEMMA SettleAgrees ==
    ASSUME UNCHANGED cvars, ListsType, NEW c \in Calls, Settle(c), NEW k \in Keys, Agrees(k)
    PROVE  Agrees(k)'
  <1> DEFINE ok == call[c].phase = "served"
  <1>1. call[c] \in Mutation /\ call[c].op \in Ops /\ ok \in BOOLEAN
    BY SettleTypes DEF Mutation
  <1> DEFINE stale == Invalidates(call[c].op, ok)
             shared == {j \in stale : Joins(j)}
  <1>2. /\ fetch' = [j \in Keys |-> IF j \in stale \ shared THEN Sent ELSE fetch[j]]
        /\ joined' = (joined \ (stale \ shared)) \cup {j \in shared : ok /\ fetch[j].phase = "read"}
        /\ loaded' = loaded
    BY DEF Settle
  <1>3. \A d \in Calls \ {c} : call'[d] = call[d]
    BY DEF Settle, ListsType
  <1>4. Answer' = Answer
    BY AnswerSame DEF Settle, server
  <1>5. CASE k \in stale \ shared
    <2>1. fetch'[k].phase = "sent"
      BY <1>2, <1>5, NoFetchType
    <2> QED BY <2>1 DEF Agrees
  <1>6. CASE k \in shared
    \* The first load goes on; what it has read is out of date only if this click
    \* is what made it so, or another that has yet to settle.
    <2>1. fetch'[k] = fetch[k] /\ fetch[k].phase \in {"sent", "read"}
      BY <1>2, <1>6 DEF Joins, UnderWay
    <2>2. CASE fetch[k].phase = "sent"
      BY <2>1, <2>2 DEF Agrees
    <2>3. CASE fetch[k].phase = "read" /\ ok
      <3>1. k \in joined'
        BY <1>2, <1>6, <2>3
      <3> QED BY <2>1, <2>3, <3>1 DEF Agrees
    <2>4. CASE fetch[k].phase = "read" /\ ~ok
      <3>1. ~Applied(c, k)
        BY <2>4 DEF Applied
      <3>2. \A d \in Calls : Applied(d, k) => Applied(d, k)'
        BY <1>3, <3>1 DEF Applied
      <3>3. k \in joined => k \in joined'
        BY <1>2, <1>6
      <3> QED BY <1>4, <2>1, <2>4, <3>2, <3>3 DEF Agrees
    <2> QED BY <2>1, <2>2, <2>3, <2>4
  <1>7. CASE k \notin stale
    <2>1. fetch'[k] = fetch[k] /\ (k \in joined => k \in joined') /\ loaded' = loaded
      BY <1>2, <1>7
    <2>2. cache'[k] = cache[k]
      <3>1. ok \/ call[c].op # "AddNotInterested" \/ k # "calendar"
        BY <1>1, <1>7, InvalidatesCover
      <3> QED BY <3>1 DEF Settle, ListsType
    <2>3. ~Applied(c, k) /\ ~Early(c, k)
      BY <1>1, <1>7, InvalidatesCover DEF Applied, Early
    <2>4. \A d \in Calls : (Applied(d, k) => Applied(d, k)') /\ (Early(d, k) => Early(d, k)')
      BY <1>3, <2>3 DEF Applied, Early
    <2> QED BY <1>4, <2>1, <2>2, <2>4, AgreesKept
  <1> QED BY <1>5, <1>6, <1>7

LEMMA FetchAgrees ==
    ASSUME UNCHANGED cvars, ListsType, NEW j \in Keys, Read(j) \/ Land(j) \/ FetchFails(j),
           NEW k \in Keys, Agrees(k)
    PROVE  Agrees(k)'
  <1>1. call' = call /\ Answer' = Answer
    BY AnswerSame DEF Read, Land, FetchFails, server
  <1>2. \A d \in Calls : (Applied(d, k) => Applied(d, k)') /\ (Early(d, k) => Early(d, k)')
    BY <1>1 DEF Applied, Early
  <1>3. CASE j # k
    <2>1. /\ fetch'[k] = fetch[k] /\ cache'[k] = cache[k] /\ joined' = joined
          /\ k \in loaded' => k \in loaded
      BY <1>3 DEF Read, Land, FetchFails, ListsType
    <2> QED BY <1>1, <1>2, <2>1, AgreesKept
  <1>4. CASE j = k /\ Read(k)
    BY <1>1, <1>4 DEF Read, Agrees, ListsType
  <1>5. CASE j = k /\ Land(k)
    <2>1. /\ fetch[k].phase = "read" /\ cache'[k] = fetch[k].rows
          /\ fetch'[k].phase = "idle" /\ joined' = joined
      BY <1>5, NoFetchType DEF Land, ListsType
    <2> QED BY <1>1, <1>2, <2>1 DEF Agrees
  <1>6. CASE j = k /\ FetchFails(k)
    <2>1. fetch'[k].phase = "failed"
      BY <1>6, NoFetchType DEF FetchFails, ListsType
    <2> QED BY <2>1 DEF Agrees
  <1> QED BY <1>3, <1>4, <1>5, <1>6

LEMMA NextAgrees ==
    ASSUME ListsType, Closed, ListsInv, [Next]_vars PROVE ListsInv'
  <1> SUFFICES ASSUME opened', ~outrun', NEW k \in Keys PROVE Agrees(k)'
    BY DEF ListsInv
  <1>1. CASE UNCHANGED vars
    <2>1. UNCHANGED cvars /\ UNCHANGED <<opened, outrun, cache, loaded, fetch, joined, call, going, notInterested>>
      BY <1>1 DEF vars, lvars, server, tab
    <2>2. Agrees(k)
      BY <2>1 DEF ListsInv
    <2> QED BY <2>1, <2>2, AnswerSame, AgreesKept DEF Applied, Early
  <1>2. CASE CNext /\ ~opened /\ UNCHANGED lvars
    BY <1>2 DEF lvars
  <1>3. CASE LNext /\ UNCHANGED cvars
    <2>1. CASE OpenPage
      BY <1>3, <2>1, OpenAgrees
    <2>2. ASSUME NEW c \in Calls, NEW op \in Ops, NEW e \in Events, Click(c, op, e) PROVE Agrees(k)'
      <3>1. Agrees(k)
        BY <2>2 DEF Click, ListsInv
      <3> QED BY <1>3, <2>2, <3>1, ClickAgrees
    <2>3. ASSUME NEW c \in Calls, Serve(c) \/ ServeFails(c) \/ ConnectionLost(c) \/ Settle(c)
          PROVE  Agrees(k)'
      <3>1. Agrees(k)
        BY <2>3 DEF Serve, ServeFails, ConnectionLost, Settle, ListsInv
      <3> QED BY <1>3, <2>3, <3>1, ServeAgrees, FailAgrees, SettleAgrees
    <2>4. ASSUME NEW r \in late, ServeLate(r) PROVE FALSE
      BY <2>4 DEF ServeLate
    <2>5. ASSUME NEW j \in Keys, Read(j) \/ Land(j) \/ FetchFails(j) PROVE Agrees(k)'
      <3>1. Agrees(k)
        BY <2>5 DEF Read, Land, FetchFails, ListsInv
      <3> QED BY <1>3, <2>5, <3>1, FetchAgrees
    <2> QED BY <1>3, <2>1, <2>2, <2>3, <2>4, <2>5 DEF LNext
  <1> QED BY <1>1, <1>2, <1>3 DEF Next

\* When the tab is quiet its lists are the server's: whatever clicks changed
\* early, whatever they cancelled, and in whatever order answers came, a list
\* that has nobody left to fetch it is the one the server has (the onMutate and
\* onSettled of useMarkGoing.ts, useMarkNotGoing.ts, useMarkNotInterested.ts).
THEOREM ListsConverge == Spec => []QuietListsAgree
  <1>1. Init => ListsInv
    BY DEF Init, LInit, ListsInv
  <1>2. Spec => [](ListsType /\ Closed /\ ListsInv)
    BY <1>1, InitLists, NextListsType, NextClosed, NextAgrees, PTL DEF Spec
  <1>3. ASSUME ListsType, ListsInv PROVE QuietListsAgree
    <2> SUFFICES ASSUME opened, ~outrun, \A c \in Calls : call[c] = NoCall,
                        NEW k \in loaded \ joined, fetch[k].phase = "idle"
                 PROVE  cache[k] = Answer[k]
      BY DEF QuietListsAgree
    <2>2. k \in Keys
      BY <1>3 DEF ListsType
    <2>1. \A c \in Calls : ~Applied(c, k) /\ ~Early(c, k)
      BY NoCallIsNone DEF Applied, Early
    <2> QED BY <1>3, <2>1, <2>2 DEF ListsInv, Agrees
  <1> QED BY <1>2, <1>3, PTL
-----------------------------------------------------------------------------
(* Lists in an order.                                                      *)

Orders(R, S) == /\ \A x \in S : <<x, x>> \notin R
                /\ \A x, y \in S : x = y \/ <<x, y>> \in R \/ <<y, x>> \in R
                /\ \A x, y, z \in S : <<x, y>> \in R /\ <<y, z>> \in R => <<x, z>> \in R

\* A nonempty set of naturals has a least element.
LEMMA LeastOf ==
    ASSUME NEW T, T \subseteq Nat, T # {}
    PROVE  \E x \in T : \A y \in T : x <= y
  <1> DEFINE R == OpToRel(<, Nat)
  <1>1. IsWellFoundedOn(R, Nat)
    BY NatLessThanWellFounded
  <1>2. PICK x \in T : \A y \in T : ~(<<y, x>> \in R)
    <2> HIDE DEF R
    <2> QED BY <1>1, WFMin
  <1>3. ASSUME NEW y \in T PROVE x <= y
    <2>1. ~(y < x)
      BY <1>2, <1>3 DEF OpToRel
    <2> QED BY <2>1
  <1> QED BY <1>3


\* In a strict order every part of a finite set has a first element: the
\* smallest part without one would have one more than a part that has.
LEMMA FirstOf ==
    ASSUME NEW S, IsFiniteSet(S), NEW R, Orders(R, S), NEW T, T \subseteq S, T # {}
    PROVE  \E m \in T : \A e \in T \ {m} : <<m, e>> \in R
  <1> DEFINE First(x) == \E m \in x : \A e \in x \ {m} : <<m, e>> \in R
             Bad == {n \in Nat : \E x \in SUBSET S : x # {} /\ Cardinality(x) = n /\ ~First(x)}
  <1>1. \A x \in SUBSET S : IsFiniteSet(x) /\ Cardinality(x) \in Nat
    BY FS_Subset, FS_CardinalityType
  <1>2. Bad = {}
    <2> SUFFICES ASSUME Bad # {} PROVE FALSE
      OBVIOUS
    <2>1. Bad \subseteq Nat
      OBVIOUS
    <2>2. PICK n \in Bad : \A m \in Bad : n <= m
      <3> HIDE DEF Bad
      <3> QED BY <2>1, LeastOf
    <2>3. PICK x \in SUBSET S : x # {} /\ Cardinality(x) = n /\ ~First(x)
      BY <2>2
    <2>4. PICK d \in x : TRUE
      BY <2>3
    <2> DEFINE rest == x \ {d}
    <2>5. Cardinality(rest) = n - 1 /\ n - 1 \in Nat /\ n \in Nat /\ rest \in SUBSET S
      <3>1. IsFiniteSet(x) /\ Cardinality(x) \in Nat /\ Cardinality(rest) \in Nat
        BY <1>1
      <3>2. Cardinality(x \ {d}) = Cardinality(x) - 1
        BY <2>4, <3>1, FS_RemoveElement
      <3> QED BY <2>3, <3>1, <3>2
    <2>6. n - 1 \notin Bad
      <3> HIDE DEF Bad, rest
      <3> QED BY <2>2, <2>5
    <2>7. CASE rest = {}
      <3>1. x \ {d} = {}
        BY <2>7
      <3> QED BY <2>3, <2>4, <3>1
    <2>8. CASE rest # {}
      <3>1. First(rest)
        BY <2>5, <2>6, <2>8
      <3>2. PICK m \in rest : \A e \in rest \ {m} : <<m, e>> \in R
        BY <3>1
      <3>3. m \in S /\ d \in S /\ m # d /\ m \in x
        BY <2>3, <2>4, <3>2
      <3>4. CASE <<m, d>> \in R
        <4>1. \A e \in x \ {m} : <<m, e>> \in R
          BY <3>2, <3>4
        <4> QED BY <2>3, <3>3, <4>1
      <3>5. CASE <<d, m>> \in R
        <4>1. ASSUME NEW e \in x \ {d} PROVE <<d, e>> \in R
          <5>1. e \in S /\ e \in rest
            BY <2>3, <4>1
          <5>2. CASE e = m
            BY <3>5, <5>2
          <5>3. CASE e # m
            <6>1. <<m, e>> \in R
              BY <3>2, <5>1, <5>3
            <6> QED BY <3>3, <3>5, <5>1, <6>1 DEF Orders
          <5> QED BY <5>2, <5>3
        <4> QED BY <2>3, <2>4, <4>1
      <3> QED BY <3>3, <3>4, <3>5 DEF Orders
    <2> QED BY <2>7, <2>8
  <1>3. First(T)
    <2>1. T \in SUBSET S /\ Cardinality(T) \in Nat
      BY <1>1
    <2> HIDE DEF First
    <2> QED BY <1>2, <2>1
  <1> QED BY <1>3

\* Any finite set has a list in a strict order: a smallest one without would
\* lose its first element and leave a smaller.
LEMMA SortExists ==
    ASSUME NEW es, IsFiniteSet(es), NEW R, Orders(R, es)
    PROVE  /\ Cardinality(es) \in Nat
           /\ \E s \in [1..Cardinality(es) -> es] :
                  \A i, j \in 1..Cardinality(es) : i < j => <<s[i], s[j]>> \in R
  <1> DEFINE Sortable(x) == \E s \in [1..Cardinality(x) -> x] :
                                \A i, j \in 1..Cardinality(x) : i < j => <<s[i], s[j]>> \in R
             Bad == {n \in Nat : \E x \in SUBSET es : Cardinality(x) = n /\ ~Sortable(x)}
  <1>1. \A x \in SUBSET es : IsFiniteSet(x) /\ Cardinality(x) \in Nat
    BY FS_Subset, FS_CardinalityType
  <1>2. ASSUME NEW x \in SUBSET es, x # {},
               \A y \in SUBSET es : Cardinality(y) = Cardinality(x) - 1 => Sortable(y)
        PROVE  Sortable(x)
    <2>1. PICK m \in x : \A e \in x \ {m} : <<m, e>> \in R
      BY <1>2, FirstOf
    <2> DEFINE n == Cardinality(x)
               rest == x \ {m}
    <2>2. Cardinality(rest) = n - 1 /\ n \in Nat /\ n - 1 \in Nat
      <3>1. IsFiniteSet(x) /\ Cardinality(x) \in Nat /\ Cardinality(rest) \in Nat
        BY <1>1
      <3>2. Cardinality(x \ {m}) = Cardinality(x) - 1
        BY <2>1, <3>1, FS_RemoveElement
      <3> QED BY <3>1, <3>2
    <2>3. PICK s \in [1..n - 1 -> rest] : \A i, j \in 1..n - 1 : i < j => <<s[i], s[j]>> \in R
      <3>1. Sortable(rest)
        BY <1>2, <2>2
      <3> QED BY <2>2, <3>1
    <2> DEFINE r == [i \in 1..n |-> IF i = 1 THEN m ELSE s[i - 1]]
    <2>4. r \in [1..n -> x]
      BY <2>2
    <2>5. ASSUME NEW i \in 1..n, NEW j \in 1..n, i < j PROVE <<r[i], r[j]>> \in R
      <3>1. j - 1 \in 1..n - 1 /\ r[j] = s[j - 1] /\ s[j - 1] \in rest
        BY <2>2, <2>5
      <3>2. CASE i = 1
        BY <2>1, <3>1, <3>2
      <3>3. CASE i # 1
        <4>1. i - 1 \in 1..n - 1 /\ i - 1 < j - 1 /\ r[i] = s[i - 1]
          BY <2>2, <2>5, <3>3
        <4> QED BY <2>3, <3>1, <4>1
      <3> QED BY <3>2, <3>3
    <2> HIDE DEF r
    <2> QED BY <2>4, <2>5
  <1>3. Sortable({})
    <2>1. Cardinality({}) = 0
      BY FS_EmptySet
    <2>2. 1..Cardinality({}) = {}
      BY <2>1
    <2>3. [i \in {} |-> {}] \in [{} -> {}]
      OBVIOUS
    <2> QED BY <2>2, <2>3
  <1> HIDE DEF Sortable
  <1>4. Bad = {}
    <2> SUFFICES ASSUME Bad # {} PROVE FALSE
      OBVIOUS
    <2>1. Bad \subseteq Nat
      OBVIOUS
    <2>2. PICK n \in Bad : \A m \in Bad : n <= m
      <3> HIDE DEF Bad
      <3> QED BY <2>1, LeastOf
    <2>3. PICK x \in SUBSET es : Cardinality(x) = n /\ ~Sortable(x)
      BY <2>2
    <2>4. x # {} /\ n \in Nat
      BY <1>3, <2>1, <2>3
    <2>5. ASSUME NEW y \in SUBSET es, Cardinality(y) = n - 1 PROVE Sortable(y)
      <3>1. n - 1 \in Nat /\ n - 1 < n
        BY <1>1, <2>4, <2>5
      <3>2. n - 1 \notin Bad
        BY <2>2, <2>4, <3>1
      <3> QED BY <2>5, <3>1, <3>2
    <2> QED BY <1>2, <2>3, <2>4, <2>5
  <1>5. Sortable(es)
    BY <1>1, <1>4
  <1> QED BY <1>1, <1>5 DEF Sortable


\* Sorted lists every element once, in the order.
LEMMA SortedShape ==
    ASSUME NEW es, IsFiniteSet(es), NEW R, Orders(R, es)
    PROVE  /\ Cardinality(es) \in Nat
           /\ Sorted(es, R) \in [1..Cardinality(es) -> es]
           /\ \A i, j \in 1..Cardinality(es) : i < j => <<Sorted(es, R)[i], Sorted(es, R)[j]>> \in R
           /\ \A i, j \in 1..Cardinality(es) : Sorted(es, R)[i] = Sorted(es, R)[j] => i = j
           /\ \A e \in es : \E i \in 1..Cardinality(es) : Sorted(es, R)[i] = e
  <1> DEFINE n == Cardinality(es)
             s == Sorted(es, R)
  <1>1. n \in Nat
    BY SortExists
  <1>2. s \in [1..n -> es] /\ \A i, j \in 1..n : i < j => <<s[i], s[j]>> \in R
    BY SortExists DEF Sorted
  <1> HIDE DEF s
  <1>3. ASSUME NEW i \in 1..n, NEW j \in 1..n, s[i] = s[j] PROVE i = j
    <2>1. s[i] \in es /\ <<s[i], s[i]>> \notin R
      BY <1>2 DEF Orders
    <2>2. ~(i < j) /\ ~(j < i)
      BY <1>2, <1>3, <2>1
    <2> QED BY <1>1, <2>2
  <1>4. s \in Injection(1..n, es)
    BY <1>2, <1>3 DEF Injection, IsInjective
  <1>5. IsFiniteSet(1..n) /\ Cardinality(1..n) = n
    <2> HIDE DEF n
    <2>1. IsFiniteSet(1..n) /\ Cardinality(1..n) = IF 1 > n THEN 0 ELSE n - 1 + 1
      BY <1>1, FS_Interval
    <2> QED BY <1>1, <2>1
  <1>6. s \in Surjection(1..n, es)
    BY <1>4, <1>5, FS_Injection
  <1>7. \A e \in es : \E i \in 1..n : s[i] = e
    BY <1>6 DEF Surjection
  <1> QED BY <1>1, <1>2, <1>3, <1>7 DEF s

-----------------------------------------------------------------------------
(* The order of a page.                                                    *)

RowRec == [at : Slots, archived : BOOLEAN, matched : BOOLEAN, segment : {Unclassified, Other}]

\* Starts and ids are numbers, and Before is a strict order of them.
LEMMA RowsAt ==
    ASSUME row \in [Events -> RowRec]
    PROVE  /\ \A e \in Events : row[e].at \in Nat /\ e \in Nat
           /\ \A d \in Events : ~Before(d, d)
           /\ \A d, e \in Events : Before(d, e) => ~Before(e, d)
  <1>1. \A e \in Events : row[e].at \in Nat /\ e \in Nat
    BY CalendarAssumption DEF CalendarAssumption, RowRec
  <1> QED BY <1>1 DEF Before


\* Ordered lists every row of the selection once, in the order of Before.
LEMMA OrderedShape ==
    ASSUME row \in [Events -> RowRec], NEW es, es \subseteq Events
    PROVE  /\ Cardinality(es) \in Nat
           /\ Ordered(es) \in [1..Cardinality(es) -> es]
           /\ \A i, j \in 1..Cardinality(es) : i < j => Before(Ordered(es)[i], Ordered(es)[j])
           /\ \A e \in es : \E i \in 1..Cardinality(es) : Ordered(es)[i] = e
  <1> DEFINE R == {p \in es \X es : Before(p[1], p[2])}
  <1>1. \A d, e \in es : <<d, e>> \in R <=> Before(d, e)
    OBVIOUS
  <1>2. \A d \in es : row[d].at \in Nat /\ d \in Nat
    BY RowsAt
  <1> HIDE DEF R
  <1>3. Orders(R, es)
    <2>1. \A d \in es : <<d, d>> \notin R
      BY <1>1, RowsAt
    <2>2. ASSUME NEW d \in es, NEW e \in es PROVE d = e \/ <<d, e>> \in R \/ <<e, d>> \in R
      <3>1. d = e \/ Before(d, e) \/ Before(e, d)
        BY <1>2 DEF Before
      <3> QED BY <1>1, <3>1
    <2>3. ASSUME NEW d \in es, NEW e \in es, NEW f \in es, <<d, e>> \in R, <<e, f>> \in R
          PROVE  <<d, f>> \in R
      <3>1. Before(d, e) /\ Before(e, f)
        BY <1>1, <2>3
      <3>2. Before(d, f)
        BY <1>2, <3>1 DEF Before
      <3> QED BY <1>1, <3>2
    <2> QED BY <2>1, <2>2, <2>3 DEF Orders
  <1>4. IsFiniteSet(es)
    BY FS_Subset, CalendarAssumption DEF CalendarAssumption
  <1>5. Ordered(es) = Sorted(es, R)
    BY DEF Ordered, R
  <1>6. /\ Cardinality(es) \in Nat
        /\ Ordered(es) \in [1..Cardinality(es) -> es]
        /\ \A i, j \in 1..Cardinality(es) : i < j => <<Ordered(es)[i], Ordered(es)[j]>> \in R
        /\ \A e \in es : \E i \in 1..Cardinality(es) : Ordered(es)[i] = e
    BY <1>3, <1>4, <1>5, SortedShape
  <1>7. \A i, j \in 1..Cardinality(es) : i < j => Before(Ordered(es)[i], Ordered(es)[j])
    BY <1>1, <1>6
  <1> QED BY <1>6, <1>7

\* truncateIDs keeps the first n.
LEMMA TruncateShape ==
    ASSUME NEW S, NEW s \in Seq(S), NEW n \in Nat
    PROVE  /\ truncateIDs(s, n) \in Seq(S)
           /\ Len(truncateIDs(s, n)) = IF Len(s) > n THEN n ELSE Len(s)
           /\ \A i \in 1..Len(truncateIDs(s, n)) : truncateIDs(s, n)[i] = s[i]
  <1> DEFINE k == IF Len(s) > n THEN n ELSE Len(s)
             t == SubSeq(s, 1, k)
  <1>1. k \in Nat /\ k <= Len(s) /\ Len(s) \in Nat
    OBVIOUS
  <1>2. \A i \in 1..k : s[i] \in S
    BY <1>1, ElementOfSeq
  <1>3. truncateIDs(s, n) = t
    BY DEF truncateIDs
  <1>4. /\ t \in Seq(S) /\ Len(t) = IF 1 <= k THEN k - 1 + 1 ELSE 0
        /\ \A i \in 1..k - 1 + 1 : t[i] = s[1 + i - 1]
    <2> HIDE DEF k
    <2> QED BY <1>1, <1>2, SubSeqProperties
  <1> HIDE DEF t
  <1>5. Len(t) = k /\ \A i \in 1..k : t[i] = s[i]
    <2> HIDE DEF k
    <2> QED BY <1>1, <1>4
  <1> QED BY <1>3, <1>4, <1>5

\* A page query that has a row too many leaves the rows after its last one.
LEMMA PageShape ==
    ASSUME row \in [Events -> RowRec], NEW es, es \subseteq Events,
           NEW rows, rows = truncateIDs(Ordered(es), PageLimit)
    PROVE  /\ rows \in Seq(Events) /\ Len(rows) \in Nat
           /\ \A i \in 1..Len(rows) : rows[i] \in es
           /\ \A i, j \in 1..Len(rows) : i < j => Before(rows[i], rows[j])
           /\ Len(rows) <= calendarPageSize => \A e \in es : \E i \in 1..Len(rows) : rows[i] = e
           /\ Len(rows) > calendarPageSize =>
                  \A e \in es : (\E i \in 1..calendarPageSize : rows[i] = e)
                                \/ Before(rows[calendarPageSize], e)
  <1> DEFINE n == Cardinality(es)
             all == Ordered(es)
  <1>1. /\ n \in Nat /\ all \in [1..n -> es]
        /\ \A i, j \in 1..n : i < j => Before(all[i], all[j])
        /\ \A e \in es : \E i \in 1..n : all[i] = e
    BY OrderedShape
  <1> HIDE DEF n, all
  <1>2. all \in Seq(es) /\ all \in Seq(Events) /\ Len(all) = n
    BY <1>1
  <1>3. calendarPageSize \in Nat \ {0} /\ PageLimit = calendarPageSize + 1 /\ PageLimit \in Nat
    BY CalendarAssumption DEF CalendarAssumption, PageLimit
  <1>4. /\ rows \in Seq(Events)
        /\ Len(rows) = IF n > PageLimit THEN PageLimit ELSE n
        /\ \A i \in 1..Len(rows) : rows[i] = all[i]
    BY <1>2, <1>3, TruncateShape DEF all
  <1> DEFINE k == Len(rows)
  <1> HIDE DEF k
  <1>5. k \in Nat /\ k <= n /\ (k <= calendarPageSize => k = n)
    BY <1>1, <1>3, <1>4 DEF k
  <1>6. \A i \in 1..k : rows[i] = all[i] /\ i \in 1..n
    BY <1>1, <1>4, <1>5 DEF k
  <1>7. /\ \A i \in 1..k : rows[i] \in es
        /\ \A i, j \in 1..k : i < j => Before(rows[i], rows[j])
    BY <1>1, <1>6
  <1>8. k <= calendarPageSize => \A e \in es : \E i \in 1..k : rows[i] = e
    BY <1>1, <1>5, <1>6
  <1>9. ASSUME k > calendarPageSize, NEW e \in es
        PROVE  (\E i \in 1..calendarPageSize : rows[i] = e) \/ Before(rows[calendarPageSize], e)
    <2>1. PICK i \in 1..n : all[i] = e
      BY <1>1
    <2>2. calendarPageSize \in 1..k /\ calendarPageSize \in 1..n
      <3>1. 1 <= calendarPageSize /\ calendarPageSize <= k
        BY <1>3, <1>5, <1>9
      <3>2. calendarPageSize \in Nat
        BY <1>3
      <3> QED BY <1>1, <1>5, <3>1, <3>2
    <2>3. CASE i <= calendarPageSize
      <3>1. i \in 1..calendarPageSize /\ i \in 1..k
        BY <1>1, <1>3, <1>5, <1>9, <2>3
      <3> QED BY <1>6, <2>1, <3>1
    <2>4. CASE ~(i <= calendarPageSize)
      <3>1. calendarPageSize < i
        BY <1>1, <1>3, <2>4
      <3> QED BY <1>1, <1>6, <2>1, <2>2, <3>1
    <2> QED BY <2>3, <2>4
  <1> QED BY <1>4, <1>5, <1>7, <1>8, <1>9 DEF k
-----------------------------------------------------------------------------
(* A walk through the pages of a feed.                                     *)

Feeds == {"mine", "city"}
Walk == [phase : {"idle", "more", "done"}, feed : Feeds, cursor : [at : Int, id : Int],
         shown : Seq(Events)]

CalendarType == /\ row \in [Events -> RowRec] /\ now \in Nat
                /\ walk \in Walk
                /\ steady \subseteq Events

Times1(shown, e) == \A i, j \in 1..Len(shown) : shown[i] = e /\ shown[j] = e => i = j
Seen(shown, e) == \E i \in 1..Len(shown) : shown[i] = e

\* What a page adds to the walk w: part, of the rows in es that follow its cursor.
Adds(w, new, es, part) ==
    /\ new \in Walk /\ new.feed = w.feed /\ new.phase \in {"more", "done"}
    /\ part \in Seq(Events) /\ new.shown = w.shown \o part
    /\ \A i \in 1..Len(part) : part[i] \in es
    /\ \A e \in Events : Times1(part, e)
    /\ new.phase = "done" => \A e \in es : Seen(part, e)
    /\ new.phase = "more" =>
           /\ \A i \in 1..Len(part) : ~AfterCursor(new.cursor, part[i])
           /\ \A e \in es : Seen(part, e) \/ AfterCursor(new.cursor, e)
           /\ \A e \in Events : AfterCursor(new.cursor, e) => AfterCursor(w.cursor, e)

\* Paged adds the rows of one query, less the row too many.
LEMMA PagedAdds ==
    ASSUME row \in [Events -> RowRec], NEW w \in Walk,
           NEW es, es \subseteq Events, \A e \in es : AfterCursor(w.cursor, e),
           NEW rows, rows = truncateIDs(Ordered(es), PageLimit)
    PROVE  \E part : Adds(w, Paged(w, rows), es, part)
  <1>1. /\ rows \in Seq(Events) /\ Len(rows) \in Nat
        /\ \A i \in 1..Len(rows) : rows[i] \in es
        /\ \A i, j \in 1..Len(rows) : i < j => Before(rows[i], rows[j])
        /\ Len(rows) <= calendarPageSize => \A e \in es : \E i \in 1..Len(rows) : rows[i] = e
        /\ Len(rows) > calendarPageSize =>
               \A e \in es : (\E i \in 1..calendarPageSize : rows[i] = e)
                             \/ Before(rows[calendarPageSize], e)
    BY PageShape
  <1>2. \A i, j \in 1..Len(rows) : rows[i] = rows[j] => i = j
    <2> TAKE i \in 1..Len(rows), j \in 1..Len(rows)
    <2>1. rows[i] \in Events /\ ~Before(rows[i], rows[i])
      BY <1>1, RowsAt
    <2> QED BY <1>1, <2>1
  <1>3. CASE Len(rows) <= calendarPageSize
    <2> DEFINE new == [w EXCEPT !.phase = "done", !.shown = w.shown \o rows]
    <2>1. Paged(w, rows) = new
      BY <1>1, <1>3, CalendarAssumption DEF Paged, CalendarAssumption
    <2>2. w.shown \o rows \in Seq(Events)
      BY <1>1, ConcatProperties DEF Walk
    <2>3. /\ new \in Walk /\ new.feed = w.feed /\ new.phase = "done"
          /\ new.shown = w.shown \o rows
      <3> DEFINE both == w.shown \o rows
      <3>1. both \in Seq(Events)
        BY <2>2
      <3> HIDE DEF both
      <3>2. /\ [w EXCEPT !.phase = "done", !.shown = both] \in Walk
            /\ [w EXCEPT !.phase = "done", !.shown = both].feed = w.feed
            /\ [w EXCEPT !.phase = "done", !.shown = both].phase = "done"
            /\ [w EXCEPT !.phase = "done", !.shown = both].shown = both
        BY <3>1 DEF Walk
      <3> QED BY <3>2 DEF both
    <2> HIDE DEF new
    <2>4. Adds(w, new, es, rows)
      BY <1>1, <1>2, <1>3, <2>3 DEF Adds, Times1, Seen
    <2> QED BY <2>1, <2>4
  <1>4. CASE ~(Len(rows) <= calendarPageSize)
    <2> DEFINE last == rows[calendarPageSize]
               part == truncateIDs(rows, calendarPageSize)
               c == NextCursor(rows)
               new == [w EXCEPT !.phase = "more", !.cursor = c, !.shown = w.shown \o part]
    <2>1. calendarPageSize \in Nat \ {0} /\ Len(rows) > calendarPageSize
      BY <1>1, <1>4, CalendarAssumption DEF CalendarAssumption
    <2>2. Paged(w, rows) = new
      BY <2>1 DEF Paged
    <2>3. /\ part \in Seq(Events) /\ Len(part) = calendarPageSize
          /\ \A i \in 1..Len(part) : part[i] = rows[i]
      BY <1>1, <2>1, TruncateShape
    <2> HIDE DEF part
    <2>4. calendarPageSize \in 1..Len(rows) /\ 1..calendarPageSize \subseteq 1..Len(rows)
      BY <1>1, <2>1
    <2>5. last \in es /\ last \in Events
      BY <1>1, <2>4
    <2>6. c.at = row[last].at /\ c.id = last /\ c \in [at : Int, id : Int]
      BY <2>5, RowsAt DEF NextCursor
    <2> HIDE DEF c
    <2>7. \A e \in Events : AfterCursor(c, e) <=> Before(last, e)
      BY <2>5, <2>6, RowsAt DEF AfterCursor, Before
    <2>8. ASSUME NEW e \in Events, AfterCursor(c, e) PROVE AfterCursor(w.cursor, e)
      <3>1. AfterCursor(w.cursor, last) /\ Before(last, e)
        BY <2>5, <2>7, <2>8
      <3>2. /\ row[last].at \in Nat /\ row[e].at \in Nat /\ last \in Nat /\ e \in Nat
            /\ w.cursor.at \in Int /\ w.cursor.id \in Int
        BY <2>5, RowsAt DEF Walk
      <3> HIDE DEF last
      <3> QED BY <3>1, <3>2 DEF AfterCursor, Before
    <2>9. ASSUME NEW i \in 1..Len(part) PROVE ~AfterCursor(c, part[i])
      <3>1. i \in 1..Len(rows) /\ part[i] = rows[i] /\ rows[i] \in Events
        BY <1>1, <2>3, <2>4
      <3>2. i < calendarPageSize => Before(rows[i], last)
        BY <1>1, <2>4, <3>1
      <3>3. i < calendarPageSize \/ i = calendarPageSize
        BY <2>1, <2>3
      <3>4. ~Before(last, rows[i])
        BY <2>5, <3>1, <3>2, <3>3, RowsAt
      <3> QED BY <2>7, <3>1, <3>4
    <2>10. /\ new \in Walk /\ new.feed = w.feed /\ new.phase = "more"
           /\ new.shown = w.shown \o part /\ new.cursor = c
      <3> DEFINE both == w.shown \o part
      <3>1. both \in Seq(Events)
        BY <2>3, ConcatProperties DEF Walk
      <3> HIDE DEF both
      <3> DEFINE more == [w EXCEPT !.phase = "more", !.cursor = c, !.shown = both]
      <3>2. /\ more \in Walk /\ more.feed = w.feed /\ more.phase = "more"
            /\ more.shown = both /\ more.cursor = c
        BY <2>6, <3>1 DEF Walk
      <3> QED BY <3>2 DEF both
    <2> HIDE DEF new
    <2>11. /\ \A i \in 1..Len(part) : part[i] \in es
           /\ \A e \in Events : Times1(part, e)
      BY <1>1, <1>2, <2>3, <2>4 DEF Times1
    <2>12. ASSUME NEW e \in es PROVE Seen(part, e) \/ AfterCursor(c, e)
      BY <1>1, <2>1, <2>3, <2>7 DEF Seen
    <2>13. Adds(w, new, es, part)
      BY <2>3, <2>8, <2>9, <2>10, <2>11, <2>12 DEF Adds
    <2> QED BY <2>2, <2>13
  <1> QED BY <1>3, <1>4

\* An event that never moved to a later start is shown at most once, and not
\* asked for again; one that is owed is shown, or still ahead of the cursor.
NoRepeat(w, e) == /\ Times1(w.shown, e)
                  /\ w.phase # "done" /\ Seen(w.shown, e) => ~AfterCursor(w.cursor, e)
Reached(w, e) == Seen(w.shown, e) \/ (w.phase # "done" /\ AfterCursor(w.cursor, e))

WalkInv == /\ walk.phase = "idle" => /\ walk.cursor = NoCursor /\ walk.shown = <<>>
                                     /\ steady = {} /\ later = {}
           /\ steady \cap later = {}
           /\ \A e \in Events \ later : NoRepeat(walk, e)
           /\ \A e \in steady : InFeed(walk.feed, -1, e) /\ Reached(walk, e)

\* What two lists hold once, and not both, their concatenation holds once.
LEMMA ConcatSeen ==
    ASSUME NEW s \in Seq(Events), NEW t \in Seq(Events), NEW e
    PROVE  /\ Seen(s \o t, e) <=> Seen(s, e) \/ Seen(t, e)
           /\ Times1(s, e) /\ Times1(t, e) /\ ~(Seen(s, e) /\ Seen(t, e)) => Times1(s \o t, e)
  <1> DEFINE u == s \o t
             m == Len(s)
             n == Len(t)
  <1>1. /\ m \in Nat /\ n \in Nat /\ Len(u) = m + n
        /\ \A i \in 1..m + n : u[i] = IF i <= m THEN s[i] ELSE t[i - m]
    BY ConcatProperties
  <1> HIDE DEF u, m, n
  <1>2. ASSUME NEW i \in 1..m + n
        PROVE  \/ i \in 1..m /\ u[i] = s[i]
               \/ i \notin 1..m /\ i - m \in 1..n /\ u[i] = t[i - m]
    BY <1>1
  <1>3. ASSUME NEW i \in 1..m PROVE i \in 1..m + n /\ u[i] = s[i]
    BY <1>1
  <1>4. ASSUME NEW i \in 1..n PROVE i + m \in 1..m + n /\ u[i + m] = t[i]
    <2>1. i + m \in 1..m + n /\ ~(i + m <= m) /\ i + m - m = i
      BY <1>1
    <2> QED BY <1>1, <2>1
  <1>5. Seen(u, e) <=> Seen(s, e) \/ Seen(t, e)
    <2>1. ASSUME Seen(u, e) PROVE Seen(s, e) \/ Seen(t, e)
      BY <1>1, <1>2, <2>1 DEF Seen, m, n
    <2>2. ASSUME Seen(s, e) PROVE Seen(u, e)
      BY <1>1, <1>3, <2>2 DEF Seen, m
    <2>3. ASSUME Seen(t, e) PROVE Seen(u, e)
      BY <1>1, <1>4, <2>3 DEF Seen, n
    <2> QED BY <2>1, <2>2, <2>3
  <1>6. ASSUME Times1(s, e), Times1(t, e), ~(Seen(s, e) /\ Seen(t, e)),
               NEW i \in 1..m + n, NEW j \in 1..m + n, u[i] = e, u[j] = e
        PROVE  i = j
    <2>1. CASE i \in 1..m /\ j \in 1..m
      BY <1>2, <1>6, <2>1 DEF Times1, m
    <2>2. CASE i \notin 1..m /\ j \notin 1..m
      <3>1. i - m \in 1..n /\ j - m \in 1..n /\ t[i - m] = e /\ t[j - m] = e
        BY <1>2, <1>6, <2>2
      <3>2. i - m = j - m
        BY <1>6, <3>1 DEF Times1, n
      <3> QED BY <1>1, <3>2
    <2>3. ASSUME NEW a \in 1..m + n, NEW b \in 1..m + n, u[a] = e, u[b] = e,
                 a \in 1..m, b \notin 1..m
          PROVE  FALSE
      <3>1. Seen(s, e)
        BY <1>3, <2>3 DEF Seen, m
      <3>2. Seen(t, e)
        BY <1>2, <2>3 DEF Seen, n
      <3> QED BY <1>6, <3>1, <3>2
    <2> QED BY <1>6, <2>1, <2>2, <2>3
  <1> QED BY <1>1, <1>5, <1>6 DEF Times1, u

\* A page that adds what follows the cursor repeats nothing and leaves nothing out.
LEMMA AddsKeeps ==
    ASSUME NEW w \in Walk, w.phase # "done", NEW es, NEW new, NEW part,
           es \subseteq Events, \A e \in es : AfterCursor(w.cursor, e), Adds(w, new, es, part),
           NEW e \in Events
    PROVE  /\ NoRepeat(w, e) => NoRepeat(new, e)
           /\ Reached(w, e) /\ (AfterCursor(w.cursor, e) => e \in es) => Reached(new, e)
  <1>1. /\ w.shown \in Seq(Events) /\ part \in Seq(Events) /\ new.shown = w.shown \o part
        /\ new.phase \in {"more", "done"}
    BY DEF Adds, Walk
  <1>2. /\ Seen(new.shown, e) <=> Seen(w.shown, e) \/ Seen(part, e)
        /\ Times1(w.shown, e) /\ Times1(part, e) /\ ~(Seen(w.shown, e) /\ Seen(part, e))
               => Times1(new.shown, e)
    BY <1>1, ConcatSeen
  <1>3. Times1(part, e) /\ (Seen(part, e) => AfterCursor(w.cursor, e))
    BY DEF Adds, Seen
  <1>4. new.phase = "more" => /\ Seen(part, e) => ~AfterCursor(new.cursor, e)
                              /\ AfterCursor(new.cursor, e) => AfterCursor(w.cursor, e)
                              /\ e \in es => Seen(part, e) \/ AfterCursor(new.cursor, e)
    BY DEF Adds, Seen
  <1>5. new.phase = "done" => (e \in es => Seen(part, e))
    BY DEF Adds
  <1>6. ASSUME NoRepeat(w, e) PROVE NoRepeat(new, e)
    BY <1>1, <1>2, <1>3, <1>4, <1>6 DEF NoRepeat
  <1>7. ASSUME Reached(w, e), AfterCursor(w.cursor, e) => e \in es PROVE Reached(new, e)
    BY <1>1, <1>2, <1>4, <1>5, <1>7 DEF Reached
  <1> QED BY <1>6, <1>7
-----------------------------------------------------------------------------
(* The walk and the changes of the rows preserve the invariant.            *)

LEMMA InitWalk == Init => CalendarType /\ WalkInv
  <1> SUFFICES ASSUME Init PROVE CalendarType /\ WalkInv
    OBVIOUS
  <1>1. row \in [Events -> RowRec] /\ now = 1
    BY DEF Init, CInit, RowRec
  <1>2. NoWalk \in Walk /\ NoWalk.phase = "idle" /\ NoWalk.cursor = NoCursor /\ NoWalk.shown = <<>>
    BY DEF NoWalk, NoCursor, Walk, Feeds
  <1>3. walk = NoWalk /\ steady = {} /\ later = {}
    BY DEF Init, CInit
  <1>4. \A e \in Events : NoRepeat(walk, e)
    BY <1>2, <1>3 DEF NoRepeat, Times1, Seen
  <1> QED BY <1>1, <1>2, <1>3, <1>4 DEF CalendarType, WalkInv

\* The first page selects what the feed holds; later ones need no bound, since
\* a row that was after midnight then is after it still.
LEMMA BoundShape ==
    ASSUME CalendarType, NEW e \in Events, NEW feed \in Feeds
    PROVE  AfterCursor(NoCursor, e) /\ (InFeed(feed, Midnight, e) => InFeed(feed, -1, e))
  <1>1. row[e].at \in Nat /\ now \in Nat
    BY RowsAt DEF CalendarType
  <1>2. AfterCursor(NoCursor, e)
    BY <1>1 DEF AfterCursor, NoCursor
  <1>3. row[e].at > -1
    BY <1>1
  <1> QED BY <1>2, <1>3 DEF InFeed

LEMMA FirstPageStep ==
    ASSUME CalendarType, WalkInv, NEW feed \in Feeds, FirstPage(feed)
    PROVE  CalendarType' /\ WalkInv'
  <1> DEFINE w == [walk EXCEPT !.feed = feed]
             es == Selected(feed, Midnight, NoCursor)
             rows == truncateIDs(Ordered(es), PageLimit)
  <1>1. /\ walk \in Walk /\ walk.phase = "idle" /\ walk.cursor = NoCursor /\ walk.shown = <<>>
        /\ later = {}
    BY DEF FirstPage, CalendarType, WalkInv
  <1>2. /\ w \in Walk /\ w.phase = "idle" /\ w.feed = feed
        /\ w.cursor = NoCursor /\ w.shown = <<>>
    BY <1>1 DEF Walk
  <1>3. es \subseteq Events /\ steady' = es /\ \A e \in es : AfterCursor(w.cursor, e)
    BY <1>2, BoundShape DEF FirstPage, Selected
  <1>4. walk' = Paged(w, rows)
    BY DEF FirstPage, PageRows
  <1>5. UNCHANGED <<row, now, later>>
    BY DEF FirstPage
  <1> HIDE DEF w, rows
  <1>6. PICK part : Adds(w, walk', es, part)
    <2> HIDE DEF es
    <2> QED BY <1>2, <1>3, <1>4, PagedAdds DEF CalendarType, rows
  <1>7. walk' \in Walk /\ walk'.phase # "idle" /\ walk'.feed = feed
    BY <1>2, <1>6 DEF Adds
  <1>8. ASSUME NEW e \in Events PROVE NoRepeat(walk', e)
    <2>1. NoRepeat(w, e)
      BY <1>2 DEF NoRepeat, Times1, Seen
    <2> HIDE DEF es
    <2> QED BY <1>2, <1>3, <1>6, <2>1, AddsKeeps
  <1>9. ASSUME NEW e \in es PROVE InFeed(feed, -1, e) /\ Reached(walk', e)
    <2>1. InFeed(feed, -1, e) /\ e \in Events
      BY BoundShape DEF Selected
    <2>2. Reached(w, e)
      BY <1>2, <1>3, <1>9 DEF Reached
    <2> HIDE DEF es
    <2> QED BY <1>2, <1>3, <1>6, <1>9, <2>1, <2>2, AddsKeeps
  <1>10. \A e \in Events : /\ NoRepeat(walk, e)' <=> NoRepeat(walk', e)
                           /\ Reached(walk, e)' <=> Reached(walk', e)
                           /\ InFeed(feed, -1, e)' <=> InFeed(feed, -1, e)
    BY <1>5 DEF NoRepeat, Reached, AfterCursor, InFeed, Showable, OverAt, TimeTBD, Passes
  <1> HIDE DEF es
  <1>11. CalendarType'
    BY <1>3, <1>5, <1>7 DEF CalendarType
  <1> QED BY <1>1, <1>3, <1>5, <1>7, <1>8, <1>9, <1>10, <1>11 DEF WalkInv

LEMMA NextPageStep ==
    ASSUME CalendarType, WalkInv, NextPage
    PROVE  CalendarType' /\ WalkInv'
  <1> DEFINE es == Selected(walk.feed, -1, walk.cursor)
             rows == truncateIDs(Ordered(es), PageLimit)
  <1>1. walk \in Walk /\ walk.phase = "more" /\ steady \cap later = {} /\ steady \subseteq Events
    BY DEF NextPage, CalendarType, WalkInv
  <1>2. es \subseteq Events /\ \A e \in es : AfterCursor(walk.cursor, e)
    BY DEF Selected
  <1>3. walk' = Paged(walk, rows)
    BY DEF NextPage, PageRows
  <1>4. UNCHANGED <<row, now, steady, later>>
    BY DEF NextPage
  <1> HIDE DEF rows
  <1>5. PICK part : Adds(walk, walk', es, part)
    <2> HIDE DEF es
    <2> QED BY <1>1, <1>2, <1>3, PagedAdds DEF CalendarType, rows
  <1>6. walk' \in Walk /\ walk'.phase # "idle" /\ walk'.feed = walk.feed
    BY <1>5 DEF Adds
  <1>7. ASSUME NEW e \in Events \ later PROVE NoRepeat(walk', e)
    <2>1. NoRepeat(walk, e)
      BY DEF WalkInv
    <2> HIDE DEF es
    <2> QED BY <1>1, <1>2, <1>5, <2>1, AddsKeeps
  <1>8. ASSUME NEW e \in steady PROVE InFeed(walk.feed, -1, e) /\ Reached(walk', e)
    <2>1. InFeed(walk.feed, -1, e) /\ Reached(walk, e) /\ e \in Events
      BY <1>1 DEF WalkInv
    <2>2. AfterCursor(walk.cursor, e) => e \in es
      BY <2>1 DEF Selected
    <2> HIDE DEF es
    <2> QED BY <1>1, <1>2, <1>5, <2>1, <2>2, AddsKeeps
  <1>9. \A e \in Events : /\ NoRepeat(walk, e)' <=> NoRepeat(walk', e)
                          /\ Reached(walk, e)' <=> Reached(walk', e)
                          /\ InFeed(walk.feed, -1, e)' <=> InFeed(walk.feed, -1, e)
    BY <1>4, <1>6 DEF NoRepeat, Reached, AfterCursor, InFeed, Showable, OverAt, TimeTBD, Passes
  <1>10. CalendarType'
    BY <1>4, <1>6 DEF CalendarType
  <1> HIDE DEF es
  <1> QED BY <1>1, <1>4, <1>6, <1>7, <1>8, <1>9, <1>10 DEF WalkInv

\* A row that is written anew leaves the other rows and their history alone.
LEMMA ChangeStep ==
    ASSUME CalendarType, WalkInv, NEW e \in Events, NEW new \in RowRec, Change(e, new)
    PROVE  CalendarType' /\ WalkInv'
  <1>1. /\ row' = [row EXCEPT ![e] = new] /\ UNCHANGED <<now, walk>>
        /\ steady' = steady \ {e}
        /\ later' = IF walk.phase # "idle" /\ new.at > row[e].at THEN later \cup {e} ELSE later
    BY DEF Change
  <1>2. /\ row' \in [Events -> RowRec] /\ row'[e] = new
        /\ \A d \in Events \ {e} : row'[d] = row[d]
    BY <1>1 DEF CalendarType
  <1>3. CalendarType'
    BY <1>1, <1>2 DEF CalendarType
  <1>4. walk.phase = "idle" => walk.shown = <<>> /\ steady = {} /\ later = {}
    BY DEF WalkInv
  <1>5. ASSUME NEW d \in Events \ {e}
        PROVE  /\ NoRepeat(walk, d)' <=> NoRepeat(walk, d)
               /\ Reached(walk, d)' <=> Reached(walk, d)
               /\ InFeed(walk.feed, -1, d)' <=> InFeed(walk.feed, -1, d)
    BY <1>1, <1>2 DEF NoRepeat, Reached, AfterCursor, InFeed, Showable, OverAt, TimeTBD, Passes
  <1>6. ASSUME NEW d \in Events \ later' PROVE NoRepeat(walk, d)'
    <2>1. d \in Events \ later /\ NoRepeat(walk, d)
      BY <1>1 DEF WalkInv
    <2>2. CASE d # e
      BY <1>5, <2>1, <2>2
    <2>3. CASE walk.phase = "idle"
      <3>1. walk'.shown = <<>>
        BY <1>1, <1>4, <2>3
      <3> QED BY <3>1 DEF NoRepeat, Times1, Seen
    <2>4. CASE d = e /\ walk.phase # "idle"
      <3>1. ~(new.at > row[e].at)
        BY <1>1, <1>6, <2>4
      <3>2. /\ new.at \in Nat /\ row[e].at \in Nat /\ e \in Nat
            /\ walk.cursor.at \in Int /\ walk.cursor.id \in Int
        <4>1. new.at \in Nat
          BY CalendarAssumption DEF CalendarAssumption, RowRec
        <4> QED BY <4>1, RowsAt DEF CalendarType, Walk
      <3>3. AfterCursor(walk.cursor, e)' => AfterCursor(walk.cursor, e)
        BY <1>1, <1>2, <3>1, <3>2 DEF AfterCursor
      <3> QED BY <1>1, <2>1, <2>4, <3>3 DEF NoRepeat
    <2> QED BY <2>2, <2>3, <2>4
  <1>7. ASSUME NEW d \in steady' PROVE InFeed(walk.feed, -1, d)' /\ Reached(walk, d)'
    <2>1. d \in Events \ {e} /\ d \in steady
      BY <1>1, <1>7 DEF CalendarType
    <2>2. InFeed(walk.feed, -1, d) /\ Reached(walk, d)
      BY <2>1 DEF WalkInv
    <2> QED BY <1>5, <2>1, <2>2
  <1>8. steady' \cap later' = {}
    BY <1>1 DEF WalkInv
  <1>9. walk'.phase = "idle" => /\ walk'.cursor = NoCursor /\ walk'.shown = <<>>
                                /\ steady' = {} /\ later' = {}
    BY <1>1 DEF WalkInv
  <1> QED BY <1>3, <1>6, <1>7, <1>8, <1>9 DEF WalkInv

LEMMA RowChangeStep ==
    ASSUME CalendarType, WalkInv, NEW e \in Events, UpsertEvent(e) \/ Archive(e) \/ Match(e)
    PROVE  CalendarType' /\ WalkInv'
  <1>1. row[e] \in RowRec
    BY DEF CalendarType
  <1>2. CASE UpsertEvent(e)
    <2>1. PICK at \in Slots, s \in {Unclassified, Other} :
              Change(e, [row[e] EXCEPT !.at = at, !.archived = FALSE,
                                       !.segment = IF s = Unclassified THEN @ ELSE s])
      BY <1>2 DEF UpsertEvent
    <2>2. [row[e] EXCEPT !.at = at, !.archived = FALSE,
                         !.segment = IF s = Unclassified THEN @ ELSE s] \in RowRec
      BY <1>1 DEF RowRec
    <2> QED BY <2>1, <2>2, ChangeStep
  <1>3. CASE Archive(e)
    <2>1. [row[e] EXCEPT !.archived = TRUE] \in RowRec
      BY <1>1 DEF RowRec
    <2> QED BY <1>3, <2>1, ChangeStep DEF Archive
  <1>4. CASE Match(e)
    <2>1. PICK m \in BOOLEAN : Change(e, [row[e] EXCEPT !.matched = m])
      BY <1>4 DEF Match
    <2>2. [row[e] EXCEPT !.matched = m] \in RowRec
      BY <1>1 DEF RowRec
    <2> QED BY <2>1, <2>2, ChangeStep
  <1> QED BY <1>2, <1>3, <1>4

LEMMA TickStep ==
    ASSUME CalendarType, WalkInv, Tick
    PROVE  CalendarType' /\ WalkInv'
  <1>1. /\ now' = now + 1 /\ UNCHANGED <<row, walk, later>>
        /\ steady' = {e \in steady : OverAt(e) > now'}
    BY DEF Tick
  <1>2. CalendarType'
    BY <1>1 DEF CalendarType
  <1>3. \A e \in Events : NoRepeat(walk, e)' <=> NoRepeat(walk, e)
    BY <1>1 DEF NoRepeat, AfterCursor
  <1>4. ASSUME NEW e \in steady' PROVE InFeed(walk.feed, -1, e)' /\ Reached(walk, e)'
    <2>1. InFeed(walk.feed, -1, e) /\ Reached(walk, e) /\ OverAt(e) > now'
      BY <1>1, <1>4 DEF WalkInv
    <2>2. OverAt(e)' = OverAt(e)
      BY <1>1 DEF OverAt, TimeTBD
    <2> QED BY <1>1, <2>1, <2>2 DEF InFeed, Showable, Passes, Reached, AfterCursor
  <1>5. steady' \cap later' = {} /\ (walk'.phase = "idle" => /\ walk'.cursor = NoCursor
                                         /\ walk'.shown = <<>> /\ steady' = {} /\ later' = {})
    BY <1>1 DEF WalkInv
  <1>6. \A e \in Events \ later' : NoRepeat(walk, e)'
    BY <1>1, <1>3 DEF WalkInv
  <1> QED BY <1>2, <1>4, <1>5, <1>6 DEF WalkInv

LEMMA StillStep ==
    ASSUME CalendarType, WalkInv, UNCHANGED <<row, now, walk, steady, later>>
    PROVE  CalendarType' /\ WalkInv'
  <1>1. \A e \in Events : /\ NoRepeat(walk, e)' <=> NoRepeat(walk, e)
                          /\ Reached(walk, e)' <=> Reached(walk, e)
                          /\ InFeed(walk.feed, -1, e)' <=> InFeed(walk.feed, -1, e)
    BY DEF NoRepeat, Reached, AfterCursor, InFeed, Showable, OverAt, TimeTBD, Passes
  <1> QED BY <1>1 DEF CalendarType, WalkInv

LEMMA NextWalk ==
    ASSUME CalendarType, WalkInv, [Next]_vars
    PROVE  CalendarType' /\ WalkInv'
  <1>1. CASE UNCHANGED cvars
    BY <1>1, StillStep DEF cvars
  <1>2. ASSUME NEW semantic \in BOOLEAN, SearchEvents(semantic)
        PROVE  UNCHANGED <<row, now, walk, steady, later>>
    BY <1>2 DEF SearchEvents
  <1>3. SemanticLegFails \/ applySemanticLeg => UNCHANGED <<row, now, walk, steady, later>>
    BY DEF SemanticLegFails, applySemanticLeg
  <1>4. CASE CNext
    <2>1. \/ FirstPage("mine") \/ FirstPage("city")
          \/ NextPage
          \/ UNCHANGED <<row, now, walk, steady, later>>
          \/ Tick
          \/ \E e \in Events : UpsertEvent(e) \/ Archive(e) \/ Match(e)
      BY <1>2, <1>3, <1>4 DEF CNext, GetMyCalendar, GetCityCalendar, Environment
    <2> QED BY <2>1, FirstPageStep, NextPageStep, StillStep, TickStep, RowChangeStep DEF Feeds
  <1> QED BY <1>1, <1>4 DEF Next, vars

\* What a list holds at most one place of is held once or not at all.
LEMMA PlacesShape ==
    ASSUME NEW s \in Seq(Events), NEW e, Times1(s, e)
    PROVE  LET places == {i \in DOMAIN s : s[i] = e} IN
           /\ ~(Cardinality(places) > 1)
           /\ Seen(s, e) => Cardinality(places) = 1
  <1> DEFINE places == {i \in DOMAIN s : s[i] = e}
  <1>1. DOMAIN s = 1..Len(s)
    OBVIOUS
  <1>2. CASE Seen(s, e)
    <2>1. PICK i \in 1..Len(s) : s[i] = e
      BY <1>2 DEF Seen
    <2>2. places = {i}
      BY <1>1, <2>1 DEF Times1
    <2>3. Cardinality(places) = 1
      BY <2>2, FS_Singleton
    <2> QED BY <2>3
  <1>3. CASE ~Seen(s, e)
    <2>1. places = {}
      BY <1>1, <1>3 DEF Seen
    <2>2. Cardinality(places) = 0
      BY <2>1, FS_EmptySet
    <2> QED BY <1>3, <2>2
  <1> QED BY <1>2, <1>3

LEMMA WalkShown == CalendarType /\ WalkInv => SteadyShownOnce
  <1> SUFFICES ASSUME CalendarType, WalkInv PROVE SteadyShownOnce
    OBVIOUS
  <1>1. walk.shown \in Seq(Events) /\ steady \subseteq Events /\ steady \cap later = {}
    BY DEF CalendarType, Walk, WalkInv
  <1>2. ASSUME NEW e \in Events, Times(e) > 1 PROVE e \in later
    <2> SUFFICES ASSUME e \notin later PROVE FALSE
      OBVIOUS
    <2>1. Times1(walk.shown, e)
      BY DEF WalkInv, NoRepeat
    <2> QED BY <1>1, <1>2, <2>1, PlacesShape DEF Times
  <1>3. ASSUME walk.phase = "done", NEW e \in steady PROVE Times(e) = 1
    <2>1. Times1(walk.shown, e) /\ Seen(walk.shown, e)
      BY <1>1, <1>3 DEF WalkInv, NoRepeat, Reached
    <2> QED BY <1>1, <2>1, PlacesShape DEF Times
  <1> QED BY <1>2, <1>3 DEF SteadyShownOnce

(* A feed read to its end shows every event that stayed in it, unmoved,    *)
(* exactly once, and shows twice only what moved to a later start: for any *)
(* events, any page size, and whatever ingest, the match job and time do   *)
(* to the rows between two requests (calendar.sql, cursor.go).             *)
THEOREM SteadyRowsOnce == Spec => []SteadyShownOnce
  <1>1. CalendarType /\ WalkInv /\ [Next]_vars => (CalendarType /\ WalkInv)'
    BY NextWalk
  <1> QED BY <1>1, InitWalk, WalkShown, PTL DEF Spec
-----------------------------------------------------------------------------
(* Scores of a fusion.                                                     *)

LEMMA MulMono ==
    ASSUME NEW i \in Nat, NEW j \in Nat, NEW k \in Nat, k > 0
    PROVE  /\ i < j <=> i * k < j * k
           /\ i <= j <=> i * k <= j * k
  OBVIOUS

Fraction == [num : Nat \ {0}, den : Nat \ {0}]

\* Comparing by cross products is comparing by value: what is not lower than
\* something higher is higher itself.
LEMMA CrossOrder ==
    ASSUME NEW a \in Nat, NEW b \in Nat, NEW c \in Nat, NEW d \in Nat, NEW x \in Nat, NEW y \in Nat,
           b > 0, d > 0, y > 0
    PROVE  /\ a * d > c * b /\ c * y >= x * d => a * y > x * b
           /\ a * d >= c * b /\ c * y > x * d => a * y > x * b
           /\ a * d >= c * b /\ c * y >= x * d => a * y >= x * b
  <1> DEFINE ad == a * d
             cb == c * b
             cy == c * y
             xd == x * d
             ay == a * y
             xb == x * b
  <1>1. ad \in Nat /\ cb \in Nat /\ cy \in Nat /\ xd \in Nat /\ ay \in Nat /\ xb \in Nat
    OBVIOUS
  <1>2. ad * y = ay * d /\ cb * y = cy * b /\ xd * b = xb * d
    OBVIOUS
  <1> HIDE DEF ad, cb, cy, xd, ay, xb
  <1>3. /\ cb < ad <=> cb * y < ad * y
        /\ cb <= ad <=> cb * y <= ad * y
        /\ xd < cy <=> xd * b < cy * b
        /\ xd <= cy <=> xd * b <= cy * b
        /\ xb < ay <=> xb * d < ay * d
        /\ xb <= ay <=> xb * d <= ay * d
    BY <1>1, MulMono
  <1> DEFINE p == ay * d
             q == cy * b
             r == xb * d
  <1>4. p \in Nat /\ q \in Nat /\ r \in Nat
    BY <1>1
  <1>5. /\ cb < ad <=> q < p
        /\ cb <= ad <=> q <= p
        /\ xd < cy <=> r < q
        /\ xd <= cy <=> r <= q
        /\ xb < ay <=> r < p
        /\ xb <= ay <=> r <= p
    BY <1>2, <1>3
  <1> HIDE DEF p, q, r
  <1>6. /\ ad > cb /\ cy >= xd => ay > xb
        /\ ad >= cb /\ cy > xd => ay > xb
        /\ ad >= cb /\ cy >= xd => ay >= xb
    BY <1>1, <1>4, <1>5
  <1> QED BY <1>6 DEF ad, cb, cy, xd, ay, xb

LEMMA HigherOrder ==
    ASSUME NEW p \in Fraction, NEW q \in Fraction, NEW r \in Fraction
    PROVE  /\ ~Higher(p, p)
           /\ ~(Higher(p, q) /\ Higher(q, p))
           /\ Higher(p, q) /\ ~Higher(r, q) => Higher(p, r)
           /\ ~Higher(q, p) /\ Higher(q, r) => Higher(p, r)
           /\ ~Higher(q, p) /\ ~Higher(r, q) => ~Higher(r, p)
  <1> DEFINE a == p.num
             b == p.den
             c == q.num
             d == q.den
             x == r.num
             y == r.den
  <1>1. /\ a \in Nat /\ b \in Nat /\ c \in Nat /\ d \in Nat /\ x \in Nat /\ y \in Nat
        /\ b > 0 /\ d > 0 /\ y > 0
    BY DEF Fraction
  <1>2. /\ Higher(p, q) <=> a * d > c * b
        /\ Higher(q, p) <=> c * b > a * d
        /\ Higher(q, r) <=> c * y > x * d
        /\ Higher(r, q) <=> x * d > c * y
        /\ Higher(p, r) <=> a * y > x * b
        /\ Higher(r, p) <=> x * b > a * y
        /\ Higher(p, p) <=> a * b > a * b
    BY DEF Higher
  <1> HIDE DEF a, b, c, d, x, y
  <1>3. /\ a * d > c * b /\ c * y >= x * d => a * y > x * b
        /\ a * d >= c * b /\ c * y > x * d => a * y > x * b
        /\ a * d >= c * b /\ c * y >= x * d => a * y >= x * b
    BY <1>1, CrossOrder
  <1>4. /\ a * d \in Nat /\ c * b \in Nat /\ c * y \in Nat /\ x * d \in Nat
        /\ a * y \in Nat /\ x * b \in Nat /\ a * b \in Nat
    BY <1>1
  <1>5. ASSUME NEW u \in Nat, NEW v \in Nat PROVE (~(u > v) <=> v >= u) /\ ~(u > v /\ v > u)
    OBVIOUS
  <1> QED BY <1>2, <1>3, <1>4, <1>5

\* A place further up in the one leg, or in both, is a higher score.
LEMMA PlacesScore ==
    ASSUME NEW a \in Nat, NEW b \in Nat, NEW c \in Nat, NEW d \in Nat,
           a > 0, b > 0, a < c, b < d
    PROVE  /\ 1 * c > 1 * a
           /\ (a + b) * c > 1 * (a * b)
           /\ (a + b) * d > 1 * (a * b)
           /\ (a + b) * (c * d) > (c + d) * (a * b)
  <1> DEFINE ac == a * c
             bd == b * d
             bc == b * c
             ad == a * d
             ab == a * b
  <1>1. ac \in Nat /\ bd \in Nat /\ bc \in Nat /\ ad \in Nat /\ ab \in Nat
    OBVIOUS
  <1>2. (a + b) * c = ac + bc /\ (a + b) * d = ad + bd
    OBVIOUS
  <1>3. ab < bc /\ ab < ad
    <2>1. a * b < c * b /\ b * a < d * a
      BY MulMono
    <2>2. c * b = bc /\ b * a = ab /\ d * a = ad
      OBVIOUS
    <2> QED BY <2>1, <2>2
  <1>4. (a + b) * (c * d) = ac * d + bd * c /\ (c + d) * (a * b) = ac * b + bd * a
    OBVIOUS
  <1>5. ac * b < ac * d /\ bd * a < bd * c
    <2>1. ac > 0 /\ bd > 0
      <3>1. 0 * c < a * c /\ 0 * d < b * d
        BY MulMono
      <3> QED BY <3>1
    <2> HIDE DEF ac, bd
    <2>2. b * ac < d * ac /\ a * bd < c * bd
      BY <1>1, <2>1, MulMono
    <2>3. b * ac = ac * b /\ d * ac = ac * d /\ a * bd = bd * a /\ c * bd = bd * c
      BY <1>1
    <2> QED BY <2>2, <2>3
  <1> DEFINE s == ac * b
             t == ac * d
             u == bd * a
             v == bd * c
  <1>6. s \in Nat /\ t \in Nat /\ u \in Nat /\ v \in Nat
    BY <1>1
  <1>7. s < t /\ u < v
    BY <1>5
  <1> HIDE DEF s, t, u, v
  <1>8. t + v > s + u
    BY <1>6, <1>7
  <1>9. (a + b) * (c * d) > (c + d) * (a * b)
    BY <1>4, <1>8 DEF s, t, u, v
  <1> HIDE DEF ac, bd, bc, ad, ab
  <1>10. ac + bc > ab /\ ad + bd > ab
    BY <1>1, <1>3
  <1>11. (a + b) * c > 1 * (a * b) /\ (a + b) * d > 1 * (a * b)
    BY <1>1, <1>2, <1>10 DEF ab
  <1> QED BY <1>9, <1>11
-----------------------------------------------------------------------------
(* The list of a search.                                                   *)

\* A list of different events.
IsLeg(s) == s \in Seq(Events) /\ \A i, j \in 1..Len(s) : s[i] = s[j] => i = j

LEMMA LegShape ==
    ASSUME NEW s, IsLeg(s)
    PROVE  /\ Len(s) \in Nat /\ DOMAIN s = 1..Len(s)
           /\ ToSet(s) \subseteq Events /\ IsFiniteSet(ToSet(s))
           /\ Cardinality(ToSet(s)) = Len(s)
           /\ \A i \in 1..Len(s) : s[i] \in ToSet(s) /\ Rank(s, s[i]) = i
           /\ \A e \in ToSet(s) : Rank(s, e) \in 1..Len(s) /\ s[Rank(s, e)] = e
  <1> DEFINE n == Len(s)
  <1>1. s \in Seq(Events) /\ n \in Nat /\ DOMAIN s = 1..n /\ s \in [1..n -> Events]
    BY DEF IsLeg
  <1>2. \A i, j \in 1..n : s[i] = s[j] => i = j
    BY DEF IsLeg
  <1> HIDE DEF n
  <1>3. ToSet(s) = {s[i] : i \in 1..n}
    BY <1>1 DEF ToSet
  <1>4. ASSUME NEW e \in ToSet(s) PROVE Rank(s, e) \in 1..n /\ s[Rank(s, e)] = e
    <2>1. \E i \in 1..n : s[i] = e
      BY <1>3
    <2> QED BY <1>1, <2>1 DEF Rank
  <1>5. ASSUME NEW i \in 1..n PROVE s[i] \in ToSet(s) /\ Rank(s, s[i]) = i
    <2>1. s[i] \in ToSet(s)
      BY <1>3
    <2>2. Rank(s, s[i]) \in 1..n /\ s[Rank(s, s[i])] = s[i]
      BY <1>4, <2>1
    <2> QED BY <1>2, <2>1, <2>2
  <1>6. s \in Injection(1..n, ToSet(s)) /\ s \in Surjection(1..n, ToSet(s))
    BY <1>1, <1>2, <1>3 DEF Injection, IsInjective, Surjection
  <1>7. IsFiniteSet(1..n) /\ Cardinality(1..n) = n
    <2>1. IsFiniteSet(1..n) /\ Cardinality(1..n) = IF 1 > n THEN 0 ELSE n - 1 + 1
      BY <1>1, FS_Interval
    <2> QED BY <1>1, <2>1
  <1>8. IsFiniteSet(ToSet(s)) /\ Cardinality(ToSet(s)) = n
    BY <1>6, <1>7, FS_Surjection
  <1>9. ToSet(s) \subseteq Events
    BY <1>1, <1>3
  <1> QED BY <1>1, <1>4, <1>5, <1>8, <1>9 DEF n

LEMMA TruncatedLeg ==
    ASSUME NEW s, IsLeg(s), NEW n \in Nat
    PROVE  /\ IsLeg(truncateIDs(s, n))
           /\ Len(truncateIDs(s, n)) = IF Len(s) > n THEN n ELSE Len(s)
           /\ \A i \in 1..Len(truncateIDs(s, n)) : i \in 1..Len(s) /\ truncateIDs(s, n)[i] = s[i]
  <1> DEFINE t == truncateIDs(s, n)
             k == Len(t)
  <1>1. s \in Seq(Events) /\ Len(s) \in Nat /\ \A i, j \in 1..Len(s) : s[i] = s[j] => i = j
    BY DEF IsLeg
  <1>2. t \in Seq(Events) /\ k = (IF Len(s) > n THEN n ELSE Len(s)) /\ \A i \in 1..k : t[i] = s[i]
    BY <1>1, TruncateShape
  <1> HIDE DEF k, t
  <1>3. \A i \in 1..k : i \in 1..Len(s)
    BY <1>1, <1>2
  <1>4. IsLeg(t)
    BY <1>1, <1>2, <1>3 DEF IsLeg, k
  <1> QED BY <1>2, <1>3, <1>4 DEF k, t

LEMMA RankingsAreLegs == \A s \in Rankings : IsLeg(s)
  <1> SUFFICES ASSUME NEW s \in Rankings PROVE IsLeg(s)
    OBVIOUS
  <1>1. PICK es \in SUBSET Events : s \in SetToSeqs(es)
    BY DEF Rankings, SetToAllKPermutations
  <1> DEFINE n == Cardinality(es)
  <1>2. n \in Nat
    BY FS_Subset, FS_CardinalityType, CalendarAssumption DEF CalendarAssumption
  <1>3. s \in [1..n -> es] /\ \A i, j \in 1..n : i # j => s[i] # s[j]
    BY <1>1 DEF SetToSeqs
  <1> HIDE DEF n
  <1>4. s \in Seq(Events) /\ Len(s) = n
    BY <1>2, <1>3
  <1> QED BY <1>3, <1>4 DEF IsLeg

\* As Dominates has it, for any two legs.
Outranks(lexical, semantic, d, e) ==
    d # e /\ NotBelow(lexical, d, e) /\ NotBelow(semantic, d, e)

LEMMA NotBelowShape ==
    ASSUME NEW leg, IsLeg(leg), NEW d, NEW e, d # e, NotBelow(leg, d, e), e \in ToSet(leg)
    PROVE  /\ d \in ToSet(leg)
           /\ Rank(leg, d) \in Nat /\ Rank(leg, e) \in Nat
           /\ 0 < Rank(leg, d) /\ Rank(leg, d) < Rank(leg, e)
  <1>1. d \in ToSet(leg) /\ Rank(leg, d) <= Rank(leg, e)
    BY DEF NotBelow
  <1>2. /\ Rank(leg, d) \in 1..Len(leg) /\ leg[Rank(leg, d)] = d
        /\ Rank(leg, e) \in 1..Len(leg) /\ leg[Rank(leg, e)] = e /\ Len(leg) \in Nat
    BY <1>1, LegShape
  <1>3. Rank(leg, d) # Rank(leg, e)
    BY <1>2
  <1> QED BY <1>1, <1>2, <1>3

LEMMA ScoreShape ==
    ASSUME NEW lexical, NEW semantic, IsLeg(lexical), IsLeg(semantic),
           NEW e \in Legs(lexical, semantic)
    PROVE  /\ Score(lexical, semantic, e) \in Fraction
           /\ Met(lexical, semantic, e) \in Nat
           /\ e \in ToSet(lexical) => rrfK + Rank(lexical, e) \in Nat \ {0}
           /\ e \in ToSet(semantic) => rrfK + Rank(semantic, e) \in Nat \ {0}
  <1> DEFINE a == rrfK + Rank(lexical, e)
             b == rrfK + Rank(semantic, e)
  <1>1. e \in ToSet(lexical) \/ e \in ToSet(semantic)
    BY DEF Legs
  <1>2. e \in ToSet(lexical) => Rank(lexical, e) \in Nat /\ a \in Nat \ {0}
    BY LegShape DEF rrfK
  <1>3. e \in ToSet(semantic) => Rank(semantic, e) \in Nat /\ b \in Nat \ {0}
    BY LegShape DEF rrfK
  <1>4. Len(lexical) \in Nat
    BY LegShape
  <1>5. Met(lexical, semantic, e) \in Nat
    BY <1>1, <1>2, <1>3, <1>4 DEF Met
  <1>6. Score(lexical, semantic, e) = IF e \notin ToSet(semantic) THEN [num |-> 1, den |-> a]
                                      ELSE IF e \notin ToSet(lexical) THEN [num |-> 1, den |-> b]
                                      ELSE [num |-> a + b, den |-> a * b]
    BY DEF Score
  <1> HIDE DEF a, b
  <1>7. e \in ToSet(lexical) /\ e \in ToSet(semantic) => a + b \in Nat \ {0} /\ a * b \in Nat \ {0}
    <2> SUFFICES ASSUME a \in Nat \ {0}, b \in Nat \ {0}
                 PROVE  a + b \in Nat \ {0} /\ a * b \in Nat \ {0}
      BY <1>2, <1>3
    <2>1. 0 * b < a * b
      BY MulMono
    <2> QED BY <2>1
  <1>8. Score(lexical, semantic, e) \in Fraction
    BY <1>1, <1>2, <1>3, <1>6, <1>7 DEF Fraction
  <1> QED BY <1>2, <1>3, <1>5, <1>8 DEF a, b

\* Two places are never the same, so that no tie is left.
LEMMA MetApart ==
    ASSUME NEW lexical, NEW semantic, IsLeg(lexical), IsLeg(semantic),
           NEW d \in Legs(lexical, semantic), NEW e \in Legs(lexical, semantic),
           Met(lexical, semantic, d) = Met(lexical, semantic, e)
    PROVE  d = e
  <1>1. Len(lexical) \in Nat
    BY LegShape
  <1>2. ASSUME NEW x \in Legs(lexical, semantic)
        PROVE  \/ /\ x \in ToSet(lexical) /\ Met(lexical, semantic, x) = Rank(lexical, x)
                  /\ Rank(lexical, x) \in 1..Len(lexical) /\ lexical[Rank(lexical, x)] = x
               \/ /\ x \notin ToSet(lexical)
                  /\ Met(lexical, semantic, x) = Len(lexical) + Rank(semantic, x)
                  /\ Rank(semantic, x) \in Nat /\ Rank(semantic, x) > 0
                  /\ semantic[Rank(semantic, x)] = x
    <2>1. CASE x \in ToSet(lexical)
      BY <2>1, LegShape DEF Met
    <2>2. CASE x \notin ToSet(lexical)
      <3>1. x \in ToSet(semantic)
        BY <2>2 DEF Legs
      <3>2. /\ Rank(semantic, x) \in 1..Len(semantic) /\ semantic[Rank(semantic, x)] = x
            /\ Len(semantic) \in Nat
        BY <3>1, LegShape
      <3> QED BY <2>2, <3>2 DEF Met
    <2> QED BY <2>1, <2>2
  <1> DEFINE m == Met(lexical, semantic, d)
  <1>3. CASE d \in ToSet(lexical) /\ e \in ToSet(lexical)
    BY <1>2, <1>3
  <1>4. CASE d \notin ToSet(lexical) /\ e \notin ToSet(lexical)
    <2>1. Rank(semantic, d) = Rank(semantic, e)
      BY <1>1, <1>2, <1>4
    <2> QED BY <1>2, <1>4, <2>1
  <1>5. CASE d \in ToSet(lexical) /\ e \notin ToSet(lexical)
    <2>1. m <= Len(lexical) /\ m \in Nat /\ m > Len(lexical)
      BY <1>1, <1>2, <1>5
    <2> QED BY <1>1, <2>1
  <1>6. CASE d \notin ToSet(lexical) /\ e \in ToSet(lexical)
    <2>1. m <= Len(lexical) /\ m \in Nat /\ m > Len(lexical)
      BY <1>1, <1>2, <1>6
    <2> QED BY <1>1, <2>1
  <1> QED BY <1>3, <1>4, <1>5, <1>6

\* Whatever both legs rank at least as high scores more.
LEMMA OutranksHigher ==
    ASSUME NEW lexical, NEW semantic, IsLeg(lexical), IsLeg(semantic),
           NEW d \in Legs(lexical, semantic), NEW e \in Legs(lexical, semantic),
           Outranks(lexical, semantic, d, e)
    PROVE  Higher(Score(lexical, semantic, d), Score(lexical, semantic, e))
  <1> DEFINE a == rrfK + Rank(lexical, d)
             b == rrfK + Rank(semantic, d)
             c == rrfK + Rank(lexical, e)
             f == rrfK + Rank(semantic, e)
             p == Score(lexical, semantic, d)
             q == Score(lexical, semantic, e)
  <1>1. e \in ToSet(lexical) => d \in ToSet(lexical) /\ c \in Nat /\ a < c
    BY NotBelowShape DEF Outranks, rrfK
  <1>2. e \in ToSet(semantic) => d \in ToSet(semantic) /\ f \in Nat /\ b < f
    BY NotBelowShape DEF Outranks, rrfK
  <1>3. /\ d \in ToSet(lexical) => a \in Nat /\ a > 0
        /\ d \in ToSet(semantic) => b \in Nat /\ b > 0
    BY ScoreShape
  <1>4. /\ p = IF d \notin ToSet(semantic) THEN [num |-> 1, den |-> a]
               ELSE IF d \notin ToSet(lexical) THEN [num |-> 1, den |-> b]
               ELSE [num |-> a + b, den |-> a * b]
        /\ q = IF e \notin ToSet(semantic) THEN [num |-> 1, den |-> c]
               ELSE IF e \notin ToSet(lexical) THEN [num |-> 1, den |-> f]
               ELSE [num |-> c + f, den |-> c * f]
    BY DEF Score
  <1>5. e \in ToSet(lexical) \/ e \in ToSet(semantic)
    BY DEF Legs
  <1> HIDE DEF a, b, c, f, p, q
  <1>6. CASE e \in ToSet(lexical) /\ e \in ToSet(semantic)
    <2>1. (a + b) * (c * f) > (c + f) * (a * b)
      BY <1>1, <1>2, <1>3, <1>6, PlacesScore
    <2>2. p.num = a + b /\ p.den = a * b /\ q.num = c + f /\ q.den = c * f
      BY <1>1, <1>2, <1>4, <1>6
    <2> QED BY <2>1, <2>2 DEF Higher, p, q
  <1>7. CASE e \in ToSet(lexical) /\ e \notin ToSet(semantic)
    <2>1. q.num = 1 /\ q.den = c
      BY <1>4, <1>7
    <2>2. CASE d \in ToSet(semantic)
      <3>1. p.num = a + b /\ p.den = a * b
        BY <1>1, <1>4, <1>7, <2>2
      <3>2. (a + b) * c > 1 * (a * b)
        <4>1. b \in Nat /\ b + 1 \in Nat /\ b < b + 1 /\ b > 0
          BY <1>3, <2>2
        <4> QED BY <1>1, <1>3, <1>7, <4>1, PlacesScore
      <3> QED BY <2>1, <3>1, <3>2 DEF Higher, p, q
    <2>3. CASE d \notin ToSet(semantic)
      <3>1. p.num = 1 /\ p.den = a
        BY <1>4, <2>3
      <3>2. 1 * c > 1 * a
        BY <1>1, <1>3, <1>7
      <3> QED BY <2>1, <3>1, <3>2 DEF Higher, p, q
    <2> QED BY <2>2, <2>3
  <1>8. CASE e \notin ToSet(lexical) /\ e \in ToSet(semantic)
    <2>1. q.num = 1 /\ q.den = f
      BY <1>4, <1>8
    <2>2. CASE d \in ToSet(lexical)
      <3>1. p.num = a + b /\ p.den = a * b
        BY <1>2, <1>4, <1>8, <2>2
      <3>2. (a + b) * f > 1 * (a * b)
        <4>1. a \in Nat /\ a + 1 \in Nat /\ a < a + 1 /\ a > 0
          BY <1>3, <2>2
        <4> QED BY <1>2, <1>3, <1>8, <4>1, PlacesScore
      <3> QED BY <2>1, <3>1, <3>2 DEF Higher, p, q
    <2>3. CASE d \notin ToSet(lexical)
      <3>1. p.num = 1 /\ p.den = b
        BY <1>2, <1>4, <1>8, <2>3
      <3>2. 1 * f > 1 * b
        BY <1>2, <1>3, <1>8
      <3> QED BY <2>1, <3>1, <3>2 DEF Higher, p, q
    <2> QED BY <2>2, <2>3
  <1> QED BY <1>5, <1>6, <1>7, <1>8

LEMMA AboveOrders ==
    ASSUME NEW lexical, NEW semantic, IsLeg(lexical), IsLeg(semantic), NEW found,
           found = Legs(lexical, semantic), NEW R,
           \A d, e \in found : <<d, e>> \in R <=> Above(lexical, semantic, d, e)
    PROVE  Orders(R, found)
  <1> DEFINE sc(e) == Score(lexical, semantic, e)
             at(e) == Met(lexical, semantic, e)
  <1>1. \A e \in found : sc(e) \in Fraction /\ at(e) \in Nat
    BY ScoreShape
  <1>2. \A d, e \in found : at(d) = at(e) => d = e
    BY MetApart
  <1>3. \A d, e \in found : <<d, e>> \in R
                            <=> Higher(sc(d), sc(e)) \/ (~Higher(sc(e), sc(d)) /\ at(d) < at(e))
    BY DEF Above
  <1> HIDE DEF sc, at
  <1>4. \A x \in found : <<x, x>> \notin R
    BY <1>1, <1>3, HigherOrder
  <1>5. ASSUME NEW x \in found, NEW y \in found PROVE x = y \/ <<x, y>> \in R \/ <<y, x>> \in R
    <2>1. at(x) < at(y) \/ at(y) < at(x) \/ x = y
      BY <1>1, <1>2
    <2> QED BY <1>3, <2>1
  <1>6. ASSUME NEW x \in found, NEW y \in found, NEW z \in found, <<x, y>> \in R, <<y, z>> \in R
        PROVE  <<x, z>> \in R
    <2>1. sc(x) \in Fraction /\ sc(y) \in Fraction /\ sc(z) \in Fraction
      BY <1>1
    <2>2. /\ Higher(sc(x), sc(y)) /\ ~Higher(sc(z), sc(y)) => Higher(sc(x), sc(z))
          /\ ~Higher(sc(y), sc(x)) /\ Higher(sc(y), sc(z)) => Higher(sc(x), sc(z))
          /\ ~Higher(sc(y), sc(x)) /\ ~Higher(sc(z), sc(y)) => ~Higher(sc(z), sc(x))
          /\ ~(Higher(sc(y), sc(z)) /\ Higher(sc(z), sc(y)))
          /\ ~(Higher(sc(x), sc(y)) /\ Higher(sc(y), sc(x)))
      BY <2>1, HigherOrder
    <2>3. at(x) < at(y) /\ at(y) < at(z) => at(x) < at(z)
      BY <1>1
    <2>4. Higher(sc(x), sc(y)) \/ (~Higher(sc(y), sc(x)) /\ at(x) < at(y))
      BY <1>3, <1>6
    <2>5. Higher(sc(y), sc(z)) \/ (~Higher(sc(z), sc(y)) /\ at(y) < at(z))
      BY <1>3, <1>6
    <2>6. Higher(sc(x), sc(z)) \/ (~Higher(sc(z), sc(x)) /\ at(x) < at(z))
      BY <2>2, <2>3, <2>4, <2>5
    <2> QED BY <1>3, <2>6
  <1> QED BY <1>4, <1>5, <1>6 DEF Orders

\* The whole of what was found, with nothing above what outranks it.
Ranked(all, lexical, semantic) ==
    /\ IsLeg(all) /\ ToSet(all) = Legs(lexical, semantic)
    /\ \A d, e \in Legs(lexical, semantic) :
           Outranks(lexical, semantic, d, e) => Rank(all, d) < Rank(all, e)

LEMMA FusedRanked ==
    ASSUME NEW lexical, NEW semantic, IsLeg(lexical), IsLeg(semantic), NEW limit
    PROVE  \E all : Ranked(all, lexical, semantic)
                    /\ fuseRRF(lexical, semantic, limit) = truncateIDs(all, limit)
  <1> DEFINE found == Legs(lexical, semantic)
             R == {p \in found \X found : Above(lexical, semantic, p[1], p[2])}
             all == Sorted(found, R)
             n == Cardinality(found)
  <1>1. fuseRRF(lexical, semantic, limit) = truncateIDs(all, limit)
    BY DEF fuseRRF
  <1>2. \A d, e \in found : <<d, e>> \in R <=> Above(lexical, semantic, d, e)
    OBVIOUS
  <1>3. found \subseteq Events /\ IsFiniteSet(found)
    <2>1. found \subseteq Events
      BY LegShape DEF Legs
    <2> QED BY <2>1, FS_Subset, CalendarAssumption DEF CalendarAssumption
  <1> HIDE DEF R
  <1>4. Orders(R, found)
    BY <1>2, AboveOrders
  <1>5. /\ n \in Nat /\ all \in [1..n -> found]
        /\ \A i, j \in 1..n : i < j => <<all[i], all[j]>> \in R
        /\ \A i, j \in 1..n : all[i] = all[j] => i = j
        /\ \A e \in found : \E i \in 1..n : all[i] = e
    <2> HIDE DEF found
    <2> QED BY <1>3, <1>4, SortedShape
  <1> HIDE DEF found, all, n
  <1>6. all \in Seq(Events) /\ Len(all) = n
    BY <1>3, <1>5
  <1>7. IsLeg(all)
    BY <1>5, <1>6 DEF IsLeg
  <1>8. ToSet(all) = found
    BY <1>5, <1>6 DEF ToSet
  <1>9. ASSUME NEW d \in found, NEW e \in found, Outranks(lexical, semantic, d, e)
        PROVE  Rank(all, d) < Rank(all, e)
    <2>1. Higher(Score(lexical, semantic, d), Score(lexical, semantic, e))
      BY <1>9, OutranksHigher DEF found
    <2>2. Score(lexical, semantic, d) \in Fraction /\ Score(lexical, semantic, e) \in Fraction
      BY ScoreShape DEF found
    <2>3. ~Higher(Score(lexical, semantic, e), Score(lexical, semantic, d))
      BY <2>1, <2>2, HigherOrder
    <2>4. <<e, d>> \notin R
      BY <1>2, <2>1, <2>3 DEF Above
    <2>5. /\ Rank(all, d) \in 1..n /\ all[Rank(all, d)] = d
          /\ Rank(all, e) \in 1..n /\ all[Rank(all, e)] = e
      BY <1>6, <1>7, <1>8, LegShape
    <2>6. Rank(all, d) # Rank(all, e)
      BY <1>9, <2>5 DEF Outranks
    <2>7. ~(Rank(all, e) < Rank(all, d))
      BY <1>5, <2>4, <2>5
    <2> QED BY <1>5, <2>5, <2>6, <2>7
  <1>10. Ranked(all, lexical, semantic)
    BY <1>7, <1>8, <1>9 DEF Ranked, found
  <1> QED BY <1>1, <1>10

\* What SearchListsTheBest says of a list and the two legs it was made of.
ListsBest(list, lexical, semantic) ==
    /\ Len(list) = IF Cardinality(Legs(lexical, semantic)) > searchResultLimit
                   THEN searchResultLimit ELSE Cardinality(Legs(lexical, semantic))
    /\ ToSet(list) \subseteq Legs(lexical, semantic)
    /\ Cardinality(ToSet(list)) = Len(list)
    /\ \A d, e \in Legs(lexical, semantic) :
           Outranks(lexical, semantic, d, e) /\ e \in ToSet(list)
               => d \in ToSet(list) /\ Rank(list, d) < Rank(list, e)

LEMMA PrefixBest ==
    ASSUME NEW all, NEW lexical, NEW semantic, Ranked(all, lexical, semantic),
           NEW list, list = truncateIDs(all, searchResultLimit)
    PROVE  IsLeg(list) /\ ListsBest(list, lexical, semantic)
  <1> DEFINE found == Legs(lexical, semantic)
  <1>1. searchResultLimit \in Nat
    BY CalendarAssumption DEF CalendarAssumption
  <1>2. IsLeg(all) /\ ToSet(all) = found
    BY DEF Ranked
  <1>3. /\ IsLeg(list)
        /\ Len(list) = IF Len(all) > searchResultLimit THEN searchResultLimit ELSE Len(all)
        /\ \A i \in 1..Len(list) : i \in 1..Len(all) /\ list[i] = all[i]
    BY <1>1, <1>2, TruncatedLeg
  <1>4. /\ Len(all) \in Nat /\ Cardinality(found) = Len(all)
        /\ \A e \in found : Rank(all, e) \in 1..Len(all) /\ all[Rank(all, e)] = e
        /\ \A i \in 1..Len(all) : all[i] \in found /\ Rank(all, all[i]) = i
    BY <1>2, LegShape
  <1>5. /\ Len(list) \in Nat /\ Cardinality(ToSet(list)) = Len(list)
        /\ \A e \in ToSet(list) : Rank(list, e) \in 1..Len(list) /\ list[Rank(list, e)] = e
        /\ \A i \in 1..Len(list) : list[i] \in ToSet(list) /\ Rank(list, list[i]) = i
    BY <1>3, LegShape
  <1> HIDE DEF found
  <1>6. ASSUME NEW e \in ToSet(list)
        PROVE  e \in found /\ Rank(all, e) = Rank(list, e) /\ Rank(list, e) \in 1..Len(list)
    <2>1. Rank(list, e) \in 1..Len(list) /\ list[Rank(list, e)] = e
      BY <1>5
    <2>2. Rank(list, e) \in 1..Len(all) /\ all[Rank(list, e)] = e
      BY <1>3, <2>1
    <2> QED BY <1>4, <2>1, <2>2
  <1>7. ASSUME NEW d \in found, NEW e \in found, Outranks(lexical, semantic, d, e), e \in ToSet(list)
        PROVE  d \in ToSet(list) /\ Rank(list, d) < Rank(list, e)
    <2>1. Rank(all, d) < Rank(all, e)
      BY <1>7 DEF Ranked, found
    <2>2. Rank(all, e) = Rank(list, e) /\ Rank(list, e) \in 1..Len(list)
      BY <1>6, <1>7
    <2>3. Rank(all, d) \in 1..Len(all) /\ all[Rank(all, d)] = d
      BY <1>4
    <2>4. Rank(all, d) \in 1..Len(list)
      BY <1>4, <1>5, <2>1, <2>2, <2>3
    <2>5. list[Rank(all, d)] = d
      BY <1>3, <2>3, <2>4
    <2>6. d \in ToSet(list) /\ Rank(list, d) = Rank(all, d)
      BY <1>5, <2>4, <2>5
    <2> QED BY <2>1, <2>2, <2>6
  <1>8. ToSet(list) \subseteq found
    BY <1>6
  <1>9. Len(list) = IF Cardinality(found) > searchResultLimit THEN searchResultLimit ELSE Cardinality(found)
    BY <1>3, <1>4
  <1> QED BY <1>3, <1>5, <1>7, <1>8, <1>9 DEF ListsBest, found

\* Without a semantic leg the lexical one is the ranking.
LEMMA LexicalRanked ==
    ASSUME NEW lexical, IsLeg(lexical)
    PROVE  Ranked(lexical, lexical, <<>>)
  <1>1. ToSet(<<>>) = {}
    BY DEF ToSet
  <1>2. Legs(lexical, <<>>) = ToSet(lexical)
    BY <1>1 DEF Legs
  <1>3. ASSUME NEW d \in ToSet(lexical), NEW e \in ToSet(lexical), Outranks(lexical, <<>>, d, e)
        PROVE  Rank(lexical, d) < Rank(lexical, e)
    BY <1>3, NotBelowShape DEF Outranks
  <1> QED BY <1>2, <1>3 DEF Ranked

LEMMA TruncatedTwice ==
    ASSUME NEW s, IsLeg(s), NEW n \in Nat, Len(s) <= n
    PROVE  truncateIDs(s, n) = s
  <1>1. Len(s) \in Nat
    BY LegShape
  <1>2. /\ truncateIDs(s, n) \in Seq(Events) /\ s \in Seq(Events)
        /\ Len(truncateIDs(s, n)) = Len(s)
        /\ \A i \in 1..Len(s) : truncateIDs(s, n)[i] = s[i]
    BY <1>1, TruncatedLeg DEF IsLeg
  <1> QED BY <1>2, SeqEqual

\* With display data for every id, resultsFor leaves out none and keeps the order.
LEMMA ResultsBest ==
    ASSUME NEW ids, IsLeg(ids), NEW byID, ToSet(ids) \subseteq byID,
           NEW lexical, NEW semantic, ListsBest(ids, lexical, semantic)
    PROVE  /\ resultsFor(ids, byID) \in Seq(Events)
           /\ ListsBest(resultsFor(ids, byID), lexical, semantic)
  <1> DEFINE n == Len(ids)
             kept == {i \in DOMAIN ids : ids[i] \in byID}
             R == {p \in kept \X kept : p[1] < p[2]}
             at == Sorted(kept, R)
             r == [k \in 1..Cardinality(kept) |-> ids[at[k]]]
  <1>1. resultsFor(ids, byID) = r
    BY DEF resultsFor
  <1>2. /\ n \in Nat /\ DOMAIN ids = 1..n /\ ToSet(ids) \subseteq Events
        /\ Cardinality(ToSet(ids)) = n
        /\ \A i \in 1..n : ids[i] \in ToSet(ids) /\ Rank(ids, ids[i]) = i
        /\ \A e \in ToSet(ids) : Rank(ids, e) \in 1..n /\ ids[Rank(ids, e)] = e
    BY LegShape
  <1>3. kept = 1..n
    BY <1>2
  <1>4. \A i, j \in kept : <<i, j>> \in R <=> i < j
    OBVIOUS
  <1> HIDE DEF n, kept, R
  <1>5. IsFiniteSet(kept) /\ Cardinality(kept) = n
    <2>1. IsFiniteSet(1..n) /\ Cardinality(1..n) = IF 1 > n THEN 0 ELSE n - 1 + 1
      BY <1>2, FS_Interval
    <2> QED BY <1>2, <1>3, <2>1
  <1>6. Orders(R, kept)
    <2>1. \A i \in kept : i \in Int
      BY <1>2, <1>3
    <2>2. \A i \in kept : <<i, i>> \notin R
      BY <1>4, <2>1
    <2>3. ASSUME NEW i \in kept, NEW j \in kept PROVE i = j \/ <<i, j>> \in R \/ <<j, i>> \in R
      <3>1. i = j \/ i < j \/ j < i
        BY <2>1
      <3> QED BY <1>4, <3>1
    <2>4. ASSUME NEW i \in kept, NEW j \in kept, NEW k \in kept, <<i, j>> \in R, <<j, k>> \in R
          PROVE  <<i, k>> \in R
      <3>1. i < j /\ j < k
        BY <1>4, <2>4
      <3>2. i < k
        BY <2>1, <3>1
      <3> QED BY <1>4, <3>2
    <2> QED BY <2>2, <2>3, <2>4 DEF Orders
  <1>7. /\ at \in [1..n -> 1..n]
        /\ \A k, l \in 1..n : k < l => <<at[k], at[l]>> \in R
        /\ \A k, l \in 1..n : at[k] = at[l] => k = l
        /\ \A i \in 1..n : \E k \in 1..n : at[k] = i
    BY <1>3, <1>5, <1>6, SortedShape
  <1> HIDE DEF at
  <1>8. \A k, l \in 1..n : k < l => at[k] < at[l]
    BY <1>3, <1>4, <1>7
  <1>9. r = [k \in 1..n |-> ids[at[k]]]
    BY <1>5
  <1> HIDE DEF r
  <1>10. /\ r \in Seq(Events) /\ Len(r) = n
         /\ \A k \in 1..n : r[k] = ids[at[k]]
    BY <1>2, <1>7, <1>9
  <1>11. IsLeg(r)
    <2>1. ASSUME NEW k \in 1..n, NEW l \in 1..n, r[k] = r[l] PROVE k = l
      <3>1. at[k] = at[l]
        BY <1>2, <1>7, <1>10, <2>1
      <3> QED BY <1>7, <3>1
    <2> QED BY <1>10, <2>1 DEF IsLeg
  <1>12. /\ \A e \in ToSet(r) : Rank(r, e) \in 1..n /\ r[Rank(r, e)] = e
         /\ \A k \in 1..n : r[k] \in ToSet(r) /\ Rank(r, r[k]) = k
         /\ Cardinality(ToSet(r)) = n
    BY <1>10, <1>11, LegShape
  <1>13. ASSUME NEW e \in ToSet(ids)
         PROVE  e \in ToSet(r) /\ Rank(r, e) \in 1..n /\ at[Rank(r, e)] = Rank(ids, e)
    <2>1. PICK k \in 1..n : at[k] = Rank(ids, e)
      BY <1>2, <1>7
    <2>2. r[k] = e
      BY <1>2, <1>10, <2>1
    <2> QED BY <1>12, <2>1, <2>2
  <1>14. ToSet(r) \subseteq ToSet(ids)
    <2>1. ASSUME NEW e \in ToSet(r) PROVE e \in ToSet(ids)
      <3>1. Rank(r, e) \in 1..n /\ r[Rank(r, e)] = e
        BY <1>12
      <3>2. e = ids[at[Rank(r, e)]] /\ at[Rank(r, e)] \in 1..n
        BY <1>7, <1>10, <3>1
      <3> QED BY <1>2, <3>2
    <2> QED BY <2>1
  <1>15. ASSUME NEW d \in ToSet(ids), NEW e \in ToSet(ids), Rank(ids, d) < Rank(ids, e)
         PROVE  Rank(r, d) < Rank(r, e)
    <2>1. /\ Rank(r, d) \in 1..n /\ at[Rank(r, d)] = Rank(ids, d)
          /\ Rank(r, e) \in 1..n /\ at[Rank(r, e)] = Rank(ids, e)
      BY <1>13
    <2>2. at[Rank(r, d)] \in 1..n /\ at[Rank(r, e)] \in 1..n
      BY <1>7, <2>1
    <2>3. ~(Rank(r, e) < Rank(r, d)) /\ Rank(r, d) # Rank(r, e)
      BY <1>8, <1>15, <2>1, <2>2
    <2> QED BY <1>2, <2>1, <2>3
  <1>16. ToSet(r) = ToSet(ids)
    BY <1>13, <1>14
  <1>17. ListsBest(r, lexical, semantic)
    BY <1>10, <1>12, <1>15, <1>16 DEF ListsBest, n
  <1> QED BY <1>1, <1>10, <1>17

Searching == [phase : {"idle", "lexical", "done"}, lexical : Seq(Events),
              semantic : Seq(Events), results : Seq(Events)]

SearchInv == /\ search \in Searching
             /\ search.phase # "done" => search.semantic = <<>>
             /\ search.phase = "lexical" => IsLeg(search.lexical)
             /\ search.phase = "done" => ListsBest(search.results, search.lexical, search.semantic)

LEMMA SearchEventsStep ==
    ASSUME SearchInv, NEW semantic \in BOOLEAN, SearchEvents(semantic)
    PROVE  SearchInv'
  <1>1. search \in Searching /\ search.phase = "idle" /\ search.semantic = <<>>
    BY DEF SearchInv, SearchEvents
  <1>2. searchResultLimit \in Nat /\ searchCandidateLimit \in Nat
    BY CalendarAssumption DEF CalendarAssumption
  <1>3. PICK all \in Rankings :
            LET leg == truncateIDs(all, IF semantic THEN searchCandidateLimit ELSE searchResultLimit)
            IN  search' = IF semantic
                          THEN [search EXCEPT !.phase = "lexical", !.lexical = leg]
                          ELSE [search EXCEPT !.phase = "done", !.lexical = leg, !.results = leg]
    BY DEF SearchEvents
  <1>4. IsLeg(all)
    BY RankingsAreLegs
  <1>5. CASE semantic
    <2> DEFINE leg == truncateIDs(all, searchCandidateLimit)
    <2>1. search' = [search EXCEPT !.phase = "lexical", !.lexical = leg]
      BY <1>3, <1>5
    <2>2. IsLeg(leg) /\ leg \in Seq(Events)
      BY <1>2, <1>4, TruncatedLeg DEF IsLeg
    <2> HIDE DEF leg
    <2>3. /\ search' \in Searching /\ search'.phase = "lexical"
          /\ search'.lexical = leg /\ search'.semantic = <<>>
      BY <1>1, <2>1, <2>2 DEF Searching
    <2> QED BY <2>2, <2>3 DEF SearchInv
  <1>6. CASE ~semantic
    <2> DEFINE leg == truncateIDs(all, searchResultLimit)
    <2>1. search' = [search EXCEPT !.phase = "done", !.lexical = leg, !.results = leg]
      BY <1>3, <1>6
    <2>2. IsLeg(leg) /\ leg \in Seq(Events) /\ Len(leg) <= searchResultLimit
      <3>1. Len(all) \in Nat
        BY <1>4, LegShape
      <3> QED BY <1>2, <1>4, <3>1, TruncatedLeg DEF IsLeg
    <2> HIDE DEF leg
    <2>3. ListsBest(leg, leg, <<>>)
      BY <1>2, <2>2, LexicalRanked, TruncatedTwice, PrefixBest
    <2>4. /\ search' \in Searching /\ search'.phase = "done"
          /\ search'.lexical = leg /\ search'.semantic = <<>> /\ search'.results = leg
      BY <1>1, <2>1, <2>2 DEF Searching
    <2> QED BY <2>3, <2>4 DEF SearchInv
  <1> QED BY <1>5, <1>6

LEMMA SemanticLegFailsStep ==
    ASSUME SearchInv, SemanticLegFails
    PROVE  SearchInv'
  <1> DEFINE list == truncateIDs(search.lexical, searchResultLimit)
  <1>1. /\ search \in Searching /\ search.semantic = <<>> /\ IsLeg(search.lexical)
        /\ search' = [search EXCEPT !.phase = "done", !.results = list]
    BY DEF SearchInv, SemanticLegFails
  <1>2. IsLeg(list) /\ ListsBest(list, search.lexical, search.semantic)
    BY <1>1, LexicalRanked, PrefixBest
  <1>3. list \in Seq(Events)
    BY <1>2 DEF IsLeg
  <1> HIDE DEF list
  <1>4. /\ search' \in Searching /\ search'.phase = "done" /\ search'.lexical = search.lexical
        /\ search'.semantic = search.semantic /\ search'.results = list
    BY <1>1, <1>3 DEF Searching
  <1> QED BY <1>2, <1>4 DEF SearchInv

LEMMA SemanticLegStep ==
    ASSUME SearchInv, applySemanticLeg
    PROVE  SearchInv'
  <1> DEFINE lexical == search.lexical
  <1>1. search \in Searching /\ IsLeg(lexical)
    BY DEF SearchInv, applySemanticLeg
  <1>2. PICK ranking \in Rankings :
            LET semantic == truncateIDs(ranking, searchCandidateLimit)
                fused == fuseRRF(search.lexical, semantic, searchResultLimit)
            IN  search' = [search EXCEPT !.phase = "done", !.semantic = semantic,
                           !.results = resultsFor(fused, ByID(search.lexical, semantic))]
    BY DEF applySemanticLeg
  <1> DEFINE semantic == truncateIDs(ranking, searchCandidateLimit)
             fused == fuseRRF(lexical, semantic, searchResultLimit)
             list == resultsFor(fused, ByID(lexical, semantic))
  <1>3. search' = [search EXCEPT !.phase = "done", !.semantic = semantic, !.results = list]
    BY <1>2
  <1>4. IsLeg(semantic) /\ semantic \in Seq(Events)
    BY RankingsAreLegs, TruncatedLeg, CalendarAssumption DEF CalendarAssumption, IsLeg
  <1> HIDE DEF semantic
  <1>5. PICK all : Ranked(all, lexical, semantic)
                   /\ fused = truncateIDs(all, searchResultLimit)
    BY <1>1, <1>4, FusedRanked
  <1> HIDE DEF fused
  <1>6. IsLeg(fused) /\ ListsBest(fused, lexical, semantic)
    BY <1>5, PrefixBest
  <1>7. ToSet(fused) \subseteq ByID(lexical, semantic)
    BY <1>6 DEF ListsBest, Legs, ByID
  <1>8. list \in Seq(Events) /\ ListsBest(list, lexical, semantic)
    BY <1>6, <1>7, ResultsBest
  <1> HIDE DEF list, lexical
  <1>9. /\ search' \in Searching /\ search'.phase = "done" /\ search'.lexical = search.lexical
        /\ search'.semantic = semantic /\ search'.results = list
    BY <1>1, <1>3, <1>4, <1>8 DEF Searching
  <1> QED BY <1>8, <1>9 DEF SearchInv, lexical

LEMMA NextSearch ==
    ASSUME SearchInv, [Next]_vars
    PROVE  SearchInv'
  <1>1. CASE UNCHANGED search
    BY <1>1 DEF SearchInv
  <1>2. CASE UNCHANGED cvars
    BY <1>1, <1>2 DEF cvars
  <1>3. CASE CNext
    <2>1. FirstPage("mine") \/ FirstPage("city") \/ NextPage => UNCHANGED search
      BY DEF FirstPage, NextPage
    <2>2. \A e \in Events : UpsertEvent(e) \/ Archive(e) \/ Match(e) => UNCHANGED search
      BY DEF UpsertEvent, Archive, Match, Change
    <2>3. Tick => UNCHANGED search
      BY DEF Tick
    <2>4. \/ \E semantic \in BOOLEAN : SearchEvents(semantic)
          \/ SemanticLegFails \/ applySemanticLeg \/ UNCHANGED search
      BY <1>3, <2>1, <2>2, <2>3 DEF CNext, GetMyCalendar, GetCityCalendar, Environment
    <2> QED BY <1>1, <2>4, SearchEventsStep, SemanticLegFailsStep, SemanticLegStep
  <1> QED BY <1>2, <1>3 DEF Next, vars

(* A search lists as many of the events either query found as fit, each    *)
(* once, with none above another that both queries rank at least as high:  *)
(* for any events, rankings and limits (search.go: applySemanticLeg,       *)
(* resultsFor; fusion.go: fuseRRF).                                        *)
THEOREM SearchesListTheBest == Spec => []SearchListsTheBest
  <1>1. Init => SearchInv
    <2> SUFFICES ASSUME search = NoSearch PROVE SearchInv
      BY DEF Init, CInit
    <2>1. /\ NoSearch \in Searching /\ NoSearch.phase = "idle" /\ NoSearch.semantic = <<>>
      BY DEF NoSearch, Searching
    <2> QED BY <2>1 DEF SearchInv
  <1>2. SearchInv /\ [Next]_vars => SearchInv'
    BY NextSearch
  <1>3. SearchInv => SearchListsTheBest
    <2> SUFFICES ASSUME SearchInv, search.phase = "done" PROVE SearchListsTheBest
      BY DEF SearchListsTheBest
    <2>1. ListsBest(search.results, search.lexical, search.semantic)
      BY DEF SearchInv
    <2> QED BY <2>1 DEF ListsBest, SearchListsTheBest, Found, Dominates, Outranks
  <1> QED BY <1>1, <1>2, <1>3, PTL DEF Spec
=============================================================================
