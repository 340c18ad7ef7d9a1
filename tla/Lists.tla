------------------------------- MODULE Lists -------------------------------
(***************************************************************************)
(* The going and not-interested lists of a user: the handlers that write   *)
(* them (internal/http/handlers/event_going.go, not_interested.go) and one *)
(* browser tab that shows them, whose hooks (web/src/hooks) change cached  *)
(* lists before the server has answered and fetch them again after it has. *)
(* The catalogue of Calendar.tla stands still while the tab is exercised.  *)
(***************************************************************************)
EXTENDS Calendar

CONSTANTS
    Calls,        \* mutations the tab may have under way
    MaxClicks, MaxFaults   \* bounds on mutations and on failures

VARIABLES
    going, notInterested,   \* user_event_going, user_event_not_interested
    opened,   \* the tab shows the calendar page
    cache,    \* cache[k]: what the tab holds under query key k
    loaded,   \* the keys it holds data for; the others have yet to load
    fetch,    \* fetch[k]: the request under way for k, and what it has read
    call,     \* call[c]: a mutation under way
    late,     \* requests the tab gave up on and the server has yet to see
    outrun,   \* history: the server has applied one of those
    joined,   \* history: keys whose refetch was the first load, read by then
    clicks, faults

server == <<going, notInterested>>
tab == <<cache, loaded, fetch, joined>>
lvars == <<server, opened, tab, call, late, outrun, clicks, faults>>
vars == <<cvars, lvars>>

Keys == {"event-going", "event-going-events", "calendar", "not-interested"}
NoFetch == [phase |-> "idle", rows |-> {}]
NoCall == [op |-> "none", event |-> 0, phase |-> "idle", prev |-> {}]

LInit == /\ going = {} /\ notInterested = {}
         /\ opened = FALSE
         /\ cache = [k \in Keys |-> {}] /\ loaded = {}
         /\ fetch = [k \in Keys |-> NoFetch]
         /\ call = [c \in Calls |-> NoCall]
         /\ late = {} /\ outrun = FALSE /\ joined = {}
         /\ clicks = 0 /\ faults = 0
Init == CInit /\ LInit
-----------------------------------------------------------------------------
(* The server.                                                             *)

\* What each query answers now.
ListGoing == going
ListGoingEvents == {e \in going : ~row[e].archived}
ListNotInterested == {e \in notInterested : OverAt(e) > now}
Answer == [k \in Keys |-> CASE k = "event-going" -> ListGoing
                            [] k = "event-going-events" -> ListGoingEvents
                            [] k = "not-interested" -> ListNotInterested
                            [] k = "calendar" -> {e \in Events : InFeed("mine", Midnight, e)}]

AddGoing(e) == going' = going \cup {e} /\ UNCHANGED notInterested
ClearGoing(e) == going' = going \ {e} /\ UNCHANGED notInterested
AddNotInterested(e) == notInterested' = notInterested \cup {e} /\ UNCHANGED going
ClearNotInterested == notInterested' = {} /\ UNCHANGED going
Apply(r) == CASE r.op = "AddGoing" -> AddGoing(r.event)
              [] r.op = "ResetGoing" -> ClearGoing(r.event)
              [] r.op = "AddNotInterested" -> AddNotInterested(r.event)
              [] r.op = "ResetNotInterested" -> ClearNotInterested

Ends(c, phase) == call[c].phase = "sent" /\ call' = [call EXCEPT ![c].phase = phase]
Fault == faults < MaxFaults /\ faults' = faults + 1
Serve(c) == /\ Ends(c, "served") /\ Apply(call[c])
            /\ UNCHANGED <<opened, tab, late, outrun, clicks, faults>>
ServeFails(c) == /\ Ends(c, "failed") /\ Fault
                 /\ UNCHANGED <<server, opened, tab, late, outrun, clicks>>
\* The connection breaks: an error in the tab, while the request goes on.
ConnectionLost(c) == /\ Ends(c, "failed") /\ Fault
                     /\ late' = late \cup {[op |-> call[c].op, event |-> call[c].event]}
                     /\ UNCHANGED <<server, opened, tab, outrun, clicks>>
ServeLate(r) == /\ Apply(r)
                /\ late' = late \ {r} /\ outrun' = TRUE
                /\ UNCHANGED <<opened, tab, call, clicks, faults>>
-----------------------------------------------------------------------------
(* The tab.                                                                *)

Sent == [NoFetch EXCEPT !.phase = "sent"]

\* The page asks for its four lists, each on its own; clicks need not wait for them.
OpenPage == /\ ~opened /\ StandsStill /\ search = NoSearch
            /\ opened' = TRUE /\ fetch' = [k \in Keys |-> Sent]
            /\ UNCHANGED <<server, cache, loaded, call, late, outrun, joined, clicks, faults>>

\* What has a button: a card (EventCard.tsx), a row of the sidebar
\* (GoingWentList.tsx), the settings.  A list yet to load reads as empty.  A
\* reset of the hidden events is for all of them, and any event stands for it.
Offered(op, e) ==
    CASE op = "AddGoing" -> e \notin cache["event-going"]
      [] op = "ResetGoing" -> e \in cache["event-going"] \cup cache["event-going-events"]
      [] op = "AddNotInterested" -> e \in cache["calendar"] \ (cache["event-going"] \cup cache["not-interested"])
      [] op = "ResetNotInterested" -> /\ \A d \in Events : e <= d
                                      /\ \A c \in Calls : call[c].op # op

\* onMutate: fetches that could land on the new value are cancelled first.
Cancels(op) == CASE op = "AddGoing" -> {"event-going"}
                 [] op = "ResetGoing" -> {"event-going", "event-going-events"}
                 [] op = "AddNotInterested" -> {"calendar"}
                 [] op = "ResetNotInterested" -> {}
\* A missing list stays missing, but for the ids a click adds to.
Optimistic(op, e, k) == IF k \notin Cancels(op) THEN cache[k]
                        ELSE IF op = "AddGoing" THEN cache[k] \cup {e} ELSE cache[k] \ {e}
UnderWay(k) == fetch[k].phase \in {"sent", "read"}
Click(c, op, e) ==
    /\ opened /\ call[c] = NoCall /\ clicks < MaxClicks /\ Offered(op, e)
    /\ call' = [call EXCEPT ![c] =
                   [op |-> op, event |-> e, phase |-> "sent",
                    prev |-> IF op = "AddNotInterested" THEN cache["calendar"] ELSE {}]]
    /\ cache' = [k \in Keys |-> Optimistic(op, e, k)]
    /\ loaded' = IF op = "AddGoing" THEN loaded \cup {"event-going"} ELSE loaded
    /\ fetch' = [k \in Keys |-> IF k \in Cancels(op) /\ UnderWay(k) THEN NoFetch ELSE fetch[k]]
    /\ clicks' = clicks + 1
    /\ UNCHANGED <<server, opened, late, outrun, joined, faults>>

\* mutant: a list changed early is fetched again only when the click succeeded.
InvalidatesOk(op, ok) == IF ~ok THEN {}
                         ELSE IF op \in {"AddGoing", "ResetGoing"}
                         THEN {"event-going", "event-going-events"}
                         ELSE {"calendar", "not-interested"}
\* onSettled, or onSuccess for a reset: what is to be fetched again.
Invalidates(op, ok) == IF op \in {"AddGoing", "ResetGoing"}
                       THEN {"event-going", "event-going-events"}
                       ELSE IF op = "AddNotInterested" \/ ok THEN {"calendar", "not-interested"}
                       ELSE {}
\* A fetch under way starts over, unless it is the first load: that is joined.
Joins(k) == UnderWay(k) /\ k \notin loaded
Settle(c) ==
    LET ok == call[c].phase = "served"
        stale == Invalidates(call[c].op, ok)
        shared == {k \in stale : Joins(k)} IN
    /\ call[c].phase \in {"served", "failed"}
    /\ cache' = IF ok \/ call[c].op # "AddNotInterested" THEN cache
                ELSE [cache EXCEPT !["calendar"] = call[c].prev]
    /\ fetch' = [k \in Keys |-> IF k \in stale \ shared THEN Sent ELSE fetch[k]]
    /\ joined' = (joined \ (stale \ shared)) \cup {k \in shared : ok /\ fetch[k].phase = "read"}
    /\ call' = [call EXCEPT ![c] = NoCall]
    /\ UNCHANGED <<server, opened, loaded, late, outrun, clicks, faults>>

Read(k) == /\ fetch[k].phase = "sent"
           /\ fetch' = [fetch EXCEPT ![k] = [phase |-> "read", rows |-> Answer[k]]]
           /\ UNCHANGED <<server, opened, cache, loaded, call, late, outrun, joined, clicks, faults>>
Land(k) == /\ fetch[k].phase = "read"
           /\ cache' = [cache EXCEPT ![k] = fetch[k].rows] /\ loaded' = loaded \cup {k}
           /\ fetch' = [fetch EXCEPT ![k] = NoFetch]
           /\ UNCHANGED <<server, opened, call, late, outrun, joined, clicks, faults>>
\* main.tsx: no retries; what the tab held, or lacked, stays.
FetchFails(k) == /\ UnderWay(k) /\ Fault
                 /\ fetch' = [fetch EXCEPT ![k] = [NoFetch EXCEPT !.phase = "failed"]]
                 /\ UNCHANGED <<server, opened, cache, loaded, call, late, outrun, joined, clicks>>
-----------------------------------------------------------------------------
Ops == {"AddGoing", "ResetGoing", "AddNotInterested", "ResetNotInterested"}
LNext == \/ OpenPage
         \/ \E c \in Calls, op \in Ops, e \in Events : Click(c, op, e)
         \/ \E c \in Calls : Serve(c) \/ ServeFails(c) \/ ConnectionLost(c) \/ Settle(c)
         \/ \E r \in late : ServeLate(r)
         \/ \E k \in Keys : Read(k) \/ Land(k) \/ FetchFails(k)

\* One reader at a time: a feed and a search change nothing the lists read.
Next == \/ CNext /\ ~opened /\ UNCHANGED lvars
        \/ LNext /\ UNCHANGED cvars
Spec == Init /\ [][Next]_vars
-----------------------------------------------------------------------------
(* When no mutation is under way, every list that the tab holds and is not *)
(* fetching is the server's, although clicks change lists before they are  *)
(* answered and before the others have loaded, answers come in any order,  *)
(* a failed click restores an old copy and a click cancels the fetches of  *)
(* another (useMarkGoing.ts, useMarkNotGoing.ts, useMarkNotInterested.ts). *)
(* Three gaps are allowed, which nothing fetches again for: a fetch that   *)
(* failed; a request that the server applied after the tab had given it    *)
(* up; and a first load that the server had read when a click succeeded,   *)
(* since what the click invalidates joins it and lands the older list.     *)
QuietListsAgree ==
    opened /\ ~outrun /\ (\A c \in Calls : call[c] = NoCall) =>
      \A k \in loaded \ joined : fetch[k].phase = "idle" => cache[k] = Answer[k]
=============================================================================
