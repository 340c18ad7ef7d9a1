--------------------------- MODULE MCEventIngest ---------------------------
(* EventIngest on four messages about one event: a fully enriched scrape,  *)
(* a bare one (enrichment failed, or a backfill), one whose image workflow *)
(* failed, and a body that does not decode.                                *)
EXTENDS EventIngest, FiniteSetsExt
CONSTANTS m1, m2, m3, m4, w1, w2, MaxDeliveries

AllMsgs == {m1, m2, m3, m4}
OkThenError == {m1, m3}
OneWorker == {w1}
TwoWorkers == {w1, w2}
OneSection == <<"image">>

Scrape(p, g, seg, a, img) ==
    [decodes |-> TRUE, perfs |-> p, genres |-> g, segment |-> seg, artist |-> a,
     section |-> [s \in Sections |-> img]]

Scrapes ==
    [m \in Msgs |->
        CASE m = m1 -> Scrape(<<"p1", "p2">>, <<"rock", "slang">>, "music", TRUE, "ok")
          [] m = m2 -> Scrape(<<None>>, <<>>, None, FALSE, "absent")
          [] m = m3 -> Scrape(<<>>, <<>>, "arts", TRUE, "error")
          [] m = m4 -> [Scrape(<<>>, <<>>, None, FALSE, "absent") EXCEPT !.decodes = FALSE]]

\* No more deliveries in all than this, of whichever messages.
FewDeliveries == MapThenSumSet(LAMBDA m : starts[m], Msgs) <= MaxDeliveries
=============================================================================
