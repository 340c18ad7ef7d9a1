---------------------------- MODULE MCEnrichment ----------------------------
(* Two events of one artist, one with its own image, two invocations, and  *)
(* the TTLs of the code in their order: 6 h, 7 and 14, 90 days.            *)
EXTENDS Enrichment
CONSTANTS m1, m2

Days == [s \in Sections |-> IF s = "tour" THEN [ok |-> 2, none |-> 2, error |-> 1]
                            ELSE [ok |-> 3, none |-> 2, error |-> 1]]
=============================================================================
