---------------------------- MODULE MCPosterJob ----------------------------
(* PosterJob for one show, or for two that differ in a diacritic only.     *)
EXTENDS PosterJob
CONSTANTS r1, r2

TwoRuns == {r1, r2}
OneShow == {[letters |-> "bjork", marks |-> ""]}
TwoShows == {[letters |-> "bjork", marks |-> ""], [letters |-> "bjork", marks |-> "umlaut"]}
=============================================================================
