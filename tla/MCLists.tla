------------------------------ MODULE MCLists ------------------------------
(* Three events on two start instants; the tab is exercised when one of    *)
(* them has been archived.                                                 *)
EXTENDS Lists, TLC
CONSTANTS c1, c2

InTab == [e \in Events |-> [at |-> 1, archived |-> e = 3, matched |-> TRUE,
                            segment |-> Unclassified]]
Symmetry == Permutations(Calls)
=============================================================================
