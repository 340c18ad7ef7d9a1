----------------------------- MODULE MCConsumer -----------------------------
(* Consumer with two messages and two workers.                             *)
EXTENDS Consumer, TLC
CONSTANTS m1, m2, w1, w2

TwoMsgs == {m1, m2}
TwoWorkers == {w1, w2}
Symmetry == Permutations(TwoMsgs) \cup Permutations(TwoWorkers)
=============================================================================
