---------------------------- MODULE MCSessions ----------------------------
EXTENDS Sessions, TLC
CONSTANTS l1, t1, r1, r2
Interchangeable == Permutations(Requests)
=============================================================================
