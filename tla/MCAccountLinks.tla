--------------------------- MODULE MCAccountLinks ---------------------------
(* AccountLinks with two users of one address and few requests.            *)
EXTENDS AccountLinks, TLC
CONSTANTS u1, u2, t1, t2, t3, r1, r2

TwoUsers == {u1, u2}
ThreeTokens == {t1, t2, t3}
TwoRequests == {r1, r2}
Symmetry == Permutations(Users) \cup Permutations(Tokens) \cup Permutations(Requests)
=============================================================================
