--------------------------- MODULE MCRateLimiter ---------------------------
(* RateLimiter with few keys and requests.                                 *)
EXTENDS RateLimiter, TLC
CONSTANTS k1, k2, k3, k4, k5

FiveKeys == {k1, k2, k3, k4, k5}
Symmetry == Permutations(Keys)
=============================================================================
