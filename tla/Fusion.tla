------------------------------- MODULE Fusion -------------------------------
(***************************************************************************)
(* internal/http/handlers/fusion.go and search.go: two ranked lists of     *)
(* event ids merged by Reciprocal Rank Fusion.  A score is the fraction    *)
(* num/den, so that no rounding decides an order.                          *)
(***************************************************************************)
EXTENDS Integers, FiniteSets, Sequences, SequencesExt

rrfK == 60

Legs(lexical, semantic) == ToSet(lexical) \cup ToSet(semantic)
Rank(leg, e) == CHOOSE i \in DOMAIN leg : leg[i] = e
\* Where an id is first met, the lexical leg before the other.
Met(lexical, semantic, e) == IF e \in ToSet(lexical) THEN Rank(lexical, e)
                             ELSE Len(lexical) + Rank(semantic, e)

Score(lexical, semantic, e) ==
    LET a == rrfK + Rank(lexical, e)
        b == rrfK + Rank(semantic, e)
    IN  IF e \notin ToSet(semantic) THEN [num |-> 1, den |-> a]
        ELSE IF e \notin ToSet(lexical) THEN [num |-> 1, den |-> b]
        ELSE [num |-> a + b, den |-> a * b]

\* The score of d is higher; or they are equal, and d was met first.
Higher(p, q) == p.num * q.den > q.num * p.den
Above(lexical, semantic, d, e) ==
    LET p == Score(lexical, semantic, d)
        q == Score(lexical, semantic, e)
    IN  Higher(p, q) \/ (~Higher(q, p) /\ Met(lexical, semantic, d) < Met(lexical, semantic, e))

\* The list of a set in a strict order, given as the set of its pairs.
Sorted(es, before) ==
    CHOOSE s \in [1..Cardinality(es) -> es] :
        \A i, j \in 1..Cardinality(es) : i < j => <<s[i], s[j]>> \in before

truncateIDs(ids, limit) == SubSeq(ids, 1, IF Len(ids) > limit THEN limit ELSE Len(ids))

fuseRRF(lexical, semantic, limit) ==
    LET found == Legs(lexical, semantic)
        above == {p \in found \X found : Above(lexical, semantic, p[1], p[2])}
    IN  truncateIDs(Sorted(found, above), limit)

\* Ids without display data are dropped in silence.
resultsFor(ids, byID) ==
    LET kept == {i \in DOMAIN ids : ids[i] \in byID}
        places == Sorted(kept, {p \in kept \X kept : p[1] < p[2]})
    IN  [k \in 1..Cardinality(kept) |-> ids[places[k]]]
=============================================================================
