--------------------------- MODULE MatcherProofs ---------------------------
(***************************************************************************)
(* Theorems about Matcher and the Interests it extends: types, what a      *)
(* disconnect leaves, what a replacement leaves, which rows the embedding  *)
(* is of, and what a match run that nothing overlaps ends with.            *)
(***************************************************************************)
EXTENDS Matcher, FiniteSetTheorems, SequenceTheorems, WellFoundedInduction, TLAPS

\* The two ranges, named so that a step that does no arithmetic need not see them.
Weights == 100..1000
Scores == 0..1000

Row == [kind : Kinds, value : Names, weight : Weights]
SpotifyKind == Kinds \ {"manual_tag"}
Statement == [op : {"delete"}, kind : SpotifyKind]
             \cup [op : {"insert"}, kind : SpotifyKind, value : Names, rank : Nat \ {0}]
Candidate == [event : Events, score : Scores]
Embedding == (SUBSET Names) \cup {NoEmbedding}
Holding == [emb : Embedding, thr : Int, rows : SUBSET Row,
            todo : SUBSET (Events \cup Candidate), at : Nat]
Stage == {"idle", "replace", "events", "embed", "embedding",
          "user", "candidates", "upsert", "obsolete", "matched"}
-----------------------------------------------------------------------------
(* The inductive invariants.                                               *)

\* What the type invariant rests on: the rows are finitely many records, and
\* the scores computed from what a run has read are scores.
RowsType == /\ rows \subseteq Row /\ IsFiniteSet(rows)
            /\ newer \subseteq rows
            /\ \A r, s \in rows : r.kind = s.kind /\ r.value = s.value => r = s

QueueType == /\ body \in [Msgs -> Sent \cup {OnlyEmbed, None}]
             /\ active \in [Workers -> Msgs \cup {None}]
             /\ starts \in [Msgs -> 0..MaxReceive]
             /\ plan \in [Workers -> Seq(Statement)]
             /\ stage \in [Procs -> Stage]
             /\ \A w \in Workers : stage[w] # "idle" => active[w] # None
             /\ \A w \in Workers : active[w] # None => body[active[w]] # None
             /\ \A w \in Workers : stage[w] = "replace" =>
                    body[active[w]] # OnlyEmbed /\ plan[w] # <<>>

SpotifyType == /\ connected \in BOOLEAN /\ leaving \in BOOLEAN /\ clean \in BOOLEAN
               /\ scrape \in [Scrapers -> {"idle", "load", "refresh", "fetch"}]

FlagsType == missed \in BOOLEAN /\ alone \subseteq Procs /\ changes \in 0..MaxChanges

MatchType == /\ embedding \in Embedding
             /\ threshold \in Thresholds \cup {Config.score_threshold}
             /\ life \in [Events -> {"upcoming", "unseen", "archived", "over"}]
             /\ embedded \subseteq Events
             /\ match \in [Events -> [score : Scores, at : Nat]]
             /\ clock \in Nat
             /\ \A e \in Events : match[e].at <= clock

\* What a run at stage s may hold when the last match run took the time c.
Fits(r, s, c) == /\ IsFiniteSet(r.rows)
                 /\ r.at <= c
                 /\ s = "embedding" => r.emb \in SUBSET Names
                 /\ s = "upsert" => r.todo \subseteq Candidate /\ r.at # 0

RunType == /\ run \in [Procs -> Holding]
           /\ \A p \in Procs : Fits(run[p], stage[p], clock)

Typed == RowsType /\ QueueType /\ SpotifyType /\ FlagsType /\ MatchType /\ RunType

\* Between its two statements a disconnect that found nothing under way still
\* finds nothing, and after them no scrape can read tokens.
DisconnectInv == clean => /\ leaving \/ ~connected
                          /\ Spotify(rows) = {}
                          /\ NothingUnderWay

\* The statements of a kind are the one at DeleteAt and the inserts after it.
DeleteAt(p, i) == i + (IF i > 1 THEN Len(p[SpotifyKinds[1]]) ELSE 0)
                    + (IF i > 2 THEN Len(p[SpotifyKinds[2]]) ELSE 0)
                    + (IF i > 3 THEN Len(p[SpotifyKinds[3]]) ELSE 0)

RowFor(p, k, r) == [kind |-> k, value |-> p[k][r], weight |-> Weight(k, r)]

\* The rows that the first n names of a list leave.
FirstRows(p, k, n) ==
    {RowFor(p, k, r) : r \in {q \in 1..n : \A o \in 1..n : p[k][o] = p[k][q] => o <= q}}

\* After n statements of p: a kind whose DELETE is done has the rows of the
\* names inserted since.
Replaced(rs, p, n) ==
    \A i \in 1..4 : DeleteAt(p, i) <= n =>
        Of(rs, SpotifyKinds[i]) =
            FirstRows(p, SpotifyKinds[i], Smaller(n - DeleteAt(p, i), Len(p[SpotifyKinds[i]])))

Done(w) == Len(Statements(body[active[w]])) - Len(plan[w])

Repairing(w) ==
    /\ stage[w] = "replace" =>
           /\ Done(w) \in Nat
           /\ \A j \in 1..Len(plan[w]) : plan[w][j] = Statements(body[active[w]])[Done(w) + j]
           /\ Replaced(rows, body[active[w]], Done(w))
    /\ stage[w] = "embed" /\ body[active[w]] # OnlyEmbed =>
           Spotify(rows) = RowsOf(body[active[w]])

ReplaceInv == \A w \in Workers \cap alone : Repairing(w)

\* What NeedsEmbedding may go by, and what each stage of a run has of it.
Stamped == ~missed => newer # {} \/ embedding = NoEmbedding \/ embedding = Text(rows)

Embedded(p) ==
    /\ stage[p] = "embedding" => run[p].emb = Text(rows)
    /\ stage[p] \in {"user", "candidates", "upsert", "obsolete", "matched"} =>
           Text(rows) = {} \/ embedding = Text(rows) \/ (p = Job /\ missed)

EmbeddingInv == Stamped /\ \A p \in alone \ {Rescore} : Embedded(p)

\* The matches are exactly the candidates of what there is now.
Current == Candidates(rows, embedding, threshold)
Settled == /\ \A c \in Current : match[c.event].score = c.score
           /\ \A e \in Events : match[e] = NoMatch <=> \A c \in Current : c.event # e

\* Candidates are written or still to write; whatever else there is, is older.
Writing(p) == /\ run[p].todo \subseteq Current
              /\ \A c \in Current \ run[p].todo :
                     match[c.event] = [score |-> c.score, at |-> run[p].at]
              /\ \A e \in Events : (\A c \in Current \ run[p].todo : c.event # e) =>
                     match[e].at < run[p].at

Lone(p) ==
    /\ stage[p] = "candidates" =>
           run[p].emb = embedding /\ run[p].thr = threshold /\ run[p].rows = rows
    /\ stage[p] = "upsert" => Writing(p)
    /\ stage[p] \in {"obsolete", "matched"} => Settled

MatchInv == \A p \in alone : Lone(p)
-----------------------------------------------------------------------------
(* The operators of Scorer and Interests.                                  *)

LEMMA LeastOf ==
    ASSUME NEW T, T \subseteq Nat, T # {}
    PROVE  \E x \in T : \A y \in T : x <= y
  <1> DEFINE R == {ss \in Nat \X Nat : ss[1] < ss[2]}
  <1>1. IsWellFoundedOn(R, Nat)
    BY NatLessThanWellFounded DEF OpToRel
  <1>2. PICK x \in T : \A y \in T : ~(<<y, x>> \in R)
    <2> HIDE DEF R
    <2> QED BY <1>1, WFMin
  <1>3. ASSUME NEW y \in T PROVE x <= y
    <2>1. x \in Nat /\ y \in Nat
      OBVIOUS
    <2>2. y < x => <<y, x>> \in R
      BY <2>1
    <2> QED BY <2>1, <2>2, <1>2
  <1> QED BY <1>3

LEMMA TotalIsNat ==
    ASSUME NEW S, IsFiniteSet(S), \A r \in S : r.weight \in Nat
    PROVE  Total(S) \in Nat
  <1> DEFINE Pick(s) == CHOOSE x \in s : TRUE
             Rest(s) == s \ {Pick(s)}
             Unfold(g, s) == IF s = {} THEN 0 ELSE Pick(s).weight + g[s \ {Pick(s)}]
             iter == CHOOSE g : g = [s \in SUBSET S |-> Unfold(g, s)]
             Upto(n) == \E g : \A s \in SUBSET S : Cardinality(s) <= n => g[s] = Unfold(g, s)
  <1>1. Total(S) = iter[S]
    BY DEF Total, MapThenSumSet, MapThenFoldSet
  <1>2. ASSUME NEW s \in SUBSET S PROVE Cardinality(s) \in Nat /\ (Cardinality(s) = 0 => s = {})
    BY FS_Subset, FS_CardinalityType, FS_EmptySet
  <1>3. ASSUME NEW s \in SUBSET S, s # {}
        PROVE  /\ Pick(s) \in S /\ Pick(s).weight \in Nat
               /\ Rest(s) \in SUBSET S
               /\ Cardinality(Rest(s)) = Cardinality(s) - 1
    <2>1. Pick(s) \in s
      BY <1>3
    <2> HIDE DEF Pick
    <2>2. IsFiniteSet(s)
      BY FS_Subset
    <2>3. Cardinality(s \ {Pick(s)}) = Cardinality(s) - 1
      BY <2>1, <2>2, FS_RemoveElement
    <2> QED BY <2>1, <2>3
  <1>4. \A g, s : Unfold(g, s) = IF s = {} THEN 0 ELSE Pick(s).weight + g[Rest(s)]
    OBVIOUS
  <1> HIDE DEF Pick, Rest, Unfold
  <1>5. Upto(0)
    <2> DEFINE g == [s \in SUBSET S |-> 0]
    <2>1. ASSUME NEW s \in SUBSET S, Cardinality(s) <= 0 PROVE g[s] = Unfold(g, s)
      <3>1. s = {}
        BY <2>1, <1>2
      <3> QED BY <3>1, <1>4
    <2> HIDE DEF g
    <2> QED BY <2>1
  <1>6. ASSUME NEW n \in Nat, Upto(n) PROVE Upto(n + 1)
    <2>1. PICK g : \A s \in SUBSET S : Cardinality(s) <= n => g[s] = Unfold(g, s)
      BY <1>6
    <2> DEFINE h == [s \in SUBSET S |-> IF Cardinality(s) <= n THEN g[s] ELSE Unfold(g, s)]
    <2>2. ASSUME NEW s \in SUBSET S, Cardinality(s) <= n + 1 PROVE h[s] = Unfold(h, s)
      <3>1. h[s] = Unfold(g, s)
        BY <2>1
      <3>2. CASE s = {}
        BY <3>1, <3>2, <1>4
      <3>3. CASE s # {}
        <4>1. Rest(s) \in SUBSET S /\ Cardinality(Rest(s)) = Cardinality(s) - 1
          BY <1>3, <3>3
        <4>2. Cardinality(s) \in Nat
          BY <1>2
        <4>3. Cardinality(Rest(s)) <= n
          BY <4>1, <4>2, <2>2
        <4>4. h[Rest(s)] = g[Rest(s)]
          BY <4>1, <4>3
        <4> HIDE DEF h
        <4> QED BY <3>1, <3>3, <4>4, <1>4
      <3> QED BY <3>2, <3>3
    <2> HIDE DEF h
    <2> QED BY <2>2
  <1>7. \A n \in Nat : Upto(n)
    <2> HIDE DEF Upto
    <2> DEFINE T == {n \in Nat : ~Upto(n)}
    <2>1. ASSUME T # {} PROVE FALSE
      <3>1. T \subseteq Nat
        OBVIOUS
      <3>2. PICK n \in T : \A m \in T : n <= m
        <4> HIDE DEF T
        <4> QED BY <2>1, <3>1, LeastOf
      <3>3. n \in Nat /\ ~Upto(n) /\ n # 0
        BY <1>5
      <3>4. n - 1 \in Nat /\ (n - 1) + 1 = n
        BY <3>3
      <3>5. n - 1 \notin T
        BY <3>2, <3>3, <3>4
      <3>6. Upto(n - 1)
        BY <3>4, <3>5
      <3>7. Upto((n - 1) + 1)
        BY <3>4, <3>6, <1>6
      <3> QED BY <3>7, <3>4, <3>3
    <2> QED BY <2>1
  <1>8. iter = [s \in SUBSET S |-> Unfold(iter, s)]
    <2>1. Cardinality(S) \in Nat
      BY <1>2
    <2>2. Upto(Cardinality(S))
      BY <1>7, <2>1
    <2>3. PICK g : \A s \in SUBSET S : Cardinality(s) <= Cardinality(S) => g[s] = Unfold(g, s)
      BY <2>2
    <2> DEFINE h == [s \in SUBSET S |-> g[s]]
    <2>4. ASSUME NEW s \in SUBSET S PROVE h[s] = Unfold(h, s)
      <3>1. g[s] = Unfold(g, s)
        BY <2>3, FS_Subset
      <3>2. CASE s = {}
        BY <3>1, <3>2, <1>4
      <3>3. CASE s # {}
        <4>1. h[Rest(s)] = g[Rest(s)]
          BY <1>3, <3>3
        <4>2. h[s] = g[s]
          OBVIOUS
        <4> HIDE DEF h
        <4> QED BY <3>1, <3>3, <4>1, <4>2, <1>4
      <3> QED BY <3>2, <3>3
    <2>5. h = [s \in SUBSET S |-> Unfold(h, s)]
      BY <2>4
    <2> HIDE DEF h
    <2> QED BY <2>5
  <1> HIDE DEF iter
  <1>9. ASSUME NEW s \in SUBSET S
        PROVE  iter[s] = IF s = {} THEN 0 ELSE Pick(s).weight + iter[Rest(s)]
    <2>1. iter[s] = Unfold(iter, s)
      BY <1>8
    <2> QED BY <2>1, <1>4
  <1>10. ASSUME NEW s \in SUBSET S PROVE iter[s] \in Nat
    <2> DEFINE T == {n \in Nat : \E t \in SUBSET S : Cardinality(t) = n /\ iter[t] \notin Nat}
    <2>1. ASSUME T # {} PROVE FALSE
      <3>1. T \subseteq Nat
        OBVIOUS
      <3>2. PICK n \in T : \A m \in T : n <= m
        <4> HIDE DEF T
        <4> QED BY <2>1, <3>1, LeastOf
      <3>3. PICK t \in SUBSET S : Cardinality(t) = n /\ iter[t] \notin Nat
        BY <3>2
      <3>4. t # {}
        BY <3>3, <1>9
      <3>5. /\ Pick(t).weight \in Nat /\ Rest(t) \in SUBSET S
            /\ Cardinality(Rest(t)) = n - 1 /\ n - 1 \in Nat
        BY <3>3, <3>4, <1>3, <1>2
      <3>6. n - 1 \notin T
        BY <3>2, <3>5
      <3>7. iter[Rest(t)] \in Nat
        BY <3>5, <3>6
      <3>8. iter[t] = Pick(t).weight + iter[Rest(t)]
        BY <3>4, <1>9
      <3> QED BY <3>3, <3>5, <3>7, <3>8
    <2> QED BY <2>1, <1>2
  <1> QED BY <1>1, <1>10

LEMMA KindsAre ==
    /\ Len(SpotifyKinds) = 4
    /\ SpotifyKinds[1] = "spotify_top_artist"
    /\ SpotifyKinds[2] = "spotify_top_track_artist"
    /\ SpotifyKinds[3] = "spotify_saved_song_artist"
    /\ SpotifyKinds[4] = "spotify_top_genre"
    /\ SpotifyKind = {"spotify_top_artist", "spotify_top_track_artist",
                      "spotify_saved_song_artist", "spotify_top_genre"}
    /\ Kinds = SpotifyKind \cup {"manual_tag"}
    /\ DerivedKinds = SpotifyKind
  <1>1. /\ Len(SpotifyKinds) = 4
        /\ SpotifyKinds[1] = "spotify_top_artist"
        /\ SpotifyKinds[2] = "spotify_top_track_artist"
        /\ SpotifyKinds[3] = "spotify_saved_song_artist"
        /\ SpotifyKinds[4] = "spotify_top_genre"
    BY DEF SpotifyKinds, SpotifyArtists
  <1>2. 1..4 = {1, 2, 3, 4}
    OBVIOUS
  <1>3. Kinds = {"spotify_top_artist", "spotify_top_track_artist",
                 "spotify_saved_song_artist", "spotify_top_genre", "manual_tag"}
    BY <1>1, <1>2 DEF Kinds
  <1>4. DerivedKinds = {"spotify_top_artist", "spotify_top_track_artist",
                        "spotify_saved_song_artist", "spotify_top_genre"}
    BY <1>1, <1>2 DEF DerivedKinds
  <1> QED BY <1>1, <1>3, <1>4 DEF SpotifyKind

LEMMA KindAt ==
    \A i \in 1..4 : SpotifyKinds[i] \in SpotifyKind
    /\ \A j \in 1..4 : SpotifyKinds[i] = SpotifyKinds[j] => i = j
  BY KindsAre

LEMMA WeightType ==
    ASSUME NEW k, NEW r \in Nat \ {0}
    PROVE  Weight(k, r) \in Weights
  <1>1. RankWeight(r) \in 600..1000
    <2>1. (r - 1) * 400 >= 0
      OBVIOUS
    <2>2. ((r - 1) * 400) \div 49 \in Int /\ ((r - 1) * 400) \div 49 >= 0
      BY <2>1
    <2> QED BY <2>2 DEF RankWeight, Larger
  <1>2. rankGenreWeight(r) \in 100..1000
    BY DEF rankGenreWeight, Larger
  <1> QED BY <1>1, <1>2 DEF Weight, Weights

LEMMA SentLists ==
    ASSUME NEW p \in Sent
    PROVE  /\ DOMAIN p = SpotifyKind
           /\ \A k \in SpotifyKind : p[k] \in Seq(Names)
           /\ p # OnlyEmbed
  <1>1. ASSUME NEW q \in Payloads
        PROVE  DOMAIN q = SpotifyKind /\ \A k \in SpotifyKind : q[k] \in Seq(Names)
    <2>1. DOMAIN q = SpotifyKind
      BY InterestsAssumption DEF InterestsAssumption, SpotifyKind
    <2>2. ASSUME NEW k \in SpotifyKind PROVE q[k] \in Seq(Names)
      <3>1. q[k] \in Seq(Elems(q[k]))
        BY <2>1, InterestsAssumption DEF InterestsAssumption
      <3>2. Elems(q[k]) \subseteq Names
        <4>1. Elems(q[k]) \in {Elems(q[j]) : j \in DOMAIN q}
          BY <2>1
        <4>2. UNION {Elems(q[j]) : j \in DOMAIN q} \in {UNION {Elems(o[j]) : j \in DOMAIN o} : o \in Payloads}
          OBVIOUS
        <4> HIDE DEF Elems
        <4>3. Elems(q[k]) \subseteq UNION {Elems(q[j]) : j \in DOMAIN q}
          BY <4>1
        <4> QED BY <4>2, <4>3 DEF Names
      <3> QED BY <3>1, <3>2, SeqMonotonic
    <2> QED BY <2>1, <2>2
  <1>2. <<>> \in Seq(Names)
    OBVIOUS
  <1>3. PICK q \in Payloads : p = q \/ p = WithoutGenres(q) \/ p = WithoutSaved(q)
    BY DEF Sent
  <1>4. DOMAIN p = SpotifyKind /\ \A k \in SpotifyKind : p[k] \in Seq(Names)
    BY <1>1, <1>2, <1>3 DEF WithoutGenres, WithoutSaved
  <1>5. DOMAIN OnlyEmbed = {}
    BY DEF OnlyEmbed
  <1>6. SpotifyKind # {}
    BY KindsAre
  <1> QED BY <1>4, <1>5, <1>6

LEMMA RowForType ==
    ASSUME NEW p \in Sent, NEW k \in SpotifyKind, NEW r \in 1..Len(p[k])
    PROVE  RowFor(p, k, r) \in Row
  <1>1. p[k] \in Seq(Names)
    BY SentLists
  <1>2. p[k][r] \in Names /\ r \in Nat \ {0}
    BY <1>1, ElementOfSeq, LenProperties
  <1>3. Weight(k, r) \in Weights
    BY <1>2, WeightType
  <1>4. k \in Kinds
    BY DEF SpotifyKind
  <1> QED BY <1>2, <1>3, <1>4 DEF RowFor, Row

\* What the whole list of a kind leaves.
LEMMA WholeList ==
    ASSUME NEW p \in Sent, NEW k \in SpotifyKind
    PROVE  /\ FirstRows(p, k, Len(p[k])) = {RowFor(p, k, r) : r \in LastRanks(p[k])}
           /\ \A r \in FirstRows(p, k, Len(p[k])) : r.kind = k
  BY DEF FirstRows, LastRanks, RowFor

LEMMA RowsOfKinds ==
    ASSUME NEW p \in Sent
    PROVE  RowsOf(p) = UNION {FirstRows(p, k, Len(p[k])) : k \in SpotifyKind}
  <1>1. \A k \in SpotifyKind : FirstRows(p, k, Len(p[k]))
            = {[kind |-> k, value |-> p[k][r], weight |-> Weight(k, r)] : r \in LastRanks(p[k])}
    BY WholeList DEF RowFor
  <1> QED BY <1>1 DEF RowsOf, SpotifyKind

LEMMA RowsOfType ==
    ASSUME NEW p \in Sent
    PROVE  /\ RowsOf(p) \subseteq Row
           /\ IsFiniteSet(RowsOf(p))
           /\ \A r, s \in RowsOf(p) : r.kind = s.kind /\ r.value = s.value => r = s
           /\ \A r \in RowsOf(p) : r.kind # "manual_tag"
  <1> DEFINE Part(k) == FirstRows(p, k, Len(p[k]))
  <1>1. RowsOf(p) = UNION {Part(k) : k \in SpotifyKind}
    BY RowsOfKinds
  <1>2. ASSUME NEW k \in SpotifyKind
        PROVE  /\ Len(p[k]) \in Nat
               /\ LastRanks(p[k]) \subseteq 1..Len(p[k])
               /\ Part(k) = {RowFor(p, k, r) : r \in LastRanks(p[k])}
    BY SentLists, LenProperties, WholeList DEF LastRanks
  <1> HIDE DEF Part
  <1>3. ASSUME NEW k \in SpotifyKind PROVE Part(k) \subseteq Row /\ \A r \in Part(k) : r.kind = k
    BY <1>2, RowForType DEF RowFor
  <1>4. ASSUME NEW k \in SpotifyKind PROVE IsFiniteSet(Part(k))
    <2> DEFINE f == [r \in LastRanks(p[k]) |-> RowFor(p, k, r)]
    <2>1. IsFiniteSet(LastRanks(p[k]))
      <3>1. IsFiniteSet(1..Len(p[k]))
        BY <1>2, FS_Interval
      <3> QED BY <1>2, <3>1, FS_Subset
    <2>2. f \in Surjection(LastRanks(p[k]), Part(k))
      BY <1>2 DEF Surjection
    <2> HIDE DEF f
    <2> QED BY <2>1, <2>2, FS_Surjection
  <1>5. ASSUME NEW k \in SpotifyKind, NEW r \in Part(k), NEW s \in Part(k), r.value = s.value
        PROVE  r = s
    <2>1. PICK i \in LastRanks(p[k]) : r = RowFor(p, k, i)
      BY <1>2
    <2>2. PICK j \in LastRanks(p[k]) : s = RowFor(p, k, j)
      BY <1>2
    <2>3. p[k][i] = p[k][j]
      BY <1>5, <2>1, <2>2 DEF RowFor
    <2>4. i \in 1..Len(p[k]) /\ j \in 1..Len(p[k]) /\ Len(p[k]) \in Nat
      BY <1>2
    <2>5. i <= j /\ j <= i
      BY <2>3, <2>4 DEF LastRanks
    <2>6. i = j
      BY <2>4, <2>5
    <2> QED BY <2>1, <2>2, <2>6
  <1>6. IsFiniteSet(RowsOf(p))
    <2> DEFINE T == {Part(k) : k \in SpotifyKind}
    <2>1. T = {Part("spotify_top_artist"), Part("spotify_top_track_artist")}
              \cup {Part("spotify_saved_song_artist"), Part("spotify_top_genre")}
      BY KindsAre
    <2>2. IsFiniteSet(T)
      <3>1. \A x, y : IsFiniteSet({x, y})
        <4> TAKE x, y
        <4>1. IsFiniteSet({x}) /\ IsFiniteSet({y})
          BY FS_Singleton
        <4>2. {x, y} = {x} \cup {y}
          OBVIOUS
        <4> QED BY <4>1, <4>2, FS_Union
      <3> DEFINE A == {Part("spotify_top_artist"), Part("spotify_top_track_artist")}
                 B == {Part("spotify_saved_song_artist"), Part("spotify_top_genre")}
      <3>2. T = A \cup B /\ IsFiniteSet(A) /\ IsFiniteSet(B)
        BY <2>1, <3>1
      <3> HIDE DEF T, A, B
      <3> QED BY <3>2, FS_Union
    <2>3. \A t \in T : IsFiniteSet(t)
      BY <1>4
    <2> HIDE DEF T
    <2>4. IsFiniteSet(UNION T)
      BY <2>2, <2>3, FS_UNION
    <2> QED BY <1>1, <2>4 DEF T
  <1>7. "manual_tag" \notin SpotifyKind
    BY DEF SpotifyKind
  <1>8. RowsOf(p) \subseteq Row
    BY <1>1, <1>3
  <1>9. \A r, s \in RowsOf(p) : r.kind = s.kind /\ r.value = s.value => r = s
    BY <1>1, <1>3, <1>5
  <1>10. \A r \in RowsOf(p) : r.kind # "manual_tag"
    BY <1>1, <1>3, <1>7
  <1> QED BY <1>6, <1>8, <1>9, <1>10

\* Concatenation under a name that only Concat unfolds.
Cat(s, t) == s \o t

LEMMA Concat ==
    ASSUME NEW s \in Seq(Statement), NEW t \in Seq(Statement)
    PROVE  /\ Cat(s, t) \in Seq(Statement)
           /\ Len(Cat(s, t)) = Len(s) + Len(t)
           /\ \A j \in 1..Len(s) : Cat(s, t)[j] = s[j]
           /\ \A j \in 1..Len(t) : Cat(s, t)[Len(s) + j] = t[j]
  <1> DEFINE m == Len(s)
             l == Len(t)
  <1>1. m \in Nat /\ l \in Nat
    BY LenProperties
  <1>2. /\ s \o t \in Seq(Statement) /\ Len(s \o t) = m + l
        /\ \A i \in 1..m + l : (s \o t)[i] = IF i <= m THEN s[i] ELSE t[i - m]
    BY ConcatProperties
  <1> HIDE DEF m, l
  <1>3. ASSUME NEW j \in 1..m PROVE (s \o t)[j] = s[j]
    <2>1. j \in 1..m + l /\ j <= m
      BY <1>1
    <2> QED BY <1>2, <2>1
  <1>4. ASSUME NEW j \in 1..l PROVE (s \o t)[m + j] = t[j]
    <2>1. m + j \in 1..m + l /\ ~(m + j <= m) /\ m + j - m = j
      BY <1>1
    <2> QED BY <1>1, <1>2, <2>1
  <1> QED BY <1>2, <1>3, <1>4 DEF Cat, m, l

LEMMA ReplacementShape ==
    ASSUME NEW p \in Sent, NEW k \in SpotifyKind
    PROVE  /\ Replacement(p, k) \in Seq(Statement)
           /\ Len(p[k]) \in Nat
           /\ Len(Replacement(p, k)) = 1 + Len(p[k])
           /\ Replacement(p, k)[1] = [op |-> "delete", kind |-> k]
           /\ \A r \in 1..Len(p[k]) :
                  Replacement(p, k)[1 + r] = [op |-> "insert", kind |-> k, value |-> p[k][r], rank |-> r]
  <1> DEFINE D == <<[op |-> "delete", kind |-> k]>>
             I(r) == [op |-> "insert", kind |-> k, value |-> p[k][r], rank |-> r]
             L == [r \in 1..Len(p[k]) |-> I(r)]
  <1>1. p[k] \in Seq(Names) /\ Len(p[k]) \in Nat
    BY SentLists, LenProperties
  <1>2. [op |-> "delete", kind |-> k] \in Statement
    BY DEF Statement
  <1>3. D \in Seq(Statement) /\ Len(D) = 1 /\ D[1] = [op |-> "delete", kind |-> k]
    BY <1>2
  <1>4. \A r \in 1..Len(p[k]) : I(r) \in Statement
    <2> TAKE r \in 1..Len(p[k])
    <2>1. p[k][r] \in Names /\ r \in Nat \ {0}
      BY <1>1, ElementOfSeq
    <2> QED BY <2>1 DEF Statement
  <1> HIDE DEF I
  <1>5. L \in Seq(Statement) /\ Len(L) = Len(p[k]) /\ \A r \in 1..Len(p[k]) : L[r] = I(r)
    BY <1>1, <1>4
  <1>6. Replacement(p, k) = Cat(D, L)
    BY DEF Replacement, I, Cat
  <1> HIDE DEF D, L
  <1>7. /\ Cat(D, L) \in Seq(Statement)
        /\ Len(Cat(D, L)) = 1 + Len(p[k])
        /\ \A r \in 1..1 : Cat(D, L)[r] = D[r]
        /\ \A r \in 1..Len(p[k]) : Cat(D, L)[1 + r] = L[r]
    <2>1. /\ Cat(D, L) \in Seq(Statement)
          /\ Len(Cat(D, L)) = Len(D) + Len(L)
          /\ \A r \in 1..Len(D) : Cat(D, L)[r] = D[r]
          /\ \A r \in 1..Len(L) : Cat(D, L)[Len(D) + r] = L[r]
      BY <1>3, <1>5, Concat
    <2> QED BY <1>1, <1>3, <1>5, <2>1
  <1>8. Cat(D, L)[1] = [op |-> "delete", kind |-> k]
    BY <1>3, <1>7
  <1>9. \A r \in 1..Len(p[k]) : Cat(D, L)[1 + r] = I(r)
    BY <1>5, <1>7
  <1> QED BY <1>1, <1>6, <1>7, <1>8, <1>9 DEF I

LEMMA FlattenFour ==
    ASSUME NEW S, NEW c \in [1..4 -> Seq(S)]
    PROVE  FlattenSeq(c) = Cat(Cat(Cat(c[1], c[2]), c[3]), c[4])
  <1> DEFINE G(g) == [i \in 1..4 |-> IF i = 1 THEN c[i] ELSE g[i - 1] \o c[i]]
             f == CHOOSE g : g = G(g)
             h == [i \in 1..4 |-> IF i = 1 THEN c[1]
                                  ELSE IF i = 2 THEN c[1] \o c[2]
                                  ELSE IF i = 3 THEN (c[1] \o c[2]) \o c[3]
                                  ELSE ((c[1] \o c[2]) \o c[3]) \o c[4]]
  <1>1. Len(c) = 4
    <2>1. c = [i \in 1..4 |-> c[i]] /\ \A i \in 1..4 : c[i] \in Seq(S)
      OBVIOUS
    <2>2. Len([i \in 1..4 |-> c[i]]) = 4
      OBVIOUS
    <2> QED BY <2>1, <2>2
  <1>2. FlattenSeq(c) = f[4]
    BY <1>1 DEF FlattenSeq
  <1>3. h = G(h)
    OBVIOUS
  <1>4. f = G(f)
    <2> HIDE DEF h, G
    <2> QED BY <1>3
  <1> HIDE DEF f
  <1>5. \A i \in 1..4 : f[i] = IF i = 1 THEN c[i] ELSE f[i - 1] \o c[i]
    BY <1>4
  <1> HIDE DEF G
  <1>6. f[1] = c[1]
    BY <1>5
  <1>7. f[2] = f[1] \o c[2]
    <2>1. 2 \in 1..4 /\ 2 # 1 /\ 2 - 1 = 1
      OBVIOUS
    <2> QED BY <1>5, <2>1
  <1>8. f[3] = f[2] \o c[3]
    <2>1. 3 \in 1..4 /\ 3 # 1 /\ 3 - 1 = 2
      OBVIOUS
    <2> QED BY <1>5, <2>1
  <1>9. f[4] = f[3] \o c[4]
    <2>1. 4 \in 1..4 /\ 4 # 1 /\ 4 - 1 = 3
      OBVIOUS
    <2> QED BY <1>5, <2>1
  <1> QED BY <1>2, <1>6, <1>7, <1>8, <1>9 DEF Cat

\* The sequence s is s1, s2, s3 and s4 in a row.
InARow(s, s1, s2, s3, s4) ==
    /\ s \in Seq(Statement)
    /\ Len(s) = Len(s1) + Len(s2) + Len(s3) + Len(s4)
    /\ \A j \in 1..Len(s1) : s[j] = s1[j]
    /\ \A j \in 1..Len(s2) : s[Len(s1) + j] = s2[j]
    /\ \A j \in 1..Len(s3) : s[Len(s1) + Len(s2) + j] = s3[j]
    /\ \A j \in 1..Len(s4) : s[Len(s1) + Len(s2) + Len(s3) + j] = s4[j]

LEMMA ConcatFour ==
    ASSUME NEW s1 \in Seq(Statement), NEW s2 \in Seq(Statement),
           NEW s3 \in Seq(Statement), NEW s4 \in Seq(Statement)
    PROVE  InARow(Cat(Cat(Cat(s1, s2), s3), s4), s1, s2, s3, s4)
  <1> DEFINE m1 == Len(s1)
             m2 == Len(s2)
             m3 == Len(s3)
             m4 == Len(s4)
             a == Cat(s1, s2)
             b == Cat(a, s3)
             s == Cat(b, s4)
             l2 == m1 + m2
             l3 == m1 + m2 + m3
  <1>n. m1 \in Nat /\ m2 \in Nat /\ m3 \in Nat /\ m4 \in Nat
    BY LenProperties
  <1>m. Len(s1) = m1 /\ Len(s2) = m2 /\ Len(s3) = m3 /\ Len(s4) = m4
    OBVIOUS
  <1> HIDE DEF m1, m2, m3, m4
  <1>1. l2 = m1 + m2 /\ l2 \in Nat /\ l3 = l2 + m3 /\ l3 \in Nat /\ l3 + m4 = m1 + m2 + m3 + m4
    BY <1>n
  <1>2. /\ \A j \in 1..m1 : j \in 1..l2 /\ j \in 1..l3
        /\ \A j \in 1..m2 : m1 + j \in 1..l2 /\ m1 + j \in 1..l3
        /\ \A j \in 1..m3 : l2 + j = m1 + m2 + j /\ l2 + j \in 1..l3
        /\ \A j \in 1..m4 : l3 + j = m1 + m2 + m3 + j
    BY <1>n
  <1> HIDE DEF l2, l3
  <1>3. /\ a \in Seq(Statement) /\ Len(a) = l2
        /\ \A j \in 1..m1 : a[j] = s1[j]
        /\ \A j \in 1..m2 : a[m1 + j] = s2[j]
    <2>1. /\ a \in Seq(Statement) /\ Len(a) = Len(s1) + Len(s2)
          /\ \A j \in 1..Len(s1) : a[j] = s1[j]
          /\ \A j \in 1..Len(s2) : a[Len(s1) + j] = s2[j]
      BY Concat
    <2> HIDE DEF a
    <2> QED BY <2>1, <1>1, <1>m
  <1> HIDE DEF a
  <1>5. /\ b \in Seq(Statement) /\ Len(b) = l3
        /\ \A j \in 1..l2 : b[j] = a[j]
        /\ \A j \in 1..m3 : b[l2 + j] = s3[j]
    <2>1. /\ b \in Seq(Statement) /\ Len(b) = Len(a) + Len(s3)
          /\ \A j \in 1..Len(a) : b[j] = a[j]
          /\ \A j \in 1..Len(s3) : b[Len(a) + j] = s3[j]
      BY <1>3, Concat
    <2> HIDE DEF b
    <2> QED BY <2>1, <1>1, <1>3, <1>m
  <1> HIDE DEF b
  <1>6. /\ s \in Seq(Statement) /\ Len(s) = l3 + m4
        /\ \A j \in 1..l3 : s[j] = b[j]
        /\ \A j \in 1..m4 : s[l3 + j] = s4[j]
    <2>1. /\ s \in Seq(Statement) /\ Len(s) = Len(b) + Len(s4)
          /\ \A j \in 1..Len(b) : s[j] = b[j]
          /\ \A j \in 1..Len(s4) : s[Len(b) + j] = s4[j]
      BY <1>5, Concat
    <2> HIDE DEF s
    <2> QED BY <2>1, <1>1, <1>5, <1>m
  <1>7. ASSUME NEW j \in 1..m1 PROVE s[j] = s1[j]
    <2>1. j \in 1..l2 /\ j \in 1..l3
      BY <1>2
    <2> QED BY <1>3, <1>5, <1>6, <2>1
  <1>8. ASSUME NEW j \in 1..m2 PROVE s[m1 + j] = s2[j]
    <2>1. m1 + j \in 1..l2 /\ m1 + j \in 1..l3
      BY <1>2
    <2> QED BY <1>3, <1>5, <1>6, <2>1
  <1>9. ASSUME NEW j \in 1..m3 PROVE s[m1 + m2 + j] = s3[j]
    <2>1. l2 + j = m1 + m2 + j /\ l2 + j \in 1..l3
      BY <1>2
    <2>2. s[l2 + j] = s3[j]
      BY <1>5, <1>6, <2>1
    <2> QED BY <2>1, <2>2
  <1>10. ASSUME NEW j \in 1..m4 PROVE s[m1 + m2 + m3 + j] = s4[j]
    <2>1. l3 + j = m1 + m2 + m3 + j
      BY <1>2
    <2>2. s[l3 + j] = s4[j]
      BY <1>6
    <2> QED BY <2>1, <2>2
  <1> HIDE DEF s
  <1>11. /\ s \in Seq(Statement) /\ Len(s) = m1 + m2 + m3 + m4
         /\ \A j \in 1..m1 : s[j] = s1[j]
         /\ \A j \in 1..m2 : s[m1 + j] = s2[j]
         /\ \A j \in 1..m3 : s[m1 + m2 + j] = s3[j]
         /\ \A j \in 1..m4 : s[m1 + m2 + m3 + j] = s4[j]
    BY <1>1, <1>6, <1>7, <1>8, <1>9, <1>10
  <1>12. InARow(s, s1, s2, s3, s4)
    BY <1>11, <1>m DEF InARow
  <1> QED BY <1>12 DEF s, b, a

LEMMA DeleteAtIs ==
    ASSUME NEW p \in Sent
    PROVE  /\ \A i \in 1..4 : Len(p[SpotifyKinds[i]]) \in Nat /\ DeleteAt(p, i) \in Nat \ {0}
           /\ DeleteAt(p, 1) = 1
           /\ DeleteAt(p, 2) = DeleteAt(p, 1) + Len(p[SpotifyKinds[1]]) + 1
           /\ DeleteAt(p, 3) = DeleteAt(p, 2) + Len(p[SpotifyKinds[2]]) + 1
           /\ DeleteAt(p, 4) = DeleteAt(p, 3) + Len(p[SpotifyKinds[3]]) + 1
  <1>1. \A i \in 1..4 : Len(p[SpotifyKinds[i]]) \in Nat
    BY KindAt, ReplacementShape
  <1> DEFINE n1 == Len(p[SpotifyKinds[1]])
             n2 == Len(p[SpotifyKinds[2]])
             n3 == Len(p[SpotifyKinds[3]])
  <1>2. n1 \in Nat /\ n2 \in Nat /\ n3 \in Nat
    BY <1>1
  <1>3. \A i \in 1..4 : DeleteAt(p, i) = i + (IF i > 1 THEN n1 ELSE 0) + (IF i > 2 THEN n2 ELSE 0)
                                           + (IF i > 3 THEN n3 ELSE 0)
    BY DEF DeleteAt
  <1> HIDE DEF n1, n2, n3
  <1>4. /\ DeleteAt(p, 1) = 1 /\ DeleteAt(p, 2) = 2 + n1
        /\ DeleteAt(p, 3) = 3 + n1 + n2 /\ DeleteAt(p, 4) = 4 + n1 + n2 + n3
    BY <1>2, <1>3
  <1>5. \A i \in 1..4 : i = 1 \/ i = 2 \/ i = 3 \/ i = 4
    OBVIOUS
  <1>6. \A i \in 1..4 : DeleteAt(p, i) \in Nat \ {0}
    BY <1>2, <1>4, <1>5
  <1>7. /\ DeleteAt(p, 2) = DeleteAt(p, 1) + n1 + 1
        /\ DeleteAt(p, 3) = DeleteAt(p, 2) + n2 + 1
        /\ DeleteAt(p, 4) = DeleteAt(p, 3) + n3 + 1
    BY <1>2, <1>4
  <1> QED BY <1>1, <1>4, <1>6, <1>7 DEF n1, n2, n3

LEMMA StatementsShape ==
    ASSUME NEW p \in Sent
    PROVE  /\ Statements(p) \in Seq(Statement)
           /\ Len(Statements(p)) = DeleteAt(p, 4) + Len(p[SpotifyKinds[4]])
           /\ \A i \in 1..4 :
                  /\ Len(p[SpotifyKinds[i]]) \in Nat
                  /\ DeleteAt(p, i) \in Nat \ {0}
                  /\ DeleteAt(p, i) + Len(p[SpotifyKinds[i]]) <= Len(Statements(p))
                  /\ Statements(p)[DeleteAt(p, i)] = [op |-> "delete", kind |-> SpotifyKinds[i]]
                  /\ \A r \in 1..Len(p[SpotifyKinds[i]]) : Statements(p)[DeleteAt(p, i) + r] =
                         [op |-> "insert", kind |-> SpotifyKinds[i], value |-> p[SpotifyKinds[i]][r], rank |-> r]
           /\ \A n \in 1..Len(Statements(p)) : \E i \in 1..4 :
                  n >= DeleteAt(p, i) /\ n <= DeleteAt(p, i) + Len(p[SpotifyKinds[i]])
  <1> DEFINE s == Statements(p)
             c == [i \in 1..4 |-> Replacement(p, SpotifyKinds[i])]
             N(i) == Len(p[SpotifyKinds[i]])
  <1>1. ASSUME NEW i \in 1..4
        PROVE  /\ c[i] \in Seq(Statement)
               /\ N(i) \in Nat
               /\ Len(c[i]) = 1 + N(i)
               /\ c[i][1] = [op |-> "delete", kind |-> SpotifyKinds[i]]
               /\ \A r \in 1..N(i) : c[i][1 + r] =
                      [op |-> "insert", kind |-> SpotifyKinds[i], value |-> p[SpotifyKinds[i]][r], rank |-> r]
    <2>1. SpotifyKinds[i] \in SpotifyKind
      BY KindAt
    <2> QED BY <2>1, ReplacementShape
  <1>2. s = Cat(Cat(Cat(c[1], c[2]), c[3]), c[4])
    <2>1. c \in [1..4 -> Seq(Statement)]
      BY <1>1
    <2>2. s = FlattenSeq(c)
      BY DEF Statements
    <2> HIDE DEF c, s
    <2> QED BY <2>1, <2>2, FlattenFour
  <1> DEFINE c1 == c[1]
             c2 == c[2]
             c3 == c[3]
             c4 == c[4]
             n1 == N(1)
             n2 == N(2)
             n3 == N(3)
             n4 == N(4)
             d1 == DeleteAt(p, 1)
             d2 == DeleteAt(p, 2)
             d3 == DeleteAt(p, 3)
             d4 == DeleteAt(p, 4)
  <1>3. d1 = 1 /\ d2 = d1 + n1 + 1 /\ d3 = d2 + n2 + 1 /\ d4 = d3 + n3 + 1
    BY DeleteAtIs
  <1>4. /\ n1 \in Nat /\ n2 \in Nat /\ n3 \in Nat /\ n4 \in Nat
        /\ c1 \in Seq(Statement) /\ c2 \in Seq(Statement) /\ c3 \in Seq(Statement) /\ c4 \in Seq(Statement)
        /\ Len(c1) = 1 + n1 /\ Len(c2) = 1 + n2 /\ Len(c3) = 1 + n3 /\ Len(c4) = 1 + n4
    BY <1>1
  <1>5. s = Cat(Cat(Cat(c1, c2), c3), c4)
    BY <1>2
  <1> HIDE DEF s, c, c1, c2, c3, c4, n1, n2, n3, n4, d1, d2, d3, d4
  <1>6. /\ s \in Seq(Statement)
        /\ Len(s) = d4 + n4
        /\ \A r \in Nat : r <= n1 => s[d1 + r] = c1[1 + r]
        /\ \A r \in Nat : r <= n2 => s[d2 + r] = c2[1 + r]
        /\ \A r \in Nat : r <= n3 => s[d3 + r] = c3[1 + r]
        /\ \A r \in Nat : r <= n4 => s[d4 + r] = c4[1 + r]
    <2> DEFINE m1 == 1 + n1
               m2 == 1 + n2
               m3 == 1 + n3
               m4 == 1 + n4
    <2>1. m1 \in Nat /\ m2 \in Nat /\ m3 \in Nat /\ m4 \in Nat
      BY <1>4
    <2>2. /\ d1 = 1 /\ d2 = m1 + 1 /\ d3 = m1 + m2 + 1 /\ d4 = m1 + m2 + m3 + 1
          /\ d4 + n4 = m1 + m2 + m3 + m4
      BY <1>3, <1>4
    <2>3. ASSUME NEW r \in Nat
          PROVE  /\ r <= n1 => 1 + r \in 1..m1
                 /\ r <= n2 => 1 + r \in 1..m2
                 /\ r <= n3 => 1 + r \in 1..m3
                 /\ r <= n4 => 1 + r \in 1..m4
      BY <1>4
    <2>4. /\ s \in Seq(Statement)
          /\ Len(s) = m1 + m2 + m3 + m4
          /\ \A j \in 1..m1 : s[j] = c1[j]
          /\ \A j \in 1..m2 : s[m1 + j] = c2[j]
          /\ \A j \in 1..m3 : s[m1 + m2 + j] = c3[j]
          /\ \A j \in 1..m4 : s[m1 + m2 + m3 + j] = c4[j]
      <3>1. m1 = Len(c1) /\ m2 = Len(c2) /\ m3 = Len(c3) /\ m4 = Len(c4)
        BY <1>4
      <3> HIDE DEF m1, m2, m3, m4
      <3>2. InARow(s, c1, c2, c3, c4)
        BY <1>4, <1>5, ConcatFour
      <3> QED BY <3>1, <3>2 DEF InARow
    <2> HIDE DEF m1, m2, m3, m4
    <2>5. ASSUME NEW r \in Nat
          PROVE  /\ d1 + r = 1 + r /\ d2 + r = m1 + (1 + r)
                 /\ d3 + r = m1 + m2 + (1 + r) /\ d4 + r = m1 + m2 + m3 + (1 + r)
      BY <2>1, <2>2
    <2>6. \A r \in Nat : r <= n1 => s[d1 + r] = c1[1 + r]
      BY <2>3, <2>4, <2>5
    <2>7. \A r \in Nat : r <= n2 => s[d2 + r] = c2[1 + r]
      BY <2>3, <2>4, <2>5
    <2>8. \A r \in Nat : r <= n3 => s[d3 + r] = c3[1 + r]
      BY <2>3, <2>4, <2>5
    <2>9. \A r \in Nat : r <= n4 => s[d4 + r] = c4[1 + r]
      BY <2>3, <2>4, <2>5
    <2> QED BY <2>2, <2>4, <2>6, <2>7, <2>8, <2>9
  <1>7. /\ d1 \in Nat \ {0} /\ d2 \in Nat \ {0} /\ d3 \in Nat \ {0} /\ d4 \in Nat \ {0}
        /\ d1 + n1 <= d4 + n4 /\ d2 + n2 <= d4 + n4
        /\ d3 + n3 <= d4 + n4 /\ d4 + n4 <= d4 + n4
    BY <1>3, <1>4
  <1>8. ASSUME NEW j \in 1..(d4 + n4)
        PROVE  \/ j >= d1 /\ j <= d1 + n1
               \/ j >= d2 /\ j <= d2 + n2
               \/ j >= d3 /\ j <= d3 + n3
               \/ j >= d4 /\ j <= d4 + n4
    BY <1>3, <1>4
  <1>9. Len(s) = d4 + n4
    BY <1>6
  <1>10. /\ n1 = N(1) /\ n2 = N(2) /\ n3 = N(3) /\ n4 = N(4)
         /\ c1 = c[1] /\ c2 = c[2] /\ c3 = c[3] /\ c4 = c[4]
         /\ d1 = DeleteAt(p, 1) /\ d2 = DeleteAt(p, 2)
         /\ d3 = DeleteAt(p, 3) /\ d4 = DeleteAt(p, 4)
    BY DEF n1, n2, n3, n4, c1, c2, c3, c4, d1, d2, d3, d4
  <1> DEFINE Placed(x, d, y) == /\ x \in Nat /\ d \in Nat \ {0} /\ d + x <= Len(s)
                                /\ \A r \in Nat : r <= x => s[d + r] = y[1 + r]
  <1>11. Placed(n1, d1, c1) /\ Placed(n2, d2, c2) /\ Placed(n3, d3, c3) /\ Placed(n4, d4, c4)
    BY <1>4, <1>6, <1>7, <1>9
  <1> HIDE DEF Placed
  <1>12. ASSUME NEW i \in 1..4
         PROVE  \E x \in {n1, n2, n3, n4}, d \in {d1, d2, d3, d4} :
                    x = N(i) /\ d = DeleteAt(p, i) /\ Placed(x, d, c[i])
    <2>1. i = 1 \/ i = 2 \/ i = 3 \/ i = 4
      OBVIOUS
    <2>2. CASE i = 1
      BY <2>2, <1>10, <1>11
    <2>3. CASE i = 2
      BY <2>3, <1>10, <1>11
    <2>4. CASE i = 3
      BY <2>4, <1>10, <1>11
    <2>5. CASE i = 4
      BY <2>5, <1>10, <1>11
    <2> QED BY <2>1, <2>2, <2>3, <2>4, <2>5
  <1>13. ASSUME NEW i \in 1..4
         PROVE  /\ DeleteAt(p, i) \in Nat \ {0}
                /\ DeleteAt(p, i) + N(i) <= Len(s)
                /\ s[DeleteAt(p, i)] = [op |-> "delete", kind |-> SpotifyKinds[i]]
                /\ \A r \in 1..N(i) : s[DeleteAt(p, i) + r] =
                      [op |-> "insert", kind |-> SpotifyKinds[i], value |-> p[SpotifyKinds[i]][r], rank |-> r]
    <2>1. PICK x \in {n1, n2, n3, n4}, d \in {d1, d2, d3, d4} :
              /\ x = N(i) /\ x \in Nat
              /\ d = DeleteAt(p, i) /\ d \in Nat \ {0}
              /\ d + x <= Len(s)
              /\ \A r \in Nat : r <= x => s[d + r] = c[i][1 + r]
      BY <1>12 DEF Placed
    <2>2. 0 <= x /\ d + 0 = d /\ 1 + 0 = 1
      BY <2>1
    <2>3. s[d] = c[i][1]
      BY <2>1, <2>2
    <2>4. ASSUME NEW r \in 1..x PROVE s[d + r] = c[i][1 + r]
      BY <2>1
    <2>5. /\ c[i][1] = [op |-> "delete", kind |-> SpotifyKinds[i]]
          /\ \A r \in 1..x : c[i][1 + r] =
                 [op |-> "insert", kind |-> SpotifyKinds[i], value |-> p[SpotifyKinds[i]][r], rank |-> r]
      BY <1>1, <2>1
    <2> QED BY <2>1, <2>3, <2>4, <2>5
  <1>14. ASSUME NEW j \in 1..Len(s)
         PROVE  \E i \in 1..4 : j >= DeleteAt(p, i) /\ j <= DeleteAt(p, i) + N(i)
    <2>1. 1 \in 1..4 /\ 2 \in 1..4 /\ 3 \in 1..4 /\ 4 \in 1..4
      OBVIOUS
    <2> HIDE DEF N
    <2>2. \/ j >= DeleteAt(p, 1) /\ j <= DeleteAt(p, 1) + N(1)
          \/ j >= DeleteAt(p, 2) /\ j <= DeleteAt(p, 2) + N(2)
          \/ j >= DeleteAt(p, 3) /\ j <= DeleteAt(p, 3) + N(3)
          \/ j >= DeleteAt(p, 4) /\ j <= DeleteAt(p, 4) + N(4)
      <3>1. j \in 1..(d4 + n4)
        BY <1>9
      <3> QED BY <1>8, <1>10, <3>1
    <2> QED BY <2>1, <2>2
  <1>15. Len(s) = DeleteAt(p, 4) + N(4)
    BY <1>9, <1>10
  <1> QED BY <1>1, <1>6, <1>13, <1>14, <1>15 DEF s

LEMMA TotalOfRows ==
    ASSUME NEW rs, rs \subseteq Row, IsFiniteSet(rs), NEW part, part \subseteq rs
    PROVE  Total(part) \in Nat
  <1>1. IsFiniteSet(part)
    BY FS_Subset
  <1>2. \A r \in part : r.weight \in Nat
    BY DEF Row, Weights
  <1> QED BY <1>1, <1>2, TotalIsNat

LEMMA ScoreType ==
    ASSUME NEW rs, rs \subseteq Row, IsFiniteSet(rs), NEW emb, NEW e, NEW b
    PROVE  Score(rs, emb, e, b) \in Scores
  <1> DEFINE artists == {r \in Artists(rs) : r.value \in Performers[e]}
             genres == {r \in Of(rs, "spotify_top_genre") \cup Of(rs, "manual_tag") : r.value \in Genres[e]}
             sum == Total(artists) * Config.artist_factor + Total(genres) * Config.genre_factor
  <1>1. artists \subseteq rs /\ genres \subseteq rs
    BY DEF Artists, foldDeduped, Of
  <1> HIDE DEF artists, genres
  <1>2. Total(artists) \in Nat /\ Total(genres) \in Nat
    BY <1>1, TotalOfRows
  <1>3. sum = Total(artists) * 1000 + Total(genres) * 300
    BY DEF Config
  <1> HIDE DEF sum
  <1>4. sum \div 3000 \in Nat
    BY <1>2, <1>3
  <1>5. StringScore(rs, e) = Smaller(1000, sum \div 3000)
    BY DEF StringScore, Config, sum, artists, genres
  <1>6. StringScore(rs, e) \in 0..1000
    BY <1>4, <1>5 DEF Smaller
  <1>7. EmbedScore(emb, e, b) \in 0..1000
    BY DEF EmbedScore
  <1>8. Score(rs, emb, e, b) = (600 * StringScore(rs, e) + 400 * EmbedScore(emb, e, b)) \div 1000
    BY DEF Score, Config
  <1> DEFINE x == StringScore(rs, e)
             y == EmbedScore(emb, e, b)
             z == 600 * x + 400 * y
  <1>9. x \in 0..1000 /\ y \in 0..1000
    BY <1>6, <1>7
  <1> HIDE DEF x, y
  <1>10. z \in Int /\ z >= 0 /\ z <= 1000 * 1000
    BY <1>9
  <1> HIDE DEF z
  <1>11. z \div 1000 \in 0..1000
    BY <1>10
  <1> QED BY <1>8, <1>11 DEF x, y, z, Scores

\* A candidate scores over the threshold, so its match is one.
LEMMA CandidatesType ==
    ASSUME NEW rs, rs \subseteq Row, IsFiniteSet(rs), NEW emb, NEW thr
    PROVE  /\ Candidates(rs, emb, thr) \subseteq Candidate
           /\ \A c \in Candidates(rs, emb, thr) : c.score > thr /\ Upcoming(c.event)
           /\ \A c, d \in Candidates(rs, emb, thr) : c.event = d.event => c = d
  BY ScoreType DEF Candidates, Candidate
-----------------------------------------------------------------------------
(* Types.                                                                  *)

LEMMA TypedImpliesTypeOK == Typed => TypeOK
  <1> SUFFICES ASSUME Typed PROVE TypeOK
    OBVIOUS
  <1>1. \A r \in rows : r.kind \in Kinds /\ r.value \in Names /\ r.weight \in 100..1000
    BY DEF Typed, RowsType, Row, Weights
  <1>2. <<connected, leaving, missed, clean>> \in BOOLEAN \X BOOLEAN \X BOOLEAN \X BOOLEAN
    BY DEF Typed, FlagsType, SpotifyType
  <1>3. ITypeOK
    <2>1. /\ body \in [Msgs -> Sent \cup {OnlyEmbed, None}]
          /\ active \in [Workers -> Msgs \cup {None}]
          /\ starts \in [Msgs -> 0..MaxReceive]
      BY DEF Typed, QueueType
    <2>2. newer \subseteq rows /\ \A r, s \in rows : r.kind = s.kind /\ r.value = s.value => r = s
      BY DEF Typed, RowsType
    <2>3. /\ scrape \in [Scrapers -> {"idle", "load", "refresh", "fetch"}]
          /\ alone \subseteq Procs /\ changes \in 0..MaxChanges
      BY DEF Typed, SpotifyType, FlagsType
    <2> QED BY <1>1, <1>2, <2>1, <2>2, <2>3 DEF ITypeOK
  <1>4. embedding = NoEmbedding \/ embedding \in SUBSET Names
    BY DEF Typed, MatchType, Embedding
  <1>5. \A e \in Events : match[e].score \in 0..1000 /\ match[e].at \in 0..clock
    BY DEF Typed, MatchType, Scores
  <1>6. /\ stage \in [Procs -> Stage]
        /\ threshold \in Thresholds \cup {Config.score_threshold}
        /\ life \in [Events -> {"upcoming", "unseen", "archived", "over"}] /\ embedded \subseteq Events
    BY DEF Typed, QueueType, MatchType
  <1> QED BY <1>3, <1>4, <1>5, <1>6 DEF Stage, TypeOK

LEMMA TextType == ASSUME NEW rs, rs \subseteq Row PROVE Text(rs) \in SUBSET Names
  <1>1. Artists(rs) \cup Of(rs, "spotify_top_genre") \cup Of(rs, "manual_tag") \subseteq rs
    BY DEF Artists, foldDeduped, Of
  <1>2. \A r \in rs : r.value \in Names
    BY DEF Row
  <1>3. ASSUME NEW v \in Text(rs) PROVE v \in Names
    <2>1. PICK r \in Artists(rs) \cup Of(rs, "spotify_top_genre") \cup Of(rs, "manual_tag") : v = r.value
      BY DEF Text
    <2> QED BY <1>1, <1>2, <2>1
  <1> QED BY <1>3

LEMMA TagType == ASSUME NEW v \in Tags PROVE Tag(v) \in Row
  <1>1. v \in Names
    BY DEF Names
  <1>2. "manual_tag" \in Kinds /\ 1000 \in Weights
    BY KindsAre DEF Weights
  <1> QED BY <1>1, <1>2 DEF Tag, Row

LEMMA NoRunFits ==
    /\ NoRun \in Holding
    /\ \A c \in Nat, s \in Stage \ {"embedding", "upsert"} : Fits(NoRun, s, c)
    /\ Fits(NoRun, "idle", 0)
  <1>1. NoRun \in Holding /\ NoRun.rows = {} /\ NoRun.at = 0
    <2>1. NoEmbedding \in Embedding
      BY DEF Embedding
    <2> QED BY <2>1 DEF NoRun, Holding
  <1>2. IsFiniteSet(NoRun.rows)
    BY <1>1, FS_EmptySet
  <1> QED BY <1>1, <1>2 DEF Fits

LEMMA InitTyped == Init => Typed
  <1> SUFFICES ASSUME Init PROVE Typed
    OBVIOUS
  <1> USE DEF Init, IInit
  <1>1. RowsType
    <2>1. CASE rows = {}
      BY <2>1, FS_EmptySet DEF RowsType
    <2>2. CASE rows \in {RowsOf(p) : p \in Payloads}
      BY <2>2, RowsOfType DEF RowsType, Sent
    <2> QED BY <2>1, <2>2
  <1>2. QueueType
    <2>1. starts \in [Msgs -> 0..MaxReceive]
      BY InterestsAssumption DEF InterestsAssumption
    <2>2. plan \in [Workers -> Seq(Statement)]
      OBVIOUS
    <2>3. stage \in [Procs -> Stage] /\ \A w \in Workers : stage[w] = "idle"
      BY DEF Stage, Procs
    <2> QED BY <2>1, <2>2, <2>3 DEF QueueType
  <1>3. FlagsType /\ SpotifyType
    <2> DEFINE c == ~connected
    <2>1. connected \in BOOLEAN /\ c \in BOOLEAN
      OBVIOUS
    <2>2. clean = c
      OBVIOUS
    <2>3. changes \in 0..MaxChanges
      BY InterestsAssumption DEF InterestsAssumption
    <2> HIDE DEF c
    <2> QED BY <2>1, <2>2, <2>3 DEF FlagsType, SpotifyType
  <1>4. MatchType
    <2>1. embedding \in Embedding
      <3>1. Text(rows) \in SUBSET Names
        BY <1>1, TextType DEF RowsType
      <3>2. embedding = NoEmbedding \/ embedding = Text(rows)
        OBVIOUS
      <3> QED BY <3>1, <3>2 DEF Embedding
    <2>2. match \in [Events -> [score : Scores, at : Nat]]
      BY DEF NoMatch, Scores
    <2>3. \A e \in Events : match[e].at <= clock
      BY DEF NoMatch
    <2> QED BY <2>1, <2>2, <2>3 DEF MatchType
  <1>5. RunType
    BY NoRunFits DEF RunType
  <1> QED BY <1>1, <1>2, <1>3, <1>4, <1>5 DEF Typed
-----------------------------------------------------------------------------
(* Which steps write what.                                                 *)

\* The steps that write rows, or the stamp they are compared with.
RowsWrite == \/ \E w \in Workers : replaceInterests(w)
             \/ \E v \in Tags : CreateManualInterest(v) \/ DeleteManualInterest(v)
             \/ SpotifyDisconnect
             \/ \E p \in Procs : EmbedWrites(p)

JobStep == \/ JobStarts \/ JobSelectsUsers \/ JobArchives
           \/ \E e \in Events : JobEmbedsEvent(e)

RescoreStep == RescoreEnds \/ \E t \in Thresholds : UpdateMatchThreshold(t)

RunStep(p) == \/ EmbedReads(p) \/ EmbedWrites(p) \/ LoadUser(p) \/ LoadEvents(p)
              \/ UpsertUserEventMatch(p) \/ DeleteStaleMatches(p) \/ DeleteObsoleteMatches(p)

HandlerStep(w) == \/ \E m \in Msgs : Begin(w, m)
                  \/ replaceInterests(w) \/ Acknowledge(w) \/ HandleFails(w)

ScrapeStep(s) == \/ ScrapeAll(s) \/ ScrapeLoads(s) \/ ScrapeRefreshes(s)
                 \/ ScrapeSends(s) \/ ScrapeFails(s)

EditStep == \/ \E v \in Tags : CreateManualInterest(v) \/ DeleteManualInterest(v)
            \/ \E s \in Scrapers : SpotifyExchange(s)
            \/ SpotifyDisconnect

InterestsStep == /\ INext /\ UNCHANGED <<embedding, threshold, life, embedded, match, clock>>
                 /\ run' = [p \in Procs |-> IF stage'[p] = "idle" THEN NoRun ELSE run[p]]

LEMMA NextCases ==
    /\ Next <=> \/ InterestsStep \/ JobStep \/ RescoreStep
                \/ \E e \in Events : EventMoves(e)
                \/ \E p \in Procs : RunStep(p) \/ MatcherFails(p)
    /\ INext <=> \/ \E w \in Workers : HandlerStep(w)
                 \/ EditStep \/ DisconnectTokens
                 \/ \E s \in Scrapers : ScrapeStep(s)
  <1>1. Next <=> \/ InterestsStep \/ JobStep \/ RescoreStep
                 \/ \E e \in Events : EventMoves(e)
                 \/ \E p \in Procs : RunStep(p) \/ MatcherFails(p)
    <2> QED BY Zenon DEF Next, InterestsStep, JobStep, RescoreStep, RunStep
  <1>2. INext <=> \/ \E w \in Workers : HandlerStep(w)
                  \/ EditStep \/ DisconnectTokens
                  \/ \E s \in Scrapers : ScrapeStep(s)
    BY Zenon DEF INext, HandlerStep, EditStep, ScrapeStep
  <1> QED BY <1>1, <1>2

LEMMA ProcsAre == /\ Procs = Workers \cup {Job, Rescore}
                  /\ Job \in Procs /\ Rescore \in Procs /\ Job # Rescore
                  /\ Job \notin Workers /\ Rescore \notin Workers
  BY InterestsAssumption, MatcherAssumption DEF InterestsAssumption, MatcherAssumption, Procs

LEMMA RowsFrame ==
    ASSUME Next PROVE UNCHANGED <<rows, newer, missed>> \/ RowsWrite
  <1>1. CASE INext
    <2>1. ASSUME NEW w \in Workers, HandlerStep(w) PROVE UNCHANGED <<rows, newer, missed>> \/ RowsWrite
      BY <2>1 DEF HandlerStep, Begin, Acknowledge, HandleFails, RowsWrite
    <2>2. CASE EditStep
      BY <2>2 DEF EditStep, SpotifyExchange, RowsWrite
    <2>3. ASSUME NEW s \in Scrapers, ScrapeStep(s) PROVE UNCHANGED <<rows, newer, missed>>
      BY <2>3 DEF ScrapeStep, ScrapeAll, ScrapeLoads, ScrapeRefreshes, ScrapeSends, ScrapeFails, quiet
    <2>4. CASE DisconnectTokens
      BY <2>4 DEF DisconnectTokens, quiet
    <2> QED BY <1>1, <2>1, <2>2, <2>3, <2>4, NextCases
  <1>2. CASE JobStep
    BY <1>2 DEF JobStep, JobStarts, JobSelectsUsers, JobArchives, JobEmbedsEvent, matcherAlone, rowsAlone
  <1>3. CASE RescoreStep
    BY <1>3 DEF RescoreStep, RescoreEnds, UpdateMatchThreshold, matcherAlone, rowsAlone
  <1>4. ASSUME NEW e \in Events, EventMoves(e) PROVE UNCHANGED <<rows, newer, missed>>
    BY <1>4 DEF EventMoves, rowsAlone
  <1>5. ASSUME NEW p \in Procs, RunStep(p) \/ MatcherFails(p)
        PROVE  UNCHANGED <<rows, newer, missed>> \/ RowsWrite
    <2>1. CASE EmbedWrites(p)
      BY <2>1 DEF RowsWrite
    <2>2. CASE RunStep(p) /\ ~EmbedWrites(p)
      BY <2>2 DEF RunStep, EmbedReads, LoadUser, LoadEvents, UpsertUserEventMatch,
                  DeleteStaleMatches, DeleteObsoleteMatches, matcherAlone, rowsAlone
    <2>3. CASE MatcherFails(p)
      BY <2>3 DEF MatcherFails, rowsAlone
    <2> QED BY <1>5, <2>1, <2>2, <2>3
  <1> QED BY <1>1, <1>2, <1>3, <1>4, <1>5, NextCases DEF InterestsStep
-----------------------------------------------------------------------------
(* Types, step by step.                                                    *)

LEMMA RowOfType == ASSUME NEW s \in Statement, s.op # "delete" PROVE RowOf(s) \in Row
  <1>1. s.kind \in Kinds /\ s.value \in Names /\ s.rank \in Nat \ {0}
    BY DEF Statement, SpotifyKind
  <1>2. Weight(s.kind, s.rank) \in Weights
    BY <1>1, WeightType
  <1> QED BY <1>1, <1>2 DEF RowOf, Row

LEMMA InsertKeepsRows ==
    ASSUME RowsType, NEW row \in Row, InsertRow(row) PROVE RowsType'
  <1> DEFINE old == {r \in rows : r.kind = row.kind /\ r.value = row.value}
  <1>1. rows' = (rows \ old) \cup {row} /\ newer' = (newer \ old) \cup {row}
    BY DEF InsertRow
  <1>2. IsFiniteSet(rows \ old) /\ IsFiniteSet({row})
    BY FS_Subset, FS_Singleton DEF RowsType
  <1>3. IsFiniteSet(rows')
    BY <1>1, <1>2, FS_Union
  <1> QED BY <1>1, <1>3 DEF RowsType

LEMMA DeletedKeepsRows ==
    ASSUME RowsType, NEW gone, Deleted(gone) PROVE RowsType'
  <1>1. IsFiniteSet(rows \ gone)
    BY FS_Subset DEF RowsType
  <1> QED BY <1>1 DEF RowsType, Deleted

\* The statement at the head of a worker's plan, and what is left of it.
LEMMA HeadOfPlan ==
    ASSUME QueueType, NEW w \in Workers, stage[w] = "replace"
    PROVE  /\ Head(plan[w]) \in Statement
           /\ Len(plan[w]) \in Nat \ {0}
           /\ Head(plan[w]) = plan[w][1]
           /\ Tail(plan[w]) \in Seq(Statement)
           /\ Len(Tail(plan[w])) = Len(plan[w]) - 1
           /\ \A j \in 1..Len(Tail(plan[w])) : Tail(plan[w])[j] = plan[w][j + 1]
           /\ active[w] \in Msgs /\ body[active[w]] \in Sent
  <1>1. plan[w] \in Seq(Statement) /\ plan[w] # <<>>
    BY DEF QueueType
  <1>2. /\ Head(plan[w]) \in Statement
        /\ Len(plan[w]) \in Nat \ {0}
        /\ Head(plan[w]) = plan[w][1]
    BY <1>1
  <1>3. /\ Tail(plan[w]) \in Seq(Statement)
        /\ Len(Tail(plan[w])) = Len(plan[w]) - 1
        /\ \A j \in 1..Len(Tail(plan[w])) : Tail(plan[w])[j] = plan[w][j + 1]
    BY <1>1, HeadTailProperties
  <1>4. active[w] # None /\ active[w] \in Msgs
    BY DEF QueueType
  <1>5. body[active[w]] \in Sent
    BY <1>4 DEF QueueType
  <1> QED BY <1>2, <1>3, <1>4, <1>5

LEMMA RowsTyped == ASSUME Typed, [Next]_vars PROVE RowsType'
  <1> USE DEF Typed
  <1>1. CASE UNCHANGED <<rows, newer>>
    BY <1>1 DEF RowsType
  <1>2. ASSUME NEW w \in Workers, replaceInterests(w) PROVE RowsType'
    <2>1. Head(plan[w]) \in Statement
      BY <1>2, HeadOfPlan DEF replaceInterests
    <2>2. \/ Deleted(Of(rows, Head(plan[w]).kind))
          \/ Head(plan[w]).op # "delete" /\ InsertRow(RowOf(Head(plan[w])))
      BY <1>2 DEF replaceInterests
    <2> QED BY <2>1, <2>2, RowOfType, InsertKeepsRows, DeletedKeepsRows
  <1>3. ASSUME NEW v \in Tags, CreateManualInterest(v) PROVE RowsType'
    BY <1>3, TagType, InsertKeepsRows DEF CreateManualInterest
  <1>4. ASSUME NEW v \in Tags, DeleteManualInterest(v) PROVE RowsType'
    BY <1>4, DeletedKeepsRows DEF DeleteManualInterest
  <1>5. CASE SpotifyDisconnect
    BY <1>5, DeletedKeepsRows DEF SpotifyDisconnect
  <1>6. ASSUME NEW p \in Procs, EmbedWrites(p) PROVE RowsType'
    BY <1>6 DEF EmbedWrites, RowsType
  <1> QED BY <1>1, <1>2, <1>3, <1>4, <1>5, <1>6, RowsFrame DEF RowsWrite, vars, ivars

\* A step of p to a stage other than replace, by which no worker becomes busy.
LEMMA MoveKeepsQueue ==
    ASSUME QueueType, NEW p \in Procs, NEW to \in Stage \ {"replace"}, Goto(p, to),
           p \in Workers => to = "idle" \/ stage[p] # "idle",
           UNCHANGED <<delivery, plan>>
    PROVE  QueueType'
  <1>1. stage' = [stage EXCEPT ![p] = to] /\ UNCHANGED <<body, active, starts, plan>>
    BY DEF Goto, delivery
  <1>2. stage' \in [Procs -> Stage]
    BY <1>1 DEF QueueType
  <1>3. \A q \in Procs : stage'[q] = IF q = p THEN to ELSE stage[q]
    BY <1>1 DEF QueueType
  <1>4. Workers \subseteq Procs
    BY DEF Procs
  <1> HIDE DEF Goto
  <1> QED BY <1>1, <1>2, <1>3, <1>4 DEF QueueType

LEMMA SendKeepsQueue ==
    ASSUME QueueType, NEW m \in Msgs, NEW b \in Sent \cup {OnlyEmbed}, Send(m, b),
           UNCHANGED <<stage, plan>>
    PROVE  QueueType'
  <1>1. /\ body[m] = None
        /\ body' = [body EXCEPT ![m] = b]
        /\ UNCHANGED <<active, starts, stage, plan>>
    BY DEF Send
  <1>2. body' \in [Msgs -> Sent \cup {OnlyEmbed, None}]
    BY <1>1 DEF QueueType
  <1>3. \A w \in Workers : active[w] # None => active[w] # m
    BY <1>1 DEF QueueType
  <1>4. ASSUME NEW w \in Workers, active[w] # None PROVE body'[active[w]] = body[active[w]]
    BY <1>1, <1>3, <1>4 DEF QueueType
  <1>5. \A w \in Workers : stage[w] = "replace" => active[w] # None
    BY DEF QueueType
  <1>6. \A w \in Workers : active[w] # None => body'[active[w]] # None
    BY <1>4 DEF QueueType
  <1>7. \A w \in Workers : stage[w] = "replace" => body'[active[w]] # OnlyEmbed /\ plan[w] # <<>>
    BY <1>4, <1>5 DEF QueueType
  <1> QED BY <1>1, <1>2, <1>6, <1>7 DEF QueueType

LEMMA HandlerKeepsQueue ==
    ASSUME Typed, NEW w \in Workers, HandlerStep(w) PROVE QueueType'
  <1> USE DEF Typed
  <1>0. w \in Procs
    BY DEF Procs
  <1>1. ASSUME NEW m \in Msgs, Begin(w, m) PROVE QueueType'
    <2> DEFINE to == IF body[m] = OnlyEmbed THEN "embed" ELSE "replace"
               st == IF body[m] = OnlyEmbed THEN <<>> ELSE Statements(body[m])
    <2>1. /\ body[m] # None /\ starts[m] < MaxReceive
          /\ active' = [active EXCEPT ![w] = m]
          /\ starts' = [starts EXCEPT ![m] = @ + 1]
          /\ plan' = [plan EXCEPT ![w] = st]
          /\ stage' = [stage EXCEPT ![w] = to]
          /\ body' = body
      BY <1>1 DEF Begin, CanBegin, Goto
    <2>2. /\ st \in Seq(Statement)
          /\ body[m] # OnlyEmbed => st # <<>>
      <3>1. CASE body[m] = OnlyEmbed
        BY <3>1
      <3>2. CASE body[m] # OnlyEmbed
        <4>1. body[m] \in Sent
          BY <2>1, <3>2 DEF QueueType
        <4>2. Statements(body[m]) \in Seq(Statement) /\ Len(Statements(body[m])) # 0
          <5>1. 4 \in 1..4
            OBVIOUS
          <5> QED BY <4>1, <5>1, StatementsShape
        <4>3. st = Statements(body[m])
          BY <3>2
        <4> HIDE DEF st
        <4> QED BY <4>2, <4>3
      <3> QED BY <3>1, <3>2
    <2>3. to \in Stage /\ (to = "replace" => body[m] # OnlyEmbed)
      BY DEF Stage
    <2> HIDE DEF st, to
    <2>4. starts' \in [Msgs -> 0..MaxReceive]
      BY <2>1, InterestsAssumption DEF QueueType, InterestsAssumption
    <2>5. /\ active' \in [Workers -> Msgs \cup {None}] /\ plan' \in [Workers -> Seq(Statement)]
          /\ stage' \in [Procs -> Stage]
      BY <2>1, <2>2, <2>3 DEF QueueType
    <2>6. ASSUME NEW v \in Workers
          PROVE  IF v = w THEN active'[v] = m /\ plan'[v] = st /\ stage'[v] = to
                          ELSE active'[v] = active[v] /\ plan'[v] = plan[v] /\ stage'[v] = stage[v]
      BY <2>1 DEF QueueType, Procs
    <2>7. m # None
      BY InterestsAssumption DEF InterestsAssumption
    <2> QED BY <2>1, <2>2, <2>3, <2>4, <2>5, <2>6, <2>7 DEF QueueType
  <1>2. CASE replaceInterests(w)
    <2>1. /\ stage[w] = "replace"
          /\ plan' = [plan EXCEPT ![w] = Tail(plan[w])]
          /\ IF Len(plan[w]) = 1 THEN stage' = [stage EXCEPT ![w] = "embed"] ELSE stage' = stage
          /\ UNCHANGED <<body, active, starts>>
      BY <1>2 DEF replaceInterests, Goto, delivery
    <2>2. /\ Tail(plan[w]) \in Seq(Statement)
          /\ Len(Tail(plan[w])) = Len(plan[w]) - 1
          /\ Len(plan[w]) \in Nat \ {0}
      BY <2>1, HeadOfPlan
    <2>3. plan' \in [Workers -> Seq(Statement)] /\ stage' \in [Procs -> Stage]
      BY <2>1, <2>2 DEF QueueType, Stage
    <2>4. Len(plan[w]) # 1 => Tail(plan[w]) # <<>>
      <3>1. Len(<<>>) = 0
        OBVIOUS
      <3>2. Len(plan[w]) # 1 => Len(Tail(plan[w])) # 0
        BY <2>2
      <3> QED BY <3>1, <3>2
    <2>5. ASSUME NEW v \in Workers
          PROVE  /\ plan'[v] = IF v = w THEN Tail(plan[w]) ELSE plan[v]
                 /\ stage'[v] = IF v = w /\ Len(plan[w]) = 1 THEN "embed" ELSE stage[v]
      BY <2>1 DEF QueueType, Procs
    <2> QED BY <2>1, <2>3, <2>4, <2>5 DEF QueueType
  <1>3. CASE Acknowledge(w) \/ HandleFails(w)
    <2>1. /\ active' = [active EXCEPT ![w] = None]
          /\ stage' = [stage EXCEPT ![w] = "idle"]
          /\ plan' = plan \/ plan' = [plan EXCEPT ![w] = <<>>]
          /\ UNCHANGED <<body, starts>>
      BY <1>3 DEF Acknowledge, HandleFails, Goto
    <2>2. /\ active' \in [Workers -> Msgs \cup {None}] /\ plan' \in [Workers -> Seq(Statement)]
          /\ stage' \in [Procs -> Stage]
      <3>1. <<>> \in Seq(Statement) /\ plan \in [Workers -> Seq(Statement)]
        BY DEF QueueType
      <3>2. plan' \in [Workers -> Seq(Statement)]
        BY <2>1, <3>1
      <3>3. "idle" \in Stage
        BY DEF Stage
      <3> QED BY <2>1, <3>2, <3>3 DEF QueueType
    <2>3. ASSUME NEW v \in Workers
          PROVE  IF v = w THEN active'[v] = None /\ stage'[v] = "idle"
                          ELSE active'[v] = active[v] /\ plan'[v] = plan[v] /\ stage'[v] = stage[v]
      BY <2>1 DEF QueueType, Procs
    <2> QED BY <2>1, <2>2, <2>3 DEF QueueType
  <1> QED BY <1>1, <1>2, <1>3 DEF HandlerStep

LEMMA QueueTyped == ASSUME Typed, [Next]_vars PROVE QueueType'
  <1> USE DEF Typed
  <1>1. CASE UNCHANGED <<delivery, stage, plan>>
    BY <1>1 DEF QueueType, delivery
  <1>2. CASE EditStep
    <2>1. ASSUME NEW v \in Tags, CreateManualInterest(v) \/ DeleteManualInterest(v) PROVE QueueType'
      <3>1. publishEmbed /\ UNCHANGED <<stage, plan>>
        BY <2>1 DEF CreateManualInterest, DeleteManualInterest
      <3> QED BY <1>1, <3>1, SendKeepsQueue DEF publishEmbed
    <2>2. ASSUME NEW s \in Scrapers, SpotifyExchange(s) PROVE UNCHANGED <<delivery, stage, plan>>
      BY <2>2 DEF SpotifyExchange
    <2>3. CASE SpotifyDisconnect
      BY <1>1, <2>3 DEF SpotifyDisconnect
    <2> QED BY <1>1, <1>2, <2>1, <2>2, <2>3 DEF EditStep
  <1>3. ASSUME NEW s \in Scrapers, ScrapeStep(s) PROVE QueueType'
    <2>1. CASE ScrapeSends(s)
      <3>1. UNCHANGED <<stage, plan>> /\ \E m \in Msgs, p \in Sent : Send(m, p)
        BY <2>1 DEF ScrapeSends, quiet
      <3> QED BY <3>1, SendKeepsQueue
    <2>2. CASE ScrapeAll(s) \/ ScrapeLoads(s) \/ ScrapeRefreshes(s) \/ ScrapeFails(s)
      BY <1>1, <2>2 DEF ScrapeAll, ScrapeLoads, ScrapeRefreshes, ScrapeFails, quiet
    <2> QED BY <1>3, <2>1, <2>2 DEF ScrapeStep
  <1>4. CASE DisconnectTokens
    BY <1>1, <1>4 DEF DisconnectTokens, quiet
  <1>5. CASE JobStep
    <2>1. ASSUME NEW e \in Events, JobEmbedsEvent(e) PROVE UNCHANGED <<delivery, stage, plan>>
      BY <2>1 DEF JobEmbedsEvent, matcherAlone, rowsAlone
    <2>2. CASE JobStarts \/ JobSelectsUsers \/ JobArchives
      <3>1. /\ \E to \in Stage \ {"replace"} : Goto(Job, to)
            /\ UNCHANGED <<delivery, plan>>
        BY <2>2 DEF JobStarts, JobSelectsUsers, JobArchives, Step, Stage, matcherAlone, rowsAlone
      <3> QED BY <3>1, ProcsAre, MoveKeepsQueue
    <2> QED BY <1>1, <1>5, <2>1, <2>2 DEF JobStep
  <1>6. CASE RescoreStep
    <2>1. /\ \E to \in Stage \ {"replace"} : Goto(Rescore, to)
          /\ UNCHANGED <<delivery, plan>>
      BY <1>6 DEF RescoreStep, RescoreEnds, UpdateMatchThreshold, Step, Stage, matcherAlone, rowsAlone
    <2> QED BY <2>1, ProcsAre, MoveKeepsQueue
  <1>7. ASSUME NEW e \in Events, EventMoves(e) PROVE UNCHANGED <<delivery, stage, plan>>
    BY <1>7 DEF EventMoves, rowsAlone
  <1>8. ASSUME NEW p \in Procs, RunStep(p) PROVE QueueType'
    <2>1. CASE UpsertUserEventMatch(p)
      BY <1>1, <2>1 DEF UpsertUserEventMatch, matcherAlone, rowsAlone
    <2>2. CASE ~UpsertUserEventMatch(p)
      <3>1. /\ \E to \in Stage \ {"replace"} : Goto(p, to)
            /\ stage[p] # "idle"
            /\ UNCHANGED <<delivery, plan>>
        BY <1>8, <2>2 DEF RunStep, EmbedReads, EmbedWrites, LoadUser, LoadEvents, DeleteStaleMatches,
                          DeleteObsoleteMatches, Step, Stage, matcherAlone, rowsAlone, interestsAlone
      <3> QED BY <3>1, MoveKeepsQueue
    <2> QED BY <2>1, <2>2
  <1>9. ASSUME NEW p \in Procs, MatcherFails(p) PROVE QueueType'
    <2>1. Goto(p, "idle") /\ UNCHANGED <<delivery, plan>> /\ "idle" \in Stage \ {"replace"}
      BY <1>9 DEF MatcherFails, rowsAlone, Stage
    <2> QED BY <2>1, MoveKeepsQueue
  <1> QED BY <1>1, <1>2, <1>3, <1>4, <1>5, <1>6, <1>7, <1>8, <1>9, NextCases, HandlerKeepsQueue
          DEF InterestsStep, vars, ivars, delivery

LEMMA FlagsTyped == ASSUME Typed, [Next]_vars PROVE FlagsType'
  <1> USE DEF Typed, FlagsType
  <1>1. changes' \in 0..MaxChanges
    <2>1. Change \/ UNCHANGED changes \/ \E w \in Workers : HandleFails(w)
      <3>1. CASE INext
        <4>1. ASSUME NEW w \in Workers, HandlerStep(w) PROVE Change \/ UNCHANGED changes
          BY <4>1 DEF HandlerStep, Begin, replaceInterests, Acknowledge, HandleFails
        <4>2. CASE EditStep
          BY <4>2 DEF EditStep, CreateManualInterest, DeleteManualInterest, SpotifyExchange, SpotifyDisconnect
        <4>3. ASSUME NEW s \in Scrapers, ScrapeStep(s) PROVE Change \/ UNCHANGED changes
          BY <4>3 DEF ScrapeStep, ScrapeAll, ScrapeLoads, ScrapeRefreshes, ScrapeSends, ScrapeFails
        <4>4. CASE DisconnectTokens
          BY <4>4 DEF DisconnectTokens
        <4> QED BY <3>1, <4>1, <4>2, <4>3, <4>4, NextCases
      <3>2. CASE JobStep
        BY <3>2 DEF JobStep, JobStarts, JobSelectsUsers, JobArchives, JobEmbedsEvent, matcherAlone
      <3>3. CASE RescoreStep
        BY <3>3 DEF RescoreStep, RescoreEnds, UpdateMatchThreshold, matcherAlone
      <3>4. ASSUME NEW e \in Events, EventMoves(e) PROVE Change
        BY <3>4 DEF EventMoves
      <3>5. ASSUME NEW p \in Procs, RunStep(p) \/ MatcherFails(p) PROVE Change \/ UNCHANGED changes
        BY <3>5 DEF RunStep, EmbedReads, EmbedWrites, LoadUser, LoadEvents, UpsertUserEventMatch,
                    DeleteStaleMatches, DeleteObsoleteMatches, MatcherFails, matcherAlone, interestsAlone
      <3> QED BY <3>1, <3>2, <3>3, <3>4, <3>5, NextCases DEF InterestsStep, vars, ivars
    <2>2. ASSUME Change PROVE changes' \in 0..MaxChanges
      BY <2>2, InterestsAssumption DEF Change, InterestsAssumption
    <2> QED BY <2>1, <2>2 DEF HandleFails
  <1>2. alone' \subseteq Procs
    <2>1. CASE INext
      <3>1. ASSUME NEW w \in Workers, HandlerStep(w) PROVE alone' \subseteq Procs
        BY <3>1, ProcsAre DEF HandlerStep, Begin, replaceInterests, Acknowledge, HandleFails, Wrote
      <3>2. CASE EditStep
        BY <3>2 DEF EditStep, CreateManualInterest, DeleteManualInterest, SpotifyExchange, SpotifyDisconnect
      <3>3. ASSUME NEW s \in Scrapers, ScrapeStep(s) PROVE UNCHANGED alone
        BY <3>3 DEF ScrapeStep, ScrapeAll, ScrapeLoads, ScrapeRefreshes, ScrapeSends, ScrapeFails, quiet
      <3>4. CASE DisconnectTokens
        BY <3>4 DEF DisconnectTokens, quiet
      <3> QED BY <2>1, <3>1, <3>2, <3>3, <3>4, NextCases
    <2>2. CASE JobStep
      BY <2>2, ProcsAre DEF JobStep, JobStarts, JobSelectsUsers, JobArchives, JobEmbedsEvent, Wrote
    <2>3. CASE RescoreStep
      BY <2>3, ProcsAre DEF RescoreStep, RescoreEnds, UpdateMatchThreshold
    <2>4. ASSUME NEW e \in Events, EventMoves(e) PROVE alone' \subseteq Procs
      BY <2>4 DEF EventMoves
    <2>5. ASSUME NEW p \in Procs, RunStep(p) \/ MatcherFails(p) PROVE alone' \subseteq Procs
      BY <2>5 DEF RunStep, EmbedReads, EmbedWrites, LoadUser, LoadEvents, UpsertUserEventMatch,
                  DeleteStaleMatches, DeleteObsoleteMatches, MatcherFails, Wrote
    <2> QED BY <2>1, <2>2, <2>3, <2>4, <2>5, NextCases DEF InterestsStep, vars, ivars
  <1>3. missed' \in BOOLEAN
    <2>1. ASSUME NEW gone, Deleted(gone) PROVE missed' \in BOOLEAN
      <3> DEFINE b == missed \/ gone # {}
      <3>1. missed' = b
        BY <2>1 DEF Deleted
      <3>2. b \in BOOLEAN
        OBVIOUS
      <3> HIDE DEF b
      <3> QED BY <3>1, <3>2
    <2>2. ASSUME NEW w \in Workers, replaceInterests(w) PROVE missed' \in BOOLEAN
      <3>1. \/ Deleted(Of(rows, Head(plan[w]).kind))
            \/ InsertRow(RowOf(Head(plan[w])))
        BY <2>2 DEF replaceInterests
      <3> QED BY <3>1, <2>1 DEF InsertRow
    <2>3. ASSUME NEW v \in Tags, CreateManualInterest(v) \/ DeleteManualInterest(v) PROVE missed' \in BOOLEAN
      <3>1. Deleted({Tag(v)} \cap rows) \/ InsertRow(Tag(v))
        BY <2>3 DEF CreateManualInterest, DeleteManualInterest
      <3> QED BY <3>1, <2>1 DEF InsertRow
    <2>4. ASSUME SpotifyDisconnect PROVE missed' \in BOOLEAN
      BY <2>1, <2>4 DEF SpotifyDisconnect
    <2>5. ASSUME NEW p \in Procs, EmbedWrites(p) PROVE missed' \in BOOLEAN
      <3> DEFINE b == run[p].emb # Text(rows)
      <3>1. missed' = b
        BY <2>5 DEF EmbedWrites
      <3>2. b \in BOOLEAN
        OBVIOUS
      <3> HIDE DEF b
      <3> QED BY <3>1, <3>2
    <2> QED BY <2>2, <2>3, <2>4, <2>5, RowsFrame DEF RowsWrite, vars, ivars
  <1> QED BY <1>1, <1>2, <1>3

LEMMA SpotifyTyped == ASSUME Typed, [Next]_vars PROVE SpotifyType'
  <1> USE DEF Typed, SpotifyType
  <1>1. CASE UNCHANGED spotify
    BY <1>1 DEF spotify
  <1>2. ASSUME NEW w \in Workers, HandlerStep(w) PROVE UNCHANGED spotify
    BY <1>2 DEF HandlerStep, Begin, replaceInterests, Acknowledge, HandleFails
  <1>3. ASSUME NEW v \in Tags, CreateManualInterest(v) \/ DeleteManualInterest(v) PROVE UNCHANGED spotify
    BY <1>3 DEF CreateManualInterest, DeleteManualInterest
  <1>4. ASSUME NEW s \in Scrapers, SpotifyExchange(s) PROVE SpotifyType'
    BY <1>4 DEF SpotifyExchange
  <1>5. ASSUME SpotifyDisconnect PROVE SpotifyType'
    <2> DEFINE b == NothingUnderWay
    <2>1. clean' = b /\ leaving' = TRUE /\ connected' = connected /\ scrape' = scrape
      BY <1>5 DEF SpotifyDisconnect
    <2>2. b \in BOOLEAN
      BY DEF NothingUnderWay
    <2> HIDE DEF b
    <2> QED BY <2>1, <2>2
  <1>6. CASE DisconnectTokens
    BY <1>6 DEF DisconnectTokens, quiet
  <1>7. ASSUME NEW s \in Scrapers, ScrapeStep(s) PROVE SpotifyType'
    <2>1. CASE ScrapeLoads(s)
      <3> DEFINE b == clean /\ ~connected
      <3>1. clean' = b /\ connected' = connected /\ leaving' = leaving
        BY <2>1 DEF ScrapeLoads
      <3>2. b \in BOOLEAN
        OBVIOUS
      <3>3. scrape' \in [Scrapers -> {"idle", "load", "refresh", "fetch"}]
        BY <2>1 DEF ScrapeLoads
      <3> HIDE DEF b
      <3> QED BY <3>1, <3>2, <3>3
    <2>2. CASE ScrapeAll(s) \/ ScrapeRefreshes(s) \/ ScrapeSends(s) \/ ScrapeFails(s)
      BY <2>2 DEF ScrapeAll, ScrapeRefreshes, ScrapeSends, ScrapeFails
    <2> QED BY <1>7, <2>1, <2>2 DEF ScrapeStep
  <1>8. CASE JobStep
    BY <1>1, <1>8 DEF JobStep, JobStarts, JobSelectsUsers, JobArchives, JobEmbedsEvent, matcherAlone, rowsAlone
  <1>9. CASE RescoreStep
    BY <1>1, <1>9 DEF RescoreStep, RescoreEnds, UpdateMatchThreshold, matcherAlone, rowsAlone
  <1>10. ASSUME NEW e \in Events, EventMoves(e) PROVE UNCHANGED spotify
    BY <1>10 DEF EventMoves, rowsAlone
  <1>11. ASSUME NEW p \in Procs, RunStep(p) \/ MatcherFails(p) PROVE UNCHANGED spotify
    BY <1>11 DEF RunStep, EmbedReads, EmbedWrites, LoadUser, LoadEvents, UpsertUserEventMatch,
                 DeleteStaleMatches, DeleteObsoleteMatches, MatcherFails, matcherAlone, rowsAlone, interestsAlone
  <1>12. CASE InterestsStep
    BY <1>1, <1>2, <1>3, <1>4, <1>5, <1>6, <1>7, <1>12, NextCases DEF InterestsStep, EditStep
  <1> QED BY <1>1, <1>8, <1>9, <1>10, <1>11, <1>12, NextCases DEF vars, ivars, spotify

\* The rows of user_event_match after each of the three statements of a run.
LEMMA UpsertKeepsMatches ==
    ASSUME Typed, NEW p \in Procs, UpsertUserEventMatch(p)
    PROVE  MatchType'
  <1> USE DEF Typed
  <1>1. PICK c \in run[p].todo : match' = [match EXCEPT ![c.event] = [score |-> c.score, at |-> run[p].at]]
    BY DEF UpsertUserEventMatch, Upserted
  <1>2. stage[p] = "upsert" /\ UNCHANGED <<embedding, threshold, life, embedded, clock>>
    BY DEF UpsertUserEventMatch
  <1>3. c \in Candidate /\ run[p].at \in Nat /\ run[p].at <= clock
    BY <1>2 DEF RunType, Fits, Holding
  <1>4. c.event \in Events /\ c.score \in Scores
    BY <1>3 DEF Candidate
  <1> QED BY <1>1, <1>2, <1>3, <1>4 DEF MatchType

LEMMA StaleKeepsMatches ==
    ASSUME Typed, NEW p \in Procs, DeleteStaleMatches(p)
    PROVE  MatchType'
  <1> USE DEF Typed
  <1> DEFINE last == \A q \in Procs \ {p} : run[q].at = 0
             Kept(e) == match[e].at >= run[p].at
  <1>1. /\ match' = [e \in Events |-> IF ~Kept(e) THEN NoMatch
                                      ELSE IF last THEN [match[e] EXCEPT !.at = 0] ELSE match[e]]
        /\ clock' = IF last THEN 0 ELSE clock
        /\ UNCHANGED <<embedding, threshold, life, embedded>>
    BY DEF DeleteStaleMatches
  <1> HIDE DEF last, Kept
  <1>2. NoMatch \in [score : Scores, at : Nat] /\ NoMatch.at = 0
    BY DEF NoMatch, Scores
  <1>3. ASSUME NEW e \in Events
        PROVE  match'[e] \in [score : Scores, at : Nat] /\ match'[e].at <= clock'
    <2>1. match[e] \in [score : Scores, at : Nat] /\ match[e].at <= clock /\ clock \in Nat
      BY DEF MatchType
    <2>2. [match[e] EXCEPT !.at = 0] \in [score : Scores, at : Nat] /\ [match[e] EXCEPT !.at = 0].at = 0
      BY <2>1
    <2>3. match'[e] = IF ~Kept(e) THEN NoMatch ELSE IF last THEN [match[e] EXCEPT !.at = 0] ELSE match[e]
      BY <1>1
    <2>4. CASE last
      BY <1>1, <1>2, <2>1, <2>2, <2>3, <2>4
    <2>5. CASE ~last
      BY <1>1, <1>2, <2>1, <2>3, <2>5
    <2> QED BY <2>4, <2>5
  <1>4. match' \in [Events -> [score : Scores, at : Nat]]
    BY <1>1, <1>3
  <1>5. clock' \in Nat
    BY <1>1 DEF MatchType
  <1> QED BY <1>1, <1>3, <1>4, <1>5 DEF MatchType

LEMMA ObsoleteKeepsMatches ==
    ASSUME Typed, NEW p \in Procs, DeleteObsoleteMatches(p)
    PROVE  MatchType'
  <1> USE DEF Typed
  <1>1. /\ match' = [e \in Events |-> IF Upcoming(e) THEN match[e] ELSE NoMatch]
        /\ UNCHANGED <<embedding, threshold, life, embedded, clock>>
    BY DEF DeleteObsoleteMatches
  <1>2. NoMatch \in [score : Scores, at : Nat] /\ NoMatch.at = 0
    BY DEF NoMatch, Scores
  <1> HIDE DEF NoMatch, Upcoming
  <1> QED BY <1>1, <1>2 DEF MatchType

LEMMA MatchTyped == ASSUME Typed, [Next]_vars PROVE MatchType'
  <1> USE DEF Typed
  <1>1. CASE UNCHANGED <<embedding, threshold, life, embedded, match, clock>>
    BY <1>1 DEF MatchType
  <1>2. CASE JobStep
    <2>1. CASE JobStarts \/ JobSelectsUsers
      BY <1>1, <2>1 DEF JobStarts, JobSelectsUsers, mvars
    <2>2. CASE JobArchives
      BY <2>2 DEF JobArchives, MatchType
    <2>3. ASSUME NEW e \in Events, JobEmbedsEvent(e) PROVE MatchType'
      BY <2>3 DEF JobEmbedsEvent, MatchType
    <2> QED BY <1>2, <2>1, <2>2, <2>3 DEF JobStep
  <1>3. CASE RescoreStep
    <2>1. CASE RescoreEnds
      BY <1>1, <2>1 DEF RescoreEnds, mvars
    <2>2. ASSUME NEW t \in Thresholds, UpdateMatchThreshold(t) PROVE MatchType'
      BY <2>2 DEF UpdateMatchThreshold, MatchType
    <2> QED BY <1>3, <2>1, <2>2 DEF RescoreStep
  <1>4. ASSUME NEW e \in Events, EventMoves(e) PROVE MatchType'
    <2>1. life' \in [Events -> {"upcoming", "unseen", "archived", "over"}]
      BY <1>4 DEF EventMoves, MatchType
    <2> QED BY <1>4, <2>1 DEF EventMoves, MatchType
  <1>5. ASSUME NEW p \in Procs, MatcherFails(p) PROVE MatchType'
    BY <1>1, <1>5 DEF MatcherFails
  <1>6. ASSUME NEW p \in Procs, RunStep(p) PROVE MatchType'
    <2>1. CASE EmbedReads(p) \/ LoadUser(p)
      BY <1>1, <2>1 DEF EmbedReads, LoadUser
    <2>2. CASE EmbedWrites(p)
      BY <2>2 DEF EmbedWrites, MatchType, RunType, Holding
    <2>3. CASE LoadEvents(p)
      BY <2>3 DEF LoadEvents, MatchType
    <2> QED BY <1>6, <2>1, <2>2, <2>3, UpsertKeepsMatches, StaleKeepsMatches, ObsoleteKeepsMatches DEF RunStep
  <1> QED BY <1>1, <1>2, <1>3, <1>4, <1>5, <1>6, NextCases DEF InterestsStep, vars, mvars
-----------------------------------------------------------------------------
(* What runs hold.                                                         *)

LEMMA OwnRun ==
    ASSUME RunType, QueueType, MatchType, NEW p \in Procs, NEW r \in Holding, NEW s, Fits(r, s, clock'),
           run' = [run EXCEPT ![p] = r], stage' = [stage EXCEPT ![p] = s],
           clock' \in {clock, clock + 1}
    PROVE  RunType'
  <1>1. run' \in [Procs -> Holding]
    BY DEF RunType
  <1>2. ASSUME NEW q \in Procs PROVE Fits(run'[q], stage'[q], clock')
    <2>1. CASE q = p
      BY <2>1 DEF RunType, QueueType
    <2>2. CASE q # p
      <3>1. run'[q] = run[q] /\ stage'[q] = stage[q]
        BY <2>2 DEF RunType, QueueType
      <3>2. run[q].at \in Nat /\ clock \in Nat /\ clock' >= clock /\ Fits(run[q], stage[q], clock)
        BY DEF RunType, MatchType, Holding
      <3> QED BY <3>1, <3>2 DEF Fits
    <2> QED BY <2>1, <2>2
  <1> QED BY <1>1, <1>2 DEF RunType

\* A step that takes p to a stage where a run of any holding fits.
LEMMA KeptRun ==
    ASSUME Typed, NEW p \in Procs, NEW s, s \notin {"embedding", "upsert"},
           run' = run, stage' = [stage EXCEPT ![p] = s], clock' = clock
    PROVE  RunType'
  <1>1. run' = [run EXCEPT ![p] = run[p]] /\ run[p] \in Holding
    BY DEF Typed, RunType
  <1>2. Fits(run[p], s, clock')
    BY DEF Typed, RunType, Fits
  <1> QED BY <1>1, <1>2, OwnRun DEF Typed

LEMMA InterestsStages ==
    ASSUME QueueType, INext
    PROVE  \A p \in Procs : stage'[p] = stage[p] \/ stage'[p] \in {"idle", "replace", "embed"}
  <1>1. ASSUME NEW w \in Workers, HandlerStep(w)
        PROVE  \A p \in Procs : stage'[p] = stage[p] \/ stage'[p] \in {"idle", "replace", "embed"}
    BY <1>1 DEF HandlerStep, Begin, replaceInterests, Acknowledge, HandleFails, Goto, QueueType
  <1>2. CASE EditStep
    BY <1>2 DEF EditStep, CreateManualInterest, DeleteManualInterest, SpotifyExchange, SpotifyDisconnect
  <1>3. ASSUME NEW s \in Scrapers, ScrapeStep(s) PROVE stage' = stage
    BY <1>3 DEF ScrapeStep, ScrapeAll, ScrapeLoads, ScrapeRefreshes, ScrapeSends, ScrapeFails, quiet
  <1>4. CASE DisconnectTokens
    BY <1>4 DEF DisconnectTokens, quiet
  <1> QED BY <1>1, <1>2, <1>3, <1>4, NextCases

LEMMA RunTyped == ASSUME Typed, [Next]_vars PROVE RunType'
  <1> USE DEF Typed
  <1>0. clock \in Nat /\ \A p \in Procs : run[p] \in Holding
    BY DEF MatchType, RunType
  <1>1. CASE InterestsStep
    <2>1. ASSUME NEW p \in Procs PROVE run'[p] \in Holding /\ Fits(run'[p], stage'[p], clock')
      <3>1. clock' = clock /\ run'[p] = IF stage'[p] = "idle" THEN NoRun ELSE run[p]
        BY <1>1 DEF InterestsStep
      <3>2. stage'[p] = stage[p] \/ stage'[p] \in {"idle", "replace", "embed"}
        BY <1>1, InterestsStages DEF InterestsStep
      <3>3. CASE stage'[p] = "idle"
        BY <1>0, <3>1, <3>3, NoRunFits DEF Stage
      <3>4. CASE stage'[p] # "idle"
        BY <3>1, <3>2, <3>4 DEF RunType, Fits
      <3> QED BY <3>3, <3>4
    <2>2. run' \in [Procs -> Holding]
      BY <1>1, <2>1 DEF InterestsStep
    <2> QED BY <2>1, <2>2 DEF RunType
  <1>2. CASE UNCHANGED <<stage, clock, run>>
    BY <1>2 DEF RunType
  <1>3. CASE JobStep
    <2>1. CASE JobStarts
      <3> DEFINE todo == {e \in Events \ embedded : Upcoming(e)}
                 r == [run[Job] EXCEPT !.todo = todo]
      <3>1. r \in Holding /\ Fits(r, "events", clock)
        BY <1>0, ProcsAre DEF Holding, RunType, Fits
      <3>2. run' = [run EXCEPT ![Job] = r] /\ stage' = [stage EXCEPT ![Job] = "events"] /\ clock' = clock
        BY <2>1 DEF JobStarts, Step, Goto
      <3> HIDE DEF r
      <3> QED BY <1>0, <3>1, <3>2, ProcsAre, OwnRun
    <2>2. CASE JobSelectsUsers
      <3> DEFINE s == IF NeedsEmbedding THEN "embed" ELSE "user"
      <3>1. run' = run /\ stage' = [stage EXCEPT ![Job] = s] /\ clock' = clock /\ s \notin {"embedding", "upsert"}
        BY <2>2 DEF JobSelectsUsers, Step, Goto, mvars
      <3> HIDE DEF s
      <3> QED BY <3>1, ProcsAre, KeptRun
    <2>3. CASE JobArchives
      <3>1. run' = run /\ stage' = [stage EXCEPT ![Job] = "idle"] /\ clock' = clock
        BY <2>3 DEF JobArchives, Step, Goto
      <3> QED BY <3>1, ProcsAre, KeptRun
    <2>4. ASSUME NEW e \in Events, JobEmbedsEvent(e) PROVE RunType'
      <3> DEFINE r == [run[Job] EXCEPT !.todo = @ \ {e}]
      <3>1. r \in Holding /\ Fits(r, stage[Job], clock)
        BY <1>0, ProcsAre DEF Holding, RunType, Fits
      <3>2. run' = [run EXCEPT ![Job] = r] /\ stage' = stage /\ clock' = clock
        BY <2>4 DEF JobEmbedsEvent
      <3>3. stage' = [stage EXCEPT ![Job] = stage[Job]]
        BY <3>2 DEF QueueType
      <3> HIDE DEF r
      <3> QED BY <1>0, <3>1, <3>2, <3>3, ProcsAre, OwnRun
    <2> QED BY <1>3, <2>1, <2>2, <2>3, <2>4 DEF JobStep
  <1>4. CASE RescoreStep
    <2>1. \/ run' = run /\ stage' = [stage EXCEPT ![Rescore] = "idle"] /\ clock' = clock
          \/ run' = run /\ stage' = [stage EXCEPT ![Rescore] = "user"] /\ clock' = clock
      BY <1>4 DEF RescoreStep, RescoreEnds, UpdateMatchThreshold, Step, Goto, mvars
    <2> QED BY <2>1, ProcsAre, KeptRun
  <1>5. ASSUME NEW e \in Events, EventMoves(e) PROVE UNCHANGED <<stage, clock, run>>
    BY <1>5 DEF EventMoves
  <1>6. ASSUME NEW p \in Procs, MatcherFails(p) PROVE RunType'
    <2>1. run' = [run EXCEPT ![p] = NoRun] /\ stage' = [stage EXCEPT ![p] = "idle"] /\ clock' = clock
      BY <1>6 DEF MatcherFails, Goto
    <2>2. Fits(NoRun, "idle", clock) /\ NoRun \in Holding
      BY <1>0, NoRunFits DEF Stage
    <2> QED BY <1>0, <2>1, <2>2, OwnRun
  <1>7. ASSUME NEW p \in Procs, EmbedReads(p) PROVE RunType'
    <2> DEFINE emb == IF Text(rows) = {} THEN run[p].emb ELSE Text(rows)
               s == IF Text(rows) = {} THEN "user" ELSE "embedding"
               r == [run[p] EXCEPT !.emb = emb]
    <2>1. run' = [run EXCEPT ![p] = r] /\ stage' = [stage EXCEPT ![p] = s] /\ clock' = clock
      BY <1>7 DEF EmbedReads, Step, Goto
    <2>2. emb \in Embedding /\ (s = "embedding" => emb \in SUBSET Names) /\ s # "upsert"
      BY <1>0, TextType DEF Embedding, Holding, RowsType
    <2> HIDE DEF emb, s
    <2>3. r \in Holding /\ Fits(r, s, clock)
      BY <1>0, <2>2 DEF Holding, RunType, Fits
    <2> HIDE DEF r
    <2> QED BY <1>0, <2>1, <2>3, OwnRun
  <1>8. ASSUME NEW p \in Procs, EmbedWrites(p) PROVE RunType'
    <2>1. run' = [run EXCEPT ![p] = NoRun] /\ stage' = [stage EXCEPT ![p] = "user"] /\ clock' = clock
      BY <1>8 DEF EmbedWrites, Step, Goto
    <2>2. Fits(NoRun, "user", clock) /\ NoRun \in Holding
      BY <1>0, NoRunFits DEF Stage
    <2> QED BY <1>0, <2>1, <2>2, OwnRun
  <1>9. ASSUME NEW p \in Procs, LoadUser(p) PROVE RunType'
    <2> DEFINE a == [run[p] EXCEPT !.emb = embedding]
               b == [a EXCEPT !.thr = threshold]
               r == [b EXCEPT !.rows = rows]
    <2>1. run' = [run EXCEPT ![p] = r] /\ stage' = [stage EXCEPT ![p] = "candidates"] /\ clock' = clock
      BY <1>0, <1>9 DEF LoadUser, Step, Goto, RunType
    <2>2. embedding \in Embedding /\ threshold \in Int /\ rows \in SUBSET Row /\ IsFiniteSet(rows)
      BY MatcherAssumption DEF MatcherAssumption, Config, MatchType, RowsType
    <2>3. a \in Holding /\ a.at = run[p].at
      BY <1>0, <2>2 DEF Holding
    <2> HIDE DEF a
    <2>4. b \in Holding /\ b.at = run[p].at
      BY <2>2, <2>3 DEF Holding
    <2> HIDE DEF b
    <2>5. r \in Holding /\ r.at = run[p].at /\ r.rows = rows
      BY <2>2, <2>4 DEF Holding
    <2> HIDE DEF r
    <2>6. Fits(r, "candidates", clock)
      BY <2>2, <2>5 DEF RunType, Fits
    <2> QED BY <1>0, <2>1, <2>5, <2>6, OwnRun
  <1>10. ASSUME NEW p \in Procs, LoadEvents(p) PROVE RunType'
    <2> DEFINE todo == Candidates(run[p].rows, run[p].emb, run[p].thr)
               a == [NoRun EXCEPT !.at = clock + 1]
               r == [a EXCEPT !.todo = todo]
    <2>1. run' = [run EXCEPT ![p] = r] /\ stage' = [stage EXCEPT ![p] = "upsert"] /\ clock' = clock + 1
      BY <1>10 DEF LoadEvents, Step, Goto
    <2>2. todo \subseteq Candidate
      <3>1. run[p].rows \subseteq Row /\ IsFiniteSet(run[p].rows)
        BY <1>0 DEF Holding, RunType, Fits
      <3> QED BY <3>1, CandidatesType
    <2> HIDE DEF todo
    <2>3. a \in Holding /\ a.at = clock + 1 /\ a.rows = {}
      BY <1>0, NoRunFits DEF Holding, NoRun
    <2> HIDE DEF a
    <2>4. r \in Holding /\ r.at = clock + 1 /\ r.rows = {} /\ r.todo = todo
      BY <2>2, <2>3 DEF Holding
    <2> HIDE DEF r
    <2>5. Fits(r, "upsert", clock + 1)
      BY <1>0, <2>2, <2>4, FS_EmptySet DEF Fits
    <2> QED BY <1>0, <2>1, <2>4, <2>5, OwnRun
  <1>11. ASSUME NEW p \in Procs, UpsertUserEventMatch(p) PROVE RunType'
    <2>1. PICK c \in run[p].todo : run' = [run EXCEPT ![p].todo = @ \ {c}]
      BY <1>11 DEF UpsertUserEventMatch
    <2> DEFINE r == [run[p] EXCEPT !.todo = @ \ {c}]
    <2>2. run' = [run EXCEPT ![p] = r] /\ stage' = [stage EXCEPT ![p] = stage[p]] /\ clock' = clock
      BY <1>11, <2>1 DEF UpsertUserEventMatch, QueueType
    <2>3. r \in Holding /\ Fits(r, stage[p], clock)
      BY <1>0 DEF Holding, RunType, Fits
    <2> HIDE DEF r
    <2> QED BY <1>0, <2>2, <2>3, OwnRun
  <1>12. ASSUME NEW p \in Procs, DeleteStaleMatches(p) PROVE RunType'
    <2> DEFINE last == \A q \in Procs \ {p} : run[q].at = 0
    <2>1. run' = [run EXCEPT ![p] = NoRun] /\ stage' = [stage EXCEPT ![p] = "obsolete"]
          /\ clock' = IF last THEN 0 ELSE clock
      BY <1>12 DEF DeleteStaleMatches, Step, Goto
    <2>2. NoRun \in Holding /\ Fits(NoRun, "obsolete", clock) /\ Fits(NoRun, "obsolete", 0)
      BY <1>0, NoRunFits DEF Stage
    <2>3. CASE last
      <3>1. ASSUME NEW q \in Procs PROVE Fits(run'[q], stage'[q], clock')
        <4>1. CASE q = p
          BY <2>1, <2>2, <2>3, <4>1 DEF QueueType, RunType
        <4>2. CASE q # p
          <5>1. run'[q] = run[q] /\ stage'[q] = stage[q] /\ run[q].at = 0 /\ clock' = 0
            BY <2>1, <2>3, <4>2 DEF QueueType, RunType
          <5> QED BY <5>1 DEF RunType, Fits
        <4> QED BY <4>1, <4>2
      <3>2. run' \in [Procs -> Holding]
        BY <2>1, <2>2 DEF RunType
      <3> QED BY <3>1, <3>2 DEF RunType
    <2>4. CASE ~last
      <3>1. clock' = clock
        BY <2>1, <2>4
      <3> QED BY <1>0, <2>1, <2>2, <3>1, OwnRun
    <2> QED BY <2>3, <2>4
  <1>13. ASSUME NEW p \in Procs, DeleteObsoleteMatches(p) PROVE RunType'
    <2>1. run' = run /\ stage' = [stage EXCEPT ![p] = "matched"] /\ clock' = clock
      BY <1>13 DEF DeleteObsoleteMatches, Step, Goto
    <2> QED BY <2>1, KeptRun
  <1> QED BY <1>1, <1>2, <1>3, <1>4, <1>5, <1>6, <1>7, <1>8, <1>9, <1>10, <1>11, <1>12, <1>13, NextCases
          DEF RunStep, vars, ivars, mvars

LEMMA NextTyped == ASSUME Typed, [Next]_vars PROVE Typed'
  <1>1. RowsType' /\ QueueType' /\ SpotifyType' /\ FlagsType' /\ MatchType' /\ RunType'
    BY RowsTyped, QueueTyped, SpotifyTyped, FlagsTyped, MatchTyped, RunTyped
  <1> QED BY <1>1 DEF Typed

LEMMA AlwaysTyped == Spec => []Typed
  BY InitTyped, NextTyped, PTL DEF Spec

\* The rows, messages, embedding, matches and what every run holds keep their
\* types: weights within 0.1 and 1, scores within 0 and 1, one row a name and
\* kind, and no match stamped later than the last run.
THEOREM MatcherType == Spec => []TypeOK
  BY AlwaysTyped, TypedImpliesTypeOK, PTL
-----------------------------------------------------------------------------
(* Disconnecting.                                                          *)

LEMMA InitDisconnect == Init => DisconnectInv
  <1> SUFFICES ASSUME Init, clean PROVE (leaving \/ ~connected) /\ Spotify(rows) = {} /\ NothingUnderWay
    BY DEF DisconnectInv
  <1>1. ~connected /\ Spotify(rows) = {}
    BY DEF Init, IInit, Spotify
  <1>2. NothingUnderWay
    BY ProcsAre DEF Init, IInit, NothingUnderWay, CanBegin
  <1> QED BY <1>1, <1>2

\* A message that was sent stays what it is.
LEMMA NothingStaysUnderWay ==
    ASSUME Typed, NothingUnderWay,
           \A s \in Scrapers : scrape'[s] \in {"idle", "load"},
           \A w \in Workers : stage'[w] # "replace",
           \A m \in Msgs : /\ starts[m] <= starts'[m] /\ starts'[m] \in Nat
                           /\ body'[m] = body[m] \/ body'[m] = OnlyEmbed
    PROVE  NothingUnderWay'
  <1>1. ASSUME NEW m \in Msgs, CanBegin(m)' PROVE body'[m] = OnlyEmbed
    <2>1. starts[m] \in 0..MaxReceive /\ MaxReceive \in Nat
      BY InterestsAssumption DEF Typed, QueueType, InterestsAssumption
    <2>2. CASE body'[m] = body[m]
      <3>1. starts'[m] < MaxReceive /\ body[m] # None
        BY <1>1, <2>2 DEF CanBegin
      <3>2. starts[m] <= starts'[m] /\ starts'[m] \in Nat
        OBVIOUS
      <3>3. starts[m] < MaxReceive
        <4> DEFINE x == starts[m]
                   y == starts'[m]
        <4>1. x \in Nat /\ y \in Nat /\ MaxReceive \in Nat /\ x <= y /\ y < MaxReceive
          BY <2>1, <3>1, <3>2
        <4> HIDE DEF x, y
        <4>2. x < MaxReceive
          BY <4>1
        <4> QED BY <4>2 DEF x
      <3> QED BY <2>2, <3>1, <3>3 DEF CanBegin, NothingUnderWay
    <2> QED BY <2>2
  <1> QED BY <1>1 DEF NothingUnderWay

\* Of a connection that was cleanly undone: what its flags and scrapes do.
LEMMA CleanConnection ==
    ASSUME Typed, DisconnectInv, Next, ~SpotifyDisconnect, clean'
    PROVE  /\ clean
           /\ leaving' \/ ~connected'
           /\ \A s \in Scrapers : scrape'[s] \in {"idle", "load"}
  <1> USE DEF Typed, SpotifyType
  <1> DEFINE Goal == /\ clean
                     /\ leaving' \/ ~connected'
                     /\ \A s \in Scrapers : scrape'[s] \in {"idle", "load"}
  <1>1. clean => /\ leaving \/ ~connected
                 /\ \A s \in Scrapers : scrape[s] \in {"idle", "load"}
    BY DEF DisconnectInv, NothingUnderWay
  <1>2. CASE UNCHANGED spotify
    BY <1>1, <1>2 DEF spotify
  <1>3. ASSUME NEW w \in Workers, HandlerStep(w) PROVE UNCHANGED spotify
    BY <1>3 DEF HandlerStep, Begin, replaceInterests, Acknowledge, HandleFails
  <1>4. ASSUME NEW v \in Tags, CreateManualInterest(v) \/ DeleteManualInterest(v) PROVE UNCHANGED spotify
    BY <1>4 DEF CreateManualInterest, DeleteManualInterest
  <1>5. ASSUME NEW s \in Scrapers, SpotifyExchange(s) PROVE FALSE
    BY <1>5 DEF SpotifyExchange
  <1>6. CASE DisconnectTokens
    BY <1>1, <1>6 DEF DisconnectTokens
  <1>7. ASSUME NEW s \in Scrapers, ScrapeStep(s) PROVE Goal
    <2>1. CASE ScrapeAll(s)
      BY <1>1, <2>1 DEF ScrapeAll
    <2>2. CASE ScrapeLoads(s)
      <3>1. clean /\ ~connected
        BY <2>2 DEF ScrapeLoads
      <3>2. scrape' = [scrape EXCEPT ![s] = "idle"] /\ connected' = connected
        BY <2>2, <3>1 DEF ScrapeLoads
      <3> QED BY <1>1, <3>1, <3>2
    <2>3. CASE ScrapeRefreshes(s) \/ ScrapeSends(s)
      BY <1>1, <2>3 DEF ScrapeRefreshes, ScrapeSends
    <2>4. CASE ScrapeFails(s)
      BY <1>1, <2>4 DEF ScrapeFails
    <2> QED BY <1>7, <2>1, <2>2, <2>3, <2>4 DEF ScrapeStep
  <1>8. CASE JobStep
    BY <1>2, <1>8 DEF JobStep, JobStarts, JobSelectsUsers, JobArchives, JobEmbedsEvent, matcherAlone, rowsAlone
  <1>9. CASE RescoreStep
    BY <1>2, <1>9 DEF RescoreStep, RescoreEnds, UpdateMatchThreshold, matcherAlone, rowsAlone
  <1>10. ASSUME NEW e \in Events, EventMoves(e) PROVE UNCHANGED spotify
    BY <1>10 DEF EventMoves, rowsAlone
  <1>11. ASSUME NEW p \in Procs, RunStep(p) \/ MatcherFails(p) PROVE UNCHANGED spotify
    BY <1>11 DEF RunStep, EmbedReads, EmbedWrites, LoadUser, LoadEvents, UpsertUserEventMatch,
                 DeleteStaleMatches, DeleteObsoleteMatches, MatcherFails, matcherAlone, rowsAlone, interestsAlone
  <1>12. CASE InterestsStep
    BY <1>2, <1>3, <1>4, <1>5, <1>6, <1>7, <1>12, NextCases DEF InterestsStep, EditStep
  <1> QED BY <1>2, <1>8, <1>9, <1>10, <1>11, <1>12, NextCases

\* No replacement begins when every message that could be handled has no lists.
LEMMA NoReplacementBegins ==
    ASSUME Typed, NothingUnderWay, Next, \A s \in Scrapers : ~ScrapeSends(s)
    PROVE  /\ \A w \in Workers : stage'[w] # "replace"
           /\ \A m \in Msgs : /\ starts[m] <= starts'[m]
                              /\ body'[m] = body[m] \/ body'[m] = OnlyEmbed
  <1> USE DEF Typed
  <1> DEFINE Goal == /\ \A w \in Workers : stage'[w] # "replace"
                     /\ \A m \in Msgs : /\ starts[m] <= starts'[m]
                                        /\ body'[m] = body[m] \/ body'[m] = OnlyEmbed
  <1>0. /\ \A w \in Workers : stage[w] # "replace"
        /\ \A m \in Msgs : CanBegin(m) => body[m] = OnlyEmbed
        /\ \A m \in Msgs : starts[m] \in Int
    BY InterestsAssumption DEF NothingUnderWay, QueueType, InterestsAssumption
  <1>1. CASE UNCHANGED delivery /\ UNCHANGED stage
    BY <1>0, <1>1 DEF delivery
  <1>2. ASSUME NEW p \in Procs, NEW to \in Stage \ {"replace"}, Goto(p, to), UNCHANGED delivery PROVE Goal
    BY <1>0, <1>2 DEF Goto, QueueType, delivery
  <1>3. ASSUME NEW w \in Workers, HandlerStep(w) PROVE Goal
    <2>1. w \in Procs
      BY DEF Procs
    <2>2. ASSUME NEW m \in Msgs, Begin(w, m) PROVE Goal
      <3>1. body[m] = OnlyEmbed
        BY <1>0, <2>2 DEF Begin
      <3>2. /\ stage' = [stage EXCEPT ![w] = "embed"]
            /\ starts' = [starts EXCEPT ![m] = starts[m] + 1]
            /\ body' = body
        BY <2>2, <3>1 DEF Begin, Goto
      <3> QED BY <1>0, <3>2 DEF QueueType
    <2>3. ~replaceInterests(w)
      BY <1>0 DEF replaceInterests
    <2>4. CASE Acknowledge(w) \/ HandleFails(w)
      <3>1. Goto(w, "idle") /\ UNCHANGED <<body, starts>>
        BY <2>4 DEF Acknowledge, HandleFails
      <3> QED BY <1>0, <2>1, <3>1 DEF Goto, QueueType
    <2> QED BY <1>3, <2>2, <2>3, <2>4 DEF HandlerStep
  <1>4. CASE EditStep
    <2>1. ASSUME NEW v \in Tags, CreateManualInterest(v) \/ DeleteManualInterest(v) PROVE Goal
      <3>1. publishEmbed /\ UNCHANGED stage
        BY <2>1 DEF CreateManualInterest, DeleteManualInterest
      <3> QED BY <1>0, <1>1, <3>1 DEF publishEmbed, Send, QueueType
    <2>2. CASE SpotifyDisconnect \/ \E s \in Scrapers : SpotifyExchange(s)
      BY <1>1, <2>2 DEF SpotifyDisconnect, SpotifyExchange
    <2> QED BY <1>4, <2>1, <2>2 DEF EditStep
  <1>5. ASSUME NEW s \in Scrapers, ScrapeStep(s) PROVE Goal
    BY <1>1, <1>5 DEF ScrapeStep, ScrapeAll, ScrapeLoads, ScrapeRefreshes, ScrapeFails, quiet
  <1>6. CASE DisconnectTokens
    BY <1>1, <1>6 DEF DisconnectTokens, quiet
  <1>7. CASE JobStep
    <2>1. ASSUME NEW e \in Events, JobEmbedsEvent(e) PROVE UNCHANGED delivery /\ UNCHANGED stage
      BY <2>1 DEF JobEmbedsEvent, matcherAlone, rowsAlone
    <2>2. CASE JobStarts \/ JobSelectsUsers \/ JobArchives
      <3>1. /\ \E to \in Stage \ {"replace"} : Goto(Job, to)
            /\ UNCHANGED delivery
        BY <2>2 DEF JobStarts, JobSelectsUsers, JobArchives, Step, Stage, matcherAlone, rowsAlone
      <3> QED BY <1>2, <3>1, ProcsAre
    <2> QED BY <1>1, <1>7, <2>1, <2>2 DEF JobStep
  <1>8. CASE RescoreStep
    <2>1. (\E to \in Stage \ {"replace"} : Goto(Rescore, to)) /\ UNCHANGED delivery
      BY <1>8 DEF RescoreStep, RescoreEnds, UpdateMatchThreshold, Step, Stage, matcherAlone, rowsAlone
    <2> QED BY <1>2, <2>1, ProcsAre
  <1>9. ASSUME NEW e \in Events, EventMoves(e) PROVE UNCHANGED delivery /\ UNCHANGED stage
    BY <1>9 DEF EventMoves, rowsAlone
  <1>10. ASSUME NEW p \in Procs, RunStep(p) \/ MatcherFails(p) PROVE Goal
    <2>1. UpsertUserEventMatch(p) => UNCHANGED delivery /\ UNCHANGED stage
      BY DEF UpsertUserEventMatch, matcherAlone, rowsAlone
    <2>2. CASE ~UpsertUserEventMatch(p)
      <3>1. (\E to \in Stage \ {"replace"} : Goto(p, to)) /\ UNCHANGED delivery
        BY <1>10, <2>2 DEF RunStep, EmbedReads, EmbedWrites, LoadUser, LoadEvents, DeleteStaleMatches,
                           DeleteObsoleteMatches, MatcherFails, Step, Stage, matcherAlone, rowsAlone, interestsAlone
      <3> QED BY <1>2, <3>1
    <2> QED BY <1>1, <2>1, <2>2
  <1> QED BY <1>1, <1>3, <1>4, <1>5, <1>6, <1>7, <1>8, <1>9, <1>10, NextCases DEF InterestsStep

LEMMA NextDisconnect ==
    ASSUME Typed, DisconnectInv, [Next]_vars PROVE DisconnectInv'
  <1> SUFFICES ASSUME clean'
               PROVE  (leaving' \/ ~connected') /\ Spotify(rows)' = {} /\ NothingUnderWay'
    BY DEF DisconnectInv
  <1>1. CASE UNCHANGED vars
    BY <1>1 DEF DisconnectInv, vars, ivars, Spotify, NothingUnderWay, CanBegin
  <1>2. CASE SpotifyDisconnect
    <2>1. NothingUnderWay'
      <3>1. NothingUnderWay
        BY <1>2 DEF SpotifyDisconnect
      <3> QED BY <1>2, <3>1 DEF SpotifyDisconnect, NothingUnderWay, CanBegin, delivery
    <2>2. Spotify(rows)' = {}
      <3>1. rows' = rows \ {r \in rows : r.kind \in DerivedKinds}
        BY <1>2 DEF SpotifyDisconnect, Deleted
      <3>2. \A r \in rows : r.kind \in Kinds
        BY DEF Typed, RowsType, Row
      <3> QED BY <3>1, <3>2, KindsAre DEF Spotify
    <2> QED BY <1>2, <2>1, <2>2 DEF SpotifyDisconnect
  <1>3. CASE Next /\ ~SpotifyDisconnect
    <2>1. /\ clean
          /\ leaving' \/ ~connected'
          /\ \A s \in Scrapers : scrape'[s] \in {"idle", "load"}
      BY <1>3, CleanConnection
    <2>2. Spotify(rows) = {} /\ NothingUnderWay
      BY <2>1 DEF DisconnectInv
    <2>3. \A s \in Scrapers : ~ScrapeSends(s)
      BY <2>2 DEF ScrapeSends, NothingUnderWay
    <2>4. NothingUnderWay'
      <3>1. QueueType'
        BY <1>3, QueueTyped
      <3>2. \A m \in Msgs : starts'[m] \in Nat
        BY <3>1, InterestsAssumption DEF QueueType, InterestsAssumption
      <3>3. /\ \A w \in Workers : stage'[w] # "replace"
            /\ \A m \in Msgs : /\ starts[m] <= starts'[m]
                               /\ body'[m] = body[m] \/ body'[m] = OnlyEmbed
        BY <1>3, <2>2, <2>3, NoReplacementBegins
      <3> QED BY <2>1, <2>2, <3>2, <3>3, NothingStaysUnderWay
    <2>5. Spotify(rows)' = {}
      <3>1. \A w \in Workers : ~replaceInterests(w)
        BY <2>2 DEF replaceInterests, NothingUnderWay
      <3>2. ASSUME NEW v \in Tags, CreateManualInterest(v) \/ DeleteManualInterest(v) PROVE Spotify(rows)' = {}
        BY <2>2, <3>2 DEF CreateManualInterest, DeleteManualInterest, Deleted, InsertRow, Tag, Spotify
      <3>3. ASSUME NEW p \in Procs, EmbedWrites(p) PROVE rows' = rows
        BY <3>3 DEF EmbedWrites
      <3> QED BY <1>3, <2>2, <3>1, <3>2, <3>3, RowsFrame DEF RowsWrite, Spotify
    <2> QED BY <2>1, <2>4, <2>5
  <1> QED BY <1>1, <1>2, <1>3

\* A disconnect that found no scrape, handler or message under way stays: no
\* tokens and no Spotify row until the next exchange, whatever else runs.
THEOREM DisconnectStays == Spec => []DisconnectHolds
  <1>1. Spec => []DisconnectInv
    BY AlwaysTyped, InitDisconnect, NextDisconnect, PTL DEF Spec
  <1>2. DisconnectInv => DisconnectHolds
    BY DEF DisconnectInv, DisconnectHolds
  <1> QED BY <1>1, <1>2, PTL
-----------------------------------------------------------------------------
(* Running alone.                                                          *)

OwnStep(p) == \/ p \in Workers /\ HandlerStep(p)
              \/ p = Job /\ JobStep
              \/ p = Rescore /\ RescoreStep
              \/ RunStep(p) \/ MatcherFails(p)

\* What a lone process relies on: all it reads but the clock.
Shared == <<rows, newer, missed, embedding, threshold, life, embedded, match>>

\* While p stays alone the others change neither that nor what p holds.
LEMMA OthersStep ==
    ASSUME Typed, Next, NEW p \in Procs, p \in alone', ~OwnStep(p)
    PROVE  /\ p \in alone
           /\ UNCHANGED Shared
           /\ stage'[p] = stage[p]
           /\ stage[p] # "idle" => run'[p] = run[p]
           /\ p \in Workers => /\ plan'[p] = plan[p] /\ active'[p] = active[p]
                               /\ active[p] # None => body'[active[p]] = body[active[p]]
  <1> USE DEF Typed
  <1> DEFINE Holds == /\ stage'[p] = stage[p]
                      /\ p \in Workers => /\ plan'[p] = plan[p] /\ active'[p] = active[p]
                                          /\ active[p] # None => body'[active[p]] = body[active[p]]
             Goal == /\ p \in alone
                     /\ UNCHANGED Shared
                     /\ stage[p] # "idle" => run'[p] = run[p]
                     /\ Holds
             Interest == p \in alone /\ UNCHANGED <<rows, newer, missed>> /\ Holds
  <1>1. CASE InterestsStep
    <2>1. ASSUME NEW w \in Workers, HandlerStep(w) PROVE Interest
      <3>1. w # p
        BY <2>1 DEF OwnStep
      <3>2. CASE replaceInterests(w)
        BY <3>1, <3>2 DEF replaceInterests, Wrote
      <3>3. ASSUME NEW m \in Msgs, Begin(w, m) PROVE Interest
        BY <3>1, <3>3 DEF Begin, Goto, QueueType
      <3>4. CASE Acknowledge(w) \/ HandleFails(w)
        BY <3>1, <3>4 DEF Acknowledge, HandleFails, Goto, QueueType
      <3> QED BY <2>1, <3>2, <3>3, <3>4 DEF HandlerStep
    <2>2. ASSUME EditStep PROVE Interest
      BY <2>2 DEF EditStep, CreateManualInterest, DeleteManualInterest, SpotifyExchange, SpotifyDisconnect
    <2>3. ASSUME UNCHANGED <<rows, newer, missed>>, alone' = alone,
                 stage' = stage, plan' = plan, active' = active,
                 body' = body \/ \E m \in Msgs, b \in Sent : Send(m, b)
          PROVE  Interest
      <3>1. ASSUME p \in Workers, active[p] # None PROVE body'[active[p]] = body[active[p]]
        <4>1. CASE body' = body
          BY <4>1
        <4>2. ASSUME NEW m \in Msgs, NEW b \in Sent, Send(m, b) PROVE body'[active[p]] = body[active[p]]
          <5>1. body[m] = None /\ body' = [body EXCEPT ![m] = b]
            BY <4>2 DEF Send
          <5>2. active[p] \in Msgs /\ active[p] # m
            BY <3>1, <5>1 DEF QueueType
          <5> QED BY <5>1, <5>2 DEF QueueType
        <4> QED BY <2>3, <4>1, <4>2
      <3> QED BY <2>3, <3>1
    <2>4. ASSUME NEW s \in Scrapers, ScrapeStep(s) PROVE Interest
      <3>1. UNCHANGED <<rows, newer, missed>> /\ alone' = alone /\ stage' = stage /\ plan' = plan
        BY <2>4 DEF ScrapeStep, ScrapeAll, ScrapeLoads, ScrapeRefreshes, ScrapeSends, ScrapeFails, quiet
      <3>2. CASE ScrapeSends(s)
        <4>1. PICK m \in Msgs, b \in Sent : Send(m, b)
          BY <3>2 DEF ScrapeSends
        <4>2. active' = active
          BY <4>1 DEF Send
        <4> QED BY <2>3, <3>1, <4>1, <4>2
      <3>3. CASE ~ScrapeSends(s)
        <4>1. UNCHANGED delivery
          BY <2>4, <3>3 DEF ScrapeStep, ScrapeAll, ScrapeLoads, ScrapeRefreshes, ScrapeFails
        <4>2. body' = body /\ active' = active
          BY <4>1 DEF delivery
        <4> QED BY <2>3, <3>1, <4>2
      <3> QED BY <3>2, <3>3
    <2>5. ASSUME DisconnectTokens PROVE Interest
      <3>1. /\ UNCHANGED delivery /\ UNCHANGED <<rows, newer, missed>>
            /\ alone' = alone /\ stage' = stage /\ plan' = plan
        BY <2>5 DEF DisconnectTokens, quiet
      <3>2. body' = body /\ active' = active
        BY <3>1 DEF delivery
      <3> QED BY <2>3, <3>1, <3>2
    <2>6. Interest
      <3>1. \/ \E w \in Workers : HandlerStep(w)
            \/ EditStep \/ DisconnectTokens
            \/ \E s \in Scrapers : ScrapeStep(s)
        BY <1>1, NextCases DEF InterestsStep
      <3> HIDE DEF Interest
      <3> QED BY <3>1, <2>1, <2>2, <2>4, <2>5
    <2>7. stage[p] # "idle" => run'[p] = run[p]
      BY <1>1, <2>6 DEF InterestsStep
    <2> QED BY <1>1, <2>6, <2>7 DEF InterestsStep, Shared
  <1>2. CASE JobStep
    <2>1. p # Job
      BY <1>2 DEF OwnStep
    <2>2. CASE JobStarts
      BY <2>1, <2>2, ProcsAre DEF JobStarts, Shared, rowsAlone, delivery, Step, Goto, QueueType, RunType
    <2>3. CASE JobSelectsUsers
      BY <2>1, <2>3, ProcsAre DEF JobSelectsUsers, Shared, matcherAlone, rowsAlone, delivery, mvars, Step, Goto, QueueType
    <2>4. ~JobArchives /\ \A e \in Events : ~JobEmbedsEvent(e)
      BY <2>1 DEF JobArchives, JobEmbedsEvent, Wrote
    <2> QED BY <1>2, <2>2, <2>3, <2>4 DEF JobStep
  <1>3. CASE RescoreStep
    <2>1. p # Rescore
      BY <1>3 DEF OwnStep
    <2>2. CASE RescoreEnds
      BY <2>1, <2>2, ProcsAre DEF RescoreEnds, Shared, matcherAlone, rowsAlone, delivery, mvars, Step, Goto, QueueType
    <2>3. \A t \in Thresholds : ~UpdateMatchThreshold(t)
      BY <2>1 DEF UpdateMatchThreshold
    <2> QED BY <1>3, <2>2, <2>3 DEF RescoreStep
  <1>4. \A e \in Events : ~EventMoves(e)
    BY DEF EventMoves
  <1>5. ASSUME NEW q \in Procs, RunStep(q) \/ MatcherFails(q) PROVE Goal
    <2>1. q # p
      BY <1>5 DEF OwnStep
    <2>2. CASE EmbedReads(q)
      BY <2>1, <2>2 DEF EmbedReads, Shared, matcherAlone, rowsAlone, delivery, Step, Goto, QueueType, RunType
    <2>3. CASE LoadUser(q)
      BY <2>1, <2>3 DEF LoadUser, Shared, matcherAlone, rowsAlone, delivery, Step, Goto, QueueType, RunType
    <2>4. CASE LoadEvents(q)
      BY <2>1, <2>4 DEF LoadEvents, Shared, matcherAlone, rowsAlone, delivery, Step, Goto, QueueType, RunType
    <2>5. CASE MatcherFails(q)
      BY <2>1, <2>5 DEF MatcherFails, Shared, rowsAlone, delivery, Goto, QueueType, RunType
    <2>6. /\ ~EmbedWrites(q) /\ ~UpsertUserEventMatch(q)
          /\ ~DeleteStaleMatches(q) /\ ~DeleteObsoleteMatches(q)
      BY <2>1 DEF EmbedWrites, UpsertUserEventMatch, DeleteStaleMatches, DeleteObsoleteMatches, Wrote
    <2> QED BY <1>5, <2>2, <2>3, <2>4, <2>5, <2>6 DEF RunStep
  <1> QED BY <1>1, <1>2, <1>3, <1>4, <1>5, NextCases
-----------------------------------------------------------------------------
(* The embedding.                                                          *)

LEMMA EmbeddingFrame ==
    ASSUME Next PROVE UNCHANGED embedding \/ \E p \in Procs : EmbedWrites(p)
  <1>1. CASE JobStep
    BY <1>1 DEF JobStep, JobStarts, JobSelectsUsers, JobArchives, JobEmbedsEvent, mvars
  <1>2. CASE RescoreStep
    BY <1>2 DEF RescoreStep, RescoreEnds, UpdateMatchThreshold, mvars
  <1>3. ASSUME NEW e \in Events, EventMoves(e) PROVE UNCHANGED embedding
    BY <1>3 DEF EventMoves
  <1>4. ASSUME NEW p \in Procs, RunStep(p) \/ MatcherFails(p)
        PROVE  UNCHANGED embedding \/ EmbedWrites(p)
    BY <1>4 DEF RunStep, EmbedReads, LoadUser, LoadEvents, UpsertUserEventMatch,
                DeleteStaleMatches, DeleteObsoleteMatches, MatcherFails
  <1> QED BY <1>1, <1>2, <1>3, <1>4, NextCases DEF InterestsStep

LEMMA StampedStays == ASSUME Typed, Stamped, Next PROVE Stamped'
  <1>1. ASSUME NEW p \in Procs, EmbedWrites(p) PROVE Stamped'
    <2>1. embedding' = run[p].emb /\ missed' = (run[p].emb # Text(rows)) /\ rows' = rows
      BY <1>1 DEF EmbedWrites
    <2> QED BY <2>1 DEF Stamped
  <1>2. CASE ~\E p \in Procs : EmbedWrites(p)
    <2>1. embedding' = embedding
      BY <1>2, EmbeddingFrame
    <2>2. ASSUME NEW gone, Deleted(gone), gone \subseteq rows PROVE Stamped'
      <3>1. rows' = rows \ gone /\ newer' = newer \ gone /\ (missed' <=> missed \/ gone # {})
        BY <2>2 DEF Deleted
      <3>2. gone = {} => rows' = rows /\ newer' = newer
        BY <3>1
      <3> QED BY <2>1, <3>1, <3>2 DEF Stamped
    <2>3. ASSUME NEW row, InsertRow(row) PROVE Stamped'
      <3>1. row \in newer'
        BY <2>3 DEF InsertRow
      <3> QED BY <3>1 DEF Stamped
    <2>4. ASSUME NEW w \in Workers, replaceInterests(w) PROVE Stamped'
      <3>1. Deleted(Of(rows, Head(plan[w]).kind)) \/ InsertRow(RowOf(Head(plan[w])))
        BY <2>4 DEF replaceInterests
      <3>2. Of(rows, Head(plan[w]).kind) \subseteq rows
        BY DEF Of
      <3> QED BY <2>2, <2>3, <3>1, <3>2
    <2>5. ASSUME NEW v \in Tags, CreateManualInterest(v) \/ DeleteManualInterest(v) PROVE Stamped'
      <3>1. Deleted({Tag(v)} \cap rows) \/ InsertRow(Tag(v))
        BY <2>5 DEF CreateManualInterest, DeleteManualInterest
      <3> QED BY <2>2, <2>3, <3>1
    <2>6. CASE SpotifyDisconnect
      <3>1. Deleted({r \in rows : r.kind \in DerivedKinds})
        BY <2>6 DEF SpotifyDisconnect
      <3> QED BY <2>2, <3>1
    <2>7. CASE UNCHANGED <<rows, newer, missed>>
      BY <2>1, <2>7 DEF Stamped
    <2> QED BY <1>2, <2>4, <2>5, <2>6, <2>7, RowsFrame DEF RowsWrite
  <1> QED BY <1>1, <1>2

\* The run of p itself, from its embedder to its last query.
LEMMA OwnEmbedding ==
    ASSUME Typed, Stamped, NEW p \in Procs \ {Rescore}, p \in alone => Embedded(p),
           p \in alone', OwnStep(p)
    PROVE  Embedded(p)'
  <1> USE DEF Typed
  <1>1. CASE p \in Workers /\ HandlerStep(p)
    <2>1. stage'[p] \in {"idle", "replace", "embed"}
      BY <1>1 DEF HandlerStep, Begin, replaceInterests, Acknowledge, HandleFails, Goto, QueueType
    <2> QED BY <2>1 DEF Embedded
  <1>2. CASE p = Job /\ JobStep
    <2>1. CASE JobSelectsUsers
      <3>1. /\ stage'[p] = IF NeedsEmbedding THEN "embed" ELSE "user"
            /\ UNCHANGED <<rows, embedding, missed>>
        BY <1>2, <2>1 DEF JobSelectsUsers, Step, Goto, QueueType, mvars, matcherAlone, rowsAlone
      <3>2. ~NeedsEmbedding => missed \/ embedding = Text(rows)
        BY DEF NeedsEmbedding, Stamped
      <3> QED BY <1>2, <3>1, <3>2 DEF Embedded
    <2>2. CASE ~JobSelectsUsers
      <3>1. stage'[p] \in {"idle", "events"}
        BY <1>2, <2>2 DEF JobStep, JobStarts, JobArchives, JobEmbedsEvent, Step, Goto, QueueType
      <3> QED BY <3>1 DEF Embedded
    <2> QED BY <2>1, <2>2
  <1>3. CASE MatcherFails(p)
    BY <1>3 DEF MatcherFails, Goto, QueueType, Embedded
  <1>4. CASE EmbedReads(p)
    <2>1. /\ stage'[p] = IF Text(rows) = {} THEN "user" ELSE "embedding"
          /\ UNCHANGED <<rows, embedding, missed>>
      BY <1>4 DEF EmbedReads, Step, Goto, QueueType, matcherAlone, rowsAlone
    <2>2. Text(rows) # {} => run'[p].emb = Text(rows)
      BY <1>4 DEF EmbedReads, RunType, Holding
    <2> QED BY <2>1, <2>2 DEF Embedded
  <1>5. CASE EmbedWrites(p)
    <2>1. /\ p \in alone /\ stage[p] = "embedding" /\ stage'[p] = "user"
          /\ embedding' = run[p].emb /\ rows' = rows
      BY <1>5 DEF EmbedWrites, Wrote, Step, Goto, QueueType
    <2> QED BY <2>1 DEF Embedded
  <1>6. CASE RunStep(p) /\ ~EmbedReads(p) /\ ~EmbedWrites(p)
    <2>1. /\ p \in alone /\ UNCHANGED <<rows, embedding, missed>>
          /\ stage[p] \in {"user", "candidates", "upsert", "obsolete"}
          /\ stage'[p] \in {"candidates", "upsert", "obsolete", "matched"}
      BY <1>6 DEF RunStep, LoadUser, LoadEvents, UpsertUserEventMatch, DeleteStaleMatches,
                  DeleteObsoleteMatches, Wrote, Step, Goto, QueueType, matcherAlone, rowsAlone
    <2> QED BY <2>1 DEF Embedded
  <1> QED BY <1>1, <1>2, <1>3, <1>4, <1>5, <1>6 DEF OwnStep

LEMMA InitEmbedding == Init => EmbeddingInv
  BY DEF Init, IInit, EmbeddingInv, Stamped

LEMMA NextEmbedding ==
    ASSUME Typed, EmbeddingInv, [Next]_vars PROVE EmbeddingInv'
  <1>1. CASE UNCHANGED vars
    BY <1>1 DEF EmbeddingInv, Stamped, Embedded, vars, ivars, mvars
  <1>2. CASE Next
    <2>1. Stamped'
      BY <1>2, StampedStays DEF EmbeddingInv
    <2>2. ASSUME NEW p \in alone' \ {Rescore} PROVE Embedded(p)'
      <3>1. p \in Procs
        BY FlagsTyped DEF FlagsType
      <3>2. p \in alone => Embedded(p)
        BY DEF EmbeddingInv
      <3>3. CASE OwnStep(p)
        BY <3>1, <3>2, <3>3, OwnEmbedding DEF EmbeddingInv
      <3>4. CASE ~OwnStep(p)
        <4>1. /\ p \in alone
              /\ UNCHANGED <<rows, missed, embedding>>
              /\ stage'[p] = stage[p]
              /\ stage[p] # "idle" => run'[p] = run[p]
          BY <1>2, <3>1, <3>4, OthersStep DEF Shared
        <4> QED BY <3>2, <4>1 DEF Embedded
      <3> QED BY <3>3, <3>4
    <2> QED BY <2>1, <2>2 DEF EmbeddingInv
  <1> QED BY <1>1, <1>2

\* A message or a job that ran beside no other writer leaves the embedding of
\* the rows there are; the stamp by which users are selected never hides a
\* change from a message, and from the job only a deletion or a change during
\* an embedder call.
THEOREM EmbeddingFollows == Spec => []EmbeddingCurrent
  <1>1. Spec => []EmbeddingInv
    BY AlwaysTyped, InitEmbedding, NextEmbedding, PTL DEF Spec
  <1>2. Typed /\ EmbeddingInv => EmbeddingCurrent
    BY DEF EmbeddingInv, Embedded, EmbeddingCurrent, Matched
  <1> QED BY <1>1, <1>2, AlwaysTyped, PTL
-----------------------------------------------------------------------------
(* The matches.                                                            *)

LEMMA CurrentType ==
    ASSUME Typed
    PROVE  /\ Current \subseteq Candidate
           /\ \A c \in Current : /\ c.event \in Events /\ Upcoming(c.event)
                                 /\ c.score \in Nat \ {0}
                                 /\ c = [event |-> c.event, score |-> c.score]
           /\ \A c, d \in Current : c.event = d.event => c = d
  <1>1. threshold \in 200..600
    BY MatcherAssumption DEF Typed, MatchType, MatcherAssumption, Config
  <1>2. rows \subseteq Row /\ IsFiniteSet(rows)
    BY DEF Typed, RowsType
  <1>3. /\ Current \subseteq Candidate
        /\ \A c \in Current : c.score > threshold /\ Upcoming(c.event)
        /\ \A c, d \in Current : c.event = d.event => c = d
    BY <1>2, CandidatesType DEF Current
  <1> QED BY <1>1, <1>3 DEF Candidate, Scores

LEMMA CurrentSame ==
    ASSUME UNCHANGED <<rows, embedding, threshold, life, embedded>> PROVE Current' = Current
  BY DEF Current, Candidates, Upcoming

LEMMA LoadEventsLone ==
    ASSUME Typed, NEW p \in Procs, Lone(p), LoadEvents(p) PROVE Writing(p)'
  <1> USE DEF Typed
  <1>1. run[p].emb = embedding /\ run[p].thr = threshold /\ run[p].rows = rows
    BY DEF LoadEvents, Step, Lone
  <1>2. Current' = Current /\ match' = match
    BY CurrentSame DEF LoadEvents, matcherAlone, rowsAlone
  <1>3. run'[p] = [NoRun EXCEPT !.at = clock + 1, !.todo = Current]
    BY <1>1 DEF LoadEvents, RunType, Current
  <1>4. run'[p].at = clock + 1 /\ run'[p].todo = Current
    BY <1>3 DEF NoRun
  <1>5. \A e \in Events : match[e].at < clock + 1
    BY DEF MatchType
  <1> QED BY <1>2, <1>4, <1>5 DEF Writing

LEMMA UpsertLone ==
    ASSUME Typed, NEW p \in Procs, Writing(p), UpsertUserEventMatch(p) PROVE Writing(p)'
  <1> USE DEF Typed
  <1>1. PICK c \in run[p].todo : /\ match' = [match EXCEPT ![c.event] = [score |-> c.score, at |-> run[p].at]]
                                 /\ run' = [run EXCEPT ![p].todo = @ \ {c}]
    BY DEF UpsertUserEventMatch, Upserted
  <1>2. Current' = Current
    BY CurrentSame DEF UpsertUserEventMatch, matcherAlone, rowsAlone
  <1>3. run'[p].todo = run[p].todo \ {c} /\ run'[p].at = run[p].at
    BY <1>1 DEF RunType, Holding
  <1>4. c \in Current /\ run[p].todo \subseteq Current
    BY DEF Writing
  <1>5. c.event \in Events /\ \A d \in Current : d.event \in Events /\ (d.event = c.event => d = c)
    BY <1>4, CurrentType
  <1>6. \A e \in Events : match'[e] = IF e = c.event THEN [score |-> c.score, at |-> run[p].at] ELSE match[e]
    BY <1>1, <1>5 DEF MatchType
  <1>7. Current \ run'[p].todo = (Current \ run[p].todo) \cup {c}
    BY <1>3, <1>4
  <1>8. ASSUME NEW d \in Current \ run'[p].todo
        PROVE  match'[d.event] = [score |-> d.score, at |-> run[p].at]
    <2>1. CASE d = c
      BY <1>5, <1>6, <2>1
    <2>2. CASE d # c
      <3>1. d \in Current \ run[p].todo /\ d.event # c.event /\ d.event \in Events
        BY <1>5, <1>7, <2>2
      <3> QED BY <1>6, <3>1 DEF Writing
    <2> QED BY <2>1, <2>2
  <1>9. ASSUME NEW e \in Events, \A d \in Current \ run'[p].todo : d.event # e
        PROVE  match'[e].at < run[p].at
    <2>1. e # c.event /\ \A d \in Current \ run[p].todo : d.event # e
      BY <1>7, <1>9
    <2> QED BY <1>6, <2>1 DEF Writing
  <1> QED BY <1>2, <1>3, <1>4, <1>8, <1>9 DEF Writing

LEMMA StaleLone ==
    ASSUME Typed, NEW p \in Procs, Writing(p), DeleteStaleMatches(p) PROVE Settled'
  <1> USE DEF Typed
  <1> DEFINE last == \A q \in Procs \ {p} : run[q].at = 0
  <1>1. /\ run[p].todo = {}
        /\ match' = [e \in Events |-> IF ~(match[e].at >= run[p].at) THEN NoMatch
                                      ELSE IF last THEN [match[e] EXCEPT !.at = 0] ELSE match[e]]
    BY DEF DeleteStaleMatches
  <1> HIDE DEF last
  <1>2. Current' = Current
    BY CurrentSame DEF DeleteStaleMatches, matcherAlone, rowsAlone
  <1>3. run[p].at \in Nat
    BY DEF RunType, Holding
  <1>4. ASSUME NEW c \in Current
        PROVE  c.event \in Events /\ match'[c.event].score = c.score /\ match'[c.event] # NoMatch
    <2>1. match[c.event] = [score |-> c.score, at |-> run[p].at]
      BY <1>1 DEF Writing
    <2>2. c.event \in Events /\ c.score \in Nat \ {0}
      BY CurrentType
    <2>3. match'[c.event] = IF last THEN [match[c.event] EXCEPT !.at = 0] ELSE match[c.event]
      BY <1>1, <1>3, <2>1, <2>2
    <2>4. match'[c.event].score = c.score
      BY <2>1, <2>3
    <2> QED BY <2>2, <2>4 DEF NoMatch
  <1>5. ASSUME NEW e \in Events, \A c \in Current : c.event # e PROVE match'[e] = NoMatch
    <2>1. match[e].at < run[p].at
      BY <1>1, <1>5 DEF Writing
    <2>2. match[e].at \in Nat
      BY DEF MatchType
    <2> QED BY <1>1, <1>3, <2>1, <2>2
  <1> QED BY <1>2, <1>4, <1>5 DEF Settled

LEMMA ObsoleteLone ==
    ASSUME Typed, NEW p \in Procs, Settled, DeleteObsoleteMatches(p) PROVE Settled'
  <1> USE DEF Typed
  <1>1. match' = [e \in Events |-> IF Upcoming(e) THEN match[e] ELSE NoMatch]
    BY DEF DeleteObsoleteMatches
  <1>2. Current' = Current
    BY CurrentSame DEF DeleteObsoleteMatches, matcherAlone, rowsAlone
  <1>3. \A c \in Current : c.event \in Events /\ Upcoming(c.event)
    BY CurrentType
  <1> HIDE DEF Upcoming, NoMatch, Current
  <1> QED BY <1>1, <1>2, <1>3 DEF Settled

LEMMA OwnMatches ==
    ASSUME Typed, NEW p \in Procs, p \in alone => Lone(p), p \in alone', OwnStep(p)
    PROVE  Lone(p)'
  <1> USE DEF Typed
  <1>1. CASE \/ p \in Workers /\ HandlerStep(p)
             \/ p = Job /\ JobStep
             \/ p = Rescore /\ RescoreStep
             \/ EmbedReads(p) \/ EmbedWrites(p) \/ MatcherFails(p)
    <2>1. p \in Workers /\ HandlerStep(p) => stage'[p] \in {"idle", "replace", "embed"}
      BY DEF HandlerStep, Begin, replaceInterests, Acknowledge, HandleFails, Goto, QueueType
    <2>2. p = Job /\ JobStep => stage'[p] \in {"idle", "events", "embed", "user"}
      BY DEF JobStep, JobStarts, JobSelectsUsers, JobArchives, JobEmbedsEvent, Step, Goto, QueueType
    <2>3. p = Rescore /\ RescoreStep => stage'[p] \in {"idle", "user"}
      BY DEF RescoreStep, RescoreEnds, UpdateMatchThreshold, Step, Goto, QueueType
    <2>4. EmbedReads(p) \/ EmbedWrites(p) \/ MatcherFails(p) => stage'[p] \in {"idle", "user", "embedding"}
      BY DEF EmbedReads, EmbedWrites, MatcherFails, Step, Goto, QueueType
    <2> QED BY <1>1, <2>1, <2>2, <2>3, <2>4 DEF Lone
  <1>2. CASE LoadUser(p)
    <2>1. stage'[p] = "candidates" /\ UNCHANGED <<rows, embedding, threshold>>
      BY <1>2 DEF LoadUser, Step, Goto, QueueType, matcherAlone, rowsAlone
    <2>2. run'[p].emb = embedding /\ run'[p].thr = threshold /\ run'[p].rows = rows
      BY <1>2 DEF LoadUser, RunType, Holding
    <2> QED BY <2>1, <2>2 DEF Lone
  <1>3. CASE LoadEvents(p)
    <2>1. p \in alone /\ stage'[p] = "upsert"
      BY <1>3 DEF LoadEvents, Step, Goto, QueueType
    <2> QED BY <1>3, <2>1, LoadEventsLone DEF Lone
  <1>4. CASE UpsertUserEventMatch(p)
    <2>1. p \in alone /\ stage[p] = "upsert" /\ stage'[p] = "upsert"
      BY <1>4 DEF UpsertUserEventMatch, Wrote
    <2> QED BY <1>4, <2>1, UpsertLone DEF Lone
  <1>5. CASE DeleteStaleMatches(p)
    <2>1. p \in alone /\ stage[p] = "upsert" /\ stage'[p] = "obsolete"
      BY <1>5 DEF DeleteStaleMatches, Wrote, Step, Goto, QueueType
    <2> QED BY <1>5, <2>1, StaleLone DEF Lone
  <1>6. CASE DeleteObsoleteMatches(p)
    <2>1. p \in alone /\ stage[p] = "obsolete" /\ stage'[p] = "matched"
      BY <1>6 DEF DeleteObsoleteMatches, Wrote, Step, Goto, QueueType
    <2> QED BY <1>6, <2>1, ObsoleteLone DEF Lone
  <1> QED BY <1>1, <1>2, <1>3, <1>4, <1>5, <1>6 DEF OwnStep, RunStep

LEMMA InitMatches == Init => MatchInv
  BY DEF Init, IInit, MatchInv

LEMMA NextMatches ==
    ASSUME Typed, MatchInv, [Next]_vars PROVE MatchInv'
  <1>1. CASE UNCHANGED vars
    <2>1. Current' = Current /\ UNCHANGED <<alone, stage, run, rows, embedding, threshold, match>>
      BY <1>1, CurrentSame DEF vars, ivars, mvars
    <2> QED BY <2>1 DEF MatchInv, Lone, Writing, Settled
  <1>2. CASE Next
    <2>1. ASSUME NEW p \in alone' PROVE Lone(p)'
      <3>1. p \in Procs
        BY FlagsTyped DEF FlagsType
      <3>2. p \in alone => Lone(p)
        BY DEF MatchInv
      <3>3. CASE OwnStep(p)
        BY <3>1, <3>2, <3>3, OwnMatches
      <3>4. CASE ~OwnStep(p)
        <4>1. /\ p \in alone
              /\ UNCHANGED <<rows, embedding, threshold, life, embedded, match>>
              /\ stage'[p] = stage[p]
              /\ stage[p] # "idle" => run'[p] = run[p]
          BY <1>2, <3>1, <3>4, OthersStep DEF Shared
        <4>2. Current' = Current
          BY <4>1, CurrentSame
        <4> QED BY <3>2, <4>1, <4>2 DEF Lone, Writing, Settled
      <3> QED BY <3>3, <3>4
    <2> QED BY <2>1 DEF MatchInv
  <1> QED BY <1>1, <1>2

\* A match run that nothing overlaps and that fails nowhere ends with exactly
\* the candidates there are: what it prunes by the time it took is only what
\* it did not write itself, and it leaves no match of an event that is over.
THEOREM LoneRunSettles == Spec => []LoneRunMatches
  <1>1. Spec => []MatchInv
    BY AlwaysTyped, InitMatches, NextMatches, PTL DEF Spec
  <1>2. ASSUME Typed, MatchInv PROVE LoneRunMatches
    <2>1. ASSUME NEW p \in Procs, Matched(p)
          PROVE  {[event |-> e, score |-> match[e].score] : e \in {f \in Events : match[f] # NoMatch}} = Current
      <3>1. Settled
        BY <1>2, <2>1 DEF Matched, MatchInv, Lone
      <3>2. \A c \in Current : c.event \in Events /\ c = [event |-> c.event, score |-> c.score]
        BY <1>2, CurrentType
      <3> HIDE DEF Current, NoMatch
      <3>3. ASSUME NEW c \in Current
            PROVE  match[c.event] # NoMatch /\ c = [event |-> c.event, score |-> match[c.event].score]
        BY <3>1, <3>2 DEF Settled
      <3>4. ASSUME NEW e \in Events, match[e] # NoMatch PROVE [event |-> e, score |-> match[e].score] \in Current
        <4>1. PICK c \in Current : c.event = e
          BY <3>1, <3>4 DEF Settled
        <4> QED BY <3>3, <4>1
      <3> QED BY <3>2, <3>3, <3>4
    <2> QED BY <2>1 DEF LoneRunMatches, Current
  <1> QED BY <1>1, <1>2, AlwaysTyped, PTL
-----------------------------------------------------------------------------
(* The replacement of the rows.                                            *)

LEMMA InitReplace == Init => ReplaceInv
  BY DEF Init, IInit, ReplaceInv

\* One more name: its row replaces one of the same name.
LEMMA OneMoreRow ==
    ASSUME NEW p \in Sent, NEW k \in SpotifyKind, NEW r \in 1..Len(p[k])
    PROVE  FirstRows(p, k, r) = {x \in FirstRows(p, k, r - 1) : x.value # p[k][r]} \cup {RowFor(p, k, r)}
  <1> DEFINE lasts(n) == {q \in 1..n : \A o \in 1..n : p[k][o] = p[k][q] => o <= q}
  <1>1. r \in Nat \ {0} /\ r - 1 \in Nat
    BY SentLists, LenProperties
  <1>2. lasts(r) = {q \in lasts(r - 1) : p[k][q] # p[k][r]} \cup {r}
    BY <1>1
  <1>3. \A n : FirstRows(p, k, n) = {RowFor(p, k, q) : q \in lasts(n)}
    BY DEF FirstRows
  <1> HIDE DEF lasts
  <1>4. \A q : RowFor(p, k, q).value = p[k][q]
    BY DEF RowFor
  <1> HIDE DEF RowFor
  <1> QED BY <1>2, <1>3, <1>4

LEMMA Blocks ==
    ASSUME NEW p \in Sent, NEW i \in 1..4, NEW j \in 1..4, i < j
    PROVE  DeleteAt(p, i) + Len(p[SpotifyKinds[i]]) < DeleteAt(p, j)
  <1> DEFINE n1 == Len(p[SpotifyKinds[1]])
             n2 == Len(p[SpotifyKinds[2]])
             n3 == Len(p[SpotifyKinds[3]])
             d1 == DeleteAt(p, 1)
             d2 == DeleteAt(p, 2)
             d3 == DeleteAt(p, 3)
             d4 == DeleteAt(p, 4)
  <1>1. /\ n1 \in Nat /\ n2 \in Nat /\ n3 \in Nat /\ d1 \in Nat
        /\ d2 = d1 + n1 + 1 /\ d3 = d2 + n2 + 1 /\ d4 = d3 + n3 + 1
    BY DeleteAtIs
  <1> HIDE DEF n1, n2, n3, d1, d2, d3, d4
  <1>2. d1 + n1 < d2 /\ d1 + n1 < d3 /\ d1 + n1 < d4 /\ d2 + n2 < d3 /\ d2 + n2 < d4 /\ d3 + n3 < d4
    BY <1>1
  <1>3. CASE i = 1
    <2>1. j = 2 \/ j = 3 \/ j = 4
      BY <1>3
    <2> QED BY <1>2, <1>3, <2>1 DEF n1, d1, d2, d3, d4
  <1>4. CASE i = 2
    <2>1. j = 3 \/ j = 4
      BY <1>4
    <2> QED BY <1>2, <1>4, <2>1 DEF n2, d2, d3, d4
  <1>5. CASE i = 3
    <2>1. j = 4
      BY <1>5
    <2> QED BY <1>2, <1>5, <2>1 DEF n3, d3, d4
  <1> QED BY <1>3, <1>4, <1>5

\* Which statement the next one is.
LEMMA NextStatement ==
    ASSUME NEW p \in Sent, NEW n \in Nat, n < Len(Statements(p))
    PROVE  \E i \in 1..4, r \in Nat :
               /\ r <= Len(p[SpotifyKinds[i]]) /\ DeleteAt(p, i) + r = n + 1
               /\ Statements(p)[n + 1] =
                      IF r = 0 THEN [op |-> "delete", kind |-> SpotifyKinds[i]]
                      ELSE [op |-> "insert", kind |-> SpotifyKinds[i], value |-> p[SpotifyKinds[i]][r], rank |-> r]
  <1> DEFINE s == Statements(p)
             m == Len(s)
  <1>1. m \in Nat /\ n < m
    BY StatementsShape, LenProperties
  <1>2. n + 1 \in 1..m
    <2> HIDE DEF m
    <2> QED BY <1>1
  <1>3. PICK i \in 1..4 : n + 1 >= DeleteAt(p, i) /\ n + 1 <= DeleteAt(p, i) + Len(p[SpotifyKinds[i]])
    BY <1>2, StatementsShape
  <1> DEFINE k == SpotifyKinds[i]
             d == DeleteAt(p, i)
             l == Len(p[k])
             r == n + 1 - d
  <1>4. /\ l \in Nat /\ d \in Nat \ {0}
        /\ s[d] = [op |-> "delete", kind |-> k]
        /\ \A q \in 1..l : s[d + q] = [op |-> "insert", kind |-> k, value |-> p[k][q], rank |-> q]
    BY StatementsShape
  <1>5. n + 1 >= d /\ n + 1 <= d + l
    BY <1>3
  <1> HIDE DEF d, l, k, s
  <1>6. r \in Nat /\ r <= l /\ d + r = n + 1
    BY <1>4, <1>5
  <1> HIDE DEF r
  <1>7. s[n + 1] = IF r = 0 THEN [op |-> "delete", kind |-> k]
                   ELSE [op |-> "insert", kind |-> k, value |-> p[k][r], rank |-> r]
    <2>1. CASE r = 0
      <3>1. n + 1 = d
        BY <1>4, <1>6, <2>1
      <3> QED BY <1>4, <2>1, <3>1
    <2>2. CASE r # 0
      <3>1. r \in 1..l
        BY <1>4, <1>6, <2>2
      <3>2. s[d + r] = [op |-> "insert", kind |-> k, value |-> p[k][r], rank |-> r]
        BY <1>4, <3>1
      <3> QED BY <1>6, <2>2, <3>2
    <2> QED BY <2>1, <2>2
  <1> QED BY <1>6, <1>7 DEF d, l, k, s

LEMMA OneStatement ==
    ASSUME NEW p \in Sent, NEW rs, rs \subseteq Row, NEW n \in Nat, n < Len(Statements(p)),
           Replaced(rs, p, n), NEW ss, NEW s, s = Statements(p)[n + 1],
           s.op = "delete" => ss = rs \ Of(rs, s.kind),
           s.op # "delete" => ss = (rs \ {r \in rs : r.kind = s.kind /\ r.value = s.value}) \cup {RowOf(s)}
    PROVE  Replaced(ss, p, n + 1)
  <1> DEFINE m == n + 1
  <1>0. m = n + 1
    OBVIOUS
  <1> HIDE DEF m
  <1>1. PICK i \in 1..4, r \in Nat :
            /\ r <= Len(p[SpotifyKinds[i]]) /\ DeleteAt(p, i) + r = n + 1
            /\ s = IF r = 0 THEN [op |-> "delete", kind |-> SpotifyKinds[i]]
                   ELSE [op |-> "insert", kind |-> SpotifyKinds[i], value |-> p[SpotifyKinds[i]][r], rank |-> r]
    BY NextStatement
  <1> DEFINE k == SpotifyKinds[i]
             d == DeleteAt(p, i)
             l == Len(p[k])
  <1>2. l \in Nat /\ d \in Nat \ {0} /\ k \in SpotifyKind
    BY DeleteAtIs, KindAt
  <1>3. r <= l /\ d + r = n + 1
    BY <1>1
  <1>4. /\ r = 0 => s = [op |-> "delete", kind |-> k]
        /\ r # 0 => s = [op |-> "insert", kind |-> k, value |-> p[k][r], rank |-> r]
    BY <1>1
  <1>5. Replaced(rs, p, n)
    OBVIOUS
  <1>6. d <= n => Of(rs, k) = FirstRows(p, k, Smaller(n - d, l))
    BY <1>5 DEF Replaced
  <1> HIDE DEF k, d, l
  <1>7. s.kind = k /\ (s.op = "delete" <=> r = 0)
    BY <1>4
  <1>8. r # 0 => RowOf(s) = RowFor(p, k, r) /\ RowOf(s).kind = k /\ s.value = p[k][r]
    BY <1>4 DEF RowOf, RowFor
  <1>9. Of(ss, k) = FirstRows(p, k, Smaller(m - d, l))
    <2>1. CASE r = 0
      <3>1. Of(ss, k) = {}
        BY <1>7, <2>1 DEF Of
      <3>2. Smaller(m - d, l) = 0
        BY <1>0, <1>2, <1>3, <2>1 DEF Smaller
      <3>3. FirstRows(p, k, 0) = {}
        BY DEF FirstRows
      <3> QED BY <3>1, <3>2, <3>3
    <2>2. CASE r # 0
      <3>1. r \in 1..l /\ d <= n /\ n - d = r - 1 /\ m - d = r /\ r - 1 <= l
        BY <1>0, <1>2, <1>3, <2>2
      <3>2. Smaller(m - d, l) = r /\ Smaller(n - d, l) = r - 1
        BY <1>0, <1>2, <3>1 DEF Smaller
      <3>3. Of(rs, k) = FirstRows(p, k, r - 1)
        BY <1>6, <3>1, <3>2
      <3>4. ss = (rs \ {x \in rs : x.kind = k /\ x.value = p[k][r]}) \cup {RowFor(p, k, r)}
        BY <1>7, <1>8, <2>2
      <3>5. RowFor(p, k, r).kind = k
        BY DEF RowFor
      <3>6. Of(ss, k) = {x \in Of(rs, k) : x.value # p[k][r]} \cup {RowFor(p, k, r)}
        <4> DEFINE new == RowFor(p, k, r)
                   v == p[k][r]
        <4>1. ss = (rs \ {x \in rs : x.kind = k /\ x.value = v}) \cup {new} /\ new.kind = k
          BY <3>4, <3>5
        <4> HIDE DEF new, v
        <4>2. Of(ss, k) = {x \in Of(rs, k) : x.value # v} \cup {new}
          BY <4>1 DEF Of
        <4> QED BY <4>2 DEF new, v
      <3>7. r \in 1..Len(p[k])
        BY <3>1 DEF l
      <3>8. FirstRows(p, k, r) = {x \in FirstRows(p, k, r - 1) : x.value # p[k][r]} \cup {RowFor(p, k, r)}
        BY <1>2, <3>7, OneMoreRow
      <3> QED BY <3>2, <3>3, <3>6, <3>8
    <2> QED BY <2>1, <2>2
  <1>10. ASSUME NEW j \in 1..4, DeleteAt(p, j) <= m, j # i
         PROVE  Of(ss, SpotifyKinds[j]) =
                    FirstRows(p, SpotifyKinds[j], Smaller(m - DeleteAt(p, j), Len(p[SpotifyKinds[j]])))
    <2> DEFINE kj == SpotifyKinds[j]
               dj == DeleteAt(p, j)
               lj == Len(p[kj])
    <2>1. lj \in Nat /\ dj \in Nat \ {0} /\ kj # k
      BY <1>10, DeleteAtIs, KindAt DEF k
    <2>2. i < j => d + l < dj
      BY Blocks DEF d, l, k
    <2>3. j < i => dj + lj < d
      BY Blocks DEF d
    <2>4. dj <= m
      BY <1>10
    <2>5. dj <= n => Of(rs, kj) = FirstRows(p, kj, Smaller(n - dj, lj))
      BY <1>5 DEF Replaced
    <2> HIDE DEF kj, dj, lj
    <2>6. j < i
      BY <1>0, <1>2, <1>3, <1>10, <2>1, <2>2, <2>4
    <2>7. dj + lj <= n
      BY <1>0, <1>2, <1>3, <2>1, <2>3, <2>6
    <2>8. dj <= n /\ Smaller(m - dj, lj) = lj /\ Smaller(n - dj, lj) = lj
      BY <1>0, <2>1, <2>7 DEF Smaller
    <2>9. Of(ss, kj) = Of(rs, kj)
      <3>1. CASE r = 0
        BY <1>7, <2>1, <3>1 DEF Of
      <3>2. CASE r # 0
        BY <1>7, <1>8, <2>1, <3>2 DEF Of
      <3> QED BY <3>1, <3>2
    <2>10. Of(ss, kj) = FirstRows(p, kj, Smaller(m - dj, lj))
      BY <2>5, <2>8, <2>9
    <2> QED BY <2>10 DEF kj, dj, lj
  <1>11. Of(ss, SpotifyKinds[i]) =
             FirstRows(p, SpotifyKinds[i], Smaller(m - DeleteAt(p, i), Len(p[SpotifyKinds[i]])))
    BY <1>9 DEF k, d, l
  <1>12. ASSUME NEW j \in 1..4, DeleteAt(p, j) <= m
         PROVE  Of(ss, SpotifyKinds[j]) =
                    FirstRows(p, SpotifyKinds[j], Smaller(m - DeleteAt(p, j), Len(p[SpotifyKinds[j]])))
    <2>1. CASE j = i
      BY <1>11, <2>1
    <2>2. CASE j # i
      BY <1>10, <1>12, <2>2
    <2> QED BY <2>1, <2>2
  <1>13. \A j \in 1..4 : DeleteAt(p, j) <= m =>
             Of(ss, SpotifyKinds[j]) =
                 FirstRows(p, SpotifyKinds[j], Smaller(m - DeleteAt(p, j), Len(p[SpotifyKinds[j]])))
    BY <1>12
  <1>14. Replaced(ss, p, m)
    BY <1>13 DEF Replaced
  <1> QED BY <1>14 DEF m

\* After the last statement the kinds together are the rows of the message.
LEMMA AllReplaced ==
    ASSUME NEW p \in Sent, NEW rs, rs \subseteq Row, Replaced(rs, p, Len(Statements(p)))
    PROVE  Spotify(rs) = RowsOf(p)
  <1>1. ASSUME NEW i \in 1..4
        PROVE  Of(rs, SpotifyKinds[i]) = FirstRows(p, SpotifyKinds[i], Len(p[SpotifyKinds[i]]))
    <2> DEFINE l == Len(p[SpotifyKinds[i]])
    <2>1. /\ l \in Nat /\ DeleteAt(p, i) \in Nat /\ Len(Statements(p)) \in Nat
          /\ DeleteAt(p, i) + l <= Len(Statements(p))
      BY StatementsShape, LenProperties
    <2>2. DeleteAt(p, i) <= Len(Statements(p)) /\ Smaller(Len(Statements(p)) - DeleteAt(p, i), l) = l
      BY <2>1 DEF Smaller
    <2> QED BY <2>2 DEF Replaced
  <1>2. \A k \in SpotifyKind : Of(rs, k) = FirstRows(p, k, Len(p[k]))
    <2>1. \A k \in SpotifyKind : \E i \in 1..4 : k = SpotifyKinds[i]
      BY KindsAre
    <2> QED BY <1>1, <2>1
  <1>3. Spotify(rs) = UNION {Of(rs, k) : k \in SpotifyKind}
    BY DEF Spotify, Of, SpotifyKind, Row
  <1> QED BY <1>2, <1>3, RowsOfKinds

LEMMA BeginRepairing ==
    ASSUME Typed, NEW w \in Workers, NEW m \in Msgs, Begin(w, m) PROVE Repairing(w)'
  <1> USE DEF Typed
  <1>1. /\ active' = [active EXCEPT ![w] = m] /\ body' = body /\ body[m] # None
        /\ plan' = [plan EXCEPT ![w] = IF body[m] = OnlyEmbed THEN <<>> ELSE Statements(body[m])]
        /\ stage' = [stage EXCEPT ![w] = IF body[m] = OnlyEmbed THEN "embed" ELSE "replace"]
    BY DEF Begin, Goto, CanBegin
  <1>2. active'[w] = m /\ stage'[w] = IF body[m] = OnlyEmbed THEN "embed" ELSE "replace"
    BY <1>1 DEF QueueType, Procs
  <1>3. CASE body[m] = OnlyEmbed
    BY <1>1, <1>2, <1>3 DEF Repairing
  <1>4. CASE body[m] # OnlyEmbed
    <2>1. body[m] \in Sent
      BY <1>1, <1>4 DEF QueueType
    <2>2. Len(Statements(body[m])) \in Nat /\ \A i \in 1..4 : DeleteAt(body[m], i) \in Nat \ {0}
      BY <2>1, StatementsShape, LenProperties
    <2>3. plan'[w] = Statements(body'[active'[w]]) /\ body'[active'[w]] = body[m] /\ stage'[w] = "replace"
      BY <1>1, <1>2, <1>4 DEF QueueType
    <2>4. Done(w)' = 0
      BY <2>2, <2>3 DEF Done
    <2>5. Replaced(rows', body[m], 0)
      BY <2>2 DEF Replaced
    <2>6. \A j \in 1..Len(plan'[w]) : plan'[w][j] = Statements(body'[active'[w]])[0 + j]
      BY <2>2, <2>3
    <2> QED BY <2>3, <2>4, <2>5, <2>6 DEF Repairing
  <1> QED BY <1>3, <1>4

LEMMA StatementRepairing ==
    ASSUME Typed, [Next]_vars, NEW w \in Workers, Repairing(w), replaceInterests(w)
    PROVE  Repairing(w)'
  <1> USE DEF Typed
  <1> DEFINE p == body[active[w]]
             n == Done(w)
             s == Head(plan[w])
  <1>1. /\ stage[w] = "replace"
        /\ IF s.op = "delete" THEN Deleted(Of(rows, s.kind)) ELSE InsertRow(RowOf(s))
        /\ plan' = [plan EXCEPT ![w] = Tail(plan[w])]
        /\ IF Len(plan[w]) = 1 THEN stage' = [stage EXCEPT ![w] = "embed"] ELSE stage' = stage
        /\ body' = body /\ active' = active
    BY DEF replaceInterests, Goto, delivery
  <1>2. /\ p \in Sent
        /\ Len(plan[w]) \in Nat \ {0} /\ s = plan[w][1]
        /\ Len(Tail(plan[w])) = Len(plan[w]) - 1
        /\ \A j \in 1..Len(Tail(plan[w])) : Tail(plan[w])[j] = plan[w][j + 1]
    BY <1>1, HeadOfPlan
  <1>3. /\ n \in Nat /\ Replaced(rows, p, n)
        /\ \A j \in 1..Len(plan[w]) : plan[w][j] = Statements(p)[n + j]
    BY <1>1 DEF Repairing
  <1>4. Len(Statements(p)) \in Nat /\ n = Len(Statements(p)) - Len(plan[w])
    BY <1>2, StatementsShape, LenProperties DEF Done
  <1>5. s = Statements(p)[n + 1] /\ n < Len(Statements(p))
    <2>1. 1 \in 1..Len(plan[w])
      BY <1>2
    <2>2. s = Statements(p)[n + 1]
      BY <1>2, <1>3, <2>1
    <2> DEFINE x == Len(Statements(p))
               y == Len(plan[w])
    <2>3. x \in Nat /\ y \in Nat \ {0} /\ n = x - y
      BY <1>2, <1>4
    <2> HIDE DEF x, y, n
    <2>4. n < x
      BY <2>3
    <2> QED BY <2>2, <2>4 DEF x
  <1>6. plan'[w] = Tail(plan[w]) /\ body'[active'[w]] = p
    BY <1>1 DEF QueueType
  <1>7. Done(w)' = n + 1
    <2>1. Done(w)' = Len(Statements(p)) - Len(Tail(plan[w]))
      BY <1>6 DEF Done
    <2> DEFINE x == Len(Statements(p))
               y == Len(plan[w])
               z == Len(Tail(plan[w]))
    <2>2. x \in Nat /\ y \in Nat /\ n = x - y /\ z = y - 1 /\ Done(w)' = x - z
      BY <1>2, <1>4, <2>1
    <2> HIDE DEF x, y, z, n
    <2> QED BY <2>2
  <1>8. rows \subseteq Row /\ rows' \subseteq Row
    BY RowsTyped DEF RowsType
  <1>9. /\ s.op = "delete" => rows' = rows \ Of(rows, s.kind)
        /\ s.op # "delete" =>
               rows' = (rows \ {r \in rows : r.kind = s.kind /\ r.value = s.value}) \cup {RowOf(s)}
    <2>1. RowOf(s).kind = s.kind /\ RowOf(s).value = s.value
      BY DEF RowOf
    <2> QED BY <1>1, <2>1 DEF Deleted, InsertRow
  <1> HIDE DEF s, n, p
  <1>10. Replaced(rows', p, n + 1)
    BY <1>2, <1>3, <1>5, <1>8, <1>9, OneStatement
  <1>11. CASE Len(plan[w]) = 1
    <2>1. stage'[w] = "embed"
      BY <1>1, <1>11 DEF QueueType, Procs
    <2>2. n + 1 = Len(Statements(p))
      BY <1>3, <1>4, <1>11
    <2>3. Spotify(rows') = RowsOf(p)
      BY <1>2, <1>8, <1>10, <2>2, AllReplaced
    <2>4. Spotify(rows)' = RowsOf(body'[active'[w]])
      BY <1>6, <2>3 DEF Spotify
    <2> QED BY <2>1, <2>4 DEF Repairing
  <1>12. CASE Len(plan[w]) # 1
    <2>1. stage'[w] = "replace"
      BY <1>1, <1>12
    <2>2. ASSUME NEW j \in 1..Len(plan'[w]) PROVE plan'[w][j] = Statements(p)[n + 1 + j]
      <3>1. j + 1 \in 1..Len(plan[w]) /\ n + (j + 1) = n + 1 + j
        <4> DEFINE y == Len(plan[w])
                   z == Len(Tail(plan[w]))
        <4>1. j \in 1..z /\ y \in Nat /\ z = y - 1 /\ n \in Nat
          BY <1>2, <1>3, <1>6
        <4> HIDE DEF y, z
        <4>2. j + 1 \in 1..y /\ n + (j + 1) = n + 1 + j
          BY <4>1
        <4> QED BY <4>2 DEF y
      <3>2. plan'[w][j] = plan[w][j + 1]
        BY <1>2, <1>6
      <3>3. plan[w][j + 1] = Statements(p)[n + (j + 1)]
        BY <1>3, <3>1
      <3> QED BY <3>1, <3>2, <3>3
    <2>3. n + 1 \in Nat
      BY <1>3
    <2> QED BY <1>6, <1>7, <1>10, <2>1, <2>2, <2>3 DEF Repairing
  <1> QED BY <1>11, <1>12

LEMMA NextReplace ==
    ASSUME Typed, ReplaceInv, [Next]_vars PROVE ReplaceInv'
  <1> USE DEF Typed
  <1>1. CASE UNCHANGED vars
    BY <1>1 DEF ReplaceInv, Repairing, Done, vars, ivars
  <1>2. CASE Next
    <2>1. ASSUME NEW w \in Workers, w \in alone' PROVE Repairing(w)'
      <3>1. w \in Procs /\ w # Job /\ w # Rescore /\ w \notin Matchers
        BY ProcsAre, InterestsAssumption DEF InterestsAssumption
      <3>2. w \in alone => Repairing(w)
        BY DEF ReplaceInv
      <3>3. CASE HandlerStep(w)
        <4>1. ASSUME NEW m \in Msgs, Begin(w, m) PROVE Repairing(w)'
          BY <4>1, BeginRepairing
        <4>2. CASE replaceInterests(w)
          <5>1. w \in alone
            BY <2>1, <4>2 DEF replaceInterests, Wrote
          <5> QED BY <3>2, <4>2, <5>1, StatementRepairing
        <4>3. CASE Acknowledge(w) \/ HandleFails(w)
          <5>1. stage'[w] = "idle"
            BY <3>1, <4>3 DEF Acknowledge, HandleFails, Goto, QueueType
          <5> QED BY <5>1 DEF Repairing
        <4> QED BY <3>3, <4>1, <4>2, <4>3 DEF HandlerStep
      <3>4. CASE RunStep(w)
        <4>1. stage'[w] \notin {"replace", "embed"}
          BY <3>1, <3>4 DEF RunStep, EmbedReads, EmbedWrites, LoadUser, LoadEvents, UpsertUserEventMatch,
                            DeleteStaleMatches, DeleteObsoleteMatches, Step, Goto, QueueType
        <4> QED BY <4>1 DEF Repairing
      <3>5. ~MatcherFails(w)
        BY <3>1 DEF MatcherFails
      <3>6. CASE ~OwnStep(w)
        <4>1. /\ w \in alone /\ rows' = rows /\ stage'[w] = stage[w]
              /\ plan'[w] = plan[w] /\ active'[w] = active[w]
              /\ active[w] # None => body'[active[w]] = body[active[w]]
          BY <1>2, <2>1, <3>1, <3>6, OthersStep DEF Shared
        <4>2. stage[w] \in {"replace", "embed"} => body'[active'[w]] = body[active[w]]
          BY <4>1 DEF QueueType
        <4>3. stage[w] = "replace" => Done(w)' = Done(w)
          BY <4>1, <4>2 DEF Done
        <4> QED BY <3>2, <4>1, <4>2, <4>3 DEF Repairing
      <3> QED BY <3>1, <3>3, <3>4, <3>5, <3>6 DEF OwnStep
    <2> QED BY <2>1 DEF ReplaceInv
  <1> QED BY <1>1, <1>2

\* Whatever an earlier handler left half done, and however often the message
\* names an artist, a handler that runs beside no other writer ends with the
\* rows of its message.
THEOREM ReplaceRepairs == Spec => []LoneReplaceRepairs
  <1>1. Spec => []ReplaceInv
    BY AlwaysTyped, InitReplace, NextReplace, PTL DEF Spec
  <1>2. ReplaceInv => LoneReplaceRepairs
    BY DEF ReplaceInv, Repairing, LoneReplaceRepairs
  <1> QED BY <1>1, <1>2, PTL
=============================================================================
