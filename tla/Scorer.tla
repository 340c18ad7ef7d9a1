------------------------------- MODULE Scorer -------------------------------
(***************************************************************************)
(* internal/events RankWeight and internal/matcher scorer.go, fold.go: the *)
(* weight of an interest and the score of one user against one event, in   *)
(* thousandths.  An embedding is the set of values of the text it was      *)
(* computed from, NoEmbedding before that; two that share a value have     *)
(* cosine 1, others 0.                                                     *)
(***************************************************************************)
EXTENDS Integers, Sequences, FiniteSetsExt

CONSTANTS NoEmbedding, Performers, Genres   \* Performers[e], Genres[e]: of an event

SpotifyArtists == <<"spotify_top_artist", "spotify_top_track_artist", "spotify_saved_song_artist">>
SpotifyKinds == SpotifyArtists \o <<"spotify_top_genre">>
Kinds == {SpotifyKinds[i] : i \in 1..Len(SpotifyKinds)} \cup {"manual_tag"}

Config == [w_string |-> 600, w_embedding |-> 400, score_threshold |-> 300,
           artist_factor |-> 1000, genre_factor |-> 300, string_max |-> 3000]

Larger(a, b) == IF a > b THEN a ELSE b
Smaller(a, b) == IF a < b THEN a ELSE b

\* mutant: ranks counted from zero
RankWeightZero(rank) == Larger(600, 1000 - ((rank - 2) * 400) \div 49)

\* 1.0 at rank 1, down to 0.6 at rank 50 and after.
RankWeight(rank) == Larger(600, 1000 - ((rank - 1) * 400) \div 49)

\* 1.0 at rank 1, 0.02 less a rank, never under 0.1.
rankGenreWeight(rank) == Larger(100, 1000 - (rank - 1) * 20)

Of(rows, kind) == {r \in rows : r.kind = kind}

\* base, and what extra has under names base has not.
foldDeduped(base, extra) == base \cup {r \in extra : \A b \in base : b.value # r.value}

Artists(rows) == foldDeduped(foldDeduped(Of(rows, SpotifyArtists[1]), Of(rows, SpotifyArtists[2])),
                             Of(rows, SpotifyArtists[3]))

\* BuildUserText: what of the rows reaches the embedder.
Text(rows) == {r.value : r \in Artists(rows) \cup Of(rows, "spotify_top_genre") \cup Of(rows, "manual_tag")}

Total(rows) == MapThenSumSet(LAMBDA r : r.weight, rows)

StringScore(rows, e) ==
    LET artists == {r \in Artists(rows) : r.value \in Performers[e]}
        genres == {r \in Of(rows, "spotify_top_genre") \cup Of(rows, "manual_tag") : r.value \in Genres[e]}
        sum == Total(artists) * Config.artist_factor + Total(genres) * Config.genre_factor
    IN  Smaller(1000, sum \div Config.string_max)

EmbedScore(embedding, e, embedded) ==
    IF embedding = NoEmbedding \/ ~embedded THEN 0
    ELSE IF embedding \cap (Performers[e] \cup Genres[e]) # {} THEN 1000 ELSE 500

Score(rows, embedding, e, embedded) ==
    (Config.w_string * StringScore(rows, e)
     + Config.w_embedding * EmbedScore(embedding, e, embedded)) \div 1000
=============================================================================
