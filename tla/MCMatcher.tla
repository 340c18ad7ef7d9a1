----------------------------- MODULE MCMatcher -----------------------------
(* One user whose Spotify lists an artist twice, as two of the same name,  *)
(* a saved song of that artist and a genre; a tag that is that genre too;  *)
(* and an event with the artist.                                           *)
EXTENDS Matcher
CONSTANTS m1, w1, e1, s1, NeverEmbedded

Nothing == [k \in Kinds \ {"manual_tag"} |-> <<>>]
Scraped == {[Nothing EXCEPT !["spotify_top_artist"] = <<"artist", "artist">>,
                            !["spotify_saved_song_artist"] = <<"artist">>,
                            !["spotify_top_genre"] = <<"rock">>]}
Billed == [e \in Events |-> IF e = e1 THEN {"artist"} ELSE {}]
Filed == [e \in Events |-> IF e = e1 THEN {} ELSE {"rock"}]
Runs == {Job, Rescore}
=============================================================================
