----------------------------- MODULE ItdbExport -----------------------------
(***************************************************************************)
(* What itdb_write_file_internal() has prepared before it writes anything  *)
(* (FExport): the order of the tracks, and an id for every track, album,   *)
(* artist and composer.  The iTunesDB, the sqlite tables and the iTunesSD  *)
(* are made from it.                                                       *)
(***************************************************************************)
EXTENDS Integers, FiniteSets, Sequences, SequencesExt, ChapterData

CONSTANTS
  Track,   \* named by their dbid
  Collate  \* text -> its place among all texts (g_utf8_collate)

Null == "NULL"
Field == {"title", "album", "artist", "albumartist", "genre", "composer", "path"}
FIRST_IPOD_ID == 52

Mapped(Op(_), seq) == [i \in DOMAIN seq |-> Op(seq[i])]
Written(text) == text \notin {Null, ""}

(* prepare_itdb_for_write: the tracks of the master playlist come first.   *)
Prepared(d) ==
  LET front == d.lists[1].members
      first == SelectSeq([i \in DOMAIN front |-> <<i, front[i]>>],
                         LAMBDA m : \A j \in 1 .. m[1] - 1 : front[j] # m[2])
  IN [i \in DOMAIN first |-> first[i][2]]
       \o SelectSeq(d.tracks, LAMBDA t : \A i \in DOMAIN front : front[i] # t)

PlaceIn(order, t) == CHOOSE i \in DOMAIN order : order[i] = t
IdOf(t, order) == FIRST_IPOD_ID - 1 + PlaceIn(order, t)

(* itdb_album_equal.  Not transitive: a track without an album artist may  *)
(* be like two that differ.                                                *)
SameAlbum(x, y) ==
  /\ x["album"] = y["album"]
  /\ IF x["albumartist"] # Null /\ y["albumartist"] # Null
       THEN x["albumartist"] = y["albumartist"]
       ELSE x["artist"] = y["artist"]
SameArtist(x, y) == x["artist"] = y["artist"]
SameComposer(x, y) == x["composer"] = y["composer"]
SameGenre(x, y) == x["genre"] = y["genre"]

(* The tracks that stand for all that are the same, in the order of their  *)
(* ids.  The first that is found is taken, as from a hash table that was   *)
(* not resized.                                                            *)
Firsts(order, text, field, Same(_, _)) ==
  LET after[n \in 0 .. Len(order)] ==
        IF n = 0 THEN <<>>
        ELSE LET t == order[n]
             IN IF \/ text[t][field] = Null
                   \/ \E u \in ToSet(after[n - 1]) : Same(text[t], text[u])
                THEN after[n - 1]
                ELSE Append(after[n - 1], t)
  IN after[Len(order)]

(* The id of the album, artist or composer of a track: 0 if it has none.   *)
NumberIn(t, firsts, text, field, Same(_, _)) ==
  LET found == {i \in DOMAIN firsts : Same(text[t], text[firsts[i]])}
  IN IF text[t][field] = Null \/ found = {} THEN 0
     ELSE CHOOSE i \in found : \A j \in found : i <= j

(* add_new_id draws the id for the sqlite tables.  Draws are taken to be   *)
(* distinct.                                                               *)
SqlId(number) == IF number = 0 THEN 0 ELSE 1000 + number

Export(d) ==
  LET order == Prepared(d)
  IN [order |-> order,
      albums |-> Firsts(order, d.text, "album", SameAlbum),
      artists |-> Firsts(order, d.text, "artist", SameArtist),
      composers |-> Firsts(order, d.text, "composer", SameComposer)]

AlbumNumber(t, d, x) == NumberIn(t, x.albums, d.text, "album", SameAlbum)
ArtistNumber(t, d, x) == NumberIn(t, x.artists, d.text, "artist", SameArtist)
ComposerNumber(t, d, x) == NumberIn(t, x.composers, d.text, "composer", SameComposer)

(* Of the lists of an export.                                              *)
IsMpl(pl) == pl.type = "mpl"
=============================================================================
