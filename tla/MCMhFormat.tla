----------------------------- MODULE MCMhFormat -----------------------------
(***************************************************************************)
(* Three tracks, of which one or two may be podcasts outside the master    *)
(* playlist; texts that are NULL, empty, equal and sorted with different   *)
(* letters; members that come twice; playlists without a name; a book with two      *)
(* chapters and a podcast with one.                                        *)
(***************************************************************************)
EXTENDS MhFormat, TLC

MCTrack == 1 .. 3

Texts == {"", "a", "A1", "b", UnknownGenre}
MCCollate == "" :> 0 @@ "a" :> 1 @@ "A1" :> 2 @@ "b" :> 3 @@ UnknownGenre :> 4
MCLetter == "" :> "0" @@ "a" :> "A" @@ "A1" :> "A" @@ "b" :> "B" @@ UnknownGenre :> "U"
MCNumber == 1 :> 2 @@ 2 :> 1 @@ 3 :> 1

Text(title, album, artist, albumartist, genre, path) ==
  [f \in Field |-> CASE f = "title" -> title [] f = "album" -> album
                     [] f = "artist" -> artist [] f = "albumartist" -> albumartist
                     [] f = "genre" -> genre [] f = "path" -> path
                     [] OTHER -> album]

(* The third track is of the album of the second or, with an album artist, *)
(* not; the first is of neither, or of both.                               *)
MCText ==
  LET second == Text("b", "a", "A1", Null, "b", "F2")
      of(first, third) == 1 :> first @@ 2 :> second @@ 3 :> third
  IN {of(Text("a", Null, "b", Null, "b", "F1"), Text("b", "a", "A1", Null, "a", "F3")),
      of(Text("A1", "a", "", "b", UnknownGenre, "F1"), Text("A1", "a", Null, "", "b", "F3")),
      of(Text("", "a", "A1", "a", "", "F1"), Text("a", "a", "A1", "b", "b", "F3")),
      of(Text("b", "", "A1", Null, Null, Null), Text("a", "b", "A1", "b", "b", "F3"))}

Playlist(id, name, type, podcasts, smart, members) ==
  [id |-> id, name |-> name, type |-> type, podcasts |-> podcasts, smart |-> smart,
   members |-> members]

MCLibraries ==
  {[tracks |-> <<1, 2, 3>>, text |-> text,
    media |-> 1 :> "audio" @@ 2 :> "audiobook" @@ 3 :> "podcast",
    chapters |-> 1 :> <<>> @@ 2 :> <<[startpos |-> 0, title |-> "a"], [startpos |-> 2, title |-> ""]>>
                           @@ 3 :> <<[startpos |-> 1, title |-> "b"]>>,
    lists |-> <<Playlist(1, "iPod", "mpl", FALSE, FALSE, mpl)>> \o lists,
    mhsd5 |-> IF mpl = <<2, 1, 2>> THEN <<Playlist(9, "films", "normal", FALSE, TRUE, <<>>)>> ELSE <<>>,
    cuid |-> mpl = <<3, 2, 1>>] :
     text \in MCText,
     mpl \in {<<>>, <<2, 1, 2>>, <<3, 2, 1>>},
     lists \in {<<Playlist(2, Null, "normal", FALSE, TRUE, <<2, 1>>),
                  Playlist(3, "casts", "normal", TRUE, FALSE, <<3, 1, 2>>)>>,
                <<Playlist(2, Null, "normal", TRUE, FALSE, <<1, 2, 1, 3>>),
                  Playlist(3, "songs", "normal", FALSE, FALSE, <<>>),
                  Playlist(4, "books", "normal", FALSE, FALSE, <<2, 2>>)>>}}
=============================================================================
