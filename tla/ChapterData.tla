----------------------------- MODULE ChapterData -----------------------------
(***************************************************************************)
(* The chapters of a track (itdb_chapterdata.c) and the blob they are kept *)
(* in, as a mhod of the iTunesDB and in the sqlite table "chapter": atoms, *)
(* each with its length and the number of its children.  A cell is the     *)
(* header of an atom, and lengths count cells.                             *)
(***************************************************************************)
EXTENDS Integers, FiniteSets, Sequences, SequencesExt

(* itdb_chapterdata_add_chapter: no chapter starts at 0.                   *)
AddChapter(chapters, startpos, title) ==
  Append(chapters, [startpos |-> IF startpos = 0 THEN 1 ELSE startpos, title |-> title])

Atom(tag, children, data, body) ==
  <<[tag |-> tag, len |-> 1 + Len(body), children |-> children, data |-> data]>> \o body

(* itdb_chapterdata_build_chapter_blob_internal.                           *)
ChapterBlob(chapters) ==
  LET chap(c) == Atom("chap", 1, c.startpos, Atom("name", 0, c.title, <<>>))
  IN Atom("sean", Len(chapters) + 1, 0,
          FlattenSeq([i \in DOMAIN chapters |-> chap(chapters[i])]) \o Atom("hedr", 0, 0, <<>>))

(* The cell in front of which j children of an atom end.                   *)
Behind(blob, atom, j) ==
  LET at[k \in 0 .. j] ==
        IF k = 0 THEN atom + 1
        ELSE LET last == at[k - 1]
             IN IF last \in DOMAIN blob THEN last + blob[last].len ELSE last
  IN at[j]

(* get_mhod walks as many atoms as it is told, less the last: it steps     *)
(* into each "chap" and over its children, and stays where it is in front  *)
(* of anything else.                                                       *)
ReadChapters(blob) ==
  LET is(seek, tag) == seek \in DOMAIN blob /\ blob[seek].tag = tag
      names(chap) ==
        SelectSeq([j \in 1 .. blob[chap].children |-> Behind(blob, chap, j - 1)],
                  LAMBDA seek : is(seek, "name"))
      numchapters == blob[1].children - 1
      read[i \in 0 .. numchapters] ==
        IF i = 0 THEN [seek |-> Behind(blob, 1, 0), chapters |-> <<>>]
        ELSE LET last == read[i - 1]
                 chap == last.seek
             IN IF ~is(chap, "chap") THEN last
                ELSE [seek |-> Behind(blob, chap, blob[chap].children),
                      chapters |-> FoldLeft(LAMBDA cs, name : AddChapter(cs, blob[chap].data, blob[name].data),
                                            last.chapters, names(chap))]
  IN IF is(1, "sean") THEN read[numchapters].chapters ELSE <<>>

(* What becomes of chapters that an application has made by hand.          *)
AsRead(chapters) ==
  [i \in DOMAIN chapters |->
     [chapters[i] EXCEPT !.startpos = IF @ = 0 THEN 1 ELSE @]]

(* Atoms lie inside each other and have as many children as they say.      *)
AtomsNest(blob) ==
  \A i \in DOMAIN blob :
    LET within == i + 1 .. i + blob[i].len - 1
        direct == {j \in within : \A k \in i + 1 .. j - 1 : j >= k + blob[k].len}
    IN /\ i + blob[i].len <= Len(blob) + 1
       /\ \A j \in within : j + blob[j].len <= i + blob[i].len
       /\ Cardinality(direct) = blob[i].children
=============================================================================
