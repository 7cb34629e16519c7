------------------------------ MODULE MhFormat ------------------------------
(***************************************************************************)
(* The iTunesDB as itdb_write_file_internal() makes it and parse_fimp()    *)
(* reads it: a tree of hunks, each with its length and the number of its   *)
(* children, which the reader has to walk without any other marks.         *)
(*                                                                         *)
(* The files that iPods play from instead, the sqlite tables and the       *)
(* iTunesSD, are written along with it.                                    *)
(*                                                                         *)
(* A file is a sequence of cells, one for each header or mhod, and seeks   *)
(* and lengths count cells.  The lists are written twice, in section 3     *)
(* with the podcasts grouped by album and in section 2 without; only       *)
(* section 3 is read when it is there.                                     *)
(***************************************************************************)
EXTENDS SqliteTables, ShuffleSd

CONSTANTS
  Libraries,  \* the databases applications have made
  Letter,     \* text -> its letter in the jump tables
  Number      \* track -> cd_nr and track_nr

VARIABLES
  db,     \* the Itdb_iTunesDB in memory
  device, \* the kind of iPod
  disk,   \* the iTunesDB on the iPod
  tables, \* iTunes Library.itlp
  sd,     \* the iTunesSD
  saved,  \* the database as it was when it was written
  pc      \* what the application does

vars == <<db, device, disk, tables, sd, saved, pc>>

NoDatabase ==
  [tracks |-> <<>>, text |-> <<>>, media |-> <<>>, chapters |-> <<>>, lists |-> <<>>, mhsd5 |-> <<>>, cuid |-> FALSE]

-----------------------------------------------------------------------------
(* Hunks.                                                                  *)
Head1(tag, num, data) == [tag |-> tag, len |-> 1, num |-> num, data |-> data]

(* fix_header, fix_mhit: the length is filled in when the body is written. *)
Hunk(tag, num, data, body) ==
  <<[Head1(tag, num, data) EXCEPT !.len = 1 + Len(body)]>> \o body

Mhod(type, data) == <<Head1("mhod", 0, [type |-> type, data |-> data])>>

-----------------------------------------------------------------------------
(* Writing.                                                                *)

(* The mhods of a track: the texts that are not empty, and its chapters.   *)
TrackMhods(t, d) ==
  LET fields == SelectSeq(<<"title", "artist", "album", "path", "genre", "composer",
                            "albumartist">>, LAMBDA f : Written(d.text[t][f]))
  IN FlattenSeq(Mapped(LAMBDA f : Mhod(f, d.text[t][f]), fields))
       \o IF d.chapters[t] = <<>> THEN <<>> ELSE Mhod("chapterdata", ChapterBlob(d.chapters[t]))

Mhit(t, d, x) ==
  LET mhods == TrackMhods(t, d)
  IN Hunk("mhit", Len(mhods),
          [id |-> IdOf(t, x.order), dbid |-> t, media |-> d.media[t],
           album |-> AlbumNumber(t, d, x), artist |-> ArtistNumber(t, d, x),
           composer |-> ComposerNumber(t, d, x)], mhods)

Mhlt(num) == <<Head1("mhlt", num, 0)>>

WriteTracks(d, x) ==
  Hunk("mhsd", 0, 1,
       Mhlt(Len(x.order))
         \o FlattenSeq(Mapped(LAMBDA t : Mhit(t, d, x), x.order)))

(* The sorted indexes of the master playlist and their jump tables.        *)
SortText(t, field, text) == IF text[t][field] = Null THEN "" ELSE text[t][field]

SortKey(type, t, text) ==
  LET place(f) == Collate[SortText(t, f, text)]
      album == <<place("album"), Number[t], place("title")>>
  IN CASE type = "title"    -> <<place("title")>>
       [] type = "album"    -> album
       [] type = "artist"   -> <<place("artist")>> \o album
       [] type = "genre"    -> <<place("genre"), place("artist")>> \o album
       [] type = "composer" -> <<place("composer")>> \o album

Before(k, l) ==
  \E i \in DOMAIN k : k[i] < l[i] /\ \A j \in 1 .. i - 1 : k[j] = l[j]

(* A stable sort: what is not told apart keeps its order.                  *)
StableSort(seq, Less(_, _)) ==
  LET placed == [i \in DOMAIN seq |-> [place |-> i, of |-> seq[i]]]
      before(a, b) == Less(a.of, b.of) \/ (~Less(b.of, a.of) /\ a.place < b.place)
  IN Mapped(LAMBDA p : p.of, SortSeq(placed, before))

SortTypes == <<"title", "artist", "album", "genre", "composer">>

(* mhod52_make_collate_keys prepends, and each sort starts from the        *)
(* outcome of the one before.                                              *)
Sorted(members, text) ==
  LET start == Reverse([i \in DOMAIN members |-> [index |-> i - 1, track |-> members[i]]])
      sort[n \in 0 .. Len(SortTypes)] ==
        IF n = 0 THEN start
        ELSE StableSort(sort[n - 1],
                        LAMBDA a, b : Before(SortKey(SortTypes[n], a.track, text),
                                             SortKey(SortTypes[n], b.track, text)))
  IN sort

(* A new entry at every change of the letter.                              *)
JumpTable(letters) ==
  LET starts == {i \in DOMAIN letters : i = 1 \/ letters[i] # letters[i - 1]}
      count(i) == Cardinality({j \in DOMAIN letters :
                    j >= i /\ \A k \in i .. j : letters[k] = letters[i]})
  IN [n \in 1 .. Cardinality(starts) |->
        LET i == CHOOSE s \in starts : Cardinality({r \in starts : r < s}) = n - 1
        IN [letter |-> letters[i], start |-> i - 1, count |-> count(i)]]

\* Mutant: the jump table is made before the tracks are sorted.
IndexesTooEarly(members, text) ==
  LET sorted == Sorted(members, text)
      letter(n, m) == Letter[SortText(m.track, SortTypes[n], text)]
  IN FlattenSeq([n \in DOMAIN SortTypes |->
       Mhod("index", [sort |-> SortTypes[n], entries |-> Mapped(LAMBDA m : m.index, sorted[n])])
         \o Mhod("jump", [sort |-> SortTypes[n],
                          entries |-> JumpTable(Mapped(LAMBDA m : letter(n, m), sorted[n - 1]))])])

Indexes(members, text) ==
  LET sorted == Sorted(members, text)
      letter(n, m) == Letter[SortText(m.track, SortTypes[n], text)]
  IN FlattenSeq([n \in DOMAIN SortTypes |->
       Mhod("index", [sort |-> SortTypes[n], entries |-> Mapped(LAMBDA m : m.index, sorted[n])])
         \o Mhod("jump", [sort |-> SortTypes[n],
                          entries |-> JumpTable(Mapped(LAMBDA m : letter(n, m), sorted[n]))])])

(* Members with their position.                                            *)
Mhip(data, mhod) == Hunk("mhip", 1, data, mhod)
Member(t, order, id, ref) == [group |-> FALSE, id |-> id, ref |-> ref, track |-> IdOf(t, order)]

PlaylistMhips(members, order) ==
  [i \in DOMAIN members |->
     Mhip(Member(members[i], order, 0, 0), Mhod("position", i - 1))]

(* One group for each album, in the order of a hash table; the positions   *)
(* are ids that go on from those of the tracks.                            *)
AlbumOf(t, text) == SortText(t, "album", text)
AlbumsOf(members, text) == {AlbumOf(members[i], text) : i \in DOMAIN members}

PodcastMhips(members, order, text, albums) ==
  LET used == SelectSeq(albums, LAMBDA a : a \in AlbumsOf(members, text))
      of(a) == SelectSeq(members, LAMBDA t : AlbumOf(t, text) = a)
      size(n) == Len(FlattenSeq([k \in 1 .. n |-> <<used[k]>> \o of(used[k])]))
      first == FIRST_IPOD_ID + Len(order)
      group(n) ==
        LET id == first + size(n - 1)
        IN <<Mhip([group |-> TRUE, id |-> id, ref |-> 0, track |-> 0], Mhod("title", used[n]))>>
             \o [i \in DOMAIN of(used[n]) |->
                   Mhip(Member(of(used[n])[i], order, id + i, id), Mhod("position", id + i))]
  IN FlattenSeq([n \in DOMAIN used |-> group(n)])

(* The number of mhods is decided before they are written; a playlist      *)
(* without a name has one less.                                            *)
\* Mutant: the rules of smart playlists are not counted.
MhodNumPlain(pl) ==
  IF IsMpl(pl) /\ pl.members # <<>> THEN 12 ELSE 2

MhodNum(pl) ==
  IF pl.smart THEN 4 ELSE IF IsMpl(pl) /\ pl.members # <<>> THEN 12 ELSE 2

(* mk_long_mhod_id_playlist.                                               *)
Prefs == Mhod("prefs", 0)

Mhods(pl, text) ==
  (IF pl.name = Null THEN <<>> ELSE Mhod("title", pl.name))
    \o Prefs
    \o (IF IsMpl(pl) /\ pl.members # <<>> THEN Indexes(pl.members, text)
        ELSE IF pl.smart THEN Mhod("splpref", 0) \o Mhod("splrules", 0) ELSE <<>>)

\* Mutant: the groups of podcasts are not counted.
WritePlaylistNoGroups(pl, d, order, section, albums) ==
  LET mhips == CASE pl.podcasts /\ section = 3 -> PodcastMhips(pl.members, order, d.text, albums)
                 [] section = 5 -> <<>>
                 [] OTHER -> PlaylistMhips(pl.members, order)
  IN Hunk("mhyp", MhodNum(pl),
          [mhips |-> IF section = 5 THEN 0 ELSE Len(pl.members),
           id |-> pl.id, type |-> pl.type, podcasts |-> pl.podcasts],
          Mhods(pl, d.text) \o FlattenSeq(mhips))

WritePlaylist(pl, d, order, section, albums) ==
  LET mhips == CASE pl.podcasts /\ section = 3 -> PodcastMhips(pl.members, order, d.text, albums)
                 [] section = 5 -> <<>>
                 [] OTHER -> PlaylistMhips(pl.members, order)
  IN Hunk("mhyp", MhodNum(pl),
          [mhips |-> Len(mhips), id |-> pl.id, type |-> pl.type, podcasts |-> pl.podcasts],
          Mhods(pl, d.text) \o FlattenSeq(mhips))

WritePlaylists(d, order, section, albums) ==
  LET lists == IF section = 5 THEN d.mhsd5 ELSE d.lists
  IN Hunk("mhsd", 0, section,
          <<Head1("mhlp", Len(lists), 0)>>
            \o FlattenSeq(Mapped(LAMBDA pl : WritePlaylist(pl, d, order, section, albums), lists)))

(* Sections 4 and 8 have an entry for each album and each artist, with the *)
(* two ids and mhods for what is not empty.                                *)
WriteNames(d, x, section) ==
  LET firsts == IF section = 4 THEN x.albums ELSE x.artists
      artist(t) == IF Written(d.text[t]["albumartist"]) THEN d.text[t]["albumartist"]
                   ELSE d.text[t]["artist"]
      names(t) == IF section = 4
                  THEN Mhod("album", d.text[t]["album"]) \o Mhod("artist", artist(t))
                  ELSE Mhod("artist", d.text[t]["artist"])
      entry(n) == LET mhods == SelectSeq(names(firsts[n]), LAMBDA m : Written(m.data.data))
                  IN Hunk(IF section = 4 THEN "mhia" ELSE "mhii", Len(mhods),
                          [id |-> n, sql_id |-> SqlId(n)], mhods)
  IN Hunk("mhsd", 0, section,
          <<Head1(IF section = 4 THEN "mhla" ELSE "mhli", Len(firsts), 0)>>
            \o FlattenSeq([n \in DOMAIN firsts |-> entry(n)]))

WriteEmpty(section) == Hunk("mhsd", 0, section, Mhlt(0))

Mhbd(children, sections) == Hunk("mhbd", children, 0, FlattenSeq(sections))

(* itdb_write_file_internal.                                               *)
Database(d, x, albums) ==
  LET order == x.order
      sections ==
        <<WriteTracks(d, x),
          WritePlaylists(d, order, 3, albums), WritePlaylists(d, order, 2, albums),
          WriteNames(d, x, 4), WriteNames(d, x, 8),
          WriteEmpty(6), WriteEmpty(10),
          WritePlaylists(d, order, 5, albums)>>
          \o IF d.cuid THEN <<Hunk("mhsd", 0, 9, <<Head1("cuid", 0, 0)>>)>> ELSE <<>>
  IN Mhbd(IF d.cuid THEN 9 ELSE 8, sections)

(* What iTunes up to 4.7 wrote: no section 3, and the length of a mhip     *)
(* without its mhod.                                                       *)
OldDatabase(d) ==
  LET x == Export(d)
      old(cell) == IF cell.tag = "mhip" THEN [cell EXCEPT !.len = 1] ELSE cell
      sections == <<WriteTracks(d, x), WritePlaylists(d, x.order, 2, <<>>)>>
  IN Mapped(old, Mhbd(2, sections))

-----------------------------------------------------------------------------
(* Reading.  A seek is the number of the cell, from 0; -1 is none.         *)
Has(file, seek, tag) == seek \in 0 .. Len(file) - 1 /\ file[seek + 1].tag = tag
CellAt(file, seek) == file[seek + 1]

(* find_next_a_in_b.                                                       *)
FindNext(file, tag, section, start) ==
  LET end == section + CellAt(file, section).len
      found == {p \in start + 1 .. end - 1 :
                  Has(file, p, tag) /\ \A q \in start + 1 .. p - 1 : ~Has(file, q, tag)}
  IN IF found = {} THEN -1 ELSE CHOOSE p \in found : TRUE

(* find_mhsd: -1 if there is none, 0 for an error.                         *)
FindMhsd(file, type) ==
  LET num == CellAt(file, 0).num
      at[i \in 1 .. num] ==
        IF i = 1 THEN 1
        ELSE LET last == at[i - 1]
             IN IF Has(file, last, "mhsd") THEN last + CellAt(file, last).len ELSE last
      good == {i \in 1 .. num : Has(file, at[i], "mhsd") /\ CellAt(file, at[i]).data = type}
      bad == {i \in 1 .. num : ~Has(file, at[i], "mhsd")}
      before(i) == \A j \in 1 .. i - 1 : j \notin good \cup bad
  IN IF \E i \in bad : before(i) THEN 0
     ELSE IF good = {} THEN -1 ELSE at[CHOOSE i \in good : before(i)]

(* The mhods behind a header, as many as it says and there are.            *)
MhodsBehind(file, seek) ==
  LET num == CellAt(file, seek).num
      there == CHOOSE n \in 0 .. num :
                 /\ \A k \in 1 .. n : Has(file, seek + k, "mhod")
                 /\ n = num \/ ~Has(file, seek + n + 1, "mhod")
  IN [k \in 1 .. there |-> CellAt(file, seek + k).data]

OfType(mhods, type) == SelectSeq(mhods, LAMBDA m : m.type = type)
LastText(mhods, type) ==
  LET found == OfType(mhods, type) IN IF found = <<>> THEN Null ELSE Last(found).data

(* get_mhit: of several mhods of a kind the last one counts.               *)
TextsOf(mhods) == [f \in Field |-> LastText(mhods, f)]
ChaptersOf(mhods) ==
  LET found == OfType(mhods, "chapterdata")
  IN IF found = <<>> THEN <<>> ELSE ReadChapters(Last(found).data)

ReadMhit(file, seek) ==
  LET mhit == CellAt(file, seek).data
      mhods == MhodsBehind(file, seek)
  IN [id |-> mhit.id, dbid |-> mhit.dbid, media |-> mhit.media,
      text |-> TextsOf(mhods), chapters |-> ChaptersOf(mhods)]

(* parse_tracks.                                                           *)
ReadTracks(file, section) ==
  LET mhlt == FindNext(file, "mhlt", section, section)
      num == CellAt(file, mhlt).num
      first == FindNext(file, "mhit", section, mhlt)
      at[i \in 1 .. num] ==
        IF i = 1 THEN first
        ELSE LET last == at[i - 1]
             IN IF Has(file, last, "mhit") THEN last + 1 + CellAt(file, last).num ELSE -1
      there == {i \in 1 .. num : Has(file, at[i], "mhit")}
  IN [i \in 1 .. Cardinality(there) |-> ReadMhit(file, at[i])]

(* get_mhip: the next mhip is behind the length or, in old files, behind   *)
(* the mhods.                                                              *)
NextMhip(file, seek) ==
  LET cell == CellAt(file, seek)
  IN IF cell.len = 1 /\ cell.num > 0 THEN seek + 1 + cell.num ELSE seek + cell.len

(* The members in the order of their positions.  Those whose track is not  *)
(* found are left out.                                                     *)
MembersAt(file, seeks, tracks) ==
  LET entry(seek) == Mapped(LAMBDA m : [pos |-> m.data, track |-> CellAt(file, seek).data.track],
                            OfType(MhodsBehind(file, seek), "position"))
      first(s) == IF s = <<>> THEN s ELSE <<s[1]>>
      entries == FlattenSeq(Mapped(LAMBDA seek : first(entry(seek)), seeks))
      sorted == StableSort(entries, LAMBDA a, b : a.pos < b.pos)
      known == SelectSeq(sorted, LAMBDA e : \E i \in DOMAIN tracks : tracks[i].id = e.track)
  IN Mapped(LAMBDA e : (CHOOSE r \in ToSet(tracks) : r.id = e.track).dbid, known)

MadeUpName(type, podcasts) ==
  IF type = "mpl" THEN "Master-PL" ELSE IF podcasts THEN "Podcasts" ELSE "Playlist"

(* get_playlist.                                                           *)
ReadPlaylist(file, seek, tracks) ==
  LET cell == CellAt(file, seek)
      mhods == MhodsBehind(file, seek)
      name == LastText(mhods, "title")
      at[i \in 1 .. cell.data.mhips] ==
        IF i = 1 THEN seek + 1 + Len(mhods)
        ELSE LET last == at[i - 1]
             IN IF Has(file, last, "mhip") THEN NextMhip(file, last) ELSE -1
      broken == \E i \in 1 .. cell.data.mhips : ~Has(file, at[i], "mhip")
  IN [broken |-> broken,
      pl |-> [id |-> cell.data.id, type |-> cell.data.type, podcasts |-> cell.data.podcasts,
              name |-> IF name = Null THEN MadeUpName(cell.data.type, cell.data.podcasts)
                       ELSE name,
              smart |-> OfType(mhods, "splpref") \o OfType(mhods, "splrules") # <<>>,
              members |-> IF broken THEN <<>> ELSE MembersAt(file, at, tracks)]]

(* parse_playlists.                                                        *)
ReadPlaylists(file, section, tracks) ==
  LET mhlp == FindNext(file, "mhlp", section, section)
      num == CellAt(file, mhlp).num
      first == FindNext(file, "mhyp", section, mhlp)
      at[i \in 1 .. num] ==
        IF i = 1 THEN first
        ELSE LET last == at[i - 1]
             IN IF Has(file, last, "mhyp") THEN last + CellAt(file, last).len ELSE -1
      there == Cardinality({i \in 1 .. num : Has(file, at[i], "mhyp")})
      read == [i \in 1 .. there |-> ReadPlaylist(file, at[i], tracks)]
  IN [broken |-> \E i \in DOMAIN read : read[i].broken,
      lists |-> Mapped(LAMBDA r : r.pl, read)]

(* parse_fimp.                                                             *)
ReadDatabase(file) ==
  LET seek(type) == FindMhsd(file, type)
      tracks == ReadTracks(file, seek(1))
      main == IF seek(3) # -1 THEN seek(3) ELSE seek(2)
      lists == ReadPlaylists(file, main, tracks)
      mhsd5 == IF seek(5) = -1 THEN [broken |-> FALSE, lists |-> <<>>]
               ELSE ReadPlaylists(file, seek(5), tracks)
      dbids == {tracks[i].dbid : i \in DOMAIN tracks}
      of(t) == CHOOSE r \in ToSet(tracks) : r.dbid = t
  IN IF \/ \E type \in {1, 2, 3, 5, 9} : seek(type) = 0
        \/ seek(1) = -1 \/ main = -1 \/ lists.broken \/ mhsd5.broken
     THEN [error |-> TRUE, data |-> NoDatabase]
     ELSE [error |-> FALSE,
           data |-> [tracks |-> [i \in DOMAIN tracks |-> tracks[i].dbid],
                     text |-> [t \in dbids |-> of(t).text],
                     media |-> [t \in dbids |-> of(t).media],
                     chapters |-> [t \in dbids |-> of(t).chapters],
                     lists |-> lists.lists, mhsd5 |-> mhsd5.lists, cuid |-> seek(9) # -1]]

-----------------------------------------------------------------------------
Devices == {"plain", "shuffle2g", "shuffle", "sqlite"}

(* The path of a track is taken for granted when an iTunesSD is written.   *)
Complete(d) == \A t \in DOMAIN d.text : Written(d.text[t]["path"])

Init ==
  /\ db \in Libraries
  /\ device \in IF Complete(db) THEN Devices ELSE {"plain", "sqlite"}
  /\ disk = <<>> /\ tables = NoTables /\ sd = <<>>
  /\ saved = NoDatabase
  /\ pc = "open"

(* The order of the albums is that of a hash table.  The sqlite tables are *)
(* made from the same ids, the iTunesSD from ids that come out the same.   *)
Write ==
  /\ pc = "open"
  /\ device = "sqlite" => CanGenerate(db)
  /\ LET x == Export(db)
     IN /\ tables' = IF device = "sqlite" THEN Tables(db, x) ELSE tables
        /\ sd' = CASE device = "shuffle2g" -> OldSd(db, x)
                   [] device = "shuffle"   -> NewSd(db, x)
                   [] OTHER                -> sd
        /\ \E albums \in SetToSeqs(UNION {AlbumsOf(pl.members, db.text) :
                                         pl \in {p \in ToSet(db.lists) : p.podcasts}}) :
             disk' = Database(db, x, albums)
  /\ saved' = db
  /\ pc' = "written"
  /\ UNCHANGED <<db, device>>

(* The sqlite tables cannot be made, and nothing is written.               *)
WriteRefused ==
  /\ pc = "open"
  /\ device = "sqlite" /\ ~CanGenerate(db)
  /\ pc' = "refused"
  /\ UNCHANGED <<db, device, disk, tables, sd, saved>>

(* The application takes the texts away that were refused.                 *)
Amend ==
  /\ pc = "refused"
  /\ db' = [db EXCEPT
       !.text = [t \in DOMAIN @ |->
                  IF @[t]["genre"] = UnknownGenre THEN [@[t] EXCEPT !["genre"] = Null] ELSE @[t]],
       !.lists = [@ EXCEPT ![1].name = IF @ = Null THEN "iPod" ELSE @]]
  /\ pc' = "open"
  /\ UNCHANGED <<device, disk, tables, sd, saved>>

(* An old iTunes has no section 5 and no cuid.                             *)
WriteOld ==
  /\ pc = "open" /\ device = "plain"
  /\ disk' = OldDatabase(db)
  /\ saved' = [db EXCEPT !.mhsd5 = <<>>, !.cuid = FALSE]
  /\ pc' = "writtenOld"
  /\ UNCHANGED <<db, device, tables, sd>>

Parse ==
  /\ pc \in {"written", "writtenOld"}
  /\ LET result == ReadDatabase(disk)
     IN /\ db' = result.data
        /\ pc' = IF result.error THEN "failed" ELSE "open"
  /\ UNCHANGED <<device, disk, tables, sd, saved>>

Next == Write \/ WriteRefused \/ Amend \/ WriteOld \/ Parse

Spec == Init /\ [][Next]_vars

-----------------------------------------------------------------------------
Lists == [id : Nat, name : STRING, type : {"mpl", "normal"}, podcasts : BOOLEAN,
          smart : BOOLEAN, members : Seq(Track)]

(* What is in memory is always a database.                                 *)
TypeOK ==
  /\ ToSet(db.tracks) \subseteq Track
  /\ DOMAIN db.text = ToSet(db.tracks)
  /\ \A t \in DOMAIN db.text : DOMAIN db.text[t] = Field
  /\ \A pl \in ToSet(db.lists \o db.mhsd5) :
       pl \in Lists /\ ToSet(pl.members) \subseteq ToSet(db.tracks)
  /\ DOMAIN db.media = ToSet(db.tracks)
  /\ DOMAIN db.chapters = ToSet(db.tracks)
  /\ db.cuid \in BOOLEAN
  /\ device \in Devices
  /\ pc \in {"open", "written", "writtenOld", "failed", "refused"}

SameList(old, new) ==
  /\ new.id = old.id /\ new.type = old.type
  /\ new.podcasts = old.podcasts /\ new.smart = old.smart
  /\ new.name = IF old.name = Null THEN MadeUpName(old.type, old.podcasts) ELSE old.name

(* The podcasts playlist may come back with its albums one after the       *)
(* other, and each album in its old order.                                 *)
SameMembers(old, new, text) ==
  IF old.podcasts
  THEN /\ Len(new.members) = Len(old.members)
       /\ \A a \in AlbumsOf(old.members, text) :
            SelectSeq(new.members, LAMBDA t : AlbumOf(t, text) = a)
              = SelectSeq(old.members, LAMBDA t : AlbumOf(t, text) = a)
  ELSE new.members = old.members

(* A database that was written can be read and is the same: its tracks,    *)
(* with those of the master playlist first and in its order, their texts,  *)
(* and its playlists with their members; empty texts come back as NULL,    *)
(* playlists without a name get one, playlists of section 5 come back      *)
(* without members, and chapters come back but none starts at 0 (mk_mhit   *)
(* to parse_fimp).                                                         *)
ReadsBack ==
  /\ TypeOK
  /\ pc # "failed"
  /\ pc = "open" /\ saved # NoDatabase =>
       LET mpl == saved.lists[1].members
           place(t) == CHOOSE i \in DOMAIN mpl : mpl[i] = t /\ \A j \in 1 .. i - 1 : mpl[j] # t
       IN /\ Len(db.tracks) = Len(saved.tracks)
          /\ ToSet(db.tracks) = ToSet(saved.tracks)
          /\ \A i, j \in DOMAIN db.tracks :
               i < j /\ db.tracks[j] \in ToSet(mpl) =>
                 /\ db.tracks[i] \in ToSet(mpl)
                 /\ place(db.tracks[i]) < place(db.tracks[j])
          /\ \A t \in DOMAIN saved.text, f \in Field :
               db.text[t][f] = FirstText(<<saved.text[t][f]>>)
          /\ db.media = saved.media
          /\ \A t \in DOMAIN saved.chapters : db.chapters[t] = AsRead(saved.chapters[t])
          /\ Len(db.lists) = Len(saved.lists)
          /\ \A i \in DOMAIN saved.lists :
               /\ SameList(saved.lists[i], db.lists[i])
               /\ SameMembers(saved.lists[i], db.lists[i], saved.text)
          /\ Len(db.mhsd5) = Len(saved.mhsd5)
          /\ \A i \in DOMAIN saved.mhsd5 :
               SameList(saved.mhsd5[i], db.mhsd5[i]) /\ db.mhsd5[i].members = <<>>
          /\ db.cuid = saved.cuid

(* Section 2, for readers that do not know section 3, says the same as     *)
(* section 3 up to the order of the podcasts.                              *)
SectionsAgree ==
  LET tracks == ReadTracks(disk, FindMhsd(disk, 1))
      new == ReadPlaylists(disk, FindMhsd(disk, 3), tracks)
      old == ReadPlaylists(disk, FindMhsd(disk, 2), tracks)
  IN /\ ~new.broken /\ ~old.broken
     /\ Len(new.lists) = Len(old.lists)
     /\ \A i \in DOMAIN new.lists :
          /\ SameList(old.lists[i], new.lists[i])
          /\ SameMembers(old.lists[i], new.lists[i], saved.text)

(* The sqlite tables show the tracks and playlists of the iTunesDB, in the *)
(* same order ...                                                          *)
ItemsAgree(tracks) ==
  LET items == ShownItems(tables)
  IN /\ Len(items) = Len(tracks)
     /\ \A i \in DOMAIN items :
          /\ items[i].pid = tracks[i].dbid
          /\ items[i].media_kind = tracks[i].media
          /\ \A f \in DOMAIN items[i].text : items[i].text[f] = tracks[i].text[f]

ContainersAgree(lists) ==
  LET shown == ShownContainers(tables)
  IN /\ Len(shown) = Len(lists)
     /\ tables.primary_container = lists[1].id
     /\ tables.container_ui = {pl.id : pl \in ToSet(lists)}
     /\ \A i \in DOMAIN shown :
          /\ shown[i].pid = lists[i].id
          /\ shown[i].podcasts = lists[i].podcasts
          /\ shown[i].name \in {lists[i].name, Null}
          /\ ShownMembers(shown[i].pid, tables) = lists[i].members

(* ... what an item refers to is there, and is what the iTunesDB has under *)
(* the same id ...                                                         *)
Named(rows, pid, text) ==
  \E r \in rows : r.pid = pid /\ FirstText(<<r.name>>) = text /\ \A q \in rows : q.pid = pid => q = r

SqlIdIn(tag, number) ==
  IF number = 0 THEN 0
  ELSE disk[CHOOSE i \in DOMAIN disk : disk[i].tag = tag /\ disk[i].data.id = number].data.sql_id

ReferencesAgree(tracks) ==
  \A i \in DOMAIN tracks, item \in tables.item :
    item.pid = tracks[i].dbid =>
      LET mhit == disk[CHOOSE k \in DOMAIN disk :
                         disk[k].tag = "mhit" /\ disk[k].data.dbid = item.pid].data
          text == tracks[i].text
      IN /\ item.album_pid = SqlIdIn("mhia", mhit.album)
         /\ item.artist_pid = SqlIdIn("mhii", mhit.artist)
         /\ text["album"] # Null => Named(tables.album, item.album_pid, text["album"])
         /\ text["artist"] # Null => /\ Named(tables.artist, item.artist_pid, text["artist"])
                                     /\ Named(tables.track_artist, item.artist_pid, text["artist"])
         /\ text["composer"] # Null => Named(tables.composer, item.composer_pid, text["composer"])
         /\ \E g \in tables.genre_map :
              /\ g.id = item.genre_id
              /\ g.genre = IF text["genre"] = Null THEN UnknownGenre ELSE text["genre"]
              /\ \A h \in tables.genre_map : h.id = g.id \/ h.genre = g.genre => h = g
         /\ text["path"] # Null => /\ item.pid \in tables.item_stats
                                   /\ [item_pid |-> item.pid, location |-> text["path"]]
                                        \in tables.location
         /\ \E row \in tables.chapter :
              row.item_pid = item.pid /\ ReadChapters(row.data) = tracks[i].chapters

(* ... and sorting by any of the orders sorts by the texts, with what has  *)
(* no text in front.                                                       *)
OrdersAgree(tracks) ==
  \A column \in DOMAIN SortFields, a, b \in tables.item :
    LET key(item) == KeyOf(item.pid, column, saved)
    IN /\ key(a) # Null /\ key(b) # Null =>
            (Collate[key(a)] < Collate[key(b)] <=> a.order[column] < b.order[column])
       /\ key(a) = Null => a.order[column] <= b.order[column]

TablesAgree ==
  LET tracks == ReadTracks(disk, FindMhsd(disk, 1))
      lists == ReadPlaylists(disk, FindMhsd(disk, 2), tracks).lists
  IN ItemsAgree(tracks) /\ ContainersAgree(lists) /\ ReferencesAgree(tracks) /\ OrdersAgree(tracks)

(* The iTunesSD has the tracks at the places that the iTunesDB has them,   *)
(* which is what its counts go by, and the playlists that have members.    *)
SdAgrees ==
  LET tracks == ReadTracks(disk, FindMhsd(disk, 1))
      lists == SelectSeq(ReadPlaylists(disk, FindMhsd(disk, 2), tracks).lists,
                         LAMBDA pl : pl.members # <<>>)
      songs == SdTracks(sd)
      shown == SdLists(sd)
  IN /\ Len(songs) = Len(tracks)
     /\ \A i \in DOMAIN songs : songs[i].path = tracks[i].text["path"]
     /\ sd[1].tag = "bdhs" =>
          /\ \A i \in DOMAIN songs : songs[i].tag = "rths" /\ songs[i].dbid = tracks[i].dbid
          /\ SdAt(sd, sd[1].hths).tag = "hths" /\ SdAt(sd, sd[1].hphs).tag = "hphs"
          /\ sd[1].tracks = Len(songs) /\ sd[1].lists = Len(shown)
          /\ Len(shown) = Len(lists)
          /\ \A i \in DOMAIN shown :
               /\ shown[i].tag = "lphs" /\ shown[i].num = Len(shown[i].tracks)
               /\ Mapped(LAMBDA n : songs[n + 1].dbid, shown[i].tracks) = lists[i].members
               /\ shown[i].id = IF lists[i].type = "mpl" THEN 0 ELSE lists[i].id

(* Whatever an iPod or a program reads shows one library: section 2, the   *)
(* tables and the iTunesSD, which other code writes than section 3, agree  *)
(* with it (write_mhsd_playlists, mk_Library, write_hphs).                 *)
CopiesAgree ==
  pc = "written" =>
    /\ SectionsAgree
    /\ device = "sqlite" => TablesAgree
    /\ device \in {"shuffle2g", "shuffle"} => SdAgrees

Cells(file) == DOMAIN file
Within(file, i) == i + 1 .. i + file[i].len - 1
Tagged(file, cells, tag) == Cardinality({j \in cells : file[j].tag = tag})
Direct(file, i) ==
  {j \in Within(file, i) : \A k \in i + 1 .. j - 1 : j >= k + file[k].len}

(* Hunks lie inside each other, and every header has as many children as   *)
(* it says, so that any reader finds its way through the file; only a      *)
(* playlist without a name has a mhod less (fix_header, fix_mhit and the   *)
(* counts of write_playlist, mk_mhla, mk_mhli and mk_mhbd).                *)
HunksNest ==
  pc = "written" =>
    /\ disk[1].tag = "mhbd" /\ disk[1].len = Len(disk)
    /\ \A i \in Cells(disk) : \A j \in Within(disk, i) : j + disk[j].len <= i + disk[i].len
    /\ \A i \in Cells(disk) :
         LET direct == Direct(disk, i)
             count(tag) == Tagged(disk, direct, tag)
         IN /\ disk[i].tag = "mhbd" => count("mhsd") = disk[i].num
            /\ disk[i].tag \in {"mhit", "mhip", "mhia", "mhii"} =>
                 count("mhod") = disk[i].num /\ Cardinality(direct) = disk[i].num
            /\ disk[i].tag = "mhod" /\ disk[i].data.type = "chapterdata" =>
                 AtomsNest(disk[i].data.data)
            /\ disk[i].tag = "mhyp" =>
                 /\ count("mhip") = disk[i].data.mhips
                 /\ \/ count("mhod") = disk[i].num
                    \/ \E pl \in ToSet(saved.lists \o saved.mhsd5) :
                         /\ pl.id = disk[i].data.id /\ pl.name = Null
                         /\ count("mhod") = disk[i].num - 1
            /\ disk[i].tag = "mhsd" /\ disk[i].data # 9 =>
                 /\ disk[i + 1].tag \in {"mhlt", "mhlp", "mhla", "mhli"}
                 /\ Cardinality(direct) = 1 + disk[i + 1].num

(* Each sorted index of the master playlist has every member once and in   *)
(* the order of its key, and the runs of its jump table cover the index    *)
(* without a gap, each with the letter of its entries (mk_mhod).           *)
IndexSound ==
  pc = "written" =>
    \A i \in Cells(disk) :
      disk[i].tag = "mhod" /\ disk[i].data.type = "index" =>
        LET index == disk[i].data.data.entries
            type == disk[i].data.data.sort
            jump == disk[i + 1].data.data.entries
            mpl == saved.lists[1].members
            track(n) == mpl[index[n] + 1]
        IN /\ Len(index) = Len(mpl)
           /\ ToSet(index) = 0 .. Len(mpl) - 1
           /\ \A n \in 1 .. Len(index) - 1 :
                ~Before(SortKey(type, track(n + 1), saved.text), SortKey(type, track(n), saved.text))
           /\ disk[i + 1].data.type = "jump" /\ disk[i + 1].data.data.sort = type
           /\ \A n \in DOMAIN jump :
                /\ jump[n].start = IF n = 1 THEN 0 ELSE jump[n - 1].start + jump[n - 1].count
                /\ \A k \in 1 .. jump[n].count :
                     Letter[SortText(track(jump[n].start + k), type, saved.text)] = jump[n].letter
           /\ Last(jump).start + Last(jump).count = Len(mpl)
=============================================================================
