---------------------------- MODULE SqliteTables ----------------------------
(***************************************************************************)
(* "iTunes Library.itlp": the tables that iPods with sqlite play from, as  *)
(* itdb_sqlite_generate_itdbs() makes them from an export.  A table is the *)
(* set of its rows.  Columns whose values nothing else refers to are left  *)
(* out; so are artwork, videos and the commands that the iPod brings along.*)
(***************************************************************************)
EXTENDS ItdbExport

UnknownGenre == "Unknown Genre"

NoTables ==
  [genre_map |-> {}, item |-> {}, item_to_container |-> {}, container |-> {},
   primary_container |-> 0, album |-> {}, artist |-> {}, composer |-> {}, track_artist |-> {},
   item_stats |-> {}, container_ui |-> {}, location |-> {}, chapter |-> {}]

(* bind_first_text.                                                        *)
FirstText(texts) ==
  LET found == SelectSeq(texts, Written) IN IF found = <<>> THEN Null ELSE found[1]

-----------------------------------------------------------------------------
(* mk_Library.                                                             *)

(* Genres are numbered from 2; what has none is of the genre 1.            *)
Genres(d, x) == Firsts(x.order, d.text, "genre", SameGenre)
GenreMap(d, x) ==
  {[id |-> 1, genre |-> UnknownGenre]}
    \cup {[id |-> i + 1, genre |-> d.text[Genres(d, x)[i]]["genre"]] : i \in DOMAIN Genres(d, x)}
GenreId(t, d, x) ==
  IF Written(d.text[t]["genre"])
  THEN 1 + NumberIn(t, Genres(d, x), d.text, "genre", SameGenre) ELSE 1

ItemToContainer(d) ==
  UNION {{[item_pid |-> pl.members[i], container_pid |-> pl.id, physical_order |-> i - 1] :
            i \in DOMAIN pl.members} : pl \in ToSet(d.lists)}

Containers(d) ==
  {[pid |-> d.lists[n].id, podcasts |-> d.lists[n].podcasts, name |-> d.lists[n].name,
    name_order |-> n - 1,
    media_kinds |-> {d.media[t] : t \in ToSet(d.lists[n].members)},
    is_hidden |-> d.lists[n].podcasts \/ IsMpl(d.lists[n])] : n \in DOMAIN d.lists}

(* The device playlist is the last one of its type.                        *)
DevicePlaylist(d) == Last(SelectSeq(d.lists, IsMpl))

(* A row that is refused ends it: a second "Unknown Genre"; so does a      *)
(* device without a name.                                                  *)
CanGenerate(d) ==
  /\ \A t \in ToSet(d.tracks) : d.text[t]["genre"] # UnknownGenre
  /\ DevicePlaylist(d).name # Null

(* sort_field: the first text there is.                                    *)
SortFields ==
  [title |-> <<"title">>, artist |-> <<"artist">>, album |-> <<"album">>,
   genre |-> <<"genre">>, composer |-> <<"composer">>, album_artist |-> <<"artist">>,
   album_by_artist |-> <<"albumartist", "artist">>, series_name |-> <<>>]
KeyOf(t, column, d) == FirstText(Mapped(LAMBDA f : d.text[t][f], SortFields[column]))

(* compute_key_orders, lookup_order: hundreds, in the order of the texts.  *)
(* Of texts that are sorted alike the tree keeps the first, and the others *)
(* are not found.                                                          *)
OrderOf(t, column, d, x) ==
  LET key == KeyOf(t, column, d)
      keyed == SelectSeq(x.order, LAMBDA u : KeyOf(u, column, d) # Null)
      place(u) == Collate[KeyOf(u, column, d)]
      kept == KeyOf(SelectSeq(keyed, LAMBDA u : place(u) = Collate[key])[1], column, d)
  IN IF key = Null THEN 100
     ELSE IF key # kept THEN 0
     ELSE 100 * Cardinality({place(u) : u \in {v \in ToSet(keyed) : place(v) <= Collate[key]}})

Item(t, d, x) ==
  [pid |-> t, media_kind |-> d.media[t], genre_id |-> GenreId(t, d, x),
   album_pid |-> SqlId(AlbumNumber(t, d, x)),
   artist_pid |-> SqlId(ArtistNumber(t, d, x)),
   composer_pid |-> SqlId(ComposerNumber(t, d, x)),
   text |-> [f \in Field \ {"genre", "path"} |-> FirstText(<<d.text[t][f]>>)],
   order |-> [column \in DOMAIN SortFields |-> OrderOf(t, column, d, x)],
   track_artist_pid |-> SqlId(ArtistNumber(t, d, x)),
   physical_order |-> PlaceIn(x.order, t) - 1]

(* What comes after everything with a text (4294967295).                   *)
LastOrder == 1000000

(* INSERT OR IGNORE: the first track with a pid makes the row.  Each table *)
(* also gets one for what is unknown.                                      *)
FirstWith(pid, Pid(_), x) == SelectSeq(x.order, LAMBDA t : Pid(t) = pid)[1]
RowsOf(Pid(_), Row(_), x) ==
  {Row(FirstWith(pid, Pid, x)) : pid \in {Pid(t) : t \in ToSet(x.order)} \ {0}}

Albums(d, x) ==
  LET pid(t) == SqlId(AlbumNumber(t, d, x))
  IN RowsOf(pid, LAMBDA t : [pid |-> pid(t), artist_pid |-> SqlId(ArtistNumber(t, d, x)),
                             name |-> d.text[t]["album"],
                             name_order |-> OrderOf(t, "album_artist", d, x)], x)
       \cup {[pid |-> 1, artist_pid |-> 0, name |-> "Unknown Album", name_order |-> LastOrder]}

Artists(d, x) ==
  LET pid(t) == SqlId(ArtistNumber(t, d, x))
  IN RowsOf(pid, LAMBDA t : [pid |-> pid(t), name |-> d.text[t]["artist"],
                             name_order |-> OrderOf(t, "artist", d, x)], x)
       \cup {[pid |-> 2, name |-> "Unknown Artist", name_order |-> LastOrder]}

Composers(d, x) ==
  LET pid(t) == SqlId(ComposerNumber(t, d, x))
  IN RowsOf(pid, LAMBDA t : [pid |-> pid(t), name |-> d.text[t]["composer"],
                             name_order |-> OrderOf(t, "composer", d, x)], x)
       \cup {[pid |-> 1, name |-> "Unknown Composer", name_order |-> LastOrder]}

-----------------------------------------------------------------------------
(* mk_Dynamic and mk_Locations: only of what is on the iPod.               *)
OnIpod(d) == {t \in ToSet(d.tracks) : d.text[t]["path"] # Null}
ItemStats(d) == OnIpod(d)
ContainerUi(d) == {pl.id : pl \in ToSet(d.lists)}
Locations(d) == {[item_pid |-> t, location |-> d.text[t]["path"]] : t \in OnIpod(d)}

(* mk_Extras: of all tracks, a blob without chapters too.                  *)
Chapters(d) ==
  {[item_pid |-> t, data |-> ChapterBlob(d.chapters[t])] : t \in ToSet(d.tracks)}

Tables(d, x) ==
  [genre_map |-> GenreMap(d, x),
   item |-> {Item(t, d, x) : t \in ToSet(x.order)},
   item_to_container |-> ItemToContainer(d),
   container |-> Containers(d),
   primary_container |-> DevicePlaylist(d).id,
   album |-> Albums(d, x),
   artist |-> Artists(d, x),
   composer |-> Composers(d, x),
   track_artist |-> Artists(d, x),
   item_stats |-> ItemStats(d),
   container_ui |-> ContainerUi(d),
   location |-> Locations(d),
   chapter |-> Chapters(d)]

-----------------------------------------------------------------------------
(* What an iPod shows from them.                                           *)
InOrder(rows, Place(_)) ==
  SetToSortSeq(rows, LAMBDA r, s : Place(r) < Place(s))
ShownItems(tables) == InOrder(tables.item, LAMBDA r : r.physical_order)
ShownContainers(tables) == InOrder(tables.container, LAMBDA r : r.name_order)
ShownMembers(pid, tables) ==
  Mapped(LAMBDA r : r.item_pid,
         InOrder({r \in tables.item_to_container : r.container_pid = pid},
                 LAMBDA r : r.physical_order))
=============================================================================
