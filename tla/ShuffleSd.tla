------------------------------ MODULE ShuffleSd ------------------------------
(***************************************************************************)
(* The iTunesSD that Shuffles play from, as itdb_shuffle_write_file()      *)
(* makes it from an export: a list of tracks on the first ones, and a file *)
(* with offsets on the others.  A cell is a header, offsets count cells    *)
(* from 0.                                                                 *)
(***************************************************************************)
EXTENDS ItdbExport

(* Podcasts and audiobooks are counted apart.                              *)
Standard(t, d) == d.media[t] \notin {"podcast", "audiobook"}
CountStandard(tracks, d) == Len(SelectSeq(tracks, LAMBDA t : Standard(t, d)))

IsAudiobooks(pl, d) == \A t \in ToSet(pl.members) : d.media[t] = "audiobook"

ListType(pl, d) ==
  IF IsMpl(pl) THEN 1
  ELSE IF pl.podcasts THEN 3
  ELSE IF IsAudiobooks(pl, d) THEN 4 ELSE 2

(* write_rths.                                                             *)
Rths(t, d, x) ==
  [tag |-> "rths", path |-> d.text[t]["path"], dbid |-> t,
   album |-> AlbumNumber(t, d, x), artist |-> ArtistNumber(t, d, x)]

(* write_hths: the offsets are filled in as the tracks are written.        *)
Hths(first, d, x) ==
  <<[tag |-> "hths", at |-> [i \in DOMAIN x.order |-> first + i]]>>
    \o Mapped(LAMBDA t : Rths(t, d, x), x.order)

\* Mutant: the members are numbered from 1.
LphsFromOne(pl, d, x) ==
  [tag |-> "lphs", num |-> Len(pl.members), standard |-> CountStandard(pl.members, d),
   id |-> IF IsMpl(pl) THEN 0 ELSE pl.id, type |-> ListType(pl, d),
   tracks |-> Mapped(LAMBDA t : PlaceIn(x.order, t), pl.members)]

(* write_lphs: members by their place in the track list.                   *)
Lphs(pl, d, x) ==
  [tag |-> "lphs", num |-> Len(pl.members), standard |-> CountStandard(pl.members, d),
   id |-> IF IsMpl(pl) THEN 0 ELSE pl.id, type |-> ListType(pl, d),
   tracks |-> Mapped(LAMBDA t : PlaceIn(x.order, t) - 1, pl.members)]

(* write_hphs: playlists without members are left out.                     *)
Hphs(first, d, x) ==
  LET lists == SelectSeq(d.lists, LAMBDA pl : pl.members # <<>>)
      cells == Mapped(LAMBDA pl : Lphs(pl, d, x), lists)
      count(type) == Len(SelectSeq(cells, LAMBDA c : c.type = type))
  IN <<[tag |-> "hphs", num |-> Len(lists), master |-> count(1),
        nopodcasts |-> Len(lists) - count(3), noaudiobooks |-> Len(lists) - count(4),
        at |-> [i \in DOMAIN lists |-> first + i]]>> \o cells

(* write_bdhs, of which the last numbers are filled in by the others.      *)
NewSd(d, x) ==
  LET hths == 1
      hphs == hths + 1 + Len(x.order)
      lists == Hphs(hphs, d, x)
  IN <<[tag |-> "bdhs", tracks |-> Len(x.order), lists |-> lists[1].num,
        standard |-> CountStandard(x.order, d), hths |-> hths, hphs |-> hphs]>>
       \o Hths(hths, d, x) \o lists

(* The older format.                                                       *)
OldSd(d, x) ==
  <<[tag |-> "head", tracks |-> Len(x.order)]>>
    \o Mapped(LAMBDA t : [tag |-> "song", path |-> d.text[t]["path"]], x.order)

-----------------------------------------------------------------------------
(* What a Shuffle finds by the offsets.                                    *)
SdAt(sd, offset) == sd[offset + 1]
SdTracks(sd) ==
  IF sd[1].tag = "head" THEN SubSeq(sd, 2, 1 + sd[1].tracks)
  ELSE Mapped(LAMBDA o : SdAt(sd, o), SdAt(sd, sd[1].hths).at)
SdLists(sd) == Mapped(LAMBDA o : SdAt(sd, o), SdAt(sd, sd[1].hphs).at)
=============================================================================
