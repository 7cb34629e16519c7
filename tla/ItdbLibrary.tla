---------------------------- MODULE ItdbLibrary ----------------------------
(***************************************************************************)
(* The in-memory iTunesDB of libgpod: the list of tracks, the list of      *)
(* playlists, the members of each playlist, and the functions of           *)
(* itdb_track.c and itdb_playlist.c that an application calls to change    *)
(* them, with the part of itdb_write() that renumbers the tracks.          *)
(*                                                                         *)
(* Playlists hold plain pointers to tracks: nothing in the library counts  *)
(* references, so whether a pointer is still good depends on the order in  *)
(* which the application calls the functions below.  The application is    *)
(* any program that passes pointers it owns: nothing is assumed of the     *)
(* order of its calls, so that playlists may point to tracks that were     *)
(* freed or never added, and any playlist may be the first one.            *)
(***************************************************************************)
EXTENDS GList

CONSTANTS
  Track,       \* Itdb_Track objects that may be allocated
  Playlist,    \* Itdb_Playlist objects that may be allocated
  DbId,        \* values of track->dbid, the value 0 excluded
  PlId,        \* values of playlist->id, the value 0 excluded
  NoId,        \* the value 0 of both
  NoPlaylist,  \* a NULL Itdb_Playlist pointer
  MaxMembers   \* bound on the length of playlist->members (model only)

ASSUME ConstantsAssumption ==
  /\ NoId \notin DbId \cup PlId
  /\ NoPlaylist \notin Playlist
  /\ MaxMembers \in Nat

FIRST_IPOD_ID == 52

VARIABLES
  tracks,      \* itdb->tracks
  playlists,   \* itdb->playlists
  trk,         \* what each Itdb_Track holds
  pls,         \* what each Itdb_Playlist holds
  pc,          \* where a running itdb_write() is, "idle" when none runs
  cursor       \* mpl->members left to handle in prepare_itdb_for_write()

vars == <<tracks, playlists, trk, pls, pc, cursor>>

Memory == {"none", "live", "freed"}   \* "none": not allocated yet

TrackRecord ==
  [mem : Memory, itdb : BOOLEAN, dbid : DbId \cup {NoId}, id : Nat]

PlaylistRecord ==
  [mem : Memory, itdb : BOOLEAN, id : PlId \cup {NoId}, mpl : BOOLEAN,
   spl : BOOLEAN, members : Seq(Track)]

TypeOK ==
  /\ tracks \in Seq(Track)
  /\ playlists \in Seq(Playlist)
  /\ trk \in [Track -> TrackRecord]
  /\ pls \in [Playlist -> PlaylistRecord]
  /\ pc \in {"idle", "reorder", "ids", "sections"}
  /\ cursor \in Nat

(* What an object holds that g_new0 has just allocated, or that nobody may *)
(* read because it is not allocated.                                       *)
BlankTrack(mem) == [mem |-> mem, itdb |-> FALSE, dbid |-> NoId, id |-> 0]
BlankPlaylist(mem) ==
  [mem |-> mem, itdb |-> FALSE, id |-> NoId, mpl |-> FALSE, spl |-> FALSE,
   members |-> <<>>]

Init ==
  /\ tracks = <<>>
  /\ playlists = <<>>
  /\ trk = [t \in Track |-> BlankTrack("none")]
  /\ pls = [p \in Playlist |-> BlankPlaylist("none")]
  /\ pc = "idle"
  /\ cursor = 0

-----------------------------------------------------------------------------
(* The ids a random 64-bit number may give: the loops in                   *)
(* itdb_track_set_defaults and itdb_playlist_add_internal draw again while *)
(* the id is taken in the list they add to.  That it also differs from the *)
(* ids of objects outside that list is left to chance there and is an      *)
(* assumption here.                                                        *)
OffListDbIds == {trk[t].dbid : t \in {u \in Track : ~Listed(u, tracks)}}
OffListPlIds == {pls[p].id : p \in {q \in Playlist : ~Listed(q, playlists)}}

DrawDbId ==
  (DbId \ {trk[tracks[i]].dbid : i \in DOMAIN tracks}) \ OffListDbIds
DrawPlId ==
  (PlId \ {pls[playlists[i]].id : i \in DOMAIN playlists}) \ OffListPlIds

IsMpl(p) == pls[p].mpl

(* itdb_playlist_mpl: the first playlist if it is a master playlist.       *)
Mpl ==
  IF playlists # <<>> /\ IsMpl(playlists[1]) THEN playlists[1] ELSE NoPlaylist

-----------------------------------------------------------------------------
(* Tracks.  One thread uses a database: an application calls nothing while *)
(* itdb_write() runs.                                                      *)

TrackLive(t) == trk[t].mem = "live"
PlaylistLive(p) == pls[p].mem = "live"

UnchangedWrite == UNCHANGED <<pc, cursor>>
UnchangedTracks == UNCHANGED <<tracks, trk>>
UnchangedPlaylists == UNCHANGED <<playlists, pls>>

TrackNew(t) ==
  /\ pc = "idle"
  /\ trk[t].mem = "none"
  /\ trk' = [trk EXCEPT ![t] = BlankTrack("live")]
  /\ UNCHANGED tracks /\ UnchangedPlaylists /\ UnchangedWrite

(* itdb_track_add with itdb_track_set_defaults.  The application does not  *)
(* add a track the list already holds.                                     *)
TrackAdd(t, place) ==
  /\ pc = "idle"
  /\ TrackLive(t)
  /\ ~Listed(t, tracks)
  /\ \E id \in IF trk[t].dbid = NoId THEN DrawDbId ELSE {trk[t].dbid} :
       trk' = [trk EXCEPT ![t] = [@ EXCEPT !.itdb = TRUE, !.dbid = id]]
  /\ tracks' = InsertAt(tracks, place, t)
  /\ UnchangedPlaylists /\ UnchangedWrite

(* itdb_track_free, for a track the database does not own.                 *)
TrackFree(t) ==
  /\ pc = "idle"
  /\ TrackLive(t)
  /\ ~Listed(t, tracks)
  /\ trk' = [trk EXCEPT ![t] = BlankTrack("freed")]
  /\ UNCHANGED tracks /\ UnchangedPlaylists /\ UnchangedWrite

(* The playlists keep their pointers to a removed or an unlinked track.    *)
TrackRemove(t) ==
  /\ pc = "idle"
  /\ TrackLive(t)
  /\ trk[t].itdb
  /\ tracks' = GListRemove(tracks, t)
  /\ trk' = [trk EXCEPT ![t] = BlankTrack("freed")]
  /\ UnchangedPlaylists /\ UnchangedWrite

TrackUnlink(t) ==
  /\ pc = "idle"
  /\ TrackLive(t)
  /\ trk[t].itdb
  /\ tracks' = GListRemove(tracks, t)
  /\ trk' = [trk EXCEPT ![t].itdb = FALSE]
  /\ UnchangedPlaylists /\ UnchangedWrite

(* The copy keeps the dbid and the iPod id of the original.                *)
TrackDuplicate(t, dup) ==
  /\ pc = "idle"
  /\ TrackLive(t)
  /\ trk[dup].mem = "none"
  /\ trk' = [trk EXCEPT ![dup] = [trk[t] EXCEPT !.itdb = FALSE]]
  /\ UNCHANGED tracks /\ UnchangedPlaylists /\ UnchangedWrite

-----------------------------------------------------------------------------
(* Playlists.                                                              *)

PlaylistNew(p, spl) ==
  /\ pc = "idle"
  /\ pls[p].mem = "none"
  /\ pls' = [pls EXCEPT ![p] = [BlankPlaylist("live") EXCEPT !.spl = spl]]
  /\ UNCHANGED playlists /\ UnchangedTracks /\ UnchangedWrite

PlaylistSetMpl(p) ==
  /\ pc = "idle"
  /\ PlaylistLive(p)
  /\ pls' = [pls EXCEPT ![p].mpl = TRUE]
  /\ UNCHANGED playlists /\ UnchangedTracks /\ UnchangedWrite

PlaylistAdd(p, place) ==
  /\ pc = "idle"
  /\ PlaylistLive(p)
  /\ ~Listed(p, playlists)
  /\ \E id \in IF pls[p].id = NoId THEN DrawPlId ELSE {pls[p].id} :
       pls' = [pls EXCEPT ![p] = [@ EXCEPT !.itdb = TRUE, !.id = id]]
  /\ playlists' = InsertAt(playlists, place, p)
  /\ UnchangedTracks /\ UnchangedWrite

PlaylistMove(p, place) ==
  /\ pc = "idle"
  /\ PlaylistLive(p)
  /\ pls[p].itdb
  /\ playlists' = InsertAt(GListRemove(playlists, p), place, p)
  /\ UNCHANGED pls /\ UnchangedTracks /\ UnchangedWrite

(* itdb_playlist_free, for a playlist the database does not own.           *)
PlaylistFree(p) ==
  /\ pc = "idle"
  /\ PlaylistLive(p)
  /\ ~pls[p].itdb
  /\ pls' = [pls EXCEPT ![p] = BlankPlaylist("freed")]
  /\ UNCHANGED playlists /\ UnchangedTracks /\ UnchangedWrite

PlaylistRemove(p) ==
  /\ pc = "idle"
  /\ PlaylistLive(p)
  /\ pls[p].itdb
  /\ playlists' = GListRemove(playlists, p)
  /\ pls' = [pls EXCEPT ![p] = BlankPlaylist("freed")]
  /\ UnchangedTracks /\ UnchangedWrite

PlaylistUnlink(p) ==
  /\ pc = "idle"
  /\ PlaylistLive(p)
  /\ pls[p].itdb
  /\ playlists' = GListRemove(playlists, p)
  /\ pls' = [pls EXCEPT ![p].itdb = FALSE]
  /\ UnchangedTracks /\ UnchangedWrite

(* Mutants: the memcpy keeps the id, or keeps the itdb pointer.            *)
PlaylistDuplicateKeepsId(p, dup) ==
  /\ pc = "idle"
  /\ PlaylistLive(p)
  /\ pls[dup].mem = "none"
  /\ pls' = [pls EXCEPT ![dup] = [pls[p] EXCEPT !.itdb = FALSE]]
  /\ UNCHANGED playlists /\ UnchangedTracks /\ UnchangedWrite

PlaylistDuplicateKeepsItdb(p, dup) ==
  /\ pc = "idle"
  /\ PlaylistLive(p)
  /\ pls[dup].mem = "none"
  /\ pls' = [pls EXCEPT ![dup] = [pls[p] EXCEPT !.id = NoId]]
  /\ UNCHANGED playlists /\ UnchangedTracks /\ UnchangedWrite

(* The copy has the members of the original, its type and no id.           *)
PlaylistDuplicate(p, dup) ==
  /\ pc = "idle"
  /\ PlaylistLive(p)
  /\ pls[dup].mem = "none"
  /\ pls' = [pls EXCEPT ![dup] = [pls[p] EXCEPT !.itdb = FALSE, !.id = NoId]]
  /\ UNCHANGED playlists /\ UnchangedTracks /\ UnchangedWrite

(* itdb_playlist_add_track: nothing checks that the track is in            *)
(* itdb->tracks or that the playlist does not hold it yet.                 *)
PlaylistAddTrack(p, t, place) ==
  /\ pc = "idle"
  /\ PlaylistLive(p) /\ TrackLive(t)
  /\ pls[p].itdb
  /\ Len(pls[p].members) < MaxMembers
  /\ trk' = [trk EXCEPT ![t].itdb = TRUE]
  /\ pls' = [pls EXCEPT ![p].members = InsertAt(@, place, t)]
  /\ UNCHANGED <<tracks, playlists>> /\ UnchangedWrite

(* itdb_playlist_remove_track for a playlist; for NULL it is the master    *)
(* playlist of the track's database.                                       *)
PlaylistRemoveTrack(p, t) ==
  /\ pc = "idle"
  /\ PlaylistLive(p) /\ TrackLive(t)
  /\ pls' = [pls EXCEPT ![p].members = GListRemove(@, t)]
  /\ UNCHANGED playlists /\ UnchangedTracks /\ UnchangedWrite

MplRemoveTrack(t) ==
  /\ TrackLive(t)
  /\ trk[t].itdb
  /\ Mpl # NoPlaylist
  /\ PlaylistRemoveTrack(Mpl, t)

(* itdb_spl_update.  Which tracks match is decided by their metadata and   *)
(* the rules, both the application's to change: any tracks of the database *)
(* may.  Without limits the members follow the order of itdb->tracks; with *)
(* limits the first ones of a sort are picked, which may be random.        *)
SplUpdate(p, limits) ==
  /\ pc = "idle"
  /\ PlaylistLive(p)
  /\ pls[p].itdb /\ pls[p].spl
  /\ \E n \in 0 .. Len(tracks) : \E pick \in [1 .. n -> DOMAIN tracks] :
       /\ IsInjective(pick)
       /\ limits \/ \A i, j \in 1 .. n : i < j => pick[i] < pick[j]
       /\ pls' = [pls EXCEPT ![p].members = [i \in 1 .. n |-> tracks[pick[i]]]]
  /\ UNCHANGED playlists /\ UnchangedTracks /\ UnchangedWrite

-----------------------------------------------------------------------------
(* itdb_write: prepare_itdb_for_write, then the sections of the file.      *)

(* Without a master playlist in front, prepare_itdb_for_write gives up     *)
(* and the sections are written with the ids the tracks happen to have.    *)
WriteBegin ==
  /\ pc = "idle"
  /\ IF Mpl = NoPlaylist
     THEN pc' = "sections" /\ cursor' = 0
     ELSE pc' = "reorder" /\ cursor' = Len(pls[Mpl].members)
  /\ UnchangedTracks /\ UnchangedPlaylists

(* Mutant: the track is appended.                                          *)
WriteReorderAppends ==
  /\ pc = "reorder"
  /\ cursor > 0
  /\ LET t == pls[Mpl].members[cursor]
     IN IF Listed(t, tracks)
        THEN /\ tracks' = Append(GListRemove(tracks, t), t)
             /\ cursor' = cursor - 1
             /\ UNCHANGED pc
        ELSE pc' = "sections" /\ cursor' = 0 /\ UNCHANGED tracks
  /\ UNCHANGED trk /\ UnchangedPlaylists

(* Mutant: the track is looked for behind those moved already.             *)
WriteReorderSearchesRest ==
  /\ pc = "reorder"
  /\ cursor > 0
  /\ LET t == pls[Mpl].members[cursor]
         moved == Len(pls[Mpl].members) - cursor
     IN IF Listed(t, SubSeq(tracks, moved + 1, Len(tracks)))
        THEN /\ tracks' = InsertAt(GListRemove(tracks, t), 1, t)
             /\ cursor' = cursor - 1
             /\ UNCHANGED pc
        ELSE pc' = "sections" /\ cursor' = 0 /\ UNCHANGED tracks
  /\ UNCHANGED trk /\ UnchangedPlaylists

(* One turn of the loop that walks mpl->members from the last to the       *)
(* first: the track moves to the front of itdb->tracks.                    *)
WriteReorder ==
  /\ pc = "reorder"
  /\ cursor > 0
  /\ LET t == pls[Mpl].members[cursor]
     IN IF Listed(t, tracks)
        THEN /\ tracks' = InsertAt(GListRemove(tracks, t), 1, t)
             /\ cursor' = cursor - 1
             /\ UNCHANGED pc
        ELSE pc' = "sections" /\ cursor' = 0 /\ UNCHANGED tracks
  /\ UNCHANGED trk /\ UnchangedPlaylists

(* Mutant: only the tracks of the master playlist are numbered.            *)
WriteIdsOfMpl ==
  /\ pc = "reorder"
  /\ cursor = 0
  /\ trk' = [t \in Track |->
               IF Listed(t, pls[Mpl].members)
               THEN [trk[t] EXCEPT !.id =
                       FIRST_IPOD_ID - 1 + FirstPlace(t, pls[Mpl].members)]
               ELSE trk[t]]
  /\ pc' = "ids"
  /\ UNCHANGED <<tracks, cursor>> /\ UnchangedPlaylists

(* The loop is over: every listed track gets its id for the file.          *)
WriteIds ==
  /\ pc = "reorder"
  /\ cursor = 0
  /\ trk' = [t \in Track |->
               IF Listed(t, tracks)
               THEN [trk[t] EXCEPT !.id = FIRST_IPOD_ID - 1 + FirstPlace(t, tracks)]
               ELSE trk[t]]
  /\ pc' = "ids"
  /\ UNCHANGED <<tracks, cursor>> /\ UnchangedPlaylists

(* The sections are generated from what is in memory and the call returns. *)
WriteSections ==
  /\ pc \in {"ids", "sections"}
  /\ pc' = "idle"
  /\ UNCHANGED cursor /\ UnchangedTracks /\ UnchangedPlaylists

-----------------------------------------------------------------------------
TrackNext ==
  \E t \in Track :
    \/ TrackNew(t)
    \/ \E place \in Places(tracks) : TrackAdd(t, place)
    \/ TrackFree(t)
    \/ TrackRemove(t)
    \/ TrackUnlink(t)
    \/ \E dup \in Track : TrackDuplicate(t, dup)

PlaylistNext ==
  \E p \in Playlist :
    \/ \E spl \in BOOLEAN : PlaylistNew(p, spl)
    \/ PlaylistSetMpl(p)
    \/ \E place \in Places(playlists) : PlaylistAdd(p, place)
    \/ \E place \in DOMAIN playlists : PlaylistMove(p, place)
    \/ PlaylistFree(p)
    \/ PlaylistRemove(p)
    \/ PlaylistUnlink(p)
    \/ \E dup \in Playlist : PlaylistDuplicate(p, dup)
    \/ \E limits \in BOOLEAN : SplUpdate(p, limits)

MemberNext ==
  \E t \in Track :
    \/ \E p \in Playlist : \E place \in Places(pls[p].members) :
         PlaylistAddTrack(p, t, place)
    \/ \E p \in Playlist : PlaylistRemoveTrack(p, t)
    \/ MplRemoveTrack(t)

WriteNext == WriteBegin \/ WriteReorder \/ WriteIds \/ WriteSections

Next == TrackNext \/ PlaylistNext \/ MemberNext \/ WriteNext

Spec == Init /\ [][Next]_vars

-----------------------------------------------------------------------------
(* Properties of every application.                                        *)

(* The two lists never hold an object twice nor one that was freed, and    *)
(* the itdb pointers agree with them: itdb_playlist_remove and             *)
(* itdb_playlist_unlink trust pl->itdb, itdb_free frees what is listed.    *)
TrackListSound ==
  /\ IsInjective(tracks)
  /\ \A t \in Track : Listed(t, tracks) => TrackLive(t) /\ trk[t].itdb

PlaylistListSound ==
  /\ IsInjective(playlists)
  /\ \A p \in Playlist : Listed(p, playlists) => PlaylistLive(p)
  /\ \A p \in Playlist : pls[p].itdb <=> Listed(p, playlists)

ListsSound == TrackListSound /\ PlaylistListSound

(* itdb_playlist_by_id and the "playlist is" rules of smart playlists find *)
(* at most one playlist: ids stay distinct through duplicating, unlinking  *)
(* and adding again.                                                       *)
PlaylistIdsUnique ==
  \A p, q \in Playlist :
    Listed(p, playlists) /\ Listed(q, playlists) =>
      pls[p].id # NoId /\ (pls[p].id = pls[q].id => p = q)

(* What prepare_itdb_for_write promises to On-The-Go playlists and to      *)
(* "Play Counts", which name tracks by position: once it has finished, the *)
(* tracks of the master playlist come first and in its order.              *)
TracksInMplOrder ==
  pc = "ids" =>
    LET members == pls[Mpl].members
    IN IsInjective(members) =>
         /\ Len(members) <= Len(tracks)
         /\ \A i \in DOMAIN members : tracks[i] = members[i]

(* prepare_itdb_for_write numbers the tracks exactly when there is a       *)
(* master playlist in front and the database has all its members, also     *)
(* members held twice, which the loop finds again in the list it has       *)
(* changed; otherwise it returns early, and a later turn of the loop does  *)
(* not hide what an earlier one met.                                       *)
AllListed(p) ==
  \A t \in Track : Listed(t, pls[p].members) => Listed(t, tracks)

PrepareOutcome ==
  /\ pc = "ids" => Mpl # NoPlaylist /\ AllListed(Mpl)
  /\ pc = "sections" => Mpl = NoPlaylist \/ ~AllListed(Mpl)

(* Once the tracks are numbered, the id that write_playlist_mhips writes   *)
(* for a member that the database has is the id of that track and of no    *)
(* other, so that get_playlist finds the same track when the file is read  *)
(* back; and in the master playlist that is every member.                  *)
MemberIdsResolve ==
  pc = "ids" =>
    \A p \in Playlist, t, u \in Track :
      /\ Listed(t, pls[p].members)
      /\ p = Mpl \/ Listed(t, tracks)
      /\ Listed(u, tracks)
      /\ trk[u].id = trk[t].id
      => u = t

(* Renumbering moves tracks and never loses one.                           *)
ReorderKeepsTracks ==
  [][WriteReorder => \A t \in Track : Listed(t, tracks) <=> Listed(t, tracks')]_vars

=============================================================================
