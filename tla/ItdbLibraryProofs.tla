------------------------- MODULE ItdbLibraryProofs -------------------------
(* Proofs about ItdbLibrary, for any number of tracks and playlists.       *)
EXTENDS ItdbLibrary, GListProofs

-----------------------------------------------------------------------------
(* Types.                                                                  *)

LEMMA TypeOKInit == Init => TypeOK
  BY DEF Init, TypeOK, TrackRecord, PlaylistRecord, Memory, BlankTrack,
         BlankPlaylist

LEMMA TypeOKTrackNext ==
  ASSUME TypeOK, TrackNext
  PROVE  TypeOK'
<1> USE DEF TypeOK, TrackRecord, Memory, BlankTrack, UnchangedPlaylists,
            UnchangedWrite
<1>1. ASSUME NEW t \in Track, TrackNew(t) PROVE TypeOK'
  BY <1>1 DEF TrackNew
<1>2. ASSUME NEW t \in Track, NEW place \in Places(tracks), TrackAdd(t, place)
      PROVE  TypeOK'
  <2>1. tracks' \in Seq(Track)
    BY <1>2, InsertAtPlaces DEF TrackAdd
  <2>2. trk' \in [Track -> TrackRecord]
    <3>1. PICK id \in DbId \cup {NoId} :
            trk' = [trk EXCEPT ![t] = [@ EXCEPT !.itdb = TRUE, !.dbid = id]]
      BY <1>2 DEF TrackAdd, DrawDbId
    <3>2. [trk[t] EXCEPT !.itdb = TRUE, !.dbid = id] \in TrackRecord
      OBVIOUS
    <3> QED BY <3>1, <3>2
  <2> QED BY <1>2, <2>1, <2>2 DEF TrackAdd
<1>3. ASSUME NEW t \in Track, TrackFree(t) PROVE TypeOK'
  BY <1>3 DEF TrackFree
<1>4. ASSUME NEW t \in Track, TrackRemove(t) \/ TrackUnlink(t) PROVE TypeOK'
  <2>1. tracks' = GListRemove(tracks, t)
    BY <1>4 DEF TrackRemove, TrackUnlink
  <2>2. GListRemove(tracks, t) \in Seq(Track)
    <3>1. tracks \in Seq(Track)
      OBVIOUS
    <3> QED BY ONLY <3>1, RemoveListed
  <2>3. trk' \in [Track -> TrackRecord]
    <3>1. CASE TrackRemove(t)
      BY <3>1 DEF TrackRemove
    <3>2. CASE TrackUnlink(t)
      <4>1. [trk[t] EXCEPT !.itdb = FALSE] \in TrackRecord
        OBVIOUS
      <4> QED BY <3>2, <4>1 DEF TrackUnlink
    <3> QED BY <1>4, <3>1, <3>2
  <2>4. UNCHANGED <<playlists, pls, pc, cursor>>
    BY <1>4 DEF TrackRemove, TrackUnlink
  <2> QED BY <2>1, <2>2, <2>3, <2>4
<1>5. ASSUME NEW t \in Track, NEW dup \in Track, TrackDuplicate(t, dup)
      PROVE  TypeOK'
  <2>1. [trk[t] EXCEPT !.itdb = FALSE] \in TrackRecord
    OBVIOUS
  <2> QED BY <1>5, <2>1 DEF TrackDuplicate
<1> QED BY <1>1, <1>2, <1>3, <1>4, <1>5 DEF TrackNext

LEMMA TypeOKPlaylistNext ==
  ASSUME TypeOK, PlaylistNext
  PROVE  TypeOK'
<1> USE DEF TypeOK, PlaylistRecord, Memory, BlankPlaylist, UnchangedTracks,
            UnchangedWrite
<1>1. ASSUME NEW p \in Playlist, NEW spl \in BOOLEAN, PlaylistNew(p, spl)
      PROVE  TypeOK'
  <2>1. BlankPlaylist("live") \in PlaylistRecord
    OBVIOUS
  <2>2. ASSUME NEW blank \in PlaylistRecord
        PROVE  [blank EXCEPT !.spl = spl] \in PlaylistRecord
    OBVIOUS
  <2>3. [BlankPlaylist("live") EXCEPT !.spl = spl] \in PlaylistRecord
    <3> HIDE DEF BlankPlaylist, PlaylistRecord
    <3> QED BY <2>1, <2>2
  <2> QED BY <1>1, <2>3 DEF PlaylistNew
<1>2. ASSUME NEW p \in Playlist, PlaylistSetMpl(p) PROVE TypeOK'
  BY <1>2 DEF PlaylistSetMpl
<1>3. ASSUME NEW p \in Playlist, NEW place \in Places(playlists),
             PlaylistAdd(p, place)
      PROVE  TypeOK'
  <2>1. playlists' \in Seq(Playlist)
    BY <1>3, InsertAtPlaces DEF PlaylistAdd
  <2>2. pls' \in [Playlist -> PlaylistRecord]
    <3>1. PICK id \in PlId \cup {NoId} :
            pls' = [pls EXCEPT ![p] = [@ EXCEPT !.itdb = TRUE, !.id = id]]
      BY <1>3 DEF PlaylistAdd, DrawPlId
    <3>2. [pls[p] EXCEPT !.itdb = TRUE, !.id = id] \in PlaylistRecord
      OBVIOUS
    <3> QED BY <3>1, <3>2
  <2> QED BY <1>3, <2>1, <2>2 DEF PlaylistAdd
<1>4. ASSUME NEW p \in Playlist, NEW place \in DOMAIN playlists,
             PlaylistMove(p, place)
      PROVE  TypeOK'
  <2>1. GListRemove(playlists, p) \in Seq(Playlist)
    BY RemoveListed
  <2>2. place \in Places(GListRemove(playlists, p))
    BY <2>1, RemoveLength DEF Places
  <2> QED BY <1>4, <2>1, <2>2, InsertAtPlaces DEF PlaylistMove
<1>5. ASSUME NEW p \in Playlist, PlaylistFree(p) PROVE TypeOK'
  BY <1>5 DEF PlaylistFree
<1>6. ASSUME NEW p \in Playlist, PlaylistRemove(p) PROVE TypeOK'
  <2>1. GListRemove(playlists, p) \in Seq(Playlist)
    BY RemoveListed
  <2> QED BY <1>6, <2>1 DEF PlaylistRemove
<1>7. ASSUME NEW p \in Playlist, PlaylistUnlink(p) PROVE TypeOK'
  <2>1. GListRemove(playlists, p) \in Seq(Playlist)
    BY RemoveListed
  <2> QED BY <1>7, <2>1 DEF PlaylistUnlink
<1>8. ASSUME NEW p \in Playlist, NEW dup \in Playlist, PlaylistDuplicate(p, dup)
      PROVE  TypeOK'
  <2>1. [pls[p] EXCEPT !.itdb = FALSE, !.id = NoId] \in PlaylistRecord
    OBVIOUS
  <2>2. pls' \in [Playlist -> PlaylistRecord]
    BY <1>8, <2>1 DEF PlaylistDuplicate
  <2> QED BY <1>8, <2>2 DEF PlaylistDuplicate
<1>9. ASSUME NEW p \in Playlist, NEW limits \in BOOLEAN, SplUpdate(p, limits)
      PROVE  TypeOK'
  <2>0. PICK n \in 0 .. Len(tracks) : \E pick \in [1 .. n -> DOMAIN tracks] :
          pls' = [pls EXCEPT ![p].members = [i \in 1 .. n |-> tracks[pick[i]]]]
    BY <1>9 DEF SplUpdate
  <2>1. PICK pick \in [1 .. n -> DOMAIN tracks] :
          pls' = [pls EXCEPT ![p].members = [i \in 1 .. n |-> tracks[pick[i]]]]
    BY <2>0
  <2>2. [i \in 1 .. n |-> tracks[pick[i]]] \in Seq(Track)
    OBVIOUS
  <2>3. pls' \in [Playlist -> PlaylistRecord]
    <3>1. [pls[p] EXCEPT !.members = [i \in 1 .. n |-> tracks[pick[i]]]]
            \in PlaylistRecord
      BY <2>2
    <3> QED BY <2>1, <3>1
  <2>4. UNCHANGED playlists /\ UnchangedTracks /\ UnchangedWrite
    BY <1>9 DEF SplUpdate
  <2> QED BY <2>3, <2>4
<1> QED BY <1>1, <1>2, <1>3, <1>4, <1>5, <1>6, <1>7, <1>8, <1>9
        DEF PlaylistNext

LEMMA TypeOKMemberNext ==
  ASSUME TypeOK, MemberNext
  PROVE  TypeOK'
<1> USE DEF TypeOK, PlaylistRecord, TrackRecord, UnchangedTracks, UnchangedWrite
<1>1. ASSUME NEW t \in Track, NEW p \in Playlist,
             NEW place \in Places(pls[p].members), PlaylistAddTrack(p, t, place)
      PROVE  TypeOK'
  <2>1. InsertAt(pls[p].members, place, t) \in Seq(Track)
    BY InsertAtPlaces
  <2>2. /\ pls' = [pls EXCEPT ![p].members = InsertAt(@, place, t)]
        /\ trk' = [trk EXCEPT ![t].itdb = TRUE]
        /\ UNCHANGED <<tracks, playlists, pc, cursor>>
    BY <1>1 DEF PlaylistAddTrack
  <2>3. [pls[p] EXCEPT !.members = InsertAt(@, place, t)] \in PlaylistRecord
    BY <2>1
  <2>4. pls' \in [Playlist -> PlaylistRecord]
    BY <2>2, <2>3
  <2>5. trk' \in [Track -> TrackRecord]
    BY <2>2
  <2> QED BY <2>2, <2>4, <2>5
<1>2. ASSUME NEW t \in Track, NEW p \in Playlist, PlaylistRemoveTrack(p, t)
      PROVE  TypeOK'
  <2>1. GListRemove(pls[p].members, t) \in Seq(Track)
    BY RemoveListed
  <2> QED BY <1>2, <2>1 DEF PlaylistRemoveTrack
<1>3. ASSUME NEW t \in Track, MplRemoveTrack(t) PROVE TypeOK'
  <2>1. Mpl \in Playlist
    BY <1>3 DEF MplRemoveTrack, Mpl
  <2> QED BY <1>2, <1>3, <2>1 DEF MplRemoveTrack
<1> QED BY <1>1, <1>2, <1>3 DEF MemberNext

LEMMA TypeOKWriteNext ==
  ASSUME TypeOK, WriteNext
  PROVE  TypeOK'
<1> USE DEF TypeOK, PlaylistRecord, TrackRecord, UnchangedTracks,
            UnchangedPlaylists, UnchangedWrite
<1>1. Mpl # NoPlaylist => Mpl \in Playlist
  BY DEF Mpl
<1>2. CASE WriteBegin
  BY <1>1, <1>2 DEF WriteBegin
<1>3. CASE WriteReorder
  <2>1. CASE Listed(pls[Mpl].members[cursor], tracks)
    <3> DEFINE t == pls[Mpl].members[cursor]
               rest == GListRemove(tracks, t)
    <3>1. t \in Track
      BY <2>1 DEF Listed
    <3>2. rest \in Seq(Track) /\ 1 \in Places(rest)
      <4>1. rest \in Seq(Track)
        BY RemoveListed
      <4> QED BY <4>1 DEF Places
    <3> HIDE DEF rest
    <3>3. InsertAt(rest, 1, t) \in Seq(Track)
      BY <3>1, <3>2, InsertAtPlaces
    <3> QED BY <1>3, <2>1, <3>3 DEF WriteReorder, rest
  <2>2. CASE ~Listed(pls[Mpl].members[cursor], tracks)
    BY <1>3, <2>2 DEF WriteReorder
  <2> QED BY <2>1, <2>2
<1>4. CASE WriteIds
  <2>1. ASSUME NEW t \in Track, Listed(t, tracks)
        PROVE  FIRST_IPOD_ID - 1 + FirstPlace(t, tracks) \in Nat
    BY <2>1, GListRemovePlaces DEF FIRST_IPOD_ID
  <2>2. trk' \in [Track -> TrackRecord]
    <3>1. ASSUME NEW t \in Track, NEW n \in Nat
          PROVE  [trk[t] EXCEPT !.id = n] \in TrackRecord
      OBVIOUS
    <3> QED BY <1>4, <2>1, <3>1 DEF WriteIds
  <2> QED BY <1>4, <2>2 DEF WriteIds
<1>5. CASE WriteSections
  BY <1>5 DEF WriteSections
<1> QED BY <1>2, <1>3, <1>4, <1>5 DEF WriteNext

(* TypeOK holds in every state of every application: no call of the        *)
(* library leaves a list that holds something else than its objects.       *)
THEOREM TypeCorrect == Spec => []TypeOK
<1>1. Init => TypeOK
  BY TypeOKInit
<1>2. TypeOK /\ [Next]_vars => TypeOK'
  <2> SUFFICES ASSUME TypeOK, [Next]_vars PROVE TypeOK'
    OBVIOUS
  <2>1. CASE Next
    BY <2>1, TypeOKTrackNext, TypeOKPlaylistNext, TypeOKMemberNext,
       TypeOKWriteNext DEF Next
  <2>2. CASE UNCHANGED vars
    BY <2>2 DEF vars, TypeOK
  <2> QED BY <2>1, <2>2
<1> QED BY <1>1, <1>2, PTL DEF Spec

-----------------------------------------------------------------------------
(* The inductive invariant.  Ids must be distinct among all playlists, not *)
(* only the listed ones, because an unlinked playlist may be added again   *)
(* and keeps its id; and TracksInMplOrder needs to know, at every turn of  *)
(* the loop, where the members handled so far are.                         *)

IdsDistinct ==
  /\ \A p, q \in Playlist : pls[p].id = pls[q].id => pls[p].id = NoId \/ p = q
  /\ \A p \in Playlist : Listed(p, playlists) => pls[p].id # NoId

MplMembers == pls[Mpl].members

ReorderProgress ==
  pc \in {"reorder", "ids"} =>
    /\ Mpl # NoPlaylist
    /\ cursor <= Len(MplMembers)
    /\ pc = "ids" => cursor = 0
    /\ IsInjective(MplMembers) =>
         /\ Len(MplMembers) - cursor <= Len(tracks)
         /\ \A i \in cursor + 1 .. Len(MplMembers) :
              tracks[i - cursor] = MplMembers[i]

LibraryInv == TypeOK /\ ListsSound /\ IdsDistinct /\ ReorderProgress

LEMMA LibraryInvInit == Init => LibraryInv
<1> SUFFICES ASSUME Init PROVE LibraryInv
  OBVIOUS
<1>1. TypeOK
  BY TypeOKInit
<1>2. ListsSound
  BY DEF Init, ListsSound, TrackListSound, PlaylistListSound, Listed,
         IsInjective, BlankPlaylist
<1>3. IdsDistinct
  BY DEF Init, IdsDistinct, Listed, BlankPlaylist
<1>4. ReorderProgress
  BY DEF Init, ReorderProgress
<1> QED BY <1>1, <1>2, <1>3, <1>4 DEF LibraryInv

LEMMA LibraryInvImplies ==
  LibraryInv => ListsSound /\ PlaylistIdsUnique /\ TracksInMplOrder
<1> SUFFICES ASSUME LibraryInv
             PROVE  ListsSound /\ PlaylistIdsUnique /\ TracksInMplOrder
  OBVIOUS
<1>1. PlaylistIdsUnique
  BY DEF LibraryInv, IdsDistinct, PlaylistIdsUnique
<1>2. TracksInMplOrder
  <2> SUFFICES ASSUME pc = "ids", IsInjective(MplMembers)
               PROVE  /\ Len(MplMembers) <= Len(tracks)
                      /\ \A i \in DOMAIN MplMembers : tracks[i] = MplMembers[i]
    BY DEF TracksInMplOrder, MplMembers
  <2>1. cursor = 0 /\ Mpl # NoPlaylist
    BY DEF LibraryInv, ReorderProgress
  <2>2. Mpl \in Playlist
    BY <2>1 DEF Mpl, LibraryInv, TypeOK
  <2>3. MplMembers \in Seq(Track)
    BY <2>2 DEF MplMembers, LibraryInv, TypeOK, PlaylistRecord
  <2>4. /\ Len(MplMembers) - 0 <= Len(tracks)
        /\ \A i \in 1 .. Len(MplMembers) : tracks[i - 0] = MplMembers[i]
    BY <2>1 DEF LibraryInv, ReorderProgress
  <2> QED BY <2>3, <2>4 DEF LibraryInv, TypeOK
<1> QED BY <1>1, <1>2 DEF LibraryInv

(* Calls about tracks touch neither the playlists nor a running write.     *)
LEMMA TrackNextSound ==
  ASSUME TypeOK, TrackListSound, TrackNext
  PROVE  TrackListSound' /\ UNCHANGED <<playlists, pls>> /\ pc' = "idle"
<1> USE DEF TypeOK, TrackRecord, TrackListSound, TrackLive, UnchangedPlaylists,
            UnchangedWrite
<1>1. ASSUME NEW t \in Track, TrackNew(t)
      PROVE  TrackListSound' /\ UNCHANGED <<playlists, pls>> /\ pc' = "idle"
  BY <1>1 DEF TrackNew, BlankTrack
<1>2. ASSUME NEW t \in Track, NEW place \in Places(tracks), TrackAdd(t, place)
      PROVE  TrackListSound' /\ UNCHANGED <<playlists, pls>> /\ pc' = "idle"
  <2>1. IsInjective(tracks')
    BY <1>2, InsertInjective DEF TrackAdd
  <2>2. \A u \in Track : Listed(u, tracks') <=> u = t \/ Listed(u, tracks)
    BY <1>2, InsertListed DEF TrackAdd
  <2>3. PICK id : trk' = [trk EXCEPT ![t] = [@ EXCEPT !.itdb = TRUE, !.dbid = id]]
    BY <1>2 DEF TrackAdd
  <2>4. /\ trk'[t].mem = trk[t].mem /\ trk'[t].itdb
        /\ \A u \in Track \ {t} : trk'[u] = trk[u]
    BY <2>3
  <2>5. TrackLive(t)
    BY <1>2 DEF TrackAdd
  <2> QED BY <1>2, <2>1, <2>2, <2>4, <2>5 DEF TrackAdd
<1>3. ASSUME NEW t \in Track, TrackFree(t)
      PROVE  TrackListSound' /\ UNCHANGED <<playlists, pls>> /\ pc' = "idle"
  BY <1>3 DEF TrackFree
<1>4. ASSUME NEW t \in Track, TrackRemove(t) \/ TrackUnlink(t)
      PROVE  TrackListSound' /\ UNCHANGED <<playlists, pls>> /\ pc' = "idle"
  <2>1. tracks' = GListRemove(tracks, t)
    BY <1>4 DEF TrackRemove, TrackUnlink
  <2>2. IsInjective(tracks') /\ ~Listed(t, tracks')
    BY <2>1, RemoveInjective
  <2>3. \A u \in Track : Listed(u, tracks') => Listed(u, tracks)
    BY <2>1, RemoveListed
  <2>4. \A u \in Track \ {t} : trk'[u] = trk[u]
    BY <1>4 DEF TrackRemove, TrackUnlink
  <2> QED BY <1>4, <2>2, <2>3, <2>4 DEF TrackRemove, TrackUnlink
<1>5. ASSUME NEW t \in Track, NEW dup \in Track, TrackDuplicate(t, dup)
      PROVE  TrackListSound' /\ UNCHANGED <<playlists, pls>> /\ pc' = "idle"
  <2>1. ~Listed(dup, tracks) /\ UNCHANGED tracks
    BY <1>5 DEF TrackDuplicate
  <2>2. \A u \in Track \ {dup} : trk'[u] = trk[u]
    BY <1>5 DEF TrackDuplicate
  <2> QED BY <1>5, <2>1, <2>2 DEF TrackDuplicate
<1> QED BY <1>1, <1>2, <1>3, <1>4, <1>5 DEF TrackNext

LEMMA PlaylistNextSound ==
  ASSUME TypeOK, PlaylistListSound, IdsDistinct, PlaylistNext
  PROVE  /\ PlaylistListSound' /\ IdsDistinct'
         /\ UNCHANGED <<tracks, trk>> /\ pc' = "idle"
<1> DEFINE Goal == /\ PlaylistListSound' /\ IdsDistinct'
                   /\ UNCHANGED <<tracks, trk>> /\ pc' = "idle"
<1> USE DEF TypeOK, PlaylistRecord, PlaylistListSound, IdsDistinct,
            PlaylistLive, UnchangedTracks, UnchangedWrite
<1>1. ASSUME NEW p \in Playlist, NEW spl \in BOOLEAN, PlaylistNew(p, spl)
      PROVE  Goal
  <2>1. /\ pls'[p].mem = "live" /\ pls'[p].id = NoId /\ pls'[p].itdb = FALSE
        /\ \A q \in Playlist \ {p} : pls'[q] = pls[q]
    BY <1>1 DEF PlaylistNew, BlankPlaylist
  <2>2. ~Listed(p, playlists) /\ UNCHANGED playlists
    BY <1>1 DEF PlaylistNew
  <2> QED BY <1>1, <2>1, <2>2 DEF PlaylistNew
<1>2. ASSUME NEW p \in Playlist, PlaylistSetMpl(p) PROVE Goal
  <2>1. \A q \in Playlist : /\ pls'[q].mem = pls[q].mem
                            /\ pls'[q].id = pls[q].id
                            /\ pls'[q].itdb = pls[q].itdb
    BY <1>2 DEF PlaylistSetMpl
  <2> QED BY <1>2, <2>1 DEF PlaylistSetMpl
<1>3. ASSUME NEW p \in Playlist, NEW place \in Places(playlists),
             PlaylistAdd(p, place)
      PROVE  Goal
  <2>1. IsInjective(playlists')
    BY <1>3, InsertInjective DEF PlaylistAdd
  <2>2. \A q \in Playlist : Listed(q, playlists') <=> q = p \/ Listed(q, playlists)
    BY <1>3, InsertListed DEF PlaylistAdd
  <2>3. PICK id \in IF pls[p].id = NoId THEN DrawPlId ELSE {pls[p].id} :
          pls' = [pls EXCEPT ![p] = [@ EXCEPT !.itdb = TRUE, !.id = id]]
    BY <1>3 DEF PlaylistAdd
  <2>4. /\ pls'[p].mem = pls[p].mem /\ pls'[p].itdb /\ pls'[p].id = id
        /\ \A q \in Playlist \ {p} : pls'[q] = pls[q]
    BY <2>3
  <2>5. id # NoId
    BY <2>3, ConstantsAssumption DEF DrawPlId
  <2>6. \A q \in Playlist \ {p} : pls[q].id # id
    <3>1. CASE pls[p].id = NoId
      <4> SUFFICES ASSUME NEW q \in Playlist \ {p} PROVE pls[q].id # id
        OBVIOUS
      <4>1. CASE Listed(q, playlists)
        BY <2>3, <3>1, <4>1 DEF DrawPlId, Listed
      <4>2. CASE ~Listed(q, playlists)
        BY <2>3, <3>1, <4>2 DEF DrawPlId, OffListPlIds
      <4> QED BY <4>1, <4>2
    <3>2. CASE pls[p].id # NoId
      BY <2>3, <3>2
    <3> QED BY <3>1, <3>2
  <2> QED BY <1>3, <2>1, <2>2, <2>4, <2>5, <2>6 DEF PlaylistAdd
<1>4. ASSUME NEW p \in Playlist, NEW place \in DOMAIN playlists,
             PlaylistMove(p, place)
      PROVE  Goal
  <2> DEFINE rest == GListRemove(playlists, p)
  <2>1. /\ rest \in Seq(Playlist) /\ place \in Places(rest)
        /\ IsInjective(rest) /\ ~Listed(p, rest)
    <3>1. rest \in Seq(Playlist)
      BY RemoveListed
    <3>2. place \in Places(rest)
      BY <3>1, RemoveLength DEF Places
    <3>3. IsInjective(rest) /\ ~Listed(p, rest)
      BY RemoveInjective
    <3> QED BY <3>1, <3>2, <3>3
  <2>2. \A q \in Playlist \ {p} : Listed(q, rest) <=> Listed(q, playlists)
    BY RemoveListed
  <2>3. Listed(p, playlists)
    BY <1>4 DEF PlaylistMove
  <2> HIDE DEF rest
  <2>4. playlists' = InsertAt(rest, place, p)
    BY <1>4 DEF PlaylistMove, rest
  <2>5. IsInjective(playlists')
    BY <2>1, <2>4, InsertInjective
  <2>6. \A q \in Playlist : Listed(q, playlists') <=> q = p \/ Listed(q, rest)
    BY <2>1, <2>4, InsertListed
  <2>7. \A q \in Playlist : Listed(q, playlists') <=> Listed(q, playlists)
    BY <2>2, <2>3, <2>6
  <2> QED BY <1>4, <2>5, <2>7 DEF PlaylistMove
<1>5. ASSUME NEW p \in Playlist, PlaylistFree(p) PROVE Goal
  <2>1. /\ pls'[p].id = NoId /\ pls'[p].itdb = FALSE
        /\ \A q \in Playlist \ {p} : pls'[q] = pls[q]
    BY <1>5 DEF PlaylistFree, BlankPlaylist
  <2>2. ~Listed(p, playlists) /\ UNCHANGED playlists
    BY <1>5 DEF PlaylistFree
  <2> QED BY <1>5, <2>1, <2>2 DEF PlaylistFree
<1>6. ASSUME NEW p \in Playlist, PlaylistRemove(p) \/ PlaylistUnlink(p)
      PROVE  Goal
  <2>1. playlists' = GListRemove(playlists, p)
    BY <1>6 DEF PlaylistRemove, PlaylistUnlink
  <2>2. IsInjective(playlists') /\ ~Listed(p, playlists')
    BY <2>1, RemoveInjective
  <2>3. \A q \in Playlist \ {p} : Listed(q, playlists') <=> Listed(q, playlists)
    BY <2>1, RemoveListed
  <2>4. /\ pls'[p].id \in {NoId, pls[p].id} /\ pls'[p].itdb = FALSE
        /\ \A q \in Playlist \ {p} : pls'[q] = pls[q]
    BY <1>6 DEF PlaylistRemove, PlaylistUnlink, BlankPlaylist
  <2>5. PlaylistListSound'
    <3>1. ASSUME NEW q \in Playlist
          PROVE  /\ pls'[q].itdb <=> Listed(q, playlists')
                 /\ Listed(q, playlists') => pls'[q].mem = "live"
      <4>1. CASE q = p
        BY <2>2, <2>4, <4>1
      <4>2. CASE q # p
        BY <2>3, <2>4, <4>2
      <4> QED BY <4>1, <4>2
    <3> QED BY <2>2, <3>1
  <2>6. /\ \A q \in Playlist : pls'[q].id \in {NoId, pls[q].id}
        /\ \A q \in Playlist : Listed(q, playlists') =>
             q # p /\ Listed(q, playlists)
    BY <2>2, <2>3, <2>4
  <2>7. IdsDistinct'
    BY <2>4, <2>6
  <2> QED BY <1>6, <2>5, <2>7 DEF PlaylistRemove, PlaylistUnlink
<1>7. ASSUME NEW p \in Playlist, NEW dup \in Playlist, PlaylistDuplicate(p, dup)
      PROVE  Goal
  <2>1. /\ pls'[dup].id = NoId /\ pls'[dup].itdb = FALSE
        /\ \A q \in Playlist \ {dup} : pls'[q] = pls[q]
    BY <1>7 DEF PlaylistDuplicate
  <2>2. ~Listed(dup, playlists) /\ UNCHANGED playlists
    BY <1>7 DEF PlaylistDuplicate
  <2> QED BY <1>7, <2>1, <2>2 DEF PlaylistDuplicate
<1>8. ASSUME NEW p \in Playlist, NEW limits \in BOOLEAN, SplUpdate(p, limits)
      PROVE  Goal
  <2>1. PICK members : pls' = [pls EXCEPT ![p].members = members]
    BY <1>8 DEF SplUpdate
  <2>2. \A q \in Playlist : /\ pls'[q].mem = pls[q].mem
                            /\ pls'[q].id = pls[q].id
                            /\ pls'[q].itdb = pls[q].itdb
    BY <2>1
  <2> QED BY <1>8, <2>2 DEF SplUpdate
<1> QED BY <1>1, <1>2, <1>3, <1>4, <1>5, <1>6, <1>7, <1>8 DEF PlaylistNext

LEMMA MemberNextSound ==
  ASSUME TypeOK, ListsSound, IdsDistinct, MemberNext
  PROVE  /\ ListsSound' /\ IdsDistinct'
         /\ UNCHANGED <<tracks, playlists>> /\ pc' = "idle"
<1> DEFINE Goal == /\ ListsSound' /\ IdsDistinct'
                   /\ UNCHANGED <<tracks, playlists>> /\ pc' = "idle"
<1> USE DEF TypeOK, PlaylistRecord, TrackRecord, ListsSound, TrackListSound,
            PlaylistListSound, IdsDistinct, TrackLive, PlaylistLive,
            UnchangedTracks, UnchangedWrite
<1>1. ASSUME NEW t \in Track, NEW p \in Playlist,
             NEW place \in Places(pls[p].members), PlaylistAddTrack(p, t, place)
      PROVE  Goal
  <2>1. \A q \in Playlist : /\ pls'[q].mem = pls[q].mem
                            /\ pls'[q].id = pls[q].id
                            /\ pls'[q].itdb = pls[q].itdb
    BY <1>1 DEF PlaylistAddTrack
  <2>2. \A u \in Track : /\ trk'[u].mem = trk[u].mem
                         /\ trk[u].itdb => trk'[u].itdb
    BY <1>1 DEF PlaylistAddTrack
  <2>3. UNCHANGED <<tracks, playlists>> /\ pc' = "idle"
    BY <1>1 DEF PlaylistAddTrack
  <2> QED BY <2>1, <2>2, <2>3
<1>2. ASSUME NEW t \in Track, NEW p \in Playlist, PlaylistRemoveTrack(p, t)
      PROVE  Goal
  <2>1. \A q \in Playlist : /\ pls'[q].mem = pls[q].mem
                            /\ pls'[q].id = pls[q].id
                            /\ pls'[q].itdb = pls[q].itdb
    BY <1>2 DEF PlaylistRemoveTrack
  <2>2. UNCHANGED <<tracks, trk, playlists>> /\ pc' = "idle"
    BY <1>2 DEF PlaylistRemoveTrack
  <2> QED BY <2>1, <2>2
<1>3. ASSUME NEW t \in Track, MplRemoveTrack(t) PROVE Goal
  <2>1. Mpl \in Playlist
    BY <1>3 DEF MplRemoveTrack, Mpl
  <2> QED BY <1>2, <1>3, <2>1 DEF MplRemoveTrack
<1> QED BY <1>1, <1>2, <1>3 DEF MemberNext

(* The members handled so far sit at the front, one after the other: the   *)
(* next one is taken from behind them and put before them.                 *)
LEMMA ReorderStep ==
  ASSUME TypeOK, TrackListSound, ReorderProgress, WriteReorder
  PROVE  /\ TrackListSound' /\ ReorderProgress'
         /\ UNCHANGED <<trk, playlists, pls>>
         /\ \A u \in Track : Listed(u, tracks) <=> Listed(u, tracks')
<1> DEFINE t == MplMembers[cursor]
           rest == GListRemove(tracks, t)
           n == Len(MplMembers)
<1>1. /\ UNCHANGED <<trk, playlists, pls>> /\ cursor \in Nat /\ cursor > 0
      /\ pc = "reorder"
  BY DEF WriteReorder, UnchangedPlaylists, TypeOK
<1>2. Mpl \in Playlist /\ MplMembers \in Seq(Track) /\ cursor <= n
  <2>1. Mpl # NoPlaylist /\ cursor <= n
    BY <1>1 DEF ReorderProgress
  <2>2. Mpl \in Playlist
    BY <2>1 DEF Mpl, TypeOK
  <2> QED BY <2>1, <2>2 DEF MplMembers, TypeOK, PlaylistRecord
<1>3. /\ t \in Track /\ n \in Nat /\ cursor \in 1 .. n /\ tracks \in Seq(Track)
      /\ DOMAIN MplMembers = 1 .. n
  BY <1>1, <1>2 DEF TypeOK
<1>4. MplMembers' = MplMembers /\ Mpl' = Mpl
  BY <1>1 DEF MplMembers, Mpl, IsMpl
<1>5. CASE ~Listed(t, tracks)
  BY <1>1, <1>5 DEF WriteReorder, MplMembers, ReorderProgress, TrackListSound,
                    TrackLive
<1>6. CASE Listed(t, tracks)
  <2>1. /\ tracks' = InsertAt(rest, 1, t) /\ cursor' = cursor - 1
        /\ pc' = "reorder"
    BY <1>1, <1>6 DEF WriteReorder, MplMembers
  <2>2. rest \in Seq(Track) /\ IsInjective(rest) /\ ~Listed(t, rest)
    BY <1>3, RemoveListed, RemoveInjective DEF TrackListSound
  <2>3. 1 \in Places(rest)
    BY <2>2 DEF Places
  <2>4. Len(rest) = Len(tracks) - 1
    BY <1>3, <1>6, RemoveLength
  <2>5. \A u \in Track : Listed(u, rest) <=> u # t /\ Listed(u, tracks)
    BY <1>3, <2>2, RemoveListed
  <2>6. /\ tracks' \in Seq(Track) /\ Len(tracks') = Len(tracks)
        /\ tracks'[1] = t
        /\ \A i \in 1 .. Len(rest) : tracks'[i + 1] = rest[i]
    <3> HIDE DEF rest, t
    <3>1. /\ tracks' \in Seq(Track) /\ Len(tracks') = Len(rest) + 1
          /\ \A i \in 1 .. Len(rest) + 1 :
               tracks'[i] = IF i < 1 THEN rest[i]
                            ELSE IF i = 1 THEN t ELSE rest[i - 1]
      BY <1>3, <2>1, <2>2, <2>3, InsertAtPlaces
    <3>2. Len(rest) \in Nat /\ Len(tracks) \in Nat
      BY <1>3, <2>2
    <3> QED BY <2>4, <3>1, <3>2
  <2>7. \A u \in Track : Listed(u, tracks) <=> Listed(u, tracks')
    BY <1>3, <1>6, <2>1, <2>2, <2>3, <2>5, InsertListed
  <2>8. TrackListSound'
    <3>1. IsInjective(tracks')
      BY <1>3, <2>1, <2>2, <2>3, InsertInjective
    <3> QED BY <1>1, <2>7, <3>1 DEF TrackListSound, TrackLive
  <2>9. ASSUME IsInjective(MplMembers)
        PROVE  /\ n - cursor' <= Len(tracks')
               /\ \A i \in cursor' + 1 .. n : tracks'[i - cursor'] = MplMembers[i]
    <3>1. /\ n - cursor <= Len(tracks)
          /\ \A i \in cursor + 1 .. n : tracks[i - cursor] = MplMembers[i]
      BY <1>1, <2>9 DEF ReorderProgress
    <3>2. /\ FirstPlace(t, tracks) \in 1 .. Len(tracks)
          /\ tracks[FirstPlace(t, tracks)] = t
          /\ rest = RemoveAt(tracks, FirstPlace(t, tracks))
      BY <1>3, <1>6, GListRemovePlaces DEF GListRemove
    <3> DEFINE place == FirstPlace(t, tracks)
    <3>3. place > n - cursor
      <4> SUFFICES ASSUME place <= n - cursor PROVE FALSE
        BY <1>3, <3>2
      <4>1. cursor + place \in cursor + 1 .. n
            /\ (cursor + place) - cursor = place
        BY <1>3, <3>2
      <4>2. MplMembers[cursor + place] = MplMembers[cursor]
        BY <3>1, <3>2, <4>1
      <4>3. cursor + place \in DOMAIN MplMembers /\ cursor \in DOMAIN MplMembers
        BY <1>3, <4>1
      <4>4. cursor + place = cursor
        BY <2>9, <4>2, <4>3 DEF IsInjective
      <4> QED BY <1>3, <3>2, <4>4
    <3>4. \A i \in 1 .. Len(tracks) - 1 :
            rest[i] = IF i < place THEN tracks[i] ELSE tracks[i + 1]
      BY <1>3, <3>2, RemoveAtPlaces
    <3> HIDE DEF rest, place, t, n
    <3>5. Len(tracks) \in Nat /\ place \in 1 .. Len(tracks)
      BY <1>3, <3>2 DEF place
    <3>6. ASSUME NEW i \in cursor .. n
          PROVE  tracks'[i - (cursor - 1)] = MplMembers[i]
      <4>1. CASE i = cursor
        BY <1>3, <2>6, <4>1 DEF t
      <4>2. CASE i > cursor
        <5>1. /\ i - cursor \in 1 .. Len(rest) /\ i - cursor < place
              /\ i \in cursor + 1 .. n /\ i - (cursor - 1) = (i - cursor) + 1
          BY <1>3, <2>4, <3>1, <3>3, <3>5, <4>2
        <5>2. tracks'[(i - cursor) + 1] = rest[i - cursor]
          BY <2>6, <5>1
        <5>3. rest[i - cursor] = tracks[i - cursor]
          BY <2>4, <3>4, <5>1
        <5> QED BY <3>1, <5>1, <5>2, <5>3
      <4> QED BY <1>3, <4>1, <4>2
    <3>7. n - (cursor - 1) <= Len(tracks)
      BY <1>3, <3>3, <3>5
    <3> QED BY <1>3, <2>1, <2>6, <3>6, <3>7
  <2>10. ReorderProgress'
    BY <1>2, <1>3, <1>4, <2>1, <2>9, ConstantsAssumption DEF ReorderProgress
  <2> QED BY <1>1, <2>7, <2>8, <2>10
<1> QED BY <1>5, <1>6

LEMMA WriteNextSound ==
  ASSUME TypeOK, TrackListSound, ReorderProgress, WriteNext
  PROVE  /\ TrackListSound' /\ ReorderProgress' /\ UNCHANGED <<playlists, pls>>
<1> USE DEF UnchangedTracks, UnchangedPlaylists, UnchangedWrite
<1>1. UNCHANGED <<playlists, pls>> => Mpl' = Mpl /\ MplMembers' = MplMembers
  BY DEF Mpl, MplMembers, IsMpl
<1>2. CASE WriteBegin
  <2>1. TrackListSound'
    BY <1>2 DEF WriteBegin, TrackListSound, TrackLive
  <2>2. ReorderProgress'
    <3>1. CASE Mpl = NoPlaylist
      BY <1>2, <3>1 DEF WriteBegin, ReorderProgress
    <3>2. CASE Mpl # NoPlaylist
      <4>1. Mpl \in Playlist
        BY <3>2 DEF Mpl, TypeOK
      <4>2. Len(MplMembers) \in Nat /\ Len(tracks) \in Nat
        BY <4>1 DEF MplMembers, TypeOK, PlaylistRecord
      <4>3. pc' = "reorder" /\ cursor' = Len(MplMembers) /\ UNCHANGED tracks
        BY <1>2, <3>2 DEF WriteBegin, MplMembers
      <4> QED BY <1>1, <1>2, <3>2, <4>2, <4>3 DEF WriteBegin, ReorderProgress
    <3> QED BY <3>1, <3>2
  <2> QED BY <1>2, <2>1, <2>2 DEF WriteBegin
<1>3. CASE WriteReorder
  BY <1>3, ReorderStep
<1>4. CASE WriteIds
  <2>1. TrackListSound'
    BY <1>4 DEF WriteIds, TrackListSound, TrackLive, TypeOK, TrackRecord
  <2>2. ReorderProgress'
    BY <1>1, <1>4 DEF WriteIds, ReorderProgress
  <2> QED BY <1>4, <2>1, <2>2 DEF WriteIds
<1>5. CASE WriteSections
  BY <1>5 DEF WriteSections, TrackListSound, TrackLive, ReorderProgress
<1> QED BY <1>2, <1>3, <1>4, <1>5 DEF WriteNext

LEMMA LibraryInvNext == LibraryInv /\ [Next]_vars => LibraryInv'
<1> SUFFICES ASSUME LibraryInv, [Next]_vars PROVE LibraryInv'
  OBVIOUS
<1> USE DEF LibraryInv
<1>1. TypeOK'
  <2>1. CASE Next
    BY <2>1, TypeOKTrackNext, TypeOKPlaylistNext, TypeOKMemberNext,
       TypeOKWriteNext DEF Next
  <2>2. CASE UNCHANGED vars
    BY <2>2 DEF vars, TypeOK
  <2> QED BY <2>1, <2>2
<1>2. CASE TrackNext
  <2>1. TrackListSound' /\ UNCHANGED <<playlists, pls>> /\ pc' = "idle"
    BY <1>2, TrackNextSound DEF ListsSound
  <2> QED BY <1>1, <2>1 DEF ListsSound, PlaylistListSound, PlaylistLive,
                            IdsDistinct, ReorderProgress
<1>3. CASE PlaylistNext
  <2>1. /\ PlaylistListSound' /\ IdsDistinct'
        /\ UNCHANGED <<tracks, trk>> /\ pc' = "idle"
    BY <1>3, PlaylistNextSound DEF ListsSound
  <2> QED BY <1>1, <2>1 DEF ListsSound, TrackListSound, TrackLive,
                            ReorderProgress
<1>4. CASE MemberNext
  BY <1>1, <1>4, MemberNextSound DEF ReorderProgress
<1>5. CASE WriteNext
  <2>1. /\ TrackListSound' /\ ReorderProgress' /\ UNCHANGED <<playlists, pls>>
    BY <1>5, WriteNextSound DEF ListsSound
  <2> QED BY <1>1, <2>1 DEF ListsSound, PlaylistListSound, PlaylistLive,
                            IdsDistinct
<1>6. CASE UNCHANGED vars
  BY <1>1, <1>6 DEF vars, ListsSound, TrackListSound, PlaylistListSound,
     TrackLive, PlaylistLive, IdsDistinct, ReorderProgress, MplMembers, Mpl, IsMpl
<1> QED BY <1>2, <1>3, <1>4, <1>5, <1>6 DEF Next

(* The lists hold every object once and only live ones, whatever an        *)
(* application does with the calls of the library.                         *)
THEOREM ListsCorrect == Spec => []ListsSound
  BY LibraryInvInit, LibraryInvNext, LibraryInvImplies, PTL DEF Spec

(* No two playlists of the database ever have the same id.                 *)
THEOREM PlaylistIdsCorrect == Spec => []PlaylistIdsUnique
  BY LibraryInvInit, LibraryInvNext, LibraryInvImplies, PTL DEF Spec

(* When prepare_itdb_for_write has run to its end, the tracks are in the   *)
(* order of the master playlist, for any number of tracks.                 *)
THEOREM TrackOrderCorrect == Spec => []TracksInMplOrder
  BY LibraryInvInit, LibraryInvNext, LibraryInvImplies, PTL DEF Spec

(* The reordering loses no track.                                          *)
THEOREM ReorderKeepsTracksCorrect == Spec => ReorderKeepsTracks
<1>1. LibraryInv /\ [Next]_vars =>
        [WriteReorder => \A t \in Track : Listed(t, tracks) <=> Listed(t, tracks')]_vars
  BY ReorderStep DEF LibraryInv, ListsSound
<1> QED BY <1>1, LibraryInvInit, LibraryInvNext, PTL DEF Spec, ReorderKeepsTracks

-----------------------------------------------------------------------------
(* How prepare_itdb_for_write ends.  A member handled stays in the list,   *)
(* since each turn of the loop only moves tracks; nothing but the write    *)
(* itself changes anything between its steps.                              *)

MembersHandled ==
  /\ pc \in {"reorder", "ids"} =>
       \A i \in cursor + 1 .. Len(MplMembers) : Listed(MplMembers[i], tracks)
  /\ pc = "sections" => Mpl = NoPlaylist \/ ~AllListed(Mpl)

IdsAssigned ==
  pc = "ids" =>
    \A t \in Track : Listed(t, tracks) =>
      trk[t].id = FIRST_IPOD_ID - 1 + FirstPlace(t, tracks)

PrepareInv == LibraryInv /\ MembersHandled /\ IdsAssigned

LEMMA MplMembersType ==
  ASSUME TypeOK, Mpl # NoPlaylist
  PROVE  Mpl \in Playlist /\ MplMembers \in Seq(Track)
<1>1. Mpl \in Playlist
  BY DEF Mpl, TypeOK
<1> QED BY <1>1 DEF MplMembers, TypeOK, PlaylistRecord

LEMMA MembersHandledNext ==
  ASSUME LibraryInv, MembersHandled, WriteNext
  PROVE  MembersHandled'
<1> USE DEF UnchangedTracks, UnchangedPlaylists, UnchangedWrite, LibraryInv
<1>1. Mpl' = Mpl /\ MplMembers' = MplMembers /\ UNCHANGED pls
  BY DEF WriteNext, WriteBegin, WriteReorder, WriteIds, WriteSections, Mpl,
         MplMembers, IsMpl
<1>2. CASE WriteBegin
  <2>1. CASE Mpl = NoPlaylist
    BY <1>1, <1>2, <2>1 DEF WriteBegin, MembersHandled
  <2>2. CASE Mpl # NoPlaylist
    <3>1. pc' = "reorder" /\ cursor' = Len(MplMembers)
      BY <1>2, <2>2 DEF WriteBegin, MplMembers
    <3>2. Len(MplMembers) \in Nat
      BY <2>2, MplMembersType
    <3> QED BY <1>1, <3>1, <3>2 DEF MembersHandled
  <2> QED BY <2>1, <2>2
<1>3. CASE WriteReorder
  <2> DEFINE t == MplMembers[cursor]
  <2>1. /\ Mpl # NoPlaylist /\ cursor \in 1 .. Len(MplMembers)
        /\ pc = "reorder" /\ MplMembers \in Seq(Track) /\ Mpl \in Playlist
    <3>1. pc = "reorder" /\ cursor > 0 /\ cursor \in Nat
      BY <1>3 DEF WriteReorder, TypeOK
    <3>2. Mpl # NoPlaylist /\ cursor <= Len(MplMembers)
      BY <3>1 DEF ReorderProgress
    <3>3. MplMembers \in Seq(Track) /\ Mpl \in Playlist
      BY <3>2, MplMembersType
    <3> QED BY <3>1, <3>2, <3>3
  <2>2. t \in Track /\ Listed(t, MplMembers)
    BY <2>1 DEF Listed
  <2>3. \A u \in Track : Listed(u, tracks) <=> Listed(u, tracks')
    BY <1>3, ReorderStep DEF ListsSound
  <2>4. CASE ~Listed(t, tracks)
    <3>1. pc' = "sections"
      BY <1>3, <2>4 DEF WriteReorder, MplMembers
    <3>2. ~AllListed(Mpl)'
      BY <1>1, <2>2, <2>3, <2>4 DEF AllListed, MplMembers
    <3> QED BY <1>1, <3>1, <3>2 DEF MembersHandled
  <2>5. CASE Listed(t, tracks)
    <3>1. pc' = "reorder" /\ cursor' = cursor - 1
      BY <1>3, <2>1, <2>5 DEF WriteReorder, MplMembers
    <3>2. ASSUME NEW i \in cursor .. Len(MplMembers)
          PROVE  Listed(MplMembers[i], tracks')
      <4>1. MplMembers[i] \in Track
        BY <2>1
      <4>2. Listed(MplMembers[i], tracks)
        BY <2>1, <2>5 DEF MembersHandled
      <4> QED BY <2>3, <4>1, <4>2
    <3> QED BY <1>1, <2>1, <3>1, <3>2 DEF MembersHandled
  <2> QED BY <2>4, <2>5
<1>4. CASE WriteIds
  BY <1>1, <1>4 DEF WriteIds, MembersHandled
<1>5. CASE WriteSections
  BY <1>5 DEF WriteSections, MembersHandled
<1> QED BY <1>2, <1>3, <1>4, <1>5 DEF WriteNext

LEMMA PrepareInvNext == PrepareInv /\ [Next]_vars => PrepareInv'
<1> SUFFICES ASSUME PrepareInv, [Next]_vars PROVE PrepareInv'
  OBVIOUS
<1>1. LibraryInv'
  BY LibraryInvNext DEF PrepareInv
<1>2. CASE TrackNext \/ PlaylistNext \/ MemberNext
  <2>1. pc' = "idle"
    BY <1>2, TrackNextSound, PlaylistNextSound, MemberNextSound
       DEF PrepareInv, LibraryInv, ListsSound
  <2> QED BY <1>1, <2>1 DEF PrepareInv, MembersHandled, IdsAssigned
<1>3. CASE WriteNext
  <2>1. MembersHandled'
    BY <1>3, MembersHandledNext DEF PrepareInv
  <2>2. IdsAssigned'
    <3>1. CASE WriteIds
      <4>1. UNCHANGED tracks
        BY <3>1 DEF WriteIds
      <4>2. ASSUME NEW t \in Track, Listed(t, tracks)
            PROVE  trk'[t].id = FIRST_IPOD_ID - 1 + FirstPlace(t, tracks)
        <5>1. trk'[t] = [trk[t] EXCEPT !.id =
                           FIRST_IPOD_ID - 1 + FirstPlace(t, tracks)]
          BY <3>1, <4>2 DEF WriteIds
        <5>2. trk[t] \in TrackRecord
          BY DEF PrepareInv, LibraryInv, TypeOK
        <5> QED BY <5>1, <5>2 DEF TrackRecord
      <4> QED BY <4>1, <4>2 DEF IdsAssigned
    <3>2. CASE ~WriteIds
      <4>1. pc' # "ids"
        BY <1>3, <3>2 DEF WriteNext, WriteBegin, WriteReorder, WriteSections
      <4> QED BY <4>1 DEF IdsAssigned
    <3> QED BY <3>1, <3>2
  <2> QED BY <1>1, <2>1, <2>2 DEF PrepareInv
<1>4. CASE UNCHANGED vars
  <2>1. MembersHandled' /\ IdsAssigned'
    BY <1>4 DEF vars, PrepareInv, MembersHandled, IdsAssigned, MplMembers, Mpl,
                IsMpl, AllListed
  <2> QED BY <1>1, <2>1 DEF PrepareInv
<1> QED BY <1>2, <1>3, <1>4 DEF Next

LEMMA PrepareInvInit == Init => PrepareInv
  BY LibraryInvInit DEF Init, PrepareInv, MembersHandled, IdsAssigned

LEMMA PrepareInvImplies == PrepareInv => PrepareOutcome /\ MemberIdsResolve
<1> SUFFICES ASSUME PrepareInv PROVE PrepareOutcome /\ MemberIdsResolve
  OBVIOUS
<1> USE DEF PrepareInv, LibraryInv
<1>1. ASSUME pc = "ids" PROVE Mpl # NoPlaylist /\ AllListed(Mpl)
  <2>1. Mpl # NoPlaylist /\ cursor = 0
    BY <1>1 DEF ReorderProgress
  <2>2. MplMembers \in Seq(Track)
    BY <2>1, MplMembersType
  <2>3. \A i \in 1 .. Len(MplMembers) : Listed(MplMembers[i], tracks)
    BY <1>1, <2>1 DEF MembersHandled
  <2>4. ASSUME NEW t \in Track, Listed(t, MplMembers) PROVE Listed(t, tracks)
    <3>1. PICK i \in DOMAIN MplMembers : MplMembers[i] = t
      BY <2>4 DEF Listed
    <3> QED BY <2>2, <2>3, <3>1
  <2> QED BY <2>1, <2>4 DEF AllListed, MplMembers
<1>2. PrepareOutcome
  BY <1>1 DEF PrepareOutcome, MembersHandled
<1>3. MemberIdsResolve
  <2> SUFFICES ASSUME pc = "ids", NEW p \in Playlist,
                      NEW t \in Track, NEW u \in Track,
                      Listed(t, pls[p].members),
                      p = Mpl \/ Listed(t, tracks),
                      Listed(u, tracks), trk[u].id = trk[t].id
               PROVE  u = t
    BY DEF MemberIdsResolve
  <2>1. Listed(t, tracks) /\ tracks \in Seq(Track)
    BY <1>1 DEF AllListed, TypeOK
  <2>2. /\ FirstPlace(t, tracks) \in Nat /\ tracks[FirstPlace(t, tracks)] = t
        /\ FirstPlace(u, tracks) \in Nat /\ tracks[FirstPlace(u, tracks)] = u
    BY <2>1, GListRemovePlaces
  <2>3. FIRST_IPOD_ID - 1 + FirstPlace(t, tracks)
          = FIRST_IPOD_ID - 1 + FirstPlace(u, tracks)
    BY <2>1 DEF IdsAssigned
  <2>4. FirstPlace(t, tracks) = FirstPlace(u, tracks)
    BY <2>2, <2>3 DEF FIRST_IPOD_ID
  <2> QED BY <2>2, <2>4
<1> QED BY <1>2, <1>3

(* prepare_itdb_for_write numbers the tracks exactly when the database has *)
(* every member of a master playlist in front, whatever was called before. *)
THEOREM PrepareOutcomeCorrect == Spec => []PrepareOutcome
  BY PrepareInvInit, PrepareInvNext, PrepareInvImplies, PTL DEF Spec

(* The ids written for the members of a playlist are read back as the same *)
(* tracks, for any number of tracks and playlists.                         *)
THEOREM MemberIdsResolveCorrect == Spec => []MemberIdsResolve
  BY PrepareInvInit, PrepareInvNext, PrepareInvImplies, PTL DEF Spec
=============================================================================
