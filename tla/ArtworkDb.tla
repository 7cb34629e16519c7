------------------------------ MODULE ArtworkDb ------------------------------
(***************************************************************************)
(* The covers of tracks: in memory, in a file of thumbnails (.ithmb), and  *)
(* in ArtworkDB, whose entries the tracks of iTunesDB link to.             *)
(*                                                                         *)
(* A track is its place in itdb->tracks.  The cover an application sets is *)
(* a picture; identical pictures of one album are stored once on iPods     *)
(* with sparse artwork, as an entry with the dbid of the first track, and  *)
(* the others have artwork->dbid 0 and the same id.  One format with one   *)
(* thumbnail file is modelled; its rearranging, which IthmbRearrange has   *)
(* step by step, is done at once.  The specification's own names begin     *)
(* with AD, so that a module may extend both.                              *)
(*                                                                         *)
(* When a write moves a picture that tracks share, only the first of them  *)
(* is told: the others keep the old place, and one of them may become the  *)
(* first later on.  The history variable astray has these tracks,          *)
(* astrayIds the entries that were made from their thumbnails.             *)
(***************************************************************************)
EXTENDS Integers, FiniteSets, FiniteSetsExt, Functions, IthmbPacked

CONSTANTS
  Track,             \* the places of itdb->tracks
  Image, NoImage,
  AlbumOf,           \* track -> track->album
  MinId,             \* min_id
  MaxPictures,       \* bound on the pictures in the file (model only)
  MaxEdits,          \* sparse -> bound on the changes in all (model only)
  AppendFails        \* whether writing a picture may fail

ASSUME ArtworkAssumption ==
  /\ Track \subseteq Nat /\ IsFiniteSet(Track)
  /\ NoImage \notin Image
  /\ MinId \in Nat \ {0} /\ MaxPictures \in Nat
  /\ MaxEdits \in [BOOLEAN -> Nat]
  /\ AppendFails \in BOOLEAN

VARIABLES
  sparse,     \* itdb_device_supports_sparse_artwork
  present,    \* the tracks of the database in memory
  dbid,       \* track -> track->dbid
  art,        \* track -> track->artwork and track->mhii_link
  file,       \* slot -> picture
  entries,    \* the entries (mhii) of ArtworkDB on the iPod
  stored,     \* the tracks of iTunesDB on the iPod
  edits,      \* the changes (model only)
  cover,      \* track -> the picture it is to show (history)
  lost,       \* the tracks whose picture could not be stored (history)
  astray,     \* the tracks whose thumbnail may not have its picture (history)
  astrayIds   \* the ids of the entries made from such thumbnails (history)

ADvars == <<sparse, present, dbid, art, file, entries, stored, edits,
          cover, lost, astray, astrayIds>>
disk == <<file, entries, stored, astrayIds>>

Length(f) == Cardinality(DOMAIN f)

NoThumb == [kind |-> "none", picture |-> NoImage, at |-> {}]
NewThumb(p) == [kind |-> "new", picture |-> p, at |-> {}]
IpodThumb(at) == [kind |-> "ipod", picture |-> NoImage, at |-> at]
Thumbnail == {NoThumb} \cup {NewThumb(p) : p \in Image}
         \cup {IpodThumb(at) : at \in {{}} \cup {{s} : s \in 0 .. MaxPictures - 1}}

Id == {0} \cup (MinId .. MinId + Cardinality(Track) - 1)
Artwork == [thumb : Thumbnail, id : Id, own : BOOLEAN, link : Id]
NoArtwork == [thumb |-> NoThumb, id |-> 0, own |-> FALSE, link |-> 0]

ADTypeOK ==
  /\ sparse \in BOOLEAN
  /\ present \subseteq Track
  /\ dbid \in [Track -> Track]
  /\ art \in [Track -> Artwork]
  /\ Length(file) \in 0 .. MaxPictures /\ file \in [0 .. Length(file) - 1 -> Image]
  /\ entries \subseteq [id : Id \ {0}, dbid : Track, at : SUBSET (0 .. MaxPictures - 1)]
  /\ DOMAIN stored \subseteq Track
  /\ \A t \in DOMAIN stored :
       stored[t] \in [dbid : Track, link : Id, cover : Image \cup {NoImage},
                      lost : BOOLEAN]
  /\ edits \in 0 .. MaxEdits[sparse]
  /\ cover \in [Track -> Image \cup {NoImage}]
  /\ lost \subseteq Track /\ astray \subseteq Track /\ astrayIds \subseteq Id

(* An iPod with tracks and no covers.                                      *)
ADInit ==
  /\ sparse \in BOOLEAN
  /\ present = Track /\ dbid = [t \in Track |-> t]
  /\ art = [t \in Track |-> NoArtwork]
  /\ file = <<>> /\ file \in [{} -> Image]
  /\ entries = {}
  /\ stored = [t \in Track |-> [dbid |-> t, link |-> 0, cover |-> NoImage,
                                lost |-> FALSE]]
  /\ edits = 0
  /\ cover = [t \in Track |-> NoImage]
  /\ lost = {} /\ astray = {} /\ astrayIds = {}

-----------------------------------------------------------------------------
(* itdb_track_has_thumbnails of a track in the list.                       *)
HasThumb(a, t) == t \in present /\ a[t].thumb.kind # "none"

Rank(s, S) == Cardinality({u \in S : u < s})

(* The tracks ipod_artwork_db_set_ids gives an id, for each the first of    *)
(* those that had the same id, and these tracks.                           *)
Numbered(a) == {t \in Track : HasThumb(a, t) /\ (sparse => a[t].id # 0)}
FirstWithId(a) ==
  LET numbered == Numbered(a)
  IN [t \in numbered |->
        IF sparse THEN Min({u \in numbered : a[u].id = a[t].id}) ELSE t]
Firsts(a) == Range(FirstWithId(a))

(* Mutant: the next id is also taken when an id was met before.            *)
SetIdsGaps(a) ==
  LET first == FirstWithId(a)
      id    == [t \in DOMAIN first |-> MinId + Rank(first[t], DOMAIN first)]
  IN [t \in Track |->
        IF t \in DOMAIN first
          THEN [thumb |-> a[t].thumb, id |-> id[t], own |-> t = first[t], link |-> id[t]]
        ELSE IF t \in present
          THEN [a[t] EXCEPT !.link = IF sparse THEN 0 ELSE a[t].id]
        ELSE a[t]]

SetIds(a) ==
  LET first   == FirstWithId(a)
      firsts  == Range(first)
      id      == [t \in DOMAIN first |-> MinId + Rank(first[t], firsts)]
  IN [t \in Track |->
        IF t \in DOMAIN first
          THEN [thumb |-> a[t].thumb, id |-> id[t], own |-> t = first[t], link |-> id[t]]
        ELSE IF t \in present
          THEN [a[t] EXCEPT !.link = IF sparse THEN 0 ELSE a[t].id]
        ELSE a[t]]

HighestId(a) == IF Firsts(a) = {} THEN 0 ELSE MinId + Cardinality(Firsts(a)) - 1

(* The checksums of two new covers agree.                                  *)
SameNewArtwork(t, u) ==
  AlbumOf[t] = AlbumOf[u] /\ art[t].thumb.picture = art[u].thumb.picture

(* ipod_artwork_mark_new_doubles: new covers get the ids above max.        *)
MarkNewDoubles(a, max) ==
  LET new    == {t \in Track : HasThumb(a, t) /\ a[t].id = 0}
      first  == [t \in new |-> Min({u \in new : SameNewArtwork(t, u)})]
      firsts == Range(first)
      id     == [t \in new |-> max + 1 + Rank(first[t], firsts)]
  IN [t \in Track |->
        IF t \in new THEN [thumb |-> a[t].thumb, id |-> id[t], own |-> t = first[t],
                           link |-> id[t]]
        ELSE a[t]]

(* itdb_prepare_thumbnails.                                                *)
Prepared(a) ==
  LET b == SetIds(a)
  IN IF sparse THEN SetIds(MarkNewDoubles(b, HighestId(b))) ELSE b

-----------------------------------------------------------------------------
(* Mutant: shared artwork is not skipped.                                  *)
OwnersAll(a) == {t \in Track : HasThumb(a, t)}

(* The tracks that are not skipped as "sparse artwork".                    *)
Owners(a) == {t \in Track : HasThumb(a, t) /\ a[t].own}
UsedSlots(a) == UNION {a[t].thumb.at : t \in Owners(a)}

(* A picture behind the end of the file cannot be read, and it would be    *)
(* the first one to be moved: nothing is done then.                        *)
InFile(a) == UsedSlots(a) \subseteq DOMAIN file

(* ithmb_rearrange_existing_thumbnails for the items in memory, ...        *)
Rearranged(a) ==
  [t \in Track |->
     IF t \in Owners(a) /\ InFile(a)
       THEN [a[t] EXCEPT !.thumb.at = {PackedSlot(UsedSlots(a), s) : s \in @}]
       ELSE a[t]]

(* ... and for the file.                                                   *)
RearrangedFile(a) ==
  LET used == UsedSlots(a)
  IN IF InFile(a)
       THEN [s \in 0 .. Cardinality(used) - 1 |->
               file[CHOOSE u \in used : PackedSlot(used, u) = s]]
       ELSE file

(* itdb_write_ithumb_files appends the new covers and replaces them by     *)
(* thumbnails with the new place, or with none if writing failed.          *)
NewOwners(a) == {t \in Owners(a) : a[t].thumb.kind = "new"}
Appended(a, f, failed) ==
  LET written == NewOwners(a) \ failed
  IN [t \in Track |->
        IF t \in written
          THEN [a[t] EXCEPT !.thumb = IpodThumb({Length(f) + Rank(t, written)})]
        ELSE IF t \in NewOwners(a) THEN [a[t] EXCEPT !.thumb = IpodThumb({})]
        ELSE a[t]]
AppendedFile(a, f, failed) ==
  LET written == NewOwners(a) \ failed
      total   == Length(f) + Cardinality(written)
  IN [s \in 0 .. total - 1 |->
        IF s \in DOMAIN f THEN f[s]
        ELSE a[CHOOSE t \in written : Length(f) + Rank(t, written) = s].thumb.picture]

(* Writing a picture may fail; bound: one of the covers is not there.      *)
MayFail == AppendFails /\ lost = {}

(* What a write does to the history: entries may be made from thumbnails   *)
(* that have gone astray, and thumbnails are left where the picture of     *)
(* their entry was.                                                        *)
OwnerOf(a, t) == CHOOSE u \in Owners(a) : a[u].id = a[t].id
AstrayIds(a) == {a[t].id : t \in Owners(a) \cap astray}
Astray(a) ==
  {t \in present :
     /\ a[t].thumb.kind = "ipod"
     /\ \/ t \in astray \/ a[t].id \in AstrayIds(a)
        \/ a[t].thumb.at # a[OwnerOf(a, t)].thumb.at}

(* ipod_write_artwork_db and the iTunesDB that is written after it.        *)
Write ==
  /\ \E a \in {Prepared(art)} :
     \E f \in {RearrangedFile(a)}, b \in {Rearranged(a)} :
     \E failed \in {{}} \cup {{t} : t \in {u \in NewOwners(a) : MayFail}} :
       /\ Length(f) + Cardinality(NewOwners(a)) <= MaxPictures
       /\ art' = Appended(b, f, failed)
       /\ file' = AppendedFile(b, f, failed)
       /\ lost' = lost \cup {t \in present :
                             \E u \in failed : HasThumb(a, t) /\ a[t].id = a[u].id}
  /\ entries' = {[id |-> art'[t].id, dbid |-> dbid[t], at |-> art'[t].thumb.at]
                   : t \in Owners(art')}
  /\ stored' = [t \in present |-> [dbid |-> dbid[t], link |-> art'[t].link,
                                   cover |-> cover[t], lost |-> t \in lost']]
  /\ astray' = Astray(art') /\ astrayIds' = AstrayIds(art')
  /\ UNCHANGED <<sparse, present, dbid, edits, cover>>

-----------------------------------------------------------------------------
(* mhfd_associate_itunesdb_artwork for one track: the last track with the  *)
(* dbid of entries gets the first of these, then the entry it links to     *)
(* replaces one with another id.  A link to nothing removes the cover.     *)
ParsedArtwork(t) ==
  LET byDbid == {m \in entries : m.dbid = stored[t].dbid
                   /\ t = Max({u \in DOMAIN stored : stored[u].dbid = m.dbid})}
      first  == CHOOSE m \in byDbid : \A n \in byDbid : m.id <= n.id
      linked == {m \in entries : m.id = stored[t].link}
      held(m) == [thumb |-> IpodThumb(m.at), id |-> m.id, own |-> TRUE,
                  link |-> stored[t].link]
  IN IF stored[t].link # 0
       THEN IF linked # {} THEN held(CHOOSE m \in linked : TRUE) ELSE NoArtwork
     ELSE IF byDbid # {} THEN held(first) ELSE NoArtwork

(* What a program or the iPod that reads the three files shows for a track.*)
Shown(t) ==
  LET at == ParsedArtwork(t).thumb.at \cap DOMAIN file
  IN IF at = {} THEN NoImage ELSE file[CHOOSE s \in at : TRUE]

(* A duplicate whose cover was removed has the dbid of its original and    *)
(* gets the cover of that when the database is parsed.                     *)
Regains(t) ==
  /\ stored[t].link = 0
  /\ \E u \in DOMAIN stored \ {t} : stored[u].dbid = stored[t].dbid

(* The application ends, perhaps without saving, and another one parses    *)
(* what is on the iPod.                                                    *)
Parse ==
  /\ present' = DOMAIN stored
  /\ dbid' = [t \in Track |-> IF t \in DOMAIN stored THEN stored[t].dbid ELSE t]
  /\ art' = [t \in Track |-> IF t \in DOMAIN stored THEN ParsedArtwork(t) ELSE NoArtwork]
  /\ cover' = [t \in Track |-> IF t \notin DOMAIN stored THEN NoImage
                              ELSE IF Regains(t) THEN Shown(t) ELSE stored[t].cover]
  /\ lost' = {t \in DOMAIN stored : stored[t].lost}
  /\ astray' = {t \in DOMAIN stored : ParsedArtwork(t).id \in astrayIds}
  /\ UNCHANGED <<sparse, edits, disk>>

-----------------------------------------------------------------------------
(* The application changes tracks and their covers.                        *)
Edit ==
  /\ edits < MaxEdits[sparse]
  /\ edits' = edits + 1

(* Mutant: the artwork keeps its id.                                       *)
SetThumbnailsIdKept(t, p) ==
  /\ Edit /\ t \in present
  /\ art' = [art EXCEPT ![t].thumb = NewThumb(p)]
  /\ cover' = [cover EXCEPT ![t] = p] /\ lost' = lost \ {t} /\ astray' = astray \ {t}
  /\ UNCHANGED <<sparse, present, dbid, disk>>

(* itdb_track_set_thumbnails and its variants.                             *)
SetThumbnails(t, p) ==
  /\ Edit /\ t \in present
  /\ art' = [art EXCEPT ![t].thumb = NewThumb(p), ![t].id = 0]
  /\ cover' = [cover EXCEPT ![t] = p] /\ lost' = lost \ {t} /\ astray' = astray \ {t}
  /\ UNCHANGED <<sparse, present, dbid, disk>>

(* itdb_track_remove_thumbnails, also after a picture could not be set.    *)
RemoveThumbnails(t) ==
  /\ Edit /\ t \in present
  /\ art' = [art EXCEPT ![t].thumb = NoThumb, ![t].id = 0, ![t].link = 0]
  /\ cover' = [cover EXCEPT ![t] = NoImage]
  /\ lost' = lost \ {t} /\ astray' = astray \ {t}
  /\ UNCHANGED <<sparse, present, dbid, disk>>

(* itdb_track_remove.                                                      *)
RemoveTrack(t) ==
  /\ Edit /\ t \in present
  /\ present' = present \ {t}
  /\ art' = [art EXCEPT ![t] = NoArtwork]
  /\ dbid' = [dbid EXCEPT ![t] = t]
  /\ cover' = [cover EXCEPT ![t] = NoImage]
  /\ lost' = lost \ {t} /\ astray' = astray \ {t}
  /\ UNCHANGED <<sparse, disk>>

(* itdb_track_duplicate, and the copy is added at place u: it has the dbid *)
(* of its original, its cover, and the id and link of that.                *)
Duplicate(t, u) ==
  /\ Edit /\ t \in present /\ u \in Track \ present
  /\ present' = present \cup {u}
  /\ dbid' = [dbid EXCEPT ![u] = dbid[t]]
  /\ art' = [art EXCEPT ![u] = art[t]]
  /\ cover' = [cover EXCEPT ![u] = cover[t]]
  /\ lost' = IF t \in lost THEN lost \cup {u} ELSE lost
  /\ astray' = IF t \in astray THEN astray \cup {u} ELSE astray
  /\ UNCHANGED <<sparse, disk>>

ADNext ==
  \/ \E t \in Track, p \in Image : SetThumbnails(t, p)
  \/ \E t \in Track : RemoveThumbnails(t) \/ RemoveTrack(t)
  \/ \E t, u \in Track : Duplicate(t, u)
  \/ Write
  \/ Parse

ADSpec == ADInit /\ [][ADNext]_ADvars

-----------------------------------------------------------------------------
(* Every stored track has exactly the cover it was given, however ids were *)
(* handed out, shared and handed out again and pictures were moved in the  *)
(* file: only a picture that could not be written is missing, and a track  *)
(* shows that of another only when it is a duplicate, by its dbid, or when *)
(* the first track with its cover was not the first one when the picture   *)
(* was moved.  This goes for any number of writes between two parses.      *)
StoredCoversRight ==
  \A t \in DOMAIN stored : stored[t].link \notin astrayIds =>
    \/ Shown(t) = stored[t].cover
    \/ stored[t].lost /\ Shown(t) = NoImage
    \/ Regains(t)

(* The ids of ArtworkDB are distinct and without gaps, and every link of   *)
(* iTunesDB leads to one of them: the header of ArtworkDB (next_id) says   *)
(* so, and the iPod finds covers by link.                                  *)
LinksResolve ==
  /\ {m.id : m \in entries} = MinId .. MinId + Cardinality(entries) - 1
  /\ \A t \in DOMAIN stored : stored[t].link # 0 =>
       stored[t].link \in {m.id : m \in entries}

(* "thumbs on the iPod are definitely not expected to have an ID of 0":    *)
(* ipod_artwork_mark_new_doubles stops in the middle if there is one.      *)
StoredThumbsHaveIds ==
  \A t \in present : art[t].thumb.kind = "ipod" => art[t].id # 0

(* However many parses, edits and writes there were: the links of iTunesDB *)
(* lead to entries of ArtworkDB, and thumbnails on the iPod have ids.      *)
DatabaseSound == ADTypeOK /\ LinksResolve /\ StoredThumbsHaveIds

(* Pictures of one album that are set together are written once, and those *)
(* of tracks that are gone are taken out of the file: all slots are in     *)
(* use, unless a thumbnail that was used had gone astray.                  *)
NoPictureWasted ==
  astrayIds = {} =>
    /\ UNION {m.at : m \in entries} = DOMAIN file
    /\ sparse => \A m, n \in entries : m # n => m.at \cap n.at = {}

(* "adjusting the corresponding Itdb_Thumb offset pointer", by a list of   *)
(* all images of a file "which allows to adjust the offset pointers": a    *)
(* thumbnail in memory is where its picture is.                            *)
OffsetsAdjusted ==
  \A t \in present : \A s \in art[t].thumb.at : s \in DOMAIN file /\ file[s] = cover[t]
=============================================================================
