------------------------------- MODULE PhotoDb -------------------------------
(***************************************************************************)
(* The photos of an iPod and the albums that show them: Itdb_PhotoDB in    *)
(* memory, and "Photo Database", where albums name photos by their id.     *)
(* The file is written and read chunk by chunk (PhotoChunks).              *)
(*                                                                         *)
(* A photo, and an album, is a pointer while the program runs and stands   *)
(* for the same picture, or name, on the iPod.  The first album is the     *)
(* photo library.  The pictures themselves are those of ArtworkDb.         *)
(***************************************************************************)
EXTENDS PhotoChunks

CONSTANTS
  Photo, NoPhoto,
  Album, Library,   \* the album that add_photo creates when there is none
  MaxMembers,       \* album -> bound on its length (model only)
  Faults

ASSUME PhotoAssumption ==
  /\ IsFiniteSet(Photo) /\ NoPhoto \notin Photo
  /\ Library \in Album
  /\ MaxMembers \in [Album -> Nat]
  /\ Faults \subseteq {"thumbnails"}

VARIABLES
  photos,    \* photodb->photos
  albums,    \* photodb->photoalbums
  members,   \* album -> album->members
  loose,     \* the albums that were unlinked and not freed
  id,        \* photo -> photo->id
  stored,    \* Photo Database on the iPod
  saved      \* the photos and albums it was written from (history)

vars == <<photos, albums, members, loose, id, stored, saved>>
db == <<photos, albums, members>>

FirstId == 64

(* A photo is known by its thumbnails, an album by its name.               *)
Thumbnails(p) ==
  [i \in DOMAIN Formats |-> [format |-> Formats[i], offset |-> p, filename |-> Formats[i]]]
PhotoOf(thumbs) ==
  IF \E p \in Photo : thumbs = Thumbnails(p)
  THEN CHOOSE p \in Photo : thumbs = Thumbnails(p) ELSE NoPhoto

Distinct(list) == \A i, j \in DOMAIN list : i # j => list[i] # list[j]

TypeOK ==
  /\ photos \in Seq(Photo) /\ Distinct(photos)
  /\ albums \in Seq(Album) /\ Distinct(albums)
  /\ members \in [Album -> Seq(Photo)]
  /\ loose \subseteq Album \ ToSet(albums)
  /\ id \in [Photo -> {0} \cup (FirstId .. FirstId + Cardinality(Photo) - 1)]

(* itdb_photodb_create, saved.                                             *)
Init ==
  /\ photos = <<>> /\ albums = <<Library>> /\ members = [a \in Album |-> <<>>]
  /\ loose = {}
  /\ id = [p \in Photo |-> 0]
  /\ stored = WriteMhfd(<<>>, <<[name |-> Library, ids |-> <<>>]>>)
  /\ saved = <<photos, albums, members>>

-----------------------------------------------------------------------------
(* g_list_insert at a position: past the end, which -1 counts as, appends. *)
Position == UNION {0 .. MaxMembers[a] : a \in Album}
Insert(list, pos, x) ==
  InsertAt(list, IF pos < Len(list) THEN pos + 1 ELSE Len(list) + 1, x)

Room(a) == Len(members[a]) < MaxMembers[a]
Unused(a) == a \notin ToSet(albums) \cup loose

(* itdb_photodb_add_photo and its variants: a new photo.                   *)
AddPhoto(p, pos) ==
  /\ p \notin ToSet(photos)
  /\ \A a \in ToSet(albums) \cup loose : ~Listed(p, members[a])
  /\ photos' = Insert(photos, pos, p)
  /\ id' = [id EXCEPT ![p] = 0]
  /\ \/ /\ albums # <<>> /\ Room(Head(albums))
        /\ members' = [members EXCEPT ![Head(albums)] = Insert(@, pos, p)]
        /\ UNCHANGED albums
     \/ /\ albums = <<>> /\ Unused(Library)
        /\ albums' = <<Library>>
        /\ members' = [members EXCEPT ![Library] = <<p>>]
  /\ UNCHANGED <<loose, stored, saved>>

(* itdb_photodb_photoalbum_add_photo: also one it has.                     *)
AddToAlbum(a, p, pos) ==
  /\ ~Unused(a) /\ p \in ToSet(photos) /\ Room(a)
  /\ members' = [members EXCEPT ![a] = Insert(@, pos, p)]
  /\ UNCHANGED <<photos, albums, loose, id, stored, saved>>

(* Mutant: one link is removed from each album.                            *)
ForgetPhotosOnce(gone) ==
  /\ photos' = Without(photos, gone)
  /\ members' = [a \in Album |->
       IF Listed(a, albums) /\ Cardinality(gone) = 1
         THEN GListRemove(members[a], CHOOSE p \in gone : TRUE)
       ELSE IF Listed(a, albums) THEN Without(members[a], gone) ELSE members[a]]

(* The photos are removed from every album in the list, and freed.         *)
ForgetPhotos(gone) ==
  /\ photos' = Without(photos, gone)
  /\ members' = [a \in Album |-> IF Listed(a, albums) THEN Without(members[a], gone)
                                ELSE members[a]]

(* itdb_photodb_remove_photo with NULL or the first album, ...             *)
RemovePhoto(p) ==
  /\ p \in ToSet(photos)
  /\ ForgetPhotos({p})
  /\ UNCHANGED <<albums, loose, id, stored, saved>>

(* ... and with another one.                                               *)
RemoveFromAlbum(a, p) ==
  /\ ~Unused(a) /\ p \in ToSet(photos)
  /\ albums = <<>> \/ a # Head(albums)
  /\ members' = [members EXCEPT ![a] = GListRemove(@, p)]
  /\ UNCHANGED <<photos, albums, loose, id, stored, saved>>

(* The application leaves the library in front of the other albums.        *)
Behind(pos) == albums = <<>> \/ pos # 0

(* itdb_photodb_photoalbum_create.                                         *)
CreateAlbum(a, pos) ==
  /\ Unused(a) /\ Behind(pos)
  /\ albums' = Insert(albums, pos, a)
  /\ members' = [members EXCEPT ![a] = <<>>]
  /\ UNCHANGED <<photos, loose, id, stored, saved>>

(* Mutant: the photos of the album are not removed from other albums.      *)
RemoveAlbumPhotosHere(a, remove_pics) ==
  /\ Listed(a, albums)
  /\ a = Head(albums) => remove_pics
  /\ photos' = IF remove_pics THEN Without(photos, ToSet(members[a])) ELSE photos
  /\ members' = [members EXCEPT ![a] = <<>>]
  /\ albums' = GListRemove(albums, a)
  /\ UNCHANGED <<loose, id, stored, saved>>

(* itdb_photodb_photoalbum_remove.  The library goes with its photos.      *)
RemoveAlbum(a, remove_pics) ==
  /\ Listed(a, albums)
  /\ a = Head(albums) => remove_pics
  /\ \E gone \in {IF remove_pics THEN ToSet(members[a]) ELSE {}} :
       /\ photos' = Without(photos, gone)
       /\ members' = [b \in Album |-> IF b = a THEN <<>>
                                     ELSE IF Listed(b, albums) THEN Without(members[b], gone)
                                     ELSE members[b]]
  /\ albums' = GListRemove(albums, a)
  /\ UNCHANGED <<loose, id, stored, saved>>

(* itdb_photodb_photoalbum_unlink, of an album behind the library.         *)
UnlinkAlbum(a) ==
  /\ Listed(a, albums) /\ a # Head(albums)
  /\ albums' = GListRemove(albums, a)
  /\ loose' = loose \cup {a}
  /\ UNCHANGED <<photos, members, id, stored, saved>>

(* itdb_photodb_photoalbum_add.  The application does not bring back an    *)
(* album with photos that were freed in the meantime.                      *)
AddAlbum(a, pos) ==
  /\ a \in loose /\ Behind(pos) /\ (albums = <<>> => members[a] = <<>>)
  /\ ToSet(members[a]) \subseteq ToSet(photos)
  /\ albums' = Insert(albums, pos, a)
  /\ loose' = loose \ {a}
  /\ UNCHANGED <<photos, members, id, stored, saved>>

-----------------------------------------------------------------------------
(* Mutant: a photo that has an id keeps it.                                *)
NumberedKept(p) ==
  IF id[p] # 0 THEN id[p] ELSE FirstId + FirstPlace(p, photos) - 1

(* itdb_photodb_write gives out the ids ...                                *)
Numbered(p) == FirstId + FirstPlace(p, photos) - 1

(* ... and writes.  Without thumbnails the file is left as it was.         *)
Write ==
  /\ id' = [p \in Photo |-> IF Listed(p, photos) THEN Numbered(p) ELSE id[p]]
  /\ \/ /\ stored' =
             WriteMhfd([i \in DOMAIN photos |->
                          [id |-> id'[photos[i]], thumbs |-> Thumbnails(photos[i])]],
                       [i \in DOMAIN albums |->
                          [name |-> albums[i],
                           ids  |-> [j \in DOMAIN members[albums[i]] |->
                                       id'[members[albums[i]][j]]]]])
        /\ saved' = <<photos, albums,
                      [a \in Album |-> IF Listed(a, albums) THEN members[a] ELSE <<>>]>>
     \/ "thumbnails" \in Faults /\ UNCHANGED <<stored, saved>>
  /\ UNCHANGED <<db, loose>>

(* ipod_parse_photo_db: an id stands for the last photo that has it, or    *)
(* for NULL.                                                               *)
Parsed ==
  LET read == ReadMhfd(stored)
      parsed == [i \in DOMAIN read.images |-> PhotoOf(read.images[i].thumbs)]
      byId(n) == LET found == {i \in DOMAIN parsed : read.images[i].id = n}
                 IN IF found = {} THEN NoPhoto ELSE parsed[Max(found)]
      at(a) == {i \in DOMAIN read.albums : read.albums[i].name = a}
      ids(a) == IF at(a) = {} THEN <<>> ELSE read.albums[Max(at(a))].ids
  IN [photos  |-> parsed,
      albums  |-> [i \in DOMAIN read.albums |-> read.albums[i].name],
      members |-> [a \in Album |-> [j \in DOMAIN ids(a) |-> byId(ids(a)[j])]],
      ids     |-> [i \in DOMAIN parsed |-> read.images[i].id]]

(* itdb_photodb_parse: a database without photos and albums gets a library.*)
Parse ==
  /\ \E parsed \in {Parsed} :
       /\ photos' = parsed.photos
       /\ albums' = IF parsed.photos = <<>> /\ parsed.albums = <<>> THEN <<Library>>
                    ELSE parsed.albums
       /\ members' = parsed.members
       /\ id' = [p \in Photo |-> IF Listed(p, parsed.photos)
                                 THEN parsed.ids[FirstPlace(p, parsed.photos)] ELSE 0]
  /\ loose' = {}
  /\ UNCHANGED <<stored, saved>>

Next ==
  \/ \E p \in Photo, pos \in Position : AddPhoto(p, pos)
  \/ \E a \in Album, p \in Photo, pos \in Position : AddToAlbum(a, p, pos)
  \/ \E p \in Photo : RemovePhoto(p)
  \/ \E a \in Album, p \in Photo : RemoveFromAlbum(a, p)
  \/ \E a \in Album, pos \in Position : CreateAlbum(a, pos) \/ AddAlbum(a, pos)
  \/ \E a \in Album, remove_pics \in BOOLEAN : RemoveAlbum(a, remove_pics)
  \/ \E a \in Album : UnlinkAlbum(a)
  \/ Write
  \/ Parse

Spec == Init /\ [][Next]_vars

-----------------------------------------------------------------------------
(* No album of the database has a photo that was freed, however often the  *)
(* photo was put into it and whichever album it was removed through.       *)
MembersInPhotos ==
  \A a \in ToSet(albums) : ToSet(members[a]) \subseteq ToSet(photos)

(* The first album has every photo, so that removing photos through it     *)
(* reaches all of them: after albums were removed with their photos,       *)
(* unlinked, brought back, and after a library was made anew.              *)
LibraryComplete == albums # <<>> => ToSet(photos) = ToSet(members[Head(albums)])

(* itdb_photodb_remove_photo() and the album calls leave no album with a   *)
(* photo that is gone, and no photo outside the library.                   *)
AlbumsSound == TypeOK /\ MembersInPhotos /\ LibraryComplete

(* What is on the iPod reads back as it was: the same photos and the same  *)
(* members in the same order, with the thumbnails of each, though chunks   *)
(* that do not fit are passed over in silence and the ids are given out    *)
(* anew with every write (write_mhfd, parse_mhfd, ipod_parse_photo_db).    *)
ReadsBack ==
  LET parsed == Parsed IN <<parsed.photos, parsed.albums, parsed.members>> = saved

(* A photo that leaves the database leaves every album in the list, and    *)
(* nothing else changes: the other members keep their order.               *)
RemovalExact ==
  [][LET gone == ToSet(photos) \ ToSet(photos')
     IN gone # {} /\ ~Parse =>
          \A a \in ToSet(albums) \cap ToSet(albums') :
            members'[a] = Without(members[a], gone)]_vars
=============================================================================
