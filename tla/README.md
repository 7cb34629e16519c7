# A verification of libgpod

libgpod reads and writes the database of an iPod: which tracks it holds, its
playlists, what the owner played, covers and photos.  A program parses the database
(`itdb_parse`), changes it in memory, copies files to the iPod and writes the
database back (`itdb_write`).  The iPod, meanwhile, keeps notes of its own (play
counts, ratings, On-The-Go playlists) in files that the library has to merge and
take away again.  Nothing on either side is transactional.

The modules here model that.  Every definition is translated from the code, and
`PROJECT.json` (`map`) gives the lines of each one.  Source paths below are
relative to `src/src/` unless they say otherwise.

## 1. The system

| Component | Code | State | What is hard, and what makes it correct | Modelled by |
|---|---|---|---|---|
| In-memory library | `itdb_track.c`, `itdb_playlist.c`, `itdb.h` | `itdb->tracks`, `itdb->playlists`, `pl->members`, ids, `itdb` pointers, `num` | Plain pointers without reference counts: a long sequence of legal calls must not leave a list with an object that was freed. Ids unique. Members may point to tracks that are gone, and a write meets them. | `ItdbLibrary` |
| Renumbering | `prepare_itdb_for_write`, `reassign_ids`, `write_playlist_mhips` in `itdb_itunesdb.c` | the order of `tracks`, `track->id` | The loop changes the list it searches; the ids that are written must be those of the members. | `ItdbLibrary` |
| Smart playlists | `itdb_spl_update`, `itdb_splr_eval` in `itdb_playlist.c` | rules, limits, members | A list may refer to other lists, which are updated before or after it; limits and their edges. | `SplRules`, `SmartPlaylist` |
| Reading and merging | `itdb_parse`, `parse_fimp`, `playcounts_*`, `process_OTG_file` | counts files, On-The-Go files | Positions in one file must mean the tracks of another one, read earlier by the iPod. Damaged files. | `ItdbSync` |
| Writing | `itdb_write`, `itdb_shuffle_write*`, `itdb_rename_files`, `itdb_sqlite_generate_itdbs` | `iTunesDB` or `iTunesCDB`, `iTunesSD`, `iTunes Library.itlp`, counts files | Five or six file updates in a row, any of which fails or is cut off. | `ItdbSync` |
| Database format | `mk_*`, `write_*`, `get_*` in `itdb_itunesdb.c` | hunks with lengths and counts | Lengths are written last; each list is written twice in two forms; reading what was written gives it back. | `ItdbExport`, `MhFormat` |
| Shuffle database | `write_bdhs` and what it calls | `iTunesSD` | Offsets known only after what they point to; the tracks have another order than the file that has the counts. | `ShuffleSd` |
| sqlite database | `itdb_sqlite.c` | tables | Written by other code from the same data; refused rows. | `SqliteTables` |
| File copy | `itdb_cp*` | the music directories, `track->ipod_path`, `transferred` | Several threads draw names and test them before they create the file; a copy may end at any byte. | `FileCopy` |
| Covers | `db-artwork-*.c`, `itdb_artwork.c`, `ithumb-writer.c` | image ids, links of tracks, `ArtworkDB`, thumbnails | Ids are replaced while they are looked up; several tracks share one image. | `ArtworkDb` |
| Thumbnail files | `ithumb-writer.c` | `.ithmb` files, offsets | Rearranging moves images in place; an offset must go on meaning the same image, also when a call fails. | `IthmbRearrange`, `IthmbSlots`, `IthmbPacked` |
| Photo albums | `itdb_photoalbum.c` | photos, albums | The same as playlists, with an album that must contain all. | `PhotoDb` |
| Photo Database | `db-artwork-parser.c`, `db-artwork-writer.c`, `db-parse-context.c` | chunks with lengths and counts | The reader goes on in silence where a chunk does not fit. | `PhotoChunks` |
| iPhone sync lock | `itdb_iphone.c`, `itdb_start_sync`, `itdb_stop_sync` | the lock file on the iPhone, `iphone_sync_context`, `iphone_sync_nest_level` | A lock other processes take, a limited number of attempts, eight calls that can fail and one error path. | `SyncLock` |
| Chapters | `itdb_chapterdata.c`, `itdb_chapterdata_build_chapter_blob_internal`, `get_mhod` | a list of chapters, a blob of nested atoms | The reader trusts the numbers of children, which the writer gives before it writes them; the blob goes to both databases. | `ChapterData` |
| Others | hashes, zlib, device tables, paths, initialisation, time zones, pixmaps, callouts | little or none | Pure functions, tables, or straight-line input and output. | section 6 |

How they interact.  The application calls the library, which calls nothing back
(callbacks of smart playlists and `userdata` copying aside).  `itdb_write` writes the
thumbnails and `ArtworkDB`, calls `itdb_start_sync`, renumbers, generates the sqlite
files or `iTunesSD` when the device wants them, replaces the database file, takes the
notes away and calls `itdb_stop_sync`.  Between two sessions only the files remain, and
the iPod changes some of them.  There are no threads inside the library; there are other
programs on the iPhone, and applications use `itdb_cp` from threads.

## 2. The modules

    GList                     lists as glib has them
     ├ ItdbLibrary            the library, any application
     ├ ItdbSync               the files, the iPod, parsing and writing
     │  ↑ implements PlayLedger      what the owner of an iPod expects    (abstract)
     └ PhotoChunks            Photo Database, chunk by chunk
        └ PhotoDb             photos and albums, written and read with it
    SplRules                  what a rule says of a track
     └ SmartPlaylist          updates of smart playlists
    ChapterData               the atoms that chapters are kept in
     └ ItdbExport             what is prepared before anything is written
        ├ SqliteTables        the tables made from it
        ├ ShuffleSd           the iTunesSD made from it
        └ MhFormat            the iTunesDB made from it, with both of the above
    IthmbPacked               where pictures are after rearranging
     ├ IthmbRearrange         rearranging, one call at a time
     │  ↑ implements IthmbSlots      what rearranging one file promises   (abstract)
     └ ArtworkDb              covers, their ids and links; rearranging at once
    FileCopy                  threads that copy tracks to the iPod
    SyncLock                  the iPhone's lock

`GListProofs`, `ItdbLibraryProofs`, `ItdbSyncProofs`,
`PhotoDbProofs` (with those of `PhotoChunks`), `SmartPlaylistProofs`, `ArtworkProofs` (of `IthmbSlots`,
`IthmbRearrange` and `ArtworkDb`), `FileCopyProofs` and `SyncLockProofs` hold the theorems; `MC*` the instances for TLC.  Mutants (operators with "Mutant" in their comment) are what plausible
bugs would make of a definition; no action uses them.

### ItdbLibrary

`tracks` and `playlists` are the two lists, `trk` and `pls` what every
`Itdb_Track` and `Itdb_Playlist` holds, freed ones included, so that a pointer to
freed memory can be seen.  One action per function: `TrackAdd` is `itdb_track_add`
with its drawing of a dbid, `PlaylistAdd` is `itdb_playlist_add` with
`itdb_playlist_add_internal`, and so on.  The application is any program that
passes pointers it owns and does what `g_return_if_fail` asks for.  `itdb_write` is
four kinds of steps: `WriteBegin` (the master playlist is looked up),
`WriteReorder` (one turn of the loop in `prepare_itdb_for_write`, or its early return),
`WriteIds`, and `WriteSections`, which ends it.

Assumed: one thread; an address is not used again after it was freed; a random id
that was drawn is not the id of a playlist or track outside the lists (the code
itself compares only with those in the list).  The members a smart playlist gets are left
open here (`SplUpdate` takes any choice of tracks); texts and artwork are in other modules.

Nothing is assumed of the order in which an application calls the library.  `itdb_itunesdb.c:61` asks that
"The master playlist is guaranteed to be the first playlist, and this must not be changed by your code", and only
tracks of the database should be members, but no function checks either, and the callers in this repository do not keep the
second: `Database.remove` of the Python binding (`src/bindings/python/ipod.py:178`) takes a track out once per listed playlist and
then unlinks it, so that one held twice stays a member, and `import_file` (`:130`) makes a track a member of the
master playlist that was never added.  So the properties say what a write does
with such playlists: `PrepareOutcome` when it numbers the tracks at all, and `MemberIdsResolve` which of the
ids it writes can be relied on.

### PlayLedger and ItdbSync

`PlayLedger` says what the owner expects: each play, skip, rating and On-The-Go
playlist is noted once, with its song, as long as the song stays.  `ItdbSync` is the
files and both parties.  `family` is the kind of iPod: `hard` has `Play Counts` and
`OTGPlaylistInfo`, `shuffle2g` and `shuffle` have `iTunesStats` in its two formats and
play from `iTunesSD`, `sqlite` has `PlayCounts.plist`, plays from
`iTunes Library.itlp` and keeps its database in `iTunesCDB`.  The first three name a
song by its position in the database the iPod had, the last by its dbid.

`Parse` is the whole of `itdb_parse`: which of the two files is read (`Current`), the
merging of each entry (`MergePlaycount` after `get_mhit`), the On-The-Go playlists.
`itdb_write` is one action per file operation, in the order of the code, so that a
failure or `Crash` can come between any two: `SqliteGenerate`, `ShuffleWriteSd`,
`ShuffleRenameFiles`, `WriteDatabase`, `TruncateItunesDb`, `WriteRenameFiles`.  Replacing
the database is one step, because `wcontents_write` writes another file and renames it;
the six sqlite files are replaced one after the other, and when copying one fails or is cut off they are old, new or some of
each, and one may be gone or torn, because `itdb_cp` empties what it writes to and removes it on
failure (`HalfCopied`: the iPod then plays the old songs, the new ones, those in both or none).  The renamed backups have no readers in the library and are not kept.  `heard`
is a history variable: what was done to each track, as far as the iPod can still know it
(a damaged counts file is a loss of its own).

The refinement maps the ledger to `Shown`: what parsing would report now, except
between saving and taking the notes away, when it is what is being saved.  That
there are such places is why a failure exactly there counts plays twice; no code
with two files can avoid it.  `Parting` names them: renaming the notes on hard disk iPods, and on Shuffles
the steps from removing the notes to saving the database, between which `iTunesSD` and
database may also number the songs differently.  No other step is spared in `sync_ledger`.
For the Shuffles the mapping leaves out skips and ratings (section 5).

### MhFormat, with ItdbExport, ChapterData, SqliteTables and ShuffleSd

A file is a sequence of cells, one for each header or mhod, and seeks and lengths count
cells.  `Database` is `itdb_write_file_internal`: the track list, section 3 with the
podcasts of a playlist grouped by album, section 2 without groups, albums, artists,
composers, and the sections that are written empty.  The master playlist gets its sorted
indexes and jump tables (`Indexes`, `JumpTable`).  `ReadDatabase` walks the cells as
`parse_fimp` does: `FindMhsd` by type, children by count, from one header to the next by its length, the
members of a playlist after their order.  `ItdbExport` is `prepare_itdb_for_write`: order
and ids, with albums told apart by `itdb_album_equal`.  `SqliteTables` has one operator for
each table of `mk_Library`, `mk_Dynamic`, `mk_Locations` and `mk_Extras`, and `CanGenerate` for the rows that are
refused; `ShuffleSd` both forms of the `iTunesSD`.  `ChapterBlob` and `ReadChapters` are the chapters of a
track as atoms within a mhod and within the table `chapter`.

The actions: `Write` (all files a kind of iPod has), `WriteRefused` (the tables could not be
made: `itdb_write` fails and the `iTunesDB` stays), `Amend`, `WriteOld` (a
database of an old iTunes, without section 3 and with its members in another order,
external), `Parse`.

Left out: numbers, dates and flags of a track that are copied one by one; `sort_*` and
television fields (one mhod per kind of text stands for those treated alike); a smart
master playlist; chapters that are removed or duplicated.  Assumed: dbids, playlist ids and the random ids of the sqlite tables are
distinct and not 0 (nothing in the code sees to the first: section 5); texts that collate alike are equal;
one playlist with podcasts; hash tables return the first of the albums that are alike;
tracks of a Shuffle have a path; a parse or a fresh start comes between two writes.

### SplRules and SmartPlaylist

`SplRules` is `itdb_splr_eval` for each type of field: texts, numbers, dates, flags, media
types and membership of another playlist; the fields of one type are treated alike by the
code and stand for each other.  `SmartPlaylist` is `itdb_spl_update` (`Refilled`: select while the
playlist is empty, sort, take up to the limit), `itdb_spl_update_all`, `itdb_spl_update_live` (one
playlist after the other, each seeing what those before it got) and
`itdb_playlist_randomize`, between plays, checks, edits and removals by the application.
Sums are exact here (the code adds `gdouble`s); sorting by texts is left out, and so are the limits by
time and GB, which have another unit and the same loop.  The members of a smart playlist are left to
the library.

### FileCopy

A thread is inside one `itdb_cp_track_to_ipod`, or its three parts: `StartAtPath` and
`StartAtRandom` (which name `itdb_cp_get_dest_filename` begins with), `Probe` (one turn of
its loop), `OpenSource`, `Create`, `CopyBlock`, `CloseFiles` (`itdb_cp`, each with its failure and
`err_out`), `Finalize`.  `Save` and `Restart` are the application's: the database with the paths is
written with every track, copied or not, and the program ends at any moment and parses what is there, after which
all these tracks count as transferred.  A name is the random number in it, and all threads draw from one
generator.  When a copy fails, `g_unlink` may fail too, whose result the code does not look at; `left` has the files that are
half written for this reason or because the program ended.

Nothing keeps two threads apart: a name is tested (`:7358`) and created (`:7684`) in two calls, and in between
another thread may find it unused as well.  Nor does the search look at the paths of other tracks, whose file
may be gone because copying it anew failed.  The model does both, and two tracks then have one file, and `itdb_cp` of one thread
removes or empties the file of another.  The history variable `contested` has the names that were taken in one of these two
ways (`SpokenFor`), and the properties promise for all other names what the comments promise for all (section 5).

### IthmbRearrange, IthmbSlots and IthmbPacked

`IthmbSlots` says what rearranging one file of thumbnails promises: slots are visited from the
first, a free one is filled from the last slot in use, and the file is cut off.  `IthmbRearrange` is the code:
a list sorted by offset whose head is the last thumbnail in the file and which is rotated as
thumbnails move, a pointer `gl` into it, several files out of a hash table, and one `result` for
all of them.  Each call may fail (`Faults`).  `ragged` are files whose thumbnails have
different sizes, which the code refuses.  Offsets count cells, of which a picture has `Size`, so that a
write that fails leaves half a picture; `Slots(f)` maps them to the slots of `IthmbSlots`.  `Stride` is the distance of pictures: it is
`Size` in the run and in the theorems (`NoPadding`); with the padding of some formats it is not, and then the code moves half
pictures (section 5).  `IthmbPacked` is the outcome in one operator, which `ArtworkDb` uses and `FilesPacked`
checks against the steps.

### ArtworkDb

A cover is nothing, a new picture, or a thumbnail at a slot of the file.  `Prepared` is
`itdb_prepare_thumbnails`: `SetIds` is `ipod_artwork_db_set_ids`, which replaces the ids of the previous numbering
while it looks tracks up by them, `MarkNewDoubles` is `ipod_artwork_mark_new_doubles`, which gives equal
pictures of one album one id.  `Write` is `ipod_write_artwork_db`: rearranging, appending, the entries,
and the links (`mhii_link`) the `iTunesDB` then has.  `ParsedArtwork` is
`mhfd_associate_itunesdb_artwork`, by dbid and then by link.  History variables: `cover`, the picture each track was given;
`lost`, the tracks whose picture could not be written; `astray`, the tracks whose thumbnail may not have its picture, and
`astrayIds`, the entries made from such thumbnails.  One format with one thumbnail file.  Its `Init`, `Next` and `Spec` are called `ADInit`, `ADNext` and `ADSpec`,
so that `ArtworkProofs` can extend it together with `IthmbRearrange`.

Assumed: two tracks with one dbid are duplicates of each other, of which one whose cover was
removed gets it back (`Regains`); all files of a write are written, or only a picture is missing.  There may be
any number of writes between two parses.  A write that moves a shared picture tells only the first track with it
(section 5), so the other thumbnails go astray; a later write that makes one of them the first takes
the picture at its old place, and does not rearrange at all when this is behind the end of the file (`InFile`: the picture
to be moved first cannot be read).  What the properties say of one entry they say of those made from thumbnails that
had not gone astray: without this exception TLC refutes `StoredCoversRight` and `NoPictureWasted`, and the theorems name it.
`DatabaseSound` needs no exception.

### PhotoDb and PhotoChunks

`PhotoDb` has one action per call of `itdb_photoalbum.c`.  `PhotoChunks` is the file as cells:
`Write*` are the functions of `db-artwork-writer.c` for it, with the lengths they come to,
`Read*` those of `db-artwork-parser.c`.  A chunk that is not what the reader expects ends a list (`Children`), a
format the iPod does not have is left out (`ReadThumb`), and a length that is not that of the
file ends all (`ReadMhfd`).  `Parsed` then replaces ids by photos, as
`ipod_parse_photo_db` does with its hash table.

Assumed: the application puts the library in front, removes it only with its photos, and does
not bring back an unlinked album with photos that are gone.  A photo is known
by its thumbnails and an album by its name; the ids of albums, which nothing refers to, dates and
effects are left out.  Files are little-endian; for the big-endian ones of phones see section 5.

### SyncLock

A client is an `Itdb_Device` with one thread.  `pc` is the place inside
`itdb_iphone_start_sync` or `itdb_iphone_stop_sync`, one step per call to the
iPhone, each with its failure.  `depth` and `writing` are the caller's side: what the
application has to stop again, and the bracket in `itdb_write`, which stops even what it
could not start.  The iPhone's own use of the lock and a killed application are
external steps.

## 3. What TLC checks

Small sets of model values, with symmetry where only safety is checked.  Constants named
`Max...` bound what would grow for ever and are guards of the actions that make it grow.

| Run | Question | Instance and why it is enough |
|---|---|---|
| `library` | Can any sequence of calls break the lists, the ids or renumbering, and when does a write number the tracks? | 2 tracks, 2 playlists, 2 ids each, up to 2 members. Two objects are needed for a duplicate, a position and an id clash; a member may be there twice, freed or not in the database. |
| `sync_ledger` | Is every play noted once, over any number of sessions? | 2 songs, of which one is on the iPod at first, so that one can be added, removed, moved and added again; 2 plays or skips, 2 ratings, 1 On-The-Go playlist. Every step may fail or be cut off but those of `Parting`. |
| `sync_faults` | What survives any failure, interruption or damage? | 2 songs on all four kinds of iPod, all steps may fail or be cut off, the counts file may be damaged. No ratings, which the properties do not mention. |
| `format` | Does everything that was written come back, and do all copies show the same? | 3 tracks in 24 libraries chosen for their edges: NULL, empty and equal texts, members that come twice, an empty master playlist, playlists without a name or members, podcasts outside the master playlist, audiobooks, album artists, "Unknown Genre", section 5, with and without cuid, chapters that start at 0 or have no title; 4 kinds of iPod and an old iTunes. |
| `smart` | Are smart playlists what their rules say, whatever the order of updates? | 3 tracks, 3 playlists (1 plain, 2 smart) in every order, 7 pairs of preferences with rules that name the other list, or each other, limits with and without ties, empty tracks and a limit of 0; 2 edits, 2 plays, 2 clock readings. |
| `filecopy` | Do copies stay whole and apart? | 2 tracks, one of them on the iPod at first, 2 threads that draw the same number, 3 names, files of 1 piece (a file without it is half written), 1 file left half written, 1 contested name. |
| `ithmb` | Does rearranging keep the pictures at every step? | 3 thumbnails in 2 files of up to 4 slots, pictures of 2 cells: shared slots, holes of more than one, files without thumbnails; five kinds of failing calls. |
| `artwork` | Does every track keep its cover? | 3 tracks of one album and 2 pictures, so that covers are shared and told apart; 3 pictures in the file; one picture may fail. 7 edits with sparse artwork, 4 without, among any number of writes and parses. |
| `artwork_offsets` | Is every thumbnail in memory told where its picture was moved? | It is not, in the same instance: section 5. |
| `photos` | Do albums stay right in memory and on the iPod? | 2 photos with 2 thumbnails, the library and an album, 2 members each, the same one twice too. |
| `lock` | Is the lock held, released and counted, and do calls return? | 2 clients and the iPhone, 3 attempts instead of 50 (one, some, none left), 2 nested calls. |
| `sync_sqlite_notes` | Is `PlayCounts.plist` taken away? | It is not: section 5. |

The properties, in the words of the code:

- `library`.  `ListsSound`: no list holds an object twice, or one that was freed, and
  `itdb` pointers agree with the lists.  `PlaylistIdsUnique`.  `TracksInMplOrder`: renumbering puts the
  tracks of the master playlist in front, in its order.  `PrepareOutcome`: tracks are renumbered exactly when there is a
  master playlist in front and the database has its members, also those held twice.  `MemberIdsResolve`: then the
  ids that `write_playlist_mhips` writes for members that the database has name one track each.
- `sync_*`.  `ImplementsLedger`: the refinement of `PlayLedger`.  `SyncSound`: types, and `itdb_parse`
  finds a database.  `EveryPlayKept`, `StoredPlaysKept`, `WrittenCopiesAgree`,
  `PositionsTakenAway`: under failures.
- `format`.  `ReadsBack`: tracks, texts, chapters, playlists and members come back as they were, empty
  texts as NULL.  `CopiesAgree`: section 2, the tables and the `iTunesSD` show what section 3 has, and
  the ids in the tables lead to rows.  `HunksNest`: counts and lengths, of atoms too.  `IndexSound`: the sorted indexes and their
  jump tables.
- `smart`.  `MembersSound` (limits), `UpdateFills`, `OnePassFillsInOrder`, `PassesSettle` (updating all as
  often as there are playlists settles rules without a circle), `OppositesSplit`.
- `filecopy`.  `TransferredWhole`, `StoredWhole`, `OwnFile`, `NothingPartial`, `CopyEnds`.
- `ithmb`, `artwork`, `photos`.  `PicturesKept`, `FilesPacked`, `ImplementsSlots`,
  `RearrangeEnds`; `StoredCoversRight`, `DatabaseSound`, `NoPictureWasted`; `AlbumsSound`,
  `ReadsBack`, `RemovalExact`.
- `lock`.  `ContextHoldsLock`, `NoLockLeft`, `NestingCounts`, `CallsReturn`.

The type invariants are proved (`ItdbLibrary`, `ItdbSync`, `PhotoDb`, `SyncLock`, `FileCopy`), or a
part of the first invariant of their run.

Fairness is assumed where a function, once called, goes on: `SyncLock` (`WF(Proceed)`: the loop over
the lock attempts sleeps and goes on), `IthmbRearrange` (`WF(Step)`: one thread in one function),
`FileCopy` (`WF(Step(c))` for each thread: operating systems schedule them all).  Nothing is assumed
of the iPhone: `CallsReturn` holds although it may keep the lock.  `SmartPlaylist` assumes nothing:
that updates settle is bounded by the number of playlists.  All other properties are safety.

For each property `PROJECT.json` has a mutant of the code that breaks it.

## 4. What is proved

With TLAPS, for every value of the constants:

- `ItdbLibraryProofs`, of any application: `TypeCorrect`, `ListsCorrect`, `PlaylistIdsCorrect`,
  `TrackOrderCorrect`, `ReorderKeepsTracksCorrect`.  The argument is an inductive
  invariant that says of each object where its life is (not allocated, live, freed) and
  in which lists that puts it; `TracksInMplOrder` needs, during the loop, that the
  members already handled are the first tracks, in order.  `PrepareOutcomeCorrect` needs that they are
  still listed (`MembersHandled`), because a turn only moves tracks, and `MemberIdsResolveCorrect` follows from it and from
  numbering being injective on the tracks in the list (`IdsAssigned`).
- `ItdbSyncProofs`: `DatabaseReadableCorrect`, `WrittenCopiesAgreeCorrect`, `StoredPlaysKeptCorrect`,
  `EveryPlayKeptCorrect`, `SyncSoundCorrect`, `PositionsTakenAwayCorrect`, `LedgerImplemented`.  There are four
  invariants.  `Copies` says at which step of
  `itdb_write` which files already have the songs in memory, and that `iTunesDB` is only
  emptied when `iTunesCDB` is there.  The other one says that the database in memory never has fewer plays
  than the one on the iPod (`NoFewer`, in `PlaysInv` and `HeardInv`), that a note belongs to one track, because places
  and dbids differ, and that memory has all that was heard; between saving and taking
  the notes away the two databases are equal, which is why a failure there loses nothing.  `SoundInv` says that every playlist, in any file and in memory,
  has songs of its own database, and that after TRUE the iPod has what memory has, and no notes.
  `LedgerInv` is what the refinement needs: while the application has the database, memory is a choice from
  what the files show (`ChosenFrom`: some songs of `Shown`, with their notes, new songs without, and the playlists
  cut down to them), and the places in On-The-Go playlists are those of the current order.  Then saving is
  one step of the ledger, `Only` commutes with parsing, and every other action of libgpod is a
  stutter.  `NotesGoWithSaving` is its assumption, named because the refinement is false
  without: the counts file is not damaged, the kinds of iPod are hard disk and Shuffle (the sqlite
  ones keep their notes: section 5), and no step of `Parting` fails.
- `PhotoDbProofs`, of the file: `PhotoDatabaseReadsBack`, for any photos and albums whose ids are in the file:
  `ReadMhfd` finds in what `WriteMhfd` wrote the photos with their thumbnails and the albums with
  their members, in order.  From the inside out: each writer's cells are as many as its header says
  (`Holds` at an offset), and a loop over children is at the right cell at its every turn, by induction on
  the number of children.
- `PhotoDbProofs`, of the database: `PhotosInvariant`, `PhotoAlbumsSound`, `PhotoFileReadsBack`, `PhotoRemovalExact`.  The
  invariant (`IInv`): photos and albums are listed once, what is a member of a listed album is in the
  database and in the library, and the file is what `WriteMhfd` makes of some photos and albums of which the same
  holds; an unlinked album may keep photos that are gone, which is why it must not come back with them.
- `ArtworkProofs`, of the abstract `IthmbSlots`: `PromiseInvariant`, `PromisePicturesKept`, `PromiseNoSlotWasted`.  The invariant: every visited slot is in use, and while thumbnails follow a moved
  picture both slots hold it.
- `ArtworkProofs`, of the code, with `NoPadding`: `RearrangeInvariant`, `SlotsImplemented`, `PicturesKeptCorrect`,
  `FilesPackedCorrect`.  The invariant (`IInv`, a `FileInv` for each file): lengths and offsets are places of pictures
  (`Grid`); the list has each thumbnail of the file once, and up to `gl` it is sorted (`Listing`), while behind
  `gl` are thumbnails before the slot (`Walking`), so that going back with `gl` misses none and the head of the list is
  the last picture in use; `MoveFirst` rotates the list and keeps both (`From`).  With that every step on a
  file is a step of `IthmbSlots` or none, and leaves the other files alone (`Treated`, `Untouched`).
  `FilesPacked` needs to know which picture went where: as many free slots have been filled before a picture that
  moved as there were pictures behind it (`Filled`), which no two free slots have in common, so that the place is
  the one `PackedSlot` chooses.
- `ArtworkProofs`, of `ArtworkDb`: `CoversInvariant` and from it `StoredCoversRightCorrect`,
  `DatabaseSoundCorrect`, `NoPictureWastedCorrect`.  The invariant (`CoversInv`) says what each of the three places has: an
  entry of `ArtworkDB` has an id of its own and a picture or none (`EntriesInv`); the entry that a track of `iTunesDB`
  links to shows its cover (`StoredInv`); a track in memory holds its cover, new or at its place in the file, and on iPods
  with sparse artwork also that of every track with its id (`Holds`, `Shares`), so that each of them may
  become the one that is written; and covers with different ids are at different slots (`SlotsApart`).  Each of these leaves
  out what went astray.  That is enough for a second write: a cover that is shared and still new is held by each of
  its tracks, and a thumbnail that was not told its new place is astray by then.  A write goes in three steps.  Numbering (`PreparedIdentifies`):
  ranks of first tracks are distinct and without gaps (`RanksGrow`, `RanksTaken`), so that afterwards tracks with
  one id share a cover, thumbnails at one slot have one id, and each id has one owner (`Identified`).  Moving and appending
  (`WritePlaces`): `PackedSlot` maps the used slots one to one onto the first ones (`PackedSlots`; there are as many
  free slots in front as pictures behind), and the new ones follow, so that every slot is taken
  once.  And what the entries then say (`WriteEntriesInv`).  A parse finds by link the entry
  that was written for the track.
- `FileCopyProofs`: `TypesCorrect`, `TransferredWholeCorrect`, `StoredWholeCorrect`,
  `OwnFileCorrect`, `NothingPartialCorrect`, for threads that draw any numbers.  The invariant: a name that was not contested
  belongs to one track, that of the only thread which is going to write to it and the only one that has it for its path
  (`NamesApart`); what such a thread wrote up to its position is the track's (`ThreadInv`); a file that a track or the
  database needs is whole, and no thread writes to it (`TrackInv`).  Finding a name keeps this because a name
  that anyone had is contested from then on (`SpokenFor`).
- `SyncLockProofs`: `LockInvariant` and from it `TypeCorrect`, `ContextHoldsLockCorrect`,
  `NoLockLeftCorrect`, `NestingCountsCorrect`.  The invariant (`ClientInv`) says, for every
  place in the two calls, whether the client has the lock and what it has counted; a step
  of one client leaves the others alone because it takes a lock that nobody has or
  gives up its own.
- `SmartPlaylistProofs`: `MembersInvariant`, `MembersSoundCorrect`, `UpdateFillsCorrect`, `OnePassCorrect`,
  `PassesSettleCorrect`, `OppositesSplitCorrect`.  The loop of a limit is followed turn by turn
  (`TurnTakes`): what was taken sums up to the running total, and what was passed over had no room beside that,
  nor later, since totals only grow (`NoRoomGrows`); so a fill is right for what was selected (`LimitedFills`,
  `SortedFits`, `ShuffledFits`).  What is selected depends only on the playlists the rules name
  (`MatchesDepends`), so an update of others leaves it right, and a pass over a list of playlists leaves each one right
  that names none of those behind it (`PassFills`).  `MembersInvariant` keeps every smart playlist within
  its limit, whatever is edited.  `PassesSettle` needs a stronger invariant (`Settling`): along every order in which the rules
  name only earlier playlists, after n passes the first n playlists are as another update
  would leave them.  Its assumption (`SmartAssumption`) is that the library lists each track once and
  that a rule has all its operands.
- `GListProofs`: what removing from, inserting into and filtering a list does, cited by the above.  The recursive
  functions (`Only`, `Children`) are proved about by induction over the set of numbers for
  which a statement holds (`EveryNatural`), since the induction theorems of the library take an
  operator.

They rest on the named assumptions of the modules, on `NotesGoWithSaving` and `NoPadding` where a
theorem says so, and on nothing else.

Only model-checked: everything about `MhFormat`, whose readers recurse over nested hunks; liveness, which is out of the
prover's reach.

One caution about tlapm 1.4.5: its SMT translation takes two `CASE` expressions with the same first arm for equal.
No definition that a proof expands has a `CASE` whose arms differ before and after a step or between two operators
(alternatives are `IF` or disjunctions), so that nothing here rests on it.

## 5. Where the code and its documentation differ

Two differences have a run in which TLC finds them.  `sync_sqlite_notes`: "Delete the file containing the
playcounts, once we saved the database" (`itdb_itunesdb.c:1203`), but `playcounts_reset` looks for
`PlayCounts.plist` in the top directory (`:1215`), so that its plays are added again by every parse.
`artwork_offsets`: "A GList is kept with pointers to all images in a given file which allows to adjust the offset
pointers" (`ithumb-writer.c:1422`), but the images of tracks that share the cover of another are left out (`:1439`); more
below.

Noticed while modelling, without a run.  About notes and saving:

- On a Shuffle the counts are removed (`itdb_itunesdb.c:6493`) before the database is saved;
  `:6192` says "An existing "Play Counts" file is renamed to "Play Counts.bak" if the export was
  successful".  The plays are lost when saving then fails.
- Skips of a Shuffle are read into `skipped` (`:1075`, `:1110`), which is not merged; `itdb.h:1452`: "The
  number of times the track has been skipped."  The new format leaves `rating` at 0 (`:1101`) and not
  at the "value to indicate that playcount was not set" (`itdb_private.h:113`), so that ratings are reset.
- An On-The-Go playlist that names a missing track sets an error and returns TRUE (`:2891`); `:2858`: "On
  error FALSE is returned and fimp->error is set accordingly."
- `itdb_write` ignores the result of `itdb_start_sync` (`:6230`), which "makes sure the "Sync in progress" screen
  is shown for the whole duration of the writing process" (`:6271`).  `itdb_iphone_stop_sync` returns
  0 when the iPhone could not be told.
- The warning "Error parsing recent playcounts" (`:3294`) is given exactly on success.
- The result of `ipod_write_artwork_db` is ignored ("considered non fatal since they shouldn't corrupt the main
  database", `:6212`), but the ids and links have changed by then: when `ArtworkDB` could not be
  written, its old entries and the new links do not belong together.

About ids and lists:

- `itdb_track_duplicate` copies the dbid, which `itdb_track_add` keeps unless it is 0 (`itdb_track.c:176`);
  `itdb.h:1403`: "Unique database ID that identifies this song".  Two such tracks violate the primary
  key of `item` and make `itdb_write` fail on sqlite iPods (`itdb_sqlite.c:1135`).
- `itdb_playlist_remove_track` takes out a track once even if the playlist holds it twice.
- In the Python binding `Database.remove` leaves such a track a member and unlinks it; for a playlist it goes through the
  members by position while it removes them (`src/bindings/python/ipod.py:170`, "remove all the tracks that were in this playlist"), so that it
  misses every second one.
- `itdb_album_equal` is not transitive (`itdb_itunesdb.c:5784`): which albums exist depends on the hash table.
  `priv->album_id` keeps its value when a track's album becomes NULL (`:5923`).
- A smart master playlist has 4 mhods by its header and 12 in the file (`:5489`), which the reader
  refuses.  A playlist without a name has one less than its header says; the reader copes.
- A jump table may list a letter twice, when texts of different letters sort alike (`:4755`).
- `write_rths` takes the length of a path that is NULL for a track that was never copied.

About smart playlists: the fields for podcasts, album ratings, purchases, sorted texts, categories and
descriptions have a type but no case in `itdb_splr_eval`, and integers have no case for "not greater" and "not less",
which `itdb_splr_get_action_type` offers.  Time differences are cut to an `int` (`itdb_playlist.c:677`), and
texts are compared by `strcmp` when they may be NULL (`:645`).

About the sqlite tables: a genre called "Unknown Genre" violates the unique key of `genre_map`
(`itdb_sqlite.c:744`), and a master playlist without a name is refused (`:889`); either makes `itdb_write`
fail.  Texts that collate alike and differ get the order 0 (`:111`); `album.name_order` uses
`ORDER_ALBUM_ARTIST` (`:1241`); `location_kind_map` is filled with INSERT OR IGNORE although its kinds are unique, so that a
media type may have no row; the error of the copy loop is not reset (`:2472`), so every file after a failed one counts
as failed, and an error that was already freed is handed on.

About pictures:

- `ithumb-writer.c:1397`: "If a thumbnail has been removed, a slot in the file is opened."  The slots of
  formats with padding (3004, 3006 and 3007; `:901`) are larger than a picture, and the loop at `:1284`
  steps by pictures; a file whose length happens to be a multiple of both is rearranged wrongly.
- Removing a file that no thumbnail uses counts as a failure (`:1223`), and all files after it are skipped.
- Rearranging skips tracks with `artwork->dbid` 0 (`:1439`): "sparse artwork, has already been written".  But
  `itdb_artwork_duplicate` gives such a track a thumbnail item of its own (`itdb_artwork.c:88`), which keeps the old offset when the picture is
  moved, although `:1398` promises "adjusting the corresponding Itdb_Thumb offset pointer" (run `artwork_offsets`).
  When the first track with the cover is removed, the next write makes this item an entry, whose picture
  is another one or missing.
- `itdb_photodb_parse` does not look at the result of parsing (`itdb_photoalbum.c:231`); `:212`: "NULL in case of
  an error".  The next write then removes all thumbnails.  `itdb_photodb_add_photo_from_pixbuf` always returns NULL, because
  of the check at `:378`.
- Big-endian files: `parse_mhfd` takes the number of children unconverted (`db-artwork-parser.c:629`) and fails at the end
  of the file, so that covers are not associated with tracks; `write_mhod_type_3` uses a length that is not set
  (`db-artwork-writer.c:339`).

About other files:

- `itdb_itunesdb.c:7240` calls giving the mountpoint "thread-safe", but two threads that draw the same number
  (`:7297`) may both find it unused (`:7358`), and then write to one file (`contested` in `FileCopy`).
- The same search takes a name that a track of the database has as its path when its file is gone, as
  after a copy to it that failed (`:7754`).
- `get_mhit` has "track is on iPod!" for every track (`:2585`), also for one that was written without a path
  because it had not been copied; `itdb.h:1386` says of the field "Whether the file been transferred to iPod."
  `itdb_cp_track_to_ipod` does not copy it any more.
- A second failure of `zlib_inflate` (`itdb_zlib.c:140`) sets no error, and the compressed bytes are parsed.

## 6. Not modelled

- Cryptographic hashes, zlib, device tables, generated pixmaps: pure functions of bytes and tables, without
  state.  They are more than half of the lines of the repository (`hashab/data` alone has 32,000), which is why the
  share of lines that `map` covers is low.
- Paths, `itdb_init_ipod`, SysInfo, time zones, callouts: straight-line input and output.  Their outcomes are initial states and constants here.
- Encodings, byte order, dates and the numbers that are copied one by one between a file and a structure.
- Pixel formats, scaling and rotation.
- Damaged databases and photo databases: the code promises nothing for them (counts files may be damaged).
- Crashes of the computer that lose what the file system had not written: `itdb_fsync`
  calls `sync` and the code relies on it.

## 7. Plan

Done and proved: `ItdbLibrary`, `ItdbSync` with its refinement, `SmartPlaylist`, `PhotoDb`, `SyncLock`, `FileCopy`,
`IthmbSlots` and `IthmbRearrange`, which implements it, `ArtworkDb`.  Done and model-checked: `MhFormat`.

Next, in this order:

1. `MhFormat`: `HunksNest` first, by induction on the children of a hunk as `PhotoDbProofs` has it for `Photo Database`,
   then `ReadsBack`.
2. `ArtworkDb` with several formats, each with a thumbnail file of its own.
