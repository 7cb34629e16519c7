------------------------------ MODULE ItdbSync ------------------------------
(***************************************************************************)
(* The files an iPod and libgpod share, over many sessions: the iPod plays *)
(* songs and notes it in its play counts file and its On-The-Go playlists, *)
(* itdb_parse() merges these notes into the database, the application      *)
(* changes the database, and itdb_write() saves it and takes the notes     *)
(* away.  Play Counts, iTunesStats and On-The-Go playlists name a song by  *)
(* its position, so they are only good for the database they were made     *)
(* with.                                                                   *)
(*                                                                         *)
(* Any step of itdb_write() that touches a file may fail, and the iPod may *)
(* be unplugged or the application killed between two steps; FaultAt says  *)
(* at which steps an instance lets that happen, for each kind of iPod.     *)
(***************************************************************************)
EXTENDS Integers, FiniteSets, Sequences, SequencesExt, GList

CONSTANTS
  Song,      \* tracks, each with a dbid of its own
  Families,  \* the kinds of iPod of an instance
  FaultAt,   \* the steps of itdb_write() that may fail or be cut off, by kind
  Damage,    \* whether a file system check may truncate the counts file
  MaxStars,  \* the highest rating
  MaxCount,  \* bound on all plays and skips together (model only)
  MaxLists   \* bound on the number of On-The-Go playlists (model only)

KnownFamilies == {"hard", "shuffle2g", "shuffle", "sqlite"}
WriteSteps ==
  {"sqlite", "sd", "sdRename", "database", "truncate", "rename"}

ASSUME SyncAssumption ==
  /\ IsFiniteSet(Song) /\ Song # {}
  /\ Families \subseteq KnownFamilies
  /\ FaultAt \subseteq KnownFamilies \X WriteSteps
  /\ Damage \in BOOLEAN
  /\ {MaxStars, MaxCount, MaxLists} \subseteq Nat

VARIABLES
  family,  \* the kind of this iPod
  file,    \* the contents of iTunesDB and iTunesCDB
  sd,      \* the order of the tracks in iTunesSD, used by the Shuffles
  itlp,    \* the songs in iTunes Library.itlp, used by sqlite devices
  counts,  \* the play counts file of this kind of iPod
  otg,     \* the On-The-Go playlist files, OTGPlaylistInfo first
  otgInfo, \* whether OTGPlaylistInfo itself is there
  mem,     \* the Itdb_iTunesDB in memory
  pc,      \* where the iPod is and what the application does
  out,     \* what the calls returned
  heard    \* history: what the owner did to each track that the iPod can know

vars == <<family, file, sd, itlp, counts, otg, otgInfo, mem, pc, out, heard>>

-----------------------------------------------------------------------------
NO_PLAYCOUNT == -1   \* the rating of an entry that has none

Stars == 0 .. MaxStars
Order == {order \in Seq(Song) : IsInjective(order)}
Tag == [plays : Nat, skips : Nat, rating : Stars]
Playcount == [plays : Nat, skips : Nat, rating : Stars \cup {NO_PLAYCOUNT}]

NewTag == [plays |-> 0, skips |-> 0, rating |-> 0]
NoPlaycount == [plays |-> 0, skips |-> 0, rating |-> NO_PLAYCOUNT]

(* A database: its tracks, what it says of them, and the playlists that    *)
(* came from On-The-Go files.                                              *)
Database(order, tag, lists) ==
  [state |-> "data", order |-> order, tag |-> tag, lists |-> lists]
NoDatabase(state) ==
  [state |-> state, order |-> <<>>, tag |-> [s \in Song |-> NewTag],
   lists |-> <<>>]

NoCounts(state) == [state |-> state, entries |-> <<>>]
NoResult == [write |-> "none", error |-> FALSE]

Songs(order) == {order[i] : i \in DOMAIN order}
PlaceOf(s, order) == CHOOSE i \in DOMAIN order : order[i] = s

IsShuffle == family \in {"shuffle2g", "shuffle"}
IsSqlite == family = "sqlite"

(* itdb_device_supports_compressed_itunesdb picks the name to write.       *)
WriteName == IF IsSqlite THEN "iTunesCDB" ELSE "iTunesDB"

(* Mutant: the two names are looked up the other way round.                *)
CurrentPrefersItunesDb ==
  IF file["iTunesDB"].state # "none" THEN file["iTunesDB"]
  ELSE file["iTunesCDB"]

(* itdb_parse reads iTunesCDB if there is one.                             *)
Current ==
  IF file["iTunesCDB"].state # "none" THEN file["iTunesCDB"]
  ELSE file["iTunesDB"]

(* How the iPod numbers its tracks.                                        *)
DeviceOrder == IF IsShuffle THEN sd ELSE Current.order
DeviceSongs == IF IsSqlite THEN itlp ELSE Songs(DeviceOrder)

-----------------------------------------------------------------------------
(* Reading the counts file.                                                *)

(* itunesstats_read: the old format sets no rating; the new one leaves the *)
(* 0 of g_new0 there.  Both put the skips in "skipped", which get_mhit     *)
(* does not look at.                                                       *)
ItunesstatsEntry(e) ==
  [plays |-> e.plays, skips |-> 0,
   rating |-> IF family = "shuffle2g" THEN NO_PLAYCOUNT ELSE 0]

(* playcounts_plist_read: a missing rating and the rating 0 are the same.  *)
PlistEntry(e) ==
  [e EXCEPT !.rating = IF e.rating = 0 THEN NO_PLAYCOUNT ELSE e.rating]

(* Mutant: the list that was prepended to is not reversed.                 *)
PlaycountForUnreversed(place, db) ==
  LET last == Len(counts.entries)
  IN IF IsSqlite THEN NoPlaycount
     ELSE IF place \in DOMAIN counts.entries
          THEN counts.entries[last + 1 - place]
          ELSE NoPlaycount

(* playcount_take_next, or the lookup by dbid: what get_mhit merges into   *)
(* the track at a place of the database.                                   *)
PlaycountFor(place, db) ==
  LET key == IF IsSqlite THEN db.order[place] ELSE place
  IN  IF key \notin DOMAIN counts.entries THEN NoPlaycount
      ELSE IF IsSqlite THEN PlistEntry(counts.entries[key])
      ELSE IF IsShuffle THEN ItunesstatsEntry(counts.entries[key])
      ELSE counts.entries[key]

(* Mutant: the count is assigned.                                         *)
MergeReplacesPlays(tag, playcount) ==
  [tag EXCEPT !.plays = playcount.plays, !.skips = @ + playcount.skips]

MergePlaycount(tag, playcount) ==
  [plays  |-> tag.plays + playcount.plays,
   skips  |-> tag.skips + playcount.skips,
   rating |-> IF playcount.rating = NO_PLAYCOUNT THEN tag.rating
              ELSE playcount.rating]

MergedTags(db) ==
  [s \in Song |->
     IF s \in Songs(db.order)
     THEN MergePlaycount(db.tag[s], PlaycountFor(PlaceOf(s, db.order), db))
     ELSE NewTag]

CountOf(tag) == MapThenSumSet(LAMBDA s : tag[s].plays + tag[s].skips, Song)

(* process_OTG_file: the songs at the places of one file, up to the first  *)
(* place the database does not have.                                       *)
OtgMembers(places, order) ==
  LET good == {n \in 0 .. Len(places) :
                 \A i \in 1 .. n : places[i] \in DOMAIN order}
      most == CHOOSE n \in good : \A k \in good : k <= n
  IN [i \in 1 .. most |-> order[places[i]]]

OtgBad(places, order) == Len(OtgMembers(places, order)) < Len(places)

(* read_OTG_playlists: the files in turn, until one is bad.                *)
OtgLists(order) ==
  LET files == IF otgInfo THEN otg ELSE <<>>
      good == {n \in 0 .. Len(files) :
                 \A i \in 1 .. n : i > 1 => ~OtgBad(files[i - 1], order)}
      read == CHOOSE n \in good : \A k \in good : k <= n
  IN [i \in 1 .. read |-> OtgMembers(files[i], order)]

OtgError(order) == otgInfo /\ \E i \in DOMAIN otg : OtgBad(otg[i], order)

-----------------------------------------------------------------------------
Init ==
  /\ family \in Families
  /\ \E order \in [1 .. Cardinality(Song) - 1 -> Song] :
     \E tag \in [Song -> {NewTag, [NewTag EXCEPT !.rating = MaxStars]}] :
       /\ IsInjective(order)
       /\ \A s \in Song \ Songs(order) : tag[s] = NewTag
       /\ LET db == Database(order, tag, <<>>)
          IN \/ file = [iTunesDB |-> db, iTunesCDB |-> NoDatabase("none")]
             \/ /\ IsSqlite
                /\ file = [iTunesDB |-> NoDatabase("empty"), iTunesCDB |-> db]
       /\ sd = IF IsShuffle THEN order ELSE <<>>
       /\ itlp = IF IsSqlite THEN Songs(order) ELSE {}
  /\ counts = NoCounts("none")
  /\ otg = <<>>
  /\ otgInfo = FALSE
  /\ mem = NoDatabase("none")
  /\ pc = "unplugged"
  /\ out = NoResult
  /\ heard = Current.tag

UnchangedDatabase == UNCHANGED <<family, file, sd, itlp, heard>>
UnchangedNotes == UNCHANGED <<counts, otg, otgInfo>>
UnchangedHost == UNCHANGED <<mem, out>>

-----------------------------------------------------------------------------
(* The iPod on its own (external).                                         *)

(* The counts file has an entry for each track, or one for each track that *)
(* has something to note if it is a plist.  The entry of a track nothing   *)
(* was done to repeats its rating, or has none in a plist.                 *)
EntriesFor(s) ==
  LET keys == IF IsSqlite THEN {s} ELSE DOMAIN DeviceOrder
      quiet(key) ==
        [NoPlaycount EXCEPT !.rating =
           IF IsSqlite THEN 0 ELSE Current.tag[DeviceOrder[key]].rating]
  IN [key \in DOMAIN counts.entries \cup keys |->
        IF key \in DOMAIN counts.entries THEN counts.entries[key] ELSE quiet(key)]

KeyOf(s) == IF IsSqlite THEN s ELSE PlaceOf(s, DeviceOrder)
Noted(s) == EntriesFor(s)[KeyOf(s)]

Note(s, entry, did) ==
  /\ counts' = [state |-> "good",
                entries |-> [EntriesFor(s) EXCEPT ![KeyOf(s)] = entry]]
  /\ heard' = [heard EXCEPT ![s] = did]
  /\ UNCHANGED <<otg, otgInfo, pc, family, file, sd, itlp>> /\ UnchangedHost

InUse(s) == pc = "unplugged" /\ s \in DeviceSongs /\ counts.state # "bad"
Countable(s) == /\ Noted(s).plays + Noted(s).skips < MaxCount
                /\ CountOf(MergedTags(Current)) < MaxCount
                /\ CountOf(heard) < MaxCount

DevicePlay(s) ==
  /\ InUse(s)
  /\ Countable(s)
  /\ Note(s, [Noted(s) EXCEPT !.plays = @ + 1],
              [heard[s] EXCEPT !.plays = @ + 1])

DeviceSkip(s) ==
  /\ InUse(s)
  /\ Countable(s)
  /\ Note(s, [Noted(s) EXCEPT !.skips = @ + 1],
              [heard[s] EXCEPT !.skips = @ + 1])

(* The Shuffles have no rating.                                            *)
DeviceRate(s, stars) ==
  /\ InUse(s)
  /\ ~IsShuffle
  /\ Note(s, [Noted(s) EXCEPT !.rating = stars],
              [heard[s] EXCEPT !.rating = stars])

DeviceMakeOtg(s) ==
  /\ pc = "unplugged"
  /\ family = "hard"
  /\ s \in DeviceSongs
  /\ Len(otg) + Len(Current.lists) < MaxLists
  /\ otg' = Append(otg, <<PlaceOf(s, DeviceOrder)>>)
  /\ otgInfo' = TRUE
  /\ UNCHANGED <<counts, pc>> /\ UnchangedDatabase /\ UnchangedHost

(* "the iPod will remove the remaining files" when the first one is gone.  *)
Plug ==
  /\ pc = "unplugged"
  /\ pc' = "plugged"
  /\ UnchangedNotes /\ UnchangedDatabase /\ UnchangedHost

Unplug ==
  /\ pc = "plugged"
  /\ pc' = "unplugged"
  /\ otg' = IF otgInfo THEN otg ELSE <<>>
  /\ UNCHANGED <<counts, otgInfo>> /\ UnchangedDatabase /\ UnchangedHost

(* "zero-length (often happens after dosfsck)", or something unreadable.   *)
DamageCounts ==
  /\ Damage
  /\ pc = "plugged"
  /\ counts.state = "good"
  /\ \E state \in {"empty", "bad"} : counts' = NoCounts(state)
  /\ heard' = Current.tag
  /\ UNCHANGED <<family, file, sd, itlp, otg, otgInfo, pc>> /\ UnchangedHost

-----------------------------------------------------------------------------
(* itdb_parse.  A counts file that cannot be read makes playcounts_init    *)
(* set an error, with which parse_fimp gives up.                           *)
Parse ==
  /\ pc = "plugged"
  /\ CountOf(MergedTags(Current)) <= MaxCount
  /\ Len(Current.lists \o OtgLists(Current.order)) <= MaxLists
  /\ LET db == Current
     IN IF counts.state = "bad"
        THEN /\ out' = [NoResult EXCEPT !.error = TRUE]
             /\ UNCHANGED <<mem, pc>>
        ELSE /\ mem' = Database(db.order, MergedTags(db),
                                db.lists \o OtgLists(db.order))
             /\ out' = [NoResult EXCEPT !.error = OtgError(db.order)]
             /\ pc' = "open"
  /\ UnchangedNotes /\ UnchangedDatabase

(* The application frees the database without saving it.                   *)
Free ==
  /\ pc = "open"
  /\ mem' = NoDatabase("none")
  /\ pc' = "plugged"
  /\ out' = NoResult
  /\ UnchangedNotes /\ UnchangedDatabase

(* Changes by the application.  A track it adds has a new dbid.            *)
Fresh(s) ==
  /\ s \notin Songs(mem.order) \cup Songs(Current.order) \cup DeviceSongs
  /\ s \notin DOMAIN counts.entries

WithoutSong(lists, s) ==
  [i \in DOMAIN lists |-> Without(lists[i], {s})]

Edit ==
  /\ pc = "open"
  /\ \/ \E s \in Song :
          /\ Fresh(s)
          /\ mem' = [mem EXCEPT !.order = Append(@, s)]
     \/ \E s \in Songs(mem.order) :
          /\ mem' = [mem EXCEPT !.order = GListRemove(@, s),
                                !.tag = [@ EXCEPT ![s] = NewTag],
                                !.lists = WithoutSong(@, s)]
     \/ \E s \in Songs(mem.order) :
          /\ mem' = [mem EXCEPT !.order = <<s>> \o GListRemove(@, s)]
  /\ out' = NoResult
  /\ UNCHANGED pc /\ UnchangedNotes /\ UnchangedDatabase

-----------------------------------------------------------------------------
(* itdb_write.                                                             *)

MayFault(step) == <<family, step>> \in FaultAt

Fail(step) ==
  /\ MayFault(step)
  /\ pc' = "open"
  /\ out' = [out EXCEPT !.write = "FALSE"]
  /\ UNCHANGED mem

WriteBegin ==
  /\ pc = "open"
  /\ pc' = CASE IsSqlite -> "sqlite" [] IsShuffle -> "sd" [] OTHER -> "database"
  /\ out' = NoResult
  /\ UNCHANGED mem /\ UnchangedNotes /\ UnchangedDatabase

(* What the iPod can play when the six files of the sqlite database, which *)
(* are copied one after the other, are not all new: the old songs or the   *)
(* new ones, those that some old and some new files have in common, or     *)
(* none.  itdb_cp empties each file before it copies and removes it when   *)
(* copying fails, so that a file may be gone or torn.                      *)
HalfCopied ==
  {itlp, Songs(mem.order), itlp \cap Songs(mem.order), {}}

(* Mutant: the result of itdb_sqlite_generate_itdbs is not looked at.      *)
SqliteGenerateIgnoresError ==
  /\ pc = "sqlite"
  /\ itlp' \in HalfCopied
  /\ pc' = "database"
  /\ UnchangedHost
  /\ UNCHANGED <<family, file, sd, heard>> /\ UnchangedNotes

(* itdb_sqlite_generate_itdbs goes on with the next file when one could    *)
(* not be copied, and reports it at the end.                               *)
SqliteGenerate ==
  /\ pc = "sqlite"
  /\ \/ /\ itlp' = Songs(mem.order)
        /\ pc' = "database"
        /\ UnchangedHost
     \/ /\ itlp' \in HalfCopied
        /\ Fail("sqlite")
  /\ UNCHANGED <<family, file, sd, heard>> /\ UnchangedNotes

(* itdb_shuffle_write_file.                                                *)
ShuffleWriteSd ==
  /\ pc = "sd"
  /\ \/ /\ sd' = mem.order
        /\ pc' = "sdRename"
        /\ UnchangedHost
     \/ /\ UNCHANGED sd
        /\ Fail("sd")
  /\ UNCHANGED <<family, file, itlp, heard>> /\ UnchangedNotes

(* Mutant: a file that could not be removed is not an error.               *)
RenameIgnoresError(goodPc, goodWrite) ==
  /\ counts' \in {counts, NoCounts("none")}
  /\ otgInfo' \in {otgInfo, FALSE}
  /\ pc' = goodPc
  /\ out' = [out EXCEPT !.write = goodWrite]
  /\ UNCHANGED <<otg, mem>> /\ UnchangedDatabase

(* itdb_rename_files: each file on its own, even after another one failed. *)
(* PlayCounts.plist is not among them.                                     *)
RenameFiles(goodPc, goodWrite) ==
  /\ counts' \in {counts, IF IsSqlite THEN counts ELSE NoCounts("none")}
  /\ otgInfo' \in {otgInfo, FALSE}
  /\ LET done == /\ IsSqlite \/ counts'.state = "none"
                 /\ ~otgInfo'
     IN /\ done \/ MayFault(pc)
        /\ pc' = IF done THEN goodPc ELSE "open"
        /\ out' = [out EXCEPT !.write = IF done THEN goodWrite ELSE "FALSE"]
  /\ UNCHANGED <<otg, mem>> /\ UnchangedDatabase

ShuffleRenameFiles ==
  /\ pc = "sdRename"
  /\ RenameFiles("database", "none")

(* wcontents_write replaces the file in one step.  playcounts_reset then   *)
(* looks for the counts file in the directory the iPod is mounted on.      *)
CountsDir == "iPod_Control/iTunes"
ResetDir == "mountpoint"

PlaycountsReset == IF ResetDir = CountsDir THEN NoCounts("none") ELSE counts

(* Mutant: the error of wcontents_write is not propagated.                 *)
WriteDatabaseIgnoresError ==
  /\ pc = "database"
  /\ file' \in {file, [file EXCEPT ![WriteName] = mem]}
  /\ pc' = IF IsSqlite THEN "truncate" ELSE "rename"
  /\ UNCHANGED <<family, sd, itlp, counts, otg, otgInfo, mem, out, heard>>

WriteDatabase ==
  /\ pc = "database"
  /\ \/ /\ file' = [file EXCEPT ![WriteName] = mem]
        /\ counts' = PlaycountsReset
        /\ heard' = [s \in Song |->
                        IF s \in Songs(Current.order) \cap Songs(mem.order)
                        THEN heard[s] ELSE NewTag]
        /\ pc' = IF IsSqlite THEN "truncate" ELSE "rename"
        /\ UNCHANGED <<mem, out>>
     \/ /\ UNCHANGED <<file, counts, heard>>
        /\ Fail("database")
  /\ UNCHANGED <<family, sd, itlp, otg, otgInfo>>

(* The result of emptying iTunesDB is not looked at.                       *)
TruncateItunesDb ==
  /\ pc = "truncate"
  /\ \/ file' = [file EXCEPT !["iTunesDB"] = NoDatabase("empty")]
     \/ MayFault("truncate") /\ UNCHANGED file
  /\ pc' = "rename"
  /\ UNCHANGED <<family, sd, itlp, heard>> /\ UnchangedNotes /\ UnchangedHost

WriteRenameFiles ==
  /\ pc = "rename"
  /\ RenameFiles("open", "TRUE")

(* The iPod is unplugged, or the application ends, in the middle.          *)
Crash ==
  /\ MayFault(pc)
  /\ pc' = "unplugged"
  /\ mem' = NoDatabase("none")
  /\ out' = NoResult
  /\ otg' = IF otgInfo THEN otg ELSE <<>>
  /\ itlp' \in IF pc = "sqlite" THEN HalfCopied ELSE {itlp}
  /\ UNCHANGED <<counts, otgInfo, family, file, sd, heard>>

-----------------------------------------------------------------------------
DeviceNext ==
  \/ \E s \in Song :
       \/ DevicePlay(s)
       \/ DeviceSkip(s)
       \/ \E stars \in Stars : DeviceRate(s, stars)
       \/ DeviceMakeOtg(s)
  \/ Plug
  \/ Unplug
  \/ DamageCounts

WriteNext ==
  \/ WriteBegin
  \/ SqliteGenerate
  \/ ShuffleWriteSd
  \/ ShuffleRenameFiles
  \/ WriteDatabase
  \/ TruncateItunesDb
  \/ WriteRenameFiles

Next == DeviceNext \/ Parse \/ Edit \/ Free \/ WriteNext \/ Crash

Spec == Init /\ [][Next]_vars

-----------------------------------------------------------------------------
(* What the iPod's files say, the way itdb_parse would report it.  Between *)
(* the step of itdb_write that makes the new database count and the one    *)
(* that takes the notes away, it is what is being written.                 *)
Shown ==
  IF pc \in {"truncate", "rename"} \/ (IsShuffle /\ pc = "database") THEN mem
  ELSE Database(Current.order, MergedTags(Current),
                Current.lists \o OtgLists(Current.order))

(* The types of the variables; itdb_write never mixes the files of the     *)
(* different kinds of iPod.                                                *)
TypeOK ==
  LET isOrder(order) == order \in Seq(Song) /\ IsInjective(order)
      isDatabase(db) ==
        /\ db.state \in {"data", "none", "empty"}
        /\ isOrder(db.order)
        /\ db.tag \in [Song -> Tag]
        /\ db.lists \in Seq(Seq(Songs(db.order)))
  IN /\ family \in Families
     /\ DOMAIN file = {"iTunesDB", "iTunesCDB"}
     /\ \A name \in DOMAIN file : isDatabase(file[name])
     /\ IF IsShuffle THEN isOrder(sd) ELSE sd = <<>>
     /\ IF IsSqlite THEN itlp \subseteq Song ELSE itlp = {}
     /\ counts.state \in {"good", "none", "empty", "bad"}
     /\ \A i \in DOMAIN counts.entries : counts.entries[i] \in Playcount
     /\ otg \in Seq(Seq(Nat)) /\ otgInfo \in BOOLEAN
     /\ isDatabase(mem)
     /\ pc \in WriteSteps \cup {"unplugged", "plugged", "open"}
     /\ out \in [write : {"none", "TRUE", "FALSE"}, error : BOOLEAN]
     /\ heard \in [Song -> Tag]

(* Whatever itdb_write was interrupted or failed at, itdb_parse finds a    *)
(* database, under the one name or the other.                              *)
DatabaseReadable == Current.state = "data"

(* At every moment of a session, a failure or an unplugging included, what *)
(* is on the iPod is well formed and itdb_parse would find a database.     *)
SyncSound == TypeOK /\ DatabaseReadable

(* A track that stays in the library never shows fewer plays than there    *)
(* were, whatever fails and wherever the iPod is unplugged.  The Shuffles  *)
(* lose some when saving the database fails: iTunesStats is removed first. *)
EveryPlayKept ==
  IsShuffle \/ \A s \in Songs(Current.order) :
                MergedTags(Current)[s].plays >= heard[s].plays

(* When itdb_write returns TRUE, the iPod plays from the tracks that are   *)
(* in the database: iTunesSD, the sqlite files and the database agree.     *)
WrittenCopiesAgree ==
  pc = "open" /\ out.write = "TRUE" =>
    /\ Current.order = mem.order
    /\ IsShuffle => sd = mem.order
    /\ IsSqlite => itlp = Songs(mem.order)

(* When itdb_write returns TRUE, the notes it saved are gone: parsing      *)
(* again gives the database in memory, with nothing counted twice.         *)
NotesTakenAway ==
  pc = "open" /\ out.write = "TRUE" =>
    /\ \A s \in Songs(mem.order) : MergedTags(Current)[s] = mem.tag[s]
    /\ Shown.lists = mem.lists

(* The same for the notes that name a song by its position.                *)
PositionsTakenAway == IsSqlite \/ NotesTakenAway

(* A play that was saved stays saved for as long as the track does, even   *)
(* if the counts file is damaged.                                          *)
StoredPlaysKept ==
  [][\A s \in Songs(Current.order) \cap Songs(Current.order)' :
       Current.tag[s].plays <= Current.tag[s].plays']_vars

(* The steps that part saving the notes from taking them away, or the      *)
(* order of iTunesSD from that of the database.  sqlite iPods keep theirs. *)
Parting ==
  {<<"hard", "rename">>} \cup {"shuffle2g", "shuffle"} \X {"sdRename", "database"}
NotesGoWithSaving ==
  ~Damage /\ "sqlite" \notin Families /\ FaultAt \cap Parting = {}

(* The iPod and libgpod together do what the owner expects, as long as     *)
(* none of these steps fails.  The Shuffles do so as far as plays go, and  *)
(* have no On-The-Go playlists.                                            *)
Noticed(tag) == IF IsShuffle THEN [NewTag EXCEPT !.plays = tag.plays] ELSE tag

Ledger == INSTANCE PlayLedger
            WITH library <- Songs(Shown.order), lists <- Shown.lists,
                 notes <- [s \in Song |-> Noticed(Shown.tag[s])]
ImplementsLedger == Ledger!LedgerSpec
=============================================================================
