--------------------------- MODULE ItdbSyncProofs ---------------------------
(***************************************************************************)
(* What holds of the files of an iPod for every number of songs, whichever *)
(* steps of itdb_write() fail or are cut off and whatever is damaged.      *)
(***************************************************************************)
EXTENDS ItdbSync, GListProofs, FiniteSetTheorems, TLAPS

Names == {"iTunesDB", "iTunesCDB"}
Fields == {"state", "order", "tag", "lists"}

(* iTunesDB is only emptied when iTunesCDB is there, and iTunesCDB is only *)
(* there on the iPods that have the sqlite files.                          *)
FilesInv ==
  /\ DOMAIN file = Names
  /\ file["iTunesCDB"].state \in {"none", "data"}
  /\ file["iTunesCDB"].state = "none" => file["iTunesDB"].state = "data"
  /\ ~IsSqlite => file["iTunesCDB"].state = "none"

HostInv ==
  /\ DOMAIN mem = Fields /\ DOMAIN out = {"write", "error"}
  /\ pc \notin {"unplugged", "plugged"} => mem.state = "data"

(* The copies itdb_write() has already made by the time it is at a step.   *)
WrittenInv ==
  /\ pc \in {"sd", "sdRename"} => IsShuffle
  /\ pc = "sqlite" => IsSqlite
  /\ pc = "truncate" => IsSqlite /\ file["iTunesCDB"].state = "data"
  /\ pc \in {"sdRename", "database", "rename"} /\ IsShuffle => sd = mem.order
  /\ pc \in {"database", "truncate", "rename"} /\ IsSqlite =>
       itlp = Songs(mem.order)
  /\ pc \in {"truncate", "rename"} => Current.order = mem.order
  /\ WrittenCopiesAgree

Copies == FilesInv /\ HostInv /\ WrittenInv

LEMMA FamilyKinds == ~(IsShuffle /\ IsSqlite)
  BY DEF IsShuffle, IsSqlite

LEMMA CopiesInit ==
  ASSUME Init
  PROVE  Copies
<1> USE DEF Init
<1>1. FilesInv
  BY DEF FilesInv, Names, Database, NoDatabase
<1>2. HostInv /\ WrittenInv
  BY DEF HostInv, WrittenInv, WrittenCopiesAgree, Fields, NoDatabase, NoResult
<1> QED BY <1>1, <1>2 DEF Copies

-----------------------------------------------------------------------------
(* The steps that touch neither the files of the database nor the program. *)
LEMMA CopiesAside ==
  ASSUME Copies, UNCHANGED <<family, file, sd, itlp, mem, out>>,
         \/ pc' = pc
         \/ pc \in {"plugged", "unplugged"} /\ pc' \in {"plugged", "unplugged"}
  PROVE  Copies'
<1>1. FilesInv'
  BY DEF Copies, FilesInv, IsSqlite
<1>2. HostInv'
  BY DEF Copies, HostInv
<1>3. WrittenInv'
  BY DEF Copies, WrittenInv, WrittenCopiesAgree, IsSqlite, IsShuffle, Current
<1> QED BY <1>1, <1>2, <1>3 DEF Copies

LEMMA CopiesDevice ==
  ASSUME Copies, DeviceNext
  PROVE  Copies'
<1> USE DEF UnchangedDatabase, UnchangedNotes, UnchangedHost, Note
<1>1. ASSUME NEW s \in Song, \/ DevicePlay(s) \/ DeviceSkip(s) \/ DeviceMakeOtg(s)
                             \/ \E stars \in Stars : DeviceRate(s, stars)
      PROVE  Copies'
  BY <1>1, CopiesAside DEF DevicePlay, DeviceSkip, DeviceRate, DeviceMakeOtg
<1>2. CASE Plug
  BY <1>2, CopiesAside DEF Plug
<1>3. CASE Unplug
  BY <1>3, CopiesAside DEF Unplug
<1>4. CASE DamageCounts
  BY <1>4, CopiesAside DEF DamageCounts
<1> QED BY <1>1, <1>2, <1>3, <1>4 DEF DeviceNext

(* The application parses, edits and frees: no file changes, and what an   *)
(* earlier itdb_write() returned is forgotten.                             *)
LEMMA CopiesHost ==
  ASSUME Copies, UNCHANGED <<family, file, sd, itlp>>, HostInv',
         pc' \in {"unplugged", "plugged", "open"}, out'.write = "none"
  PROVE  Copies'
<1>1. FilesInv'
  BY DEF Copies, FilesInv, IsSqlite
<1>2. WrittenInv'
  BY DEF WrittenInv, WrittenCopiesAgree
<1> QED BY <1>1, <1>2 DEF Copies

LEMMA CopiesParse ==
  ASSUME Copies, Parse
  PROVE  Copies'
<1> USE DEF Parse, UnchangedDatabase
<1>1. CASE counts.state = "bad"
  <2>1. out'.write = "none" /\ DOMAIN out' = {"write", "error"}
    BY <1>1 DEF NoResult
  <2>2. UNCHANGED <<mem, pc>> /\ pc = "plugged"
    BY <1>1
  <2>3. HostInv'
    BY <2>1, <2>2 DEF Copies, HostInv
  <2> QED BY <2>1, <2>2, <2>3, CopiesHost
<1>2. CASE counts.state # "bad"
  <2>1. out'.write = "none" /\ DOMAIN out' = {"write", "error"}
    BY <1>2 DEF NoResult
  <2>2. PICK order, tag, lists : mem' = Database(order, tag, lists)
    BY <1>2
  <2>3. DOMAIN mem' = Fields /\ mem'.state = "data"
    BY <2>2 DEF Database, Fields
  <2>4. pc' = "open"
    BY <1>2
  <2>5. HostInv'
    BY <2>1, <2>3 DEF HostInv
  <2> QED BY <2>1, <2>4, <2>5, CopiesHost
<1> QED BY <1>1, <1>2

LEMMA CopiesFree ==
  ASSUME Copies, Free
  PROVE  Copies'
<1> USE DEF Free, UnchangedDatabase
<1>1. HostInv' /\ out'.write = "none"
  BY DEF HostInv, NoDatabase, NoResult, Fields
<1> QED BY <1>1, CopiesHost

LEMMA CopiesCrash ==
  ASSUME Copies, Crash
  PROVE  Copies'
<1>1. UNCHANGED <<family, file, sd>> /\ pc' = "unplugged" /\ out' = NoResult
      /\ mem' = NoDatabase("none")
  BY DEF Crash
<1>2. HostInv'
  BY <1>1 DEF HostInv, NoDatabase, NoResult, Fields
<1>3. FilesInv'
  BY <1>1 DEF Copies, FilesInv, IsSqlite
<1>4. WrittenInv'
  BY <1>1 DEF WrittenInv, WrittenCopiesAgree, NoResult
<1> QED BY <1>2, <1>3, <1>4 DEF Copies

(* Whatever a field is changed to, a database is a database.               *)
LEMMA FieldsKept ==
  ASSUME NEW db, DOMAIN db = Fields, NEW order, NEW tag, NEW lists
  PROVE  LET one == [db EXCEPT !.order = order]
             all == [db EXCEPT !.order = order, !.tag = tag, !.lists = lists]
         IN /\ DOMAIN one = Fields /\ one.state = db.state
            /\ DOMAIN all = Fields /\ all.state = db.state
  BY DEF Fields

LEMMA CopiesEdit ==
  ASSUME Copies, Edit
  PROVE  Copies'
<1>1. DOMAIN mem = Fields /\ mem.state = "data"
  BY DEF Copies, HostInv, Edit
<1>2. DOMAIN mem' = Fields /\ mem'.state = "data"
  <2>1. ASSUME NEW s \in Song, mem' = [mem EXCEPT !.order = Append(@, s)]
        PROVE  DOMAIN mem' = Fields /\ mem'.state = "data"
    BY <2>1, <1>1, FieldsKept
  <2>2. ASSUME NEW s,
               mem' = [mem EXCEPT !.order = GListRemove(@, s),
                                  !.tag = [@ EXCEPT ![s] = NewTag],
                                  !.lists = WithoutSong(@, s)]
        PROVE  DOMAIN mem' = Fields /\ mem'.state = "data"
    BY <2>2, <1>1, FieldsKept
  <2>3. ASSUME NEW s, mem' = [mem EXCEPT !.order = <<s>> \o GListRemove(@, s)]
        PROVE  DOMAIN mem' = Fields /\ mem'.state = "data"
    BY <2>3, <1>1, FieldsKept
  <2> QED BY <2>1, <2>2, <2>3 DEF Edit
<1>3. HostInv' /\ out'.write = "none"
  BY <1>2 DEF HostInv, NoResult, Edit
<1>4. pc' = "open" /\ UNCHANGED <<family, file, sd, itlp>>
  BY DEF Edit, UnchangedDatabase
<1> QED BY <1>3, <1>4, CopiesHost

-----------------------------------------------------------------------------
(* A step of itdb_write() that fails returns FALSE; nothing is claimed of  *)
(* the copies then.                                                        *)
LEMMA CopiesFail ==
  ASSUME Copies, FilesInv', UNCHANGED mem, pc' = "open", mem.state = "data",
         out' = [out EXCEPT !.write = "FALSE"]
  PROVE  Copies'
<1>1. HostInv' /\ out'.write = "FALSE"
  BY DEF Copies, HostInv
<1> QED BY <1>1 DEF Copies, WrittenInv, WrittenCopiesAgree

LEMMA CopiesBegin ==
  ASSUME Copies, WriteBegin
  PROVE  Copies'
<1> USE DEF WriteBegin, UnchangedDatabase
<1>1. FilesInv'
  BY DEF Copies, FilesInv, IsSqlite
<1>2. HostInv'
  BY DEF Copies, HostInv, NoResult
<1>3. WrittenInv'
  BY FamilyKinds DEF WrittenInv, WrittenCopiesAgree, IsSqlite, IsShuffle
<1> QED BY <1>1, <1>2, <1>3 DEF Copies

LEMMA CopiesSqlite ==
  ASSUME Copies, SqliteGenerate
  PROVE  Copies'
<1> USE DEF SqliteGenerate
<1>1. FilesInv' /\ mem.state = "data" /\ IsSqlite /\ ~IsShuffle
  BY FamilyKinds DEF Copies, FilesInv, HostInv, WrittenInv, IsSqlite
<1>2. CASE Fail("sqlite")
  BY <1>1, <1>2, CopiesFail DEF Fail
<1>3. CASE itlp' = Songs(mem.order) /\ pc' = "database" /\ UnchangedHost
  <2>1. HostInv' /\ (~IsShuffle)'
    BY <1>1, <1>3 DEF UnchangedHost, Copies, HostInv, IsShuffle
  <2>2. WrittenInv'
    BY <1>3, <2>1 DEF WrittenInv, WrittenCopiesAgree, UnchangedHost
  <2> QED BY <1>1, <2>1, <2>2 DEF Copies
<1> QED BY <1>2, <1>3

LEMMA CopiesSd ==
  ASSUME Copies, ShuffleWriteSd
  PROVE  Copies'
<1> USE DEF ShuffleWriteSd
<1>1. FilesInv' /\ mem.state = "data" /\ IsShuffle /\ ~IsSqlite
  BY FamilyKinds DEF Copies, FilesInv, HostInv, WrittenInv, IsSqlite
<1>2. CASE Fail("sd")
  BY <1>1, <1>2, CopiesFail DEF Fail
<1>3. CASE sd' = mem.order /\ pc' = "sdRename" /\ UnchangedHost
  <2>1. HostInv' /\ IsShuffle'
    BY <1>1, <1>3 DEF UnchangedHost, Copies, HostInv, IsShuffle
  <2>2. WrittenInv'
    BY <1>3, <2>1 DEF WrittenInv, WrittenCopiesAgree, UnchangedHost
  <2> QED BY <1>1, <2>1, <2>2 DEF Copies
<1> QED BY <1>2, <1>3

(* Renaming the notes: the copies stay, and whether they are said to agree *)
(* depends on what is returned when it went well.                          *)
LEMMA CopiesRename ==
  ASSUME Copies, NEW goodPc, NEW goodWrite, RenameFiles(goodPc, goodWrite),
         mem.state = "data"
  PROVE  /\ UNCHANGED <<family, file, sd, itlp, mem>> /\ FilesInv'
         /\ DOMAIN out' = {"write", "error"}
         /\ Copies' \/ (pc' = goodPc /\ out'.write = goodWrite)
<1> USE DEF RenameFiles, UnchangedDatabase
<1>1. UNCHANGED <<family, file, sd, itlp, mem>>
  OBVIOUS
<1>2. FilesInv'
  BY <1>1 DEF Copies, FilesInv, IsSqlite
<1>3. DOMAIN out = {"write", "error"}
  BY DEF Copies, HostInv
<1>4. CASE pc' = goodPc /\ out' = [out EXCEPT !.write = goodWrite]
  BY <1>1, <1>2, <1>3, <1>4
<1>5. CASE pc' = "open" /\ out' = [out EXCEPT !.write = "FALSE"]
  <2>1. Copies'
    BY <1>1, <1>2, <1>5, CopiesFail
  <2> QED BY <1>1, <1>2, <1>3, <1>5, <2>1
<1> QED BY <1>4, <1>5

LEMMA CopiesShuffleRename ==
  ASSUME Copies, ShuffleRenameFiles
  PROVE  Copies'
<1>1. RenameFiles("database", "none") /\ mem.state = "data"
      /\ IsShuffle /\ ~IsSqlite /\ sd = mem.order
  BY FamilyKinds DEF ShuffleRenameFiles, Copies, HostInv, WrittenInv
<1>2. /\ UNCHANGED <<family, file, sd, itlp, mem>> /\ FilesInv'
      /\ DOMAIN out' = {"write", "error"}
      /\ Copies' \/ (pc' = "database" /\ out'.write = "none")
  BY <1>1, CopiesRename
<1>3. CASE pc' = "database"
  <2>1. HostInv' /\ IsShuffle' /\ (~IsSqlite)' /\ sd' = mem'.order
    BY <1>1, <1>2, <1>3 DEF Copies, HostInv, IsShuffle, IsSqlite
  <2>2. WrittenInv'
    BY <1>3, <2>1 DEF WrittenInv, WrittenCopiesAgree
  <2> QED BY <1>2, <2>1, <2>2 DEF Copies
<1> QED BY <1>2, <1>3

LEMMA CopiesWriteRename ==
  ASSUME Copies, WriteRenameFiles
  PROVE  Copies'
<1>1. /\ RenameFiles("open", "TRUE") /\ mem.state = "data"
      /\ Current.order = mem.order
      /\ IsShuffle => sd = mem.order
      /\ IsSqlite => itlp = Songs(mem.order)
  BY DEF WriteRenameFiles, Copies, HostInv, WrittenInv
<1>2. /\ UNCHANGED <<family, file, sd, itlp, mem>> /\ FilesInv'
      /\ DOMAIN out' = {"write", "error"}
      /\ Copies' \/ (pc' = "open" /\ out'.write = "TRUE")
  BY <1>1, CopiesRename
<1>3. CASE pc' = "open"
  <2>1. HostInv'
    BY <1>1, <1>2, <1>3 DEF Copies, HostInv
  <2>2. WrittenCopiesAgree'
    BY <1>1, <1>2 DEF WrittenCopiesAgree, Current, IsShuffle, IsSqlite
  <2>3. WrittenInv'
    BY <1>3, <2>2 DEF WrittenInv
  <2> QED BY <1>2, <2>1, <2>3 DEF Copies
<1> QED BY <1>2, <1>3

(* Saving makes the new database the one itdb_parse() will read: iTunesCDB *)
(* where there may be one, iTunesDB otherwise.                             *)
LEMMA SavedIsCurrent ==
  ASSUME Copies, mem.state = "data", UNCHANGED family,
         file' = [file EXCEPT ![WriteName] = mem]
  PROVE  /\ FilesInv' /\ Current' = mem
         /\ IsSqlite => file'["iTunesCDB"] = mem
<1>1. FilesInv
  BY DEF Copies
<1>2. CASE IsSqlite
  <2>1. /\ DOMAIN file' = Names /\ file'["iTunesCDB"] = mem /\ IsSqlite'
        /\ file'["iTunesDB"] = file["iTunesDB"]
    BY <1>1, <1>2 DEF WriteName, FilesInv, Names, IsSqlite
  <2> QED BY <1>1, <2>1 DEF FilesInv, Current
<1>3. CASE ~IsSqlite
  <2>1. /\ DOMAIN file' = Names /\ file'["iTunesDB"] = mem /\ ~IsSqlite'
        /\ file'["iTunesCDB"] = file["iTunesCDB"]
    BY <1>1, <1>3 DEF WriteName, FilesInv, Names, IsSqlite
  <2> QED BY <1>1, <1>3, <2>1 DEF FilesInv, Current
<1> QED BY <1>2, <1>3

LEMMA CopiesDatabase ==
  ASSUME Copies, WriteDatabase
  PROVE  Copies'
<1> USE DEF WriteDatabase
<1>1. mem.state = "data" /\ UNCHANGED family
  BY DEF Copies, HostInv
<1>2. CASE Fail("database") /\ UNCHANGED file
  <2>1. FilesInv'
    BY <1>2 DEF Copies, FilesInv, IsSqlite
  <2> QED BY <1>1, <1>2, <2>1, CopiesFail DEF Fail
<1>3. CASE /\ file' = [file EXCEPT ![WriteName] = mem] /\ UNCHANGED <<mem, out>>
           /\ pc' = IF IsSqlite THEN "truncate" ELSE "rename"
  <2>1. FilesInv' /\ Current' = mem /\ (IsSqlite => file'["iTunesCDB"] = mem)
    BY <1>1, <1>3, SavedIsCurrent
  <2>2. HostInv'
    BY <1>1, <1>3 DEF Copies, HostInv
  <2>3. /\ IsSqlite' = IsSqlite /\ IsShuffle' = IsShuffle
        /\ IsShuffle => sd' = mem.order
        /\ IsSqlite => itlp' = Songs(mem.order)
    BY DEF Copies, WrittenInv, IsSqlite, IsShuffle
  <2>4. WrittenInv'
    BY <1>1, <1>3, <2>1, <2>3 DEF WrittenInv, WrittenCopiesAgree
  <2> QED BY <2>1, <2>2, <2>4 DEF Copies
<1> QED BY <1>2, <1>3

LEMMA CopiesTruncate ==
  ASSUME Copies, TruncateItunesDb
  PROVE  Copies'
<1> USE DEF TruncateItunesDb, UnchangedHost
<1>1. IsSqlite /\ ~IsShuffle /\ file["iTunesCDB"].state = "data" /\ FilesInv
  BY FamilyKinds DEF Copies, WrittenInv
<1>2. DOMAIN file' = Names /\ file'["iTunesCDB"] = file["iTunesCDB"]
  BY <1>1 DEF FilesInv, Names
<1>3. IsSqlite' /\ ~IsShuffle' /\ FilesInv' /\ Current' = Current
  BY <1>1, <1>2 DEF IsSqlite, IsShuffle, FilesInv, Current
<1>4. HostInv'
  BY DEF Copies, HostInv
<1>5. WrittenInv'
  BY <1>3 DEF Copies, WrittenInv, WrittenCopiesAgree
<1> QED BY <1>3, <1>4, <1>5 DEF Copies

LEMMA CopiesNext ==
  ASSUME Copies, [Next]_vars
  PROVE  Copies'
<1>1. CASE UNCHANGED vars
  BY <1>1, CopiesAside DEF vars
<1>2. CASE DeviceNext
  BY <1>2, CopiesDevice
<1>3. CASE Parse \/ Free \/ Edit \/ Crash
  BY <1>3, CopiesParse, CopiesFree, CopiesEdit, CopiesCrash
<1>4. CASE WriteNext
  BY <1>4, CopiesBegin, CopiesSqlite, CopiesSd, CopiesShuffleRename,
     CopiesDatabase, CopiesTruncate, CopiesWriteRename DEF WriteNext
<1> QED BY <1>1, <1>2, <1>3, <1>4 DEF Next

(* At every step of any number of sessions the files are those of one      *)
(* database, and the copies that were made by then are copies of it.       *)
THEOREM CopiesInvariant == Spec => []Copies
<1>1. Init => Copies
  BY CopiesInit
<1>2. Copies /\ [Next]_vars => Copies'
  BY CopiesNext
<1> QED BY <1>1, <1>2, PTL DEF Spec

(* itdb_parse() finds a database whatever itdb_write() was stopped at.     *)
THEOREM DatabaseReadableCorrect == Spec => []DatabaseReadable
<1>1. Copies => DatabaseReadable
  BY DEF Copies, FilesInv, DatabaseReadable, Current
<1> QED BY <1>1, CopiesInvariant, PTL

(* TRUE from itdb_write() means that every file the iPod plays from names  *)
(* the tracks of the database.                                             *)
THEOREM WrittenCopiesAgreeCorrect == Spec => []WrittenCopiesAgree
<1>1. Copies => WrittenCopiesAgree
  BY DEF Copies, WrittenInv
<1> QED BY <1>1, CopiesInvariant, PTL

-----------------------------------------------------------------------------
(* Plays are numbers and tracks are songs, in every file and in memory.    *)
Distinct(order) == order \in Seq(Song) /\ IsInjective(order)

Typed(db) == Distinct(db.order) /\ db.tag \in [Song -> Tag]

TypesInv ==
  /\ \A name \in Names : Typed(file[name])
  /\ Typed(mem) /\ Distinct(sd)
  /\ \A i \in DOMAIN counts.entries : counts.entries[i] \in Playcount

(* A track that is on the iPod and in the program has at least the plays   *)
(* there that it has on the iPod: a removed track does not come back.      *)
NoFewer(old, new) ==
  \A s \in Songs(old.order) \cap Songs(new.order) :
    old.tag[s].plays <= new.tag[s].plays

PlaysInv == TypesInv /\ (pc \notin {"unplugged", "plugged"} => NoFewer(Current, mem))

LEMMA SongsTyped ==
  ASSUME NEW order \in Seq(Song)
  PROVE  Songs(order) \subseteq Song
  BY DEF Songs

LEMMA NothingTyped ==
  ASSUME NEW state
  PROVE  Typed(NoDatabase(state))
<1>1. NewTag \in Tag
  BY SyncAssumption DEF NewTag, Tag, Stars, SyncAssumption
<1> QED BY <1>1 DEF Typed, NoDatabase, Distinct, IsInjective

LEMMA CurrentTyped ==
  ASSUME TypesInv
  PROVE  Typed(Current)
  BY DEF TypesInv, Current, Names

LEMMA PlaysInit ==
  ASSUME Init
  PROVE  PlaysInv
<1>1. PICK order \in [1 .. Cardinality(Song) - 1 -> Song],
           tag \in [Song -> {NewTag, [NewTag EXCEPT !.rating = MaxStars]}] :
        /\ IsInjective(order) /\ sd \in {order, <<>>}
        /\ LET db == Database(order, tag, <<>>)
           IN \/ file = [iTunesDB |-> db, iTunesCDB |-> NoDatabase("none")]
              \/ file = [iTunesDB |-> NoDatabase("empty"), iTunesCDB |-> db]
  BY DEF Init
<1>2. Cardinality(Song) - 1 \in Nat
  <2>1. Cardinality(Song) \in Nat /\ Cardinality(Song) # 0
    BY SyncAssumption, FS_CardinalityType, FS_EmptySet DEF SyncAssumption
  <2> QED BY <2>1
<1>3. Distinct(order) /\ Distinct(<<>>)
  BY <1>1, <1>2 DEF Distinct, IsInjective
<1>4. NewTag \in Tag /\ [NewTag EXCEPT !.rating = MaxStars] \in Tag
  BY SyncAssumption DEF NewTag, Tag, Stars, SyncAssumption
<1>5. Typed(Database(order, tag, <<>>))
  BY <1>3, <1>4 DEF Typed, Database
<1>6. \A name \in Names : Typed(file[name])
  BY <1>1, <1>5, NothingTyped DEF Names
<1>7. Typed(mem) /\ Distinct(sd)
  BY <1>1, <1>3, NothingTyped DEF Init
<1>8. counts.entries = <<>> /\ pc = "unplugged"
  BY DEF Init, NoCounts
<1> QED BY <1>6, <1>7, <1>8 DEF PlaysInv, TypesInv

-----------------------------------------------------------------------------
(* What the iPod notes, and what parsing makes of it.                      *)
LEMMA EntriesTyped ==
  ASSUME TypesInv, NEW s
  PROVE  \A i \in DOMAIN EntriesFor(s) : EntriesFor(s)[i] \in Playcount
<1> DEFINE keys == IF IsSqlite THEN {s} ELSE DOMAIN DeviceOrder
           quiet(key) ==
             [NoPlaycount EXCEPT !.rating =
                IF IsSqlite THEN 0 ELSE Current.tag[DeviceOrder[key]].rating]
<1>1. ASSUME NEW key \in keys
      PROVE  IsSqlite \/ Current.tag[DeviceOrder[key]].rating \in Stars
  <2>1. DeviceOrder \in Seq(Song)
    BY CurrentTyped DEF DeviceOrder, TypesInv, Typed, Distinct
  <2>2. IsSqlite \/ DeviceOrder[key] \in Song
    BY <2>1
  <2> QED BY <2>2, CurrentTyped DEF Typed, Tag
<1>2. ASSUME NEW key \in keys PROVE quiet(key) \in Playcount
  BY <1>1, SyncAssumption DEF NoPlaycount, Playcount, Stars, SyncAssumption
<1>3. EntriesFor(s) =
        [key \in DOMAIN counts.entries \cup keys |->
           IF key \in DOMAIN counts.entries THEN counts.entries[key] ELSE quiet(key)]
  BY DEF EntriesFor
<1> HIDE DEF quiet, keys
<1> QED BY <1>2, <1>3 DEF TypesInv

LEMMA PlaycountTyped ==
  ASSUME TypesInv, NEW place, NEW order
  PROVE  PlaycountFor(place, order) \in Playcount
<1>1. NoPlaycount \in Playcount
  BY DEF NoPlaycount, Playcount
<1>2. ASSUME NEW e \in Playcount
      PROVE  PlistEntry(e) \in Playcount /\ ItunesstatsEntry(e) \in Playcount
  BY SyncAssumption
     DEF Playcount, PlistEntry, ItunesstatsEntry, Stars, SyncAssumption
<1>3. \A i \in DOMAIN counts.entries : counts.entries[i] \in Playcount
  BY DEF TypesInv
<1> QED BY <1>1, <1>2, <1>3 DEF PlaycountFor

(* Merging adds to the plays.                                              *)
LEMMA MergedTyped ==
  ASSUME TypesInv, NEW db, Typed(db)
  PROVE  /\ MergedTags(db) \in [Song -> Tag]
         /\ \A s \in Songs(db.order) : db.tag[s].plays <= MergedTags(db)[s].plays
<1> DEFINE entry(s) == PlaycountFor(PlaceOf(s, db.order), db)
<1>1. ASSUME NEW s \in Song
      PROVE  /\ MergePlaycount(db.tag[s], entry(s)) \in Tag
             /\ db.tag[s].plays <= MergePlaycount(db.tag[s], entry(s)).plays
  <2>1. entry(s) \in Playcount /\ db.tag[s] \in Tag
    BY PlaycountTyped DEF Typed
  <2> HIDE DEF entry
  <2> QED BY <2>1 DEF MergePlaycount, Playcount, Tag
<1>2. NewTag \in Tag
  BY SyncAssumption DEF NewTag, Tag, Stars, SyncAssumption
<1>3. Songs(db.order) \subseteq Song
  BY SongsTyped DEF Typed, Distinct
<1> HIDE DEF entry
<1>4. MergedTags(db) = [s \in Song |-> IF s \in Songs(db.order)
                          THEN MergePlaycount(db.tag[s], entry(s)) ELSE NewTag]
  BY DEF MergedTags, entry
<1> QED BY <1>1, <1>2, <1>3, <1>4

-----------------------------------------------------------------------------
LEMMA TypesAside ==
  ASSUME TypesInv, UNCHANGED <<file, sd>>, Typed(mem'),
         \A i \in DOMAIN counts'.entries : counts'.entries[i] \in Playcount
  PROVE  TypesInv'
  BY DEF TypesInv, Typed

LEMMA NoteTyped ==
  ASSUME TypesInv, NEW s, NEW entry, NEW did, Note(s, entry, did),
         Noted(s) \in Playcount => entry \in Playcount
  PROVE  TypesInv'
<1>1. \A i \in DOMAIN EntriesFor(s) : EntriesFor(s)[i] \in Playcount
  BY EntriesTyped
<1>2. counts'.entries = [EntriesFor(s) EXCEPT ![KeyOf(s)] = entry]
  BY DEF Note
<1>3. \A i \in DOMAIN counts'.entries : counts'.entries[i] \in Playcount
  BY <1>1, <1>2 DEF Noted
<1>4. UNCHANGED <<file, sd, mem>> /\ Typed(mem')
  BY DEF Note, UnchangedHost, TypesInv
<1> QED BY <1>3, <1>4, TypesAside

LEMMA PlaysDevice ==
  ASSUME PlaysInv, DeviceNext
  PROVE  PlaysInv'
<1>1. TypesInv /\ Typed(mem)
  BY DEF PlaysInv, TypesInv
<1>2. ASSUME NEW s \in Song, DevicePlay(s) PROVE PlaysInv'
  <2>1. Noted(s) \in Playcount => [Noted(s) EXCEPT !.plays = @ + 1] \in Playcount
    BY DEF Playcount
  <2>2. TypesInv'
    BY <1>1, <1>2, <2>1, NoteTyped DEF DevicePlay
  <2> QED BY <1>2, <2>2 DEF PlaysInv, DevicePlay, InUse, Note
<1>3. ASSUME NEW s \in Song, DeviceSkip(s) PROVE PlaysInv'
  <2>1. Noted(s) \in Playcount => [Noted(s) EXCEPT !.skips = @ + 1] \in Playcount
    BY DEF Playcount
  <2>2. TypesInv'
    BY <1>1, <1>3, <2>1, NoteTyped DEF DeviceSkip
  <2> QED BY <1>3, <2>2 DEF PlaysInv, DeviceSkip, InUse, Note
<1>4. ASSUME NEW s \in Song, NEW stars \in Stars, DeviceRate(s, stars)
      PROVE  PlaysInv'
  <2>1. Noted(s) \in Playcount => [Noted(s) EXCEPT !.rating = stars] \in Playcount
    BY DEF Playcount
  <2>2. TypesInv'
    BY <1>1, <1>4, <2>1, NoteTyped DEF DeviceRate
  <2> QED BY <1>4, <2>2 DEF PlaysInv, DeviceRate, InUse, Note
<1>5. CASE DamageCounts
  <2>1. UNCHANGED <<file, sd, mem, pc>> /\ counts'.entries = <<>>
    BY <1>5 DEF DamageCounts, UnchangedHost, NoCounts
  <2>2. TypesInv'
    BY <1>1, <2>1, TypesAside
  <2> QED BY <1>5, <2>1, <2>2 DEF PlaysInv, DamageCounts
<1>6. CASE Plug \/ Unplug \/ \E s \in Song : DeviceMakeOtg(s)
  <2>1. UNCHANGED <<file, sd, mem, counts>> /\ pc' \in {"plugged", "unplugged"}
    BY <1>6 DEF Plug, Unplug, DeviceMakeOtg, UnchangedHost, UnchangedNotes,
                UnchangedDatabase
  <2>2. TypesInv'
    BY <1>1, <2>1, TypesAside DEF TypesInv
  <2> QED BY <2>1, <2>2 DEF PlaysInv
<1> QED BY <1>2, <1>3, <1>4, <1>5, <1>6 DEF DeviceNext

LEMMA PlaysParse ==
  ASSUME PlaysInv, Parse
  PROVE  PlaysInv'
<1>1. UNCHANGED <<file, sd, counts>> /\ Current' = Current
  BY DEF Parse, UnchangedNotes, UnchangedDatabase, Current
<1>2. TypesInv /\ Typed(mem) /\ pc = "plugged"
  BY DEF PlaysInv, TypesInv, Parse
<1>3. CASE UNCHANGED <<mem, pc>>
  <2>1. TypesInv'
    BY <1>1, <1>2, <1>3, TypesAside DEF TypesInv
  <2> QED BY <1>2, <1>3, <2>1 DEF PlaysInv
<1>4. CASE \E lists : mem' = Database(Current.order, MergedTags(Current), lists)
  <2>1. /\ MergedTags(Current) \in [Song -> Tag]
        /\ \A s \in Songs(Current.order) :
             Current.tag[s].plays <= MergedTags(Current)[s].plays
    BY <1>2, CurrentTyped, MergedTyped
  <2>2. mem'.order = Current.order /\ mem'.tag = MergedTags(Current)
    BY <1>4 DEF Database
  <2>3. Typed(mem')
    BY <1>2, <2>1, <2>2, CurrentTyped DEF Typed
  <2>4. NoFewer(Current', mem')
    BY <1>1, <2>1, <2>2 DEF NoFewer
  <2>5. TypesInv'
    BY <1>1, <1>2, <2>3, TypesAside DEF TypesInv
  <2> QED BY <2>4, <2>5 DEF PlaysInv
<1> QED BY <1>3, <1>4 DEF Parse

(* The tracks of the iPod that are in db are in memory, with what it says. *)
Carried(db) ==
  \A s \in Songs(Current.order) \cap Songs(db.order) :
    s \in Songs(mem.order) /\ db.tag[s] = mem.tag[s]

LEMMA EditKeeps ==
  ASSUME PlaysInv, Copies, Edit
  PROVE  Typed(mem') /\ Carried(mem')
<1>1. /\ Distinct(mem.order) /\ mem.tag \in [Song -> Tag] /\ DOMAIN mem = Fields
  BY DEF PlaysInv, TypesInv, Typed, Edit, Copies, HostInv
<1>2. ASSUME NEW s \in Song, Fresh(s), mem' = [mem EXCEPT !.order = Append(@, s)]
      PROVE  Typed(mem') /\ Carried(mem')
  <2>1. mem'.order = Append(mem.order, s) /\ mem'.tag = mem.tag
    BY <1>1, <1>2 DEF Fields
  <2>2. s \notin Songs(mem.order) /\ s \notin Songs(Current.order)
    BY <1>2 DEF Fresh
  <2>3. /\ Distinct(Append(mem.order, s))
        /\ Songs(Append(mem.order, s)) = Songs(mem.order) \cup {s}
    <3> DEFINE old == mem.order
               order == Append(old, s)
    <3>1. /\ order \in Seq(Song) /\ Len(order) = Len(old) + 1
          /\ order[Len(old) + 1] = s /\ \A i \in 1 .. Len(old) : order[i] = old[i]
      BY <1>1 DEF Distinct
    <3>2. old \in Seq(Song) /\ IsInjective(old) /\ \A i \in DOMAIN old : old[i] # s
      BY <1>1, <2>2 DEF Distinct, Songs
    <3> HIDE DEF old, order
    <3>3. DOMAIN old = 1 .. Len(old) /\ DOMAIN order = 1 .. Len(old) + 1
          /\ Len(old) \in Nat
      BY <3>1, <3>2
    <3>4. IsInjective(order)
      BY <3>1, <3>2, <3>3 DEF IsInjective
    <3>5. Songs(order) = Songs(old) \cup {s}
      BY <3>1, <3>2, <3>3 DEF Songs
    <3> QED BY <3>1, <3>4, <3>5 DEF Distinct, order, old
  <2> QED BY <1>1, <2>1, <2>2, <2>3 DEF Typed, Carried
<1>3. ASSUME NEW s \in Songs(mem.order)
      PROVE  LET rest == GListRemove(mem.order, s)
             IN /\ Distinct(rest) /\ s \notin Songs(rest)
                /\ Songs(rest) \subseteq Songs(mem.order) /\ s \in Song
  <2> DEFINE rest == GListRemove(mem.order, s)
  <2>1. mem.order \in Seq(Song) /\ IsInjective(mem.order) /\ s \in Song
    BY <1>1, SongsTyped DEF Distinct
  <2>2. /\ rest \in Seq(Song) /\ IsInjective(rest) /\ ~Listed(s, rest)
        /\ \A other : Listed(other, rest) => Listed(other, mem.order)
    BY <2>1, RemoveListed, RemoveInjective
  <2>3. \A order, other : Listed(other, order) <=> other \in Songs(order)
    BY DEF Listed, Songs
  <2> HIDE DEF rest
  <2>4. s \notin Songs(rest) /\ Songs(rest) \subseteq Songs(mem.order)
    BY <2>2, <2>3
  <2> QED BY <2>1, <2>2, <2>4 DEF rest, Distinct
<1>4. ASSUME NEW s \in Songs(mem.order),
             mem' = [mem EXCEPT !.order = GListRemove(@, s),
                                !.tag = [@ EXCEPT ![s] = NewTag],
                                !.lists = WithoutSong(@, s)]
      PROVE  Typed(mem') /\ Carried(mem')
  <2>1. /\ mem'.order = GListRemove(mem.order, s)
        /\ mem'.tag = [mem.tag EXCEPT ![s] = NewTag]
    BY <1>1, <1>4 DEF Fields
  <2>2. NewTag \in Tag
    BY SyncAssumption DEF NewTag, Tag, Stars, SyncAssumption
  <2> QED BY <1>1, <1>3, <2>1, <2>2 DEF Typed, Carried
<1>5. ASSUME NEW s \in Songs(mem.order),
             mem' = [mem EXCEPT !.order = <<s>> \o GListRemove(@, s)]
      PROVE  Typed(mem') /\ Carried(mem')
  <2> DEFINE rest == GListRemove(mem.order, s)
             order == <<s>> \o rest
  <2>1. mem'.order = order /\ mem'.tag = mem.tag
    BY <1>1, <1>5 DEF Fields
  <2>2. /\ rest \in Seq(Song) /\ IsInjective(rest) /\ s \notin Songs(rest)
        /\ Songs(rest) \subseteq Songs(mem.order) /\ s \in Song
    BY <1>3 DEF Distinct
  <2> HIDE DEF rest
  <2>3. /\ order \in Seq(Song) /\ Len(order) = Len(rest) + 1 /\ order[1] = s
        /\ \A i \in 2 .. Len(order) : order[i] = rest[i - 1] /\ i - 1 \in DOMAIN rest
    BY <2>2
  <2> HIDE DEF order
  <2>4. Distinct(order) /\ Songs(order) \subseteq Songs(rest) \cup {s}
    BY <2>2, <2>3 DEF Distinct, IsInjective, Songs
  <2> QED BY <1>1, <2>1, <2>2, <2>4 DEF Typed, Carried
<1> QED BY <1>2, <1>4, <1>5 DEF Edit

LEMMA PlaysEdit ==
  ASSUME PlaysInv, Copies, Edit
  PROVE  PlaysInv'
<1>1. UNCHANGED <<file, sd, counts>> /\ Current' = Current
  BY DEF Edit, UnchangedNotes, UnchangedDatabase, Current
<1>2. Typed(mem') /\ Carried(mem')
  BY EditKeeps
<1>3. NoFewer(Current, mem')
  BY <1>2 DEF PlaysInv, Edit, NoFewer, Carried
<1>4. TypesInv'
  BY <1>1, <1>2, TypesAside DEF PlaysInv, TypesInv
<1> QED BY <1>1, <1>3, <1>4 DEF PlaysInv, NoFewer

LEMMA PlaysFreeOrCrash ==
  ASSUME PlaysInv, Free \/ Crash
  PROVE  PlaysInv'
<1>1. UNCHANGED <<file, sd, counts>> /\ mem' = NoDatabase("none")
      /\ pc' \in {"plugged", "unplugged"}
  BY DEF Free, Crash, UnchangedNotes, UnchangedDatabase
<1>2. TypesInv'
  BY <1>1, NothingTyped, TypesAside DEF PlaysInv, TypesInv
<1> QED BY <1>1, <1>2 DEF PlaysInv

(* A step of itdb_write() that leaves the database files alone.            *)
LEMMA PlaysWriteAside ==
  ASSUME PlaysInv, pc \notin {"unplugged", "plugged"}, UNCHANGED <<file, mem>>,
         sd' \in {sd, mem.order}, counts' \in {counts, NoCounts("none")}
  PROVE  PlaysInv'
<1>1. TypesInv' /\ NoFewer(Current, mem)
  BY DEF PlaysInv, TypesInv, Typed, NoCounts
<1>2. NoFewer(Current', mem')
  BY <1>1 DEF Current
<1> QED BY <1>1, <1>2 DEF PlaysInv

LEMMA PlaysSaved ==
  ASSUME PlaysInv, Copies, mem.state = "data", UNCHANGED <<family, mem, counts, sd>>,
         file' = [file EXCEPT ![WriteName] = mem]
  PROVE  PlaysInv'
<1>1. Current' = mem
  BY SavedIsCurrent
<1>2. TypesInv'
  <2>1. DOMAIN file = Names /\ WriteName \in Names
    BY DEF Copies, FilesInv, Names, WriteName
  <2>2. ASSUME NEW name \in Names PROVE file'[name] \in {file[name], mem}
    BY <2>1
  <2> QED BY <2>2 DEF PlaysInv, TypesInv, Typed
<1>3. NoFewer(mem, mem)
  <2>1. ASSUME NEW s \in Songs(mem.order) PROVE mem.tag[s].plays \in Nat
    BY SongsTyped DEF PlaysInv, TypesInv, Typed, Distinct, Tag
  <2> QED BY <2>1 DEF NoFewer
<1> QED BY <1>1, <1>2, <1>3 DEF PlaysInv

LEMMA PlaysWrite ==
  ASSUME PlaysInv, Copies, WriteNext
  PROVE  PlaysInv'
<1> USE DEF UnchangedHost, UnchangedNotes, UnchangedDatabase, Fail
<1>1. CASE WriteBegin \/ SqliteGenerate \/ ShuffleWriteSd
  BY <1>1, PlaysWriteAside DEF WriteBegin, SqliteGenerate, ShuffleWriteSd
<1>2. CASE ShuffleRenameFiles \/ WriteRenameFiles
  BY <1>2, PlaysWriteAside DEF ShuffleRenameFiles, WriteRenameFiles, RenameFiles
<1>3. CASE WriteDatabase
  <2>1. mem.state = "data" /\ UNCHANGED <<family, mem, sd>> /\ pc = "database"
    BY <1>3 DEF WriteDatabase, Copies, HostInv
  <2>2. counts' = counts
    BY <1>3 DEF WriteDatabase, PlaycountsReset, CountsDir, ResetDir
  <2>3. CASE UNCHANGED file
    BY <2>1, <2>2, <2>3, PlaysWriteAside
  <2>4. CASE file' = [file EXCEPT ![WriteName] = mem]
    BY <2>1, <2>2, <2>4, PlaysSaved
  <2> QED BY <1>3, <2>3, <2>4 DEF WriteDatabase
<1>4. CASE TruncateItunesDb
  <2>1. /\ UNCHANGED <<mem, sd, counts>> /\ pc = "truncate"
        /\ file["iTunesCDB"].state = "data" /\ DOMAIN file = Names
    BY <1>4 DEF TruncateItunesDb, Copies, WrittenInv, FilesInv
  <2>2. CASE UNCHANGED file
    BY <2>1, <2>2, PlaysWriteAside
  <2>3. CASE file' = [file EXCEPT !["iTunesDB"] = NoDatabase("empty")]
    <3>1. /\ file'["iTunesDB"] = NoDatabase("empty")
          /\ file'["iTunesCDB"] = file["iTunesCDB"] /\ Current' = Current
      BY <2>1, <2>3 DEF Names, Current
    <3>2. TypesInv'
      BY <2>1, <3>1, NothingTyped DEF PlaysInv, TypesInv, Names
    <3> QED BY <2>1, <3>1, <3>2 DEF PlaysInv, NoFewer
  <2> QED BY <1>4, <2>2, <2>3 DEF TruncateItunesDb
<1> QED BY <1>1, <1>2, <1>3, <1>4 DEF WriteNext

LEMMA PlaysNext ==
  ASSUME PlaysInv, Copies, [Next]_vars
  PROVE  PlaysInv'
<1>1. CASE UNCHANGED vars
  BY <1>1 DEF vars, PlaysInv, TypesInv, Typed, Current
<1>2. CASE DeviceNext
  BY <1>2, PlaysDevice
<1>3. CASE Parse \/ Free \/ Edit \/ Crash
  BY <1>3, PlaysParse, PlaysFreeOrCrash, PlaysEdit
<1>4. CASE WriteNext
  BY <1>4, PlaysWrite
<1> QED BY <1>1, <1>2, <1>3, <1>4 DEF Next

(* In memory, a track of the iPod never has fewer plays than on it.        *)
THEOREM PlaysInvariant == Spec => []PlaysInv
<1>1. Init => PlaysInv
  BY PlaysInit
<1>2. PlaysInv /\ Copies /\ [Next]_vars => PlaysInv'
  BY PlaysNext
<1> QED BY <1>1, <1>2, CopiesInvariant, PTL DEF Spec

(* Only two steps change the database files: saving, and emptying iTunesDB *)
(* while iTunesCDB is the one that is read.                                *)
LEMMA StoredPlaysStep ==
  ASSUME PlaysInv, Copies, [Next]_vars
  PROVE  NoFewer(Current, Current')
<1>1. ASSUME NEW s \in Songs(Current.order) PROVE Current.tag[s].plays \in Nat
  BY CurrentTyped, SongsTyped DEF PlaysInv, Typed, Distinct, Tag
<1>2. CASE Current' = Current
  BY <1>1, <1>2 DEF NoFewer
<1>3. CASE UNCHANGED file
  BY <1>2, <1>3 DEF Current
<1>4. CASE WriteDatabase
  <2>1. /\ mem.state = "data" /\ UNCHANGED <<family, mem>>
        /\ NoFewer(Current, mem)
    BY <1>4 DEF WriteDatabase, Copies, HostInv, PlaysInv, Fail
  <2>2. CASE file' = [file EXCEPT ![WriteName] = mem]
    BY <2>1, <2>2, SavedIsCurrent
  <2> QED BY <1>3, <1>4, <2>2 DEF WriteDatabase
<1>5. CASE TruncateItunesDb
  <2>1. file["iTunesCDB"].state = "data" /\ DOMAIN file = Names
    BY <1>5 DEF TruncateItunesDb, Copies, WrittenInv, FilesInv
  <2>2. Current' = Current
    BY <1>5, <2>1 DEF TruncateItunesDb, Names, Current
  <2> QED BY <1>2, <2>2
<1>6. [Next]_vars => UNCHANGED file \/ WriteDatabase \/ TruncateItunesDb
  BY DEF Next, DeviceNext, WriteNext, vars, DevicePlay, DeviceSkip, DeviceRate,
         DeviceMakeOtg, Plug, Unplug, DamageCounts, Note, Parse, Edit, Free, Crash,
         WriteBegin, SqliteGenerate, ShuffleWriteSd, ShuffleRenameFiles,
         WriteRenameFiles, RenameFiles, UnchangedDatabase
<1> QED BY <1>3, <1>4, <1>5, <1>6

(* A play that was saved stays saved for as long as its track does.        *)
THEOREM StoredPlaysKeptCorrect == Spec => StoredPlaysKept
<1>1. PlaysInv /\ Copies /\ [Next]_vars =>
        [\A s \in Songs(Current.order) \cap Songs(Current.order)' :
           Current.tag[s].plays <= Current.tag[s].plays']_vars
  <2>1. SUFFICES ASSUME PlaysInv, Copies, [Next]_vars
                 PROVE  \A s \in Songs(Current.order) \cap Songs(Current.order)' :
                          Current.tag[s].plays <= Current.tag[s].plays'
    OBVIOUS
  <2> QED BY <2>1, StoredPlaysStep DEF NoFewer, Songs
<1> QED BY <1>1, PlaysInvariant, CopiesInvariant, PTL DEF Spec, StoredPlaysKept

-----------------------------------------------------------------------------
(* The plays the counts file has for a track, and where it has them.       *)
PlaysNoted(s) ==
  IF KeyOf(s) \in DOMAIN counts.entries THEN counts.entries[KeyOf(s)].plays ELSE 0

Kept ==
  \A s \in Songs(Current.order) : heard[s].plays <= MergedTags(Current)[s].plays

HeardInv ==
  /\ heard \in [Song -> Tag]
  /\ ~IsShuffle => Kept
  /\ ~IsShuffle /\ pc \notin {"unplugged", "plugged"} =>
       \A s \in Songs(Current.order) \cap Songs(mem.order) :
         heard[s].plays <= mem.tag[s].plays
  /\ pc \in {"truncate", "rename"} => Current = mem

LEMMA PlaceFound ==
  ASSUME NEW order, NEW s \in Songs(order)
  PROVE  PlaceOf(s, order) \in DOMAIN order /\ order[PlaceOf(s, order)] = s
  BY DEF PlaceOf, Songs

LEMMA MergedPlays ==
  TypesInv /\ ~IsShuffle =>
    \A s \in Songs(Current.order) :
      MergedTags(Current)[s].plays = Current.tag[s].plays + PlaysNoted(s)
<1> SUFFICES ASSUME TypesInv, ~IsShuffle, NEW s \in Songs(Current.order)
             PROVE  MergedTags(Current)[s].plays = Current.tag[s].plays + PlaysNoted(s)
  OBVIOUS
<1> DEFINE entry == PlaycountFor(PlaceOf(s, Current.order), Current)
<1>1. s \in Song /\ Current.order[PlaceOf(s, Current.order)] = s
  BY CurrentTyped, SongsTyped, PlaceFound DEF Typed, Distinct
<1>2. entry.plays = PlaysNoted(s)
  <2>1. CASE IsSqlite
    <3>1. KeyOf(s) = s /\ entry = IF s \in DOMAIN counts.entries
                                  THEN PlistEntry(counts.entries[s])
                                  ELSE NoPlaycount
      BY <2>1, <1>1 DEF KeyOf, PlaycountFor
    <3>2. \A e \in Playcount : PlistEntry(e).plays = e.plays
      BY DEF PlistEntry, Playcount
    <3> QED BY <3>1, <3>2 DEF PlaysNoted, TypesInv, NoPlaycount
  <2>2. CASE ~IsSqlite
    <3>1. KeyOf(s) = PlaceOf(s, Current.order)
      BY <2>2 DEF KeyOf, DeviceOrder
    <3>2. entry = IF KeyOf(s) \in DOMAIN counts.entries
                  THEN counts.entries[KeyOf(s)] ELSE NoPlaycount
      BY <2>2, <3>1 DEF PlaycountFor
    <3> QED BY <3>2 DEF PlaysNoted, NoPlaycount
  <2> QED BY <2>1, <2>2
<1>3. MergedTags(Current)[s] = MergePlaycount(Current.tag[s], entry)
  BY <1>1 DEF MergedTags
<1> QED BY <1>2, <1>3 DEF MergePlaycount

LEMMA MergedPlaysNext ==
  (TypesInv /\ ~IsShuffle =>
    \A s \in Songs(Current.order) :
      MergedTags(Current)[s].plays = Current.tag[s].plays + PlaysNoted(s))'
  BY MergedPlays, PTL

LEMMA NotedNat ==
  TypesInv => \A s : PlaysNoted(s) \in Nat
  BY DEF TypesInv, PlaysNoted, Playcount

LEMMA NotedNatNext ==
  (TypesInv => \A s : PlaysNoted(s) \in Nat)'
  BY NotedNat, PTL

LEMMA CurrentNat ==
  ASSUME TypesInv
  PROVE  \A s \in Songs(Current.order) : s \in Song /\ Current.tag[s].plays \in Nat
  BY CurrentTyped, SongsTyped DEF Typed, Distinct, Tag

LEMMA MergedAbove ==
  TypesInv => \A s \in Songs(Current.order) :
                Current.tag[s].plays <= MergedTags(Current)[s].plays
<1> SUFFICES ASSUME TypesInv
             PROVE  \A s \in Songs(Current.order) :
                      Current.tag[s].plays <= MergedTags(Current)[s].plays
  OBVIOUS
<1> QED BY CurrentTyped, MergedTyped

LEMMA MergedAboveNext ==
  (TypesInv => \A s \in Songs(Current.order) :
                 Current.tag[s].plays <= MergedTags(Current)[s].plays)'
  BY MergedAbove, PTL

LEMMA KeptAside ==
  ASSUME TypesInv, TypesInv', ~IsShuffle, Kept,
         UNCHANGED <<family, counts, heard>>, Current' = Current
  PROVE  Kept'
<1>1. \A s : KeyOf(s)' = KeyOf(s)
  BY DEF KeyOf, IsSqlite, IsShuffle, DeviceOrder
<1>2. \A s : PlaysNoted(s)' = PlaysNoted(s)
  BY <1>1 DEF PlaysNoted
<1>3. ~IsShuffle'
  BY DEF IsShuffle
<1>4. \A s \in Songs(Current.order) :
        (MergedTags(Current)[s].plays)' = MergedTags(Current)[s].plays
  BY <1>2, <1>3, MergedPlays, MergedPlaysNext
<1> QED BY <1>4 DEF Kept

(* Tracks have places of their own, so a note is about one track.          *)
LEMMA KeysDiffer ==
  ASSUME TypesInv, ~IsShuffle, NEW s \in DeviceSongs,
         NEW t \in Songs(Current.order), KeyOf(s) = KeyOf(t)
  PROVE  s = t
<1>1. CASE IsSqlite
  BY <1>1 DEF KeyOf
<1>2. CASE ~IsSqlite
  <2>1. s \in Songs(Current.order) /\ DeviceOrder = Current.order
    BY <1>2 DEF DeviceSongs, DeviceOrder
  <2> QED BY <1>2, <2>1, PlaceFound DEF KeyOf
<1> QED BY <1>1, <1>2

LEMMA EntriesPlays ==
  ASSUME TypesInv, ~IsShuffle, NEW s \in DeviceSongs
  PROVE  /\ KeyOf(s) \in DOMAIN EntriesFor(s)
         /\ \A key \in DOMAIN EntriesFor(s) :
              EntriesFor(s)[key].plays =
                IF key \in DOMAIN counts.entries THEN counts.entries[key].plays ELSE 0
         /\ DOMAIN counts.entries \subseteq DOMAIN EntriesFor(s)
<1>1. KeyOf(s) \in IF IsSqlite THEN {s} ELSE DOMAIN DeviceOrder
  BY PlaceFound DEF KeyOf, DeviceSongs, DeviceOrder
<1> QED BY <1>1 DEF EntriesFor, NoPlaycount

LEMMA NotedPlays ==
  ASSUME TypesInv, ~IsShuffle, NEW s \in DeviceSongs, NEW entry, NEW did,
         Note(s, entry, did)
  PROVE  \A t \in Songs(Current.order) :
           PlaysNoted(t)' = IF t = s THEN entry.plays ELSE PlaysNoted(t)
<1> SUFFICES ASSUME NEW t \in Songs(Current.order)
             PROVE  PlaysNoted(t)' = IF t = s THEN entry.plays ELSE PlaysNoted(t)
  OBVIOUS
<1>1. \A u : KeyOf(u)' = KeyOf(u)
  BY DEF Note, KeyOf, IsSqlite, IsShuffle, DeviceOrder, Current
<1>2. counts'.entries = [EntriesFor(s) EXCEPT ![KeyOf(s)] = entry]
  BY DEF Note
<1>3. t = s \/ KeyOf(t) # KeyOf(s)
  BY KeysDiffer
<1> QED BY <1>1, <1>2, <1>3, EntriesPlays DEF PlaysNoted

(* What a note says was done to a track is what it adds to its plays.      *)
LEMMA HeardNote ==
  ASSUME PlaysInv, HeardInv, PlaysInv', NEW s \in DeviceSongs, s \in Song,
         NEW entry, NEW did \in Tag, Note(s, entry, did), pc = "unplugged",
         ~IsShuffle =>
           did.plays <= heard[s].plays + (entry.plays - Noted(s).plays)
  PROVE  HeardInv'
<1>1. /\ Current' = Current /\ IsShuffle' = IsShuffle /\ pc' = "unplugged"
      /\ heard' = [heard EXCEPT ![s] = did]
  BY DEF Note, Current, IsShuffle
<1>2. heard' \in [Song -> Tag]
  BY <1>1 DEF HeardInv
<1>3. ASSUME ~IsShuffle, NEW t \in Songs(Current.order)
      PROVE  heard'[t].plays <= (MergedTags(Current)[t].plays)'
  <2>1. /\ MergedTags(Current)[t].plays = Current.tag[t].plays + PlaysNoted(t)
        /\ (MergedTags(Current)[t].plays)' = Current.tag[t].plays + PlaysNoted(t)'
    BY <1>1, <1>3, MergedPlays, MergedPlaysNext DEF PlaysInv
  <2>2. /\ Current.tag[t].plays \in Nat /\ PlaysNoted(t) \in Nat
        /\ PlaysNoted(t)' \in Nat /\ heard[t].plays \in Nat
    BY CurrentNat, NotedNat, NotedNatNext DEF PlaysInv, HeardInv, Tag
  <2>3. heard[t].plays <= MergedTags(Current)[t].plays
    BY <1>3 DEF HeardInv, Kept
  <2>4. CASE t # s
    BY <1>1, <1>2, <1>3, <2>1, <2>3, <2>4, NotedPlays DEF PlaysInv, HeardInv
  <2>5. CASE t = s
    <3>1. Noted(s).plays = PlaysNoted(s)
      BY <1>3, EntriesPlays DEF Noted, PlaysNoted, PlaysInv
    <3>2. PlaysNoted(s)' = entry.plays
      BY <1>3, <2>5, NotedPlays DEF PlaysInv
    <3>3. heard'[s] = did /\ did.plays \in Nat
      BY <1>1 DEF HeardInv, Tag
    <3> QED BY <1>3, <2>1, <2>2, <2>3, <2>5, <3>1, <3>2, <3>3
  <2> QED BY <2>4, <2>5
<1>4. ~IsShuffle' => Kept'
  BY <1>1, <1>3 DEF Kept
<1> QED BY <1>1, <1>2, <1>4 DEF HeardInv

LEMMA HeardDevice ==
  ASSUME PlaysInv, HeardInv, PlaysInv', DeviceNext
  PROVE  HeardInv'
<1>1. ASSUME NEW s \in Song, InUse(s)
      PROVE  /\ s \in DeviceSongs /\ pc = "unplugged" /\ heard[s] \in Tag
             /\ KeyOf(s) \in DOMAIN EntriesFor(s) => Noted(s) \in Playcount
             /\ ~IsShuffle => Noted(s) \in Playcount
  BY <1>1, EntriesTyped, EntriesPlays DEF InUse, HeardInv, Noted, PlaysInv
<1>2. ASSUME NEW s \in Song, DevicePlay(s) PROVE HeardInv'
  <2> DEFINE entry == [Noted(s) EXCEPT !.plays = @ + 1]
             did == [heard[s] EXCEPT !.plays = @ + 1]
  <2>1. InUse(s) /\ Note(s, entry, did)
    BY <1>2 DEF DevicePlay
  <2>2. /\ did \in Tag /\ did.plays = heard[s].plays + 1
        /\ heard[s].plays \in Nat
    BY <1>1, <2>1 DEF Tag
  <2>3. ~IsShuffle => entry.plays = Noted(s).plays + 1 /\ Noted(s).plays \in Nat
    BY <1>1, <2>1 DEF Playcount
  <2> HIDE DEF entry, did
  <2> QED BY <1>1, <2>1, <2>2, <2>3, HeardNote
<1>3. ASSUME NEW s \in Song, DeviceSkip(s) PROVE HeardInv'
  <2> DEFINE entry == [Noted(s) EXCEPT !.skips = @ + 1]
             did == [heard[s] EXCEPT !.skips = @ + 1]
  <2>1. InUse(s) /\ Note(s, entry, did)
    BY <1>3 DEF DeviceSkip
  <2>2. /\ did \in Tag /\ did.plays = heard[s].plays
        /\ heard[s].plays \in Nat
    BY <1>1, <2>1 DEF Tag
  <2>3. ~IsShuffle => entry.plays = Noted(s).plays /\ Noted(s).plays \in Nat
    BY <1>1, <2>1 DEF Playcount
  <2> HIDE DEF entry, did
  <2> QED BY <1>1, <2>1, <2>2, <2>3, HeardNote
<1>4. ASSUME NEW s \in Song, NEW stars \in Stars, DeviceRate(s, stars)
      PROVE  HeardInv'
  <2> DEFINE entry == [Noted(s) EXCEPT !.rating = stars]
             did == [heard[s] EXCEPT !.rating = stars]
  <2>1. InUse(s) /\ Note(s, entry, did)
    BY <1>4 DEF DeviceRate
  <2>2. /\ did \in Tag /\ did.plays = heard[s].plays
        /\ heard[s].plays \in Nat
    BY <1>1, <2>1 DEF Tag
  <2>3. ~IsShuffle => entry.plays = Noted(s).plays /\ Noted(s).plays \in Nat
    BY <1>1, <2>1 DEF Playcount
  <2> HIDE DEF entry, did
  <2> QED BY <1>1, <2>1, <2>2, <2>3, HeardNote
<1>5. CASE DamageCounts
  <2>1. /\ Current' = Current /\ pc' = "plugged" /\ heard' = Current.tag
        /\ counts'.entries = <<>>
    BY <1>5 DEF DamageCounts, Current, NoCounts
  <2>2. heard' \in [Song -> Tag]
    BY <2>1, CurrentTyped DEF PlaysInv, Typed
  <2>3. Kept'
    BY <2>1, CurrentNat, MergedAboveNext DEF PlaysInv, Kept
  <2> QED BY <2>1, <2>2, <2>3 DEF HeardInv
<1>6. CASE Plug \/ Unplug \/ \E s \in Song : DeviceMakeOtg(s)
  <2>1. /\ UNCHANGED <<family, file, sd, counts, heard>>
        /\ pc' \in {"plugged", "unplugged"}
    BY <1>6 DEF Plug, Unplug, DeviceMakeOtg, UnchangedHost, UnchangedNotes,
                UnchangedDatabase
  <2>2. ~IsShuffle => Kept'
    BY <2>1, KeptAside DEF HeardInv, PlaysInv, Current
  <2> QED BY <2>1, <2>2 DEF HeardInv, IsShuffle
<1> QED BY <1>2, <1>3, <1>4, <1>5, <1>6 DEF DeviceNext

(* What is in memory keeps what was heard: what parsing merged is there,   *)
(* and what the application removed does not come back.                    *)
InMemory ==
  \A s \in Songs(Current.order) \cap Songs(mem.order) :
    heard[s].plays <= mem.tag[s].plays

(* The iPod's files and its counts stay as they are.                       *)
LEMMA HeardAside ==
  ASSUME PlaysInv, PlaysInv', HeardInv, UNCHANGED <<family, file, counts, heard>>,
         ~IsShuffle /\ pc' \notin {"unplugged", "plugged"} => InMemory',
         pc' \in {"truncate", "rename"} => Current = mem /\ UNCHANGED mem
  PROVE  HeardInv'
<1>1. Current' = Current /\ IsShuffle' = IsShuffle
  BY DEF Current, IsShuffle
<1>2. ~IsShuffle => Kept'
  BY <1>1, KeptAside DEF HeardInv, PlaysInv
<1> QED BY <1>1, <1>2 DEF HeardInv, InMemory

LEMMA HeardHost ==
  ASSUME PlaysInv, PlaysInv', HeardInv, Copies, Parse \/ Free \/ Edit \/ Crash
  PROVE  HeardInv'
<1>1. /\ UNCHANGED <<family, file, counts, heard>>
      /\ Current' = Current
      /\ pc' \in {"unplugged", "plugged", "open"}
  BY DEF Parse, Free, Edit, Crash, UnchangedNotes, UnchangedDatabase, Current
<1>2. CASE pc' # "open"
  BY <1>1, <1>2, HeardAside
<1>3. CASE Parse /\ pc' = "open"
  <2>1. mem'.order = Current.order /\ mem'.tag = MergedTags(Current)
    <3>1. \E lists : mem' = Database(Current.order, MergedTags(Current), lists)
      BY <1>3 DEF Parse
    <3> QED BY <3>1 DEF Database
  <2>2. ~IsShuffle => InMemory'
    BY <1>1, <2>1 DEF HeardInv, Kept, InMemory
  <2> QED BY <1>1, <1>3, <2>2, HeardAside
<1>4. CASE Edit
  <2>1. ~IsShuffle => InMemory
    BY <1>4 DEF Edit, HeardInv, InMemory
  <2>2. Carried(mem')
    BY <1>4, EditKeeps
  <2>3. ~IsShuffle => InMemory'
    BY <1>1, <2>1, <2>2 DEF InMemory, Carried
  <2> QED BY <1>1, <1>4, <2>3, HeardAside DEF Edit
<1> QED BY <1>2, <1>3, <1>4 DEF Free, Crash

(* Saving forgets what was heard of tracks that were not there before; what*)
(* is written has the plays of the others.                                 *)
LEMMA HeardDatabase ==
  ASSUME PlaysInv, PlaysInv', HeardInv, Copies, WriteDatabase
  PROVE  HeardInv'
<1>1. /\ mem.state = "data" /\ UNCHANGED <<family, mem>> /\ pc = "database"
      /\ counts' = counts /\ IsShuffle' = IsShuffle
  BY DEF WriteDatabase, Copies, HostInv, PlaycountsReset, CountsDir, ResetDir, Fail,
         IsShuffle
<1>2. CASE UNCHANGED file /\ UNCHANGED heard /\ Fail("database")
  <2>1. pc' = "open" /\ (~IsShuffle => InMemory')
    BY <1>1, <1>2 DEF Fail, HeardInv, InMemory, Current
  <2> QED BY <1>1, <1>2, <2>1, HeardAside
<1>3. CASE /\ file' = [file EXCEPT ![WriteName] = mem]
           /\ heard' = [s \in Song |->
                          IF s \in Songs(Current.order) \cap Songs(mem.order)
                          THEN heard[s] ELSE NewTag]
  <2>1. Current' = mem
    BY <1>1, <1>3, SavedIsCurrent
  <2>2. heard' \in [Song -> Tag]
    <3>1. NewTag \in Tag
      BY SyncAssumption DEF NewTag, Tag, Stars, SyncAssumption
    <3> QED BY <1>3, <3>1 DEF HeardInv
  <2>3. \A s \in Songs(mem.order) : s \in Song /\ mem.tag[s].plays \in Nat
    BY SongsTyped DEF PlaysInv, TypesInv, Typed, Distinct, Tag
  <2>4. ASSUME ~IsShuffle, NEW s \in Songs(mem.order)
        PROVE  heard'[s].plays <= mem.tag[s].plays
    BY <1>1, <1>3, <2>3, <2>4 DEF HeardInv, NewTag
  <2>5. ASSUME ~IsShuffle, NEW s \in Songs(mem.order)
        PROVE  heard'[s].plays <= (MergedTags(Current)[s].plays)'
    <3>1. mem.tag[s].plays <= (MergedTags(Current)[s].plays)'
      BY <2>1, MergedAboveNext DEF PlaysInv
    <3>2. (MergedTags(Current)[s].plays)' \in Nat
      BY <1>1, <2>1, <2>3, <2>5, MergedPlaysNext, NotedNatNext DEF PlaysInv
    <3>3. heard'[s].plays \in Nat
      BY <2>2, <2>3 DEF Tag
    <3> QED BY <2>3, <2>4, <2>5, <3>1, <3>2, <3>3
  <2> QED BY <1>1, <2>1, <2>2, <2>4, <2>5 DEF HeardInv, Kept
<1> QED BY <1>2, <1>3 DEF WriteDatabase

(* Taking the notes away leaves the plays that were saved.                 *)
LEMMA HeardRename ==
  ASSUME PlaysInv, PlaysInv', HeardInv, WriteRenameFiles
  PROVE  HeardInv'
<1>1. /\ UNCHANGED <<family, file, mem, heard>> /\ pc' = "open" /\ Current = mem
      /\ Current' = Current /\ IsShuffle' = IsShuffle
  BY DEF WriteRenameFiles, RenameFiles, UnchangedDatabase, HeardInv, Current,
         IsShuffle
<1>2. ~IsShuffle => InMemory
  BY DEF WriteRenameFiles, HeardInv, InMemory
<1>3. ASSUME ~IsShuffle, NEW s \in Songs(Current.order)
      PROVE  heard[s].plays <= (MergedTags(Current)[s].plays)'
  <2>1. heard[s].plays <= Current.tag[s].plays
    BY <1>1, <1>2, <1>3 DEF InMemory
  <2>2. Current.tag[s].plays <= (MergedTags(Current)[s].plays)'
    BY <1>1, MergedAboveNext DEF PlaysInv
  <2>3. (MergedTags(Current)[s].plays)' \in Nat
    BY <1>1, <1>3, CurrentNat, MergedPlaysNext, NotedNatNext DEF PlaysInv
  <2>4. heard[s].plays \in Nat /\ Current.tag[s].plays \in Nat
    BY CurrentNat DEF PlaysInv, HeardInv, Tag
  <2> QED BY <2>1, <2>2, <2>3, <2>4
<1> QED BY <1>1, <1>2, <1>3 DEF HeardInv, Kept, InMemory

LEMMA HeardWrite ==
  ASSUME PlaysInv, PlaysInv', HeardInv, Copies, WriteNext
  PROVE  HeardInv'
<1> USE DEF UnchangedHost, UnchangedNotes, UnchangedDatabase, Fail
<1>1. CASE WriteBegin \/ SqliteGenerate \/ ShuffleWriteSd
  <2>1. /\ UNCHANGED <<family, file, counts, heard, mem>>
        /\ pc' \notin {"truncate", "rename"}
        /\ pc \notin {"unplugged", "plugged"}
    BY <1>1 DEF WriteBegin, SqliteGenerate, ShuffleWriteSd
  <2>2. ~IsShuffle => InMemory'
    BY <2>1 DEF HeardInv, InMemory, Current
  <2> QED BY <2>1, <2>2, HeardAside
<1>2. CASE ShuffleRenameFiles
  <2>1. IsShuffle /\ UNCHANGED <<family, heard>> /\ pc' \notin {"truncate", "rename"}
    BY <1>2 DEF ShuffleRenameFiles, RenameFiles, Copies, WrittenInv
  <2> QED BY <2>1 DEF HeardInv, IsShuffle
<1>3. CASE WriteDatabase
  BY <1>3, HeardDatabase
<1>4. CASE TruncateItunesDb
  <2>1. /\ file["iTunesCDB"].state = "data" /\ DOMAIN file = Names
        /\ UNCHANGED <<family, counts, heard, mem>> /\ pc' = "rename"
    BY <1>4 DEF TruncateItunesDb, Copies, WrittenInv, FilesInv
  <2>2. Current' = Current /\ IsShuffle' = IsShuffle
    BY <1>4, <2>1 DEF TruncateItunesDb, Names, Current, IsShuffle
  <2>3. ~IsShuffle => Kept'
    BY <2>1, <2>2, KeptAside DEF HeardInv, PlaysInv
  <2> QED BY <1>4, <2>1, <2>2, <2>3 DEF HeardInv, TruncateItunesDb
<1>5. CASE WriteRenameFiles
  BY <1>5, HeardRename
<1> QED BY <1>1, <1>2, <1>3, <1>4, <1>5 DEF WriteNext

LEMMA HeardInit ==
  ASSUME Init, PlaysInv
  PROVE  HeardInv
<1>1. heard = Current.tag /\ pc = "unplugged"
  BY DEF Init
<1>2. heard \in [Song -> Tag]
  BY <1>1, CurrentTyped DEF PlaysInv, Typed
<1>3. Kept
  BY <1>1, MergedAbove DEF PlaysInv, Kept
<1> QED BY <1>1, <1>2, <1>3 DEF HeardInv

LEMMA HeardNext ==
  ASSUME PlaysInv, PlaysInv', HeardInv, Copies, [Next]_vars
  PROVE  HeardInv'
<1>1. CASE UNCHANGED vars
  <2>1. /\ UNCHANGED <<family, file, counts, heard, mem, pc>>
        /\ Current' = Current
    BY <1>1 DEF vars, Current
  <2> QED BY <2>1, HeardAside DEF HeardInv, InMemory
<1>2. CASE DeviceNext
  BY <1>2, HeardDevice
<1>3. CASE Parse \/ Free \/ Edit \/ Crash
  BY <1>3, HeardHost
<1>4. CASE WriteNext
  BY <1>4, HeardWrite
<1> QED BY <1>1, <1>2, <1>3, <1>4 DEF Next

(* What the owner played is in the files or in the notes, at every step.   *)
THEOREM HeardInvariant == Spec => []HeardInv
<1>1. Init /\ PlaysInv => HeardInv
  BY HeardInit
<1>2. PlaysInv /\ PlaysInv' /\ Copies /\ HeardInv /\ [Next]_vars => HeardInv'
  BY HeardNext
<1> QED BY <1>1, <1>2, PlaysInvariant, CopiesInvariant, PTL DEF Spec

(* No failure, unplugging or damage makes a hard disk or sqlite iPod       *)
(* forget plays of a track that stays.                                     *)
THEOREM EveryPlayKeptCorrect == Spec => []EveryPlayKept
<1>1. HeardInv => EveryPlayKept
  BY DEF HeardInv, Kept, EveryPlayKept
<1> QED BY <1>1, HeardInvariant, PTL

-----------------------------------------------------------------------------
(* The On-The-Go playlists: what OTGPlaylistInfo announces, and the songs  *)
(* at the places the files name.                                           *)
Files == IF otgInfo THEN otg ELSE <<>>

LEMMA OtgMembersTyped ==
  ASSUME NEW order \in Seq(Song), NEW places \in Seq(Nat)
  PROVE  /\ OtgMembers(places, order) \in Seq(Songs(order))
         /\ (\A i \in 1 .. Len(places) : places[i] \in DOMAIN order) =>
              /\ OtgMembers(places, order) = [i \in 1 .. Len(places) |-> order[places[i]]]
              /\ ~OtgBad(places, order)
<1> DEFINE good == {n \in 0 .. Len(places) : \A i \in 1 .. n : places[i] \in DOMAIN order}
           most == CHOOSE n \in good : \A k \in good : k <= n
<1>1. Len(places) \in Nat
  OBVIOUS
<1>2. good \in SUBSET (0 .. Len(places)) /\ 0 \in good
  BY <1>1
<1>3. \E n \in good : \A k \in good : k <= n
  <2> HIDE DEF good
  <2> QED BY <1>1, <1>2, GreatestNatural
<1>4. most \in good /\ \A k \in good : k <= most
  <2> HIDE DEF good
  <2> QED BY <1>3
<1>5. OtgMembers(places, order) = [i \in 1 .. most |-> order[places[i]]]
  BY DEF OtgMembers
<1>6. most \in 0 .. Len(places) /\ \A i \in 1 .. most : places[i] \in DOMAIN order
  BY <1>4
<1>7. (\A i \in 1 .. Len(places) : places[i] \in DOMAIN order) => Len(places) <= most
  <2> SUFFICES ASSUME \A i \in 1 .. Len(places) : places[i] \in DOMAIN order
               PROVE  Len(places) <= most
    OBVIOUS
  <2>1. Len(places) \in good
    BY <1>1
  <2> HIDE DEF most
  <2> QED BY <1>4, <2>1
<1> HIDE DEF most, good
<1>8. \A i \in 1 .. most : order[places[i]] \in Songs(order)
  BY <1>6 DEF Songs
<1>9. OtgMembers(places, order) \in Seq(Songs(order)) /\ Len(OtgMembers(places, order)) = most
  BY <1>1, <1>5, <1>6, <1>8
<1>10. (\A i \in 1 .. Len(places) : places[i] \in DOMAIN order) => most = Len(places)
  BY <1>1, <1>6, <1>7
<1> QED BY <1>1, <1>5, <1>9, <1>10 DEF OtgBad

(* Every list that is read has songs of the database; they are read to the *)
(* end when all places are good.                                           *)
LEMMA OtgListsTyped ==
  otg \in Seq(Seq(Nat)) => \A order \in Seq(Song) :
    /\ OtgLists(order) \in Seq(Seq(Songs(order)))
    /\ (\A i \in 1 .. Len(Files) : \A j \in 1 .. Len(Files[i]) : Files[i][j] \in DOMAIN order) =>
         OtgLists(order) =
           [i \in 1 .. Len(Files) |-> [j \in 1 .. Len(Files[i]) |-> order[Files[i][j]]]]
<1> SUFFICES ASSUME otg \in Seq(Seq(Nat)), NEW order \in Seq(Song)
             PROVE  /\ OtgLists(order) \in Seq(Seq(Songs(order)))
                    /\ (\A i \in 1 .. Len(Files) : \A j \in 1 .. Len(Files[i]) :
                          Files[i][j] \in DOMAIN order) =>
                         OtgLists(order) =
                           [i \in 1 .. Len(Files) |->
                              [j \in 1 .. Len(Files[i]) |-> order[Files[i][j]]]]
  OBVIOUS
<1>1. PICK files \in Seq(Seq(Nat)) : files = Files
  <2>1. <<>> \in Seq(Seq(Nat))
    OBVIOUS
  <2>2. Files \in Seq(Seq(Nat))
    BY <2>1 DEF Files
  <2> QED BY <2>2
<1> DEFINE good == {n \in 0 .. Len(files) :
                      \A i \in 1 .. n : i > 1 => ~OtgBad(files[i - 1], order)}
           read == CHOOSE n \in good : \A k \in good : k <= n
<1>2. OtgLists(order) = [i \in 1 .. read |-> OtgMembers(files[i], order)]
  BY <1>1 DEF OtgLists, Files
<1>3. Len(files) \in Nat /\ \A i \in 1 .. Len(files) : files[i] \in Seq(Nat)
  OBVIOUS
<1>4. good \in SUBSET (0 .. Len(files)) /\ 0 \in good
  BY <1>3
<1>5. \E n \in good : \A k \in good : k <= n
  <2> HIDE DEF good
  <2> QED BY <1>3, <1>4, GreatestNatural
<1>6. read \in good /\ \A k \in good : k <= read
  <2> HIDE DEF good
  <2> QED BY <1>5
<1>7. read \in 0 .. Len(files)
  BY <1>4, <1>6
<1>8. (\A i \in 1 .. Len(files) : ~OtgBad(files[i], order)) => read = Len(files)
  <2> SUFFICES ASSUME \A i \in 1 .. Len(files) : ~OtgBad(files[i], order)
               PROVE  Len(files) <= read
    BY <1>3, <1>7
  <2>1. Len(files) \in good
    <3>1. \A i \in 1 .. Len(files) : i > 1 => i - 1 \in 1 .. Len(files)
      BY <1>3
    <3> QED BY <1>3, <3>1
  <2> HIDE DEF read
  <2> QED BY <1>6, <2>1
<1> HIDE DEF read, good
<1>9. \A i \in 1 .. read : OtgMembers(files[i], order) \in Seq(Songs(order))
  BY <1>3, <1>7, OtgMembersTyped
<1>10. OtgLists(order) \in Seq(Seq(Songs(order)))
  BY <1>2, <1>3, <1>7, <1>9
<1>11. ASSUME \A i \in 1 .. Len(files) : \A j \in 1 .. Len(files[i]) : files[i][j] \in DOMAIN order
       PROVE  OtgLists(order) = [i \in 1 .. Len(files) |->
                                   [j \in 1 .. Len(files[i]) |-> order[files[i][j]]]]
  <2>1. ASSUME NEW i \in 1 .. Len(files)
        PROVE  /\ OtgMembers(files[i], order) = [j \in 1 .. Len(files[i]) |-> order[files[i][j]]]
               /\ ~OtgBad(files[i], order)
    BY <1>3, <1>11, OtgMembersTyped
  <2>2. read = Len(files)
    BY <1>8, <2>1
  <2> QED BY <1>2, <2>1, <2>2
<1> QED BY <1>1, <1>10, <1>11

-----------------------------------------------------------------------------
(* Every playlist has songs of its database, each variable its values, and *)
(* after an itdb_write() that returned TRUE nothing is left to be merged   *)
(* by position.                                                            *)
WellFormed(db) ==
  db.state \in {"data", "none", "empty"} /\ db.lists \in Seq(Seq(Songs(db.order)))

DatabasesInv ==
  /\ family \in Families
  /\ \A name \in Names : WellFormed(file[name])
  /\ WellFormed(mem)
  /\ ~IsShuffle => sd = <<>>
  /\ IF IsSqlite THEN itlp \subseteq Song ELSE itlp = {}

NotesInv ==
  /\ counts.state \in {"good", "none", "empty", "bad"}
  /\ counts.state # "good" => counts.entries = <<>>
  /\ otg \in Seq(Seq(Nat)) /\ otgInfo \in BOOLEAN

ProgramInv ==
  /\ pc \in WriteSteps \cup {"unplugged", "plugged", "open"}
  /\ out \in [write : {"none", "TRUE", "FALSE"}, error : BOOLEAN]
  /\ pc = "open" /\ out.write = "TRUE" /\ ~IsSqlite =>
       Current = mem /\ counts.entries = <<>> /\ ~otgInfo

SoundInv == DatabasesInv /\ NotesInv /\ ProgramInv

LEMMA NothingWellFormed ==
  ASSUME NEW state \in {"data", "none", "empty"}
  PROVE  WellFormed(NoDatabase(state))
<1>1. <<>> \in Seq(Seq(Songs(<<>>)))
  OBVIOUS
<1> QED BY <1>1 DEF WellFormed, NoDatabase

LEMMA CurrentWellFormed ==
  ASSUME DatabasesInv
  PROVE  WellFormed(Current)
  BY DEF DatabasesInv, Current, Names

LEMMA SoundInit ==
  ASSUME Init
  PROVE  SoundInv
<1>1. \E order, tag :
        LET db == Database(order, tag, <<>>)
        IN \/ file = [iTunesDB |-> db, iTunesCDB |-> NoDatabase("none")]
           \/ file = [iTunesDB |-> NoDatabase("empty"), iTunesCDB |-> db]
  BY DEF Init
<1>2. \A order, tag : WellFormed(Database(order, tag, <<>>))
  <2>1. \A order : <<>> \in Seq(Seq(Songs(order)))
    OBVIOUS
  <2> QED BY <2>1 DEF WellFormed, Database
<1>3. \A name \in Names : WellFormed(file[name])
  BY <1>1, <1>2, NothingWellFormed DEF Names
<1>4. IF IsSqlite THEN itlp \subseteq Song ELSE itlp = {}
  <2>1. \E order \in [1 .. Cardinality(Song) - 1 -> Song] :
          itlp = IF IsSqlite THEN Songs(order) ELSE {}
    BY DEF Init
  <2> QED BY <2>1 DEF Songs
<1>5. WellFormed(mem) /\ pc = "unplugged" /\ out = NoResult /\ family \in Families
      /\ counts = NoCounts("none") /\ otg = <<>> /\ otgInfo = FALSE
  BY NothingWellFormed DEF Init
<1>6. ~IsShuffle => sd = <<>>
  BY DEF Init
<1>7. <<>> \in Seq(Seq(Nat))
  OBVIOUS
<1>8. DatabasesInv /\ NotesInv
  BY <1>3, <1>4, <1>5, <1>6, <1>7 DEF DatabasesInv, NotesInv, NoCounts
<1>9. ProgramInv
  BY <1>5 DEF ProgramInv, NoResult
<1> QED BY <1>8, <1>9 DEF SoundInv

(* A step that does not touch the database files.                          *)
LEMMA DatabasesAside ==
  ASSUME DatabasesInv, UNCHANGED <<family, file>>, WellFormed(mem'),
         IsShuffle \/ UNCHANGED sd,
         UNCHANGED itlp \/ (IsSqlite /\ itlp' \subseteq Song)
  PROVE  DatabasesInv'
<1>1. IsShuffle' = IsShuffle /\ IsSqlite' = IsSqlite
  BY DEF IsShuffle, IsSqlite
<1>2. WellFormed(mem)'
  BY DEF WellFormed, Songs
<1>3. \A name \in Names : WellFormed(file[name])'
  BY DEF DatabasesInv, WellFormed, Songs
<1> QED BY <1>1, <1>2, <1>3 DEF DatabasesInv

LEMMA SoundDevice ==
  ASSUME SoundInv, PlaysInv, DeviceNext
  PROVE  SoundInv'
<1>1. /\ UNCHANGED <<family, file, sd, itlp, mem, out>>
      /\ pc' \in {"unplugged", "plugged"}
  BY DEF DeviceNext, DevicePlay, DeviceSkip, DeviceRate, DeviceMakeOtg, Note, InUse,
         Plug, Unplug, DamageCounts, UnchangedDatabase, UnchangedHost
<1>2. DatabasesInv'
  BY <1>1, DatabasesAside DEF SoundInv, DatabasesInv
<1>3. ProgramInv'
  BY <1>1 DEF SoundInv, ProgramInv
<1>4. UNCHANGED counts \/ counts'.state = "good" \/ \E state \in {"empty", "bad"} : counts' = NoCounts(state)
  BY DEF DeviceNext, DevicePlay, DeviceSkip, DeviceRate, DeviceMakeOtg, Note,
         Plug, Unplug, DamageCounts, UnchangedNotes
<1>5. /\ counts'.state \in {"good", "none", "empty", "bad"}
      /\ counts'.state # "good" => counts'.entries = <<>>
  BY <1>4 DEF SoundInv, NotesInv, NoCounts
<1>6. otg' \in Seq(Seq(Nat)) /\ otgInfo' \in BOOLEAN
  <2>1. ASSUME NEW s \in Song, DeviceMakeOtg(s)
        PROVE  otg' \in Seq(Seq(Nat)) /\ otgInfo' \in BOOLEAN
    <3>1. s \in Songs(Current.order) /\ DeviceOrder = Current.order
      BY <2>1 DEF DeviceMakeOtg, DeviceSongs, DeviceOrder, IsShuffle, IsSqlite
    <3>2. Current.order \in Seq(Song)
      BY CurrentTyped DEF PlaysInv, Typed, Distinct
    <3>3. PlaceOf(s, DeviceOrder) \in Nat
      BY <3>1, <3>2, PlaceFound
    <3> QED BY <2>1, <3>3 DEF DeviceMakeOtg, SoundInv, NotesInv
  <2>2. CASE UNCHANGED <<otg, otgInfo>>
    BY <2>2 DEF SoundInv, NotesInv
  <2>3. CASE Unplug
    <3>1. <<>> \in Seq(Seq(Nat))
      OBVIOUS
    <3> QED BY <2>3, <3>1 DEF Unplug, SoundInv, NotesInv
  <2> QED BY <2>1, <2>2, <2>3 DEF DeviceNext, DevicePlay, DeviceSkip, DeviceRate, Note,
             Plug, DamageCounts, UnchangedNotes
<1> QED BY <1>2, <1>3, <1>5, <1>6 DEF SoundInv, NotesInv

LEMMA SeqWider ==
  ASSUME NEW S, NEW T, S \subseteq T
  PROVE  Seq(S) \subseteq Seq(T)
  OBVIOUS

LEMMA SoundParse ==
  ASSUME SoundInv, PlaysInv, Parse
  PROVE  SoundInv'
<1>1. UNCHANGED <<family, file, sd, itlp, counts, otg, otgInfo>>
  BY DEF Parse, UnchangedNotes, UnchangedDatabase
<1>2. WellFormed(mem')
  <2>1. CASE UNCHANGED mem
    BY <2>1 DEF SoundInv, DatabasesInv
  <2>2. CASE mem' = Database(Current.order, MergedTags(Current),
                             Current.lists \o OtgLists(Current.order))
    <3>1. Current.order \in Seq(Song)
      BY CurrentTyped DEF PlaysInv, Typed, Distinct
    <3>2. OtgLists(Current.order) \in Seq(Seq(Songs(Current.order)))
      BY <3>1, OtgListsTyped DEF SoundInv, NotesInv
    <3>3. Current.lists \in Seq(Seq(Songs(Current.order)))
      BY CurrentWellFormed DEF SoundInv, WellFormed
    <3>4. Current.lists \o OtgLists(Current.order) \in Seq(Seq(Songs(Current.order)))
      BY <3>2, <3>3
    <3> QED BY <2>2, <3>4 DEF WellFormed, Database
  <2> QED BY <2>1, <2>2 DEF Parse
<1>3. DatabasesInv'
  BY <1>1, <1>2, DatabasesAside DEF SoundInv
<1>4. NotesInv'
  BY <1>1 DEF SoundInv, NotesInv
<1>5. pc' \in {"plugged", "open"}
  BY DEF Parse
<1>6. out'.write = "none" /\ out' \in [write : {"none", "TRUE", "FALSE"}, error : BOOLEAN]
  <2>1. OtgError(Current.order) \in BOOLEAN
    BY DEF OtgError, SoundInv, NotesInv
  <2>2. PICK error \in BOOLEAN : out' = [NoResult EXCEPT !.error = error]
    BY <2>1 DEF Parse
  <2> QED BY <2>2 DEF NoResult
<1>7. ProgramInv'
  BY <1>5, <1>6 DEF ProgramInv
<1> QED BY <1>3, <1>4, <1>7 DEF SoundInv

(* Whatever files were copied, the iPod can only play songs there are.     *)
LEMMA HalfCopiedSongs ==
  ASSUME SoundInv, PlaysInv, IsSqlite
  PROVE  \A songs \in HalfCopied : songs \subseteq Song
<1>1. Songs(mem.order) \subseteq Song
  BY SongsTyped DEF PlaysInv, TypesInv, Typed, Distinct
<1> QED BY <1>1 DEF HalfCopied, SoundInv, DatabasesInv

LEMMA SoundFreeOrCrash ==
  ASSUME SoundInv, PlaysInv, Copies, Free \/ Crash
  PROVE  SoundInv'
<1>1. UNCHANGED <<family, file, sd, counts, otgInfo>> /\ mem' = NoDatabase("none")
      /\ pc' \in {"plugged", "unplugged"} /\ out' = NoResult
  BY DEF Free, Crash, UnchangedNotes, UnchangedDatabase
<1>2. UNCHANGED itlp \/ (IsSqlite /\ itlp' \subseteq Song)
  <2>1. CASE UNCHANGED itlp
    BY <2>1
  <2>2. CASE pc = "sqlite" /\ itlp' \in HalfCopied
    <3>1. IsSqlite
      BY <2>2 DEF Copies, WrittenInv
    <3>2. itlp' \subseteq Song
      BY <2>2, <3>1, HalfCopiedSongs
    <3> QED BY <3>1, <3>2
  <2> QED BY <2>1, <2>2 DEF Free, Crash, UnchangedDatabase
<1>6. DatabasesInv'
  BY <1>1, <1>2, NothingWellFormed, DatabasesAside DEF SoundInv
<1>3. otg' \in Seq(Seq(Nat))
  <2>1. <<>> \in Seq(Seq(Nat))
    OBVIOUS
  <2>2. otg' \in {otg, <<>>}
    BY DEF Free, Crash, UnchangedNotes
  <2> QED BY <2>1, <2>2 DEF SoundInv, NotesInv
<1>4. NotesInv'
  BY <1>1, <1>3 DEF SoundInv, NotesInv
<1>5. ProgramInv'
  BY <1>1 DEF ProgramInv, NoResult
<1> QED BY <1>4, <1>5, <1>6 DEF SoundInv

(* What Only leaves has elements of the set.                               *)
LEMMA ListInto ==
  ASSUME NEW T, NEW list \in Seq(T), NEW U, \A y : Listed(y, list) => y \in U
  PROVE  list \in Seq(U)
<1>1. \A i \in 1 .. Len(list) : list[i] \in U
  BY DEF Listed
<1> QED BY <1>1

LEMMA FunctionList ==
  ASSUME NEW S, NEW n \in Nat, NEW f \in [1 .. n -> S]
  PROVE  f \in Seq(S)
  OBVIOUS

LEMMA WithoutTyped ==
  ASSUME NEW T, NEW U, NEW lists \in Seq(Seq(T)), NEW s, T \ {s} \subseteq U
  PROVE  WithoutSong(lists, s) \in Seq(Seq(U))
<1>1. ASSUME NEW list \in Seq(T)
      PROVE  Without(list, {s}) \in Seq(U)
  <2>1. /\ Without(list, {s}) \in Seq(T)
        /\ \A y : Listed(y, Without(list, {s})) => Listed(y, list) /\ y # s
    BY OnlyElements DEF Without
  <2>2. \A y : Listed(y, list) => y \in T
    BY DEF Listed
  <2> QED BY <2>1, <2>2, ListInto
<1>2. DOMAIN lists = 1 .. Len(lists) /\ Len(lists) \in Nat
      /\ \A i \in 1 .. Len(lists) : lists[i] \in Seq(T)
  OBVIOUS
<1>3. WithoutSong(lists, s) = [i \in 1 .. Len(lists) |-> Without(lists[i], {s})]
  BY <1>2 DEF WithoutSong
<1>4. \A i \in 1 .. Len(lists) : Without(lists[i], {s}) \in Seq(U)
  BY <1>1, <1>2
<1> DEFINE new == [i \in 1 .. Len(lists) |-> Without(lists[i], {s})]
<1>5. new \in [1 .. Len(lists) -> Seq(U)]
  BY <1>4
<1> HIDE DEF new
<1>6. new \in Seq(Seq(U))
  BY <1>2, <1>5, FunctionList
<1> QED BY <1>3, <1>6 DEF new

LEMMA SoundEdit ==
  ASSUME SoundInv, PlaysInv, Copies, Edit
  PROVE  SoundInv'
<1>1. /\ UNCHANGED <<family, file, sd, itlp, counts, otg, otgInfo>>
      /\ pc' = "open" /\ out' = NoResult
  BY DEF Edit, UnchangedNotes, UnchangedDatabase
<1>2. /\ mem.order \in Seq(Song) /\ DOMAIN mem = Fields /\ WellFormed(mem)
  BY DEF PlaysInv, TypesInv, Typed, Distinct, Copies, HostInv, SoundInv, DatabasesInv,
         Edit
<1>3. \A order, other : Listed(other, order) <=> other \in Songs(order)
  BY DEF Listed, Songs
<1>4. ASSUME NEW s \in Song, mem' = [mem EXCEPT !.order = Append(@, s)]
      PROVE  WellFormed(mem')
  <2>1. /\ mem'.order = Append(mem.order, s) /\ mem'.lists = mem.lists
        /\ mem'.state = mem.state
    BY <1>2, <1>4 DEF Fields
  <2>2. Songs(mem.order) \subseteq Songs(Append(mem.order, s))
    <3>1. \A i \in DOMAIN mem.order : /\ i \in DOMAIN Append(mem.order, s)
                                      /\ Append(mem.order, s)[i] = mem.order[i]
      BY <1>2, AppendProperties
    <3> QED BY <3>1 DEF Songs
  <2>3. Seq(Seq(Songs(mem.order))) \subseteq Seq(Seq(Songs(Append(mem.order, s))))
    BY <2>2, SeqWider
  <2> QED BY <1>2, <2>1, <2>3 DEF WellFormed
<1>5. ASSUME NEW s \in Songs(mem.order),
             mem' = [mem EXCEPT !.order = GListRemove(@, s),
                                !.tag = [@ EXCEPT ![s] = NewTag],
                                !.lists = WithoutSong(@, s)]
      PROVE  WellFormed(mem')
  <2>1. /\ mem'.order = GListRemove(mem.order, s) /\ mem'.lists = WithoutSong(mem.lists, s)
        /\ mem'.state = mem.state
    BY <1>2, <1>5 DEF Fields
  <2>2. Songs(mem.order) \ {s} \subseteq Songs(GListRemove(mem.order, s))
    BY <1>2, <1>3, RemoveListed
  <2>3. WithoutSong(mem.lists, s) \in Seq(Seq(Songs(GListRemove(mem.order, s))))
    BY <1>2, <2>2, WithoutTyped DEF WellFormed
  <2> QED BY <1>2, <2>1, <2>3 DEF WellFormed
<1>6. ASSUME NEW s \in Songs(mem.order),
             mem' = [mem EXCEPT !.order = <<s>> \o GListRemove(@, s)]
      PROVE  WellFormed(mem')
  <2> DEFINE rest == GListRemove(mem.order, s)
  <2>1. /\ mem'.order = <<s>> \o rest /\ mem'.lists = mem.lists /\ mem'.state = mem.state
    BY <1>2, <1>6 DEF Fields
  <2>2. Songs(mem.order) \ {s} \subseteq Songs(rest) /\ rest \in Seq(Song)
    BY <1>2, <1>3, RemoveListed
  <2> HIDE DEF rest
  <2>3. Songs(mem.order) \subseteq Songs(<<s>> \o rest)
    <3> DEFINE all == <<s>> \o rest
    <3>1. /\ 1 \in DOMAIN all /\ all[1] = s
          /\ \A i \in DOMAIN rest : i + 1 \in DOMAIN all /\ all[i + 1] = rest[i]
      BY <2>2
    <3> HIDE DEF all
    <3>2. s \in Songs(all) /\ Songs(rest) \subseteq Songs(all)
      BY <3>1 DEF Songs
    <3> QED BY <2>2, <3>2 DEF all
  <2>4. Seq(Seq(Songs(mem.order))) \subseteq Seq(Seq(Songs(<<s>> \o rest)))
    BY <2>3, SeqWider
  <2> QED BY <1>2, <2>1, <2>4 DEF WellFormed
<1>7. WellFormed(mem')
  BY <1>4, <1>5, <1>6 DEF Edit
<1>8. DatabasesInv'
  BY <1>1, <1>7, DatabasesAside DEF SoundInv
<1>9. NotesInv'
  BY <1>1 DEF SoundInv, NotesInv
<1>10. ProgramInv'
  BY <1>1 DEF ProgramInv, NoResult
<1> QED BY <1>8, <1>9, <1>10 DEF SoundInv

(* A step of itdb_write() that fails, or goes on to the next one, returns  *)
(* nothing that promises anything.                                         *)
LEMMA ProgramAside ==
  ASSUME ProgramInv, pc' \in WriteSteps \cup {"open"}, pc' = "open" => out'.write # "TRUE",
         out' \in {out, NoResult, [out EXCEPT !.write = "none"], [out EXCEPT !.write = "FALSE"]}
  PROVE  ProgramInv'
<1>1. out' \in [write : {"none", "TRUE", "FALSE"}, error : BOOLEAN]
  <2>1. out \in [write : {"none", "TRUE", "FALSE"}, error : BOOLEAN]
    BY DEF ProgramInv
  <2>2. CASE out' = out
    BY <2>1, <2>2
  <2>5. CASE out' = NoResult
    BY <2>5 DEF NoResult
  <2>3. CASE out' = [out EXCEPT !.write = "none"]
    BY <2>1, <2>3
  <2>4. CASE out' = [out EXCEPT !.write = "FALSE"]
    BY <2>1, <2>4
  <2> QED BY <2>2, <2>3, <2>4, <2>5
<1> QED BY <1>1 DEF ProgramInv

LEMMA FalseResult ==
  ASSUME ProgramInv
  PROVE  [out EXCEPT !.write = "FALSE"].write = "FALSE"
  BY DEF ProgramInv

(* What itdb_rename_files() leaves of the notes.                           *)
LEMMA NotesRename ==
  ASSUME NotesInv, NEW goodPc, NEW goodWrite, RenameFiles(goodPc, goodWrite)
  PROVE  /\ NotesInv'
         /\ \/ pc' = "open" /\ out' = [out EXCEPT !.write = "FALSE"]
            \/ /\ pc' = goodPc /\ out' = [out EXCEPT !.write = goodWrite] /\ ~otgInfo'
               /\ ~IsSqlite => counts'.entries = <<>>
<1>1. counts' \in {counts, NoCounts("none")} /\ otgInfo' \in BOOLEAN /\ UNCHANGED otg
  BY DEF RenameFiles, NotesInv
<1>2. NotesInv'
  BY <1>1 DEF NotesInv, NoCounts
<1>3. counts'.state = "none" => counts'.entries = <<>>
  BY <1>2 DEF NotesInv
<1> QED BY <1>1, <1>2, <1>3 DEF RenameFiles

LEMMA SoundRename ==
  ASSUME SoundInv, HeardInv, ShuffleRenameFiles \/ WriteRenameFiles
  PROVE  SoundInv'
<1>1. UNCHANGED <<family, file, sd, itlp, mem>>
  BY DEF ShuffleRenameFiles, WriteRenameFiles, RenameFiles, UnchangedDatabase
<1>2. DatabasesInv'
  BY <1>1, DatabasesAside DEF SoundInv, DatabasesInv
<1>3. NotesInv'
  BY NotesRename DEF ShuffleRenameFiles, WriteRenameFiles, SoundInv
<1>4. CASE pc' = "open" /\ out' = [out EXCEPT !.write = "FALSE"]
  BY <1>2, <1>3, <1>4, FalseResult, ProgramAside DEF SoundInv
<1>5. CASE ShuffleRenameFiles /\ pc' = "database" /\ out' = [out EXCEPT !.write = "none"]
  <2>1. ProgramInv'
    BY <1>5, ProgramAside DEF SoundInv, WriteSteps
  <2> QED BY <1>2, <1>3, <2>1 DEF SoundInv
<1>6. CASE /\ WriteRenameFiles /\ pc' = "open" /\ out' = [out EXCEPT !.write = "TRUE"]
           /\ ~otgInfo' /\ (~IsSqlite => counts'.entries = <<>>)
  <2>1. out' \in [write : {"none", "TRUE", "FALSE"}, error : BOOLEAN]
    BY <1>6 DEF SoundInv, ProgramInv
  <2>2. Current' = mem' /\ IsSqlite' = IsSqlite
    BY <1>1, <1>6 DEF HeardInv, WriteRenameFiles, Current, IsSqlite
  <2>3. ProgramInv'
    BY <1>6, <2>1, <2>2 DEF ProgramInv
  <2> QED BY <1>2, <1>3, <2>3 DEF SoundInv
<1> QED BY <1>4, <1>5, <1>6, NotesRename DEF ShuffleRenameFiles, WriteRenameFiles, SoundInv

LEMMA SoundDatabase ==
  ASSUME SoundInv, Copies, WriteDatabase
  PROVE  SoundInv'
<1>1. /\ mem' = mem /\ UNCHANGED <<family, sd, itlp, counts, otg, otgInfo>>
  BY DEF WriteDatabase, Fail, PlaycountsReset, CountsDir, ResetDir
<1>2. NotesInv'
  BY <1>1 DEF SoundInv, NotesInv
<1>3. ProgramInv'
  <2>1. CASE Fail("database")
    BY <2>1, FalseResult, ProgramAside DEF SoundInv, Fail
  <2>2. CASE pc' \in {"truncate", "rename"} /\ out' = out
    BY <2>2, ProgramAside DEF SoundInv, WriteSteps
  <2> QED BY <2>1, <2>2 DEF WriteDatabase
<1>4. DatabasesInv'
  <2>1. CASE UNCHANGED file
    BY <1>1, <2>1, DatabasesAside DEF SoundInv, DatabasesInv
  <2>2. CASE file' = [file EXCEPT ![WriteName] = mem]
    <3>1. DOMAIN file = Names /\ WriteName \in Names
      BY DEF Copies, FilesInv, Names, WriteName
    <3>2. \A name \in Names : file'[name] \in {file[name], mem}
      BY <2>2, <3>1
    <3>3. \A name \in Names : WellFormed(file'[name])
      BY <3>2 DEF SoundInv, DatabasesInv
    <3>4. WellFormed(mem')
      BY <1>1 DEF SoundInv, DatabasesInv
    <3> QED BY <1>1, <3>3, <3>4 DEF SoundInv, DatabasesInv, IsShuffle, IsSqlite, WellFormed,
               Songs
  <2> QED BY <2>1, <2>2 DEF WriteDatabase
<1> QED BY <1>2, <1>3, <1>4 DEF SoundInv

LEMMA SoundTruncate ==
  ASSUME SoundInv, Copies, TruncateItunesDb
  PROVE  SoundInv'
<1>1. UNCHANGED <<family, sd, itlp, counts, otg, otgInfo, mem, out>> /\ pc' = "rename"
  BY DEF TruncateItunesDb, UnchangedNotes, UnchangedHost
<1>2. NotesInv'
  BY <1>1 DEF SoundInv, NotesInv
<1>3. ProgramInv'
  BY <1>1, ProgramAside DEF SoundInv, WriteSteps
<1>4. DatabasesInv'
  <2>1. CASE UNCHANGED file
    BY <1>1, <2>1, DatabasesAside DEF SoundInv, DatabasesInv
  <2>2. CASE file' = [file EXCEPT !["iTunesDB"] = NoDatabase("empty")]
    <3>1. DOMAIN file = Names
      BY DEF Copies, FilesInv
    <3>2. \A name \in Names : file'[name] \in {file[name], NoDatabase("empty")}
      BY <2>2, <3>1
    <3>3. \A name \in Names : WellFormed(file'[name])
      BY <3>2, NothingWellFormed DEF SoundInv, DatabasesInv
    <3>4. WellFormed(mem')
      BY <1>1 DEF SoundInv, DatabasesInv
    <3> QED BY <1>1, <3>3, <3>4 DEF SoundInv, DatabasesInv, IsShuffle, IsSqlite, WellFormed,
               Songs
  <2> QED BY <2>1, <2>2 DEF TruncateItunesDb
<1> QED BY <1>2, <1>3, <1>4 DEF SoundInv

LEMMA SoundCopies ==
  ASSUME SoundInv, PlaysInv, Copies, WriteBegin \/ SqliteGenerate \/ ShuffleWriteSd
  PROVE  SoundInv'
<1> USE DEF UnchangedHost, UnchangedNotes, UnchangedDatabase
<1>1. UNCHANGED <<family, file, counts, otg, otgInfo, mem>>
  BY DEF WriteBegin, SqliteGenerate, ShuffleWriteSd, Fail
<1>2. NotesInv'
  BY <1>1 DEF SoundInv, NotesInv
<1>3. ProgramInv'
  <2>1. CASE Fail("sqlite") \/ Fail("sd")
    BY <2>1, FalseResult, ProgramAside DEF SoundInv, Fail
  <2>2. CASE pc' \in {"sqlite", "sd", "database", "sdRename"} /\ out' \in {out, NoResult}
    BY <2>2, ProgramAside DEF SoundInv, WriteSteps
  <2> QED BY <2>1, <2>2 DEF WriteBegin, SqliteGenerate, ShuffleWriteSd
<1>4. Songs(mem.order) \subseteq Song
  BY SongsTyped DEF PlaysInv, TypesInv, Typed, Distinct
<1>5. UNCHANGED itlp \/ (IsSqlite /\ itlp' \subseteq Song)
  <2>1. CASE SqliteGenerate
    <3>1. IsSqlite
      BY <2>1 DEF SqliteGenerate, Copies, WrittenInv
    <3>2. itlp' \in HalfCopied \cup {Songs(mem.order)}
      BY <2>1 DEF SqliteGenerate
    <3> QED BY <1>4, <3>1, <3>2, HalfCopiedSongs
  <2> QED BY <2>1 DEF WriteBegin, ShuffleWriteSd
<1>6. IsShuffle \/ UNCHANGED sd
  BY DEF WriteBegin, SqliteGenerate, ShuffleWriteSd, Copies, WrittenInv
<1>7. DatabasesInv'
  BY <1>1, <1>5, <1>6, DatabasesAside DEF SoundInv, DatabasesInv
<1> QED BY <1>2, <1>3, <1>7 DEF SoundInv

LEMMA SoundNext ==
  ASSUME SoundInv, PlaysInv, HeardInv, Copies, [Next]_vars
  PROVE  SoundInv'
<1>1. CASE UNCHANGED vars
  <2>1. UNCHANGED <<family, file, sd, itlp, mem, counts, otg, otgInfo, pc, out>>
    BY <1>1 DEF vars
  <2>2. DatabasesInv'
    BY <2>1, DatabasesAside DEF SoundInv, DatabasesInv
  <2>3. NotesInv' /\ ProgramInv'
    BY <2>1 DEF SoundInv, NotesInv, ProgramInv, IsSqlite, Current
  <2> QED BY <2>2, <2>3 DEF SoundInv
<1>2. CASE DeviceNext \/ Parse \/ Free \/ Edit \/ Crash
  BY <1>2, SoundDevice, SoundParse, SoundFreeOrCrash, SoundEdit
<1>3. CASE WriteNext
  BY <1>3, SoundCopies, SoundRename, SoundDatabase, SoundTruncate DEF WriteNext
<1> QED BY <1>1, <1>2, <1>3 DEF Next

(* The rest of what the variables hold, at every step.                     *)
THEOREM SoundInvariant == Spec => []SoundInv
<1>1. Init => SoundInv
  BY SoundInit
<1>2. SoundInv /\ PlaysInv /\ HeardInv /\ Copies /\ [Next]_vars => SoundInv'
  BY SoundNext
<1> QED BY <1>1, <1>2, PlaysInvariant, HeardInvariant, CopiesInvariant, PTL DEF Spec

(* Whatever fails and wherever the iPod is unplugged, what is on it is     *)
(* well formed and itdb_parse() would find a database.                     *)
THEOREM SyncSoundCorrect == Spec => []SyncSound
<1>1. SoundInv /\ PlaysInv /\ HeardInv /\ Copies => TypeOK
  <2> SUFFICES ASSUME SoundInv, PlaysInv, HeardInv, Copies PROVE TypeOK
    OBVIOUS
  <2>1. DOMAIN file = {"iTunesDB", "iTunesCDB"}
    BY DEF Copies, FilesInv, Names
  <2>2. \A name \in {"iTunesDB", "iTunesCDB"} : Typed(file[name]) /\ WellFormed(file[name])
    BY DEF SoundInv, DatabasesInv, PlaysInv, TypesInv, Names
  <2>3. Typed(mem) /\ WellFormed(mem)
    BY DEF SoundInv, DatabasesInv, PlaysInv, TypesInv
  <2>4. IF IsShuffle THEN Distinct(sd) ELSE sd = <<>>
    BY DEF SoundInv, DatabasesInv, PlaysInv, TypesInv
  <2>5. /\ family \in Families /\ heard \in [Song -> Tag]
        /\ IF IsSqlite THEN itlp \subseteq Song ELSE itlp = {}
    BY DEF SoundInv, DatabasesInv, HeardInv
  <2>6. \A i \in DOMAIN counts.entries : counts.entries[i] \in Playcount
    BY DEF PlaysInv, TypesInv
  <2>7. /\ counts.state \in {"good", "none", "empty", "bad"}
        /\ otg \in Seq(Seq(Nat)) /\ otgInfo \in BOOLEAN
    BY DEF SoundInv, NotesInv
  <2>8. /\ pc \in WriteSteps \cup {"unplugged", "plugged", "open"}
        /\ out \in [write : {"none", "TRUE", "FALSE"}, error : BOOLEAN]
    BY DEF SoundInv, ProgramInv
  <2> QED BY <2>1, <2>2, <2>3, <2>4, <2>5, <2>6, <2>7, <2>8
          DEF TypeOK, Typed, WellFormed, Distinct
<1> QED BY <1>1, SoundInvariant, PlaysInvariant, HeardInvariant, CopiesInvariant,
           DatabaseReadableCorrect, PTL DEF SyncSound

(* With no entry to merge a track is shown as it is.                       *)
LEMMA NothingMerged ==
  ASSUME NEW db, Typed(db), ~IsSqlite, counts.entries = <<>>
  PROVE  \A s \in Songs(db.order) : MergedTags(db)[s] = db.tag[s]
<1>1. ASSUME NEW s \in Songs(db.order) PROVE MergedTags(db)[s] = db.tag[s]
  <2>1. s \in Song /\ db.tag[s] \in Tag
    BY SongsTyped DEF Typed, Distinct
  <2>2. PlaycountFor(PlaceOf(s, db.order), db) = NoPlaycount
    BY DEF PlaycountFor
  <2>3. MergedTags(db)[s] = MergePlaycount(db.tag[s], NoPlaycount)
    BY <2>1, <2>2 DEF MergedTags
  <2> QED BY <2>1, <2>3 DEF MergePlaycount, NoPlaycount, Tag
<1> QED BY <1>1

LEMMA NoOtgLists ==
  ASSUME ~otgInfo, otg \in Seq(Seq(Nat)), NEW order \in Seq(Song)
  PROVE  OtgLists(order) = <<>>
<1>1. Files = <<>>
  BY DEF Files
<1>2. OtgLists(order) =
        [i \in 1 .. Len(Files) |-> [j \in 1 .. Len(Files[i]) |-> order[Files[i][j]]]]
  BY <1>1, OtgListsTyped
<1> QED BY <1>1, <1>2

(* When itdb_write() returned TRUE, on all but the sqlite iPods parsing    *)
(* again gives the database in memory: no note is counted twice.           *)
THEOREM PositionsTakenAwayCorrect == Spec => []PositionsTakenAway
<1>1. SoundInv /\ PlaysInv => PositionsTakenAway
  <2>1. SUFFICES ASSUME SoundInv, PlaysInv, ~IsSqlite, pc = "open", out.write = "TRUE"
                 PROVE  /\ \A s \in Songs(mem.order) : MergedTags(Current)[s] = mem.tag[s]
                        /\ Shown.lists = mem.lists
    BY DEF PositionsTakenAway, NotesTakenAway
  <2>2. /\ Current = mem /\ counts.entries = <<>> /\ ~otgInfo
        /\ Typed(mem) /\ mem.order \in Seq(Song) /\ otg \in Seq(Seq(Nat))
        /\ mem.lists \in Seq(Seq(Songs(mem.order)))
    BY <2>1 DEF SoundInv, ProgramInv, NotesInv, DatabasesInv, WellFormed, PlaysInv, TypesInv,
                Typed, Distinct
  <2>3. \A s \in Songs(mem.order) : MergedTags(Current)[s] = mem.tag[s]
    BY <2>1, <2>2, NothingMerged
  <2>4. Shown.lists = mem.lists \o OtgLists(mem.order)
    BY <2>1, <2>2 DEF Shown, Database
  <2>5. OtgLists(mem.order) = <<>>
    BY <2>2, NoOtgLists
  <2> QED BY <2>2, <2>3, <2>4, <2>5
<1> QED BY <1>1, SoundInvariant, PlaysInvariant, PTL

-----------------------------------------------------------------------------
(* The ledger of the owner: with the steps that part saving from taking    *)
(* the notes away going well, what the files show changes the way the      *)
(* owner expects.                                                          *)

(* The choice of songs in db has what is shown of them, and nothing of the *)
(* songs that are not shown.                                               *)
ChosenFrom(shown, db) ==
  /\ \A s \in Songs(db.order) :
       db.tag[s] = IF s \in Songs(shown.order) THEN shown.tag[s] ELSE NewTag
  /\ db.lists = [i \in DOMAIN shown.lists |-> Only(shown.lists[i], Songs(db.order))]

OtgGood ==
  \A i \in 1 .. Len(otg) : \A j \in 1 .. Len(otg[i]) : otg[i][j] \in DOMAIN Current.order

ListsInv ==
  /\ otgInfo => ~IsShuffle
  /\ otgInfo /\ pc # "rename" => OtgGood
  /\ pc = "unplugged" /\ ~otgInfo => otg = <<>>

OrdersInv ==
  /\ IsShuffle /\ pc \notin {"sdRename", "database"} => sd = Current.order
  /\ IsShuffle /\ pc \in {"database", "rename"} => counts.entries = <<>>

ChoiceInv ==
  /\ \A s \in Song \ Songs(mem.order) : mem.tag[s] = NewTag
  /\ pc \notin {"unplugged", "plugged"} => ChosenFrom(Shown, mem)

LedgerInv == ListsInv /\ OrdersInv /\ ChoiceInv

SyncInv == SoundInv /\ PlaysInv /\ HeardInv /\ Copies

(* The steps at which itdb_write() has made the new database count.        *)
Saved == pc \in {"truncate", "rename"} \/ (IsShuffle /\ pc = "database")

LedgerStep == Ledger!LedgerNext \/ UNCHANGED Ledger!ledger

LEMMA LedgerKinds ==
  ASSUME NotesGoWithSaving, SyncInv
  PROVE  /\ ~IsSqlite /\ (family = "hard" <=> ~IsShuffle)
         /\ pc \notin {"sqlite", "truncate"}
         /\ ~IsShuffle => ~MayFault("rename")
         /\ IsShuffle => ~MayFault("sdRename") /\ ~MayFault("database")
<1>1. family \in {"hard", "shuffle2g", "shuffle"}
  BY SyncAssumption DEF SyncInv, SoundInv, DatabasesInv, NotesGoWithSaving, SyncAssumption,
     KnownFamilies
<1>2. ~IsSqlite /\ (family = "hard" <=> ~IsShuffle)
  BY <1>1 DEF IsSqlite, IsShuffle
<1>3. pc \notin {"sqlite", "truncate"}
  BY <1>2 DEF SyncInv, Copies, WrittenInv
<1>4. /\ <<"hard", "rename">> \in Parting
      /\ \A kind \in {"shuffle2g", "shuffle"}, step \in {"sdRename", "database"} :
           <<kind, step>> \in Parting
  BY DEF Parting
<1>5. \A fault \in Parting : fault \notin FaultAt
  BY DEF NotesGoWithSaving
<1>6. ~IsShuffle => ~MayFault("rename")
  BY <1>2, <1>4, <1>5 DEF MayFault
<1>7. IsShuffle => ~MayFault("sdRename") /\ ~MayFault("database")
  BY <1>4, <1>5 DEF MayFault, IsShuffle
<1> QED BY <1>2, <1>3, <1>6, <1>7

-----------------------------------------------------------------------------
(* What the files show.                                                    *)
LEMMA ShownNow ==
  ~Saved => /\ Shown.order = Current.order /\ Shown.tag = MergedTags(Current)
            /\ Shown.lists = Current.lists \o OtgLists(Current.order)
  BY DEF Saved, Shown, Database

LEMMA ShownNowNext ==
  (~Saved => /\ Shown.order = Current.order /\ Shown.tag = MergedTags(Current)
             /\ Shown.lists = Current.lists \o OtgLists(Current.order))'
  BY ShownNow, PTL

LEMMA ShownSaved ==
  Saved => Shown = mem
  BY DEF Saved, Shown

LEMMA ShownSavedNext ==
  (Saved => Shown = mem)'
  BY ShownSaved, PTL

(* The On-The-Go playlists are a matter of the files that are announced.   *)
ListsOf(files, order) ==
  LET good == {n \in 0 .. Len(files) :
                 \A i \in 1 .. n : i > 1 => ~OtgBad(files[i - 1], order)}
      read == CHOOSE n \in good : \A k \in good : k <= n
  IN [i \in 1 .. read |-> OtgMembers(files[i], order)]

LEMMA ListsOfFiles ==
  \A order : OtgLists(order) = ListsOf(Files, order)
  BY DEF OtgLists, ListsOf, Files

LEMMA ListsOfFilesNext ==
  (\A order : OtgLists(order) = ListsOf(Files, order))'
  BY ListsOfFiles, PTL

Alike(db, other) ==
  db.order = other.order /\ db.tag = other.tag /\ db.lists = other.lists

LEMMA ShownAside ==
  ASSUME UNCHANGED <<family, file, counts, Files>>, ~Saved, ~Saved'
  PROVE  Alike(Shown, Shown')
<1>1. Current' = Current /\ IsSqlite' = IsSqlite /\ IsShuffle' = IsShuffle
  BY DEF Current, IsSqlite, IsShuffle
<1>2. \A place, db : PlaycountFor(place, db)' = PlaycountFor(place, db)
  BY <1>1 DEF PlaycountFor, PlistEntry, ItunesstatsEntry
<1>3. MergedTags(Current)' = MergedTags(Current)
  BY <1>1, <1>2 DEF MergedTags
<1>4. \A order : OtgLists(order)' = OtgLists(order)
  BY ListsOfFiles, ListsOfFilesNext
<1> QED BY <1>1, <1>3, <1>4, ShownNow, ShownNowNext DEF Alike

LEMMA ShownTyped ==
  SyncInv => /\ Shown.order \in Seq(Song)
             /\ Shown.tag \in [Song -> Tag]
             /\ Shown.lists \in Seq(Seq(Songs(Shown.order)))
<1> SUFFICES ASSUME SyncInv
             PROVE  /\ Shown.order \in Seq(Song)
                    /\ Shown.tag \in [Song -> Tag]
                    /\ Shown.lists \in Seq(Seq(Songs(Shown.order)))
  OBVIOUS
<1>1. CASE Saved
  BY <1>1, ShownSaved DEF SyncInv, PlaysInv, TypesInv, Typed, Distinct, SoundInv,
     DatabasesInv, WellFormed
<1>2. CASE ~Saved
  <2>1. Typed(Current) /\ WellFormed(Current) /\ Current.order \in Seq(Song)
    BY CurrentTyped, CurrentWellFormed DEF SyncInv, PlaysInv, SoundInv, Typed, Distinct
  <2>2. MergedTags(Current) \in [Song -> Tag]
    BY <2>1, MergedTyped DEF SyncInv, PlaysInv
  <2>3. OtgLists(Current.order) \in Seq(Seq(Songs(Current.order)))
    BY <2>1, OtgListsTyped DEF SyncInv, SoundInv, NotesInv
  <2>4. Current.lists \in Seq(Seq(Songs(Current.order)))
    BY <2>1 DEF WellFormed
  <2>5. Current.lists \o OtgLists(Current.order) \in Seq(Seq(Songs(Current.order)))
    BY <2>3, <2>4
  <2> QED BY <1>2, <2>1, <2>2, <2>5, ShownNow
<1> QED BY <1>1, <1>2

(* With the notes taken away, what is shown is what the files have.        *)
NothingNoted ==
  /\ ~Saved /\ counts.entries = <<>> /\ ~otgInfo
  /\ \A s \in Song \ Songs(Current.order) : Current.tag[s] = NewTag

LEMMA ShownTaken ==
  SyncInv /\ ~IsSqlite /\ NothingNoted => Alike(Current, Shown)
<1> SUFFICES ASSUME SyncInv, ~IsSqlite, NothingNoted
             PROVE  Alike(Current, Shown)
  OBVIOUS
<1>1. /\ Typed(Current) /\ Current.order \in Seq(Song) /\ otg \in Seq(Seq(Nat))
      /\ Current.lists \in Seq(Seq(Songs(Current.order))) /\ Current.tag \in [Song -> Tag]
  BY CurrentTyped, CurrentWellFormed
     DEF SyncInv, SoundInv, NotesInv, WellFormed, PlaysInv, Typed, Distinct
<1>2. \A s \in Songs(Current.order) : MergedTags(Current)[s] = Current.tag[s]
  BY <1>1, NothingMerged DEF NothingNoted
<1>3. \A s \in Song \ Songs(Current.order) : MergedTags(Current)[s] = Current.tag[s]
  BY DEF MergedTags, NothingNoted
<1>4. MergedTags(Current) \in [Song -> Tag]
  BY <1>1, MergedTyped DEF SyncInv, PlaysInv
<1>5. MergedTags(Current) = Current.tag
  BY <1>1, <1>2, <1>3, <1>4
<1>6. OtgLists(Current.order) = <<>>
  BY <1>1, NoOtgLists DEF NothingNoted
<1>7. Current.lists \o <<>> = Current.lists
  BY <1>1
<1> QED BY <1>5, <1>6, <1>7, ShownNow DEF Alike, NothingNoted

LEMMA ShownTakenNext ==
  (SyncInv /\ ~IsSqlite /\ NothingNoted => Alike(Current, Shown))'
  BY ShownTaken, PTL

(* A choice is a choice of itself.                                         *)
LEMMA ChosenFromItself ==
  ASSUME NEW db, NEW other, Alike(db, other), db.lists \in Seq(Seq(Songs(db.order)))
  PROVE  ChosenFrom(db, other)
<1>1. ASSUME NEW i \in DOMAIN db.lists PROVE Only(db.lists[i], Songs(db.order)) = db.lists[i]
  <2>1. /\ db.lists[i] \in Seq(Songs(db.order))
        /\ \A j \in 1 .. Len(db.lists[i]) : db.lists[i][j] \in Songs(db.order)
    BY <1>1
  <2> QED BY <2>1, OnlyAll
<1>2. db.lists = [i \in DOMAIN db.lists |-> db.lists[i]]
  OBVIOUS
<1> QED BY <1>1, <1>2 DEF ChosenFrom, Alike

(* Nothing the owner could notice happened.                                *)
LEMMA Unnoticed ==
  ASSUME Alike(Shown, Shown'), UNCHANGED family
  PROVE  LedgerStep
<1>1. UNCHANGED <<Songs(Shown.order), Shown.lists>>
  BY DEF Alike, Songs
<1>2. UNCHANGED [s \in Song |-> Noticed(Shown.tag[s])]
  BY DEF Alike, Noticed, IsShuffle
<1> QED BY <1>1, <1>2 DEF LedgerStep, Ledger!ledger

(* Making the choice in memory count is the owner's Save.                  *)
LEMMA SaveNoticed ==
  ASSUME SyncInv, ChoiceInv, ChosenFrom(Shown, mem), Alike(mem, Shown'), UNCHANGED family
  PROVE  LedgerStep
<1> DEFINE songs == Songs(mem.order)
<1>1. songs \subseteq Song
  BY SongsTyped DEF SyncInv, PlaysInv, TypesInv, Typed, Distinct
<1>2. Songs(Shown.order)' = songs
  BY DEF Alike, Songs
<1>3. Shown.lists' = [i \in DOMAIN Shown.lists |-> Only(Shown.lists[i], songs)]
  BY DEF Alike, ChosenFrom
<1>4. Noticed(NewTag) = NewTag
  BY DEF Noticed, NewTag
<1>5. \A tag : Noticed(tag)' = Noticed(tag)
  BY DEF Noticed, IsShuffle
<1>6. ASSUME NEW s \in Song
      PROVE  (Noticed(Shown.tag[s]))' =
               IF s \in Songs(Shown.order) \cap songs THEN Noticed(Shown.tag[s]) ELSE NewTag
  <2>1. (Noticed(Shown.tag[s]))' = Noticed(mem.tag[s])
    BY <1>5 DEF Alike
  <2>2. CASE s \notin songs
    BY <2>1, <2>2, <1>4 DEF ChoiceInv
  <2>3. CASE s \in songs
    BY <2>1, <2>3, <1>4 DEF ChosenFrom
  <2> QED BY <2>2, <2>3
<1>7. [s \in Song |-> Noticed(Shown.tag[s])]' =
        [s \in Song |-> IF s \in Songs(Shown.order) \cap songs
                        THEN [t \in Song |-> Noticed(Shown.tag[t])][s] ELSE NewTag]
  BY <1>6
<1> HIDE DEF songs
<1>8. Ledger!Save(songs)
  <2>1. Ledger!Blank = NewTag
    BY DEF Ledger!Blank, NewTag
  <2>2. \A list : Ledger!Only(list, songs) = Only(list, songs)
    BY DEF Ledger!Only, Only
  <2> QED BY <1>2, <1>3, <1>7, <2>1, <2>2 DEF Ledger!Save
<1> QED BY <1>1, <1>8 DEF LedgerStep, Ledger!LedgerNext

-----------------------------------------------------------------------------
(* What the iPod notes.  The entry it has or would make for a track says   *)
(* what is shown of it.                                                    *)
EntryOf(t) ==
  LET place == PlaceOf(t, Current.order)
  IN IF place \in DOMAIN counts.entries THEN counts.entries[place]
     ELSE [NoPlaycount EXCEPT !.rating = Current.tag[t].rating]

Shows(entry, tag) ==
  Noticed(MergePlaycount(tag, IF IsShuffle THEN ItunesstatsEntry(entry) ELSE entry))

LEMMA ShowsFields ==
  ASSUME NEW entry \in Playcount, NEW tag \in Tag
  PROVE  Shows(entry, tag) =
           IF IsShuffle THEN [plays |-> tag.plays + entry.plays, skips |-> 0, rating |-> 0]
           ELSE [plays |-> tag.plays + entry.plays, skips |-> tag.skips + entry.skips,
                 rating |-> IF entry.rating = NO_PLAYCOUNT THEN tag.rating
                            ELSE entry.rating]
  BY DEF Shows, Noticed, MergePlaycount, ItunesstatsEntry, NewTag

LEMMA NoticedNow ==
  SyncInv /\ ~IsSqlite =>
    \A t \in Songs(Current.order) :
      /\ EntryOf(t) \in Playcount
      /\ Noticed(MergedTags(Current)[t]) = Shows(EntryOf(t), Current.tag[t])
<1> SUFFICES ASSUME SyncInv, ~IsSqlite, NEW t \in Songs(Current.order)
             PROVE  /\ EntryOf(t) \in Playcount
                    /\ Noticed(MergedTags(Current)[t]) = Shows(EntryOf(t), Current.tag[t])
  OBVIOUS
<1> DEFINE place == PlaceOf(t, Current.order)
           quiet == [NoPlaycount EXCEPT !.rating = Current.tag[t].rating]
           merged == PlaycountFor(place, Current)
<1>1. /\ t \in Song /\ Current.tag[t] \in Tag
      /\ \A i \in DOMAIN counts.entries : counts.entries[i] \in Playcount
  BY CurrentTyped, SongsTyped DEF SyncInv, PlaysInv, TypesInv, Typed, Distinct
<1>2. quiet \in Playcount /\ quiet.plays = 0 /\ quiet.skips = 0
      /\ quiet.rating = Current.tag[t].rating
  BY <1>1 DEF NoPlaycount, Playcount, Tag
<1>3. EntryOf(t) = IF place \in DOMAIN counts.entries THEN counts.entries[place] ELSE quiet
  BY DEF EntryOf
<1>4. merged = IF place \in DOMAIN counts.entries
               THEN IF IsShuffle THEN ItunesstatsEntry(counts.entries[place])
                    ELSE counts.entries[place]
               ELSE NoPlaycount
  BY DEF PlaycountFor
<1>5. MergedTags(Current)[t] = MergePlaycount(Current.tag[t], merged)
  BY <1>1 DEF MergedTags
<1> HIDE DEF place, quiet, merged
<1>6. EntryOf(t) \in Playcount
  BY <1>1, <1>2, <1>3
<1>7. CASE place \in DOMAIN counts.entries
  BY <1>3, <1>4, <1>5, <1>6, <1>7 DEF Shows
<1>8. CASE place \notin DOMAIN counts.entries
  <2>1. MergedTags(Current)[t] = Current.tag[t]
    BY <1>1, <1>4, <1>5, <1>8 DEF MergePlaycount, NoPlaycount, Tag
  <2>2. Noticed(Current.tag[t]) = Shows(quiet, Current.tag[t])
    BY <1>1, <1>2, ShowsFields DEF Noticed, NewTag, Tag, NO_PLAYCOUNT, Stars
  <2> QED BY <1>3, <1>6, <1>8, <2>1, <2>2
<1> QED BY <1>7, <1>8, <1>6

LEMMA NoticedNowNext ==
  (SyncInv /\ ~IsSqlite =>
    \A t \in Songs(Current.order) :
      /\ EntryOf(t) \in Playcount
      /\ Noticed(MergedTags(Current)[t]) = Shows(EntryOf(t), Current.tag[t]))'
  BY NoticedNow, PTL

LEMMA EntryNoted ==
  ASSUME ~IsSqlite, DeviceOrder = Current.order, NEW s \in Songs(Current.order),
         NEW entry, NEW did, Note(s, entry, did)
  PROVE  /\ Noted(s) = EntryOf(s)
         /\ \A t \in Songs(Current.order) :
              EntryOf(t)' = IF t = s THEN entry ELSE EntryOf(t)
<1> DEFINE place(t) == PlaceOf(t, Current.order)
<1>1. \A t \in Songs(Current.order) : place(t) \in DOMAIN Current.order
                                      /\ Current.order[place(t)] = t
  BY PlaceFound
<1>2. KeyOf(s) = place(s) /\ Current' = Current
  BY DEF KeyOf, Note, Current
<1>3. EntriesFor(s) =
        [key \in DOMAIN counts.entries \cup DOMAIN Current.order |->
           IF key \in DOMAIN counts.entries THEN counts.entries[key]
           ELSE [NoPlaycount EXCEPT !.rating = Current.tag[Current.order[key]].rating]]
  BY DEF EntriesFor
<1>4. counts'.entries = [EntriesFor(s) EXCEPT ![place(s)] = entry]
  BY <1>2 DEF Note
<1>5. \A t \in Songs(Current.order) :
        place(t) \in DOMAIN EntriesFor(s) /\ EntriesFor(s)[place(t)] = EntryOf(t)
  BY <1>1, <1>3 DEF EntryOf
<1>6. Noted(s) = EntryOf(s)
  BY <1>2, <1>5 DEF Noted
<1>7. ASSUME NEW t \in Songs(Current.order)
      PROVE  EntryOf(t)' = IF t = s THEN entry ELSE EntryOf(t)
  <2>1. place(t) = place(s) => t = s
    BY <1>1
  <2>2. place(t) \in DOMAIN counts'.entries
        /\ counts'.entries[place(t)] = IF t = s THEN entry ELSE EntryOf(t)
    BY <1>4, <1>5, <2>1
  <2>3. EntryOf(t)' = counts'.entries[place(t)]
    BY <1>2, <2>2 DEF EntryOf
  <2> QED BY <2>2, <2>3
<1> QED BY <1>6, <1>7

(* A note about a track changes what is shown of it, and nothing else.     *)
LEMMA NoteNoticed ==
  ASSUME NotesGoWithSaving, SyncInv, SyncInv', LedgerInv, NEW s \in Song, InUse(s),
         NEW entry, NEW did, Note(s, entry, did)
  PROVE  /\ LedgerInv' /\ s \in Songs(Shown.order) /\ Current.tag[s] \in Tag
         /\ Noted(s) \in Playcount /\ entry \in Playcount
         /\ UNCHANGED <<Songs(Shown.order), Shown.lists>>
         /\ [t \in Song |-> Noticed(Shown.tag[t])][s] = Shows(Noted(s), Current.tag[s])
         /\ [t \in Song |-> Noticed(Shown.tag[t])]' =
              [[t \in Song |-> Noticed(Shown.tag[t])] EXCEPT ![s] = Shows(entry, Current.tag[s])]
<1>1. /\ pc = "unplugged" /\ pc' = "unplugged" /\ ~Saved /\ ~Saved'
      /\ UNCHANGED <<family, file, sd, mem, otg, otgInfo>> /\ Current' = Current
      /\ IsShuffle' = IsShuffle /\ IsSqlite' = IsSqlite
  BY DEF Saved, InUse, Note, UnchangedHost, Current, IsShuffle, IsSqlite
<1>2. ~IsSqlite /\ DeviceOrder = Current.order /\ s \in Songs(Current.order)
  BY <1>1, LedgerKinds DEF LedgerInv, OrdersInv, DeviceOrder, InUse, DeviceSongs
<1>3. LedgerInv'
  <2>1. OtgGood' = OtgGood
    BY <1>1 DEF OtgGood
  <2>2. ListsInv' /\ OrdersInv'
    BY <1>1, <2>1 DEF LedgerInv, ListsInv, OrdersInv
  <2>3. ChoiceInv'
    BY <1>1 DEF LedgerInv, ChoiceInv, Songs
  <2> QED BY <2>2, <2>3 DEF LedgerInv
<1>4. Shown.order' = Shown.order /\ Shown.order = Current.order
  BY <1>1, ShownNow, ShownNowNext
<1>5. Shown.lists' = Shown.lists
  <2>1. OtgLists(Current.order)' = OtgLists(Current.order)
    BY <1>1, ListsOfFiles, ListsOfFilesNext DEF Files
  <2> QED BY <1>1, <2>1, ShownNow, ShownNowNext
<1>6. Shown.tag = MergedTags(Current) /\ Shown.tag' = MergedTags(Current)'
  BY <1>1, ShownNow, ShownNowNext
<1>7. \A tag : Noticed(tag)' = Noticed(tag)
  BY <1>1 DEF Noticed
<1>8. \A e, tag : Shows(e, tag)' = Shows(e, tag)
  BY <1>1 DEF Shows, Noticed, ItunesstatsEntry
<1>9. ASSUME NEW t \in Songs(Current.order)
      PROVE  /\ Noticed(Shown.tag[t]) = Shows(EntryOf(t), Current.tag[t])
             /\ (Noticed(Shown.tag[t]))' =
                  Shows(IF t = s THEN entry ELSE EntryOf(t), Current.tag[t])
  <2>1. Noticed(Shown.tag[t]) = Shows(EntryOf(t), Current.tag[t])
    BY <1>2, <1>6, NoticedNow
  <2>2. Noticed(MergedTags(Current)[t])' = Shows(EntryOf(t), Current.tag[t])'
    BY <1>1, <1>2, NoticedNowNext
  <2>3. Shows(EntryOf(t), Current.tag[t])' = Shows(EntryOf(t)', Current.tag[t])
    BY <1>1, <1>8
  <2>4. EntryOf(t)' = IF t = s THEN entry ELSE EntryOf(t)
    BY <1>2, EntryNoted
  <2>5. (Noticed(Shown.tag[t]))' = Noticed(MergedTags(Current)[t])'
    BY <1>6
  <2> QED BY <2>1, <2>2, <2>3, <2>4, <2>5
<1>10. ASSUME NEW t \in Song \ Songs(Current.order)
       PROVE  (Noticed(Shown.tag[t]))' = Noticed(Shown.tag[t])
  <2>1. MergedTags(Current)[t] = NewTag /\ (MergedTags(Current)[t])' = NewTag
    BY <1>1 DEF MergedTags
  <2> QED BY <1>6, <1>7, <2>1
<1>11. Noted(s) = EntryOf(s) /\ EntryOf(s) \in Playcount /\ Current.tag[s] \in Tag
  BY <1>2, EntryNoted, NoticedNow, CurrentTyped DEF SyncInv, PlaysInv, Typed
<1>12. entry \in Playcount
  <2>1. EntryOf(s)' \in Playcount
    BY <1>1, <1>2, NoticedNowNext
  <2> QED BY <1>2, <2>1, EntryNoted
<1> DEFINE notes == [t \in Song |-> Noticed(Shown.tag[t])]
<1>13. notes' = [notes EXCEPT ![s] = Shows(entry, Current.tag[s])]
  BY <1>2, <1>9, <1>10
<1>14. notes[s] = Shows(Noted(s), Current.tag[s])
  BY <1>2, <1>9, <1>11
<1>15. UNCHANGED <<Songs(Shown.order), Shown.lists>>
  BY <1>4, <1>5 DEF Songs
<1> QED BY <1>2, <1>3, <1>4, <1>11, <1>12, <1>13, <1>14, <1>15

LEMMA LedgerPlay ==
  ASSUME NotesGoWithSaving, SyncInv, SyncInv', LedgerInv, NEW s \in Song, DevicePlay(s)
  PROVE  LedgerInv' /\ LedgerStep
<1> DEFINE entry == [Noted(s) EXCEPT !.plays = @ + 1]
           notes == [t \in Song |-> Noticed(Shown.tag[t])]
<1>1. InUse(s) /\ Note(s, entry, [heard[s] EXCEPT !.plays = @ + 1])
  BY DEF DevicePlay
<1> HIDE DEF entry
<1>2. /\ LedgerInv' /\ s \in Songs(Shown.order) /\ Current.tag[s] \in Tag
      /\ Noted(s) \in Playcount /\ entry \in Playcount
      /\ UNCHANGED <<Songs(Shown.order), Shown.lists>>
      /\ notes[s] = Shows(Noted(s), Current.tag[s])
      /\ notes' = [notes EXCEPT ![s] = Shows(entry, Current.tag[s])]
  BY <1>1, NoteNoticed
<1>3. /\ entry.plays = Noted(s).plays + 1 /\ entry.skips = Noted(s).skips
      /\ entry.rating = Noted(s).rating
  BY <1>2 DEF entry, Playcount
<1>4. Shows(entry, Current.tag[s]) = [Shows(Noted(s), Current.tag[s]) EXCEPT !.plays = @ + 1]
  <2>1. Current.tag[s].plays + entry.plays = (Current.tag[s].plays + Noted(s).plays) + 1
    BY <1>2, <1>3 DEF Tag, Playcount
  <2>2. CASE IsShuffle
    BY <1>2, <2>1, <2>2, ShowsFields
  <2>3. CASE ~IsShuffle
    BY <1>2, <1>3, <2>1, <2>3, ShowsFields
  <2> QED BY <2>2, <2>3
<1>5. notes' = [notes EXCEPT ![s].plays = @ + 1]
  <2> HIDE DEF notes
  <2> QED BY <1>2, <1>4
<1>6. Ledger!Listen(s)
  BY <1>2, <1>5 DEF Ledger!Listen
<1> QED BY <1>2, <1>6 DEF LedgerStep, Ledger!LedgerNext

(* The Shuffles have no place to note a skip.                              *)
LEMMA LedgerSkip ==
  ASSUME NotesGoWithSaving, SyncInv, SyncInv', LedgerInv, NEW s \in Song, DeviceSkip(s)
  PROVE  LedgerInv' /\ LedgerStep
<1> DEFINE entry == [Noted(s) EXCEPT !.skips = @ + 1]
           notes == [t \in Song |-> Noticed(Shown.tag[t])]
<1>1. InUse(s) /\ Note(s, entry, [heard[s] EXCEPT !.skips = @ + 1])
  BY DEF DeviceSkip
<1> HIDE DEF entry
<1>2. /\ LedgerInv' /\ s \in Songs(Shown.order) /\ Current.tag[s] \in Tag
      /\ Noted(s) \in Playcount /\ entry \in Playcount
      /\ UNCHANGED <<Songs(Shown.order), Shown.lists>>
      /\ notes[s] = Shows(Noted(s), Current.tag[s])
      /\ notes' = [notes EXCEPT ![s] = Shows(entry, Current.tag[s])]
  BY <1>1, NoteNoticed
<1>3. /\ entry.plays = Noted(s).plays /\ entry.skips = Noted(s).skips + 1
      /\ entry.rating = Noted(s).rating
  BY <1>2 DEF entry, Playcount
<1>4. CASE IsShuffle
  <2>1. Shows(entry, Current.tag[s]) = Shows(Noted(s), Current.tag[s])
    BY <1>2, <1>3, <1>4, ShowsFields
  <2>2. notes' = notes
    BY <1>2, <2>1
  <2> QED BY <1>2, <2>2 DEF LedgerStep, Ledger!ledger
<1>5. CASE ~IsShuffle
  <2>1. Shows(entry, Current.tag[s]) =
          [Shows(Noted(s), Current.tag[s]) EXCEPT !.skips = @ + 1]
    <3>1. Current.tag[s].skips + entry.skips = (Current.tag[s].skips + Noted(s).skips) + 1
      BY <1>2, <1>3 DEF Tag, Playcount
    <3> QED BY <1>2, <1>3, <1>5, <3>1, ShowsFields
  <2>2. notes' = [notes EXCEPT ![s].skips = @ + 1]
    <3> HIDE DEF notes
    <3> QED BY <1>2, <2>1
  <2>3. Ledger!Skip(s)
    BY <1>2, <2>2 DEF Ledger!Skip
  <2> QED BY <1>2, <2>3 DEF LedgerStep, Ledger!LedgerNext
<1> QED BY <1>4, <1>5

LEMMA LedgerRate ==
  ASSUME NotesGoWithSaving, SyncInv, SyncInv', LedgerInv, NEW s \in Song,
         NEW stars \in Stars, DeviceRate(s, stars)
  PROVE  LedgerInv' /\ LedgerStep
<1> DEFINE entry == [Noted(s) EXCEPT !.rating = stars]
           notes == [t \in Song |-> Noticed(Shown.tag[t])]
<1>1. InUse(s) /\ ~IsShuffle /\ Note(s, entry, [heard[s] EXCEPT !.rating = stars])
  BY DEF DeviceRate
<1> HIDE DEF entry
<1>2. /\ LedgerInv' /\ s \in Songs(Shown.order) /\ Current.tag[s] \in Tag
      /\ Noted(s) \in Playcount /\ entry \in Playcount
      /\ UNCHANGED <<Songs(Shown.order), Shown.lists>>
      /\ notes[s] = Shows(Noted(s), Current.tag[s])
      /\ notes' = [notes EXCEPT ![s] = Shows(entry, Current.tag[s])]
  BY <1>1, NoteNoticed
<1>3. /\ entry.plays = Noted(s).plays /\ entry.skips = Noted(s).skips
      /\ entry.rating = stars /\ stars # NO_PLAYCOUNT
  BY <1>2, SyncAssumption DEF entry, Playcount, Stars, NO_PLAYCOUNT, SyncAssumption
<1>4. Shows(entry, Current.tag[s]) = [Shows(Noted(s), Current.tag[s]) EXCEPT !.rating = stars]
  BY <1>1, <1>2, <1>3, ShowsFields
<1>5. notes' = [notes EXCEPT ![s].rating = stars]
  <2> HIDE DEF notes
  <2> QED BY <1>2, <1>4
<1>6. Ledger!Rate(s, stars)
  BY <1>2, <1>5 DEF Ledger!Rate
<1> QED BY <1>2, <1>6 DEF LedgerStep, Ledger!LedgerNext

LEMMA OtgListsNext ==
  (otg \in Seq(Seq(Nat)) => \A order \in Seq(Song) :
     /\ OtgLists(order) \in Seq(Seq(Songs(order)))
     /\ (\A i \in 1 .. Len(Files) :
           \A j \in 1 .. Len(Files[i]) : Files[i][j] \in DOMAIN order) =>
          OtgLists(order) =
            [i \in 1 .. Len(Files) |->
               [j \in 1 .. Len(Files[i]) |-> order[Files[i][j]]]])'
  BY OtgListsTyped, PTL

(* A playlist of one song at the end of those there are.                   *)
LEMMA PlacesAppend ==
  ASSUME NEW files \in Seq(Seq(Nat)), NEW place, NEW order
  PROVE  LET more == Append(files, <<place>>)
         IN [i \in 1 .. Len(more) |-> [j \in 1 .. Len(more[i]) |-> order[more[i][j]]]] =
            Append([i \in 1 .. Len(files) |-> [j \in 1 .. Len(files[i]) |-> order[files[i][j]]]],
                   <<order[place]>>)
<1> DEFINE more == Append(files, <<place>>)
           one(file_) == [j \in 1 .. Len(file_) |-> order[file_[j]]]
           read == [i \in 1 .. Len(files) |-> one(files[i])]
<1>1. /\ Len(more) = Len(files) + 1 /\ Len(files) \in Nat /\ more[Len(files) + 1] = <<place>>
      /\ \A i \in 1 .. Len(files) : more[i] = files[i]
  OBVIOUS
<1>2. one(<<place>>) = <<order[place]>>
  OBVIOUS
<1> HIDE DEF more, one
<1>3. Len(read) = Len(files) /\ DOMAIN read = 1 .. Len(files)
  BY <1>1
<1>4. Append(read, <<order[place]>>) =
        [i \in 1 .. Len(files) + 1 |-> IF i = Len(files) + 1 THEN <<order[place]>> ELSE read[i]]
  BY <1>1, <1>3 DEF Append
<1>5. [i \in 1 .. Len(more) |-> one(more[i])] = Append(read, <<order[place]>>)
  <2>1. ASSUME NEW i \in 1 .. Len(files) + 1
        PROVE  one(more[i]) = IF i = Len(files) + 1 THEN <<order[place]>> ELSE read[i]
    BY <1>1, <1>2
  <2> HIDE DEF read
  <2> QED BY <1>1, <1>4, <2>1
<1> QED BY <1>5 DEF more, one

LEMMA ConcatAppend ==
  ASSUME NEW S, NEW front \in Seq(S), NEW list \in Seq(S), NEW x \in S
  PROVE  front \o Append(list, x) = Append(front \o list, x)
  OBVIOUS

LEMMA LedgerMakeOtg ==
  ASSUME NotesGoWithSaving, SyncInv, SyncInv', LedgerInv, NEW s \in Song, DeviceMakeOtg(s)
  PROVE  LedgerInv' /\ LedgerStep
<1> DEFINE place == PlaceOf(s, Current.order)
<1>1. /\ pc = "unplugged" /\ pc' = "unplugged" /\ ~Saved /\ ~Saved' /\ ~IsShuffle /\ ~IsSqlite
      /\ UNCHANGED <<family, file, sd, mem, counts>> /\ Current' = Current
      /\ IsShuffle' = IsShuffle /\ IsSqlite' = IsSqlite /\ otgInfo'
  BY DEF Saved, DeviceMakeOtg, UnchangedHost, UnchangedDatabase, Current, IsShuffle, IsSqlite
<1>2. /\ s \in Songs(Current.order) /\ otg' = Append(otg, <<place>>)
      /\ place \in DOMAIN Current.order /\ Current.order[place] = s
  <2>1. DeviceOrder = Current.order /\ s \in Songs(Current.order)
    BY <1>1 DEF DeviceMakeOtg, DeviceOrder, DeviceSongs
  <2> QED BY <2>1, PlaceFound DEF DeviceMakeOtg
<1>3. Current.order \in Seq(Song) /\ otg \in Seq(Seq(Nat))
  BY CurrentTyped DEF SyncInv, PlaysInv, Typed, Distinct, SoundInv, NotesInv
<1>4. Files = otg /\ Files' = otg' /\ OtgGood
  BY <1>1 DEF LedgerInv, ListsInv, Files, OtgGood
<1>5. OtgGood'
  <2>1. /\ Len(otg') = Len(otg) + 1 /\ Len(otg) \in Nat /\ otg'[Len(otg) + 1] = <<place>>
        /\ \A i \in 1 .. Len(otg) : otg'[i] = otg[i]
    BY <1>2, <1>3
  <2>2. Len(<<place>>) = 1 /\ <<place>>[1] = place
    OBVIOUS
  <2> QED BY <1>1, <1>2, <1>4, <2>1, <2>2 DEF OtgGood
<1>6. LedgerInv'
  BY <1>1, <1>5 DEF LedgerInv, ListsInv, OrdersInv, ChoiceInv, Songs
<1>7. OtgLists(Current.order)' = Append(OtgLists(Current.order), <<s>>)
  <2>1. OtgLists(Current.order) =
          [i \in 1 .. Len(otg) |-> [j \in 1 .. Len(otg[i]) |-> Current.order[otg[i][j]]]]
    BY <1>3, <1>4, OtgListsTyped DEF OtgGood
  <2>2. OtgLists(Current.order)' =
          [i \in 1 .. Len(otg') |-> [j \in 1 .. Len(otg'[i]) |-> Current.order[otg'[i][j]]]]
    BY <1>1, <1>3, <1>4, <1>5, OtgListsNext DEF OtgGood, SyncInv, SoundInv, NotesInv
  <2> DEFINE more == Append(otg, <<place>>)
  <2>3. [i \in 1 .. Len(more) |-> [j \in 1 .. Len(more[i]) |-> Current.order[more[i][j]]]] =
          Append([i \in 1 .. Len(otg) |-> [j \in 1 .. Len(otg[i]) |-> Current.order[otg[i][j]]]],
                 <<Current.order[place]>>)
    <3> HIDE DEF place
    <3> QED BY <1>3, PlacesAppend
  <2>4. otg' = more /\ Current.order[place] = s
    BY <1>2
  <2> HIDE DEF more, place
  <2> QED BY <2>1, <2>2, <2>3, <2>4
<1>8. Shown.order' = Shown.order /\ Shown.order = Current.order /\ Shown.tag' = Shown.tag
  <2>1. MergedTags(Current)' = MergedTags(Current)
    BY <1>1 DEF MergedTags, PlaycountFor, PlistEntry, ItunesstatsEntry
  <2> QED BY <1>1, <2>1, ShownNow, ShownNowNext
<1>9. Shown.lists' = Append(Shown.lists, <<s>>)
  <2>1. /\ Shown.lists = Current.lists \o OtgLists(Current.order)
        /\ Shown.lists' = Current.lists \o Append(OtgLists(Current.order), <<s>>)
    BY <1>1, <1>7, ShownNow, ShownNowNext
  <2>2. /\ Current.lists \in Seq(Seq(Songs(Current.order)))
        /\ OtgLists(Current.order) \in Seq(Seq(Songs(Current.order)))
    BY <1>3, CurrentWellFormed, OtgListsTyped DEF SyncInv, SoundInv, WellFormed
  <2>3. <<s>> \in Seq(Songs(Current.order))
    BY <1>2
  <2> DEFINE S == Seq(Songs(Current.order))
             front == Current.lists
             list == OtgLists(Current.order)
             last == <<s>>
  <2>4. front \in Seq(S) /\ list \in Seq(S) /\ last \in S
    BY <2>2, <2>3
  <2> HIDE DEF S, front, list, last
  <2>5. front \o Append(list, last) = Append(front \o list, last)
    BY <2>4, ConcatAppend
  <2> QED BY <2>1, <2>5 DEF front, list, last
<1>10. UNCHANGED [t \in Song |-> Noticed(Shown.tag[t])]
  BY <1>1, <1>8 DEF Noticed
<1>11. Ledger!MakeList(s)
  BY <1>2, <1>8, <1>9, <1>10 DEF Ledger!MakeList, Songs
<1> QED BY <1>6, <1>11 DEF LedgerStep, Ledger!LedgerNext

-----------------------------------------------------------------------------
(* The steps that only bring the iPod and the application together.        *)
LEMMA LedgerAside ==
  ASSUME LedgerInv, UNCHANGED <<family, file, counts, Files>>, Alike(Shown, Shown'),
         ListsInv', OrdersInv',
         \A s \in Song \ Songs(mem'.order) : mem'.tag[s] = NewTag,
         pc' \notin {"unplugged", "plugged"} => ChosenFrom(Shown, mem')
  PROVE  LedgerInv' /\ LedgerStep
<1>1. (\A s \in Song \ Songs(mem.order) : mem.tag[s] = NewTag)'
  BY DEF Songs
<1>2. ChosenFrom(Shown, mem') => ChosenFrom(Shown, mem)'
  BY DEF ChosenFrom, Alike, Songs
<1>3. ChoiceInv'
  BY <1>1, <1>2 DEF ChoiceInv
<1> QED BY <1>3, Unnoticed DEF LedgerInv

LEMMA LedgerPlug ==
  ASSUME NotesGoWithSaving, SyncInv, LedgerInv, Plug \/ Unplug \/ Free
  PROVE  LedgerInv' /\ LedgerStep
<1> USE DEF Plug, Unplug, Free, UnchangedNotes, UnchangedDatabase, UnchangedHost
<1>1. /\ UNCHANGED <<family, file, sd, counts, otgInfo, Files>> /\ ~Saved /\ ~Saved'
      /\ pc' \in {"unplugged", "plugged"} /\ Current' = Current /\ IsShuffle' = IsShuffle
      /\ otg' = otg \/ (otg' = <<>> /\ ~otgInfo)
      /\ pc' = "unplugged" /\ ~otgInfo => otg' = <<>>
      /\ pc \notin {"sdRename", "database", "rename"}
  BY DEF Files, Saved, Current, IsShuffle
<1>2. Alike(Shown, Shown')
  BY <1>1, ShownAside
<1>3. ListsInv'
  BY <1>1 DEF LedgerInv, ListsInv, OtgGood
<1>4. OrdersInv'
  BY <1>1 DEF LedgerInv, OrdersInv
<1>5. \A s \in Song \ Songs(mem'.order) : mem'.tag[s] = NewTag
  BY DEF LedgerInv, ChoiceInv, NoDatabase, Songs
<1> QED BY <1>1, <1>2, <1>3, <1>4, <1>5, LedgerAside

(* Parsing gives what the files show.                                      *)
LEMMA LedgerParse ==
  ASSUME NotesGoWithSaving, SyncInv, LedgerInv, Parse
  PROVE  LedgerInv' /\ LedgerStep
<1>1. /\ UNCHANGED <<family, file, sd, counts, otg, otgInfo, Files>> /\ ~Saved /\ ~Saved'
      /\ pc' \in {"plugged", "open"} /\ Current' = Current /\ IsShuffle' = IsShuffle
      /\ pc = "plugged"
  BY DEF Parse, UnchangedNotes, UnchangedDatabase, Files, Saved, Current, IsShuffle
<1>2. Alike(Shown, Shown')
  BY <1>1, ShownAside
<1>3. ListsInv' /\ OrdersInv'
  BY <1>1 DEF LedgerInv, ListsInv, OtgGood, OrdersInv
<1>4. CASE UNCHANGED <<mem, pc>>
  BY <1>1, <1>2, <1>3, <1>4, LedgerAside DEF LedgerInv, ChoiceInv
<1>5. CASE mem' = Database(Current.order, MergedTags(Current),
                           Current.lists \o OtgLists(Current.order))
  <2>1. Alike(Shown, mem')
    BY <1>1, <1>5, ShownNow DEF Alike, Database
  <2>2. Shown.lists \in Seq(Seq(Songs(Shown.order)))
    BY ShownTyped
  <2>3. ChosenFrom(Shown, mem')
    BY <2>1, <2>2, ChosenFromItself
  <2>4. \A s \in Song \ Songs(mem'.order) : mem'.tag[s] = NewTag
    BY <1>5 DEF Database, MergedTags
  <2> QED BY <1>1, <1>2, <1>3, <2>3, <2>4, LedgerAside
<1> QED BY <1>4, <1>5 DEF Parse

LEMMA SongsAppend ==
  ASSUME NEW order \in Seq(Song), NEW s \in Song
  PROVE  Songs(Append(order, s)) = Songs(order) \cup {s}
<1> DEFINE more == Append(order, s)
<1>1. /\ DOMAIN order = 1 .. Len(order) /\ Len(order) \in Nat
      /\ DOMAIN more = 1 .. Len(order) + 1
      /\ more[Len(order) + 1] = s /\ \A i \in 1 .. Len(order) : more[i] = order[i]
  OBVIOUS
<1> HIDE DEF more
<1>2. Songs(more) = Songs(order) \cup {s}
  BY <1>1 DEF Songs
<1> QED BY <1>2 DEF more

LEMMA SongsRemove ==
  ASSUME NEW order \in Seq(Song), IsInjective(order), NEW s
  PROVE  /\ GListRemove(order, s) \in Seq(Song)
         /\ Songs(GListRemove(order, s)) = Songs(order) \ {s}
<1> DEFINE rest == GListRemove(order, s)
<1>1. /\ rest \in Seq(Song) /\ ~Listed(s, rest)
      /\ \A t : /\ Listed(t, rest) => Listed(t, order)
                /\ t # s /\ Listed(t, order) => Listed(t, rest)
  BY RemoveListed, RemoveInjective
<1>2. \A list, t : Listed(t, list) <=> t \in Songs(list)
  BY DEF Listed, Songs
<1> HIDE DEF rest
<1>3. Songs(rest) = Songs(order) \ {s}
  BY <1>1, <1>2
<1> QED BY <1>1, <1>3 DEF rest

LEMMA SongsFront ==
  ASSUME NEW rest \in Seq(Song), NEW s \in Song
  PROVE  Songs(<<s>> \o rest) = Songs(rest) \cup {s}
<1> DEFINE all == <<s>> \o rest
<1>1. /\ DOMAIN rest = 1 .. Len(rest) /\ Len(rest) \in Nat
      /\ DOMAIN all = 1 .. Len(rest) + 1 /\ all[1] = s
      /\ \A i \in 1 .. Len(rest) : i + 1 \in 1 .. Len(rest) + 1 /\ all[i + 1] = rest[i]
      /\ \A i \in 1 .. Len(rest) + 1 : i = 1 \/ (i - 1 \in 1 .. Len(rest) /\ all[i] = rest[i - 1])
  OBVIOUS
<1> HIDE DEF all
<1>2. Songs(rest) \subseteq Songs(all)
  BY <1>1 DEF Songs
<1>4. s \in Songs(all)
  BY <1>1 DEF Songs
<1>3. ASSUME NEW t \in Songs(all), t # s PROVE t \in Songs(rest)
  <2>1. PICK i \in 1 .. Len(rest) + 1 : all[i] = t
    BY <1>1 DEF Songs
  <2>2. i - 1 \in DOMAIN rest /\ rest[i - 1] = t
    BY <1>1, <1>3, <2>1
  <2> QED BY <2>2 DEF Songs
<1> QED BY <1>2, <1>3, <1>4 DEF all

(* Taking a song out of each list of a choice gives the lists of the       *)
(* smaller choice.                                                         *)
LEMMA OnlyWithout ==
  ASSUME NEW list \in Seq(Song), NEW songs, NEW s
  PROVE  Without(Only(list, songs), {s}) = Only(list, songs \ {s})
<1> DEFINE some == Only(list, songs)
           rest == ToSet(some) \ {s}
<1>1. some \in Seq(Song) /\ \A y : Listed(y, some) <=> Listed(y, list) /\ y \in songs
  BY OnlyElements
<1>2. \A y : Listed(y, some) <=> y \in ToSet(some)
  BY DEF Listed, ToSet
<1>3. Without(some, {s}) = Only(some, rest)
  BY DEF Without
<1>4. Only(some, rest) = Only(list, songs \cap rest)
  <2> HIDE DEF rest
  <2> QED BY OnlyOnly
<1>5. \A i \in 1 .. Len(list) : list[i] \in songs \cap rest <=> list[i] \in songs \ {s}
  <2> HIDE DEF some
  <2>1. \A i \in 1 .. Len(list) : Listed(list[i], list)
    BY DEF Listed
  <2> QED BY <1>1, <1>2, <2>1
<1>6. Only(list, songs \cap rest) = Only(list, songs \ {s})
  <2> DEFINE fewer == songs \cap rest
             other == songs \ {s}
  <2>1. \A i \in 1 .. Len(list) : list[i] \in fewer <=> list[i] \in other
    BY <1>5
  <2> HIDE DEF fewer, other
  <2>2. Only(list, fewer) = Only(list, other)
    BY <2>1, OnlySame
  <2> QED BY <2>2 DEF fewer, other
<1> QED BY <1>3, <1>4, <1>6

LEMMA ChosenAppend ==
  ASSUME NEW shown, NEW db, ChosenFrom(shown, db), db.order \in Seq(Song),
         NEW s \in Song, s \notin Songs(db.order) \cup Songs(shown.order),
         shown.lists \in Seq(Seq(Songs(shown.order))), db.tag[s] = NewTag,
         NEW new, new.order = Append(db.order, s), new.tag = db.tag, new.lists = db.lists
  PROVE  ChosenFrom(shown, new)
<1>1. Songs(new.order) = Songs(db.order) \cup {s}
  BY SongsAppend
<1>2. ASSUME NEW i \in DOMAIN shown.lists
      PROVE  Only(shown.lists[i], Songs(db.order)) = Only(shown.lists[i], Songs(new.order))
  <2>1. /\ shown.lists[i] \in Seq(Songs(shown.order))
        /\ \A j \in 1 .. Len(shown.lists[i]) : shown.lists[i][j] \in Songs(shown.order)
    BY <1>2
  <2>2. \A j \in 1 .. Len(shown.lists[i]) :
          shown.lists[i][j] \in Songs(db.order) <=> shown.lists[i][j] \in Songs(new.order)
    BY <1>1, <2>1
  <2> QED BY <2>1, <2>2, OnlySame
<1>3. new.lists = [i \in DOMAIN shown.lists |-> Only(shown.lists[i], Songs(new.order))]
  BY <1>2 DEF ChosenFrom
<1>4. \A t \in Songs(new.order) :
        new.tag[t] = IF t \in Songs(shown.order) THEN shown.tag[t] ELSE NewTag
  BY <1>1 DEF ChosenFrom
<1> QED BY <1>3, <1>4 DEF ChosenFrom

Removed(s, db, new) ==
  /\ Songs(new.order) = Songs(db.order) \ {s}
  /\ \A t \in Songs(db.order) \ {s} : new.tag[t] = db.tag[t]
  /\ new.lists = WithoutSong(db.lists, s)

LEMMA ChosenRemove ==
  ASSUME NEW shown, NEW db, NEW s, NEW new, ChosenFrom(shown, db),
         shown.lists \in Seq(Seq(Song)), Removed(s, db, new)
  PROVE  ChosenFrom(shown, new)
<1> USE DEF Removed
<1>1. db.lists = [i \in DOMAIN shown.lists |-> Only(shown.lists[i], Songs(db.order))]
  BY DEF ChosenFrom
<1>2. new.lists = [i \in DOMAIN shown.lists |->
                     Without(Only(shown.lists[i], Songs(db.order)), {s})]
  BY <1>1 DEF WithoutSong
<1>3. ASSUME NEW i \in DOMAIN shown.lists
      PROVE  Without(Only(shown.lists[i], Songs(db.order)), {s}) =
               Only(shown.lists[i], Songs(new.order))
  <2>1. shown.lists[i] \in Seq(Song)
    BY <1>3
  <2>2. \A songs : Without(Only(shown.lists[i], songs), {s}) =
                      Only(shown.lists[i], songs \ {s})
    BY <2>1, OnlyWithout
  <2> QED BY <2>2
<1>4. new.lists = [i \in DOMAIN shown.lists |-> Only(shown.lists[i], Songs(new.order))]
  BY <1>2, <1>3
<1> QED BY <1>4 DEF ChosenFrom

LEMMA LedgerEdit ==
  ASSUME NotesGoWithSaving, SyncInv, LedgerInv, Edit
  PROVE  LedgerInv' /\ LedgerStep
<1>1. /\ UNCHANGED <<family, file, sd, counts, otg, otgInfo, Files>> /\ ~Saved /\ ~Saved'
      /\ pc = "open" /\ pc' = "open" /\ Current' = Current /\ IsShuffle' = IsShuffle
  BY DEF Edit, UnchangedNotes, UnchangedDatabase, Files, Saved, Current, IsShuffle
<1>2. Alike(Shown, Shown')
  BY <1>1, ShownAside
<1>3. ListsInv' /\ OrdersInv'
  BY <1>1 DEF LedgerInv, ListsInv, OtgGood, OrdersInv
<1>4. /\ mem.order \in Seq(Song) /\ IsInjective(mem.order) /\ DOMAIN mem = Fields
      /\ mem.tag \in [Song -> Tag]
  BY <1>1 DEF SyncInv, PlaysInv, TypesInv, Typed, Distinct, Copies, HostInv
<1>5. /\ ChosenFrom(Shown, mem) /\ Shown.order = Current.order
      /\ \A s \in Song \ Songs(mem.order) : mem.tag[s] = NewTag
  BY <1>1, ShownNow DEF LedgerInv, ChoiceInv
<1>6. /\ Shown.lists \in Seq(Seq(Songs(Shown.order))) /\ Shown.lists \in Seq(Seq(Song))
  <2>1. Shown.lists \in Seq(Seq(Songs(Shown.order))) /\ Songs(Shown.order) \subseteq Song
    BY ShownTyped, SongsTyped
  <2>2. Seq(Seq(Songs(Shown.order))) \subseteq Seq(Seq(Song))
    BY <2>1, SeqWider
  <2> QED BY <2>1, <2>2
<1> DEFINE Good == /\ \A t \in Song \ Songs(mem'.order) : mem'.tag[t] = NewTag
                   /\ ChosenFrom(Shown, mem')
<1>7. ASSUME NEW s \in Song, Fresh(s), mem' = [mem EXCEPT !.order = Append(@, s)]
      PROVE  Good
  <2>1. /\ mem'.order = Append(mem.order, s) /\ mem'.tag = mem.tag /\ mem'.lists = mem.lists
    BY <1>4, <1>7 DEF Fields
  <2>2. s \notin Songs(mem.order) \cup Songs(Shown.order) /\ mem.tag[s] = NewTag
    BY <1>5, <1>7 DEF Fresh
  <2>3. ChosenFrom(Shown, mem')
    BY <1>4, <1>5, <1>6, <2>1, <2>2, ChosenAppend
  <2>4. Songs(mem'.order) = Songs(mem.order) \cup {s}
    BY <1>4, <2>1, SongsAppend
  <2> QED BY <1>5, <2>1, <2>3, <2>4
<1>8. ASSUME NEW s \in Songs(mem.order),
             mem' = [mem EXCEPT !.order = GListRemove(@, s),
                                !.tag = [@ EXCEPT ![s] = NewTag],
                                !.lists = WithoutSong(@, s)]
      PROVE  Good
  <2>1. /\ mem'.order = GListRemove(mem.order, s) /\ mem'.lists = WithoutSong(mem.lists, s)
        /\ mem'.tag = [mem.tag EXCEPT ![s] = NewTag]
    BY <1>4, <1>8 DEF Fields
  <2>2. Songs(mem'.order) = Songs(mem.order) \ {s} /\ s \in Song
    BY <1>4, <2>1, SongsRemove, SongsTyped
  <2>3. \A t \in Song : mem'.tag[t] = IF t = s THEN NewTag ELSE mem.tag[t]
    BY <1>4, <2>1
  <2>4. \A t \in Songs(mem.order) \ {s} : mem'.tag[t] = mem.tag[t]
    BY <1>4, <2>3, SongsTyped
  <2>5. ChosenFrom(Shown, mem')
    <3> DEFINE shown == Shown
               new == mem'
    <3>1. ChosenFrom(shown, mem) /\ shown.lists \in Seq(Seq(Song))
      BY <1>5, <1>6
    <3>2. /\ Songs(new.order) = Songs(mem.order) \ {s}
          /\ new.lists = WithoutSong(mem.lists, s)
      BY <2>1, <2>2
    <3>3. \A t \in Songs(mem.order) \ {s} : new.tag[t] = mem.tag[t]
      BY <2>4
    <3> HIDE DEF shown, new
    <3>4. Removed(s, mem, new)
      BY <3>2, <3>3 DEF Removed
    <3>5. ChosenFrom(shown, new)
      BY <3>1, <3>4, ChosenRemove
    <3> QED BY <3>5 DEF shown, new
  <2>6. \A t \in Song \ Songs(mem'.order) : mem'.tag[t] = NewTag
    BY <1>5, <2>2, <2>3
  <2> QED BY <2>5, <2>6
<1>9. ASSUME NEW s \in Songs(mem.order),
             mem' = [mem EXCEPT !.order = <<s>> \o GListRemove(@, s)]
      PROVE  Good
  <2>1. /\ mem'.order = <<s>> \o GListRemove(mem.order, s) /\ mem'.tag = mem.tag
        /\ mem'.lists = mem.lists
    BY <1>4, <1>9 DEF Fields
  <2>2. /\ Songs(GListRemove(mem.order, s)) = Songs(mem.order) \ {s} /\ s \in Song
        /\ GListRemove(mem.order, s) \in Seq(Song)
    BY <1>4, SongsRemove, SongsTyped
  <2>3. Songs(mem'.order) = Songs(mem.order)
    <3>1. Songs(mem'.order) = Songs(GListRemove(mem.order, s)) \cup {s}
      BY <2>1, <2>2, SongsFront
    <3>2. s \in Songs(mem.order)
      BY <1>9
    <3>3. Songs(mem'.order) = (Songs(mem.order) \ {s}) \cup {s}
      BY <2>2, <3>1
    <3> QED BY <3>2, <3>3
  <2> QED BY <1>5, <2>1, <2>3 DEF ChosenFrom
<1>10. Good
  BY <1>7, <1>8, <1>9 DEF Edit
<1> QED BY <1>1, <1>2, <1>3, <1>10, LedgerAside

-----------------------------------------------------------------------------
(* itdb_write().  A step that only touches iTunesSD or goes on.            *)
LEMMA LedgerBegin ==
  ASSUME NotesGoWithSaving, SyncInv, LedgerInv, WriteBegin \/ ShuffleWriteSd
  PROVE  LedgerInv' /\ LedgerStep
<1>1. /\ UNCHANGED <<family, file, counts, otg, otgInfo, Files, mem>>
      /\ Current' = Current /\ IsShuffle' = IsShuffle
  BY DEF WriteBegin, ShuffleWriteSd, Fail, UnchangedNotes, UnchangedDatabase, UnchangedHost,
         Files, Current, IsShuffle
<1>2. /\ pc \in {"open", "sd"} /\ pc' \in {"sd", "sdRename", "database", "open"}
      /\ pc' = "database" => ~IsShuffle
      /\ pc' # "sdRename" => UNCHANGED sd
  BY LedgerKinds DEF WriteBegin, ShuffleWriteSd, Fail, UnchangedDatabase, UnchangedHost
<1>3. ~Saved /\ ~Saved'
  BY <1>1, <1>2 DEF Saved
<1>4. Alike(Shown, Shown')
  BY <1>1, <1>3, ShownAside
<1>5. ListsInv' /\ OrdersInv'
  BY <1>1, <1>2 DEF LedgerInv, ListsInv, OtgGood, OrdersInv
<1>6. /\ \A s \in Song \ Songs(mem'.order) : mem'.tag[s] = NewTag
      /\ ChosenFrom(Shown, mem')
  BY <1>1, <1>2 DEF LedgerInv, ChoiceInv
<1> QED BY <1>1, <1>4, <1>5, <1>6, LedgerAside

(* Once the choice counts there is nothing left to choose.                 *)
LEMMA ChoiceSaved ==
  ASSUME SyncInv, LedgerInv, UNCHANGED mem, Alike(mem, Shown')
  PROVE  ChoiceInv'
<1>1. mem.lists \in Seq(Seq(Songs(mem.order)))
  BY DEF SyncInv, SoundInv, DatabasesInv, WellFormed
<1>2. mem.lists = Shown'.lists /\ mem.order = Shown'.order
  BY DEF Alike
<1>3. Alike(Shown', mem') /\ Shown'.lists \in Seq(Seq(Songs(Shown'.order)))
  BY <1>1, <1>2 DEF Alike
<1>4. ChosenFrom(Shown', mem')
  BY <1>3, ChosenFromItself
<1>5. ChosenFrom(Shown, mem)'
  BY <1>4 DEF ChosenFrom, Songs
<1>6. (\A s \in Song \ Songs(mem.order) : mem.tag[s] = NewTag)'
  BY DEF LedgerInv, ChoiceInv, Songs
<1> QED BY <1>5, <1>6 DEF ChoiceInv

LEMMA LedgerShuffleRename ==
  ASSUME NotesGoWithSaving, SyncInv, SyncInv', LedgerInv, ShuffleRenameFiles
  PROVE  LedgerInv' /\ LedgerStep
<1>1. /\ IsShuffle /\ ~IsSqlite /\ pc = "sdRename" /\ ~MayFault("sdRename")
      /\ UNCHANGED <<family, file, sd, mem>> /\ IsShuffle' = IsShuffle
  BY LedgerKinds DEF ShuffleRenameFiles, RenameFiles, UnchangedDatabase, SyncInv, Copies,
     WrittenInv, IsShuffle
<1>2. counts'.state = "none" /\ ~otgInfo' /\ pc' = "database"
  BY <1>1 DEF ShuffleRenameFiles, RenameFiles
<1>3. counts'.entries = <<>>
  BY <1>2 DEF SyncInv, SoundInv, NotesInv
<1>4. Saved' /\ Alike(mem, Shown')
  BY <1>1, <1>2, ShownSavedNext DEF Saved, Alike
<1>5. ChosenFrom(Shown, mem)
  BY <1>1 DEF LedgerInv, ChoiceInv
<1>6. ListsInv' /\ OrdersInv'
  BY <1>1, <1>2, <1>3 DEF ListsInv, OrdersInv
<1>7. ChoiceInv'
  BY <1>1, <1>4, ChoiceSaved
<1>8. LedgerStep
  BY <1>1, <1>4, <1>5, SaveNoticed DEF LedgerInv
<1> QED BY <1>6, <1>7, <1>8 DEF LedgerInv

(* A hard disk iPod gets the new database and its notes are as good as     *)
(* gone; the notes of a Shuffle are gone already.                          *)
LEMMA LedgerDatabase ==
  ASSUME NotesGoWithSaving, SyncInv, SyncInv', LedgerInv, WriteDatabase
  PROVE  LedgerInv' /\ LedgerStep
<1>1. /\ pc = "database" /\ ~IsSqlite /\ (IsShuffle => ~MayFault("database"))
      /\ UNCHANGED <<family, sd, otg, otgInfo, counts, Files>> /\ mem' = mem
      /\ mem.state = "data" /\ IsShuffle' = IsShuffle
  BY LedgerKinds DEF WriteDatabase, Fail, PlaycountsReset, CountsDir, ResetDir, SyncInv,
     Copies, HostInv, IsShuffle, Files
<1>2. CASE Fail("database") /\ UNCHANGED file
  <2>1. ~IsShuffle /\ pc' = "open" /\ ~Saved /\ ~Saved' /\ Current' = Current
    BY <1>1, <1>2 DEF Fail, Saved, Current
  <2>2. Alike(Shown, Shown')
    BY <1>1, <1>2, <2>1, ShownAside
  <2>3. ListsInv' /\ OrdersInv'
    BY <1>1, <2>1 DEF LedgerInv, ListsInv, OtgGood, OrdersInv
  <2>4. /\ \A s \in Song \ Songs(mem'.order) : mem'.tag[s] = NewTag
        /\ ChosenFrom(Shown, mem')
    BY <1>1 DEF LedgerInv, ChoiceInv
  <2> QED BY <1>1, <1>2, <2>2, <2>3, <2>4, LedgerAside
<1>3. CASE file' = [file EXCEPT ![WriteName] = mem] /\ pc' = "rename"
  <2>1. Current' = mem
    BY <1>1, <1>3, SavedIsCurrent DEF SyncInv
  <2>2. Saved' /\ Alike(mem, Shown')
    BY <1>1, <1>3, ShownSavedNext DEF Saved, Alike
  <2>3. IsShuffle => sd = mem.order /\ counts.entries = <<>> /\ ~otgInfo
    BY <1>1 DEF SyncInv, Copies, WrittenInv, LedgerInv, OrdersInv, ListsInv
  <2>4. ListsInv' /\ OrdersInv'
    BY <1>1, <1>3, <2>1, <2>3 DEF LedgerInv, ListsInv, OrdersInv
  <2>5. ChoiceInv' /\ ChosenFrom(Shown, mem)
    BY <1>1, <2>2, ChoiceSaved DEF LedgerInv, ChoiceInv
  <2>6. LedgerStep
    BY <1>1, <2>2, <2>5, SaveNoticed DEF LedgerInv
  <2> QED BY <2>4, <2>5, <2>6 DEF LedgerInv
<1> QED BY <1>1, <1>2, <1>3 DEF WriteDatabase

(* What was saved is shown whether or not the notes of it are there.       *)
LEMMA LedgerTaken ==
  ASSUME NotesGoWithSaving, SyncInv, SyncInv', LedgerInv, UNCHANGED <<family, file>>,
         Saved, Current = mem, counts'.entries = <<>>, ~otgInfo', ~Saved',
         \/ UNCHANGED mem
         \/ mem' = NoDatabase("none") /\ pc' \in {"unplugged", "plugged"}
  PROVE  ChoiceInv' /\ LedgerStep
<1>1. ~IsSqlite' /\ Current' = mem
  BY LedgerKinds DEF IsSqlite, Current
<1>2. NothingNoted'
  BY <1>1 DEF NothingNoted, LedgerInv, ChoiceInv, Songs
<1>3. Alike(mem, Shown')
  BY <1>1, <1>2, ShownTakenNext DEF Alike
<1>4. LedgerStep
  BY <1>3, ShownSaved, Unnoticed
<1>5. CASE UNCHANGED mem
  BY <1>3, <1>4, <1>5, ChoiceSaved
<1>6. CASE mem' = NoDatabase("none") /\ pc' \in {"unplugged", "plugged"}
  <2>1. ChoiceInv'
    BY <1>6 DEF ChoiceInv, NoDatabase
  <2> QED BY <1>4, <2>1
<1> QED BY <1>5, <1>6

LEMMA LedgerRename ==
  ASSUME NotesGoWithSaving, SyncInv, SyncInv', LedgerInv, WriteRenameFiles
  PROVE  LedgerInv' /\ LedgerStep
<1>1. /\ UNCHANGED <<family, file, sd, otg, mem>> /\ pc = "rename" /\ pc' = "open"
      /\ Saved /\ ~Saved' /\ Current = mem /\ IsShuffle' = IsShuffle /\ Current' = Current
      /\ ~IsSqlite /\ (~IsShuffle => ~MayFault("rename"))
  BY LedgerKinds DEF WriteRenameFiles, RenameFiles, UnchangedDatabase, Saved, IsShuffle,
     SyncInv, HeardInv, Current
<1>2. counts'.state = "none" => counts'.entries = <<>>
  BY DEF SyncInv, SoundInv, NotesInv
<1>3. counts'.entries = <<>> /\ ~otgInfo'
  <2>1. CASE IsShuffle
    <3>1. counts.entries = <<>> /\ ~otgInfo
      BY <1>1, <2>1 DEF LedgerInv, OrdersInv, ListsInv
    <3>2. counts' \in {counts, NoCounts("none")} /\ otgInfo' \in {otgInfo, FALSE}
      BY <1>1 DEF WriteRenameFiles, RenameFiles
    <3>3. counts'.entries = <<>>
      BY <3>1, <3>2 DEF NoCounts
    <3>4. ~otgInfo'
      BY <3>1, <3>2
    <3> QED BY <3>3, <3>4
  <2>2. CASE ~IsShuffle
    BY <1>1, <1>2, <2>2 DEF WriteRenameFiles, RenameFiles
  <2> QED BY <2>1, <2>2
<1>4. ChoiceInv' /\ LedgerStep
  BY <1>1, <1>3, LedgerTaken
<1>5. ListsInv' /\ OrdersInv'
  BY <1>1, <1>3 DEF LedgerInv, ListsInv, OrdersInv
<1> QED BY <1>4, <1>5 DEF LedgerInv

(* The iPod is unplugged in the middle: what was saved shows, and what was *)
(* not is forgotten.                                                       *)
LEMMA LedgerCrash ==
  ASSUME NotesGoWithSaving, SyncInv, SyncInv', LedgerInv, Crash
  PROVE  LedgerInv' /\ LedgerStep
<1>1. /\ UNCHANGED <<family, file, sd, counts, otgInfo, Files>> /\ pc' = "unplugged"
      /\ mem' = NoDatabase("none") /\ ~Saved' /\ Current' = Current
      /\ IsShuffle' = IsShuffle /\ MayFault(pc)
      /\ otg' = IF otgInfo THEN otg ELSE <<>>
  BY DEF Crash, UnchangedDatabase, Files, Saved, Current, IsShuffle
<1>2. /\ IsShuffle => pc \notin {"sdRename", "database"}
      /\ pc = "rename" => IsShuffle
      /\ Saved => pc = "rename" /\ Current = mem
  BY <1>1, LedgerKinds DEF Saved, SyncInv, HeardInv
<1>3. ListsInv' /\ OrdersInv'
  BY <1>1, <1>2 DEF LedgerInv, ListsInv, OtgGood, OrdersInv
<1>4. CASE Saved
  <2>1. counts.entries = <<>> /\ ~otgInfo
    BY <1>2, <1>4 DEF LedgerInv, OrdersInv, ListsInv
  <2>2. ChoiceInv' /\ LedgerStep
    BY <1>1, <1>2, <1>4, <2>1, LedgerTaken
  <2> QED BY <1>3, <2>2 DEF LedgerInv
<1>5. CASE ~Saved
  <2>1. Alike(Shown, Shown')
    BY <1>1, <1>5, ShownAside
  <2>2. \A s \in Song \ Songs(mem'.order) : mem'.tag[s] = NewTag
    BY <1>1 DEF NoDatabase
  <2> QED BY <1>1, <1>3, <2>1, <2>2, LedgerAside
<1> QED BY <1>4, <1>5

-----------------------------------------------------------------------------
LEMMA LedgerInit ==
  ASSUME Init
  PROVE  LedgerInv /\ ~Saved /\ Files = <<>> /\ counts.entries = <<>> /\ otg = <<>>
<1>1. /\ pc = "unplugged" /\ counts = NoCounts("none") /\ otg = <<>> /\ otgInfo = FALSE
      /\ mem = NoDatabase("none")
  BY DEF Init
<1>2. counts.entries = <<>> /\ Files = <<>> /\ ~Saved
  BY <1>1 DEF NoCounts, Files, Saved
<1>3. ChoiceInv
  BY <1>1 DEF ChoiceInv, NoDatabase
<1>4. IsShuffle => sd = Current.order
  BY DEF Init, Current, Database, NoDatabase, IsShuffle, IsSqlite
<1> QED BY <1>1, <1>2, <1>3, <1>4 DEF LedgerInv, ListsInv, OrdersInv

LEMMA LedgerInitial ==
  ASSUME NotesGoWithSaving, SyncInv, Init
  PROVE  Ledger!LedgerInit
<1>1. ~IsSqlite /\ ~Saved /\ counts.entries = <<>> /\ ~otgInfo
  BY LedgerKinds, LedgerInit DEF Init
<1>2. PICK order \in [1 .. Cardinality(Song) - 1 -> Song],
           tag \in [Song -> {NewTag, [NewTag EXCEPT !.rating = MaxStars]}] :
        /\ \A s \in Song \ Songs(order) : tag[s] = NewTag
        /\ LET db == Database(order, tag, <<>>)
           IN \/ file = [iTunesDB |-> db, iTunesCDB |-> NoDatabase("none")]
              \/ file = [iTunesDB |-> NoDatabase("empty"), iTunesCDB |-> db]
  BY DEF Init
<1>3. /\ Current.order = order /\ Current.tag = tag /\ Current.lists = <<>>
  <2>1. Current = Database(order, tag, <<>>)
    BY <1>2 DEF Current, Database, NoDatabase
  <2> QED BY <2>1 DEF Database
<1>4. Alike(Current, Shown)
  BY <1>1, <1>2, <1>3, ShownTaken DEF NothingNoted
<1>5. Shown.lists = <<>> /\ Songs(Shown.order) \in SUBSET Song
  BY <1>3, <1>4, ShownTyped, SongsTyped DEF Alike
<1>6. ASSUME NEW s \in Song
      PROVE  Noticed(Shown.tag[s]) \in [plays : {0}, skips : {0}, rating : Stars]
  <2>1. Shown.tag[s] \in {NewTag, [NewTag EXCEPT !.rating = MaxStars]}
    BY <1>2, <1>3, <1>4 DEF Alike
  <2>2. 0 \in Stars /\ MaxStars \in Stars
    BY SyncAssumption DEF Stars, SyncAssumption
  <2> QED BY <2>1, <2>2 DEF Noticed, NewTag
<1> QED BY <1>5, <1>6 DEF Ledger!LedgerInit

LEMMA LedgerNext ==
  ASSUME NotesGoWithSaving, SyncInv, SyncInv', LedgerInv, [Next]_vars
  PROVE  LedgerInv' /\ LedgerStep
<1>1. CASE UNCHANGED vars
  <2>1. /\ UNCHANGED <<family, file, sd, counts, otg, otgInfo, mem, pc>>
        /\ Current' = Current /\ Shown' = Shown
    BY <1>1 DEF vars, Current, Shown, IsShuffle, MergedTags, PlaycountFor, PlistEntry,
       ItunesstatsEntry, IsSqlite, OtgLists
  <2>2. Alike(Shown, Shown')
    BY <2>1 DEF Alike
  <2>3. LedgerInv'
    BY <2>1 DEF LedgerInv, ListsInv, OtgGood, OrdersInv, IsShuffle, ChoiceInv, ChosenFrom,
       Songs
  <2> QED BY <2>1, <2>2, <2>3, Unnoticed
<1>2. ASSUME NEW s \in Song,
             \/ DevicePlay(s) \/ DeviceSkip(s) \/ DeviceMakeOtg(s)
             \/ \E stars \in Stars : DeviceRate(s, stars)
      PROVE  LedgerInv' /\ LedgerStep
  BY <1>2, LedgerPlay, LedgerSkip, LedgerMakeOtg, LedgerRate
<1>3. ~DamageCounts
  BY DEF DamageCounts, NotesGoWithSaving
<1>4. CASE Plug \/ Unplug \/ Free
  BY <1>4, LedgerPlug
<1>5. CASE Parse
  BY <1>5, LedgerParse
<1>6. CASE Edit
  BY <1>6, LedgerEdit
<1>7. CASE Crash
  BY <1>7, LedgerCrash
<1>8. ~SqliteGenerate /\ ~TruncateItunesDb
  BY LedgerKinds DEF SqliteGenerate, TruncateItunesDb
<1>9. CASE WriteNext
  BY <1>8, <1>9, LedgerBegin, LedgerShuffleRename, LedgerDatabase, LedgerRename
     DEF WriteNext
<1> QED BY <1>1, <1>2, <1>3, <1>4, <1>5, <1>6, <1>7, <1>9 DEF Next, DeviceNext

(* The iPod and libgpod together keep the owner's ledger: each play, skip, *)
(* rating and On-The-Go playlist is noted once, with its song, whatever is *)
(* synchronised in between and wherever it is cut off, but for the steps   *)
(* that part saving from taking the notes away.                            *)
THEOREM LedgerImplemented ==
  ASSUME NotesGoWithSaving
  PROVE  Spec => ImplementsLedger
<1>1. SyncInv /\ Init => LedgerInv /\ Ledger!LedgerInit
  BY LedgerInit, LedgerInitial
<1>2. SyncInv /\ SyncInv' /\ LedgerInv /\ [Next]_vars =>
        LedgerInv' /\ [Ledger!LedgerNext]_(Ledger!ledger)
  BY LedgerNext DEF LedgerStep
<1>3. Spec => []SyncInv
  BY SoundInvariant, PlaysInvariant, HeardInvariant, CopiesInvariant, PTL DEF SyncInv
<1> QED BY <1>1, <1>2, <1>3, PTL DEF Spec, ImplementsLedger, Ledger!LedgerSpec
=============================================================================
