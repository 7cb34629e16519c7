------------------------------ MODULE FileCopy ------------------------------
(***************************************************************************)
(* Copying files to the iPod: itdb_cp_track_to_ipod(), or its parts        *)
(* itdb_cp_get_dest_filename(), itdb_cp() and itdb_cp_finalize() called    *)
(* from several threads of one application.                                *)
(*                                                                         *)
(* A file name is the random number in it (F<dir>/libgpod<number>): two    *)
(* names are the same when both draws are.  All threads draw from one      *)
(* range.  A file is Blocks pieces long, one for each turn of the loop in  *)
(* itdb_cp(), and its content is the track each piece came from.           *)
(*                                                                         *)
(* A name is looked for and created in two calls, and nothing keeps other  *)
(* threads from finding it unused in between; nor does the search look at  *)
(* the paths of other tracks whose file is gone.  The history variable     *)
(* contested holds the names for which one of the two happened: what is    *)
(* promised below holds for all other names.                               *)
(***************************************************************************)
EXTENDS Naturals, FiniteSets

CONSTANTS
  Track,
  Thread,
  Numbers,    \* the numbers the random generator may give
  MaxNumber,  \* bound on the names (model only)
  MaxLeft,    \* bound on the files left half written (model only)
  MaxContested, \* bound on the names in contested (model only)
  Blocks,
  AtFirst,    \* track -> the name of its file on the iPod at first
  NoName, NoTrack

ASSUME CopyAssumption ==
  /\ MaxNumber \in Nat /\ MaxLeft \in Nat /\ MaxContested \in Nat
  /\ Blocks \in Nat \ {0}
  /\ Numbers \subseteq 0 .. MaxNumber
  /\ AtFirst \in [Track -> (0 .. MaxNumber) \cup {NoName}]
  /\ \A t, u \in Track : t # u /\ AtFirst[t] # NoName => AtFirst[t] # AtFirst[u]
  /\ NoName \notin 0 .. MaxNumber /\ NoTrack \notin Track

VARIABLES
  exists,       \* the names of files on the iPod
  content,      \* name -> piece -> the track it came from
  transferred,  \* track->transferred
  path,         \* track->ipod_path
  saved,        \* the tracks of the database on the iPod
  stored,       \* track -> its ipod_path there
  stale,        \* the tracks whose file is to be written anew (history)
  risked,       \* the same of the files the database on the iPod names
  left,         \* the files left half written (history)
  contested,    \* the names found unused though they were spoken for (history)
  pc, job,      \* thread -> its place and its track
  name,         \* thread -> dest_filename
  fd,           \* thread -> the file file_out refers to
  pos           \* thread -> the pieces written

tracks == <<transferred, path, saved, stored, stale, risked>>
files == <<exists, content, left>>
vars == <<exists, content, left, transferred, path, saved, stored, stale, risked,
          contested, pc, job, name, fd, pos>>

Name == 0 .. MaxNumber
Piece == 1 .. Blocks
Empty == [i \in Piece |-> NoTrack]
Whole(t) == [i \in Piece |-> t]

TypeOK ==
  /\ exists \subseteq Name
  /\ content \in [Name -> [Piece -> Track \cup {NoTrack}]]
  /\ transferred \in [Track -> BOOLEAN]
  /\ path \in [Track -> Name \cup {NoName}]
  /\ stored \in [Track -> Name \cup {NoName}]
  /\ saved \subseteq Track /\ stale \subseteq Track /\ risked \subseteq Track
  /\ left \subseteq Name /\ contested \subseteq Name
  /\ pc \in [Thread -> {"idle", "probe", "open", "create", "copy", "finalize"}]
  /\ job \in [Thread -> Track \cup {NoTrack}]
  /\ name \in [Thread -> Name \cup {NoName}]
  /\ fd \in [Thread -> Name \cup {NoName}]
  /\ pos \in [Thread -> 0 .. Blocks]

Init ==
  /\ exists = {AtFirst[t] : t \in Track} \ {NoName}
  /\ content = [n \in Name |-> IF \E t \in Track : AtFirst[t] = n
                               THEN Whole(CHOOSE t \in Track : AtFirst[t] = n)
                               ELSE Empty]
  /\ transferred = [t \in Track |-> AtFirst[t] # NoName]
  /\ path = AtFirst
  /\ stored = AtFirst
  /\ saved = {t \in Track : AtFirst[t] # NoName}
  /\ stale = {} /\ risked = {} /\ left = {} /\ contested = {}
  /\ pc = [c \in Thread |-> "idle"]
  /\ job = [c \in Thread |-> NoTrack]
  /\ name = [c \in Thread |-> NoName]
  /\ fd = [c \in Thread |-> NoName]
  /\ pos = [c \in Thread |-> 0]

-----------------------------------------------------------------------------
(* Mutant: a track that was transferred is copied again.                   *)
StartAgain(c, t) ==
  /\ pc[c] = "idle"
  /\ \A d \in Thread : job[d] # t
  /\ job' = [job EXCEPT ![c] = t]
  /\ UNCHANGED <<contested, fd, pos>> /\ UNCHANGED files /\ UNCHANGED tracks

(* Each track is copied by one thread.                                     *)
Start(c, t) ==
  /\ pc[c] = "idle" /\ ~transferred[t]
  /\ \A d \in Thread : job[d] # t
  /\ job' = [job EXCEPT ![c] = t]
  /\ UNCHANGED <<contested, fd, pos>> /\ UNCHANGED files /\ UNCHANGED tracks

(* itdb_filename_on_ipod.                                                  *)
OnIpod(t) == path[t] \in exists

(* itdb_cp_get_dest_filename with the track, whose file exists.            *)
StartAtPath(c, t) ==
  /\ Start(c, t)
  /\ OnIpod(t)
  /\ name' = [name EXCEPT ![c] = path[t]]
  /\ pc' = [pc EXCEPT ![c] = "open"]

(* The same without a file, or with the mountpoint only.  Bounds: each     *)
(* thread could find a free name from the number that is drawn, and not    *)
(* too many names are contested.                                           *)
StartAtRandom(c, t) ==
  /\ Start(c, t)
  /\ Cardinality(contested) < MaxContested
  /\ \E n \in Numbers :
       /\ Cardinality({k \in Name \ exists : k >= n}) >= Cardinality(Thread)
       /\ name' = [name EXCEPT ![c] = n]
  /\ pc' = [pc EXCEPT ![c] = "probe"]

(* Another thread has found the name and is still inside its call, or      *)
(* another track, in memory or in the database on the iPod, has the name   *)
(* for its path, though there is no such file.                             *)
Writing(d) == pc[d] \in {"open", "create", "copy", "finalize"}

SpokenFor(c, n) ==
  /\ n \notin exists
  /\ \/ \E d \in Thread \ {c} : Writing(d) /\ name[d] = n
     \/ \E t \in Track \ {job[c]} : path[t] = n \/ stored[t] = n

(* The name is taken to be unused.                                         *)
Found(c) ==
  /\ contested' = IF SpokenFor(c, name[c]) THEN contested \cup {name[c]} ELSE contested
  /\ pc' = [pc EXCEPT ![c] = "open"]
  /\ UNCHANGED name

(* Mutants: the name is not tested; the number is not changed.             *)
ProbeUntested(c) ==
  /\ pc[c] = "probe"
  /\ Found(c)
  /\ UNCHANGED <<job, fd, pos>> /\ UNCHANGED files /\ UNCHANGED tracks

ProbeSameNumber(c) ==
  /\ pc[c] = "probe" /\ name[c] \notin exists
  /\ Found(c)
  /\ UNCHANGED <<job, fd, pos>> /\ UNCHANGED files /\ UNCHANGED tracks

(* One turn of the loop that looks for an unused name.                     *)
Probe(c) ==
  /\ pc[c] = "probe"
  /\ \/ /\ name[c] \in exists
        /\ name[c] + 1 \in Name
        /\ name' = [name EXCEPT ![c] = @ + 1]
        /\ UNCHANGED <<contested, pc>>
     \/ name[c] \notin exists /\ Found(c)
  /\ UNCHANGED <<job, fd, pos>> /\ UNCHANGED files /\ UNCHANGED tracks

Leave(c) ==
  /\ pc' = [pc EXCEPT ![c] = "idle"]
  /\ job' = [job EXCEPT ![c] = NoTrack]
  /\ name' = [name EXCEPT ![c] = NoName]
  /\ pos' = [pos EXCEPT ![c] = 0]

(* Mutant: the destination is not removed.                                 *)
CopyFailsKeepsFile(c) ==
  /\ fd' = [fd EXCEPT ![c] = NoName]
  /\ Leave(c)
  /\ UNCHANGED contested /\ UNCHANGED files /\ UNCHANGED tracks

(* err_out: the destination is removed, whoever created it.  A thread that *)
(* has the file open goes on writing to what has no name any more.  The    *)
(* result of g_unlink is not looked at: the file may stay.                 *)
CopyFails(c) ==
  /\ \/ /\ exists' = exists \ {name[c]}
        /\ content' = [content EXCEPT ![name[c]] = Empty]
        /\ fd' = [d \in Thread |-> IF d = c \/ fd[d] = name[c] THEN NoName ELSE fd[d]]
        /\ left' = left \ {name[c]}
     \/ /\ left' = IF pc[c] = "copy" THEN left \cup {name[c]} ELSE left
        /\ Cardinality(left') <= MaxLeft
        /\ fd' = [fd EXCEPT ![c] = NoName]
        /\ UNCHANGED <<exists, content>>
  /\ Leave(c)
  /\ UNCHANGED contested /\ UNCHANGED tracks

(* The source file is opened.                                              *)
OpenSource(c) ==
  /\ pc[c] = "open"
  /\ \/ /\ pc' = [pc EXCEPT ![c] = "create"]
        /\ UNCHANGED <<contested, job, name, fd, pos>>
        /\ UNCHANGED files /\ UNCHANGED tracks
     \/ CopyFails(c)

(* O_CREAT|O_WRONLY|O_TRUNC.                                               *)
Create(c) ==
  /\ pc[c] = "create"
  /\ \/ /\ exists' = exists \cup {name[c]}
        /\ content' = [content EXCEPT ![name[c]] = Empty]
        /\ left' = left \ {name[c]}
        /\ fd' = [fd EXCEPT ![c] = name[c]]
        /\ pc' = [pc EXCEPT ![c] = "copy"]
        /\ UNCHANGED <<contested, job, name, pos>> /\ UNCHANGED tracks
     \/ CopyFails(c)

(* Mutant: what write() returns is not looked at.                          *)
CopyBlockUnchecked(c) ==
  /\ pc[c] = "copy" /\ pos[c] < Blocks
  /\ \/ /\ fd[c] # NoName
        /\ content' = [content EXCEPT ![fd[c]][pos[c] + 1] = job[c]]
     \/ UNCHANGED content
  /\ pos' = [pos EXCEPT ![c] = @ + 1]
  /\ UNCHANGED <<exists, left, contested, pc, job, name, fd>> /\ UNCHANGED tracks

(* One turn of the loop: read and write.                                   *)
CopyBlock(c) ==
  /\ pc[c] = "copy" /\ pos[c] < Blocks
  /\ \/ /\ content' = IF fd[c] = NoName THEN content
                      ELSE [content EXCEPT ![fd[c]][pos[c] + 1] = job[c]]
        /\ pos' = [pos EXCEPT ![c] = @ + 1]
        /\ UNCHANGED <<exists, left, contested, pc, job, name, fd>>
        /\ UNCHANGED tracks
     \/ CopyFails(c)

(* The end of the source is reached and both files are closed.             *)
CloseFiles(c) ==
  /\ pc[c] = "copy" /\ pos[c] = Blocks
  /\ \/ /\ fd' = [fd EXCEPT ![c] = NoName]
        /\ pc' = [pc EXCEPT ![c] = "finalize"]
        /\ UNCHANGED <<contested, job, name, pos>>
        /\ UNCHANGED files /\ UNCHANGED tracks
     \/ CopyFails(c)

(* itdb_cp_finalize.  The application gives the result to the track.       *)
Finalize(c) ==
  /\ pc[c] = "finalize"
  /\ \/ /\ name[c] \in exists
        /\ transferred' = [transferred EXCEPT ![job[c]] = TRUE]
        /\ path' = [path EXCEPT ![job[c]] = name[c]]
        /\ stale' = stale \ {job[c]}
     \/ name[c] \notin exists /\ UNCHANGED <<transferred, path, stale>>
  /\ Leave(c)
  /\ UNCHANGED <<contested, fd, saved, stored, risked>> /\ UNCHANGED files

-----------------------------------------------------------------------------
(* The application has a new version of the file.                          *)
Update(t) ==
  /\ transferred[t]
  /\ transferred' = [transferred EXCEPT ![t] = FALSE]
  /\ stale' = stale \cup {t} /\ risked' = risked \cup {t}
  /\ UNCHANGED <<contested, path, saved, stored, pc, job, name, fd, pos>>
  /\ UNCHANGED files

(* The database is written, with every track, copied or not.               *)
Save ==
  /\ saved' = Track /\ stored' = path /\ risked' = stale
  /\ UNCHANGED <<contested, transferred, path, stale, pc, job, name, fd, pos>>
  /\ UNCHANGED files

(* The application ends, in the middle of anything, and the database is    *)
(* parsed: all its tracks count as transferred ("track is on iPod!").  The *)
(* others are tracks the application may add anew.                         *)
Restart ==
  /\ left' = left \cup {name[c] : c \in {d \in Thread : pc[d] = "copy"}}
  /\ Cardinality(left') <= MaxLeft
  /\ path' = stored
  /\ transferred' = [t \in Track |-> t \in saved]
  /\ pc' = [c \in Thread |-> "idle"]
  /\ job' = [c \in Thread |-> NoTrack]
  /\ name' = [c \in Thread |-> NoName]
  /\ fd' = [c \in Thread |-> NoName]
  /\ pos' = [c \in Thread |-> 0]
  /\ stale' = risked
  /\ UNCHANGED <<exists, content, contested, saved, stored, risked>>

Step(c) ==
  Probe(c) \/ OpenSource(c) \/ Create(c) \/ CopyBlock(c) \/ CloseFiles(c) \/ Finalize(c)

Next ==
  \/ \E c \in Thread : Step(c) \/ \E t \in Track : StartAtPath(c, t) \/ StartAtRandom(c, t)
  \/ \E t \in Track : Update(t)
  \/ Save \/ Restart

(* A thread that is inside a call keeps running.                           *)
Spec == Init /\ [][Next]_vars /\ \A c \in Thread : WF_vars(Step(c))

-----------------------------------------------------------------------------
Apart == Name \ contested

(* A track that counts as transferred and has a path has its whole file    *)
(* there, whatever other copies fail or are cut off, unless its own file   *)
(* was to be overwritten or its name was contested.                        *)
TransferredWhole ==
  \A t \in Track \ stale :
    transferred[t] /\ path[t] \in Apart =>
      path[t] \in exists /\ content[path[t]] = Whole(t)

(* So has a track of the database on the iPod, in the middle of anything   *)
(* that is copied and after any restart.                                   *)
StoredWhole ==
  \A t \in Track \ risked :
    stored[t] \in Apart => stored[t] \in exists /\ content[stored[t]] = Whole(t)

(* Two tracks are given the same file only when a thread found its name    *)
(* unused before another one had created it, or when the name was that of  *)
(* a track whose file was gone.                                            *)
OwnFile ==
  \A t, u \in Track : t # u /\ path[t] \in Apart => path[t] # path[u]

(* Copying comes to an end, with the file or without: a free name is found *)
(* ("If this file already exists, @random_number is adjusted until an      *)
(* unused filename is found").                                             *)
CopyEnds == \A c \in Thread : (pc[c] # "idle") ~> (pc[c] = "idle")

(* A failed copy leaves nothing behind that looks like a file: what is not *)
(* whole is being written, or was when the program ended, or could not be  *)
(* removed.                                                                *)
NothingPartial ==
  \A n \in exists \cap Apart :
    \/ n \in left
    \/ \E t \in Track : content[n] = Whole(t)
    \/ \E c \in Thread : pc[c] = "copy" /\ name[c] = n
=============================================================================
