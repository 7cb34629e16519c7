----------------------------- MODULE PlayLedger -----------------------------
(***************************************************************************)
(* What the owner of an iPod expects of playing, skipping and rating songs *)
(* and of making On-The-Go playlists: each of them is noted once, with the *)
(* song it was done to, for as long as the song stays in the library,      *)
(* whatever is synchronised in between.                                    *)
(***************************************************************************)
EXTENDS Naturals, GList

CONSTANTS
  Song,
  Stars  \* the ratings

VARIABLES
  library,  \* the songs on the iPod
  notes,    \* how often each was played and skipped, and its rating
  lists     \* the On-The-Go playlists, oldest first

ledger == <<library, notes, lists>>

Blank == [plays |-> 0, skips |-> 0, rating |-> 0]

LedgerInit ==
  /\ library \in SUBSET Song
  /\ notes \in [Song -> [plays : {0}, skips : {0}, rating : Stars]]
  /\ lists = <<>>

Listen(s) ==
  /\ s \in library
  /\ notes' = [notes EXCEPT ![s].plays = @ + 1]
  /\ UNCHANGED <<library, lists>>

Skip(s) ==
  /\ s \in library
  /\ notes' = [notes EXCEPT ![s].skips = @ + 1]
  /\ UNCHANGED <<library, lists>>

Rate(s, stars) ==
  /\ s \in library
  /\ notes' = [notes EXCEPT ![s].rating = stars]
  /\ UNCHANGED <<library, lists>>

MakeList(s) ==
  /\ s \in library
  /\ lists' = Append(lists, <<s>>)
  /\ UNCHANGED <<library, notes>>

(* The owner saves another choice of songs.                                *)
Save(songs) ==
  /\ library' = songs
  /\ notes' = [s \in Song |->
                 IF s \in library \cap songs THEN notes[s] ELSE Blank]
  /\ lists' = [i \in DOMAIN lists |-> Only(lists[i], songs)]

LedgerNext ==
  \/ \E s \in Song :
       \/ Listen(s)
       \/ Skip(s)
       \/ \E stars \in Stars : Rate(s, stars)
       \/ MakeList(s)
  \/ \E songs \in SUBSET Song : Save(songs)

LedgerSpec == LedgerInit /\ [][LedgerNext]_ledger
=============================================================================
