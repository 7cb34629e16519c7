--------------------------- MODULE FileCopyProofs ---------------------------
(***************************************************************************)
(* What threads copy to the iPod is whole, for any number of threads,      *)
(* tracks, numbers and pieces, whatever fails and wherever the program     *)
(* ends, but for the names that were contested.                            *)
(***************************************************************************)
EXTENDS FileCopy, TLAPS

-----------------------------------------------------------------------------
(* The invariant.                                                          *)

ThreadInv(c) ==
  /\ pc[c] = "idle" => job[c] = NoTrack /\ name[c] = NoName
  /\ pc[c] # "idle" => job[c] \in Track /\ name[c] \in Name /\ ~transferred[job[c]]
  /\ pc[c] \notin {"copy", "finalize"} => pos[c] = 0
  /\ fd[c] \in {NoName, name[c]} /\ (pc[c] # "copy" => fd[c] = NoName)
  /\ pc[c] = "copy" /\ name[c] \notin contested =>
       /\ fd[c] = name[c] /\ name[c] \in exists
       /\ \A i \in Piece : i <= pos[c] => content[name[c]][i] = job[c]
  /\ pc[c] = "finalize" /\ name[c] \notin contested =>
       name[c] \in exists /\ content[name[c]] = Whole(job[c])

JobsApart == \A c, d \in Thread : c # d /\ job[c] # NoTrack => job[c] # job[d]

(* A name that is not contested belongs to one track: that of the only     *)
(* thread which is about to write to it, and the only one that has it for  *)
(* its path.                                                               *)
Holds(c, n) == Writing(c) /\ name[c] = n
Points(t, n) == path[t] = n \/ stored[t] = n

NamesApart ==
  \A n \in Apart :
    /\ \A c, d \in Thread : Holds(c, n) /\ Holds(d, n) => c = d
    /\ \A c \in Thread, t \in Track : Holds(c, n) /\ Points(t, n) => t = job[c]
    /\ \A t, u \in Track : Points(t, n) /\ Points(u, n) => t = u

(* A file that a track or the database relies on is whole and no thread    *)
(* writes to it.                                                           *)
Safe(n, t) ==
  /\ n \in exists /\ content[n] = Whole(t)
  /\ \A c \in Thread : ~Holds(c, n)

Needed(n, t) ==
  (n = path[t] /\ t \notin stale) \/ (n = stored[t] /\ t \notin risked)

TrackInv(t) ==
  /\ t \in stale => t \in risked
  /\ t \notin saved => stored[t] = NoName
  /\ ~transferred[t] /\ path[t] # NoName => t \in stale
  /\ \A n \in Apart : Needed(n, t) => Safe(n, t)

Inv ==
  /\ TypeOK
  /\ \A c \in Thread : ThreadInv(c)
  /\ JobsApart
  /\ NamesApart
  /\ \A t \in Track : TrackInv(t)

-----------------------------------------------------------------------------
(* What a step does not touch.                                             *)

LEMMA NoNameApart == NoName \notin Name
  BY CopyAssumption DEF CopyAssumption, Name

LEMMA OtherThread ==
  ASSUME Inv, NEW d \in Thread, contested \subseteq contested',
         pc'[d] = pc[d], job'[d] = job[d], name'[d] = name[d], pos'[d] = pos[d],
         fd'[d] \in {fd[d], NoName},
         pc[d] # "idle" => transferred'[job[d]] = transferred[job[d]],
         Writing(d) /\ name[d] \notin contested' =>
           /\ fd'[d] = fd[d]
           /\ name[d] \in exists => name[d] \in exists'
           /\ content'[name[d]] = content[name[d]]
  PROVE  ThreadInv(d)'
<1>1. ThreadInv(d)
  BY DEF Inv
<1>2. pc'[d] = "copy" /\ name'[d] \notin contested' =>
        /\ fd'[d] = name'[d] /\ name'[d] \in exists'
        /\ \A i \in Piece : i <= pos'[d] => content'[name'[d]][i] = job'[d]
  BY <1>1 DEF ThreadInv, Writing
<1>3. pc'[d] = "finalize" /\ name'[d] \notin contested' =>
        name'[d] \in exists' /\ content'[name'[d]] = Whole(job'[d])
  BY <1>1 DEF ThreadInv, Whole, Writing
<1>4. fd'[d] \in {NoName, name'[d]} /\ (pc'[d] # "copy" => fd'[d] = NoName)
  BY <1>1 DEF ThreadInv
<1> QED BY <1>1, <1>2, <1>3, <1>4 DEF ThreadInv, Whole

LEMMA OtherTrack ==
  ASSUME Inv, NEW t \in Track, contested \subseteq contested',
         path'[t] = path[t], stored'[t] = stored[t], transferred'[t] = transferred[t],
         saved' = saved,
         t \in stale' <=> t \in stale, t \in risked' <=> t \in risked,
         \A n \in Apart : Needed(n, t) /\ Safe(n, t) /\ n \in Apart' => Safe(n, t)'
  PROVE  TrackInv(t)'
<1>1. TrackInv(t)
  BY DEF Inv
<1>2. ASSUME NEW n \in Apart', Needed(n, t)' PROVE Safe(n, t)'
  <2>1. n \in Apart /\ Needed(n, t)
    BY <1>2 DEF Apart, Needed
  <2> QED BY <1>1, <1>2, <2>1 DEF TrackInv
<1> QED BY <1>1, <1>2 DEF TrackInv

(* A step of one thread inside its call: it neither takes a name nor       *)
(* touches a file but its own.                                             *)
StepsAlone(c) ==
  /\ UNCHANGED tracks /\ contested' = contested
  /\ \A d \in Thread \ {c} :
       /\ pc'[d] = pc[d] /\ job'[d] = job[d] /\ name'[d] = name[d]
       /\ pos'[d] = pos[d] /\ fd'[d] \in {fd[d], NoName}
       /\ fd'[d] = fd[d] \/ (Writing(c) /\ fd[d] = name[c])
  /\ job'[c] \in {job[c], NoTrack}
  /\ Writing(c)' => Writing(c) /\ name'[c] = name[c] /\ job'[c] = job[c]
  /\ \A n \in Name : (n # name[c] \/ ~Writing(c)) =>
       content'[n] = content[n] /\ (n \in exists => n \in exists')

LEMMA StepOfOne ==
  ASSUME Inv, NEW c \in Thread, StepsAlone(c)
  PROVE  /\ \A d \in Thread \ {c} : ThreadInv(d)'
         /\ JobsApart' /\ NamesApart'
         /\ \A t \in Track : TrackInv(t)'
<1> USE DEF StepsAlone
<1>1. ASSUME NEW d \in Thread \ {c} PROVE ThreadInv(d)'
  <2>1. ASSUME Writing(d), name[d] \notin contested'
        PROVE  /\ fd'[d] = fd[d]
               /\ name[d] \in exists => name[d] \in exists'
               /\ content'[name[d]] = content[name[d]]
    <3>1. name[d] \in Apart
      BY <2>1 DEF Inv, ThreadInv, Writing, Apart
    <3>2. ~Holds(c, name[d])
      BY <2>1, <3>1 DEF Inv, NamesApart, Holds
    <3>3. fd[d] = NoName \/ fd[d] = name[d]
      BY DEF Inv, ThreadInv
    <3>4. fd'[d] = fd[d]
      BY <2>1, <3>2, <3>3 DEF Holds
    <3> QED BY <3>1, <3>2, <3>4 DEF Holds, Apart
  <2> QED BY <2>1, OtherThread DEF tracks
<1>2. JobsApart'
  BY DEF Inv, JobsApart, TypeOK
<1>3. ASSUME NEW d \in Thread, NEW n, Holds(d, n)'
      PROVE  Holds(d, n) /\ job'[d] = job[d]
  <2>1. CASE d = c
    BY <1>3, <2>1 DEF Holds
  <2>2. CASE d # c
    BY <1>3, <2>2 DEF Holds, Writing
  <2> QED BY <2>1, <2>2
<1>4. NamesApart'
  <2>1. \A t \in Track : \A n : Points(t, n)' <=> Points(t, n)
    BY DEF Points, tracks
  <2> QED BY <1>3, <2>1 DEF Inv, NamesApart, Apart
<1>5. ASSUME NEW t \in Track PROVE TrackInv(t)'
  <2>1. ASSUME NEW n \in Apart, Safe(n, t) PROVE Safe(n, t)'
    <3>1. n \in exists' /\ content'[n] = content[n]
      BY <2>1 DEF Safe, Holds, Apart
    <3> QED BY <1>3, <2>1, <3>1 DEF Safe, Whole
  <2> QED BY <2>1, OtherTrack DEF tracks
<1> QED BY <1>1, <1>2, <1>4, <1>5

-----------------------------------------------------------------------------
LEMMA InitInv == Init => Inv
<1> SUFFICES ASSUME Init PROVE Inv
  OBVIOUS
<1> USE DEF Init
<1>1. TypeOK
  <2>1. exists \subseteq Name /\ path \in [Track -> Name \cup {NoName}]
    BY CopyAssumption DEF CopyAssumption, Name
  <2>2. content \in [Name -> [Piece -> Track \cup {NoTrack}]]
    <3>1. ASSUME NEW n \in Name, \E t \in Track : AtFirst[t] = n
          PROVE  Whole(CHOOSE t \in Track : AtFirst[t] = n)
                   \in [Piece -> Track \cup {NoTrack}]
      BY <3>1 DEF Whole
    <3>2. Empty \in [Piece -> Track \cup {NoTrack}]
      BY DEF Empty
    <3> QED BY <3>1, <3>2
  <2>3. /\ transferred \in [Track -> BOOLEAN]
        /\ saved \subseteq Track /\ stale \subseteq Track /\ risked \subseteq Track
        /\ left \subseteq Name /\ contested \subseteq Name
        /\ stored \in [Track -> Name \cup {NoName}]
    BY <2>1
  <2>4. /\ pc \in [Thread -> {"idle", "probe", "open", "create", "copy", "finalize"}]
        /\ job \in [Thread -> Track \cup {NoTrack}]
        /\ name \in [Thread -> Name \cup {NoName}]
        /\ fd \in [Thread -> Name \cup {NoName}]
    OBVIOUS
  <2>5. pos \in [Thread -> 0 .. Blocks]
    BY CopyAssumption DEF CopyAssumption
  <2> QED BY <2>1, <2>2, <2>3, <2>4, <2>5 DEF TypeOK
<1>2. \A c \in Thread : ThreadInv(c)
  BY DEF ThreadInv
<1>3. JobsApart
  BY DEF JobsApart
<1>4. \A c \in Thread : \A n : ~Holds(c, n)
  BY DEF Holds, Writing
<1>5. \A t \in Track, n \in Apart : Points(t, n) <=> AtFirst[t] = n
  BY DEF Points
<1>6. NamesApart
  <2>1. \A t, u \in Track, n \in Apart : AtFirst[t] = n /\ AtFirst[u] = n => t = u
    BY CopyAssumption, NoNameApart DEF CopyAssumption, Apart
  <2> QED BY <1>4, <1>5, <2>1 DEF NamesApart
<1>7. ASSUME NEW t \in Track PROVE TrackInv(t)
  <2>1. ASSUME NEW n \in Apart, n = AtFirst[t] PROVE Safe(n, t)
    <3>1. n \in Name /\ n # NoName
      BY NoNameApart DEF Apart
    <3>2. (CHOOSE u \in Track : AtFirst[u] = n) = t
      BY <2>1, <3>1, CopyAssumption DEF CopyAssumption
    <3>3. content[n] = Whole(t)
      BY <2>1, <3>1, <3>2
    <3> QED BY <1>4, <2>1, <3>1, <3>3 DEF Safe
  <2> QED BY <2>1 DEF TrackInv, Needed
<1> QED BY <1>1, <1>2, <1>3, <1>6, <1>7 DEF Inv

-----------------------------------------------------------------------------
(* The steps of a thread.                                                  *)

LEMMA CopyFailsKeeps ==
  ASSUME Inv, NEW c \in Thread, pc[c] \in {"open", "create", "copy"}, CopyFails(c)
  PROVE  Inv'
<1> USE DEF CopyFails, Leave
<1>1. name[c] \in Name /\ TypeOK /\ Writing(c)
  BY DEF Inv, ThreadInv, Writing
<1>2. /\ exists' \subseteq exists /\ left' \subseteq left \cup {name[c]}
      /\ content' = [content EXCEPT ![name[c]] = Empty] \/ content' = content
      /\ \A d \in Thread \ {c} :
           fd'[d] = fd[d] \/ (fd'[d] = NoName /\ fd[d] = name[c])
      /\ fd' \in [Thread -> Name \cup {NoName}] /\ fd'[c] = NoName
  BY <1>1 DEF TypeOK
<1>3. TypeOK'
  <2>1. content' \in [Name -> [Piece -> Track \cup {NoTrack}]]
    BY <1>1, <1>2 DEF TypeOK, Empty
  <2>2. /\ pc' \in [Thread -> {"idle", "probe", "open", "create", "copy", "finalize"}]
        /\ job' \in [Thread -> Track \cup {NoTrack}]
        /\ name' \in [Thread -> Name \cup {NoName}]
    BY <1>1 DEF TypeOK
  <2>3. pos' \in [Thread -> 0 .. Blocks]
    BY <1>1, CopyAssumption DEF TypeOK, CopyAssumption
  <2> QED BY <1>1, <1>2, <2>1, <2>2, <2>3 DEF TypeOK, tracks
<1>4. /\ pc'[c] = "idle" /\ job'[c] = NoTrack /\ name'[c] = NoName /\ pos'[c] = 0
  BY <1>1 DEF TypeOK
<1>5. ThreadInv(c)'
  BY <1>2, <1>4 DEF ThreadInv
<1>6. StepsAlone(c)
  <2>1. \A n \in Name : n # name[c] =>
          content'[n] = content[n] /\ (n \in exists => n \in exists')
    BY <1>1 DEF TypeOK
  <2>2. \A d \in Thread \ {c} :
          /\ pc'[d] = pc[d] /\ job'[d] = job[d] /\ name'[d] = name[d]
          /\ pos'[d] = pos[d] /\ fd'[d] \in {fd[d], NoName}
          /\ fd'[d] = fd[d] \/ fd[d] = name[c]
    BY <1>1, <1>2 DEF TypeOK
  <2> QED BY <1>1, <1>4, <2>1, <2>2 DEF StepsAlone, Writing
<1> QED BY <1>3, <1>5, <1>6, StepOfOne DEF Inv

(* A thread takes a name to be unused.  If it is not contested by that,    *)
(* nobody else has it.                                                     *)
LEMMA FoundKeeps ==
  ASSUME Inv, NEW c \in Thread, pc[c] = "probe", name[c] \notin exists, Found(c),
         UNCHANGED <<job, fd, pos>>, UNCHANGED files, UNCHANGED tracks
  PROVE  Inv'
<1> USE DEF Found, files, tracks
<1> DEFINE n == name[c]
<1>1. TypeOK /\ ThreadInv(c) /\ n \in Name /\ job[c] \in Track
  BY DEF Inv, ThreadInv
<1>2. /\ contested \subseteq contested' /\ contested' \subseteq contested \cup {n}
      /\ SpokenFor(c, n) => n \in contested'
      /\ pc'[c] = "open" /\ name' = name
      /\ \A d \in Thread \ {c} : pc'[d] = pc[d]
  BY <1>1 DEF TypeOK
<1>3. TypeOK'
  <2>1. pc' \in [Thread -> {"idle", "probe", "open", "create", "copy", "finalize"}]
    BY <1>1 DEF TypeOK
  <2> QED BY <1>1, <1>2, <2>1 DEF TypeOK
<1>4. ThreadInv(c)'
  BY <1>1, <1>2 DEF ThreadInv
<1>5. ASSUME NEW d \in Thread \ {c} PROVE ThreadInv(d)'
  BY <1>2, OtherThread
<1>6. JobsApart'
  BY DEF Inv, JobsApart
<1>7. ASSUME NEW d \in Thread, NEW m PROVE Holds(d, m)' <=> Holds(d, m) \/ (d = c /\ m = n)
  <2>1. CASE d = c
    BY <1>2, <2>1 DEF Holds, Writing
  <2>2. CASE d # c
    BY <1>2, <2>2 DEF Holds, Writing
  <2> QED BY <2>1, <2>2
<1>8. NamesApart'
  <2>1. \A t \in Track : \A m : Points(t, m)' <=> Points(t, m)
    BY DEF Points
  <2>2. ASSUME n \in Apart'
        PROVE  /\ \A d \in Thread \ {c} : ~Holds(d, n)
               /\ \A t \in Track \ {job[c]} : ~Points(t, n)
    <3>1. ~SpokenFor(c, n)
      BY <1>2, <2>2 DEF Apart
    <3> QED BY <3>1 DEF SpokenFor, Holds, Points
  <2>3. Apart' \subseteq Apart
    BY <1>2 DEF Apart
  <2>4. ASSUME NEW m \in Apart'
        PROVE  /\ \A d, e \in Thread : Holds(d, m)' /\ Holds(e, m)' => d = e
               /\ \A d \in Thread, t \in Track : Holds(d, m)' /\ Points(t, m)' => t = job'[d]
               /\ \A t, u \in Track : Points(t, m)' /\ Points(u, m)' => t = u
    <3>1. CASE m = n
      BY <1>7, <2>1, <2>2, <2>3, <3>1 DEF Inv, NamesApart
    <3>2. CASE m # n
      BY <1>7, <2>1, <2>3, <3>2 DEF Inv, NamesApart
    <3> QED BY <3>1, <3>2
  <2> QED BY <2>4 DEF NamesApart
<1>9. ASSUME NEW t \in Track PROVE TrackInv(t)'
  <2>1. ASSUME NEW m \in Apart, Safe(m, t) PROVE Safe(m, t)'
    BY <1>7, <2>1 DEF Safe, Whole
  <2> QED BY <1>2, <2>1, OtherTrack
<1> QED BY <1>3, <1>4, <1>5, <1>6, <1>8, <1>9 DEF Inv

LEMMA ProbeKeeps ==
  ASSUME Inv, NEW c \in Thread, Probe(c) PROVE Inv'
<1> USE DEF Probe
<1>1. TypeOK /\ ThreadInv(c) /\ name[c] \in Name /\ pc[c] = "probe"
  BY DEF Inv, ThreadInv
<1>2. CASE name[c] \notin exists /\ Found(c)
  BY <1>1, <1>2, FoundKeeps
<1>3. CASE /\ name[c] + 1 \in Name /\ name' = [name EXCEPT ![c] = @ + 1]
           /\ UNCHANGED <<contested, pc>>
  <2>1. TypeOK'
    <3>1. name' \in [Thread -> Name \cup {NoName}]
      BY <1>1, <1>3 DEF TypeOK
    <3> QED BY <1>1, <1>3, <3>1 DEF TypeOK, tracks, files
  <2>2. name'[c] \in Name
    BY <1>1, <1>3 DEF TypeOK
  <2>3. ThreadInv(c)'
    BY <1>1, <1>3, <2>2 DEF ThreadInv, tracks, files
  <2>4. StepsAlone(c)
    BY <1>1, <1>3 DEF StepsAlone, TypeOK, Writing, files
  <2> QED BY <2>1, <2>3, <2>4, StepOfOne DEF Inv
<1> QED BY <1>2, <1>3

LEMMA OpenSourceKeeps ==
  ASSUME Inv, NEW c \in Thread, OpenSource(c) PROVE Inv'
<1>1. TypeOK /\ ThreadInv(c) /\ pc[c] = "open"
  BY DEF Inv, OpenSource
<1>2. CASE CopyFails(c)
  BY <1>1, <1>2, CopyFailsKeeps
<1>3. CASE /\ pc' = [pc EXCEPT ![c] = "create"]
           /\ UNCHANGED <<contested, job, name, fd, pos>>
           /\ UNCHANGED files /\ UNCHANGED tracks
  <2> USE <1>3
  <2>1. TypeOK' /\ pc'[c] = "create"
    BY <1>1 DEF TypeOK, files, tracks
  <2>2. ThreadInv(c)'
    BY <1>1, <2>1 DEF ThreadInv, files, tracks
  <2>3. StepsAlone(c)
    BY <1>1 DEF StepsAlone, TypeOK, Writing, files
  <2> QED BY <2>1, <2>2, <2>3, StepOfOne DEF Inv
<1> QED BY <1>2, <1>3 DEF OpenSource

LEMMA CreateKeeps ==
  ASSUME Inv, NEW c \in Thread, Create(c) PROVE Inv'
<1>1. TypeOK /\ ThreadInv(c) /\ pc[c] = "create" /\ name[c] \in Name
  BY DEF Inv, Create, ThreadInv
<1>2. CASE CopyFails(c)
  BY <1>1, <1>2, CopyFailsKeeps
<1>3. CASE /\ exists' = exists \cup {name[c]}
           /\ content' = [content EXCEPT ![name[c]] = Empty]
           /\ left' = left \ {name[c]}
           /\ fd' = [fd EXCEPT ![c] = name[c]]
           /\ pc' = [pc EXCEPT ![c] = "copy"]
           /\ UNCHANGED <<contested, job, name, pos>> /\ UNCHANGED tracks
  <2> USE <1>3
  <2>1. TypeOK' /\ pc'[c] = "copy"
    <3>1. content' \in [Name -> [Piece -> Track \cup {NoTrack}]] /\ exists' \subseteq Name
      BY <1>1 DEF TypeOK, Empty
    <3>2. /\ fd' \in [Thread -> Name \cup {NoName}] /\ pc'[c] = "copy"
          /\ pc' \in [Thread -> {"idle", "probe", "open", "create", "copy", "finalize"}]
      BY <1>1 DEF TypeOK
    <3> QED BY <1>1, <3>1, <3>2 DEF TypeOK, tracks
  <2>2. ThreadInv(c)'
    <3>1. fd'[c] = name'[c] /\ name'[c] \in exists'
      BY <1>1 DEF TypeOK
    <3>2. pos'[c] = 0 /\ \A i \in Piece : ~(i <= pos'[c])
      BY <1>1, CopyAssumption DEF ThreadInv, Piece, CopyAssumption
    <3> QED BY <1>1, <2>1, <3>1, <3>2 DEF ThreadInv, tracks
  <2>3. StepsAlone(c)
    BY <1>1 DEF StepsAlone, TypeOK, Writing
  <2> QED BY <2>1, <2>2, <2>3, StepOfOne DEF Inv
<1> QED BY <1>2, <1>3 DEF Create

LEMMA CopyBlockKeeps ==
  ASSUME Inv, NEW c \in Thread, CopyBlock(c) PROVE Inv'
<1>1. /\ TypeOK /\ ThreadInv(c) /\ pc[c] = "copy" /\ pos[c] < Blocks
      /\ name[c] \in Name /\ job[c] \in Track /\ fd[c] \in {NoName, name[c]}
  BY DEF Inv, CopyBlock, ThreadInv
<1>2. CASE CopyFails(c)
  BY <1>1, <1>2, CopyFailsKeeps
<1>3. CASE /\ content' = IF fd[c] = NoName THEN content
                         ELSE [content EXCEPT ![fd[c]][pos[c] + 1] = job[c]]
           /\ pos' = [pos EXCEPT ![c] = @ + 1]
           /\ UNCHANGED <<exists, left, contested, pc, job, name, fd>>
           /\ UNCHANGED tracks
  <2> USE <1>3
  <2>1. pos[c] \in Nat /\ pos[c] + 1 \in Piece
    BY <1>1, CopyAssumption DEF TypeOK, Piece, CopyAssumption
  <2>2. \/ content' = content /\ fd[c] = NoName
        \/ content' = [content EXCEPT ![name[c]][pos[c] + 1] = job[c]]
    BY <1>1
  <2>3. TypeOK'
    <3>1. content' \in [Name -> [Piece -> Track \cup {NoTrack}]]
      BY <1>1, <2>1, <2>2 DEF TypeOK
    <3>2. pos' \in [Thread -> 0 .. Blocks]
      BY <1>1, <2>1, CopyAssumption DEF TypeOK, CopyAssumption
    <3> QED BY <1>1, <3>1, <3>2 DEF TypeOK, tracks
  <2>4. ThreadInv(c)'
    <3>1. ASSUME name[c] \notin contested, NEW i \in Piece, i <= pos'[c]
          PROVE  content'[name[c]][i] = job[c]
      <4>1. i \in Nat /\ (i <= pos[c] \/ i = pos[c] + 1)
        BY <1>1, <2>1, <3>1 DEF TypeOK, Piece
      <4>2. content[name[c]] \in [Piece -> Track \cup {NoTrack}]
        BY <1>1 DEF TypeOK
      <4>3. fd[c] = name[c] /\ fd[c] # NoName
        BY <1>1, <3>1, NoNameApart DEF ThreadInv
      <4>4. content'[name[c]] = [content[name[c]] EXCEPT ![pos[c] + 1] = job[c]]
        BY <1>1, <2>2, <4>3 DEF TypeOK
      <4>5. CASE i <= pos[c]
        <5>1. i # pos[c] + 1 /\ content[name[c]][i] = job[c]
          BY <1>1, <2>1, <3>1, <4>1, <4>5 DEF ThreadInv
        <5> QED BY <4>2, <4>4, <5>1
      <4>6. CASE i = pos[c] + 1
        BY <4>2, <4>4, <4>6
      <4> QED BY <4>1, <4>5, <4>6
    <3> QED BY <1>1, <3>1 DEF ThreadInv, tracks
  <2>5. StepsAlone(c)
    <3>1. \A n \in Name : n # name[c] => content'[n] = content[n]
      BY <1>1, <2>2 DEF TypeOK
    <3> QED BY <1>1, <3>1 DEF StepsAlone, TypeOK, Writing
  <2> QED BY <2>3, <2>4, <2>5, StepOfOne DEF Inv
<1> QED BY <1>2, <1>3 DEF CopyBlock

(* A copy that has come to its end has written all pieces.                 *)
LEMMA CopiedWhole ==
  ASSUME Inv, NEW c \in Thread, pc[c] = "copy", pos[c] = Blocks, name[c] \notin contested
  PROVE  name[c] \in exists /\ content[name[c]] = Whole(job[c])
<1>1. TypeOK /\ ThreadInv(c) /\ name[c] \in Name
  BY DEF Inv, ThreadInv
<1>2. \A i \in Piece : i <= pos[c]
  BY CopyAssumption DEF Piece, CopyAssumption
<1>3. content[name[c]] \in [Piece -> Track \cup {NoTrack}]
  BY <1>1 DEF TypeOK
<1> QED BY <1>1, <1>2, <1>3 DEF ThreadInv, Whole

LEMMA CloseFilesKeeps ==
  ASSUME Inv, NEW c \in Thread, CloseFiles(c) PROVE Inv'
<1>1. /\ TypeOK /\ ThreadInv(c) /\ pc[c] = "copy" /\ pos[c] = Blocks
      /\ name[c] \in Name
  BY DEF Inv, CloseFiles, ThreadInv
<1>2. CASE CopyFails(c)
  BY <1>1, <1>2, CopyFailsKeeps
<1>3. CASE /\ fd' = [fd EXCEPT ![c] = NoName]
           /\ pc' = [pc EXCEPT ![c] = "finalize"]
           /\ UNCHANGED <<contested, job, name, pos>>
           /\ UNCHANGED files /\ UNCHANGED tracks
  <2> USE <1>3
  <2>1. TypeOK' /\ pc'[c] = "finalize" /\ fd'[c] = NoName
    BY <1>1 DEF TypeOK, files, tracks
  <2>2. ThreadInv(c)'
    BY <1>1, <2>1, CopiedWhole DEF ThreadInv, files, tracks, Whole
  <2>3. StepsAlone(c)
    BY <1>1 DEF StepsAlone, TypeOK, Writing, files
  <2> QED BY <2>1, <2>2, <2>3, StepOfOne DEF Inv
<1> QED BY <1>2, <1>3 DEF CloseFiles

LEMMA StartAtRandomKeeps ==
  ASSUME Inv, NEW c \in Thread, NEW t \in Track, StartAtRandom(c, t) PROVE Inv'
<1> USE DEF StartAtRandom, Start, files, tracks
<1>1. PICK n \in Numbers : name' = [name EXCEPT ![c] = n]
  OBVIOUS
<1>2. n \in Name
  BY CopyAssumption DEF CopyAssumption, Name
<1>3. TypeOK /\ ThreadInv(c) /\ pc[c] = "idle"
  BY DEF Inv
<1>4. TypeOK' /\ pc'[c] = "probe" /\ job'[c] = t /\ name'[c] = n
  BY <1>1, <1>2, <1>3 DEF TypeOK
<1>5. ThreadInv(c)'
  BY <1>2, <1>3, <1>4 DEF ThreadInv
<1>6. \A d \in Thread \ {c} :
        /\ pc'[d] = pc[d] /\ job'[d] = job[d] /\ name'[d] = name[d]
        /\ job[d] # t
  BY <1>1, <1>3 DEF TypeOK
<1>7. ASSUME NEW d \in Thread \ {c} PROVE ThreadInv(d)'
  BY <1>6, OtherThread
<1>8. JobsApart'
  BY <1>4, <1>6 DEF Inv, JobsApart
<1>9. ASSUME NEW d \in Thread, NEW m
      PROVE  (Holds(d, m)' <=> Holds(d, m)) /\ (Holds(d, m) => job'[d] = job[d])
  <2>1. CASE d = c
    BY <1>3, <1>4, <2>1 DEF Holds, Writing
  <2>2. CASE d # c
    BY <1>6, <2>2 DEF Holds, Writing
  <2> QED BY <2>1, <2>2
<1>10. NamesApart'
  BY <1>9 DEF Inv, NamesApart, Points, Apart
<1>11. ASSUME NEW u \in Track PROVE TrackInv(u)'
  <2>1. ASSUME NEW m \in Apart, Safe(m, u) PROVE Safe(m, u)'
    BY <1>9, <2>1 DEF Safe, Whole
  <2> QED BY <2>1, OtherTrack
<1> QED BY <1>4, <1>5, <1>7, <1>8, <1>10, <1>11 DEF Inv

LEMMA StartAtPathKeeps ==
  ASSUME Inv, NEW c \in Thread, NEW t \in Track, StartAtPath(c, t) PROVE Inv'
<1> USE DEF StartAtPath, Start, files, tracks
<1> DEFINE n == path[t]
<1>1. TypeOK /\ ThreadInv(c) /\ pc[c] = "idle" /\ TrackInv(t)
  BY DEF Inv
<1>2. n \in Name /\ n # NoName /\ Points(t, n)
  BY <1>1, NoNameApart DEF OnIpod, TypeOK, Points
<1>3. t \in stale /\ t \in risked
  BY <1>1, <1>2 DEF TrackInv
<1>4. TypeOK' /\ pc'[c] = "open" /\ job'[c] = t /\ name'[c] = n
  BY <1>1, <1>2 DEF TypeOK
<1>5. ThreadInv(c)'
  BY <1>1, <1>2, <1>4 DEF ThreadInv
<1>6. \A d \in Thread \ {c} :
        /\ pc'[d] = pc[d] /\ job'[d] = job[d] /\ name'[d] = name[d]
        /\ job[d] # t
  BY <1>1 DEF TypeOK
<1>7. ASSUME NEW d \in Thread \ {c} PROVE ThreadInv(d)'
  BY <1>6, OtherThread
<1>8. JobsApart'
  BY <1>4, <1>6 DEF Inv, JobsApart
<1>9. ASSUME NEW d \in Thread, NEW m
      PROVE  /\ Holds(d, m)' => Holds(d, m) \/ (d = c /\ m = n)
             /\ Holds(d, m) => d # c /\ job'[d] = job[d]
  <2>1. CASE d = c
    BY <1>1, <1>4, <2>1 DEF Holds, Writing
  <2>2. CASE d # c
    BY <1>6, <2>2 DEF Holds, Writing
  <2> QED BY <2>1, <2>2
<1>10. ASSUME n \in Apart, NEW d \in Thread PROVE ~Holds(d, n)
  <2>1. Holds(d, n) => job[d] = t
    BY <1>2, <1>10 DEF Inv, NamesApart
  <2> QED BY <1>6, <1>9, <2>1
<1>11. NamesApart'
  <2>1. \A u \in Track : \A m : Points(u, m)' <=> Points(u, m)
    BY DEF Points
  <2>2. ASSUME NEW m \in Apart
        PROVE  /\ \A d, e \in Thread : Holds(d, m)' /\ Holds(e, m)' => d = e
               /\ \A d \in Thread, u \in Track : Holds(d, m)' /\ Points(u, m) => u = job'[d]
    <3>1. CASE m = n
      BY <1>2, <1>4, <1>9, <1>10, <3>1 DEF Inv, NamesApart
    <3>2. CASE m # n
      BY <1>9, <3>2 DEF Inv, NamesApart
    <3> QED BY <3>1, <3>2
  <2>3. Apart' = Apart
    BY DEF Apart
  <2> QED BY <2>1, <2>2, <2>3 DEF Inv, NamesApart
<1>12. ASSUME NEW u \in Track PROVE TrackInv(u)'
  <2>1. ASSUME NEW m \in Apart, Safe(m, u), Needed(m, u) PROVE Safe(m, u)'
    <3>1. u # t /\ Points(u, m)
      BY <1>3, <2>1 DEF Needed, Points
    <3>2. m # n
      BY <1>2, <3>1 DEF Inv, NamesApart
    <3> QED BY <1>9, <2>1, <3>2 DEF Safe, Whole
  <2> QED BY <2>1, OtherTrack
<1> QED BY <1>4, <1>5, <1>7, <1>8, <1>11, <1>12 DEF Inv

LEMMA FinalizeKeeps ==
  ASSUME Inv, NEW c \in Thread, Finalize(c) PROVE Inv'
<1> USE DEF Finalize, Leave
<1>0. PICK n, t : n = name[c] /\ t = job[c]
  OBVIOUS
<1>1. /\ TypeOK /\ ThreadInv(c) /\ pc[c] = "finalize"
      /\ n \in Name /\ t \in Track /\ fd[c] = NoName
      /\ Holds(c, n)
  BY <1>0 DEF Inv, ThreadInv, Holds, Writing
<1>2. /\ \A u \in Track \ {t} :
           /\ path'[u] = path[u] /\ transferred'[u] = transferred[u]
           /\ u \in stale' <=> u \in stale
      /\ \/ /\ path'[t] = n /\ transferred'[t] /\ t \notin stale'
         \/ /\ path'[t] = path[t] /\ transferred'[t] = transferred[t]
            /\ t \in stale' <=> t \in stale
      /\ UNCHANGED <<contested, saved, stored, risked, exists, content, left>>
  BY <1>0, <1>1 DEF TypeOK, files
<1>3. TypeOK' /\ pc'[c] = "idle" /\ job'[c] = NoTrack /\ name'[c] = NoName
      /\ pos'[c] = 0 /\ fd'[c] = NoName
  <2>1. pos' \in [Thread -> 0 .. Blocks]
    BY <1>1, CopyAssumption DEF TypeOK, CopyAssumption
  <2>2. path' \in [Track -> Name \cup {NoName}] /\ transferred' \in [Track -> BOOLEAN]
        /\ stale' \subseteq Track
    BY <1>0, <1>1 DEF TypeOK
  <2> QED BY <1>1, <2>1, <2>2 DEF TypeOK, files
<1>4. ThreadInv(c)'
  BY <1>3 DEF ThreadInv
<1>5. \A d \in Thread \ {c} :
        /\ pc'[d] = pc[d] /\ job'[d] = job[d] /\ name'[d] = name[d]
        /\ pos'[d] = pos[d] /\ fd'[d] = fd[d]
  BY <1>1 DEF TypeOK
<1>6. ASSUME NEW d \in Thread \ {c} PROVE ThreadInv(d)'
  <2>1. pc[d] # "idle" => job[d] \in Track /\ job[d] # t
    BY <1>0, <1>1, CopyAssumption DEF Inv, ThreadInv, JobsApart, CopyAssumption
  <2> QED BY <1>2, <1>5, <2>1, OtherThread
<1>7. JobsApart'
  BY <1>3, <1>5 DEF Inv, JobsApart
<1>8. ASSUME NEW d \in Thread, NEW m, Holds(d, m)'
      PROVE  Holds(d, m) /\ d # c /\ job'[d] = job[d]
  <2>1. d # c
    BY <1>3, <1>8 DEF Holds, Writing
  <2> QED BY <1>5, <1>8, <2>1 DEF Holds, Writing
<1>9. ASSUME NEW m \in Name, NEW u \in Track, Points(u, m)'
      PROVE  Points(u, m) \/ (u = t /\ m = n)
  BY <1>2, <1>9 DEF Points
<1>10. ASSUME n \in Apart
       PROVE  /\ \A d \in Thread : ~Holds(d, n)'
              /\ \A u \in Track : Points(u, n) => u = t
  <2>1. /\ \A d \in Thread : Holds(d, n) => d = c
        /\ \A u \in Track : Points(u, n) => u = t
    BY <1>0, <1>1, <1>10 DEF Inv, NamesApart
  <2> QED BY <1>8, <2>1
<1>11. NamesApart'
  <2>1. ASSUME NEW m \in Apart
        PROVE  /\ \A d, e \in Thread : Holds(d, m)' /\ Holds(e, m)' => d = e
               /\ \A d \in Thread, u \in Track : Holds(d, m)' /\ Points(u, m)' => u = job'[d]
               /\ \A u, v \in Track : Points(u, m)' /\ Points(v, m)' => u = v
    <3>1. m \in Name
      BY DEF Apart
    <3>2. CASE m = n
      BY <1>9, <1>10, <3>1, <3>2
    <3>3. CASE m # n
      BY <1>8, <1>9, <3>1, <3>3 DEF Inv, NamesApart
    <3> QED BY <3>2, <3>3
  <2>2. Apart' = Apart
    BY <1>2 DEF Apart
  <2> QED BY <2>1, <2>2 DEF NamesApart
<1>12. ASSUME NEW m \in Apart, NEW u \in Track, Safe(m, u) PROVE Safe(m, u)'
  BY <1>2, <1>8, <1>12 DEF Safe, Whole
<1>13. ASSUME NEW u \in Track, u # t PROVE TrackInv(u)'
  BY <1>2, <1>12, <1>13, OtherTrack
<1>14. TrackInv(t)'
  <2>1. CASE /\ path'[t] = path[t] /\ transferred'[t] = transferred[t]
             /\ t \in stale' <=> t \in stale
    BY <1>1, <1>2, <1>12, <2>1, OtherTrack
  <2>2. CASE path'[t] = n /\ transferred'[t] /\ t \notin stale'
    <3>1. ASSUME NEW m \in Apart, Needed(m, t)' PROVE Safe(m, t)'
      <4>1. CASE m = n
        <5>1. n \notin contested
          BY <4>1 DEF Apart
        <5>2. n \in exists /\ content[n] = Whole(t)
          BY <1>0, <1>1, <5>1 DEF ThreadInv
        <5> QED BY <1>2, <1>10, <4>1, <5>2 DEF Safe, Whole
      <4>2. CASE m # n
        <5>1. Needed(m, t)
          BY <1>2, <2>2, <3>1, <4>2 DEF Needed
        <5> QED BY <1>1, <1>12, <5>1 DEF Inv, TrackInv
      <4> QED BY <4>1, <4>2
    <3>2. Apart' = Apart
      BY <1>2 DEF Apart
    <3>3. t \notin saved' => stored'[t] = NoName
      BY <1>1, <1>2 DEF Inv, TrackInv
    <3> QED BY <2>2, <3>1, <3>2, <3>3 DEF TrackInv
  <2> QED BY <1>2, <2>1, <2>2
<1> QED BY <1>3, <1>4, <1>6, <1>7, <1>11, <1>13, <1>14 DEF Inv

-----------------------------------------------------------------------------
(* The steps of the application.                                           *)

LEMMA UpdateKeeps ==
  ASSUME Inv, NEW t \in Track, Update(t) PROVE Inv'
<1> USE DEF Update, files
<1>1. TypeOK /\ TrackInv(t)
  BY DEF Inv
<1>2. TypeOK'
  BY <1>1 DEF TypeOK
<1>3. ASSUME NEW d \in Thread PROVE ThreadInv(d)'
  <2>1. pc[d] # "idle" => job[d] \in Track /\ job[d] # t
    BY DEF Inv, ThreadInv
  <2>2. pc[d] # "idle" => transferred'[job[d]] = transferred[job[d]]
    BY <1>1, <2>1 DEF TypeOK
  <2> QED BY <2>2, OtherThread
<1>4. JobsApart' /\ NamesApart'
  BY DEF Inv, JobsApart, NamesApart, Holds, Points, Writing, Apart
<1>5. ASSUME NEW u \in Track, NEW n, Safe(n, u) PROVE Safe(n, u)'
  BY <1>5 DEF Safe, Whole, Holds, Writing
<1>6. ASSUME NEW u \in Track, u # t PROVE TrackInv(u)'
  <2>1. transferred'[u] = transferred[u]
    BY <1>1, <1>6 DEF TypeOK
  <2> QED BY <1>5, <1>6, <2>1, OtherTrack
<1>7. TrackInv(t)'
  BY <1>1 DEF TrackInv, Needed
<1> QED BY <1>2, <1>3, <1>4, <1>6, <1>7 DEF Inv

LEMMA SaveKeeps == ASSUME Inv, Save PROVE Inv'
<1> USE DEF Save, files
<1>1. TypeOK'
  BY DEF Inv, TypeOK
<1>2. ASSUME NEW d \in Thread PROVE ThreadInv(d)'
  BY OtherThread
<1>3. JobsApart'
  BY DEF Inv, JobsApart
<1>4. NamesApart'
  <2>1. \A t \in Track : \A n : Points(t, n)' => Points(t, n)
    BY DEF Points
  <2>2. \A c \in Thread : \A n : Holds(c, n)' <=> Holds(c, n)
    BY DEF Holds, Writing
  <2> QED BY <2>1, <2>2 DEF Inv, NamesApart, Apart
<1>5. ASSUME NEW t \in Track PROVE TrackInv(t)'
  <2>1. ASSUME NEW n \in Apart, Needed(n, t)' PROVE Safe(n, t)'
    <3>1. Needed(n, t)
      BY <2>1 DEF Needed
    <3>2. Safe(n, t)
      BY <3>1 DEF Inv, TrackInv
    <3> QED BY <3>2 DEF Safe, Whole, Holds, Writing
  <2> QED BY <2>1 DEF Inv, TrackInv, Apart
<1> QED BY <1>1, <1>2, <1>3, <1>4, <1>5 DEF Inv

LEMMA RestartKeeps == ASSUME Inv, Restart PROVE Inv'
<1> USE DEF Restart
<1>1. TypeOK
  BY DEF Inv
<1>2. TypeOK'
  <2>1. left' \subseteq Name
    BY <1>1 DEF TypeOK, Inv, ThreadInv
  <2>2. pos' \in [Thread -> 0 .. Blocks]
    BY CopyAssumption DEF CopyAssumption
  <2>3. fd' \in [Thread -> Name \cup {NoName}] /\ name' \in [Thread -> Name \cup {NoName}]
    OBVIOUS
  <2> QED BY <1>1, <2>1, <2>2, <2>3 DEF TypeOK
<1>3. ASSUME NEW d \in Thread PROVE ThreadInv(d)'
  BY DEF ThreadInv
<1>4. JobsApart'
  BY DEF JobsApart
<1>5. \A c \in Thread : \A n : ~Holds(c, n)'
  BY DEF Holds, Writing
<1>6. NamesApart'
  <2>1. \A t \in Track : \A n : Points(t, n)' => Points(t, n)
    BY DEF Points
  <2> QED BY <1>5, <2>1 DEF Inv, NamesApart, Apart
<1>7. ASSUME NEW t \in Track PROVE TrackInv(t)'
  <2>1. TrackInv(t)
    BY DEF Inv
  <2>2. ASSUME NEW n \in Apart, Needed(n, t)' PROVE Safe(n, t)'
    <3>1. Needed(n, t)
      BY <2>2 DEF Needed
    <3>2. Safe(n, t)
      BY <2>1, <3>1 DEF TrackInv
    <3> QED BY <1>5, <3>2 DEF Safe, Whole
  <2>3. transferred'[t] <=> t \in saved
    OBVIOUS
  <2> QED BY <2>1, <2>2, <2>3 DEF TrackInv, Apart
<1> QED BY <1>2, <1>3, <1>4, <1>6, <1>7 DEF Inv

LEMMA StutterKeeps == ASSUME Inv, UNCHANGED vars PROVE Inv'
<1> USE DEF vars
<1>1. TypeOK'
  BY DEF Inv, TypeOK
<1>2. ASSUME NEW d \in Thread PROVE ThreadInv(d)'
  BY OtherThread
<1>3. JobsApart' /\ NamesApart'
  BY DEF Inv, JobsApart, NamesApart, Holds, Points, Writing, Apart
<1>4. ASSUME NEW t \in Track PROVE TrackInv(t)'
  <2>1. ASSUME NEW n \in Apart, Safe(n, t) PROVE Safe(n, t)'
    BY <2>1 DEF Safe, Whole, Holds, Writing
  <2> QED BY <2>1, OtherTrack
<1> QED BY <1>1, <1>2, <1>3, <1>4 DEF Inv

LEMMA NextKeeps == ASSUME Inv, [Next]_vars PROVE Inv'
<1>1. CASE UNCHANGED vars
  BY <1>1, StutterKeeps
<1>2. ASSUME NEW c \in Thread, Step(c) PROVE Inv'
  BY <1>2, ProbeKeeps, OpenSourceKeeps, CreateKeeps, CopyBlockKeeps, CloseFilesKeeps,
     FinalizeKeeps DEF Step
<1>3. ASSUME NEW c \in Thread, NEW t \in Track, StartAtPath(c, t) \/ StartAtRandom(c, t)
      PROVE  Inv'
  BY <1>3, StartAtPathKeeps, StartAtRandomKeeps
<1>4. ASSUME NEW t \in Track, Update(t) PROVE Inv'
  BY <1>4, UpdateKeeps
<1>5. CASE Save \/ Restart
  BY <1>5, SaveKeeps, RestartKeeps
<1> QED BY <1>1, <1>2, <1>3, <1>4, <1>5 DEF Next

-----------------------------------------------------------------------------
(* Inv holds throughout, whatever numbers the threads draw.                *)
THEOREM Invariant == Spec => []Inv
<1>1. Inv /\ [Next]_vars => Inv'
  BY NextKeeps
<1> QED BY <1>1, InitInv, PTL DEF Spec

(* The types of the variables, which depend on no thread writing past the  *)
(* end of the file it has open (itdb_cp).                                  *)
THEOREM TypesCorrect == Spec => []TypeOK
<1>1. Inv => TypeOK
  BY DEF Inv
<1> QED BY <1>1, Invariant, PTL

(* A track that counts as transferred and has a path has its whole file on *)
(* the iPod unless that very file is being replaced or its name was        *)
(* contested (itdb_cp_finalize).                                           *)
THEOREM TransferredWholeCorrect == Spec => []TransferredWhole
<1>1. Inv => TransferredWhole
  BY DEF Inv, TrackInv, TransferredWhole, Needed, Safe
<1> QED BY <1>1, Invariant, PTL

(* The same of the tracks of the database on the iPod, in the middle of    *)
(* any copy (itdb_cp).                                                     *)
THEOREM StoredWholeCorrect == Spec => []StoredWhole
<1>1. Inv => StoredWhole
  BY DEF Inv, TrackInv, StoredWhole, Needed, Safe
<1> QED BY <1>1, Invariant, PTL

(* Two tracks have one file only if its name was found unused while it was *)
(* spoken for (itdb_cp_get_dest_filename).                                 *)
THEOREM OwnFileCorrect == Spec => []OwnFile
<1>1. Inv => OwnFile
  BY DEF Inv, NamesApart, Points, OwnFile
<1> QED BY <1>1, Invariant, PTL

-----------------------------------------------------------------------------
(* What failed copies leave: a file that is not whole has a thread that is *)
(* copying it, or could not be removed.                                    *)
Accounted(n) ==
  \/ n \in left \cup contested
  \/ \E t \in Track : content[n] = Whole(t)
  \/ \E c \in Thread : name[c] = n /\ pc[c] = "copy"

NoRest == \A n \in exists : Accounted(n)

LEMMA StepOfOneAccounts ==
  ASSUME NoRest, NEW c \in Thread, contested \subseteq contested',
         \A d \in Thread \ {c} : pc'[d] = pc[d] /\ name'[d] = name[d],
         \A n \in exists' : n # name[c] =>
           n \in exists /\ content'[n] = content[n] /\ (n \in left => n \in left'),
         \A n \in exists' : n = name[c] => Accounted(n)'
  PROVE  NoRest'
<1> SUFFICES ASSUME NEW n \in exists', n # name[c] PROVE Accounted(n)'
  BY DEF NoRest
<1>1. n \in exists /\ content'[n] = content[n] /\ (n \in left => n \in left')
  OBVIOUS
<1>2. Accounted(n)
  BY <1>1 DEF NoRest
<1> QED BY <1>1, <1>2 DEF Accounted, Whole

(* The same of a step that leaves the files and does not end a copy.       *)
LEMMA StepAsideAccounts ==
  ASSUME NoRest, NEW c \in Thread, contested \subseteq contested', UNCHANGED files,
         \A d \in Thread \ {c} : pc'[d] = pc[d] /\ name'[d] = name[d],
         pc[c] # "copy"
  PROVE  NoRest'
<1> SUFFICES ASSUME NEW n \in exists' PROVE Accounted(n)'
  BY DEF NoRest
<1>1. Accounted(n) /\ content'[n] = content[n] /\ left' = left
  BY DEF NoRest, files
<1> QED BY <1>1 DEF Accounted, Whole

LEMMA CopyFailsAccounts ==
  ASSUME Inv, NoRest, NEW c \in Thread, pc[c] \in {"open", "create", "copy"}, CopyFails(c)
  PROVE  NoRest'
<1> USE DEF CopyFails, Leave
<1>1. TypeOK /\ \A d \in Thread \ {c} : pc'[d] = pc[d] /\ name'[d] = name[d]
  BY DEF Inv, TypeOK
<1>2. CASE /\ exists' = exists \ {name[c]} /\ left' = left \ {name[c]}
           /\ content' = [content EXCEPT ![name[c]] = Empty]
  BY <1>1, <1>2, StepOfOneAccounts DEF TypeOK
<1>3. CASE /\ left' = IF pc[c] = "copy" THEN left \cup {name[c]} ELSE left
           /\ UNCHANGED <<exists, content>>
  <2>1. CASE pc[c] = "copy"
    <3>2. ASSUME NEW n \in exists', n = name[c] PROVE Accounted(n)'
      <4>1. n \in left'
        BY <1>3, <2>1, <3>2
      <4> QED BY <4>1 DEF Accounted
    <3> QED BY <1>1, <1>3, <2>1, <3>2, StepOfOneAccounts
  <2>2. CASE pc[c] # "copy"
    BY <1>1, <1>3, <2>2, StepAsideAccounts DEF files
  <2> QED BY <2>1, <2>2
<1> QED BY <1>2, <1>3

LEMMA ThreadAccounts ==
  ASSUME Inv, NoRest, NEW c \in Thread, Step(c) PROVE NoRest'
<1>1. TypeOK /\ ThreadInv(c)
  BY DEF Inv
<1>2. CASE CopyFails(c) /\ pc[c] \in {"open", "create", "copy"}
  BY <1>2, CopyFailsAccounts
<1>3. CASE Probe(c)
  <2>1. \A d \in Thread \ {c} : pc'[d] = pc[d] /\ name'[d] = name[d]
    BY <1>1, <1>3 DEF Probe, Found, TypeOK
  <2>2. contested \subseteq contested'
    BY <1>3 DEF Probe, Found
  <2> QED BY <1>3, <2>1, <2>2, StepAsideAccounts DEF Probe
<1>4. CASE OpenSource(c)
  <2>1. CASE pc' = [pc EXCEPT ![c] = "create"] /\ UNCHANGED <<contested, name>>
             /\ UNCHANGED files /\ pc[c] = "open"
    BY <1>1, <2>1, StepAsideAccounts DEF TypeOK
  <2> QED BY <1>2, <1>4, <2>1 DEF OpenSource
<1>5. CASE Create(c)
  <2>1. CASE /\ pc' = [pc EXCEPT ![c] = "copy"] /\ exists' = exists \cup {name[c]}
             /\ content' = [content EXCEPT ![name[c]] = Empty]
             /\ left' = left \ {name[c]}
             /\ UNCHANGED <<contested, name>> /\ pc[c] = "create"
    <3>1. \A n \in exists' : n # name[c] =>
            n \in exists /\ content'[n] = content[n] /\ (n \in left => n \in left')
      BY <1>1, <2>1 DEF TypeOK
    <3>2. ASSUME NEW n \in exists', n = name[c] PROVE Accounted(n)'
      <4>1. pc'[c] = "copy" /\ name'[c] = n
        BY <1>1, <2>1, <3>2 DEF TypeOK
      <4> QED BY <4>1 DEF Accounted
    <3> QED BY <1>1, <2>1, <3>1, <3>2, StepOfOneAccounts DEF TypeOK
  <2> QED BY <1>2, <1>5, <2>1 DEF Create
<1>6. CASE CopyBlock(c)
  <2>1. CASE /\ UNCHANGED <<exists, left, contested, pc, name>> /\ pc[c] = "copy"
             /\ content' = IF fd[c] = NoName THEN content
                           ELSE [content EXCEPT ![fd[c]][pos[c] + 1] = job[c]]
    <3>1. \A n \in exists' : n # name[c] => content'[n] = content[n]
      BY <1>1, <2>1 DEF TypeOK, ThreadInv
    <3>2. \A n \in exists' : n = name[c] => Accounted(n)'
      BY <2>1 DEF Accounted
    <3> QED BY <2>1, <3>1, <3>2, StepOfOneAccounts
  <2> QED BY <1>2, <1>6, <2>1 DEF CopyBlock
<1>7. CASE CloseFiles(c)
  <2>1. CASE pc' = [pc EXCEPT ![c] = "finalize"] /\ UNCHANGED <<contested, name>>
             /\ UNCHANGED files /\ pc[c] = "copy" /\ pos[c] = Blocks
    <3>1. job[c] \in Track
      BY <1>1, <2>1 DEF ThreadInv
    <3>2. \A n \in exists' : n = name[c] => Accounted(n)'
      <4>1. CASE name[c] \in contested
        BY <2>1, <4>1 DEF Accounted
      <4>2. CASE name[c] \notin contested
        <5>1. content'[name[c]] = Whole(job[c])
          BY <2>1, <4>2, CopiedWhole DEF files
        <5> QED BY <3>1, <5>1 DEF Accounted, Whole
      <4> QED BY <4>1, <4>2
    <3> QED BY <1>1, <2>1, <3>2, StepOfOneAccounts DEF files, TypeOK
  <2> QED BY <1>2, <1>7, <2>1 DEF CloseFiles
<1>8. CASE Finalize(c)
  <2>1. \A d \in Thread \ {c} : pc'[d] = pc[d] /\ name'[d] = name[d]
    BY <1>1, <1>8 DEF Finalize, Leave, TypeOK
  <2> QED BY <1>8, <2>1, StepAsideAccounts DEF Finalize
<1> QED BY <1>3, <1>4, <1>5, <1>6, <1>7, <1>8 DEF Step

LEMMA NextAccounts == ASSUME Inv, NoRest, [Next]_vars PROVE NoRest'
<1>1. CASE UNCHANGED vars
  BY <1>1 DEF vars, NoRest, Accounted, Whole
<1>2. ASSUME NEW c \in Thread, Step(c) PROVE NoRest'
  BY <1>2, ThreadAccounts
<1>3. ASSUME NEW c \in Thread, NEW t \in Track, StartAtPath(c, t) \/ StartAtRandom(c, t)
      PROVE  NoRest'
  <2>1. /\ pc[c] = "idle" /\ UNCHANGED files /\ contested' = contested
        /\ \A d \in Thread \ {c} : pc'[d] = pc[d] /\ name'[d] = name[d]
    BY <1>3 DEF StartAtPath, StartAtRandom, Start, Inv, TypeOK
  <2> QED BY <2>1, StepAsideAccounts
<1>4. CASE Save \/ \E t \in Track : Update(t)
  <2>1. UNCHANGED <<exists, content, left, contested, pc, name>>
    BY <1>4 DEF Save, Update, files
  <2> QED BY <2>1 DEF NoRest, Accounted, Whole
<1>5. CASE Restart
  <2>1. /\ UNCHANGED <<exists, content, contested>> /\ left \subseteq left'
        /\ \A c \in Thread : pc[c] = "copy" => name[c] \in left'
    BY <1>5 DEF Restart
  <2> QED BY <2>1 DEF NoRest, Accounted, Whole
<1> QED BY <1>1, <1>2, <1>3, <1>4, <1>5 DEF Next

(* A copy that fails leaves nothing behind: a file that is not whole is    *)
(* being written, or was when the program ended, or could not be removed   *)
(* (itdb_cp).                                                              *)
THEOREM NothingPartialCorrect == Spec => []NothingPartial
<1>1. Init => NoRest
  <2> SUFFICES ASSUME Init PROVE NoRest
    OBVIOUS
  <2>1. ASSUME NEW n \in exists PROVE \E t \in Track : content[n] = Whole(t)
    <3>1. n \in Name /\ \E t \in Track : AtFirst[t] = n
      BY CopyAssumption DEF Init, CopyAssumption, Name
    <3> QED BY <3>1 DEF Init
  <2> QED BY <2>1 DEF NoRest, Accounted
<1>2. NoRest => NothingPartial
  BY DEF NoRest, Accounted, NothingPartial, Apart
<1>3. Inv /\ NoRest /\ [Next]_vars => NoRest'
  BY NextAccounts
<1> QED BY <1>1, <1>2, <1>3, Invariant, PTL DEF Spec
=============================================================================
