------------------------ MODULE SmartPlaylistProofs ------------------------
(***************************************************************************)
(* Proofs about the smart playlists of SmartPlaylist: what a fill takes    *)
(* from a list is right for the limit, what an update finds depends only   *)
(* on the playlists that the rules name, and from that what one update, a  *)
(* pass over all playlists and repeated passes leave.                      *)
(***************************************************************************)
EXTENDS SmartPlaylist, GListProofs, FiniteSetTheorems

-----------------------------------------------------------------------------
(* Loops: LET functions over the turns of a loop.                          *)

(* A loop of N turns: what each makes of a value, and the values it makes. *)
Turns(step, N, V) == step \in [1 .. N -> [V -> V]]
Loop(f, base, step, N, V) ==
  /\ f \in [0 .. N -> V]
  /\ f[0] = base
  /\ \A n \in 1 .. N : f[n] = step[n][f[n - 1]]

(* A loop that goes through a list computes a function of the number of    *)
(* turns.                                                                  *)
LEMMA LoopSteps ==
  ASSUME NEW V, NEW base \in V, NEW N \in Nat, NEW step, Turns(step, N, V)
  PROVE  \E f : Loop(f, base, step, N, V)
<1> DEFINE Turn(f, n) == IF n = 0 THEN base ELSE step[n][f[n - 1]]
           Upto(m) == \E f \in [0 .. m -> V] : f = [n \in 0 .. m |-> Turn(f, n)]
           Good == {m \in Nat : m <= N => Upto(m)}
<1> USE DEF Turns
<1>1. 0 \in Good
  <2> DEFINE f == [n \in 0 .. 0 |-> base]
  <2>1. f = [n \in 0 .. 0 |-> Turn(f, n)]
    OBVIOUS
  <2>2. f \in [0 .. 0 -> V]
    OBVIOUS
  <2> HIDE DEF f, Turn
  <2> QED BY <2>1, <2>2
<1>2. ASSUME NEW m \in Good PROVE m + 1 \in Good
  <2> SUFFICES ASSUME m + 1 <= N PROVE Upto(m + 1)
    <3> HIDE DEF Upto
    <3> QED OBVIOUS
  <2>1. m \in Nat /\ m + 1 \in Nat /\ m <= N
    OBVIOUS
  <2>2. PICK f \in [0 .. m -> V] : f = [n \in 0 .. m |-> Turn(f, n)]
    <3> HIDE DEF Turn
    <3> QED BY <2>1
  <2> DEFINE g == [n \in 0 .. m + 1 |-> Turn(f, n)]
  <2>3. \A n \in 0 .. m : g[n] = f[n]
    <3> HIDE DEF Turn
    <3>1. \A n \in 0 .. m : f[n] = Turn(f, n)
      BY <2>2
    <3> QED BY <2>1, <3>1
  <2>4. g \in [0 .. m + 1 -> V]
    <3> SUFFICES ASSUME NEW n \in 0 .. m + 1 PROVE Turn(f, n) \in V
      OBVIOUS
    <3>1. CASE n = 0
      BY <3>1
    <3>2. CASE n # 0
      <4>1. n - 1 \in 0 .. m /\ n \in 1 .. N
        BY <2>1, <3>2
      <4>2. step[n] \in [V -> V] /\ f[n - 1] \in V
        BY <4>1
      <4> QED BY <3>2, <4>2
    <3> QED BY <3>1, <3>2
  <2> HIDE DEF g
  <2>5. \A n \in 0 .. m + 1 : Turn(f, n) = Turn(g, n)
    <3> SUFFICES ASSUME NEW n \in 0 .. m + 1 PROVE Turn(f, n) = Turn(g, n)
      OBVIOUS
    <3>1. CASE n = 0
      BY <3>1
    <3>2. CASE n # 0
      <4>1. n - 1 \in 0 .. m
        BY <2>1, <3>2
      <4>2. g[n - 1] = f[n - 1]
        BY <2>3, <4>1
      <4> QED BY <3>2, <4>2
    <3> QED BY <3>1, <3>2
  <2>6. g = [n \in 0 .. m + 1 |-> Turn(g, n)]
    <3> HIDE DEF Turn
    <3> QED BY <2>5 DEF g
  <2> HIDE DEF Turn
  <2> QED BY <2>4, <2>6
<1>3. Upto(N)
  <2>1. Good \in SUBSET Nat
    OBVIOUS
  <2> HIDE DEF Good
  <2>2. N \in Good
    BY <1>1, <1>2, <2>1, EveryNatural
  <2> HIDE DEF Upto
  <2> QED BY <2>2 DEF Good
<1>4. PICK f \in [0 .. N -> V] : f = [n \in 0 .. N |-> Turn(f, n)]
  <2> HIDE DEF Turn
  <2> QED BY <1>3
<1>5. \A n \in 0 .. N : f[n] = Turn(f, n)
  <2> HIDE DEF Turn
  <2> QED BY <1>4
<1>6. f[0] = base /\ \A n \in 1 .. N : f[n] = step[n][f[n - 1]]
  BY <1>5
<1> QED BY <1>6 DEF Loop

(* The sum over the library, one track after the other.                    *)
Sums(f, pref, S) ==
  /\ f \in [0 .. Len(Library) -> Nat]
  /\ f[0] = 0
  /\ \A n \in 1 .. Len(Library) :
       f[n] = IF Library[n] \in S THEN f[n - 1] + Value(pref, Library[n]) ELSE f[n - 1]

(* What a track counts for a limit is a natural number.                    *)
LEMMA ValueNatural == \A pref : \A t \in Track : Value(pref, t) \in Nat
BY SmartAssumption DEF Value

(* Total goes through the library so.                                      *)
LEMMA TotalSteps ==
  ASSUME NEW pref, NEW S
  PROVE  \E f : Sums(f, pref, S) /\ Total(pref, S) = f[Len(Library)]
<1> DEFINE N == Len(Library)
           Turn(f, n) == IF n = 0 THEN 0
                         ELSE IF Library[n] \in S THEN f[n - 1] + Value(pref, Library[n])
                              ELSE f[n - 1]
           step == [n \in 1 .. N |-> [x \in Nat |->
                      IF Library[n] \in S THEN x + Value(pref, Library[n]) ELSE x]]
           sum == CHOOSE f : f = [n \in 0 .. N |-> Turn(f, n)]
<1>1. N \in Nat /\ \A n \in 1 .. N : Library[n] \in Track
  BY SmartAssumption
<1>2. step \in [1 .. N -> [Nat -> Nat]]
  <2> SUFFICES ASSUME NEW n \in 1 .. N, NEW x \in Nat
               PROVE  (IF Library[n] \in S THEN x + Value(pref, Library[n]) ELSE x) \in Nat
    OBVIOUS
  <2>1. Value(pref, Library[n]) \in Nat
    BY <1>1, ValueNatural
  <2> QED BY <2>1
<1> HIDE DEF N
<1>3. PICK f : Loop(f, 0, step, N, Nat)
  <2> HIDE DEF step
  <2>1. 0 \in Nat
    OBVIOUS
  <2>2. Turns(step, N, Nat)
    BY <1>2 DEF Turns, step
  <2> QED BY <1>1, <2>1, <2>2, LoopSteps
<1>4. \A n \in 0 .. N : f[n] = Turn(f, n)
  <2> SUFFICES ASSUME NEW n \in 0 .. N PROVE f[n] = Turn(f, n)
    OBVIOUS
  <2>1. n = 0 \/ f[n] = step[n][f[n - 1]]
    <3> HIDE DEF step
    <3> QED BY <1>1, <1>3 DEF Loop
  <2>2. CASE n = 0
    BY <1>3, <2>2 DEF Loop
  <2>3. CASE n # 0
    <3>1. n \in 1 .. N /\ n - 1 \in 0 .. N
      BY <1>1, <2>3
    <3>2. f[n - 1] \in Nat
      BY <1>3, <3>1 DEF Loop
    <3> QED BY <2>1, <2>3, <3>1, <3>2
  <2> QED BY <2>2, <2>3
<1>5. f = [n \in 0 .. N |-> Turn(f, n)]
  <2> HIDE DEF Turn
  <2>1. f \in [0 .. N -> Nat]
    BY <1>3 DEF Loop
  <2> QED BY <1>4, <2>1
<1>6. sum = [n \in 0 .. N |-> Turn(sum, n)]
  <2> HIDE DEF Turn
  <2> QED BY <1>5
<1>7. Total(pref, S) = sum[N]
  BY DEF Total, N
<1> HIDE DEF sum
<1>8. sum[0] = 0
  BY <1>1, <1>6
<1>9. \A n \in 1 .. N : sum[n] = IF Library[n] \in S THEN sum[n - 1] + Value(pref, Library[n])
                                 ELSE sum[n - 1]
  <2> SUFFICES ASSUME NEW n \in 1 .. N
               PROVE  sum[n] = IF Library[n] \in S THEN sum[n - 1] + Value(pref, Library[n])
                               ELSE sum[n - 1]
    OBVIOUS
  <2>1. n \in 0 .. N /\ n # 0
    BY <1>1
  <2>2. sum[n] = Turn(sum, n)
    <3> HIDE DEF Turn
    <3> QED BY <1>6, <2>1
  <2> QED BY <2>1, <2>2
<1>10. sum \in [0 .. N -> Nat]
  <2>1. DOMAIN sum = 0 .. N /\ sum = [n \in 0 .. N |-> sum[n]]
    <3> HIDE DEF Turn
    <3> QED BY <1>6
  <2> DEFINE Good == {n \in Nat : n <= N => sum[n] \in Nat}
  <2>2. 0 \in Good
    BY <1>8
  <2>3. ASSUME NEW n \in Good PROVE n + 1 \in Good
    <3> SUFFICES ASSUME n + 1 <= N PROVE sum[n + 1] \in Nat
      OBVIOUS
    <3>1. n \in Nat /\ n + 1 \in 1 .. N /\ (n + 1) - 1 = n /\ sum[n] \in Nat
      BY <1>1
    <3>2. Value(pref, Library[n + 1]) \in Nat
      BY <1>1, <3>1, ValueNatural
    <3> QED BY <1>9, <3>1, <3>2
  <2>4. \A n \in Nat : n \in Good
    <3>1. Good \in SUBSET Nat
      OBVIOUS
    <3> HIDE DEF Good
    <3> QED BY <2>2, <2>3, <3>1, EveryNatural
  <2>5. \A n \in 0 .. N : sum[n] \in Nat
    BY <1>1, <2>4
  <2> QED BY <2>1, <2>5
<1> HIDE DEF Turn, step
<1>11. Sums(sum, pref, S)
  BY <1>8, <1>9, <1>10 DEF N, Sums
<1> QED BY <1>7, <1>11 DEF N

(* What the loop of the limit carries along.                               *)
Sofar == [total : Nat, taken : Seq(Track)]

(* A turn of the loop of the limit keeps the types.                        *)
LEMMA TakeType ==
  ASSUME NEW pref, NEW sofar \in Sofar, NEW t \in Track
  PROVE  Take(pref, sofar, t) \in Sofar
<1>1. sofar.total \in Nat /\ sofar.taken \in Seq(Track) /\ Value(pref, t) \in Nat
  BY ValueNatural DEF Sofar
<1>2. sofar.total + Value(pref, t) \in Nat /\ Append(sofar.taken, t) \in Seq(Track)
  BY <1>1
<1>3. [total |-> sofar.total + Value(pref, t), taken |-> Append(sofar.taken, t)] \in Sofar
  BY <1>2 DEF Sofar
<1> QED BY <1>3 DEF Take

(* The loop of the limit, one track after the other.                       *)
LEMMA LimitSteps ==
  ASSUME NEW pref, NEW list \in Seq(Track)
  PROVE  \E f \in [0 .. Len(list) -> Sofar] :
           /\ f[0] = [total |-> 0, taken |-> <<>>]
           /\ \A n \in 1 .. Len(list) : f[n] = Take(pref, f[n - 1], list[n])
           /\ Limited(pref, list) = f[Len(list)].taken
<1> DEFINE N == Len(list)
           base == [total |-> 0, taken |-> <<>>]
           Turn(f, n) == IF n = 0 THEN base ELSE Take(pref, f[n - 1], list[n])
           step == [n \in 1 .. N |-> [x \in Sofar |-> Take(pref, x, list[n])]]
           after == CHOOSE f : f = [n \in 0 .. N |-> Turn(f, n)]
<1>1. N \in Nat /\ \A n \in 1 .. N : list[n] \in Track
  OBVIOUS
<1>2. base \in Sofar
  BY DEF Sofar
<1>3. Turns(step, N, Sofar)
  <2> SUFFICES ASSUME NEW n \in 1 .. N, NEW x \in Sofar
               PROVE  Take(pref, x, list[n]) \in Sofar
    BY DEF Turns
  <2> QED BY <1>1, TakeType
<1> HIDE DEF N, base
<1>4. PICK f : Loop(f, base, step, N, Sofar)
  <2> HIDE DEF step
  <2> QED BY <1>1, <1>2, <1>3, LoopSteps
<1>5. f \in [0 .. N -> Sofar]
  BY <1>4 DEF Loop
<1>6. \A n \in 0 .. N : f[n] = Turn(f, n)
  <2> SUFFICES ASSUME NEW n \in 0 .. N PROVE f[n] = Turn(f, n)
    OBVIOUS
  <2>1. CASE n = 0
    BY <1>4, <2>1 DEF Loop
  <2>2. CASE n # 0
    <3>1. n \in 1 .. N /\ n - 1 \in 0 .. N
      BY <1>1, <2>2
    <3>2. f[n - 1] \in Sofar
      BY <1>5, <3>1
    <3>3. f[n] = step[n][f[n - 1]]
      BY <1>4, <3>1 DEF Loop
    <3> QED BY <2>2, <3>1, <3>2, <3>3
  <2> QED BY <2>1, <2>2
<1>7. f = [n \in 0 .. N |-> Turn(f, n)]
  <2> HIDE DEF Turn
  <2> QED BY <1>5, <1>6
<1>8. after = [n \in 0 .. N |-> Turn(after, n)]
  <2> HIDE DEF Turn
  <2> QED BY <1>7
<1>9. Limited(pref, list) = after[N].taken
  BY DEF Limited, N, base
<1> HIDE DEF after
<1>10. after[0] = base
  BY <1>1, <1>8
<1>11. \A n \in 1 .. N : after[n] = Take(pref, after[n - 1], list[n])
  <2> SUFFICES ASSUME NEW n \in 1 .. N PROVE after[n] = Take(pref, after[n - 1], list[n])
    OBVIOUS
  <2>1. n \in 0 .. N /\ n # 0
    BY <1>1
  <2>2. after[n] = Turn(after, n)
    <3> HIDE DEF Turn
    <3> QED BY <1>8, <2>1
  <2> QED BY <2>1, <2>2
<1>12. after \in [0 .. N -> Sofar]
  <2>1. after = [n \in 0 .. N |-> after[n]]
    <3> HIDE DEF Turn
    <3> QED BY <1>8
  <2> DEFINE Good == {n \in Nat : n <= N => after[n] \in Sofar}
  <2>2. 0 \in Good
    BY <1>2, <1>10
  <2>3. ASSUME NEW n \in Good PROVE n + 1 \in Good
    <3> SUFFICES ASSUME n + 1 <= N PROVE after[n + 1] \in Sofar
      OBVIOUS
    <3>1. n \in Nat /\ n + 1 \in 1 .. N /\ (n + 1) - 1 = n /\ after[n] \in Sofar
      BY <1>1
    <3>2. list[n + 1] \in Track
      BY <1>1, <3>1
    <3>3. Take(pref, after[n], list[n + 1]) \in Sofar
      BY <3>1, <3>2, TakeType
    <3> QED BY <1>11, <3>1, <3>3
  <2>4. \A n \in Nat : n \in Good
    <3>1. Good \in SUBSET Nat
      OBVIOUS
    <3> HIDE DEF Good
    <3> QED BY <2>2, <2>3, <3>1, EveryNatural
  <2>5. \A n \in 0 .. N : after[n] \in Sofar
    BY <1>1, <2>4
  <2> QED BY <2>1, <2>5
<1> HIDE DEF Turn, step
<1> QED BY <1>9, <1>10, <1>11, <1>12 DEF N, base

(* The updates of a list of playlists, one after the other.                *)
Members == [Playlist -> Seq(Track)]

(* UpdatedAll goes through its list so, if what it fills in are tracks.    *)
LEMMA UpdatedSteps ==
  ASSUME members \in Members, NEW list \in Seq(Playlist), NEW luck,
         \A p \in Playlist, mem \in Members :
           (\E i \in DOMAIN list : list[i] = p) => Refilled(p, mem, luck) \in Seq(Track)
  PROVE  \E f \in [0 .. Len(list) -> Members] :
           /\ f[0] = members
           /\ \A n \in 1 .. Len(list) : f[n] = Updated(list[n], f[n - 1], luck)
           /\ UpdatedAll(list, luck) = f[Len(list)]
<1> DEFINE N == Len(list)
           Turn(f, n) == IF n = 0 THEN members ELSE Updated(list[n], f[n - 1], luck)
           step == [n \in 1 .. N |-> [x \in Members |-> Updated(list[n], x, luck)]]
           after == CHOOSE f : f = [n \in 0 .. N |-> Turn(f, n)]
<1>1. N \in Nat /\ \A n \in 1 .. N : list[n] \in Playlist
  OBVIOUS
<1>2. \A n \in 1 .. N, x \in Members : Updated(list[n], x, luck) \in Members
  <2> SUFFICES ASSUME NEW n \in 1 .. N, NEW x \in Members
               PROVE  Updated(list[n], x, luck) \in Members
    OBVIOUS
  <2>1. list[n] \in Playlist /\ n \in DOMAIN list
    OBVIOUS
  <2>2. Refilled(list[n], x, luck) \in Seq(Track)
    BY <2>1
  <2> QED BY <2>2 DEF Updated, Members
<1>3. Turns(step, N, Members)
  BY <1>2 DEF Turns
<1> HIDE DEF N
<1>4. PICK f : Loop(f, members, step, N, Members)
  <2> HIDE DEF step
  <2> QED BY <1>1, <1>3, LoopSteps
<1>5. f \in [0 .. N -> Members]
  BY <1>4 DEF Loop
<1>6. \A n \in 0 .. N : f[n] = Turn(f, n)
  <2> SUFFICES ASSUME NEW n \in 0 .. N PROVE f[n] = Turn(f, n)
    OBVIOUS
  <2>1. CASE n = 0
    BY <1>4, <2>1 DEF Loop
  <2>2. CASE n # 0
    <3>1. n \in 1 .. N /\ n - 1 \in 0 .. N
      BY <1>1, <2>2
    <3>2. f[n - 1] \in Members
      BY <1>5, <3>1
    <3>3. f[n] = step[n][f[n - 1]]
      BY <1>4, <3>1 DEF Loop
    <3> QED BY <2>2, <3>1, <3>2, <3>3
  <2> QED BY <2>1, <2>2
<1>7. f = [n \in 0 .. N |-> Turn(f, n)]
  <2> HIDE DEF Turn
  <2> QED BY <1>5, <1>6
<1>8. after = [n \in 0 .. N |-> Turn(after, n)]
  <2> HIDE DEF Turn
  <2> QED BY <1>7
<1>9. UpdatedAll(list, luck) = after[N]
  BY DEF UpdatedAll, N
<1> HIDE DEF after
<1>10. after[0] = members
  BY <1>1, <1>8
<1>11. \A n \in 1 .. N : after[n] = Updated(list[n], after[n - 1], luck)
  <2> SUFFICES ASSUME NEW n \in 1 .. N PROVE after[n] = Updated(list[n], after[n - 1], luck)
    OBVIOUS
  <2>1. n \in 0 .. N /\ n # 0
    BY <1>1
  <2>2. after[n] = Turn(after, n)
    <3> HIDE DEF Turn
    <3> QED BY <1>8, <2>1
  <2> QED BY <2>1, <2>2
<1>12. after \in [0 .. N -> Members]
  <2>1. after = [n \in 0 .. N |-> after[n]]
    <3> HIDE DEF Turn
    <3> QED BY <1>8
  <2> DEFINE Good == {n \in Nat : n <= N => after[n] \in Members}
  <2>2. 0 \in Good
    BY <1>10
  <2>3. ASSUME NEW n \in Good PROVE n + 1 \in Good
    <3> SUFFICES ASSUME n + 1 <= N PROVE after[n + 1] \in Members
      OBVIOUS
    <3>1. n \in Nat /\ n + 1 \in 1 .. N /\ (n + 1) - 1 = n /\ after[n] \in Members
      BY <1>1
    <3> QED BY <1>2, <1>11, <3>1
  <2>4. \A n \in Nat : n \in Good
    <3>1. Good \in SUBSET Nat
      OBVIOUS
    <3> HIDE DEF Good
    <3> QED BY <2>2, <2>3, <3>1, EveryNatural
  <2>5. \A n \in 0 .. N : after[n] \in Members
    BY <1>1, <2>4
  <2> QED BY <2>1, <2>5
<1> HIDE DEF Turn, step
<1> QED BY <1>9, <1>10, <1>11, <1>12 DEF N

(* A total is a natural number, it is 0 when none of the tracks is in the  *)
(* set, grows with the set, and by the value of a track that is added.     *)
LEMMA TotalNatural == ASSUME NEW pref, NEW S PROVE Total(pref, S) \in Nat
<1>1. PICK f : Sums(f, pref, S) /\ Total(pref, S) = f[Len(Library)]
  BY TotalSteps
<1>2. Len(Library) \in 0 .. Len(Library)
  BY SmartAssumption
<1> QED BY <1>1, <1>2 DEF Sums

LEMMA TotalNone ==
  ASSUME NEW pref, NEW None, \A t \in Track : t \notin None
  PROVE  Total(pref, None) = 0
<1>f. PICK f : Sums(f, pref, None) /\ Total(pref, None) = f[Len(Library)]
  BY TotalSteps
<1>1. /\ f \in [0 .. Len(Library) -> Nat] /\ f[0] = 0
      /\ \A n \in 1 .. Len(Library) :
           f[n] = IF Library[n] \in None THEN f[n - 1] + Value(pref, Library[n]) ELSE f[n - 1]
      /\ Total(pref, None) = f[Len(Library)]
  BY <1>f DEF Sums
<1>2. Len(Library) \in Nat
  BY SmartAssumption
<1> DEFINE Good == {n \in Nat : n <= Len(Library) => f[n] = 0}
<1>3. 0 \in Good
  BY <1>1
<1>4. ASSUME NEW n \in Good PROVE n + 1 \in Good
  <2> SUFFICES ASSUME n + 1 <= Len(Library) PROVE f[n + 1] = 0
    OBVIOUS
  <2>1. n + 1 \in 1 .. Len(Library) /\ (n + 1) - 1 = n /\ f[n] = 0
    BY <1>2
  <2>2. Library[n + 1] \notin None
    BY <2>1, SmartAssumption
  <2> QED BY <1>1, <2>1, <2>2
<1>5. \A n \in Nat : n \in Good
  <2>1. Good \in SUBSET Nat
    OBVIOUS
  <2> HIDE DEF Good
  <2> QED BY <1>3, <1>4, <2>1, EveryNatural
<1> QED BY <1>1, <1>2, <1>5

LEMMA TotalEmpty == ASSUME NEW pref PROVE Total(pref, {}) = 0
BY TotalNone

LEMMA TotalMonotone ==
  ASSUME NEW pref, NEW S, NEW R, S \subseteq R
  PROVE  Total(pref, S) <= Total(pref, R)
<1>f. PICK f : Sums(f, pref, S) /\ Total(pref, S) = f[Len(Library)]
  BY TotalSteps
<1>1. /\ f \in [0 .. Len(Library) -> Nat] /\ f[0] = 0
      /\ \A n \in 1 .. Len(Library) :
           f[n] = IF Library[n] \in S THEN f[n - 1] + Value(pref, Library[n]) ELSE f[n - 1]
      /\ Total(pref, S) = f[Len(Library)]
  BY <1>f DEF Sums
<1>g. PICK g : Sums(g, pref, R) /\ Total(pref, R) = g[Len(Library)]
  BY TotalSteps
<1>2. /\ g \in [0 .. Len(Library) -> Nat] /\ g[0] = 0
      /\ \A n \in 1 .. Len(Library) :
           g[n] = IF Library[n] \in R THEN g[n - 1] + Value(pref, Library[n]) ELSE g[n - 1]
      /\ Total(pref, R) = g[Len(Library)]
  BY <1>g DEF Sums
<1>3. Len(Library) \in Nat /\ \A n \in 1 .. Len(Library) : Library[n] \in Track
  BY SmartAssumption
<1> DEFINE Good == {n \in Nat : n <= Len(Library) => f[n] <= g[n]}
<1>4. 0 \in Good
  BY <1>1, <1>2
<1>5. ASSUME NEW n \in Good PROVE n + 1 \in Good
  <2> SUFFICES ASSUME n + 1 <= Len(Library) PROVE f[n + 1] <= g[n + 1]
    OBVIOUS
  <2>1. n + 1 \in 1 .. Len(Library) /\ (n + 1) - 1 = n /\ n \in 0 .. Len(Library) /\ f[n] <= g[n]
    BY <1>3
  <2>2. Value(pref, Library[n + 1]) \in Nat
    BY <1>3, <2>1, ValueNatural
  <2>3. f[n] \in Nat /\ g[n] \in Nat
    BY <1>1, <1>2, <2>1
  <2>4. f[n + 1] = IF Library[n + 1] \in S THEN f[n] + Value(pref, Library[n + 1]) ELSE f[n]
    BY <1>1, <2>1
  <2>5. g[n + 1] = IF Library[n + 1] \in R THEN g[n] + Value(pref, Library[n + 1]) ELSE g[n]
    BY <1>2, <2>1
  <2> QED BY <2>1, <2>2, <2>3, <2>4, <2>5
<1>6. \A n \in Nat : n \in Good
  <2>1. Good \in SUBSET Nat
    OBVIOUS
  <2> HIDE DEF Good
  <2> QED BY <1>4, <1>5, <2>1, EveryNatural
<1>7. f[Len(Library)] <= g[Len(Library)]
  BY <1>3, <1>6
<1> QED BY <1>1, <1>2, <1>7

LEMMA TotalAdd ==
  ASSUME NEW pref, NEW S, NEW t \in Track, t \notin S
  PROVE  Total(pref, S \cup {t}) = Total(pref, S) + Value(pref, t)
<1> DEFINE R == S \cup {t}
<1>f. PICK f : Sums(f, pref, S) /\ Total(pref, S) = f[Len(Library)]
  BY TotalSteps
<1>1. /\ f \in [0 .. Len(Library) -> Nat] /\ f[0] = 0
      /\ \A n \in 1 .. Len(Library) :
           f[n] = IF Library[n] \in S THEN f[n - 1] + Value(pref, Library[n]) ELSE f[n - 1]
      /\ Total(pref, S) = f[Len(Library)]
  BY <1>f DEF Sums
<1>g. PICK g : Sums(g, pref, R) /\ Total(pref, R) = g[Len(Library)]
  BY TotalSteps
<1>2. /\ g \in [0 .. Len(Library) -> Nat] /\ g[0] = 0
      /\ \A n \in 1 .. Len(Library) :
           g[n] = IF Library[n] \in R THEN g[n - 1] + Value(pref, Library[n]) ELSE g[n - 1]
      /\ Total(pref, R) = g[Len(Library)]
  BY <1>g DEF Sums
<1>3. Len(Library) \in Nat /\ \A n \in 1 .. Len(Library) : Library[n] \in Track
  BY SmartAssumption
<1>4. PICK k \in 1 .. Len(Library) : Library[k] = t
  BY SmartAssumption DEF Track, ToSet
<1>5. \A n \in 1 .. Len(Library) : Library[n] = t => n = k
  BY <1>4, SmartAssumption DEF IsInjective
<1> DEFINE Good == {n \in Nat : n <= Len(Library) =>
                      g[n] = IF n < k THEN f[n] ELSE f[n] + Value(pref, t)}
<1>6. 0 \in Good
  BY <1>1, <1>2, <1>4
<1>7. ASSUME NEW n \in Good PROVE n + 1 \in Good
  <2> SUFFICES ASSUME n + 1 <= Len(Library)
               PROVE  g[n + 1] = IF n + 1 < k THEN f[n + 1] ELSE f[n + 1] + Value(pref, t)
    OBVIOUS
  <2>1. /\ n + 1 \in 1 .. Len(Library) /\ (n + 1) - 1 = n /\ n \in 0 .. Len(Library)
        /\ g[n] = IF n < k THEN f[n] ELSE f[n] + Value(pref, t)
    BY <1>3
  <2>2. Value(pref, Library[n + 1]) \in Nat /\ Value(pref, t) \in Nat
    BY <1>3, <2>1, ValueNatural
  <2>3. f[n] \in Nat /\ g[n] \in Nat
    BY <1>1, <1>2, <2>1
  <2>4. f[n + 1] = IF Library[n + 1] \in S THEN f[n] + Value(pref, Library[n + 1]) ELSE f[n]
    BY <1>1, <2>1
  <2>5. g[n + 1] = IF Library[n + 1] \in R THEN g[n] + Value(pref, Library[n + 1]) ELSE g[n]
    BY <1>2, <2>1
  <2>6. CASE n + 1 = k
    <3>1. Library[n + 1] = t /\ t \notin S /\ t \in R /\ n < k
      BY <1>4, <2>1, <2>6
    <3> HIDE DEF R
    <3>2. f[n + 1] = f[n]
      BY <2>4, <3>1
    <3>3. g[n + 1] = g[n] + Value(pref, t)
      BY <2>5, <3>1
    <3>4. g[n] = f[n]
      BY <2>1, <3>1
    <3>5. ~(n + 1 < k)
      BY <1>4, <2>6
    <3> QED BY ONLY <3>2, <3>3, <3>4, <3>5
  <2>7. CASE n + 1 # k
    <3>1. Library[n + 1] \in R <=> Library[n + 1] \in S
      BY <1>5, <2>1, <2>7
    <3>2. n < k <=> n + 1 < k
      BY <1>4, <2>1, <2>7
    <3> HIDE DEF R
    <3>3. CASE n < k
      <4>1. g[n] = f[n]
        BY <2>1, <3>3
      <4> QED BY ONLY <2>4, <2>5, <3>1, <3>2, <3>3, <4>1
    <3>4. CASE ~(n < k)
      <4>1. g[n] = f[n] + Value(pref, t)
        BY <2>1, <3>4
      <4>2. \A a, b, c \in Nat : (a + b) + c = (a + c) + b
        OBVIOUS
      <4>3. CASE Library[n + 1] \in S
        <5>1. g[n + 1] = (f[n] + Value(pref, t)) + Value(pref, Library[n + 1])
          BY <2>5, <3>1, <4>1, <4>3
        <5>2. g[n + 1] = (f[n] + Value(pref, Library[n + 1])) + Value(pref, t)
          BY ONLY <5>1, <4>2, <2>2, <2>3
        <5> QED BY ONLY <5>2, <2>4, <4>3, <3>2, <3>4
      <4>4. CASE Library[n + 1] \notin S
        BY ONLY <2>4, <2>5, <3>1, <3>2, <3>4, <4>1, <4>4
      <4> QED BY <4>3, <4>4
    <3> QED BY <3>3, <3>4
  <2> QED BY <2>6, <2>7
<1>8. \A n \in Nat : n \in Good
  <2>1. Good \in SUBSET Nat
    OBVIOUS
  <2> HIDE DEF Good
  <2> QED BY <1>6, <1>7, <2>1, EveryNatural
<1>9. g[Len(Library)] = f[Len(Library)] + Value(pref, t)
  BY <1>3, <1>4, <1>8
<1> QED BY <1>1, <1>2, <1>9

-----------------------------------------------------------------------------
(* The order in which a limit goes through the tracks.                     *)

(* What the sorts read.                                                    *)
Plays == playcount \in [Track -> Int] /\ time_played \in [Track -> Int]
Sort == LimitSort \ {"random"}

(* The keys of the sorts are integers.                                     *)
LEMMA KeyInteger ==
  ASSUME Plays, NEW sort \in Sort, NEW t \in Track
  PROVE  Key(sort, t) \in Int
<1>1. /\ playcount[t] \in Int /\ time_played[t] \in Int
      /\ -playcount[t] \in Int /\ -time_played[t] \in Int
  BY DEF Plays
<1>2. sort \in {"most_often_played", "least_often_played",
                "most_recently_played", "least_recently_played"}
  BY DEF Sort, LimitSort
<1> QED BY <1>1, <1>2 DEF Key

(* Every track has a place in the library.                                 *)
LEMMA PlaceOfTrack ==
  ASSUME NEW t \in Track
  PROVE  Place(t) \in 1 .. Len(Library) /\ Library[Place(t)] = t
<1>1. \E i \in DOMAIN Library : Library[i] = t
  BY DEF Track, ToSet
<1>2. DOMAIN Library = 1 .. Len(Library)
  BY SmartAssumption
<1> QED BY <1>1, <1>2 DEF Place

(* Before orders the tracks.                                               *)
LEMMA BeforeOrders ==
  ASSUME Plays, NEW sort \in Sort
  PROVE  /\ \A t \in Track : ~Before(sort, t, t)
         /\ \A t, u \in Track : t # u => Before(sort, t, u) \/ Before(sort, u, t)
         /\ \A t, u, v \in Track :
              Before(sort, t, u) /\ Before(sort, u, v) => Before(sort, t, v)
<1>1. \A t \in Track : Key(sort, t) \in Int
  BY KeyInteger
<1>2. \A t \in Track : Place(t) \in Int
  BY PlaceOfTrack, SmartAssumption
<1>3. \A t, u \in Track : Place(t) = Place(u) => t = u
  BY PlaceOfTrack
<1>4. \A t \in Track : ~Before(sort, t, t)
  BY <1>1, <1>2 DEF Before
<1>5. \A t, u \in Track : t # u => Before(sort, t, u) \/ Before(sort, u, t)
  BY <1>1, <1>2, <1>3 DEF Before
<1>6. \A t, u, v \in Track :
        Before(sort, t, u) /\ Before(sort, u, v) => Before(sort, t, v)
  BY <1>1, <1>2 DEF Before
<1> QED BY <1>4, <1>5, <1>6

(* The library is finite.                                                  *)
LEMMA TracksFinite == IsFiniteSet(Track)
<1>1. Len(Library) \in Nat /\ DOMAIN Library = 1 .. Len(Library)
  BY SmartAssumption
<1>2. IsFiniteSet(1 .. Len(Library))
  BY <1>1, FS_Interval
<1>3. Library \in Surjection(1 .. Len(Library), Track)
  <2>1. Library \in [1 .. Len(Library) -> Track]
    BY SmartAssumption
  <2> QED BY <2>1, <1>1 DEF Surjection, Track, ToSet
<1> QED BY <1>2, <1>3, FS_Surjection

(* How many tracks of S come before one of them: the place it gets.        *)
Ahead(sort, S, t) == {u \in S : Before(sort, u, t)}
Turn(sort, S, t) == Cardinality(Ahead(sort, S, t))

(* Each track of S has a turn of its own, in the order of the sort.        *)
LEMMA TurnsApart ==
  ASSUME Plays, NEW sort \in Sort, NEW S \in SUBSET Track
  PROVE  /\ Cardinality(S) \in Nat
         /\ \A t \in S : Turn(sort, S, t) \in 0 .. Cardinality(S) - 1
         /\ \A t, u \in S : Before(sort, t, u) => Turn(sort, S, t) < Turn(sort, S, u)
<1>1. IsFiniteSet(S) /\ Cardinality(S) \in Nat
  BY TracksFinite, FS_Subset, FS_CardinalityType
<1>2. \A t \in S : IsFiniteSet(Ahead(sort, S, t)) /\ Turn(sort, S, t) \in Nat
  <2> SUFFICES ASSUME NEW t \in S
               PROVE  IsFiniteSet(Ahead(sort, S, t)) /\ Turn(sort, S, t) \in Nat
    OBVIOUS
  <2>1. Ahead(sort, S, t) \in SUBSET S
    BY DEF Ahead
  <2>2. IsFiniteSet(Ahead(sort, S, t))
    BY <1>1, <2>1, FS_Subset
  <2> QED BY <2>2, FS_CardinalityType DEF Turn
<1>3. ASSUME NEW t \in S PROVE Turn(sort, S, t) \in 0 .. Cardinality(S) - 1
  <2>1. Ahead(sort, S, t) \in SUBSET S /\ t \notin Ahead(sort, S, t)
    BY BeforeOrders DEF Ahead
  <2>2. Cardinality(Ahead(sort, S, t)) <= Cardinality(S)
    BY <1>1, <2>1, FS_Subset
  <2>3. Cardinality(S) # Cardinality(Ahead(sort, S, t))
    BY <1>1, <2>1, FS_Subset
  <2> QED BY <1>1, <1>2, <2>2, <2>3 DEF Turn
<1>4. ASSUME NEW t \in S, NEW u \in S, Before(sort, t, u)
      PROVE  Turn(sort, S, t) < Turn(sort, S, u)
  <2>1. Ahead(sort, S, t) \in SUBSET Ahead(sort, S, u)
    <3> SUFFICES ASSUME NEW v \in S, Before(sort, v, t) PROVE Before(sort, v, u)
      BY DEF Ahead
    <3> QED BY <1>4, BeforeOrders
  <2>2. t \in Ahead(sort, S, u) /\ t \notin Ahead(sort, S, t)
    BY <1>4, BeforeOrders DEF Ahead
  <2>3. Cardinality(Ahead(sort, S, t)) <= Cardinality(Ahead(sort, S, u))
    BY <1>2, <2>1, FS_Subset
  <2>4. Cardinality(Ahead(sort, S, t)) # Cardinality(Ahead(sort, S, u))
    BY <1>2, <2>1, <2>2, FS_Subset
  <2> QED BY <1>2, <2>3, <2>4 DEF Turn
<1> QED BY <1>1, <1>3, <1>4

(* Every turn is some track's.                                             *)
LEMMA EveryTurnTaken ==
  ASSUME Plays, NEW sort \in Sort, NEW S \in SUBSET Track, NEW i \in 1 .. Cardinality(S)
  PROVE  \E t \in S : Turn(sort, S, t) = i - 1
<1> DEFINE N == 0 .. Cardinality(S) - 1
           f == [t \in S |-> Turn(sort, S, t)]
<1>1. IsFiniteSet(S) /\ Cardinality(S) \in Nat
  BY TracksFinite, FS_Subset, FS_CardinalityType
<1>2. IsFiniteSet(N) /\ Cardinality(N) = Cardinality(S)
  <2>1. 0 \in Int /\ Cardinality(S) - 1 \in Int
    BY <1>1
  <2>2. /\ IsFiniteSet(N)
        /\ Cardinality(N) = IF 0 > Cardinality(S) - 1 THEN 0
                            ELSE (Cardinality(S) - 1) - 0 + 1
    BY <2>1, FS_Interval
  <2> QED BY <1>1, <2>2
<1>3. f \in [S -> N]
  BY TurnsApart
<1>4. \A t, u \in S : f[t] = f[u] => t = u
  <2> SUFFICES ASSUME NEW t \in S, NEW u \in S, t # u PROVE Turn(sort, S, t) # Turn(sort, S, u)
    OBVIOUS
  <2>1. Turn(sort, S, t) \in Nat /\ Turn(sort, S, u) \in Nat
    BY TurnsApart
  <2>2. Before(sort, t, u) \/ Before(sort, u, t)
    BY BeforeOrders
  <2>3. Before(sort, t, u) => Turn(sort, S, t) < Turn(sort, S, u)
    BY TurnsApart
  <2>4. Before(sort, u, t) => Turn(sort, S, u) < Turn(sort, S, t)
    BY TurnsApart
  <2> QED BY <2>1, <2>2, <2>3, <2>4
<1> HIDE DEF N, f
<1>5. f \in Injection(S, N)
  BY <1>3, <1>4 DEF Injection, IsInjective
<1>6. f \in Surjection(S, N)
  BY <1>1, <1>2, <1>5, FS_Injection
<1>7. i - 1 \in N
  BY <1>1 DEF N
<1>8. PICK t \in S : f[t] = i - 1
  BY <1>6, <1>7 DEF Surjection
<1> QED BY <1>8 DEF f

(* Only keeps the order of the list.                                       *)
LEMMA OnlyInOrder ==
  ASSUME NEW T, NEW list \in Seq(T), NEW S,
         NEW i \in 1 .. Len(Only(list, S)), NEW j \in 1 .. Len(Only(list, S)), i < j
  PROVE  \E a, b \in 1 .. Len(list) :
           a < b /\ Only(list, S)[i] = list[a] /\ Only(list, S)[j] = list[b]
<1> DEFINE Step(f, n) == IF n = 0 THEN <<>>
                         ELSE IF list[n] \in S THEN Append(f[n - 1], list[n]) ELSE f[n - 1]
<1>1. PICK f : f = [n \in 0 .. Len(list) |-> Step(f, n)] /\ Only(list, S) = f[Len(list)]
  BY OnlySteps
<1>2. Len(list) \in Nat
  OBVIOUS
<1>3. \A n \in 0 .. Len(list) : f[n] = Step(f, n)
  <2> HIDE DEF Step
  <2> QED BY <1>1
<1> DEFINE Typed(n) == f[n] \in Seq(T)
           From(n) == \A k \in 1 .. Len(f[n]) : \E a \in 1 .. n : f[n][k] = list[a]
           InOrder(n) == \A k, l \in 1 .. Len(f[n]) : k < l =>
             \E a, b \in 1 .. n : a < b /\ f[n][k] = list[a] /\ f[n][l] = list[b]
           Good == {n \in Nat : n <= Len(list) => Typed(n) /\ From(n) /\ InOrder(n)}
<1>4. 0 \in Good
  <2>1. f[0] = <<>>
    BY <1>2, <1>3
  <2>2. f[0] \in Seq(T) /\ Len(f[0]) = 0 /\ 1 .. 0 = {}
    BY <2>1
  <2> QED BY <2>2
<1>5. ASSUME NEW m \in Good PROVE m + 1 \in Good
  <2>1. m \in Nat /\ m + 1 \in Nat
    OBVIOUS
  <2> SUFFICES ASSUME m + 1 <= Len(list) PROVE Typed(m + 1) /\ From(m + 1) /\ InOrder(m + 1)
    BY <2>1
  <2>2. /\ m <= Len(list) /\ m + 1 \in 1 .. Len(list) /\ m + 1 # 0 /\ (m + 1) - 1 = m
        /\ m + 1 \in 0 .. Len(list) /\ \A a \in 1 .. m : a \in 1 .. m + 1 /\ a < m + 1
        /\ m + 1 \in 1 .. m + 1
    BY <1>2, <2>1
  <2>3. Typed(m) /\ From(m) /\ InOrder(m)
    BY <2>2
  <2> DEFINE x == list[m + 1]
  <2>4. x \in T
    BY <2>2
  <2>5. CASE x \in S
    <3>1. f[m + 1] = Append(f[m], x)
      BY <1>3, <2>2, <2>5
    <3>2. /\ f[m + 1] \in Seq(T) /\ Len(f[m + 1]) = Len(f[m]) + 1 /\ Len(f[m]) \in Nat
          /\ \A k \in 1 .. Len(f[m]) : f[m + 1][k] = f[m][k]
          /\ f[m + 1][Len(f[m]) + 1] = x
      BY <2>3, <2>4, <3>1, AppendProperties
    <3>3. From(m + 1)
      <4> SUFFICES ASSUME NEW k \in 1 .. Len(f[m + 1])
                   PROVE  \E a \in 1 .. m + 1 : f[m + 1][k] = list[a]
        OBVIOUS
      <4>1. CASE k = Len(f[m]) + 1
        BY <2>2, <3>2, <4>1
      <4>2. CASE k # Len(f[m]) + 1
        <5>1. k \in 1 .. Len(f[m])
          BY <3>2, <4>2
        <5>2. PICK a \in 1 .. m : f[m][k] = list[a]
          BY <2>3, <5>1
        <5> QED BY <2>2, <3>2, <5>1, <5>2
      <4> QED BY <4>1, <4>2
    <3>4. InOrder(m + 1)
      <4> SUFFICES ASSUME NEW k \in 1 .. Len(f[m + 1]), NEW l \in 1 .. Len(f[m + 1]), k < l
                   PROVE  \E a, b \in 1 .. m + 1 :
                            a < b /\ f[m + 1][k] = list[a] /\ f[m + 1][l] = list[b]
        OBVIOUS
      <4>1. k \in 1 .. Len(f[m])
        BY <3>2
      <4>2. CASE l = Len(f[m]) + 1
        <5>1. PICK a \in 1 .. m : f[m][k] = list[a]
          BY <2>3, <4>1
        <5> QED BY <2>2, <3>2, <4>1, <4>2, <5>1
      <4>3. CASE l # Len(f[m]) + 1
        <5>1. l \in 1 .. Len(f[m])
          BY <3>2, <4>3
        <5>2. PICK a \in 1 .. m, b \in 1 .. m : a < b /\ f[m][k] = list[a] /\ f[m][l] = list[b]
          BY <2>3, <4>1, <5>1
        <5> QED BY <2>2, <3>2, <4>1, <5>1, <5>2
      <4> QED BY <4>2, <4>3
    <3> QED BY <3>2, <3>3, <3>4
  <2>6. CASE x \notin S
    <3>1. f[m + 1] = f[m]
      BY <1>3, <2>2, <2>6
    <3>2. From(m + 1)
      BY <2>2, <2>3, <3>1
    <3>3. InOrder(m + 1)
      BY <2>2, <2>3, <3>1
    <3> QED BY <2>3, <3>1, <3>2, <3>3
  <2> QED BY <2>5, <2>6
<1>6. InOrder(Len(list))
  <2>1. Good \in SUBSET Nat
    OBVIOUS
  <2> HIDE DEF Good, Typed, From, InOrder
  <2>2. Len(list) \in Good
    BY <1>2, <1>4, <1>5, <2>1, EveryNatural
  <2> QED BY <1>2, <2>2 DEF Good
<1>7. Only(list, S) = f[Len(list)]
  <2> HIDE DEF Step
  <2> QED BY <1>1
<1> QED BY <1>6, <1>7

(* A list of the elements of S, each once.                                 *)
ListOf(list, S) == ToSet(list) = S /\ IsInjective(list)

(* Two ways to say that a list has an element.                             *)
LEMMA InSetListed ==
  ASSUME NEW list, NEW x
  PROVE  x \in ToSet(list) <=> Listed(x, list)
BY DEF ToSet, Listed

(* Only lists the elements of S, each once.                                *)
LEMMA OnlyLists ==
  ASSUME NEW T, NEW list \in Seq(T), IsInjective(list), NEW S, S \subseteq ToSet(list)
  PROVE  Only(list, S) \in Seq(T) /\ ListOf(Only(list, S), S)
<1>1. /\ Only(list, S) \in Seq(T)
      /\ \A y : Listed(y, Only(list, S)) <=> Listed(y, list) /\ y \in S
      /\ IsInjective(Only(list, S))
  BY OnlyElements
<1>2. \A y : y \in ToSet(Only(list, S)) <=> y \in ToSet(list) /\ y \in S
  BY <1>1, InSetListed
<1>3. ToSet(Only(list, S)) = S
  BY <1>2
<1> QED BY <1>1, <1>3 DEF ListOf

(* So does every order of S.                                               *)
LEMMA OrdersList ==
  ASSUME NEW S, IsFiniteSet(S), NEW list \in Orders(S)
  PROVE  list \in Seq(S) /\ ListOf(list, S) /\ Len(list) = Cardinality(S)
<1>1. Cardinality(S) \in Nat /\ list \in [1 .. Cardinality(S) -> S] /\ IsInjective(list)
  BY FS_CardinalityType DEF Orders
<1>2. list \in Seq(S) /\ Len(list) = Cardinality(S) /\ DOMAIN list = 1 .. Cardinality(S)
  BY <1>1
<1> DEFINE N == 1 .. Cardinality(S)
<1>3. IsFiniteSet(N) /\ Cardinality(N) = Cardinality(S)
  <2>1. 1 \in Int /\ Cardinality(S) \in Int
    BY <1>1
  <2>2. IsFiniteSet(N)
        /\ Cardinality(N) = IF 1 > Cardinality(S) THEN 0 ELSE Cardinality(S) - 1 + 1
    BY <2>1, FS_Interval
  <2> QED BY <1>1, <2>2
<1> HIDE DEF N
<1>4. list \in Injection(N, S)
  BY <1>1, <1>2 DEF Injection, IsInjective, N
<1>5. list \in Surjection(N, S)
  BY <1>3, <1>4, FS_Injection
<1>6. ToSet(list) = S
  BY <1>2, <1>5 DEF ToSet, Surjection, N
<1> QED BY <1>1, <1>2, <1>6 DEF ListOf

-----------------------------------------------------------------------------
(* The list that the limit goes through holds the selected tracks, in the  *)
(* order of the sort.                                                      *)
LEMMA SortedList ==
  ASSUME Plays, NEW p, prefs[p].limitsort \in Sort, NEW S \in SUBSET Track, NEW luck,
         NEW list, list = LimitSorted(p, S, luck)
  PROVE  /\ list \in Seq(Track)
         /\ ListOf(list, S)
         /\ \A i, j \in DOMAIN list : i < j => Before(prefs[p].limitsort, list[i], list[j])
<1> DEFINE sort == prefs[p].limitsort
           N == Cardinality(S)
<1>1. sort \in Sort /\ sort # "random"
  BY DEF Sort
<1>2. N \in Nat
  BY <1>1, TurnsApart
<1>3. list = [i \in 1 .. N |-> CHOOSE t \in S : Turn(sort, S, t) = i - 1]
  BY <1>1 DEF LimitSorted, Turn, Ahead
<1> HIDE DEF sort, N
<1>4. \A i \in 1 .. N : list[i] \in S /\ Turn(sort, S, list[i]) = i - 1
  <2> SUFFICES ASSUME NEW i \in 1 .. N PROVE list[i] \in S /\ Turn(sort, S, list[i]) = i - 1
    OBVIOUS
  <2>1. \E t \in S : Turn(sort, S, t) = i - 1
    BY <1>1, EveryTurnTaken DEF N
  <2>2. list[i] = CHOOSE t \in S : Turn(sort, S, t) = i - 1
    BY <1>3
  <2> QED BY <2>1, <2>2
<1>5. list \in Seq(Track) /\ DOMAIN list = 1 .. N
  <2>1. list \in [1 .. N -> Track]
    BY <1>3, <1>4
  <2> QED BY <1>2, <2>1
<1>6. IsInjective(list)
  <2> SUFFICES ASSUME NEW i \in 1 .. N, NEW j \in 1 .. N, list[i] = list[j] PROVE i = j
    BY <1>5 DEF IsInjective
  <2>1. i - 1 = j - 1
    BY <1>4
  <2> QED BY <1>2, <2>1
<1>7. ToSet(list) = S
  <2>1. ASSUME NEW t \in S PROVE \E i \in 1 .. N : list[i] = t
    <3>1. Turn(sort, S, t) \in 0 .. N - 1
      BY <1>1, TurnsApart DEF N
    <3> DEFINE i == Turn(sort, S, t) + 1
    <3>2. i \in 1 .. N /\ i - 1 = Turn(sort, S, t)
      BY <1>2, <3>1
    <3>3. list[i] \in S /\ Turn(sort, S, list[i]) = Turn(sort, S, t)
      BY <1>4, <3>2
    <3>4. list[i] = t
      <4> HIDE DEF i
      <4>1. Before(sort, t, list[i]) => Turn(sort, S, t) < Turn(sort, S, list[i])
        BY <1>1, <3>3, TurnsApart
      <4>2. Before(sort, list[i], t) => Turn(sort, S, list[i]) < Turn(sort, S, t)
        BY <1>1, <3>3, TurnsApart
      <4>3. list[i] # t => Before(sort, t, list[i]) \/ Before(sort, list[i], t)
        BY <1>1, <3>3, BeforeOrders
      <4>4. Turn(sort, S, t) \in Int
        BY <1>2, <3>1
      <4> QED BY <3>3, <4>1, <4>2, <4>3, <4>4
    <3> QED BY <3>2, <3>4
  <2> QED BY <1>4, <1>5, <2>1 DEF ToSet
<1>8. ASSUME NEW i \in 1 .. N, NEW j \in 1 .. N, i < j PROVE Before(sort, list[i], list[j])
  <2>1. list[i] \in S /\ list[j] \in S
    BY <1>4
  <2>2. Turn(sort, S, list[i]) = i - 1 /\ Turn(sort, S, list[j]) = j - 1
    BY <1>4
  <2>3. list[i] # list[j]
    BY <1>5, <1>6, <1>8, <1>2 DEF IsInjective
  <2>4. Before(sort, list[j], list[i]) => j - 1 < i - 1
    BY <1>1, <2>1, <2>2, TurnsApart
  <2>5. Before(sort, list[i], list[j]) \/ Before(sort, list[j], list[i])
    BY <1>1, <2>1, <2>3, BeforeOrders
  <2> QED BY <1>2, <1>8, <2>4, <2>5
<1> QED BY <1>5, <1>6, <1>7, <1>8 DEF ListOf, sort

(* A random order of the library, and the order of the library itself,     *)
(* list the selected tracks too.                                           *)
LEMMA ShuffledList ==
  ASSUME NEW p, prefs[p].limitsort = "random", NEW S \in SUBSET Track, NEW luck,
         luck[p] \in Orders(Track)
  PROVE  LimitSorted(p, S, luck) \in Seq(Track) /\ ListOf(LimitSorted(p, S, luck), S)
<1>1. luck[p] \in Seq(Track) /\ ListOf(luck[p], Track)
  BY TracksFinite, OrdersList
<1> DEFINE order == luck[p]
<1>2. order \in Seq(Track) /\ IsInjective(order) /\ S \subseteq ToSet(order)
  BY <1>1 DEF ListOf
<1>3. LimitSorted(p, S, luck) = Only(order, S)
  BY DEF LimitSorted
<1> HIDE DEF order
<1> QED BY <1>2, <1>3, OnlyLists

LEMMA LibraryOrder ==
  ASSUME NEW S \in SUBSET Track
  PROVE  /\ Only(Library, S) \in Seq(Track) /\ ListOf(Only(Library, S), S)
         /\ \A i, j \in DOMAIN Only(Library, S) :
              i < j => Place(Only(Library, S)[i]) < Place(Only(Library, S)[j])
<1>1. Library \in Seq(Track) /\ IsInjective(Library) /\ S \subseteq ToSet(Library)
  BY SmartAssumption DEF Track
<1>2. Only(Library, S) \in Seq(Track) /\ ListOf(Only(Library, S), S)
  BY <1>1, OnlyLists
<1> DEFINE list == Only(Library, S)
<1>3. ASSUME NEW i \in DOMAIN list, NEW j \in DOMAIN list, i < j
      PROVE  Place(list[i]) < Place(list[j])
  <2>1. i \in 1 .. Len(list) /\ j \in 1 .. Len(list)
    BY <1>2
  <2>2. PICK a \in 1 .. Len(Library), b \in 1 .. Len(Library) :
          a < b /\ list[i] = Library[a] /\ list[j] = Library[b]
    BY <1>1, <1>3, <2>1, OnlyInOrder
  <2>3. ASSUME NEW c \in 1 .. Len(Library) PROVE Place(Library[c]) = c
    <3>1. Library[c] \in Track
      BY <1>1
    <3>2. Place(Library[c]) \in 1 .. Len(Library) /\ Library[Place(Library[c])] = Library[c]
      BY <3>1, PlaceOfTrack
    <3> QED BY <1>1, <3>2 DEF IsInjective
  <2> QED BY <2>2, <2>3
<1> QED BY <1>2, <1>3

-----------------------------------------------------------------------------
(* The loop of the limit.                                                  *)

(* What Append adds to the elements of a list.                             *)
LEMMA ToSetAppend ==
  ASSUME NEW T, NEW list \in Seq(T), NEW x \in T
  PROVE  ToSet(Append(list, x)) = ToSet(list) \cup {x}
<1> DEFINE new == Append(list, x)
<1>1. /\ new \in Seq(T) /\ Len(new) = Len(list) + 1 /\ Len(list) \in Nat
      /\ \A k \in 1 .. Len(list) : new[k] = list[k]
      /\ new[Len(list) + 1] = x
  BY AppendProperties
<1>2. DOMAIN new = 1 .. Len(list) + 1 /\ DOMAIN list = 1 .. Len(list)
  BY <1>1
<1> HIDE DEF new
<1>3. \A k \in 1 .. Len(list) + 1 : k \in 1 .. Len(list) \/ k = Len(list) + 1
  BY <1>1
<1>4. \A k \in 1 .. Len(list) : k \in 1 .. Len(list) + 1
  BY <1>1
<1>5. Len(list) + 1 \in 1 .. Len(list) + 1
  BY <1>1
<1>6. ToSet(new) = ToSet(list) \cup {x}
  BY <1>1, <1>2, <1>3, <1>4, <1>5 DEF ToSet
<1> QED BY <1>6 DEF new

(* A list without repetition stays one when something new is appended.     *)
LEMMA FreshAppend ==
  ASSUME NEW T, NEW list \in Seq(T), NEW x \in T, IsInjective(list), x \notin ToSet(list)
  PROVE  IsInjective(Append(list, x))
<1> DEFINE new == Append(list, x)
<1>1. /\ new \in Seq(T) /\ Len(new) = Len(list) + 1 /\ Len(list) \in Nat
      /\ \A k \in 1 .. Len(list) : new[k] = list[k]
      /\ new[Len(list) + 1] = x
  BY AppendProperties
<1>2. DOMAIN new = 1 .. Len(list) + 1 /\ DOMAIN list = 1 .. Len(list)
  BY <1>1
<1> HIDE DEF new
<1>3. \A k \in 1 .. Len(list) + 1 : k \in 1 .. Len(list) \/ k = Len(list) + 1
  BY <1>1
<1>4. \A k \in 1 .. Len(list) : new[k] # x
  BY <1>1, <1>2 DEF ToSet
<1>5. \A k \in 1 .. Len(list) : new[k] = list[k]
  BY <1>1
<1>6. new[Len(list) + 1] = x
  BY <1>1
<1>7. \A j, k \in 1 .. Len(list) : list[j] = list[k] => j = k
  BY <1>2 DEF IsInjective
<1>8. \A j, k \in 1 .. Len(list) + 1 : new[j] = new[k] => j = k
  BY ONLY <1>3, <1>4, <1>5, <1>6, <1>7
<1>9. IsInjective(new)
  BY <1>2, <1>8 DEF IsInjective
<1> QED BY <1>9 DEF new

(* The first m elements of a list.                                         *)
Upto(list, m) == {list[j] : j \in 1 .. m}

(* What the loop has taken after n turns: it sums up to the running total, *)
(* within the limit, and what was passed over had no room then.            *)
TakenSo(pref, list, n, sofar) ==
  /\ sofar.taken \in Seq(Track) /\ IsInjective(sofar.taken)
  /\ ToSet(sofar.taken) \subseteq Upto(list, n)
  /\ sofar.total = Total(pref, ToSet(sofar.taken))
  /\ sofar.total <= pref.limitvalue
TakenInOrder(list, n, taken) ==
  \A k, l \in DOMAIN taken : k < l =>
    \E a, b \in 1 .. n : a < b /\ taken[k] = list[a] /\ taken[l] = list[b]
RestHadNoRoom(pref, list, n, mine) ==
  \A i \in 1 .. n : list[i] \notin mine => NoRoom(pref, list[i], mine \cap Upto(list, i - 1))

(* One turn of the loop keeps all that.                                    *)
LEMMA TurnTakes ==
  ASSUME NEW pref, pref.limitvalue \in Nat, NEW list \in Seq(Track), IsInjective(list),
         NEW m \in Nat, m + 1 <= Len(list), NEW sofar \in Sofar,
         TakenSo(pref, list, m, sofar), TakenInOrder(list, m, sofar.taken),
         RestHadNoRoom(pref, list, m, ToSet(sofar.taken))
  PROVE  LET next == Take(pref, sofar, list[m + 1])
         IN  /\ TakenSo(pref, list, m + 1, next) /\ TakenInOrder(list, m + 1, next.taken)
             /\ RestHadNoRoom(pref, list, m + 1, ToSet(next.taken))
<1> DEFINE x == list[m + 1]
           next == Take(pref, sofar, x)
           mine == ToSet(sofar.taken)
           L == pref.limitvalue
<1>1. Len(list) \in Nat /\ DOMAIN list = 1 .. Len(list) /\ m + 1 \in 1 .. Len(list)
  OBVIOUS
<1>2. x \in Track
  BY <1>1
<1>3. \A i \in 1 .. m + 1 : x \notin Upto(list, i - 1)
  <2> SUFFICES ASSUME NEW i \in 1 .. m + 1, NEW j \in 1 .. i - 1, list[j] = list[m + 1]
               PROVE  FALSE
    BY DEF Upto
  <2>1. j \in 1 .. Len(list) /\ j # m + 1
    BY <1>1
  <2> QED BY <1>1, <2>1 DEF IsInjective
<1>4. \A i \in 1 .. m : i \in 1 .. m + 1 /\ i < m + 1
  OBVIOUS
<1>5. m + 1 \in 1 .. m + 1 /\ (m + 1) - 1 = m /\ \A i \in 1 .. m + 1 : i \in 1 .. m \/ i = m + 1
  OBVIOUS
<1>6. Upto(list, m) \subseteq Upto(list, m + 1) /\ x \in Upto(list, m + 1)
  BY <1>4, <1>5 DEF Upto
<1>7. /\ sofar.taken \in Seq(Track) /\ IsInjective(sofar.taken) /\ mine \subseteq Upto(list, m)
      /\ sofar.total = Total(pref, mine) /\ sofar.total <= L
  BY DEF TakenSo
<1>8. x \notin mine
  BY <1>3, <1>5, <1>7
<1>9. Value(pref, x) \in Nat /\ Total(pref, mine) \in Nat /\ L \in Nat
  BY <1>2, ValueNatural, TotalNatural
<1> DEFINE fits == sofar.total < L /\ sofar.total + Value(pref, x) <= L
<1>10. CASE fits
  <2>1. next = [total |-> sofar.total + Value(pref, x), taken |-> Append(sofar.taken, x)]
    BY <1>10 DEF Take
  <2>2. next.total = sofar.total + Value(pref, x) /\ next.taken = Append(sofar.taken, x)
    BY <2>1
  <2> HIDE DEF next, x, mine, L
  <2>3. next.taken \in Seq(Track) /\ IsInjective(next.taken)
    <3>1. Append(sofar.taken, x) \in Seq(Track)
      BY <1>2, <1>7
    <3>2. IsInjective(Append(sofar.taken, x))
      BY <1>2, <1>7, <1>8, FreshAppend DEF mine
    <3> QED BY <2>2, <3>1, <3>2
  <2>4. ToSet(next.taken) = mine \cup {x}
    BY <1>2, <1>7, <2>2, ToSetAppend DEF mine
  <2>5. ToSet(next.taken) \subseteq Upto(list, m + 1)
    BY <1>6, <1>7, <2>4
  <2>6. next.total = Total(pref, ToSet(next.taken))
    BY <1>2, <1>7, <1>8, <2>2, <2>4, TotalAdd
  <2>7. next.total <= L
    BY <1>10, <2>2
  <2>8. TakenSo(pref, list, m + 1, next)
    BY <2>3, <2>5, <2>6, <2>7 DEF TakenSo, L
  <2>9. TakenInOrder(list, m + 1, next.taken)
    <3>1. /\ Len(next.taken) = Len(sofar.taken) + 1 /\ Len(sofar.taken) \in Nat
          /\ \A k \in 1 .. Len(sofar.taken) : next.taken[k] = sofar.taken[k]
          /\ next.taken[Len(sofar.taken) + 1] = x
      BY <1>2, <1>7, <2>2, AppendProperties
    <3>2. DOMAIN next.taken = 1 .. Len(sofar.taken) + 1
          /\ DOMAIN sofar.taken = 1 .. Len(sofar.taken)
      BY <1>7, <2>3, <3>1
    <3> SUFFICES ASSUME NEW k \in DOMAIN next.taken, NEW l \in DOMAIN next.taken, k < l
                 PROVE  \E a, b \in 1 .. m + 1 :
                          a < b /\ next.taken[k] = list[a] /\ next.taken[l] = list[b]
      BY DEF TakenInOrder
    <3>3. k \in 1 .. Len(sofar.taken) /\ l \in 1 .. Len(sofar.taken) + 1
      BY <3>1, <3>2
    <3>4. CASE l = Len(sofar.taken) + 1
      <4>1. sofar.taken[k] \in mine
        BY <3>2, <3>3 DEF mine, ToSet
      <4>2. PICK a \in 1 .. m : sofar.taken[k] = list[a]
        BY <1>7, <4>1 DEF Upto
      <4>3. next.taken[l] = list[m + 1] /\ next.taken[k] = list[a]
        BY <3>1, <3>3, <3>4, <4>2 DEF x
      <4> QED BY <1>4, <1>5, <4>3
    <3>5. CASE l # Len(sofar.taken) + 1
      <4>1. l \in 1 .. Len(sofar.taken)
        BY <3>1, <3>3, <3>5
      <4>2. PICK a \in 1 .. m, b \in 1 .. m :
              a < b /\ sofar.taken[k] = list[a] /\ sofar.taken[l] = list[b]
        <5>1. k \in DOMAIN sofar.taken /\ l \in DOMAIN sofar.taken /\ k < l
          BY <3>2, <3>3, <4>1
        <5>2. TakenInOrder(list, m, sofar.taken)
          OBVIOUS
        <5> QED BY ONLY <5>1, <5>2 DEF TakenInOrder
      <4> QED BY <1>4, <3>1, <3>3, <4>1, <4>2
    <3> QED BY <3>4, <3>5
  <2>10. RestHadNoRoom(pref, list, m + 1, ToSet(next.taken))
    <3> SUFFICES ASSUME NEW i \in 1 .. m + 1, list[i] \notin mine \cup {x}
                 PROVE  NoRoom(pref, list[i], (mine \cup {x}) \cap Upto(list, i - 1))
      BY <2>4 DEF RestHadNoRoom
    <3>1. i \in 1 .. m
      BY <1>5 DEF x
    <3>2. (mine \cup {x}) \cap Upto(list, i - 1) = mine \cap Upto(list, i - 1)
      BY <1>3
    <3>3. NoRoom(pref, list[i], mine \cap Upto(list, i - 1))
      BY <3>1 DEF RestHadNoRoom, mine
    <3> QED BY <3>2, <3>3
  <2> QED BY <2>8, <2>9, <2>10 DEF next, x
<1>11. CASE ~fits
  <2>1. next = sofar
    BY <1>11 DEF Take
  <2> HIDE DEF next, x, mine, L
  <2>2. TakenSo(pref, list, m + 1, next)
    BY <1>6, <1>7, <2>1 DEF TakenSo, mine, L
  <2>3. TakenInOrder(list, m + 1, next.taken)
    BY <1>4, <2>1 DEF TakenInOrder
  <2>4. RestHadNoRoom(pref, list, m + 1, ToSet(next.taken))
    <3> SUFFICES ASSUME NEW i \in 1 .. m + 1, list[i] \notin mine
                 PROVE  NoRoom(pref, list[i], mine \cap Upto(list, i - 1))
      BY <2>1 DEF RestHadNoRoom, mine
    <3>1. CASE i \in 1 .. m
      BY <3>1 DEF RestHadNoRoom, mine
    <3>2. CASE i = m + 1
      <4>1. mine \cap Upto(list, i - 1) = mine
        BY <1>5, <1>7, <3>2
      <4>2. Total(pref, mine) = L \/ Total(pref, mine) + Value(pref, x) > L
        BY <1>7, <1>9, <1>11
      <4>3. NoRoom(pref, x, mine)
        BY <4>2 DEF NoRoom, L
      <4> QED BY <3>2, <4>1, <4>3 DEF x
    <3> QED BY <1>5, <3>1, <3>2
  <2> QED BY <2>2, <2>3, <2>4 DEF next, x
<1> QED BY <1>10, <1>11

(* What Limited takes from a list: tracks of it in its order, within the   *)
(* limit, and every track passed over had no room beside those taken       *)
(* before it.                                                              *)
LEMMA LimitedFills ==
  ASSUME NEW pref, pref.limitvalue \in Nat, NEW list \in Seq(Track),
         IsInjective(list)
  PROVE  LET taken == Limited(pref, list)
         IN  /\ taken \in Seq(Track) /\ IsInjective(taken) /\ ToSet(taken) \subseteq ToSet(list)
             /\ Total(pref, ToSet(taken)) <= pref.limitvalue
             /\ TakenInOrder(list, Len(list), taken)
             /\ RestHadNoRoom(pref, list, Len(list), ToSet(taken))
<1>1. PICK f \in [0 .. Len(list) -> Sofar] :
        /\ f[0] = [total |-> 0, taken |-> <<>>]
        /\ \A n \in 1 .. Len(list) : f[n] = Take(pref, f[n - 1], list[n])
        /\ Limited(pref, list) = f[Len(list)].taken
  BY LimitSteps, ValueNatural
<1>2. Len(list) \in Nat /\ DOMAIN list = 1 .. Len(list)
  OBVIOUS
<1> DEFINE Right(n) == /\ TakenSo(pref, list, n, f[n]) /\ TakenInOrder(list, n, f[n].taken)
                       /\ RestHadNoRoom(pref, list, n, ToSet(f[n].taken))
           Good == {n \in Nat : n <= Len(list) => Right(n)}
<1>3. 0 \in Good
  <2>1. f[0].total = 0 /\ f[0].taken = <<>>
    BY <1>1
  <2>2. DOMAIN <<>> = {} /\ <<>> \in Seq(Track) /\ 1 .. 0 = {}
    OBVIOUS
  <2>3. ToSet(<<>>) = {} /\ IsInjective(<<>>)
    BY <2>2 DEF ToSet, IsInjective
  <2>4. TakenSo(pref, list, 0, f[0])
    BY <2>1, <2>2, <2>3, TotalEmpty DEF TakenSo
  <2>5. TakenInOrder(list, 0, f[0].taken)
    BY <2>1, <2>2 DEF TakenInOrder
  <2>6. RestHadNoRoom(pref, list, 0, ToSet(f[0].taken))
    BY <2>2 DEF RestHadNoRoom
  <2> QED BY <2>4, <2>5, <2>6
<1>4. ASSUME NEW m \in Good PROVE m + 1 \in Good
  <2>1. m \in Nat /\ m + 1 \in Nat
    OBVIOUS
  <2> SUFFICES ASSUME m + 1 <= Len(list) PROVE Right(m + 1)
    BY <2>1
  <2>2. /\ m <= Len(list) /\ m + 1 \in 1 .. Len(list) /\ (m + 1) - 1 = m
        /\ m \in 0 .. Len(list)
    BY <1>2, <2>1
  <2>3. Right(m)
    BY <2>2
  <2>4. f[m] \in Sofar
    BY <1>1, <2>2
  <2>5. f[m + 1] = Take(pref, f[m], list[m + 1])
    BY <1>1, <2>2
  <2> QED BY <2>1, <2>3, <2>4, <2>5, TurnTakes
<1>5. Right(Len(list))
  <2>1. Good \in SUBSET Nat
    OBVIOUS
  <2> HIDE DEF Good, Right
  <2>2. Len(list) \in Good
    BY <1>2, <1>3, <1>4, <2>1, EveryNatural
  <2> QED BY <1>2, <2>2 DEF Good
<1>6. Upto(list, Len(list)) = ToSet(list)
  BY <1>2 DEF Upto, ToSet
<1> QED BY <1>1, <1>5, <1>6 DEF TakenSo

-----------------------------------------------------------------------------
(* A list that is right for the tracks that were selected.                 *)

(* The preferences of a smart playlist, and what "random" may make of the  *)
(* tracks.                                                                 *)
Able(p) == prefs \in Setups /\ p \in Playlist /\ Smart(p)
Lucky(p, luck) == p \in AtRandom => luck[p] \in Orders(Track)

(* What is known of the preferences of a smart playlist.                   *)
LEMMA AblePrefs ==
  ASSUME NEW p, Able(p)
  PROVE  /\ prefs[p].limitvalue \in Nat
         /\ prefs[p].limitsort = "random" \/ prefs[p].limitsort \in Sort
         /\ \A r \in prefs[p].rules : r.field \in Field
<1>1. prefs \in Setups /\ p \in Playlist /\ prefs[p] # Plain
  BY DEF Able, Smart
<1>2. /\ prefs[p].limitvalue \in Nat /\ prefs[p].limitsort \in LimitSort
      /\ \A r \in prefs[p].rules : r.field \in Field
  BY <1>1, SmartAssumption
<1> QED BY <1>2 DEF Sort

(* A list that is right for the selected tracks S.                         *)
Fits(p, S, list) ==
  /\ ToSet(list) \subseteq S
  /\ prefs[p].checklimits =>
       \A t \in S \ ToSet(list) :
         NoRoom(prefs[p], t, IF p \in AtRandom THEN ToSet(list)
                      ELSE {u \in ToSet(list) : Before(prefs[p].limitsort, u, t)})
  /\ ~prefs[p].checklimits => ToSet(list) = S
  /\ \A i, j \in DOMAIN list :
       (i < j /\ p \notin AtRandom) =>
         IF prefs[p].checklimits THEN Before(prefs[p].limitsort, list[i], list[j])
         ELSE Place(list[i]) < Place(list[j])
Kept(p, list) ==
  /\ list \in Seq(Track) /\ IsInjective(list)
  /\ prefs[p].checklimits => Total(prefs[p], ToSet(list)) <= prefs[p].limitvalue

(* A track that finds no room beside some finds none beside more, within   *)
(* the limit.                                                              *)
LEMMA NoRoomGrows ==
  ASSUME NEW pref, pref.limitvalue \in Nat, NEW t \in Track, NEW S, NEW R, S \subseteq R,
         Total(pref, R) <= pref.limitvalue, NoRoom(pref, t, S)
  PROVE  NoRoom(pref, t, R)
<1>1. Total(pref, S) \in Nat /\ Total(pref, R) \in Nat /\ Value(pref, t) \in Nat
  BY TotalNatural, ValueNatural
<1>2. Total(pref, S) <= Total(pref, R)
  BY TotalMonotone
<1>3. Total(pref, S) = pref.limitvalue \/ Total(pref, S) + Value(pref, t) > pref.limitvalue
  BY DEF NoRoom
<1> QED BY <1>1, <1>2, <1>3 DEF NoRoom

(* With a limit and a sort, Limited leaves a list that is right.           *)
LEMMA SortedFits ==
  ASSUME Plays, NEW p, Able(p), prefs[p].checklimits, prefs[p].limitsort \in Sort,
         NEW S \in SUBSET Track, NEW luck
  PROVE  /\ Fits(p, S, Limited(prefs[p], LimitSorted(p, S, luck)))
         /\ Kept(p, Limited(prefs[p], LimitSorted(p, S, luck)))
<1> DEFINE list == LimitSorted(p, S, luck)
           sort == prefs[p].limitsort
           taken == Limited(prefs[p], LimitSorted(p, S, luck))
           mine == ToSet(taken)
<1>1. /\ list \in Seq(Track) /\ ListOf(list, S)
      /\ \A i, j \in DOMAIN list : i < j => Before(sort, list[i], list[j])
  BY SortedList
<1>2. sort # "random" /\ p \notin AtRandom /\ sort \in Sort
  BY DEF Sort, AtRandom
<1>3. prefs[p].limitvalue \in Nat /\ IsInjective(list) /\ ToSet(list) = S
  BY <1>1, AblePrefs DEF ListOf
<1> HIDE DEF list
<1>4. /\ taken \in Seq(Track) /\ IsInjective(taken) /\ mine \subseteq ToSet(list)
      /\ Total(prefs[p], mine) <= prefs[p].limitvalue
      /\ TakenInOrder(list, Len(list), taken)
      /\ RestHadNoRoom(prefs[p], list, Len(list), mine)
  BY <1>1, <1>3, LimitedFills DEF list
<1> HIDE DEF taken, sort
<1>5. DOMAIN list = 1 .. Len(list) /\ Len(list) \in Nat
  BY <1>1
<1>6. ASSUME NEW t \in S \ mine PROVE NoRoom(prefs[p], t, {u \in mine : Before(sort, u, t)})
  <2>1. PICK i \in 1 .. Len(list) : list[i] = t
    BY <1>3, <1>5 DEF ToSet
  <2>2. NoRoom(prefs[p], t, mine \cap Upto(list, i - 1))
    BY <1>4, <2>1 DEF RestHadNoRoom
  <2>3. \A j \in 1 .. i - 1 : j \in 1 .. Len(list) /\ j < i
    BY <1>5
  <2>4. ASSUME NEW u \in mine PROVE u \in Upto(list, i - 1) <=> Before(sort, u, t)
    <3>1. PICK j \in 1 .. Len(list) : list[j] = u
      BY <1>3, <1>4, <1>5 DEF ToSet
    <3>2. i # j
      BY <2>1, <3>1
    <3>3. CASE j < i
      <4>1. Before(sort, u, t)
        BY <1>1, <1>5, <2>1, <3>1, <3>3
      <4>2. j \in 1 .. i - 1
        BY <3>3
      <4> QED BY <3>1, <4>1, <4>2 DEF Upto
    <3>4. CASE i < j
      <4>1. Before(sort, t, u) /\ t \in Track /\ u \in Track
        BY <1>1, <1>5, <2>1, <3>1, <3>4
      <4>2. ~Before(sort, u, t)
        BY <1>2, <4>1, BeforeOrders
      <4>3. ASSUME NEW k \in 1 .. i - 1 PROVE list[k] # u
        <5>1. k \in DOMAIN list /\ j \in DOMAIN list /\ k # j
          BY <1>5, <2>3, <3>4
        <5> QED BY <1>3, <3>1, <5>1 DEF IsInjective
      <4> QED BY <4>2, <4>3 DEF Upto
    <3> QED BY <3>2, <3>3, <3>4
  <2>5. mine \cap Upto(list, i - 1) = {u \in mine : Before(sort, u, t)}
    BY <2>4
  <2> QED BY <2>2, <2>5
<1>7. ASSUME NEW k \in DOMAIN taken, NEW l \in DOMAIN taken, k < l
      PROVE  Before(sort, taken[k], taken[l])
  <2>1. PICK a \in 1 .. Len(list), b \in 1 .. Len(list) :
          a < b /\ taken[k] = list[a] /\ taken[l] = list[b]
    BY <1>4, <1>7 DEF TakenInOrder
  <2> QED BY <1>1, <1>5, <2>1
<1>8. Fits(p, S, taken)
  BY <1>2, <1>3, <1>4, <1>6, <1>7 DEF Fits, sort
<1>9. Kept(p, taken)
  BY <1>4 DEF Kept
<1> QED BY <1>8, <1>9 DEF taken

(* So it does with a random order.                                         *)
LEMMA ShuffledFits ==
  ASSUME NEW p, Able(p), prefs[p].checklimits, prefs[p].limitsort = "random",
         NEW S \in SUBSET Track, NEW luck, luck[p] \in Orders(Track)
  PROVE  /\ Fits(p, S, Limited(prefs[p], LimitSorted(p, S, luck)))
         /\ Kept(p, Limited(prefs[p], LimitSorted(p, S, luck)))
<1> DEFINE list == LimitSorted(p, S, luck)
           taken == Limited(prefs[p], LimitSorted(p, S, luck))
           mine == ToSet(taken)
<1>1. list \in Seq(Track) /\ ListOf(list, S)
  BY ShuffledList
<1>2. p \in AtRandom
  BY DEF Able, AtRandom
<1>3. prefs[p].limitvalue \in Nat /\ IsInjective(list) /\ ToSet(list) = S
  BY <1>1, AblePrefs DEF ListOf
<1> HIDE DEF list
<1>4. /\ taken \in Seq(Track) /\ IsInjective(taken) /\ mine \subseteq ToSet(list)
      /\ Total(prefs[p], mine) <= prefs[p].limitvalue
      /\ RestHadNoRoom(prefs[p], list, Len(list), mine)
  BY <1>1, <1>3, LimitedFills DEF list
<1> HIDE DEF taken
<1>5. DOMAIN list = 1 .. Len(list) /\ Len(list) \in Nat
  BY <1>1
<1>6. ASSUME NEW t \in S \ mine PROVE NoRoom(prefs[p], t, mine)
  <2>1. PICK i \in 1 .. Len(list) : list[i] = t
    BY <1>3, <1>5 DEF ToSet
  <2>2. NoRoom(prefs[p], t, mine \cap Upto(list, i - 1))
    BY <1>4, <2>1 DEF RestHadNoRoom
  <2>3. mine \cap Upto(list, i - 1) \subseteq mine /\ t \in Track
    OBVIOUS
  <2> QED BY <1>3, <1>4, <2>2, <2>3, NoRoomGrows
<1>7. Fits(p, S, taken)
  BY <1>2, <1>3, <1>4, <1>6 DEF Fits
<1>8. Kept(p, taken)
  BY <1>4 DEF Kept
<1> QED BY <1>7, <1>8 DEF taken

(* However a playlist is filled, its list is right for what was selected.  *)
LEMMA FilledFits ==
  ASSUME Plays, NEW p, Able(p), NEW S \in SUBSET Track, NEW luck, Lucky(p, luck)
  PROVE  Fits(p, S, Filled(p, S, luck)) /\ Kept(p, Filled(p, S, luck))
<1>1. CASE prefs[p].checklimits /\ prefs[p].limitsort \in Sort
  BY <1>1, SortedFits DEF Filled
<1>2. CASE prefs[p].checklimits /\ prefs[p].limitsort = "random"
  <2>1. luck[p] \in Orders(Track)
    BY <1>2 DEF Able, AtRandom, Lucky
  <2> QED BY <1>2, <2>1, ShuffledFits DEF Filled
<1>3. CASE ~prefs[p].checklimits
  <2> DEFINE list == Only(Library, S)
  <2>1. /\ list \in Seq(Track) /\ ListOf(list, S)
        /\ \A i, j \in DOMAIN list : i < j => Place(list[i]) < Place(list[j])
    BY LibraryOrder
  <2>2. Filled(p, S, luck) = list
    BY <1>3 DEF Filled
  <2> HIDE DEF list
  <2>3. Fits(p, S, list)
    BY <1>3, <2>1 DEF Fits, ListOf
  <2>4. Kept(p, list)
    BY <1>3, <2>1 DEF Kept, ListOf
  <2> QED BY <2>2, <2>3, <2>4
<1> QED BY <1>1, <1>2, <1>3, AblePrefs

(* UpToDate says just that of the members and the tracks that match.       *)
LEMMA UpToDateFits ==
  ASSUME NEW p PROVE UpToDate(p) <=> Fits(p, Selected(p), members[p])
BY DEF UpToDate, Fits

-----------------------------------------------------------------------------
(* What an update depends on.                                              *)

(* The tracks that match when playlists have the members mem, and members  *)
(* that are the same for the playlists that p's rules name.                *)
SelectedIn(p, mem) == {t \in Track : Matches(p, t, mem)}
Agree(p, mem1, mem2) == \A q \in Names(p) : mem1[q] = mem2[q]

(* What a rule says depends only on the members of the playlist it names,  *)
(* what is selected only on those that the rules name, and so the list     *)
(* that an update fills in.                                                *)
LEMMA EvalDepends ==
  ASSUME NEW rule, rule.field \in Field, NEW t, NEW mem1, NEW mem2,
         rule.field = "playlist" /\ rule.from \in ToSet(playlists)
           => mem1[rule.from] = mem2[rule.from]
  PROVE  Eval(rule, t, mem1) <=> Eval(rule, t, mem2)
<1>1. rule.field = "playlist" => (PlaylistMatches(rule, t, mem1) <=> PlaylistMatches(rule, t, mem2))
  BY DEF PlaylistMatches
<1>2. FieldType(rule.field) = "playlist" => rule.field = "playlist"
  BY DEF Field, FieldType
<1> QED BY <1>1, <1>2 DEF Eval

LEMMA MatchesDepends ==
  ASSUME NEW p, Able(p), NEW t, NEW mem1, NEW mem2, Agree(p, mem1, mem2)
  PROVE  Matches(p, t, mem1) <=> Matches(p, t, mem2)
<1>1. CASE prefs[p].checkrules
  <2>1. ASSUME NEW r \in prefs[p].rules PROVE Eval(r, t, mem1) <=> Eval(r, t, mem2)
    <3>1. r.field \in Field
      BY AblePrefs
    <3>2. r.field = "playlist" /\ r.from \in ToSet(playlists) => r.from \in Names(p)
      BY <1>1 DEF Names, Able
    <3>3. r.field = "playlist" /\ r.from \in ToSet(playlists) => mem1[r.from] = mem2[r.from]
      BY <3>2 DEF Agree
    <3> QED BY <3>1, <3>3, EvalDepends
  <2> QED BY <2>1 DEF Matches
<1>2. CASE ~prefs[p].checkrules
  BY <1>2 DEF Matches
<1> QED BY <1>1, <1>2

LEMMA SelectedDepends ==
  ASSUME NEW p, Able(p), NEW mem1, NEW mem2, Agree(p, mem1, mem2)
  PROVE  SelectedIn(p, mem1) = SelectedIn(p, mem2)
<1>1. \A t \in Track : Matches(p, t, mem1) <=> Matches(p, t, mem2)
  BY MatchesDepends
<1> QED BY <1>1 DEF SelectedIn

(* Clearing the playlist first makes no difference to one whose rules do   *)
(* not name it.                                                            *)
LEMMA SelectionIsSelected ==
  ASSUME NEW p, Able(p), p \notin Names(p), ToSet(playlists) \subseteq Playlist,
         NEW mem, DOMAIN mem = Playlist
  PROVE  Selection(p, mem) = SelectedIn(p, mem)
<1> DEFINE cleared == [mem EXCEPT ![p] = <<>>]
<1>1. Names(p) \subseteq Playlist
  BY DEF Names
<1>2. Agree(p, cleared, mem)
  BY <1>1 DEF Agree
<1> HIDE DEF cleared
<1>3. SelectedIn(p, cleared) = SelectedIn(p, mem)
  BY <1>2, SelectedDepends
<1> QED BY <1>3 DEF Selection, SelectedIn, cleared

LEMMA RefilledDepends ==
  ASSUME NEW p, Able(p), p \notin Names(p), ToSet(playlists) \subseteq Playlist,
         NEW mem1, DOMAIN mem1 = Playlist, NEW mem2, DOMAIN mem2 = Playlist,
         Agree(p, mem1, mem2), NEW luck
  PROVE  Refilled(p, mem1, luck) = Refilled(p, mem2, luck)
<1>1. Selection(p, mem1) = Selection(p, mem2)
  BY SelectionIsSelected, SelectedDepends
<1> QED BY <1>1 DEF Refilled

(* Luck plays a part only where the limit is random.                       *)
LEMMA RefilledLucky ==
  ASSUME NEW p, Able(p), p \notin AtRandom, NEW mem, NEW luck, NEW other
  PROVE  Refilled(p, mem, luck) = Refilled(p, mem, other)
<1>1. ~prefs[p].checklimits \/ prefs[p].limitsort # "random"
  BY DEF AtRandom, Able
<1>2. CASE ~prefs[p].checklimits
  BY <1>2 DEF Refilled, Filled
<1>3. CASE prefs[p].limitsort # "random"
  <2>1. LimitSorted(p, Selection(p, mem), luck) = LimitSorted(p, Selection(p, mem), other)
    BY <1>3 DEF LimitSorted
  <2> QED BY <2>1 DEF Refilled, Filled
<1> QED BY <1>1, <1>2, <1>3

(* A playlist that was filled from mem.                                    *)
LEMMA RefilledFits ==
  ASSUME Plays, NEW p, Able(p), NEW mem, NEW luck, Lucky(p, luck)
  PROVE  /\ Fits(p, Selection(p, mem), Refilled(p, mem, luck))
         /\ Kept(p, Refilled(p, mem, luck))
<1>1. Selection(p, mem) \in SUBSET Track
  BY DEF Selection
<1> QED BY <1>1, FilledFits DEF Refilled

-----------------------------------------------------------------------------
(* A pass: several playlists are updated one after the other.              *)

(* The members after each update of a pass over a list of playlists.       *)
Pass(f, list, luck) ==
  /\ f \in [0 .. Len(list) -> Members]
  /\ f[0] = members
  /\ \A n \in 1 .. Len(list) : f[n] = Updated(list[n], f[n - 1], luck)
  /\ UpdatedAll(list, luck) = f[Len(list)]
(* Playlists that can be updated so.                                       *)
Listable(list, luck) ==
  /\ list \in Seq(Playlist)
  /\ \A i \in DOMAIN list : Smart(list[i]) /\ Lucky(list[i], luck)

(* A pass over smart playlists goes through such members.                  *)
LEMMA PassSteps ==
  ASSUME Plays, prefs \in Setups, members \in Members, NEW list, NEW luck,
         Listable(list, luck)
  PROVE  \E f : Pass(f, list, luck)
<1>1. list \in Seq(Playlist) /\ \A i \in DOMAIN list : list[i] \in Playlist
  BY DEF Listable
<1>2. ASSUME NEW p \in Playlist, NEW mem \in Members, \E i \in DOMAIN list : list[i] = p
      PROVE  Refilled(p, mem, luck) \in Seq(Track)
  <2>1. Able(p) /\ Lucky(p, luck)
    BY <1>2 DEF Listable, Able
  <2>2. Kept(p, Refilled(p, mem, luck))
    BY <2>1, RefilledFits
  <2> QED BY <2>2 DEF Kept
<1>3. \E f \in [0 .. Len(list) -> Members] :
        /\ f[0] = members
        /\ \A n \in 1 .. Len(list) : f[n] = Updated(list[n], f[n - 1], luck)
        /\ UpdatedAll(list, luck) = f[Len(list)]
  BY <1>1, <1>2, UpdatedSteps
<1> QED BY <1>3 DEF Pass

(* A turn that is not p's leaves p's members alone, p's own fills them.    *)
LEMMA PassTurn ==
  ASSUME NEW f, NEW list \in Seq(Playlist), NEW luck, Pass(f, list, luck), NEW p \in Playlist,
         NEW n \in 1 .. Len(list)
  PROVE  /\ f[n] \in Members /\ f[n - 1] \in Members
         /\ list[n] # p => f[n][p] = f[n - 1][p]
         /\ list[n] = p => f[n][p] = Refilled(p, f[n - 1], luck)
<1>1. Len(list) \in Nat /\ n \in 0 .. Len(list) /\ n - 1 \in 0 .. Len(list)
  OBVIOUS
<1>2. f[n] \in Members /\ f[n - 1] \in Members /\ f[n] = Updated(list[n], f[n - 1], luck)
  BY <1>1 DEF Pass
<1>3. DOMAIN f[n - 1] = Playlist
  BY <1>2 DEF Members
<1> QED BY <1>2, <1>3 DEF Updated

(* Between two turns of p, its members stay.                               *)
LEMMA PassKeeps ==
  ASSUME NEW f, NEW list \in Seq(Playlist), NEW luck, Pass(f, list, luck), NEW p \in Playlist,
         NEW k \in 0 .. Len(list), NEW l \in k .. Len(list),
         \A n \in k + 1 .. l : list[n] # p
  PROVE  f[l][p] = f[k][p]
<1> DEFINE Good == {m \in Nat : k + m <= l => f[k + m][p] = f[k][p]}
<1>1. Len(list) \in Nat /\ k \in Nat /\ l \in Nat /\ k <= l /\ l <= Len(list)
  OBVIOUS
<1>2. 0 \in Good
  BY <1>1
<1>3. ASSUME NEW m \in Good PROVE m + 1 \in Good
  <2> SUFFICES ASSUME k + (m + 1) <= l PROVE f[k + (m + 1)][p] = f[k][p]
    OBVIOUS
  <2>1. m \in Nat /\ k + m <= l /\ f[k + m][p] = f[k][p]
    BY <1>1
  <2>2. k + (m + 1) \in 1 .. Len(list) /\ (k + (m + 1)) - 1 = k + m /\ k + (m + 1) \in k + 1 .. l
    BY <1>1, <2>1
  <2>3. f[k + (m + 1)][p] = f[k + m][p]
    BY <2>2, PassTurn
  <2> QED BY <2>1, <2>3
<1>4. Good \in SUBSET Nat
  OBVIOUS
<1>5. l - k \in Nat /\ k + (l - k) = l
  BY <1>1
<1> HIDE DEF Good
<1>6. l - k \in Good
  BY <1>2, <1>3, <1>4, <1>5, EveryNatural
<1> QED BY <1>5, <1>6 DEF Good

(* What the members are worth.                                             *)
Right(mem) ==
  /\ mem \in Members
  /\ \A p \in Playlist : IsInjective(mem[p])
  /\ \A p \in ToSet(playlists) : Smart(p) => Kept(p, mem[p])

(* An update, and so every turn of a pass, keeps that.                     *)
LEMMA UpdatedRight ==
  ASSUME Plays, NEW p, Able(p), NEW luck, Lucky(p, luck), NEW mem, Right(mem),
         ToSet(playlists) \subseteq Playlist
  PROVE  Right(Updated(p, mem, luck))
<1> DEFINE new == Updated(p, mem, luck)
           list == Refilled(p, mem, luck)
<1>1. Kept(p, list) /\ p \in Playlist
  BY RefilledFits DEF Able
<1>2. mem \in Members /\ new = [mem EXCEPT ![p] = list]
  BY DEF Updated, Right
<1> HIDE DEF list, new
<1>3. list \in Seq(Track) /\ IsInjective(list)
  BY <1>1 DEF Kept
<1>4. new \in Members
  BY <1>2, <1>3 DEF Members
<1>5. \A q \in Playlist : new[q] = IF q = p THEN list ELSE mem[q]
  BY <1>2 DEF Members
<1>6. \A q \in Playlist : IsInjective(new[q])
  BY <1>3, <1>5 DEF Right
<1>7. \A q \in ToSet(playlists) : Smart(q) => Kept(q, new[q])
  BY <1>1, <1>5 DEF Right
<1> QED BY <1>4, <1>6, <1>7 DEF Right, new

LEMMA PassRight ==
  ASSUME Plays, prefs \in Setups, ToSet(playlists) \subseteq Playlist, Right(members),
         NEW f, NEW list, NEW luck, Listable(list, luck), Pass(f, list, luck)
  PROVE  \A n \in 0 .. Len(list) : Right(f[n])
<1> DEFINE Good == {n \in Nat : n <= Len(list) => Right(f[n])}
<1>1. list \in Seq(Playlist) /\ Len(list) \in Nat
  BY DEF Listable
<1>2. 0 \in Good
  BY DEF Pass
<1>3. ASSUME NEW m \in Good PROVE m + 1 \in Good
  <2> SUFFICES ASSUME m + 1 <= Len(list) PROVE Right(f[m + 1])
    OBVIOUS
  <2>1. m \in Nat /\ m + 1 \in 1 .. Len(list) /\ (m + 1) - 1 = m /\ Right(f[m])
    BY <1>1
  <2>2. f[m + 1] = Updated(list[m + 1], f[m], luck)
    BY <2>1 DEF Pass
  <2>3. Able(list[m + 1]) /\ Lucky(list[m + 1], luck)
    <3>1. m + 1 \in DOMAIN list /\ list[m + 1] \in Playlist
      BY <1>1, <2>1
    <3> QED BY <3>1 DEF Listable, Able
  <2> QED BY <2>1, <2>2, <2>3, UpdatedRight
<1>4. Good \in SUBSET Nat
  OBVIOUS
<1>5. \A n \in Nat : n \in Good
  <2> HIDE DEF Good
  <2> QED BY <1>2, <1>3, <1>4, EveryNatural
<1> QED BY <1>1, <1>5

-----------------------------------------------------------------------------
(* The invariant.                                                          *)

(* A step that leaves the tracks, the list of playlists and the            *)
(* preferences as they are.                                                *)
Still == UNCHANGED <<tracks, playlists, prefs>>

(* What matches after such a step is what matches with the new members.    *)
LEMMA SelectedStays ==
  ASSUME Still, NEW p PROVE Selected(p)' = SelectedIn(p, members')
BY DEF Still, tracks, Selected, SelectedIn, Matches, Eval, PlaylistMatches

LEMMA UpToDateStays ==
  ASSUME Still, NEW p
  PROVE  UpToDate(p)' <=> Fits(p, SelectedIn(p, members'), members'[p])
<1> DEFINE S == SelectedIn(p, members')
<1>1. Selected(p)' = S
  BY SelectedStays
<1>2. prefs' = prefs /\ AtRandom' = AtRandom
  BY DEF Still, AtRandom, Smart
<1> HIDE DEF S
<1>3. UpToDate(p)' <=> Fits(p, S, members'[p])
  BY <1>1, <1>2 DEF UpToDate, Fits, Still, tracks, Before, Key
<1> QED BY <1>3 DEF S

LEMMA RefilledStays ==
  ASSUME Still, NEW p, NEW luck
  PROVE  Refilled(p, members, luck)' = Refilled(p, members', luck)
<1>1. Selection(p, members)' = Selection(p, members')
  BY DEF Still, tracks, Selection, Matches, Eval, PlaylistMatches
<1>2. Filled(p, Selection(p, members), luck)' = Filled(p, Selection(p, members'), luck)
  BY <1>1 DEF Still, tracks, Filled, LimitSorted, Before, Key
<1> QED BY <1>2 DEF Refilled

(* The members are right for the preferences, whatever happened since the  *)
(* last update.                                                            *)
Inv ==
  /\ TypeOK
  /\ playlists \in Seq(Playlist) /\ IsInjective(playlists)
  /\ Right(members)

(* What follows from the invariant.                                        *)
LEMMA InvFacts ==
  ASSUME Inv
  PROVE  /\ Plays /\ prefs \in Setups /\ members \in Members
         /\ ToSet(playlists) \subseteq Playlist
         /\ \A p \in Playlist : Smart(p) => Able(p)
BY DEF Inv, TypeOK, Plays, Right, Able

(* An empty list is within every limit.                                    *)
LEMMA EmptyKept ==
  ASSUME NEW p, Able(p) PROVE Kept(p, <<>>)
<1>1. <<>> \in Seq(Track) /\ DOMAIN <<>> = {}
  OBVIOUS
<1>2. IsInjective(<<>>) /\ ToSet(<<>>) = {}
  BY <1>1 DEF IsInjective, ToSet
<1>3. Total(prefs[p], ToSet(<<>>)) = 0 /\ prefs[p].limitvalue \in Nat
  <2>1. Total(prefs[p], {}) = 0
    BY TotalEmpty
  <2> QED BY <1>2, <2>1, AblePrefs
<1>4. Total(prefs[p], ToSet(<<>>)) <= prefs[p].limitvalue
  BY <1>3
<1> QED BY <1>1, <1>2, <1>4 DEF Kept

(* Members are tracks.                                                     *)
LEMMA MembersListed ==
  ASSUME NEW mem \in Members, NEW p \in Playlist
  PROVE  mem[p] \in Seq(Track) /\ ToSet(mem[p]) \subseteq Track /\ DOMAIN mem = Playlist
<1>1. mem[p] \in Seq(Track) /\ DOMAIN mem = Playlist
  BY DEF Members
<1>2. \A i \in DOMAIN mem[p] : mem[p][i] \in Track
  BY <1>1
<1> QED BY <1>1, <1>2 DEF ToSet

(* At the start all lists are empty.                                       *)
LEMMA InitInv == Init => Inv
<1> SUFFICES ASSUME Init PROVE Inv
  OBVIOUS
<1> USE DEF Init
<1>1. playlists \in Seq(Playlist) /\ ListOf(playlists, Playlist)
  BY OrdersList, SmartAssumption
<1>2. <<>> \in Seq(Track) /\ DOMAIN <<>> = {}
  OBVIOUS
<1>3. IsInjective(<<>>) /\ ToSet(<<>>) = {}
  BY <1>2 DEF IsInjective, ToSet
<1>4. members \in Members /\ \A p \in Playlist : members[p] = <<>>
  BY <1>2 DEF Members
<1>5. \A p \in Playlist : Smart(p) => Able(p)
  BY DEF Able
<1>6. Right(members)
  BY <1>1, <1>3, <1>4, <1>5, EmptyKept DEF Right, ListOf
<1>7. MaxPasses \in Nat
  BY SmartAssumption, FS_CardinalityType DEF MaxPasses
<1>8. TypeOK
  <2>1. playcount \in [Track -> 0 .. MaxPlays]
    BY SmartAssumption
  <2>2. time_played \in [Track -> 0 .. MaxNow]
    BY SmartAssumption
  <2>3. checked \in [Track -> BOOLEAN] /\ now \in 1 .. MaxNow
    BY SmartAssumption
  <2>4. passes \in 0 .. MaxPasses /\ edits \in 0 .. MaxEdits
    BY SmartAssumption, <1>7
  <2>5. ToSet(playlists) \subseteq Playlist
    BY <1>1 DEF ListOf
  <2>6. DOMAIN members = Playlist
    BY <1>4
  <2>7. \A p \in Playlist : IsInjective(members[p]) /\ ToSet(members[p]) \subseteq Track
    BY <1>3, <1>4
  <2> QED BY <2>1, <2>2, <2>3, <2>4, <2>5, <2>6, <2>7 DEF TypeOK
<1> QED BY <1>1, <1>6, <1>8 DEF Inv, ListOf

(* Luck gives each random playlist an order of the library.                *)
LEMMA LuckLucky ==
  ASSUME NEW luck \in Luck, NEW p PROVE Lucky(p, luck)
BY DEF Luck, Lucky, Shuffles

(* Every list of smart playlists can be updated, and is right then.        *)
LEMMA ListUpdated ==
  ASSUME Inv, NEW list \in Seq(Playlist), \A i \in DOMAIN list : Smart(list[i]),
         NEW luck \in Luck
  PROVE  /\ Listable(list, luck)
         /\ \E f : Pass(f, list, luck)
         /\ Right(UpdatedAll(list, luck))
<1>1. Listable(list, luck)
  BY LuckLucky DEF Listable
<1>2. PICK f : Pass(f, list, luck)
  BY <1>1, InvFacts, PassSteps
<1>3. \A n \in 0 .. Len(list) : Right(f[n])
  BY <1>1, <1>2, InvFacts, PassRight DEF Inv
<1>4. Right(f[Len(list)])
  <2>1. Len(list) \in 0 .. Len(list)
    OBVIOUS
  <2> QED BY <1>3, <2>1
<1>5. Right(UpdatedAll(list, luck))
  BY <1>2, <1>4 DEF Pass
<1> QED BY <1>1, <1>2, <1>5

(* Right' and the part of TypeOK that is about the members.                *)
LEMMA RightStays ==
  ASSUME Right(members'), prefs' = prefs, ToSet(playlists') \subseteq ToSet(playlists)
  PROVE  Right(members)'
BY DEF Right, Kept, Smart, Members

(* Members that are right are of the right type.                           *)
LEMMA RightTyped ==
  ASSUME NEW mem, Right(mem)
  PROVE  /\ DOMAIN mem = Playlist
         /\ \A p \in Playlist : IsInjective(mem[p]) /\ ToSet(mem[p]) \subseteq Track
<1>1. mem \in Members /\ DOMAIN mem = Playlist
  BY DEF Right, Members
<1> QED BY <1>1, MembersListed DEF Right

(* The bound of the passes.                                                *)
LEMMA PassesNatural == MaxPasses \in Nat
BY SmartAssumption, FS_CardinalityType DEF MaxPasses

(* An update changes members only.                                         *)
LEMMA UpdatesInv ==
  ASSUME Inv, Still, passes' \in 0 .. MaxPasses, edits' = edits, Right(members')
  PROVE  Inv'
<1>1. Right(members)'
  BY RightStays DEF Still
<1>2. /\ DOMAIN members' = Playlist
      /\ \A p \in Playlist : IsInjective(members'[p]) /\ ToSet(members'[p]) \subseteq Track
  BY RightTyped
<1>3. TypeOK'
  BY <1>2 DEF Inv, TypeOK, Still, tracks, MaxPasses
<1> QED BY <1>1, <1>3 DEF Inv, Still

(* The calls of the library that fill smart playlists.                     *)
Updates == UpdateAll \/ UpdateLive \/ \E p \in Playlist : Update(p)

(* Every update goes through a list of smart playlists, each of them once. *)
SmartOnes == Only(playlists, {p \in Playlist : Smart(p)})
LiveOnes == Only(playlists, {p \in Playlist : Smart(p) /\ prefs[p].liveupdate})

(* Smart playlists in the order of itdb->playlists, each once.             *)
LEMMA ListOfSmart ==
  ASSUME Inv, NEW S \in SUBSET {p \in Playlist : Smart(p)}
  PROVE  /\ Only(playlists, S) \in Seq(Playlist) /\ IsInjective(Only(playlists, S))
         /\ \A i \in DOMAIN Only(playlists, S) : Smart(Only(playlists, S)[i])
         /\ \A p : p \in ToSet(Only(playlists, S)) <=> p \in ToSet(playlists) /\ p \in S
<1> DEFINE list == Only(playlists, S)
<1>1. /\ list \in Seq(Playlist) /\ IsInjective(list)
      /\ \A y : Listed(y, list) <=> Listed(y, playlists) /\ y \in S
  BY OnlyElements DEF Inv
<1> HIDE DEF list
<1>2. \A i \in DOMAIN list : Smart(list[i])
  <2> SUFFICES ASSUME NEW i \in DOMAIN list PROVE Smart(list[i])
    OBVIOUS
  <2>1. Listed(list[i], list)
    BY DEF Listed
  <2> QED BY <1>1, <2>1
<1>3. \A p : p \in ToSet(list) <=> p \in ToSet(playlists) /\ p \in S
  BY <1>1, InSetListed
<1> QED BY <1>1, <1>2, <1>3 DEF list

(* One smart playlist.                                                     *)
LEMMA OneSmart ==
  ASSUME NEW p \in Playlist, Smart(p)
  PROVE  /\ <<p>> \in Seq(Playlist) /\ IsInjective(<<p>>)
         /\ Len(<<p>>) = 1 /\ <<p>>[1] = p
         /\ \A i \in DOMAIN <<p>> : Smart(<<p>>[i])
<1>1. <<p>> \in Seq(Playlist) /\ DOMAIN <<p>> = 1 .. 1 /\ Len(<<p>>) = 1 /\ <<p>>[1] = p
  OBVIOUS
<1> QED BY <1>1 DEF IsInjective

(* Every update keeps the invariant.                                       *)
LEMMA UpdateKeepsInv ==
  ASSUME Inv, Updates PROVE Inv'
<1>1. CASE UpdateAll
  <2>1. PICK luck \in Luck : members' = UpdatedAll(SmartOnes, luck)
    BY <1>1 DEF UpdateAll, SmartOnes
  <2>2. {p \in Playlist : Smart(p)} \in SUBSET {p \in Playlist : Smart(p)}
    OBVIOUS
  <2>3. /\ SmartOnes \in Seq(Playlist) /\ \A i \in DOMAIN SmartOnes : Smart(SmartOnes[i])
    BY <2>2, ListOfSmart DEF SmartOnes
  <2>4. Right(members')
    BY <2>1, <2>3, ListUpdated
  <2>5. passes' \in 0 .. MaxPasses
    BY <1>1, PassesNatural DEF UpdateAll, Inv, TypeOK
  <2> QED BY <1>1, <2>4, <2>5, UpdatesInv DEF UpdateAll, Still
<1>2. CASE UpdateLive
  <2>1. PICK luck \in Luck : members' = UpdatedAll(LiveOnes, luck)
    BY <1>2 DEF UpdateLive, LiveOnes
  <2>2. {p \in Playlist : Smart(p) /\ prefs[p].liveupdate} \in SUBSET {p \in Playlist : Smart(p)}
    OBVIOUS
  <2>3. /\ LiveOnes \in Seq(Playlist) /\ \A i \in DOMAIN LiveOnes : Smart(LiveOnes[i])
    BY <2>2, ListOfSmart DEF LiveOnes
  <2>4. Right(members')
    BY <2>1, <2>3, ListUpdated
  <2>5. passes' \in 0 .. MaxPasses
    BY <1>2, PassesNatural DEF UpdateLive
  <2> QED BY <1>2, <2>4, <2>5, UpdatesInv DEF UpdateLive, Still
<1>3. ASSUME NEW p \in Playlist, Update(p) PROVE Inv'
  <2>1. PICK luck \in Luck : members' = UpdatedAll(<<p>>, luck)
    BY <1>3 DEF Update
  <2>2. Right(members')
    BY <1>3, <2>1, OneSmart, ListUpdated DEF Update
  <2>3. passes' \in 0 .. MaxPasses
    BY <1>3, PassesNatural DEF Update
  <2> QED BY <1>3, <2>2, <2>3, UpdatesInv DEF Update, Still
<1> QED BY <1>1, <1>2, <1>3 DEF Updates

-----------------------------------------------------------------------------
(* What an edit makes of the members is right: a shuffle keeps the tracks, *)
(* a track is added to or removed from a plain playlist, a removed         *)
(* playlist has none.                                                      *)
LEMMA RandomizeRight ==
  ASSUME Inv, NEW p \in Playlist, Randomize(p)
  PROVE  Right(members')
<1>1. PICK list \in Orders(ToSet(members[p])) : members' = [members EXCEPT ![p] = list]
  BY DEF Randomize
<1>2. members \in Members /\ ToSet(members[p]) \subseteq Track /\ DOMAIN members = Playlist
  BY InvFacts, MembersListed
<1>3. IsFiniteSet(ToSet(members[p]))
  BY <1>2, TracksFinite, FS_Subset
<1>4. list \in Seq(ToSet(members[p])) /\ ListOf(list, ToSet(members[p]))
  BY <1>3, OrdersList
<1>5. list \in Seq(Track)
  BY <1>2, <1>4
<1>6. IsInjective(list) /\ ToSet(list) = ToSet(members[p])
  BY <1>4 DEF ListOf
<1>7. \A q \in Playlist : members'[q] = IF q = p THEN list ELSE members[q]
  BY <1>1, <1>2
<1>8. members' \in Members
  BY <1>1, <1>2, <1>5 DEF Members
<1>9. \A q \in Playlist : IsInjective(members'[q])
  BY <1>6, <1>7 DEF Inv, Right
<1>10. \A q \in ToSet(playlists) : Smart(q) => Kept(q, members'[q])
  <2> SUFFICES ASSUME NEW q \in ToSet(playlists), Smart(q) PROVE Kept(q, members'[q])
    OBVIOUS
  <2>1. q \in Playlist /\ Kept(q, members[q])
    BY InvFacts DEF Inv, Right
  <2> QED BY <1>5, <1>6, <1>7, <2>1 DEF Kept
<1> QED BY <1>8, <1>9, <1>10 DEF Right

LEMMA PlainRight ==
  ASSUME Inv, NEW p \in Playlist, ~Smart(p), NEW list \in Seq(Track), IsInjective(list),
         members' = [members EXCEPT ![p] = list]
  PROVE  Right(members')
<1>1. members \in Members /\ DOMAIN members = Playlist /\ ToSet(playlists) \subseteq Playlist
  BY InvFacts DEF Members
<1>2. \A q \in Playlist : members'[q] = IF q = p THEN list ELSE members[q]
  BY <1>1
<1>3. members' \in Members
  BY <1>1 DEF Members
<1> QED BY <1>1, <1>2, <1>3 DEF Right, Inv

LEMMA AddTrackRight ==
  ASSUME Inv, NEW p \in Playlist, NEW t \in Track, AddTrack(p, t)
  PROVE  Right(members')
<1>1. members[p] \in Seq(Track) /\ IsInjective(members[p]) /\ DOMAIN members = Playlist
  BY InvFacts, MembersListed DEF Inv, Right
<1> DEFINE list == Append(members[p], t)
<1>2. list \in Seq(Track) /\ IsInjective(list)
  BY <1>1, FreshAppend DEF AddTrack
<1>3. members' = [members EXCEPT ![p] = list]
  BY DEF AddTrack
<1> HIDE DEF list
<1> QED BY <1>2, <1>3, PlainRight DEF AddTrack

LEMMA RemoveTrackRight ==
  ASSUME Inv, NEW p \in Playlist, NEW t \in Track, RemoveTrack(p, t)
  PROVE  Right(members')
<1>1. members[p] \in Seq(Track) /\ IsInjective(members[p])
  BY InvFacts, MembersListed DEF Inv, Right
<1> DEFINE list == GListRemove(members[p], t)
<1>2. list \in Seq(Track) /\ IsInjective(list)
  BY <1>1, RemoveListed, RemoveInjective
<1>3. members' = [members EXCEPT ![p] = list]
  BY DEF RemoveTrack
<1> HIDE DEF list
<1> QED BY <1>2, <1>3, PlainRight DEF RemoveTrack

LEMMA RemovePlaylistRight ==
  ASSUME Inv, NEW p \in Playlist, RemovePlaylist(p)
  PROVE  /\ Right(members') /\ playlists' \in Seq(Playlist) /\ IsInjective(playlists')
         /\ ToSet(playlists') \subseteq ToSet(playlists)
<1>1. members \in Members /\ DOMAIN members = Playlist /\ ToSet(playlists) \subseteq Playlist
  BY InvFacts DEF Members
<1>2. members' = [members EXCEPT ![p] = <<>>] /\ playlists' = GListRemove(playlists, p)
  BY DEF RemovePlaylist
<1>3. <<>> \in Seq(Track) /\ DOMAIN <<>> = {} /\ IsInjective(<<>>)
  BY DEF IsInjective
<1>4. \A q \in Playlist : members'[q] = IF q = p THEN <<>> ELSE members[q]
  BY <1>1, <1>2
<1>5. members' \in Members
  BY <1>1, <1>2, <1>3 DEF Members
<1>6. \A q \in Playlist : IsInjective(members'[q])
  BY <1>3, <1>4 DEF Inv, Right
<1>7. \A q \in ToSet(playlists) : Smart(q) => Kept(q, members'[q])
  <2> SUFFICES ASSUME NEW q \in ToSet(playlists), Smart(q) PROVE Kept(q, members'[q])
    OBVIOUS
  <2>1. q \in Playlist /\ Able(q) /\ Kept(q, members[q])
    BY <1>1, InvFacts DEF Inv, Right
  <2>2. CASE q = p
    BY <1>4, <2>1, <2>2, EmptyKept
  <2>3. CASE q # p
    BY <1>4, <2>1, <2>3
  <2> QED BY <2>2, <2>3
<1>8. playlists' \in Seq(Playlist) /\ IsInjective(playlists')
  BY <1>2, RemoveListed, RemoveInjective DEF Inv
<1>9. ASSUME NEW q \in ToSet(playlists') PROVE q \in ToSet(playlists)
  <2>1. Listed(q, playlists')
    BY InSetListed
  <2>2. Listed(q, playlists)
    BY <1>2, <2>1, RemoveListed DEF Inv
  <2> QED BY <2>2, InSetListed
<1> QED BY <1>5, <1>6, <1>7, <1>8, <1>9 DEF Right

(* Edits keep the invariant.                                               *)
LEMMA EditKeepsInv ==
  ASSUME Inv, Edit PROVE Inv'
<1>1. passes' \in 0 .. MaxPasses /\ edits' \in 0 .. MaxEdits
  BY PassesNatural, SmartAssumption DEF Edit, Inv, TypeOK
<1>2. ASSUME UNCHANGED <<prefs, members, playlists>>,
             playcount' \in [Track -> 0 .. MaxPlays], time_played' \in [Track -> 0 .. MaxNow],
             checked' \in [Track -> BOOLEAN], now' \in 1 .. MaxNow
      PROVE  Inv'
  <2>1. Right(members)'
    BY <1>2, RightStays DEF Inv
  <2>2. TypeOK'
    BY <1>1, <1>2 DEF TypeOK, MaxPasses, Inv
  <2> QED BY <1>2, <2>1, <2>2 DEF Inv
<1>3. ASSUME UNCHANGED <<tracks, prefs>>, Right(members'), playlists' \in Seq(Playlist),
             IsInjective(playlists'), ToSet(playlists') \subseteq ToSet(playlists)
      PROVE  Inv'
  <2>1. Right(members)'
    BY <1>3, RightStays
  <2>2. /\ DOMAIN members' = Playlist
        /\ \A p \in Playlist : IsInjective(members'[p]) /\ ToSet(members'[p]) \subseteq Track
    BY <1>3, RightTyped
  <2>3. TypeOK'
    BY <1>1, <1>3, <2>2 DEF TypeOK, MaxPasses, Inv, tracks
  <2> QED BY <1>3, <2>1, <2>3 DEF Inv
<1>4. ASSUME NEW t \in Track, Play(t) PROVE Inv'
  <2>1. playcount \in [Track -> 0 .. MaxPlays] /\ time_played \in [Track -> 0 .. MaxNow]
        /\ checked \in [Track -> BOOLEAN] /\ now \in 1 .. MaxNow
    BY DEF Inv, TypeOK
  <2>2. playcount[t] + 1 \in 0 .. MaxPlays /\ now \in 0 .. MaxNow
    BY <1>4, <2>1, SmartAssumption DEF Play
  <2>3. playcount' \in [Track -> 0 .. MaxPlays]
    BY <1>4, <2>1, <2>2 DEF Play
  <2>4. time_played' \in [Track -> 0 .. MaxNow]
    BY <1>4, <2>1, <2>2 DEF Play
  <2> QED BY <1>2, <1>4, <2>1, <2>3, <2>4 DEF Play
<1>5. ASSUME NEW t \in Track, Check(t) PROVE Inv'
  <2>1. playcount \in [Track -> 0 .. MaxPlays] /\ time_played \in [Track -> 0 .. MaxNow]
        /\ checked \in [Track -> BOOLEAN] /\ now \in 1 .. MaxNow
    BY DEF Inv, TypeOK
  <2>2. checked' \in [Track -> BOOLEAN]
    BY <1>5, <2>1 DEF Check
  <2> QED BY <1>2, <1>5, <2>1, <2>2 DEF Check
<1>6. ASSUME Tick PROVE Inv'
  <2>1. playcount \in [Track -> 0 .. MaxPlays] /\ time_played \in [Track -> 0 .. MaxNow]
        /\ checked \in [Track -> BOOLEAN] /\ now \in 1 .. MaxNow
    BY DEF Inv, TypeOK
  <2>2. now' \in 1 .. MaxNow
    BY <1>6, <2>1, SmartAssumption DEF Tick
  <2> QED BY <1>2, <1>6, <2>1, <2>2 DEF Tick
<1>7. ASSUME NEW p \in Playlist, NEW t \in Track, AddTrack(p, t) PROVE Inv'
  <2>1. Right(members')
    BY <1>7, AddTrackRight
  <2> QED BY <1>3, <1>7, <2>1 DEF AddTrack, Inv
<1>8. ASSUME NEW p \in Playlist, NEW t \in Track, RemoveTrack(p, t) PROVE Inv'
  <2>1. Right(members')
    BY <1>8, RemoveTrackRight
  <2> QED BY <1>3, <1>8, <2>1 DEF RemoveTrack, Inv
<1>9. ASSUME NEW p \in Playlist, RemovePlaylist(p) PROVE Inv'
  <2>1. /\ Right(members') /\ playlists' \in Seq(Playlist) /\ IsInjective(playlists')
        /\ ToSet(playlists') \subseteq ToSet(playlists)
    BY <1>9, RemovePlaylistRight
  <2> QED BY <1>3, <1>9, <2>1 DEF RemovePlaylist
<1>10. ASSUME NEW p \in Playlist, Randomize(p) PROVE Inv'
  <2>1. Right(members')
    BY <1>10, RandomizeRight
  <2> QED BY <1>3, <1>10, <2>1 DEF Randomize, Inv
<1> QED BY <1>4, <1>5, <1>6, <1>7, <1>8, <1>9, <1>10 DEF Edit

(* Every step does.                                                        *)
LEMMA NextInv ==
  ASSUME Inv, [Next]_vars PROVE Inv'
<1>1. CASE Edit
  BY <1>1, EditKeepsInv
<1>2. CASE Updates
  BY <1>2, UpdateKeepsInv
<1>3. CASE UNCHANGED vars
  <2>1. UNCHANGED <<playcount, time_played, checked, now, playlists, prefs, members, passes, edits>>
    BY <1>3 DEF vars
  <2>2. TypeOK'
    BY <2>1 DEF Inv, TypeOK, MaxPasses
  <2>3. Right(members)'
    BY <2>1, RightStays DEF Inv
  <2> QED BY <2>1, <2>2, <2>3 DEF Inv
<1> QED BY <1>1, <1>2, <1>3 DEF Next, Updates

(* The invariant says more than MembersSound.                              *)
LEMMA InvSound == Inv => MembersSound
<1> SUFFICES ASSUME Inv PROVE WithinLimit
  BY DEF Inv, MembersSound
<1> QED BY DEF Inv, Right, Kept, WithinLimit

(* The invariant holds: playlists list tracks of the database, none twice, *)
(* each playlist is there once, and no smart one has passed its limit.     *)
THEOREM MembersInvariant == Spec => []Inv
<1>1. Inv /\ [Next]_vars => Inv'
  BY NextInv
<1> QED BY <1>1, InitInv, PTL DEF Spec

(* Whatever was updated, edited or removed, smart playlists hold tracks of *)
(* the database and stay within their limits (itdb_spl_update looks at the *)
(* sum before it takes a track).                                           *)
THEOREM MembersSoundCorrect == Spec => []MembersSound
BY MembersInvariant, InvSound, PTL

-----------------------------------------------------------------------------
(* What an update and a pass over all playlists leave.                     *)

(* In a pass that visits p once, and after that none of those its rules    *)
(* name, p ends with what the rules say.                                   *)
LEMMA PassFills ==
  ASSUME Inv, NEW f, NEW list \in Seq(Playlist), NEW luck, Listable(list, luck),
         Pass(f, list, luck), IsInjective(list), NEW k \in 1 .. Len(list), NEW p, p = list[k],
         p \notin Names(p), \A q \in Names(p) : \A n \in k .. Len(list) : list[n] # q
  PROVE  LET mem == UpdatedAll(list, luck)
         IN  /\ mem \in Members /\ mem[p] = Refilled(p, f[k - 1], luck)
             /\ f[k - 1] \in Members /\ Agree(p, f[k - 1], mem)
             /\ Fits(p, SelectedIn(p, mem), mem[p])
<1> DEFINE mem == UpdatedAll(list, luck)
<1>1. /\ Len(list) \in Nat /\ DOMAIN list = 1 .. Len(list)
      /\ k \in 0 .. Len(list) /\ k - 1 \in 0 .. Len(list) /\ Len(list) \in k .. Len(list)
      /\ Len(list) \in k - 1 .. Len(list) /\ (k - 1) + 1 = k
      /\ \A n \in k + 1 .. Len(list) : n \in 1 .. Len(list) /\ n # k
      /\ Len(list) \in 0 .. Len(list)
  OBVIOUS
<1>2. p \in Playlist /\ Able(p) /\ Lucky(p, luck)
  <2>1. k \in DOMAIN list /\ p \in Playlist
    BY <1>1
  <2> QED BY <2>1, InvFacts DEF Listable
<1>3. mem = f[Len(list)] /\ mem \in Members /\ f[k - 1] \in Members
  BY <1>1 DEF Pass
<1> HIDE DEF mem
<1>4. \A n \in k + 1 .. Len(list) : list[n] # p
  BY <1>1 DEF IsInjective
<1>5. mem[p] = f[k][p]
  BY <1>1, <1>2, <1>3, <1>4, PassKeeps
<1>6. f[k][p] = Refilled(p, f[k - 1], luck)
  BY <1>2, PassTurn
<1>7. Agree(p, f[k - 1], mem)
  <2> SUFFICES ASSUME NEW q \in Names(p) PROVE mem[q] = f[k - 1][q]
    BY DEF Agree
  <2>1. q \in Playlist
    BY InvFacts DEF Names
  <2>2. \A n \in (k - 1) + 1 .. Len(list) : list[n] # q
    BY <1>1
  <2> QED BY <1>1, <1>3, <2>1, <2>2, PassKeeps
<1>8. DOMAIN f[k - 1] = Playlist
  BY <1>3 DEF Members
<1>9. Selection(p, f[k - 1]) = SelectedIn(p, mem)
  BY <1>2, <1>7, <1>8, InvFacts, SelectionIsSelected, SelectedDepends
<1>10. Fits(p, Selection(p, f[k - 1]), Refilled(p, f[k - 1], luck))
  BY <1>2, InvFacts, RefilledFits
<1>11. mem[p] = Refilled(p, f[k - 1], luck)
  BY <1>5, <1>6
<1>12. Fits(p, SelectedIn(p, mem), mem[p])
  BY <1>9, <1>10, <1>11
<1> QED BY <1>3, <1>7, <1>11, <1>12 DEF mem

(* An update of one playlist is a pass over a list of one.                 *)
LEMMA UpdateFillsStep ==
  ASSUME Inv, NEW p \in Playlist, Update(p), p \notin Names(p)
  PROVE  UpToDate(p)'
<1>1. PICK luck \in Luck : members' = UpdatedAll(<<p>>, luck)
  BY DEF Update
<1>2. Smart(p) /\ Still
  BY DEF Update, Still
<1> DEFINE list == <<p>>
<1>3. /\ list \in Seq(Playlist) /\ IsInjective(list) /\ Len(list) = 1 /\ list[1] = p
      /\ \A i \in DOMAIN list : Smart(list[i])
  BY <1>2, OneSmart
<1> HIDE DEF list
<1>4. members' = UpdatedAll(list, luck)
  BY <1>1 DEF list
<1>5. Listable(list, luck) /\ \E f : Pass(f, list, luck)
  BY <1>3, ListUpdated
<1>6. PICK f : Pass(f, list, luck)
  BY <1>5
<1>7. 1 \in 1 .. Len(list) /\ \A n \in 1 .. Len(list) : n = 1
  BY <1>3
<1>8. \A q \in Names(p) : \A n \in 1 .. Len(list) : list[n] # q
  BY <1>3, <1>7
<1>9. Fits(p, SelectedIn(p, members'), members'[p])
  BY <1>3, <1>4, <1>5, <1>6, <1>7, <1>8, PassFills
<1> QED BY <1>2, <1>9, UpToDateStays

(* An update of one playlist leaves it with what its rules say, unless     *)
(* they name the playlist itself.                                          *)
THEOREM UpdateFillsCorrect == Spec => UpdateFills
<1>1. Inv => (\A p \in Playlist : Update(p) /\ p \notin Names(p) => UpToDate(p)')
  BY UpdateFillsStep
<1> QED BY <1>1, MembersInvariant, PTL DEF UpdateFills

-----------------------------------------------------------------------------
(* The place of a playlist in itdb->playlists.                             *)
LEMMA RankOfPlaylist ==
  ASSUME Inv, NEW p \in ToSet(playlists)
  PROVE  /\ Rank(p) \in 1 .. Len(playlists) /\ playlists[Rank(p)] = p
         /\ \A i \in 1 .. Len(playlists) : playlists[i] = p => i = Rank(p)
<1>1. \E i \in DOMAIN playlists : playlists[i] = p
  BY DEF ToSet
<1>2. DOMAIN playlists = 1 .. Len(playlists)
  BY DEF Inv
<1>3. Rank(p) \in DOMAIN playlists /\ playlists[Rank(p)] = p
  BY <1>1 DEF Rank
<1> QED BY <1>2, <1>3 DEF Inv, IsInjective

(* A pass over all visits those that p's rules name before p, or not at    *)
(* all.                                                                    *)
LEMMA OnePassStep ==
  ASSUME Inv, UpdateAll, NEW p \in ToSet(playlists), Smart(p),
         \A q \in Names(p) : Smart(q) => Rank(q) < Rank(p)
  PROVE  UpToDate(p)'
<1> DEFINE S == {q \in Playlist : Smart(q)}
           list == Only(playlists, S)
<1>1. PICK luck \in Luck : members' = UpdatedAll(list, luck)
  BY DEF UpdateAll
<1>2. Still
  BY DEF UpdateAll, Still
<1>3. S \in SUBSET {q \in Playlist : Smart(q)}
  OBVIOUS
<1>4. /\ list \in Seq(Playlist) /\ IsInjective(list) /\ \A i \in DOMAIN list : Smart(list[i])
      /\ \A q : q \in ToSet(list) <=> q \in ToSet(playlists) /\ q \in S
  BY <1>3, ListOfSmart
<1>5. /\ \A q \in Playlist : Smart(q) => q \in S
      /\ ToSet(playlists) \subseteq Playlist /\ playlists \in Seq(Playlist)
      /\ Len(playlists) \in Nat
  BY InvFacts DEF Inv
<1>6. \A i \in 1 .. Len(list), j \in 1 .. Len(list) : i < j =>
        \E a, b \in 1 .. Len(playlists) : a < b /\ list[i] = playlists[a] /\ list[j] = playlists[b]
  <2> HIDE DEF S
  <2> SUFFICES ASSUME NEW i \in 1 .. Len(list), NEW j \in 1 .. Len(list), i < j
               PROVE  \E a, b \in 1 .. Len(playlists) :
                        a < b /\ list[i] = playlists[a] /\ list[j] = playlists[b]
    OBVIOUS
  <2> QED BY <1>5, OnlyInOrder
<1> HIDE DEF list, S
<1>7. Listable(list, luck) /\ \E f : Pass(f, list, luck)
  BY <1>4, ListUpdated
<1>8. PICK f : Pass(f, list, luck)
  BY <1>7
<1>9. p \in ToSet(list) /\ DOMAIN list = 1 .. Len(list) /\ Len(list) \in Nat
  BY <1>4, <1>5
<1>10. PICK k \in 1 .. Len(list) : list[k] = p
  BY <1>9 DEF ToSet
<1>11. Rank(p) \in 1 .. Len(playlists)
  BY RankOfPlaylist
<1>12. ASSUME NEW q \in Names(p), NEW n \in k .. Len(list), list[n] = q PROVE FALSE
  <2>1. n \in 1 .. Len(list) /\ (n = k \/ k < n) /\ n \in DOMAIN list
    BY <1>9
  <2>2. Smart(q) /\ q \in ToSet(playlists)
    BY <1>4, <1>12, <2>1 DEF Names
  <2>3. Rank(q) < Rank(p) /\ Rank(q) \in 1 .. Len(playlists)
    BY <2>2, RankOfPlaylist
  <2>4. CASE n = k
    <3>1. q = p
      BY <1>10, <1>12, <2>4
    <3> QED BY <1>11, <2>3, <3>1
  <2>5. CASE k < n
    <3>1. PICK a \in 1 .. Len(playlists), b \in 1 .. Len(playlists) :
            a < b /\ list[k] = playlists[a] /\ list[n] = playlists[b]
      BY <1>6, <2>1, <2>5
    <3>2. a = Rank(p)
      BY <1>10, <3>1, RankOfPlaylist
    <3>3. b = Rank(q)
      BY <1>12, <2>2, <3>1, RankOfPlaylist
    <3> QED BY <1>5, <2>3, <3>1, <3>2, <3>3
  <2> QED BY <2>1, <2>4, <2>5
<1>13. p \notin Names(p)
  <2>1. k \in k .. Len(list)
    BY <1>9
  <2> QED BY <1>10, <1>12, <2>1
<1>14. Fits(p, SelectedIn(p, members'), members'[p])
  BY <1>1, <1>4, <1>7, <1>8, <1>10, <1>12, <1>13, PassFills
<1> QED BY <1>2, <1>14, UpToDateStays

(* The other steps begin a new count of passes.                            *)
LEMMA OnePassNext ==
  ASSUME Inv, OnePassFillsInOrder, [Next]_vars
  PROVE  OnePassFillsInOrder'
<1>1. CASE UpdateAll
  <2>1. prefs' = prefs /\ playlists' = playlists
    BY <1>1 DEF UpdateAll
  <2>2. \A p : /\ Smart(p)' <=> Smart(p)
               /\ Names(p)' = Names(p)
               /\ Rank(p)' = Rank(p)
    BY <2>1 DEF Smart, Names, Rank
  <2>3. \A p \in ToSet(playlists) :
          (Smart(p) /\ \A q \in Names(p) : Smart(q) => Rank(q) < Rank(p)) => UpToDate(p)'
    BY <1>1, OnePassStep
  <2> QED BY <2>1, <2>3 DEF OnePassFillsInOrder, Smart, Names, Rank
<1>2. CASE Edit \/ UpdateLive \/ \E p \in Playlist : Update(p)
  <2>1. passes' = 0
    BY <1>2 DEF Edit, UpdateLive, Update
  <2> QED BY <2>1 DEF OnePassFillsInOrder
<1>3. CASE UNCHANGED vars
  <2>1. Still /\ members' = members /\ passes' = passes /\ prefs' = prefs /\ playlists' = playlists
    BY <1>3 DEF vars, Still, tracks
  <2>2. \A p : UpToDate(p)' <=> UpToDate(p)
    BY <2>1, UpToDateStays, UpToDateFits DEF Selected, SelectedIn
  <2> QED BY <2>1, <2>2 DEF OnePassFillsInOrder, Smart, Names, Rank
<1> QED BY <1>1, <1>2, <1>3 DEF Next

(* One pass over all playlists gets those right whose rules name only      *)
(* playlists before them, or plain ones.                                   *)
THEOREM OnePassCorrect == Spec => []OnePassFillsInOrder
<1>1. Init => OnePassFillsInOrder
  BY DEF Init, OnePassFillsInOrder
<1>2. Inv /\ OnePassFillsInOrder /\ [Next]_vars => OnePassFillsInOrder'
  BY OnePassNext
<1> QED BY <1>1, <1>2, MembersInvariant, PTL DEF Spec

-----------------------------------------------------------------------------
(* Repeated passes.                                                        *)

(* An order in which rules name only playlists further to the front.       *)
InOrder(order) ==
  /\ order \in Orders(ToSet(playlists))
  /\ \A i \in DOMAIN order : Names(order[i]) \subseteq {order[j] : j \in 1 .. i - 1}

(* After a number of passes that many playlists of such an order are as    *)
(* another update would leave them.                                        *)
Settled(order, i, mem) == Smart(order[i]) => mem[order[i]] = Refilled(order[i], mem, <<>>)
Settling ==
  AtRandom = {} =>
    \A order : InOrder(order) =>
      \A i \in DOMAIN order : i <= passes => Settled(order, i, members)

(* Such an order lists every playlist of the database once.                *)
LEMMA OrderFacts ==
  ASSUME Inv, NEW order, InOrder(order)
  PROVE  /\ order \in Seq(Playlist) /\ DOMAIN order = 1 .. Len(order) /\ Len(order) \in Nat
         /\ Len(order) <= MaxPasses
         /\ \A i \in DOMAIN order : order[i] \in Playlist /\ order[i] \in ToSet(playlists)
         /\ \A i, j \in DOMAIN order : order[i] = order[j] => i = j
         /\ ToSet(order) = ToSet(playlists)
<1>1. ToSet(playlists) \subseteq Playlist /\ IsFiniteSet(Playlist)
  BY InvFacts, SmartAssumption
<1>2. IsFiniteSet(ToSet(playlists)) /\ Cardinality(ToSet(playlists)) <= MaxPasses
  BY <1>1, FS_Subset DEF MaxPasses
<1>3. /\ order \in Seq(ToSet(playlists)) /\ ListOf(order, ToSet(playlists))
      /\ Len(order) = Cardinality(ToSet(playlists))
  BY <1>2, OrdersList DEF InOrder
<1>4. DOMAIN order = 1 .. Len(order) /\ Len(order) \in Nat
  BY <1>3
<1>5. \A i \in DOMAIN order : order[i] \in ToSet(playlists)
  BY <1>3
<1>6. order \in Seq(Playlist)
  BY <1>1, <1>3
<1>7. IsInjective(order) /\ ToSet(order) = ToSet(playlists)
  BY <1>3 DEF ListOf
<1> QED BY <1>1, <1>2, <1>3, <1>4, <1>5, <1>6, <1>7 DEF IsInjective

(* In such an order no playlist names itself.                              *)
LEMMA OrderNames ==
  ASSUME Inv, NEW order, InOrder(order), NEW i \in DOMAIN order
  PROVE  /\ order[i] \notin Names(order[i])
         /\ \A q \in Names(order[i]) : \E j \in DOMAIN order : j < i /\ q = order[j]
<1>1. DOMAIN order = 1 .. Len(order) /\ Len(order) \in Nat
  BY OrderFacts
<1>2. \A j \in 1 .. i - 1 : j \in DOMAIN order /\ j < i
  BY <1>1
<1>3. \A q \in Names(order[i]) : \E j \in 1 .. i - 1 : q = order[j]
  BY DEF InOrder
<1>4. \A q \in Names(order[i]) : \E j \in DOMAIN order : j < i /\ q = order[j]
  BY <1>2, <1>3
<1>5. order[i] \notin Names(order[i])
  <2> SUFFICES ASSUME order[i] \in Names(order[i]) PROVE FALSE
    OBVIOUS
  <2>1. PICK j \in DOMAIN order : j < i /\ order[i] = order[j]
    BY <1>4
  <2>2. i = j
    BY <2>1, OrderFacts
  <2> QED BY <1>1, <2>1, <2>2
<1> QED BY <1>4, <1>5

(* A playlist that has settled with all before it stays through a pass.    *)
LEMMA SettledStays ==
  ASSUME Inv, AtRandom = {}, Settling, NEW order, InOrder(order),
         NEW list, NEW luck, NEW f, Listable(list, luck), Pass(f, list, luck), IsInjective(list),
         NEW i \in DOMAIN order, i <= passes,
         \A j \in DOMAIN order : j < i =>
           \A n \in 0 .. Len(list) : f[n][order[j]] = members[order[j]]
  PROVE  \A n \in 0 .. Len(list) : f[n][order[i]] = members[order[i]]
<1> DEFINE p == order[i]
<1>1. list \in Seq(Playlist) /\ Len(list) \in Nat /\ DOMAIN list = 1 .. Len(list)
  BY DEF Listable
<1>2. p \in Playlist /\ p \notin Names(p)
      /\ \A q \in Names(p) : \E j \in DOMAIN order : j < i /\ q = order[j]
  BY OrderFacts, OrderNames
<1>3. Smart(p) => members[p] = Refilled(p, members, <<>>)
  BY DEF Settling, Settled
<1> HIDE DEF p
<1>4. CASE \A k \in 1 .. Len(list) : list[k] # p
  <2> SUFFICES ASSUME NEW n \in 0 .. Len(list) PROVE f[n][p] = members[p]
    BY DEF p
  <2>1. n \in 0 .. n /\ 0 \in 0 .. Len(list) /\ n \in 0 .. Len(list)
        /\ \A m \in 0 + 1 .. n : m \in 1 .. Len(list)
    BY <1>1
  <2>2. f[n][p] = f[0][p]
    BY <1>1, <1>2, <1>4, <2>1, PassKeeps
  <2> QED BY <2>2 DEF Pass
<1>5. ASSUME NEW k \in 1 .. Len(list), list[k] = p
      PROVE  \A n \in 0 .. Len(list) : f[n][p] = members[p]
  <2>1. k \in DOMAIN list /\ Smart(p) /\ Able(p)
    BY <1>1, <1>2, <1>5, InvFacts DEF Listable
  <2>2. \A m \in 1 .. Len(list) : m # k => list[m] # p
    BY <1>1, <1>5 DEF IsInjective
  <2>3. k - 1 \in 0 .. Len(list) /\ f[k - 1] \in Members /\ members \in Members
    BY <1>1, InvFacts DEF Pass
  <2>4. f[k][p] = members[p]
    <3>1. f[k][p] = Refilled(p, f[k - 1], luck)
      BY <1>1, <1>2, <1>5, PassTurn
    <3>2. Refilled(p, f[k - 1], luck) = Refilled(p, f[k - 1], <<>>)
      BY <2>1, RefilledLucky
    <3>3. Agree(p, f[k - 1], members)
      BY <1>2, <2>3 DEF Agree
    <3>4. DOMAIN f[k - 1] = Playlist /\ DOMAIN members = Playlist
      BY <2>3 DEF Members
    <3>5. Refilled(p, f[k - 1], <<>>) = Refilled(p, members, <<>>)
      BY <1>2, <2>1, <3>3, <3>4, InvFacts, RefilledDepends
    <3> QED BY <1>3, <2>1, <3>1, <3>2, <3>5
  <2> SUFFICES ASSUME NEW n \in 0 .. Len(list) PROVE f[n][p] = members[p]
    OBVIOUS
  <2>5. CASE n < k
    <3>1. n \in 0 .. n /\ 0 \in 0 .. Len(list)
          /\ \A m \in 0 + 1 .. n : m \in 1 .. Len(list) /\ m # k
      BY <1>1, <2>5
    <3>2. f[n][p] = f[0][p]
      BY <1>1, <1>2, <2>2, <3>1, PassKeeps
    <3> QED BY <3>2 DEF Pass
  <2>6. CASE k <= n
    <3>1. k \in 0 .. Len(list) /\ n \in k .. Len(list)
          /\ \A m \in k + 1 .. n : m \in 1 .. Len(list) /\ m # k
      BY <1>1, <2>6
    <3>2. f[n][p] = f[k][p]
      BY <1>1, <1>2, <2>2, <3>1, PassKeeps
    <3> QED BY <2>4, <3>2
  <2> QED BY <1>1, <2>5, <2>6
<1> QED BY <1>4, <1>5 DEF p

(* So do all that have settled, one after the other along the order.       *)
LEMMA AllSettledStay ==
  ASSUME Inv, AtRandom = {}, Settling, NEW order, InOrder(order),
         NEW list, NEW luck, NEW f, Listable(list, luck), Pass(f, list, luck), IsInjective(list)
  PROVE  \A i \in DOMAIN order : i <= passes =>
           \A n \in 0 .. Len(list) : f[n][order[i]] = members[order[i]]
<1> DEFINE Stays(i) == \A n \in 0 .. Len(list) : f[n][order[i]] = members[order[i]]
           Good == {m \in Nat : \A i \in DOMAIN order : i <= m /\ i <= passes => Stays(i)}
<1>1. DOMAIN order = 1 .. Len(order) /\ Len(order) \in Nat /\ passes \in Nat
  BY OrderFacts, PassesNatural DEF Inv, TypeOK
<1>2. 0 \in Good
  BY <1>1
<1>3. ASSUME NEW m \in Good PROVE m + 1 \in Good
  <2>1. m \in Nat
    OBVIOUS
  <2> SUFFICES ASSUME NEW i \in DOMAIN order, i <= m + 1, i <= passes PROVE Stays(i)
    BY <2>1
  <2>2. \A j \in DOMAIN order : j < i => j <= m /\ j <= passes
    BY <1>1, <2>1
  <2>3. \A j \in DOMAIN order : j < i => Stays(j)
    BY <2>2
  <2> QED BY <2>3, SettledStays
<1>4. Good \in SUBSET Nat
  OBVIOUS
<1>5. \A n \in Nat : n \in Good
  <2> HIDE DEF Good
  <2> QED BY <1>2, <1>3, <1>4, EveryNatural
<1>6. passes \in Good
  BY <1>1, <1>5
<1> HIDE DEF Stays
<1>7. \A i \in DOMAIN order : i <= passes => Stays(i)
  BY <1>6
<1> QED BY <1>7 DEF Stays

(* So one more playlist settles in every pass.                             *)
LEMMA OneMoreSettles ==
  ASSUME Inv, AtRandom = {}, Settling, NEW order, InOrder(order), UpdateAll,
         NEW i \in DOMAIN order, i <= passes + 1
  PROVE  Settled(order, i, members')
<1> SUFFICES ASSUME Smart(order[i])
             PROVE  members'[order[i]] = Refilled(order[i], members', <<>>)
  BY DEF Settled
<1> DEFINE S == {q \in Playlist : Smart(q)}
           list == Only(playlists, S)
           p == order[i]
<1>1. PICK luck \in Luck : members' = UpdatedAll(list, luck)
  BY DEF UpdateAll
<1>2. S \in SUBSET {q \in Playlist : Smart(q)}
  OBVIOUS
<1>3. /\ list \in Seq(Playlist) /\ IsInjective(list) /\ \A k \in DOMAIN list : Smart(list[k])
      /\ \A q : q \in ToSet(list) <=> q \in ToSet(playlists) /\ q \in S
  BY <1>2, ListOfSmart
<1>4. p \in Playlist /\ p \in ToSet(playlists) /\ p \in S
  BY OrderFacts
<1> HIDE DEF list, S
<1>5. Listable(list, luck) /\ \E f : Pass(f, list, luck)
  BY <1>3, ListUpdated
<1>6. PICK f : Pass(f, list, luck)
  BY <1>5
<1>7. PICK k \in 1 .. Len(list) : list[k] = p
  <2>1. p \in ToSet(list) /\ DOMAIN list = 1 .. Len(list)
    BY <1>3, <1>4
  <2> QED BY <2>1 DEF ToSet
<1>8. /\ Len(list) \in Nat /\ k - 1 \in 0 .. Len(list) /\ Len(list) \in 0 .. Len(list)
      /\ k \in 0 .. Len(list) /\ Len(list) \in k .. Len(list)
      /\ \A m \in k + 1 .. Len(list) : m \in 1 .. Len(list) /\ m # k
      /\ DOMAIN list = 1 .. Len(list)
  BY <1>3
<1>9. /\ p \notin Names(p)
      /\ \A q \in Names(p) : \E j \in DOMAIN order : j < i /\ q = order[j]
  BY OrderNames
<1>10. DOMAIN order = 1 .. Len(order) /\ passes \in Nat
  BY OrderFacts, PassesNatural DEF Inv, TypeOK
<1>11. \A j \in DOMAIN order : j < i =>
         \A n \in 0 .. Len(list) : f[n][order[j]] = members[order[j]]
  <2>1. \A j \in DOMAIN order : j < i => j <= passes
    BY <1>10
  <2> QED BY <1>3, <1>5, <1>6, <2>1, AllSettledStay
<1>12. members' = f[Len(list)] /\ members' \in Members /\ f[k - 1] \in Members
  BY <1>1, <1>6, <1>8 DEF Pass
<1> HIDE DEF p
<1>13. Agree(p, f[k - 1], members')
  BY <1>8, <1>9, <1>11, <1>12 DEF Agree
<1>14. members'[p] = Refilled(p, f[k - 1], luck)
  <2>1. f[k][p] = Refilled(p, f[k - 1], luck)
    BY <1>3, <1>4, <1>6, <1>7, PassTurn
  <2>2. \A m \in k + 1 .. Len(list) : list[m] # p
    BY <1>3, <1>7, <1>8 DEF IsInjective
  <2>3. f[Len(list)][p] = f[k][p]
    BY <1>3, <1>4, <1>6, <1>8, <2>2, PassKeeps
  <2> QED BY <1>12, <2>1, <2>3
<1>15. Able(p)
  BY <1>4, InvFacts DEF p
<1>16. Refilled(p, f[k - 1], luck) = Refilled(p, f[k - 1], <<>>)
  BY <1>15, RefilledLucky
<1>17. Refilled(p, f[k - 1], <<>>) = Refilled(p, members', <<>>)
  <2>1. DOMAIN f[k - 1] = Playlist /\ DOMAIN members' = Playlist
    BY <1>12 DEF Members
  <2> QED BY <1>9, <1>13, <1>15, <2>1, InvFacts, RefilledDepends
<1> QED BY <1>14, <1>16, <1>17 DEF p

(* Settling is kept by every step: the others begin a new count.           *)
LEMMA SettlingNext ==
  ASSUME Inv, Settling, [Next]_vars PROVE Settling'
<1>1. CASE UpdateAll
  <2>1. Still /\ prefs' = prefs /\ playlists' = playlists
    BY <1>1 DEF UpdateAll, Still
  <2>2. AtRandom' = AtRandom
    BY <2>1 DEF AtRandom, Smart
  <2>3. \A order : InOrder(order)' <=> InOrder(order)
    BY <2>1 DEF InOrder, Names, Smart, Orders
  <2>4. \A i \in Nat : i <= passes' => i <= passes + 1
    BY <1>1, PassesNatural DEF UpdateAll, Inv, TypeOK
  <2> SUFFICES ASSUME AtRandom = {}, NEW order, InOrder(order), NEW i \in DOMAIN order,
                      i <= passes'
               PROVE  Settled(order, i, members)'
    BY <2>2, <2>3 DEF Settling
  <2>5. i \in Nat
    BY OrderFacts
  <2>6. Settled(order, i, members')
    BY <1>1, <2>4, <2>5, OneMoreSettles
  <2>7. Refilled(order[i], members, <<>>)' = Refilled(order[i], members', <<>>)
    BY <2>1, RefilledStays
  <2> QED BY <2>1, <2>6, <2>7 DEF Settled, Smart
<1>2. CASE Edit \/ UpdateLive \/ \E p \in Playlist : Update(p)
  <2>1. passes' = 0
    BY <1>2 DEF Edit, UpdateLive, Update
  <2>2. \A order : InOrder(order)' => \A i \in DOMAIN order : ~(i <= passes')
    <3> SUFFICES ASSUME NEW order, InOrder(order)', NEW i \in DOMAIN order PROVE ~(i <= 0)
      BY <2>1
    <3>1. DOMAIN order = 1 .. Cardinality(ToSet(playlists'))
      BY DEF InOrder, Orders
    <3> QED BY <3>1
  <2> QED BY <2>2 DEF Settling
<1>3. CASE UNCHANGED vars
  <2>1. /\ Still /\ members' = members /\ passes' = passes /\ prefs' = prefs
        /\ playlists' = playlists
    BY <1>3 DEF vars, Still, tracks
  <2>2. AtRandom' = AtRandom
    BY <2>1 DEF AtRandom, Smart
  <2>3. \A order : InOrder(order)' <=> InOrder(order)
    BY <2>1 DEF InOrder, Names, Smart, Orders
  <2>4. \A p : Refilled(p, members, <<>>)' = Refilled(p, members, <<>>)
    BY <2>1, RefilledStays
  <2> QED BY <2>1, <2>2, <2>3, <2>4 DEF Settling, Settled, Smart
<1> QED BY <1>1, <1>2, <1>3 DEF Next

(* After as many passes as there are playlists all have settled.           *)
LEMMA SettlingSettles ==
  ASSUME Inv, Settling PROVE PassesSettle
<1> SUFFICES ASSUME passes = MaxPasses, AtRandom = {}, Acyclic,
                    NEW p \in ToSet(playlists), Smart(p)
             PROVE  UpToDate(p)
  BY DEF PassesSettle
<1>1. PICK order : InOrder(order)
  BY DEF Acyclic, InOrder
<1>2. PICK i \in DOMAIN order : order[i] = p
  <2>1. p \in ToSet(order)
    BY <1>1, OrderFacts
  <2> QED BY <2>1 DEF ToSet
<1>3. i <= passes
  <2>1. DOMAIN order = 1 .. Len(order) /\ Len(order) \in Nat /\ Len(order) <= MaxPasses
    BY <1>1, OrderFacts
  <2> QED BY <2>1, PassesNatural
<1>4. members[p] = Refilled(p, members, <<>>)
  BY <1>1, <1>2, <1>3 DEF Settling, Settled
<1>5. p \notin Names(p)
  BY <1>1, <1>2, OrderNames
<1>6. Able(p) /\ Lucky(p, <<>>)
  BY InvFacts DEF Lucky
<1>7. Fits(p, Selection(p, members), Refilled(p, members, <<>>))
  BY <1>6, InvFacts, RefilledFits
<1>8. Selection(p, members) = Selected(p)
  <2>1. DOMAIN members = Playlist
    BY InvFacts DEF Members
  <2> QED BY <1>5, <1>6, <2>1, InvFacts, SelectionIsSelected DEF Selected, SelectedIn
<1> QED BY <1>4, <1>7, <1>8, UpToDateFits

(* When the rules do not go in a circle and nothing is random, as many     *)
(* passes as there are playlists get every one right.                      *)
THEOREM PassesSettleCorrect == Spec => []PassesSettle
<1>1. Init => Settling
  <2> SUFFICES ASSUME Init, NEW order, InOrder(order), NEW i \in DOMAIN order, i <= passes
               PROVE  FALSE
    BY DEF Settling
  <2>1. i \in 1 .. Len(order) /\ Len(order) \in Nat /\ passes = 0
    BY InitInv, OrderFacts DEF Init
  <2> QED BY <2>1
<1>2. Inv /\ Settling /\ [Next]_vars => Settling'
  BY SettlingNext
<1>3. Inv /\ Settling => PassesSettle
  BY SettlingSettles
<1> QED BY <1>1, <1>2, <1>3, MembersInvariant, PTL DEF Spec

-----------------------------------------------------------------------------
(* A rule and its opposite, type by type.                                  *)
LEMMA RuleSplits ==
  ASSUME Inv, NEW rule \in Rules, NEW t \in Track, Opposable(rule), Handled(rule.field),
         rule.field = "title" => Title[t] # NoText,
         rule.field = "playlist" => rule.from \in ToSet(playlists)
  PROVE  Eval(rule, t, members)
           <=> ~Eval([rule EXCEPT !.action = Opposite[rule.action]], t, members)
<1> DEFINE opposite == [rule EXCEPT !.action = Opposite[rule.action]]
           type == FieldType(rule.field)
<1>1. Operands \subseteq DOMAIN rule /\ rule.field \in Field
  BY SmartAssumption
<1>2. /\ opposite.field = rule.field /\ opposite.string = rule.string
      /\ opposite.from = rule.from /\ opposite.to = rule.to
      /\ opposite.fromdate = rule.fromdate /\ opposite.mask = rule.mask
      /\ opposite.action = Opposite[rule.action]
  BY <1>1 DEF Operands
<1>3. /\ Opposite["is_string"] = "is_not" /\ Opposite["contains"] = "does_not_contain"
      /\ Opposite["starts_with"] = "does_not_start_with"
      /\ Opposite["ends_with"] = "does_not_end_with"
      /\ Opposite["is_int"] = "is_not_int"
      /\ Opposite["is_in_the_range"] = "is_not_in_the_range"
      /\ Opposite["is_in_the_last"] = "is_not_in_the_last"
      /\ Opposite["binary_and"] = "not_binary_and"
  BY DEF Opposite
<1> HIDE DEF opposite
<1>4. CASE type = "string"
  <2>1. rule.field = "title"
    BY <1>1, <1>4 DEF FieldType, Field, Handled
  <2>2. /\ rule.string # NoText
        /\ rule.action \in {"is_string", "contains", "starts_with", "ends_with"}
    BY <1>4 DEF Opposable
  <2>3. TextMatches(rule, Title[t]) <=> ~TextMatches(opposite, Title[t])
    BY <1>2, <1>3, <2>1, <2>2 DEF TextMatches
  <2> QED BY <1>2, <1>4, <2>3 DEF Eval, opposite
<1>5. ASSUME NEW n \in Int, rule.action = "is_int" \/ (rule.action = "is_in_the_range"
               /\ rule.from \in Int /\ rule.to \in Int)
      PROVE  IntMatches(rule, n) <=> ~IntMatches(opposite, n)
  <2>1. CASE rule.action = "is_int"
    BY <1>2, <1>3, <2>1 DEF IntMatches
  <2>2. CASE rule.action = "is_in_the_range" /\ rule.from \in Int /\ rule.to \in Int
    BY <1>2, <1>3, <2>2 DEF IntMatches, InRange, OutsideRange
  <2> QED BY <1>5, <2>1, <2>2
<1>6. playcount[t] \in Int /\ time_played[t] \in Int /\ Size[t] \in Int /\ now \in Int
  BY SmartAssumption, InvFacts DEF Plays, Inv, TypeOK
<1>7. CASE type = "int"
  <2>1. rule.action = "is_int" \/ (rule.action = "is_in_the_range"
               /\ rule.from \in Int /\ rule.to \in Int)
    BY <1>7 DEF Opposable
  <2> DEFINE n == IF rule.field = "size" THEN Size[t] ELSE playcount[t]
  <2>2. n \in Int
    BY <1>6
  <2>3. IntMatches(rule, n) <=> ~IntMatches(opposite, n)
    BY <1>5, <2>1, <2>2
  <2> QED BY <1>2, <1>7, <2>3 DEF Eval, opposite
<1>8. CASE type = "date"
  <2>1. CASE rule.action = "is_int" \/ (rule.action = "is_in_the_range"
               /\ rule.from \in Int /\ rule.to \in Int)
    <3>1. IntMatches(rule, time_played[t]) <=> ~IntMatches(opposite, time_played[t])
      BY <1>5, <1>6, <2>1
    <3>2. DateMatches(rule, time_played[t], now) <=> ~DateMatches(opposite, time_played[t], now)
      BY <1>2, <1>3, <2>1, <3>1 DEF DateMatches
    <3> QED BY <1>2, <1>8, <3>2 DEF Eval, opposite
  <2>2. CASE rule.action = "is_in_the_last" /\ rule.fromdate \in Int
    <3>1. DateMatches(rule, time_played[t], now) <=> ~DateMatches(opposite, time_played[t], now)
      BY <1>2, <1>3, <1>6, <2>2 DEF DateMatches, IntMatches
    <3> QED BY <1>2, <1>8, <3>1 DEF Eval, opposite
  <2> QED BY <1>8, <2>1, <2>2 DEF Opposable
<1>9. CASE type = "boolean"
  <2>1. rule.action = "is_int"
    BY <1>9 DEF Opposable
  <2>2. FlagMatches(rule, Compilation[t]) <=> ~FlagMatches(opposite, Compilation[t])
    BY <1>2, <1>3, <2>1 DEF FlagMatches
  <2> QED BY <1>2, <1>9, <2>2 DEF Eval, opposite
<1>10. CASE type = "binary_and"
  <2>1. rule.action = "binary_and"
    BY <1>10 DEF Opposable
  <2>2. MaskMatches(rule, MediaType[t]) <=> ~MaskMatches(opposite, MediaType[t])
    BY <1>2, <1>3, <2>1 DEF MaskMatches
  <2> QED BY <1>2, <1>10, <2>2 DEF Eval, opposite
<1>11. CASE type = "playlist"
  <2>1. rule.action = "is_int" /\ rule.field = "playlist"
    BY <1>1, <1>11 DEF Opposable, FieldType, Field
  <2>2. PlaylistMatches(rule, t, members) <=> ~PlaylistMatches(opposite, t, members)
    BY <1>2, <1>3, <2>1 DEF PlaylistMatches
  <2> QED BY <1>2, <1>11, <2>2 DEF Eval, opposite
<1>12. type \in {"string", "int", "date", "boolean", "binary_and", "playlist"}
  BY DEF Opposable
<1> QED BY <1>4, <1>7, <1>8, <1>9, <1>10, <1>11, <1>12 DEF opposite

(* A rule and its opposite split the tracks.                               *)
THEOREM OppositesSplitCorrect == Spec => []OppositesSplit
<1>1. Inv => OppositesSplit
  BY RuleSplits DEF OppositesSplit
<1> QED BY <1>1, MembersInvariant, PTL
=============================================================================
