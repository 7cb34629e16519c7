---------------------------- MODULE PhotoDbProofs ----------------------------
(***************************************************************************)
(* Albums only have photos of the database and the first one has all of    *)
(* them, and what was written reads back, for any photos, albums and       *)
(* lengths.                                                                *)
(*                                                                         *)
(* First the chunks: what WriteMhfd makes, ReadMhfd reads, because every   *)
(* child of a chunk is found where the lengths of those before it put it.  *)
(* Then the database: Sound holds of the lists in memory and of those that *)
(* were saved, and the file is the one that is written for the latter.     *)
(***************************************************************************)
EXTENDS PhotoDb, GListProofs, FiniteSetTheorems

(* The cells of a file, what is in them, and what is written.              *)
Words == {"mhfd", "mhsd", "mhli", "mhla", "mhlf", "mhii", "mhba", "mhia", "mhif", "mhod",
          "mhni", "text", "thumbnail", "file name", "album name"}
Data(D) == D \cup [format : D, offset : D] \cup Words \cup Nat
Cells(D) == [tag : Words, len : Nat, num : Nat, data : Data(D)]
Thumbs(D) == [format : D, offset : D, filename : D]
Images(D) == [id : D, thumbs : Seq(Thumbs(D))]
AlbumsOf(D) == [name : D, ids : Seq(D)]

(* The cells are in the file from a place on.                              *)
Holds(file, at, cells) == \A i \in 1 .. Len(cells) : file[at + i - 1] = cells[i]

(* What a header says; it has the length to the next chunk.                *)
HeadIs(cell, tag, len, num, data) ==
  cell.tag = tag /\ cell.len = len /\ cell.num = num /\ cell.data = data
IsChunk(tag, chunk) == chunk # <<>> /\ chunk[1].tag = tag /\ chunk[1].len = Len(chunk)

AreChunks(tag, list) == \A n \in 1 .. Len(list) : IsChunk(tag, list[n])

(* How many cells the first n chunks of a list have together.              *)
Ends(list) ==
  CHOOSE ends \in [0 .. Len(list) -> Nat] :
    /\ ends[0] = 0
    /\ \A n \in 1 .. Len(list) : ends[n] = ends[n - 1] + Len(list[n])

(* Where the chunks of a list are that is in the file from a place on.     *)
Contexts(at, list) ==
  [n \in 1 .. Len(list) |-> Context(at + Ends(list)[n - 1], Len(list[n]))]

(* The chunks that are written for the parts of a chunk.                   *)
ThumbChunks(image) == [i \in 1 .. Len(image.thumbs) |-> WriteThumb(image.thumbs[i])]
MemberChunks(album) == [i \in 1 .. Len(album.ids) |-> WriteMhia(album.ids[i])]
ImageChunks(images) == [i \in 1 .. Len(images) |-> WriteMhii(images[i])]
AlbumChunks(shown) == [i \in 1 .. Len(shown) |-> WriteMhba(shown[i])]
FormatChunks == [i \in 1 .. Len(Formats) |-> WriteMhif(Formats[i])]

(* The iPod has the formats of the image's thumbnails.                     *)
HasFormats(image) == \A i \in 1 .. Len(image.thumbs) : Listed(image.thumbs[i].format, Formats)

(* What was read: the chunks at these contexts, up to a place.             *)
Read(read, next, found) == read.next = next /\ read.found = found

-----------------------------------------------------------------------------
(* FlattenSeq, as its recursion computes it.                               *)
LEMMA FlattenSteps ==
  ASSUME NEW C, NEW list \in Seq(Seq(C)), list # <<>>
  PROVE  \E f : /\ f = [i \in 1 .. Len(list) |->
                          IF i = 1 THEN list[i] ELSE f[i - 1] \o list[i]]
                /\ FlattenSeq(list) = f[Len(list)]
<1> DEFINE Step(f, n) == IF n = 1 THEN list[n] ELSE f[n - 1] \o list[n]
           Upto(m) == \E f : f = [n \in 1 .. m |-> Step(f, n)]
           Good == {m \in Nat : Upto(m)}
<1>1. 0 \in Good
  <2> DEFINE f == [n \in 1 .. 0 |-> <<>>]
  <2>1. f = [n \in 1 .. 0 |-> Step(f, n)]
    OBVIOUS
  <2> HIDE DEF f, Step
  <2> QED BY <2>1
<1>2. ASSUME NEW m \in Good PROVE m + 1 \in Good
  <2>1. m \in Nat /\ m + 1 \in Nat
    OBVIOUS
  <2>2. PICK f : f = [n \in 1 .. m |-> Step(f, n)]
    <3> HIDE DEF Step
    <3> QED OBVIOUS
  <2> DEFINE g == [n \in 1 .. m + 1 |-> Step(f, n)]
  <2>3. \A n \in 1 .. m : g[n] = f[n]
    <3> HIDE DEF Step
    <3>1. \A n \in 1 .. m : f[n] = Step(f, n)
      BY <2>2
    <3> QED BY <2>1, <3>1
  <2> HIDE DEF g
  <2>4. \A n \in 1 .. m + 1 : Step(f, n) = Step(g, n)
    <3> SUFFICES ASSUME NEW n \in 1 .. m + 1 PROVE Step(f, n) = Step(g, n)
      OBVIOUS
    <3>1. n = 1 \/ n - 1 \in 1 .. m
      BY <2>1
    <3> QED BY <2>3, <3>1
  <2>5. g = [n \in 1 .. m + 1 |-> Step(g, n)]
    <3> HIDE DEF Step
    <3> QED BY <2>4 DEF g
  <2> HIDE DEF Step
  <2> QED BY <2>1, <2>5
<1>3. Upto(Len(list))
  <2> HIDE DEF Upto
  <2>1. Good \in SUBSET Nat /\ Len(list) \in Nat
    OBVIOUS
  <2> HIDE DEF Good
  <2>2. Len(list) \in Good
    BY <1>1, <1>2, <2>1, EveryNatural
  <2> QED BY <2>2 DEF Good
<1>4. PICK f : f = [n \in 1 .. Len(list) |-> Step(f, n)]
  <2> HIDE DEF Step
  <2> QED BY <1>3
<1> DEFINE flat == CHOOSE g : g = [n \in 1 .. Len(list) |-> Step(g, n)]
<1>5. flat = [n \in 1 .. Len(list) |-> Step(flat, n)]
  <2> HIDE DEF Step
  <2> QED BY <1>4
<1>6. FlattenSeq(list) = flat[Len(list)]
  <2>1. Len(list) # 0
    BY EmptySeq
  <2> QED BY <2>1 DEF FlattenSeq
<1> HIDE DEF flat
<1> QED BY <1>5, <1>6

(* Ends exists: a sum along the list.                                      *)
LEMMA EndsSum ==
  ASSUME NEW C, NEW list \in Seq(Seq(C))
  PROVE  /\ Ends(list) \in [0 .. Len(list) -> Nat]
         /\ Ends(list)[0] = 0
         /\ \A n \in 1 .. Len(list) : Ends(list)[n] = Ends(list)[n - 1] + Len(list[n])
<1> DEFINE Sums(e, m) == /\ e \in [0 .. m -> Nat] /\ e[0] = 0
                         /\ \A n \in 1 .. m : e[n] = e[n - 1] + Len(list[n])
           Good == {m \in Nat : m <= Len(list) => \E e : Sums(e, m)}
<1>1. 0 \in Good
  <2> DEFINE e == [n \in 0 .. 0 |-> 0]
  <2>1. Sums(e, 0)
    OBVIOUS
  <2> QED BY <2>1
<1>2. ASSUME NEW m \in Good PROVE m + 1 \in Good
  <2>1. m \in Nat /\ m + 1 \in Nat /\ Len(list) \in Nat
    OBVIOUS
  <2> SUFFICES ASSUME m + 1 <= Len(list) PROVE \E e : Sums(e, m + 1)
    BY <2>1
  <2>2. PICK e : Sums(e, m)
    <3> HIDE DEF Sums
    <3>1. m <= Len(list)
      BY <2>1
    <3> QED BY <3>1
  <2>3. m + 1 \in 1 .. Len(list) /\ Len(list[m + 1]) \in Nat /\ m \in 0 .. m
    BY <2>1
  <2> DEFINE g == [n \in 0 .. m + 1 |-> IF n = m + 1 THEN e[m] + Len(list[m + 1]) ELSE e[n]]
  <2>4. g \in [0 .. m + 1 -> Nat]
    BY <2>1, <2>2, <2>3
  <2>5. /\ \A n \in 0 .. m : g[n] = e[n] /\ n # m + 1
        /\ g[m + 1] = e[m] + Len(list[m + 1])
    BY <2>1
  <2> HIDE DEF g
  <2>6. \A n \in 1 .. m + 1 : g[n] = g[n - 1] + Len(list[n])
    <3> SUFFICES ASSUME NEW n \in 1 .. m + 1 PROVE g[n] = g[n - 1] + Len(list[n])
      OBVIOUS
    <3>1. CASE n = m + 1
      BY <2>1, <2>5, <3>1
    <3>2. CASE n # m + 1
      <4>1. n \in 1 .. m /\ n \in 0 .. m /\ n - 1 \in 0 .. m
        BY <2>1, <3>2
      <4> QED BY <2>2, <2>5, <4>1
    <3> QED BY <3>1, <3>2
  <2>7. g[0] = 0
    BY <2>1, <2>2, <2>5
  <2> QED BY <2>4, <2>6, <2>7
<1>3. \E e : Sums(e, Len(list))
  <2> HIDE DEF Sums
  <2>1. Good \in SUBSET Nat /\ Len(list) \in Nat
    OBVIOUS
  <2> HIDE DEF Good
  <2>2. Len(list) \in Good
    BY <1>1, <1>2, <2>1, EveryNatural
  <2> QED BY <2>1, <2>2 DEF Good
<1> QED BY <1>3 DEF Ends

(* A chunk of the list is in the flat sequence behind those before it.     *)
LEMMA FlattenPlaces ==
  ASSUME NEW C, NEW list \in Seq(Seq(C))
  PROVE  /\ FlattenSeq(list) \in Seq(C)
         /\ Len(FlattenSeq(list)) = Ends(list)[Len(list)]
         /\ \A n \in 1 .. Len(list) :
              /\ Ends(list)[n] <= Len(FlattenSeq(list))
              /\ \A j \in 1 .. Len(list[n]) :
                   FlattenSeq(list)[Ends(list)[n - 1] + j] = list[n][j]
<1>1. CASE list = <<>>
  <2>1. FlattenSeq(list) = <<>> /\ Len(list) = 0
    BY <1>1 DEF FlattenSeq
  <2>2. Ends(list)[0] = 0
    BY EndsSum
  <2>3. \A n \in 1 .. Len(list) : FALSE
    BY <2>1
  <2>4. <<>> \in Seq(C) /\ Len(<<>>) = 0
    OBVIOUS
  <2> QED BY <2>1, <2>2, <2>3, <2>4
<1>2. CASE list # <<>>
  <2> DEFINE e == Ends(list)
             Step(f, n) == IF n = 1 THEN list[n] ELSE f[n - 1] \o list[n]
  <2>1. PICK f : f = [n \in 1 .. Len(list) |-> Step(f, n)] /\ FlattenSeq(list) = f[Len(list)]
    BY <1>2, FlattenSteps
  <2>2. /\ e \in [0 .. Len(list) -> Nat] /\ e[0] = 0
        /\ \A n \in 1 .. Len(list) : e[n] = e[n - 1] + Len(list[n])
    BY EndsSum
  <2>3. Len(list) \in Nat /\ Len(list) # 0
    BY <1>2, EmptySeq
  <2> HIDE DEF e
  <2>4. \A n \in 1 .. Len(list) : f[n] = Step(f, n)
    <3> HIDE DEF Step
    <3> QED BY <2>1
  <2> DEFINE Prefix(m) ==
        /\ f[m] \in Seq(C) /\ Len(f[m]) = e[m]
        /\ \A n \in 1 .. m : /\ e[n] <= e[m]
                             /\ \A j \in 1 .. Len(list[n]) : f[m][e[n - 1] + j] = list[n][j]
      Good == {m \in Nat : m \in 1 .. Len(list) => Prefix(m)}
  <2>5. ASSUME NEW m \in Nat, m \in 1 .. Len(list) => Prefix(m), m + 1 \in 1 .. Len(list)
        PROVE  Prefix(m + 1)
    <3>1. /\ m \in Nat /\ m + 1 \in 1 .. Len(list) /\ (m + 1) - 1 = m
          /\ m \in 0 .. Len(list) /\ m + 1 \in 0 .. Len(list)
      BY <2>3, <2>5
    <3> HIDE DEF Good
    <3>2. /\ list[m + 1] \in Seq(C) /\ Len(list[m + 1]) \in Nat
          /\ e[m + 1] = e[m] + Len(list[m + 1]) /\ e[m] \in Nat /\ e[m + 1] \in Nat
      <4>1. e[m + 1] = e[(m + 1) - 1] + Len(list[m + 1])
        BY <2>2, <3>1
      <4>2. list[m + 1] \in Seq(C)
        BY <3>1
      <4>3. Len(list[m + 1]) \in Nat
        BY <4>2, LenProperties
      <4>4. e[m] \in Nat /\ e[m + 1] \in Nat
        BY <2>2, <3>1
      <4> QED BY <3>1, <4>1, <4>2, <4>3, <4>4
    <3>3. CASE m = 0
      <4>1. f[m + 1] = list[m + 1]
        <5>1. f[m + 1] = Step(f, m + 1) /\ m + 1 = 1
          BY <2>4, <3>1, <3>3
        <5> QED BY <5>1
      <4>2. \A n \in 1 .. m + 1 : n = m + 1 /\ n - 1 = m
        BY <3>3
      <4>3. e[m] = 0 /\ e[m + 1] = Len(list[m + 1])
        BY <2>2, <3>2, <3>3
      <4>4. \A j \in 1 .. Len(list[m + 1]) : f[m + 1][e[m] + j] = list[m + 1][j]
        BY <3>2, <4>1, <4>3
      <4>5. ASSUME NEW n \in 1 .. m + 1
            PROVE  /\ e[n] <= e[m + 1]
                   /\ \A j \in 1 .. Len(list[n]) : f[m + 1][e[n - 1] + j] = list[n][j]
        <5>1. n = m + 1 /\ n - 1 = m /\ e[m + 1] <= e[m + 1]
          BY <3>2, <4>2
        <5> QED BY <4>4, <5>1
      <4> QED BY <3>2, <4>1, <4>3, <4>5
    <3>4. CASE m # 0
      <4>1. m \in 1 .. Len(list) /\ (m + 1) - 1 = m /\ m + 1 # 1
        BY <2>3, <3>1, <3>4
      <4>2. Prefix(m)
        BY <2>5, <4>1
      <4>3. f[m + 1] = f[m] \o list[m + 1]
        <5>1. f[m + 1] = Step(f, m + 1)
          BY <2>4, <3>1
        <5> QED BY <4>1, <5>1
      <4>4. /\ f[m + 1] \in Seq(C) /\ Len(f[m + 1]) = e[m + 1]
            /\ \A i \in 1 .. e[m + 1] :
                 f[m + 1][i] = IF i <= e[m] THEN f[m][i] ELSE list[m + 1][i - e[m]]
        <5>1. f[m] \in Seq(C) /\ Len(f[m]) = e[m]
          BY <4>2
        <5>2. /\ f[m] \o list[m + 1] \in Seq(C)
              /\ Len(f[m] \o list[m + 1]) = Len(f[m]) + Len(list[m + 1])
              /\ \A i \in 1 .. Len(f[m]) + Len(list[m + 1]) :
                   (f[m] \o list[m + 1])[i]
                     = IF i <= Len(f[m]) THEN f[m][i] ELSE list[m + 1][i - Len(f[m])]
          BY <3>2, <5>1, ConcatProperties
        <5> HIDE DEF Prefix
        <5> QED BY <3>2, <4>3, <5>1, <5>2
      <4>5. ASSUME NEW n \in 1 .. m + 1
            PROVE  /\ e[n] <= e[m + 1]
                   /\ \A j \in 1 .. Len(list[n]) : f[m + 1][e[n - 1] + j] = list[n][j]
        <5>1. CASE n = m + 1
          <6>1. e[n - 1] = e[m] /\ e[m + 1] <= e[m + 1]
            BY <3>2, <4>1, <5>1
          <6>2. ASSUME NEW j \in 1 .. Len(list[m + 1])
                PROVE  f[m + 1][e[m] + j] = list[m + 1][j]
            <7>1. e[m] + j \in 1 .. e[m + 1] /\ ~(e[m] + j <= e[m]) /\ (e[m] + j) - e[m] = j
              <8>1. /\ e[m] \in Nat /\ Len(list[m + 1]) \in Nat
                    /\ e[m + 1] = e[m] + Len(list[m + 1]) /\ j \in 1 .. Len(list[m + 1])
                BY <3>2
              <8> QED BY ONLY <8>1
            <7> QED BY <4>4, <7>1
          <6> QED BY <5>1, <6>1, <6>2
        <5>2. CASE n # m + 1
          <6>1. n \in 1 .. m /\ n \in 1 .. Len(list) /\ n - 1 \in 0 .. Len(list)
            BY <2>3, <3>1, <4>1, <5>2
          <6>2. /\ e[n] \in Nat /\ e[n - 1] \in Nat /\ e[n] = e[n - 1] + Len(list[n])
                /\ Len(list[n]) \in Nat
            <7>1. list[n] \in Seq(C)
              BY <6>1
            <7>2. n \in 0 .. Len(list)
              BY <6>1
            <7>3. Len(list[n]) \in Nat
              BY <7>1, LenProperties
            <7>4. e[n] \in Nat /\ e[n - 1] \in Nat
              BY <2>2, <6>1, <7>2
            <7> QED BY <2>2, <6>1, <7>3, <7>4
          <6>3. e[n] <= e[m] /\ \A j \in 1 .. Len(list[n]) : f[m][e[n - 1] + j] = list[n][j]
            BY <4>2, <6>1
          <6>4. ASSUME NEW j \in 1 .. Len(list[n])
                PROVE  f[m + 1][e[n - 1] + j] = list[n][j]
            <7>1. j \in Nat /\ 1 <= j /\ j <= Len(list[n])
              BY <6>2
            <7>2. e[n - 1] + j \in 1 .. e[m + 1] /\ e[n - 1] + j <= e[m]
              <8>1. e[n] <= e[m] /\ e[m] <= e[m + 1]
                BY <3>2, <6>3
              <8>2. e[n - 1] + j <= e[n] /\ 1 <= e[n - 1] + j /\ e[n - 1] + j \in Nat
                BY <6>2, <7>1
              <8>3. e[n] \in Nat /\ e[m] \in Nat /\ e[m + 1] \in Nat
                BY <3>2, <6>2
              <8>4. \A a, b, c, d \in Nat :
                      1 <= a /\ a <= b /\ b <= c /\ c <= d => a \in 1 .. d /\ a <= c
                OBVIOUS
              <8> QED BY <8>1, <8>2, <8>3, <8>4
            <7>3. f[m + 1][e[n - 1] + j] = f[m][e[n - 1] + j]
              BY <4>4, <7>2
            <7> QED BY <6>3, <7>3
          <6>5. e[n] <= e[m + 1]
            <7>1. e[n] <= e[m] /\ e[m] <= e[m + 1]
              BY <3>2, <6>3
            <7>2. e[n] \in Nat /\ e[m] \in Nat /\ e[m + 1] \in Nat
              BY <3>2, <6>2
            <7> QED BY ONLY <7>1, <7>2
          <6> QED BY <6>4, <6>5
        <5> QED BY <5>1, <5>2
      <4> QED BY <4>4, <4>5
    <3> QED BY <3>3, <3>4
  <2>6. Prefix(Len(list))
    <3> HIDE DEF Prefix
    <3>1. 0 \in Good /\ Good \in SUBSET Nat
      OBVIOUS
    <3>2. ASSUME NEW m \in Good PROVE m + 1 \in Good
      <4>1. m \in Nat /\ (m \in 1 .. Len(list) => Prefix(m)) /\ m + 1 \in Nat
        OBVIOUS
      <4>2. m + 1 \in 1 .. Len(list) => Prefix(m + 1)
        BY <2>5, <4>1
      <4> QED BY <4>1, <4>2
    <3> HIDE DEF Good
    <3>3. Len(list) \in Good
      BY <2>3, <3>1, <3>2, EveryNatural
    <3> QED BY <2>3, <3>3 DEF Good
  <2>7. \A n \in 1 .. Len(list) : e[n] <= Len(FlattenSeq(list))
    BY <2>1, <2>6
  <2> QED BY <2>1, <2>6, <2>7 DEF e
<1> QED BY <1>1, <1>2

(* The chunks of a list that is in the file are, each behind the others.   *)
LEMMA HoldsFlat ==
  ASSUME NEW C, NEW list \in Seq(Seq(C)), NEW file, NEW at \in Nat,
         Holds(file, at, FlattenSeq(list)), NEW n \in 1 .. Len(list)
  PROVE  Holds(file, at + Ends(list)[n - 1], list[n])
<1> DEFINE e == Ends(list)[n - 1]
<1>1. /\ e \in Nat /\ Ends(list)[n] = e + Len(list[n]) /\ Len(list[n]) \in Nat
      /\ Ends(list)[n] <= Len(FlattenSeq(list)) /\ Len(FlattenSeq(list)) \in Nat
  <2>1. n - 1 \in 0 .. Len(list) /\ list[n] \in Seq(C)
    OBVIOUS
  <2>2. e \in Nat /\ Ends(list)[n] = e + Len(list[n])
    BY <2>1, EndsSum
  <2>3. FlattenSeq(list) \in Seq(C) /\ Ends(list)[n] <= Len(FlattenSeq(list))
    BY FlattenPlaces
  <2> QED BY <2>1, <2>2, <2>3, LenProperties
<1>2. \A j \in 1 .. Len(list[n]) : FlattenSeq(list)[e + j] = list[n][j]
  BY FlattenPlaces
<1> HIDE DEF e
<1>3. ASSUME NEW j \in 1 .. Len(list[n]) PROVE file[(at + e) + j - 1] = list[n][j]
  <2>1. e + j \in 1 .. Len(FlattenSeq(list)) /\ (at + e) + j - 1 = at + (e + j) - 1
    <3>1. \A a, b, c, d \in Nat : a + b <= d /\ c \in 1 .. b => a + c \in 1 .. d
      OBVIOUS
    <3> QED BY <1>1, <3>1
  <2> QED BY <1>2, <2>1 DEF Holds
<1> QED BY <1>3 DEF Holds, e

(* The children of a chunk, as they are read one after the other.          *)
IsWalk(w, file, ctx, start, num, tag) ==
  /\ w[0] = [next |-> start, over |-> FALSE, found |-> <<>>]
  /\ \A n \in 1 .. num : w[n] = NextChild(file, ctx, tag, w[n - 1])

LEMMA ChildrenSteps ==
  ASSUME NEW file, NEW ctx, NEW start, NEW num \in Nat, NEW tag
  PROVE  \E w : /\ IsWalk(w, file, ctx, start, num, tag)
                /\ Children(file, ctx, start, num, tag) = w[num]
<1> DEFINE First == [next |-> start, over |-> FALSE, found |-> <<>>]
           Step(w, n) == IF n = 0 THEN First ELSE NextChild(file, ctx, tag, w[n - 1])
           Upto(m) == \E w : w = [n \in 0 .. m |-> Step(w, n)]
           Good == {m \in Nat : Upto(m)}
<1>0. Children(file, ctx, start, num, tag)
        = (CHOOSE w : w = [n \in 0 .. num |-> Step(w, n)])[num]
  BY DEF Children
<1> HIDE DEF First
<1>1. 0 \in Good
  <2> DEFINE w == [n \in 0 .. 0 |-> First]
  <2>1. w = [n \in 0 .. 0 |-> Step(w, n)]
    OBVIOUS
  <2> HIDE DEF w, Step
  <2> QED BY <2>1
<1>2. ASSUME NEW m \in Good PROVE m + 1 \in Good
  <2>1. m \in Nat /\ m + 1 \in Nat
    OBVIOUS
  <2>2. PICK w : w = [n \in 0 .. m |-> Step(w, n)]
    <3> HIDE DEF Step
    <3> QED OBVIOUS
  <2> DEFINE g == [n \in 0 .. m + 1 |-> Step(w, n)]
  <2>3. \A n \in 0 .. m : g[n] = w[n]
    <3> HIDE DEF Step
    <3>1. \A n \in 0 .. m : w[n] = Step(w, n)
      BY <2>2
    <3> QED BY <2>1, <3>1
  <2> HIDE DEF g
  <2>4. \A n \in 0 .. m + 1 : Step(w, n) = Step(g, n)
    <3> SUFFICES ASSUME NEW n \in 0 .. m + 1 PROVE Step(w, n) = Step(g, n)
      OBVIOUS
    <3>1. n = 0 \/ n - 1 \in 0 .. m
      BY <2>1
    <3> QED BY <2>3, <3>1
  <2>5. g = [n \in 0 .. m + 1 |-> Step(g, n)]
    <3> HIDE DEF Step
    <3> QED BY <2>4 DEF g
  <2> HIDE DEF Step
  <2> QED BY <2>1, <2>5
<1>3. Upto(num)
  <2> HIDE DEF Upto
  <2>1. Good \in SUBSET Nat
    OBVIOUS
  <2> HIDE DEF Good
  <2>2. num \in Good
    BY <1>1, <1>2, <2>1, EveryNatural
  <2> QED BY <2>2 DEF Good
<1> DEFINE walk == CHOOSE w : w = [n \in 0 .. num |-> Step(w, n)]
<1>4. walk = [n \in 0 .. num |-> Step(walk, n)]
  <2> HIDE DEF Step
  <2> QED BY <1>3
<1> HIDE DEF walk
<1>5. walk[0] = First /\ \A n \in 1 .. num : walk[n] = NextChild(file, ctx, tag, walk[n - 1])
  <2>1. \A n \in 0 .. num : walk[n] = Step(walk, n)
    <3> HIDE DEF Step
    <3> QED BY <1>4
  <2> QED BY <2>1
<1>6. Children(file, ctx, start, num, tag) = walk[num]
  BY <1>0 DEF walk
<1>7. IsWalk(walk, file, ctx, start, num, tag)
  BY <1>5 DEF First, IsWalk
<1> QED BY <1>6, <1>7

(* All children are found, each with its own length.                       *)
LEMMA ChildrenHeld ==
  ASSUME NEW C, NEW list \in Seq(Seq(C)), NEW tag, NEW file, NEW at \in Nat, NEW len \in Nat,
         NEW start \in Nat,
         AreChunks(tag, list), Holds(file, at + start, FlattenSeq(list)),
         start + Len(FlattenSeq(list)) <= len
  PROVE  Read(Children(file, Context(at, len), start, Len(list), tag),
              start + Len(FlattenSeq(list)), Contexts(at + start, list))
<1>a. PICK w : /\ IsWalk(w, file, Context(at, len), start, Len(list), tag)
               /\ Children(file, Context(at, len), start, Len(list), tag) = w[Len(list)]
  BY ChildrenSteps
<1> DEFINE e == Ends(list)
           flat == FlattenSeq(list)
           place(n) == Context(at + start + e[n - 1], Len(list[n]))
<1>0. Len(list) \in Nat /\ flat \in Seq(C) /\ Len(flat) \in Nat
  BY FlattenPlaces, LenProperties
<1>1. /\ w[0] = [next |-> start, over |-> FALSE, found |-> <<>>]
      /\ \A n \in 1 .. Len(list) : w[n] = NextChild(file, Context(at, len), tag, w[n - 1])
  BY <1>a DEF IsWalk
<1>2. /\ e[0] = 0 /\ e[Len(list)] = Len(flat) /\ \A n \in 0 .. Len(list) : e[n] \in Nat
      /\ \A n \in 1 .. Len(list) : e[n] = e[n - 1] + Len(list[n]) /\ e[n] <= Len(flat)
  BY EndsSum, FlattenPlaces
<1>3. ASSUME NEW n \in 1 .. Len(list)
      PROVE  /\ file[at + start + e[n - 1]].tag = tag
             /\ file[at + start + e[n - 1]].len = Len(list[n])
             /\ Len(list[n]) \in Nat \ {0}
  <2>1. Holds(file, at + start + e[n - 1], list[n])
    BY HoldsFlat
  <2>2. list[n] \in Seq(C) /\ list[n] # <<>> /\ n - 1 \in 0 .. Len(list)
    <3>1. IsChunk(tag, list[n])
      BY DEF AreChunks
    <3> QED BY <1>0, <3>1 DEF IsChunk
  <2>3. Len(list[n]) \in Nat \ {0} /\ 1 \in 1 .. Len(list[n])
    BY <2>2, LenProperties, EmptySeq
  <2>4. file[at + start + e[n - 1] + 1 - 1] = list[n][1]
    BY <2>1, <2>3 DEF Holds
  <2>5. e[n - 1] \in Nat
    BY <1>2, <2>2
  <2>6. at + start + e[n - 1] + 1 - 1 = at + start + e[n - 1]
    BY <2>5
  <2> HIDE DEF e
  <2> QED BY <2>3, <2>4, <2>6 DEF IsChunk, AreChunks
<1> DEFINE Prefix(m) == /\ w[m].next = start + e[m] /\ w[m].over = FALSE
                       /\ w[m].found = [n \in 1 .. m |-> place(n)]
           Good == {m \in Nat : m <= Len(list) => Prefix(m)}
<1>4. 0 \in Good
  <2>1. [n \in 1 .. 0 |-> place(n)] = <<>>
    OBVIOUS
  <2> HIDE DEF place, e
  <2> QED BY <1>1, <1>2, <2>1
<1>5. ASSUME NEW m \in Nat, m <= Len(list) => Prefix(m), m + 1 <= Len(list) PROVE Prefix(m + 1)
  <2>1. /\ m \in 0 .. Len(list) /\ m + 1 \in 0 .. Len(list) /\ m + 1 \in 1 .. Len(list) /\ (m + 1) - 1 = m
        /\ m <= Len(list)
    BY <1>0, <1>5
  <2>2. Prefix(m)
    BY <1>5, <2>1
  <2> DEFINE here == at + w[m].next
             x == list[m + 1]
  <2>3. /\ e[m] \in Nat /\ e[m + 1] \in Nat /\ e[m + 1] = e[m] + Len(x)
        /\ e[m + 1] <= Len(flat)
    <3>1. e[m + 1] = e[(m + 1) - 1] + Len(x)
      BY <1>2, <2>1
    <3> HIDE DEF e, flat, x
    <3> QED BY <1>2, <2>1, <3>1
  <2>4. here = at + start + e[m]
    <3>1. w[m].next = start + e[m]
      BY <2>2
    <3>2. at \in Nat /\ start \in Nat /\ e[m] \in Nat
      BY <2>3
    <3> HIDE DEF e
    <3> QED BY ONLY <3>1, <3>2 DEF here
  <2>5. file[here].tag = tag /\ file[here].len = Len(x) /\ Len(x) \in Nat \ {0}
    BY <1>3, <2>1, <2>4
  <2>6. ~(w[m].next >= len) /\ w[m].next + Len(x) = start + e[m + 1]
    <3>1. w[m].next = start + e[m] /\ Len(flat) \in Nat /\ start + Len(flat) <= len
      BY <1>0, <2>2
    <3>2. Len(x) \in Nat /\ Len(x) # 0
      BY <2>5
    <3>3. start + e[m] < start + e[m + 1] /\ start + e[m] + Len(x) = start + e[m + 1]
      <4> HIDE DEF e, flat, x, Prefix, Good, place, here
      <4> QED BY <2>3, <3>2
    <3>4. start + e[m + 1] <= len
      <4> HIDE DEF e, flat, x, Prefix, Good, place, here
      <4>1. \A a, b \in Nat : a <= b /\ start + b <= len => start + a <= len
        OBVIOUS
      <4>2. e[m + 1] \in Nat /\ Len(flat) \in Nat /\ e[m + 1] <= Len(flat)
        BY <2>3, <3>1
      <4>3. start + Len(flat) <= len
        BY <3>1
      <4> QED BY <4>1, <4>2, <4>3
    <3>5. ~(start + e[m] >= len) /\ start + e[m] + Len(x) = start + e[m + 1]
      <4> HIDE DEF e, flat, x, Prefix, Good, place, here
      <4>1. start + e[m] \in Nat /\ start + e[m + 1] \in Nat /\ len \in Nat
        <5>1. e[m] \in Nat /\ e[m + 1] \in Nat /\ start \in Nat /\ len \in Nat
          BY <2>3
        <5> QED BY ONLY <5>1
      <4> QED BY ONLY <3>3, <3>4, <4>1
    <3> HIDE DEF e, flat, x
    <3> QED BY <3>1, <3>5
  <2>7. w[m + 1] = [next |-> w[m].next + file[here].len, over |-> FALSE,
                    found |-> Append(w[m].found, Context(here, file[here].len))]
    <3>1. w[m + 1] = NextChild(file, Context(at, len), tag, w[(m + 1) - 1])
      BY <1>1, <2>1
    <3>2. w[m].over = FALSE
      BY <2>2
    <3> HIDE DEF Prefix
    <3> QED BY <2>1, <2>5, <2>6, <3>1, <3>2 DEF NextChild, Context
  <2>8. place(m + 1) = Context(here, Len(x))
    BY <2>1, <2>4
  <2>9. Append([n \in 1 .. m |-> place(n)], place(m + 1)) = [n \in 1 .. m + 1 |-> place(n)]
    <3> HIDE DEF place
    <3> QED OBVIOUS
  <2> HIDE DEF place, e, x, here
  <2> QED BY <2>2, <2>5, <2>6, <2>7, <2>8, <2>9
<1>6. Prefix(Len(list))
  <2> HIDE DEF Prefix
  <2>1. 0 \in Good /\ Good \in SUBSET Nat
    BY <1>4
  <2>2. ASSUME NEW m \in Good PROVE m + 1 \in Good
    <3>1. m \in Nat /\ (m <= Len(list) => Prefix(m)) /\ m + 1 \in Nat
      OBVIOUS
    <3>2. m + 1 <= Len(list) => Prefix(m + 1)
      BY <1>5, <3>1
    <3> QED BY <3>1, <3>2
  <2> HIDE DEF Good
  <2>3. Len(list) \in Good
    BY <1>0, <2>1, <2>2, EveryNatural
  <2> QED BY <1>0, <2>3 DEF Good
<1>7. w[Len(list)].found = Contexts(at + start, list)
  BY <1>6 DEF Contexts
<1> HIDE DEF place
<1>8. w[Len(list)].next = start + Len(flat)
  BY <1>2, <1>6
<1> QED BY <1>a, <1>7, <1>8 DEF Read

(* One chunk, or three, one behind the other.                              *)
LEMMA FlattenOne ==
  ASSUME NEW C, NEW a \in Seq(C)
  PROVE  FlattenSeq(<<a>>) = a
<1>1. <<a>> \in Seq(Seq(C)) /\ <<a>> # <<>> /\ Len(<<a>>) = 1
  OBVIOUS
<1>2. PICK f : /\ f = [i \in 1 .. Len(<<a>>) |->
                         IF i = 1 THEN <<a>>[i] ELSE f[i - 1] \o <<a>>[i]]
               /\ FlattenSeq(<<a>>) = f[Len(<<a>>)]
  BY <1>1, FlattenSteps
<1>3. f[1] = a
  BY <1>1, <1>2
<1> QED BY <1>1, <1>2, <1>3

LEMMA FlattenThree ==
  ASSUME NEW C, NEW list \in Seq(Seq(C)), Len(list) = 3
  PROVE  FlattenSeq(list) = (list[1] \o list[2]) \o list[3]
<1> DEFINE a == list[1]
           b == list[2]
           c == list[3]
<1>1. list # <<>> /\ Len(list) = 3
  OBVIOUS
<1>2. list[1] = a /\ list[2] = b /\ list[3] = c
  OBVIOUS
<1> HIDE DEF a, b, c
<1>3. PICK f : /\ f = [i \in 1 .. Len(list) |-> IF i = 1 THEN list[i] ELSE f[i - 1] \o list[i]]
               /\ FlattenSeq(list) = f[Len(list)]
  BY <1>1, FlattenSteps
<1>4. \A i \in 1 .. 3 : f[i] = IF i = 1 THEN list[i] ELSE f[i - 1] \o list[i]
  BY <1>1, <1>3
<1>5. f[1] = a
  BY <1>2, <1>4
<1>6. f[2] = a \o b
  <2>1. 2 \in 1 .. 3 /\ 2 # 1 /\ 2 - 1 = 1
    OBVIOUS
  <2>2. f[2] = f[2 - 1] \o list[2]
    BY <1>4, <2>1
  <2> QED BY <1>2, <1>5, <2>1, <2>2
<1>7. f[3] = (a \o b) \o c
  <2>1. 3 \in 1 .. 3 /\ 3 # 1 /\ 3 - 1 = 2
    OBVIOUS
  <2>2. f[3] = f[3 - 1] \o list[3]
    BY <1>4, <2>1
  <2> QED BY <1>2, <1>6, <2>1, <2>2
<1> QED BY <1>1, <1>3, <1>7 DEF a, b, c

(* Elements, each on its own, are the list.                                *)
LEMMA FlattenSingles ==
  ASSUME NEW C, NEW list \in Seq(C)
  PROVE  FlattenSeq([i \in 1 .. Len(list) |-> <<list[i]>>]) = list
<1> DEFINE singles == [i \in 1 .. Len(list) |-> <<list[i]>>]
<1>1. Len(list) \in Nat /\ \A i \in 1 .. Len(list) : list[i] \in C
  OBVIOUS
<1>2. /\ singles \in Seq(Seq(C)) /\ Len(singles) = Len(list)
      /\ \A i \in 1 .. Len(list) : Len(singles[i]) = 1 /\ singles[i][1] = list[i]
  <2>1. \A i \in 1 .. Len(list) : /\ <<list[i]>> \in Seq(C) /\ Len(<<list[i]>>) = 1
                                 /\ <<list[i]>>[1] = list[i]
    BY <1>1
  <2> QED BY <1>1, <2>1, IsASeq
<1> HIDE DEF singles
<1> DEFINE e == Ends(singles)
<1>3. /\ e[0] = 0 /\ \A n \in 0 .. Len(list) : e[n] \in Nat
      /\ \A n \in 1 .. Len(list) : e[n] = e[n - 1] + 1
  <2>1. /\ e \in [0 .. Len(singles) -> Nat] /\ e[0] = 0
        /\ \A n \in 1 .. Len(singles) : e[n] = e[n - 1] + Len(singles[n])
    BY <1>2, EndsSum
  <2> HIDE DEF e
  <2> QED BY <1>2, <2>1
<1> DEFINE Good == {n \in Nat : n <= Len(list) => e[n] = n}
<1>4. \A n \in 0 .. Len(list) : e[n] = n
  <2> HIDE DEF e
  <2>1. 0 \in Good /\ Good \in SUBSET Nat
    BY <1>3
  <2>2. ASSUME NEW m \in Good PROVE m + 1 \in Good
    <3>1. m \in Nat /\ m + 1 \in Nat
      OBVIOUS
    <3>2. ASSUME m + 1 <= Len(list) PROVE e[m + 1] = m + 1
      <4>1. m + 1 \in 1 .. Len(list) /\ (m + 1) - 1 = m /\ m <= Len(list)
        BY <1>1, <3>1, <3>2
      <4>2. e[m + 1] = e[(m + 1) - 1] + 1
        BY <1>3, <4>1
      <4> QED BY <4>1, <4>2
    <3> QED BY <3>1, <3>2
  <2> HIDE DEF Good
  <2>3. \A n \in Nat : n \in Good
    BY <2>1, <2>2, EveryNatural
  <2> QED BY <1>1, <2>3 DEF Good
<1> HIDE DEF e
<1>5. /\ FlattenSeq(singles) \in Seq(C) /\ Len(FlattenSeq(singles)) = Len(list)
      /\ \A n \in 1 .. Len(list) : \A j \in 1 .. Len(singles[n]) :
           FlattenSeq(singles)[e[n - 1] + j] = singles[n][j]
  <2>1. /\ FlattenSeq(singles) \in Seq(C)
        /\ Len(FlattenSeq(singles)) = e[Len(list)]
        /\ \A n \in 1 .. Len(list) : \A j \in 1 .. Len(singles[n]) :
             FlattenSeq(singles)[e[n - 1] + j] = singles[n][j]
    BY <1>2, FlattenPlaces DEF e
  <2>2. e[Len(list)] = Len(list)
    BY <1>1, <1>4
  <2> QED BY <2>1, <2>2
<1>6. ASSUME NEW n \in 1 .. Len(list) PROVE FlattenSeq(singles)[n] = list[n]
  <2>1. e[n - 1] = n - 1 /\ (n - 1) + 1 = n /\ 1 \in 1 .. Len(singles[n])
    <3>1. n - 1 \in 0 .. Len(list) /\ (n - 1) + 1 = n
      BY <1>1
    <3>2. Len(singles[n]) = 1
      BY <1>2
    <3> QED BY <1>4, <3>1, <3>2
  <2>2. FlattenSeq(singles)[e[n - 1] + 1] = singles[n][1]
    BY <1>5, <2>1
  <2>3. singles[n][1] = list[n]
    BY <1>2
  <2> QED BY <2>1, <2>2, <2>3
<1>7. FlattenSeq(singles) = list
  BY <1>5, <1>6, SeqEqual
<1> QED BY <1>7 DEF singles

(* What is in a chunk, and where it is in the file.                        *)
LEMMA ChunkPlaces ==
  ASSUME NEW D, NEW tag \in Words, NEW num \in Nat, NEW data \in Data(D),
         NEW children \in Seq(Cells(D))
  PROVE  /\ Chunk(tag, num, data, children) \in Seq(Cells(D))
         /\ Len(Chunk(tag, num, data, children)) = 1 + Len(children)
         /\ IsChunk(tag, Chunk(tag, num, data, children))
         /\ HeadIs(Chunk(tag, num, data, children)[1], tag, 1 + Len(children), num, data)
         /\ \A i \in 1 .. Len(children) :
              Chunk(tag, num, data, children)[i + 1] = children[i]
<1> DEFINE head == [tag |-> tag, len |-> 1 + Len(children), num |-> num, data |-> data]
           chunk == Chunk(tag, num, data, children)
<1>1. chunk = <<head>> \o children
  BY DEF Chunk, Cell
<1>2. Len(children) \in Nat
  OBVIOUS
<1>3. head \in Cells(D)
  BY <1>2 DEF Cells
<1>4. HeadIs(head, tag, 1 + Len(children), num, data)
  BY DEF HeadIs
<1> HIDE DEF head, chunk
<1>5. <<head>> \in Seq(Cells(D)) /\ Len(<<head>>) = 1 /\ <<head>>[1] = head
  BY <1>3
<1>6. /\ chunk \in Seq(Cells(D)) /\ Len(chunk) = 1 + Len(children)
      /\ \A i \in 1 .. 1 + Len(children) :
           chunk[i] = IF i <= 1 THEN <<head>>[i] ELSE children[i - 1]
  BY <1>1, <1>5, ConcatProperties
<1>7. chunk[1] = head
  BY <1>2, <1>5, <1>6
<1>8. ASSUME NEW i \in 1 .. Len(children) PROVE chunk[i + 1] = children[i]
  <2>1. i + 1 \in 1 .. 1 + Len(children) /\ ~(i + 1 <= 1) /\ (i + 1) - 1 = i
    BY <1>2
  <2> QED BY <1>6, <2>1
<1>9. chunk # <<>>
  BY <1>2, <1>6, EmptySeq
<1>10. IsChunk(tag, chunk)
  BY <1>4, <1>6, <1>7, <1>9 DEF IsChunk, HeadIs
<1> QED BY <1>4, <1>6, <1>7, <1>8, <1>10 DEF chunk

LEMMA ChunkShape ==
  ASSUME NEW D, NEW tag \in Words, NEW num \in Nat, NEW data \in Data(D),
         NEW children \in Seq(Cells(D))
  PROVE  /\ Chunk(tag, num, data, children) \in Seq(Cells(D))
         /\ Len(Chunk(tag, num, data, children)) = 1 + Len(children)
         /\ IsChunk(tag, Chunk(tag, num, data, children))
<1>1. Chunk(tag, num, data, children) \in Seq(Cells(D))
  BY ChunkPlaces
<1>2. Len(Chunk(tag, num, data, children)) = 1 + Len(children)
  BY ChunkPlaces
<1>3. IsChunk(tag, Chunk(tag, num, data, children))
  BY ChunkPlaces
<1> QED BY <1>1, <1>2, <1>3

LEMMA HoldsChunk ==
  ASSUME NEW D, NEW tag \in Words, NEW num \in Nat, NEW data \in Data(D),
         NEW children \in Seq(Cells(D)), NEW file, NEW at \in Nat,
         Holds(file, at, Chunk(tag, num, data, children))
  PROVE  /\ HeadIs(file[at], tag, 1 + Len(children), num, data)
         /\ Holds(file, at + 1, children)
<1> DEFINE chunk == Chunk(tag, num, data, children)
<1>1. /\ Len(chunk) = 1 + Len(children)
      /\ HeadIs(chunk[1], tag, 1 + Len(children), num, data)
      /\ \A i \in 1 .. Len(children) : chunk[i + 1] = children[i]
  BY ChunkPlaces
<1>2. \A i \in 1 .. Len(chunk) : file[at + i - 1] = chunk[i]
  BY DEF Holds
<1> HIDE DEF chunk
<1>3. Len(children) \in Nat
  OBVIOUS
<1>4. file[at] = chunk[1]
  <2>1. 1 \in 1 .. Len(chunk) /\ at + 1 - 1 = at
    BY <1>1, <1>3
  <2> QED BY <1>2, <2>1
<1>5. ASSUME NEW i \in 1 .. Len(children) PROVE file[(at + 1) + i - 1] = children[i]
  <2>1. i + 1 \in 1 .. Len(chunk) /\ (at + 1) + i - 1 = at + (i + 1) - 1
    BY <1>1, <1>3
  <2> QED BY <1>1, <1>2, <2>1
<1> QED BY <1>1, <1>4, <1>5 DEF Holds

LEMMA HoldsConcat ==
  ASSUME NEW C, NEW a \in Seq(C), NEW b \in Seq(C), NEW file, NEW at \in Nat,
         Holds(file, at, a \o b)
  PROVE  Holds(file, at, a) /\ Holds(file, at + Len(a), b)
<1> DEFINE both == a \o b
<1>1. /\ Len(a) \in Nat /\ Len(b) \in Nat /\ Len(both) = Len(a) + Len(b)
      /\ \A i \in 1 .. Len(a) + Len(b) : both[i] = IF i <= Len(a) THEN a[i] ELSE b[i - Len(a)]
  BY ConcatProperties, LenProperties
<1>2. \A i \in 1 .. Len(a) + Len(b) : file[at + i - 1] = both[i]
  BY <1>1 DEF Holds
<1> HIDE DEF both
<1>3. ASSUME NEW i \in 1 .. Len(a) PROVE file[at + i - 1] = a[i]
  <2>1. i \in 1 .. Len(a) + Len(b) /\ i <= Len(a)
    BY <1>1
  <2> QED BY <1>1, <1>2, <2>1
<1>4. ASSUME NEW i \in 1 .. Len(b) PROVE file[(at + Len(a)) + i - 1] = b[i]
  <2>1. /\ Len(a) + i \in 1 .. Len(a) + Len(b) /\ ~(Len(a) + i <= Len(a))
        /\ (Len(a) + i) - Len(a) = i /\ (at + Len(a)) + i - 1 = at + (Len(a) + i) - 1
    BY <1>1
  <2> QED BY <1>1, <1>2, <2>1
<1> QED BY <1>3, <1>4 DEF Holds

(* The only child of a chunk.                                              *)
LEMMA OnlyChild ==
  ASSUME NEW C, NEW chunk \in Seq(C), NEW tag, NEW file, NEW at \in Nat, NEW len \in Nat,
         NEW start \in Nat, IsChunk(tag, chunk), Holds(file, at + start, chunk),
         start + Len(chunk) <= len
  PROVE  Read(Children(file, Context(at, len), start, 1, tag),
              start + Len(chunk), <<Context(at + start, Len(chunk))>>)
<1> DEFINE list == <<chunk>>
<1>1. list \in Seq(Seq(C)) /\ Len(list) = 1 /\ list[1] = chunk
  OBVIOUS
<1>2. FlattenSeq(list) = chunk
  BY FlattenOne
<1> HIDE DEF list
<1>3. Ends(list)[0] = 0
  BY <1>1, EndsSum
<1>4. AreChunks(tag, list)
  BY <1>1 DEF AreChunks
<1>5. Read(Children(file, Context(at, len), start, Len(list), tag),
           start + Len(FlattenSeq(list)), Contexts(at + start, list))
  <2>1. Holds(file, at + start, FlattenSeq(list)) /\ start + Len(FlattenSeq(list)) <= len
    BY <1>2
  <2> QED BY <1>1, <1>4, <2>1, ChildrenHeld
<1>6. Contexts(at + start, list)
        = <<Context(at + start, Len(chunk))>>
  <2>1. \A n \in 1 .. 1 : Context(at + start + Ends(list)[n - 1], Len(list[n]))
                            = Context(at + start, Len(chunk))
    <3> SUFFICES ASSUME NEW n \in 1 .. 1
                 PROVE  Context(at + start + Ends(list)[n - 1], Len(list[n]))
                          = Context(at + start, Len(chunk))
      OBVIOUS
    <3>1. n = 1 /\ n - 1 = 0
      OBVIOUS
    <3>2. at + start + 0 = at + start
      OBVIOUS
    <3> QED BY <1>1, <1>3, <3>1, <3>2
  <2> QED BY <1>1, <2>1 DEF Contexts
<1> QED BY <1>1, <1>2, <1>5, <1>6

(* A mhod with a text is read back.                                        *)
LEMMA TextShape ==
  ASSUME NEW D, NEW type \in Data(D), NEW text \in Data(D)
  PROVE  /\ WriteText(type, text) \in Seq(Cells(D))
         /\ Len(WriteText(type, text)) = 2
         /\ IsChunk("mhod", WriteText(type, text))
         /\ <<Cell("text", 0, text)>> \in Seq(Cells(D))
<1>1. Cell("text", 0, text) \in Cells(D)
  BY DEF Cell, Cells, Words
<1>2. <<Cell("text", 0, text)>> \in Seq(Cells(D)) /\ Len(<<Cell("text", 0, text)>>) = 1
  BY <1>1
<1>3. WriteText(type, text) = Chunk("mhod", 0, type, <<Cell("text", 0, text)>>)
  BY DEF WriteText
<1>4. "mhod" \in Words
  BY DEF Words
<1> HIDE DEF WriteText
<1>5. WriteText(type, text) \in Seq(Cells(D)) /\ IsChunk("mhod", WriteText(type, text))
  BY <1>2, <1>3, <1>4, ChunkShape
<1>6. Len(WriteText(type, text)) = 1 + Len(<<Cell("text", 0, text)>>)
  <2>1. \A c \in Seq(Cells(D)) : Len(Chunk("mhod", 0, type, c)) = 1 + Len(c)
    BY <1>4, ChunkShape
  <2> QED BY <1>2, <1>3, <2>1
<1> QED BY <1>2, <1>5, <1>6

LEMMA TextRead ==
  ASSUME NEW D, NEW type \in Data(D), NEW text \in Data(D), NEW file, NEW at \in Nat,
         Holds(file, at, WriteText(type, text))
  PROVE  TextOf(file, <<Context(at, 2)>>, type) = text
<1> DEFINE cell == Cell("text", 0, text)
           here == Context(at, 2)
<1>1. <<cell>> \in Seq(Cells(D)) /\ Len(<<cell>>) = 1 /\ <<cell>>[1] = cell
  BY TextShape
<1>2. Holds(file, at, Chunk("mhod", 0, type, <<cell>>))
  BY DEF WriteText
<1> HIDE DEF cell
<1>3. HeadIs(file[at], "mhod", 1 + 1, 0, type) /\ Holds(file, at + 1, <<cell>>)
  <2>1. "mhod" \in Words
    BY DEF Words
  <2> QED BY <1>1, <1>2, <2>1, HoldsChunk
<1>4. file[at + 1] = cell
  <2>1. 1 \in 1 .. Len(<<cell>>) /\ (at + 1) + 1 - 1 = at + 1
    BY <1>1
  <2>2. file[(at + 1) + 1 - 1] = <<cell>>[1]
    BY <1>3, <2>1 DEF Holds
  <2> QED BY <1>1, <2>1, <2>2
<1>5. here.at = at /\ here.len = 2
  BY DEF Context
<1> HIDE DEF here
<1> DEFINE S == {m \in ToSet(<<here>>) : At(file, m).data = type /\ m.len > 1}
<1>6. here \in S
  <2>1. here \in ToSet(<<here>>)
    BY DEF ToSet
  <2>2. At(file, here).data = type /\ here.len > 1
    BY <1>3, <1>5 DEF At, HeadIs
  <2> QED BY <2>1, <2>2
<1> HIDE DEF S
<1>7. Only(<<here>>, S) = <<here>>
  <2>1. <<here>> \in Seq({here}) /\ Len(<<here>>) = 1 /\ <<here>>[1] = here
    OBVIOUS
  <2>2. \A i \in 1 .. Len(<<here>>) : <<here>>[i] \in S
    BY <1>6, <2>1
  <2> QED BY <2>1, <2>2, OnlyAll
<1>8. Last(<<here>>) = here /\ <<here>> # <<>>
  BY DEF Last
<1>9. TextOf(file, <<here>>, type) = file[here.at + 1].data
  <2>1. TextOf(file, <<here>>, type)
          = IF Only(<<here>>, S) = <<>> THEN NoName
            ELSE file[Last(Only(<<here>>, S)).at + 1].data
    BY DEF TextOf, S
  <2> QED BY <1>7, <1>8, <2>1
<1>10. cell.data = text
  BY DEF cell, Cell
<1> QED BY <1>4, <1>5, <1>9, <1>10 DEF here

(* A thumbnail is read back, if the iPod has its format.                   *)
LEMMA ThumbShape ==
  ASSUME NEW D, NEW thumb \in Thumbs(D)
  PROVE  LET text == WriteText("file name", thumb.filename)
             where == [format |-> thumb.format, offset |-> thumb.offset]
             mhni == Chunk("mhni", 1, where, text)
         IN /\ text \in Seq(Cells(D)) /\ Len(text) = 2 /\ IsChunk("mhod", text)
            /\ where \in Data(D) /\ thumb.filename \in Data(D)
            /\ mhni \in Seq(Cells(D)) /\ Len(mhni) = 3 /\ IsChunk("mhni", mhni)
            /\ WriteThumb(thumb) = Chunk("mhod", 0, "thumbnail", mhni)
            /\ WriteThumb(thumb) \in Seq(Cells(D)) /\ Len(WriteThumb(thumb)) = 4
            /\ IsChunk("mhod", WriteThumb(thumb))
<1> DEFINE text == WriteText("file name", thumb.filename)
           where == [format |-> thumb.format, offset |-> thumb.offset]
           mhni == Chunk("mhni", 1, where, text)
<1>0. "mhod" \in Words /\ "mhni" \in Words
  BY DEF Words
<1>1. thumb.filename \in Data(D) /\ "file name" \in Data(D) /\ "thumbnail" \in Data(D)
  BY DEF Thumbs, Data, Words
<1>2. where \in Data(D)
  BY DEF Thumbs, Data
<1>3. text \in Seq(Cells(D)) /\ Len(text) = 2 /\ IsChunk("mhod", text)
  BY <1>1, TextShape
<1>4. WriteThumb(thumb) = Chunk("mhod", 0, "thumbnail", mhni)
  BY DEF WriteThumb
<1> HIDE DEF text, where
<1>5. mhni \in Seq(Cells(D)) /\ Len(mhni) = 3 /\ IsChunk("mhni", mhni)
  <2>1. mhni \in Seq(Cells(D)) /\ IsChunk("mhni", mhni)
    BY <1>0, <1>2, <1>3, ChunkShape
  <2>2. Len(mhni) = 1 + Len(text)
    <3>1. \A c \in Seq(Cells(D)) : Len(Chunk("mhni", 1, where, c)) = 1 + Len(c)
      BY <1>0, <1>2, ChunkShape
    <3> QED BY <1>3, <3>1
  <2> QED BY <1>3, <2>1, <2>2
<1> HIDE DEF mhni
<1>6. /\ WriteThumb(thumb) \in Seq(Cells(D)) /\ Len(WriteThumb(thumb)) = 4
      /\ IsChunk("mhod", WriteThumb(thumb))
  <2>1. WriteThumb(thumb) \in Seq(Cells(D)) /\ IsChunk("mhod", WriteThumb(thumb))
    <3>1. \A c \in Seq(Cells(D)), d \in Data(D) :
            Chunk("mhod", 0, d, c) \in Seq(Cells(D)) /\ IsChunk("mhod", Chunk("mhod", 0, d, c))
      BY <1>0, ChunkShape
    <3> QED BY <1>1, <1>4, <1>5, <3>1
  <2>2. Len(WriteThumb(thumb)) = 1 + Len(mhni)
    <3>1. \A c \in Seq(Cells(D)), d \in Data(D) : Len(Chunk("mhod", 0, d, c)) = 1 + Len(c)
      BY <1>0, ChunkShape
    <3> QED BY <1>1, <1>4, <1>5, <3>1
  <2> QED BY <1>5, <2>1, <2>2
<1> QED BY <1>1, <1>2, <1>3, <1>4, <1>5, <1>6 DEF text, where, mhni

LEMMA ThumbRead ==
  ASSUME NEW D, NEW thumb \in Thumbs(D), Listed(thumb.format, Formats),
         NEW file, NEW at \in Nat, Holds(file, at, WriteThumb(thumb))
  PROVE  ReadThumb(file, Context(at, 4)) = <<thumb>>
<1> DEFINE text == WriteText("file name", thumb.filename)
           where == [format |-> thumb.format, offset |-> thumb.offset]
           mhni == Chunk("mhni", 1, where, text)
           here == Context(at, 4)
           inner == Context(at + 1, 3)
<1>1. /\ text \in Seq(Cells(D)) /\ Len(text) = 2 /\ IsChunk("mhod", text)
      /\ where \in Data(D) /\ thumb.filename \in Data(D)
      /\ mhni \in Seq(Cells(D)) /\ Len(mhni) = 3 /\ IsChunk("mhni", mhni)
      /\ WriteThumb(thumb) = Chunk("mhod", 0, "thumbnail", mhni)
  BY ThumbShape
<1>2. /\ "thumbnail" \in Data(D) /\ "file name" \in Data(D)
      /\ "mhod" \in Words /\ "mhni" \in Words
  BY DEF Data, Words
<1> HIDE DEF mhni, text, where
<1>3. HeadIs(file[at], "mhod", 1 + 3, 0, "thumbnail") /\ Holds(file, at + 1, mhni)
  BY <1>1, <1>2, HoldsChunk
<1>4. HeadIs(file[at + 1], "mhni", 1 + 2, 1, where) /\ Holds(file, at + 2, text)
  <2>1. at + 1 \in Nat /\ (at + 1) + 1 = at + 2
    OBVIOUS
  <2>2. Holds(file, at + 1, Chunk("mhni", 1, where, text))
    BY <1>3 DEF mhni
  <2>3. HeadIs(file[at + 1], "mhni", 1 + 2, 1, where) /\ Holds(file, (at + 1) + 1, text)
    BY <1>1, <1>2, <2>1, <2>2, HoldsChunk
  <2> QED BY <2>1, <2>3
<1>5. Children(file, here, 1, 1, "mhni").found = <<inner>>
  <2>1. 1 + Len(mhni) <= 4 /\ at + 1 \in Nat
    BY <1>1
  <2>2. Read(Children(file, here, 1, 1, "mhni"), 1 + Len(mhni), <<Context(at + 1, Len(mhni))>>)
    BY <1>1, <1>3, <2>1, OnlyChild
  <2> QED BY <1>1, <2>2 DEF Read
<1>6. Children(file, inner, 1, 1, "mhod").found = <<Context(at + 2, 2)>>
  <2>1. 1 + Len(text) <= 3 /\ at + 1 \in Nat /\ (at + 1) + 1 = at + 2
    BY <1>1
  <2>2. Holds(file, (at + 1) + 1, text)
    BY <1>4, <2>1
  <2>3. Read(Children(file, inner, 1, 1, "mhod"), 1 + Len(text),
             <<Context((at + 1) + 1, Len(text))>>)
    BY <1>1, <2>1, <2>2, OnlyChild
  <2> QED BY <1>1, <2>1, <2>3 DEF Read
<1>7. TextOf(file, <<Context(at + 2, 2)>>, "file name") = thumb.filename
  <2>1. Holds(file, at + 2, WriteText("file name", thumb.filename))
    BY <1>4 DEF text
  <2>2. at + 2 \in Nat
    OBVIOUS
  <2> QED BY <1>1, <1>2, <2>1, <2>2, TextRead
<1>8. /\ here.at = at /\ inner.at = at + 1
      /\ where.format = thumb.format /\ where.offset = thumb.offset
  BY DEF Context, where
<1> HIDE DEF here, inner
<1>9. <<inner>>[1] = inner /\ <<inner>> # <<>>
  OBVIOUS
<1>10. ReadThumb(file, here)
         = <<[format |-> where.format, offset |-> where.offset,
              filename |-> TextOf(file, Children(file, inner, 1, 1, "mhod").found, "file name")]>>
  <2>1. At(file, here).data = "thumbnail" /\ At(file, inner).data = where
    BY <1>3, <1>4, <1>8 DEF At, HeadIs
  <2>2. Listed(where.format, Formats)
    BY <1>8
  <2> QED BY <1>5, <1>9, <2>1, <2>2 DEF ReadThumb
<1>11. thumb = [format |-> thumb.format, offset |-> thumb.offset, filename |-> thumb.filename]
  BY DEF Thumbs
<1> HIDE DEF where, text
<1>12. ReadThumb(file, here) = <<[format |-> thumb.format, offset |-> thumb.offset,
                                  filename |-> thumb.filename]>>
  BY <1>6, <1>7, <1>8, <1>10
<1>13. ReadThumb(file, here) = <<thumb>>
  BY <1>11, <1>12
<1> QED BY <1>13 DEF here

(* An image is read back, with its thumbnails in their order.              *)
LEMMA ImageShape ==
  ASSUME NEW D, NEW image \in Images(D)
  PROVE  /\ ThumbChunks(image) \in Seq(Seq(Cells(D)))
         /\ Len(ThumbChunks(image)) = Len(image.thumbs)
         /\ \A i \in 1 .. Len(image.thumbs) : Len(ThumbChunks(image)[i]) = 4
         /\ AreChunks("mhod", ThumbChunks(image))
         /\ FlattenSeq(ThumbChunks(image)) \in Seq(Cells(D))
         /\ WriteMhii(image) = Chunk("mhii", Len(image.thumbs), image.id,
                                     FlattenSeq(ThumbChunks(image)))
         /\ WriteMhii(image) \in Seq(Cells(D)) /\ IsChunk("mhii", WriteMhii(image))
<1> DEFINE thumbs == image.thumbs
           list == ThumbChunks(image)
<1>1. thumbs \in Seq(Thumbs(D)) /\ image.id \in Data(D)
  BY DEF Images, Data
<1>2. Len(thumbs) \in Nat /\ DOMAIN thumbs = 1 .. Len(thumbs)
  BY <1>1
<1>3. WriteMhii(image) = Chunk("mhii", Len(thumbs), image.id, FlattenSeq(list))
  BY <1>2 DEF WriteMhii, Each, ThumbChunks
<1> DEFINE number == image.id
<1> HIDE DEF thumbs, number
<1>4. list = [i \in 1 .. Len(thumbs) |-> WriteThumb(thumbs[i])]
  BY DEF ThumbChunks, thumbs
<1> HIDE DEF list
<1>5. ASSUME NEW i \in 1 .. Len(thumbs)
      PROVE  /\ WriteThumb(thumbs[i]) \in Seq(Cells(D)) /\ Len(WriteThumb(thumbs[i])) = 4
             /\ IsChunk("mhod", WriteThumb(thumbs[i]))
  <2>1. thumbs[i] \in Thumbs(D)
    BY <1>1
  <2> QED BY <2>1, ThumbShape
<1>6. list \in Seq(Seq(Cells(D))) /\ Len(list) = Len(thumbs)
  <2>1. \A i \in 1 .. Len(thumbs) : WriteThumb(thumbs[i]) \in Seq(Cells(D))
    BY <1>5
  <2> QED BY <1>2, <1>4, <2>1, IsASeq
<1>7. AreChunks("mhod", list) /\ \A i \in 1 .. Len(thumbs) : Len(list[i]) = 4
  <2>1. ASSUME NEW i \in 1 .. Len(thumbs) PROVE IsChunk("mhod", list[i]) /\ Len(list[i]) = 4
    BY <1>4, <1>5
  <2> QED BY <1>6, <2>1 DEF AreChunks
<1>8. FlattenSeq(list) \in Seq(Cells(D))
  BY <1>6, FlattenPlaces
<1>9. WriteMhii(image) \in Seq(Cells(D)) /\ IsChunk("mhii", WriteMhii(image))
  <2>1. "mhii" \in Words
    BY DEF Words
  <2>2. WriteMhii(image) = Chunk("mhii", Len(thumbs), number, FlattenSeq(list)) /\ number \in Data(D)
    BY <1>1, <1>3 DEF number
  <2> QED BY <1>2, <1>8, <2>1, <2>2, ChunkShape
<1> QED BY <1>3, <1>6, <1>7, <1>8, <1>9 DEF list, thumbs

LEMMA ImageRead ==
  ASSUME NEW D, NEW image \in Images(D), HasFormats(image), NEW file, NEW at \in Nat,
         Holds(file, at, WriteMhii(image))
  PROVE  ReadMhii(file, Context(at, Len(WriteMhii(image)))) = image
<1> DEFINE thumbs == image.thumbs
           number == image.id
           list == ThumbChunks(image)
           flat == FlattenSeq(list)
           len == Len(WriteMhii(image))
           ctx == Context(at, len)
           mhods == Children(file, ctx, 1, Len(list), "mhod").found
<1>1. /\ list \in Seq(Seq(Cells(D))) /\ Len(list) = Len(thumbs)
      /\ \A i \in 1 .. Len(thumbs) : Len(list[i]) = 4
      /\ AreChunks("mhod", list) /\ flat \in Seq(Cells(D))
      /\ WriteMhii(image) = Chunk("mhii", Len(thumbs), number, flat)
  BY ImageShape
<1>2. /\ thumbs \in Seq(Thumbs(D)) /\ number \in Data(D)
      /\ Len(thumbs) \in Nat /\ "mhii" \in Words
  <2>1. thumbs \in Seq(Thumbs(D)) /\ number \in D
    BY DEF Images
  <2>2. number \in Data(D)
    BY <2>1 DEF Data
  <2>3. "mhii" \in Words
    BY DEF Words
  <2> QED BY <2>1, <2>2, <2>3, LenProperties
<1>3. \A i \in 1 .. Len(thumbs) : Listed(thumbs[i].format, Formats)
  BY DEF HasFormats
<1>4. image = [id |-> number, thumbs |-> thumbs]
  BY DEF Images
<1>5. ReadMhii(file, ctx)
        = [id |-> At(file, ctx).data,
           thumbs |-> Each(LAMBDA m : ReadThumb(file, m),
                           Children(file, ctx, 1, At(file, ctx).num, "mhod").found)]
  BY DEF ReadMhii
<1>6. \A i \in 1 .. Len(thumbs) : list[i] = WriteThumb(thumbs[i])
  BY DEF ThumbChunks
<1> HIDE DEF thumbs, number, list, flat
<1>7. HeadIs(file[at], "mhii", 1 + Len(flat), Len(thumbs), number) /\ Holds(file, at + 1, flat)
  BY <1>1, <1>2, HoldsChunk
<1>8. len = 1 + Len(flat) /\ len \in Nat
  <2>1. \A n \in Nat, d \in Data(D), c \in Seq(Cells(D)) :
          Len(Chunk("mhii", n, d, c)) = 1 + Len(c)
    BY <1>2, ChunkShape
  <2>2. Len(flat) \in Nat
    BY <1>1, LenProperties
  <2> QED BY <1>1, <1>2, <2>1, <2>2
<1> HIDE DEF len
<1>9. mhods = Contexts(at + 1, list)
  <2>1. 1 + Len(FlattenSeq(list)) <= len /\ Holds(file, at + 1, FlattenSeq(list))
    BY <1>7, <1>8 DEF flat
  <2>2. Read(Children(file, ctx, 1, Len(list), "mhod"),
             1 + Len(FlattenSeq(list)), Contexts(at + 1, list))
    BY <1>1, <1>8, <2>1, ChildrenHeld
  <2> QED BY <2>2 DEF Read
<1>10. At(file, ctx).num = Len(list) /\ At(file, ctx).data = number
  BY <1>1, <1>7 DEF At, Context, HeadIs
<1> HIDE DEF ctx, mhods
<1>11. DOMAIN mhods = 1 .. Len(thumbs)
  BY <1>1, <1>9 DEF Contexts
<1>12. ASSUME NEW i \in 1 .. Len(thumbs) PROVE ReadThumb(file, mhods[i]) = <<thumbs[i]>>
  <2>1. mhods[i] = Context(at + 1 + Ends(list)[i - 1], 4)
    BY <1>1, <1>9 DEF Contexts
  <2>2. Holds(file, at + 1 + Ends(list)[i - 1], list[i])
    BY <1>1, <1>7, HoldsFlat DEF flat
  <2>3. at + 1 + Ends(list)[i - 1] \in Nat
    <3>1. i - 1 \in 0 .. Len(list)
      BY <1>1, <1>2
    <3>2. Ends(list)[i - 1] \in Nat
      BY <1>1, <3>1, EndsSum
    <3> QED BY <3>2
  <2>4. thumbs[i] \in Thumbs(D) /\ Listed(thumbs[i].format, Formats)
    BY <1>2, <1>3
  <2> QED BY <1>6, <2>1, <2>2, <2>3, <2>4, ThumbRead
<1>13. Each(LAMBDA m : ReadThumb(file, m), mhods) = thumbs
  <2>1. Each(LAMBDA m : ReadThumb(file, m), mhods)
          = FlattenSeq([i \in DOMAIN mhods |-> ReadThumb(file, mhods[i])])
    BY DEF Each
  <2>2. [i \in DOMAIN mhods |-> ReadThumb(file, mhods[i])]
          = [i \in 1 .. Len(thumbs) |-> <<thumbs[i]>>]
    BY <1>11, <1>12
  <2> QED BY <1>2, <2>1, <2>2, FlattenSingles
<1>14. Children(file, ctx, 1, At(file, ctx).num, "mhod").found = mhods
  BY <1>10 DEF mhods
<1>15. ReadMhii(file, ctx) = [id |-> number, thumbs |-> thumbs]
  BY <1>5, <1>10, <1>13, <1>14
<1> QED BY <1>4, <1>15 DEF ctx, len

(* A member of an album is a chunk of one cell.                            *)
LEMMA MemberShape ==
  ASSUME NEW D, NEW number \in D
  PROVE  /\ WriteMhia(number) \in Seq(Cells(D)) /\ Len(WriteMhia(number)) = 1
         /\ IsChunk("mhia", WriteMhia(number))
<1>1. "mhia" \in Words /\ <<>> \in Seq(Cells(D)) /\ Len(<<>>) = 0
  BY DEF Words
<1>2. number \in Data(D)
  BY DEF Data
<1>3. WriteMhia(number) = Chunk("mhia", 0, number, <<>>)
  BY DEF WriteMhia
<1>4. WriteMhia(number) \in Seq(Cells(D)) /\ IsChunk("mhia", WriteMhia(number))
  <2>1. \A c \in Seq(Cells(D)) : /\ Chunk("mhia", 0, number, c) \in Seq(Cells(D))
                                 /\ IsChunk("mhia", Chunk("mhia", 0, number, c))
    BY <1>1, <1>2, ChunkShape
  <2> QED BY <1>1, <1>3, <2>1
<1>5. Len(WriteMhia(number)) = 1 + 0
  <2>1. \A c \in Seq(Cells(D)) : Len(Chunk("mhia", 0, number, c)) = 1 + Len(c)
    BY <1>1, <1>2, ChunkShape
  <2> QED BY <1>1, <1>3, <2>1
<1> QED BY <1>4, <1>5

LEMMA MemberHead ==
  ASSUME NEW D, NEW number \in D, NEW file, NEW at \in Nat, Holds(file, at, WriteMhia(number))
  PROVE  file[at].data = number
<1>1. "mhia" \in Words /\ <<>> \in Seq(Cells(D)) /\ Len(<<>>) = 0
  BY DEF Words
<1>2. number \in Data(D)
  BY DEF Data
<1>3. Holds(file, at, Chunk("mhia", 0, number, <<>>))
  BY DEF WriteMhia
<1>4. HeadIs(file[at], "mhia", 1 + Len(<<>>), 0, number)
  BY <1>1, <1>2, <1>3, HoldsChunk
<1> QED BY <1>4 DEF HeadIs

(* An album is read back: its name, and the members behind it in order.    *)
LEMMA AlbumShape ==
  ASSUME NEW D, NEW album \in AlbumsOf(D)
  PROVE  LET text == WriteText("album name", album.name)
             list == MemberChunks(album)
         IN /\ list \in Seq(Seq(Cells(D))) /\ Len(list) = Len(album.ids)
            /\ \A i \in 1 .. Len(album.ids) : Len(list[i]) = 1
            /\ AreChunks("mhia", list) /\ FlattenSeq(list) \in Seq(Cells(D))
            /\ text \in Seq(Cells(D)) /\ Len(text) = 2 /\ IsChunk("mhod", text)
            /\ text \o FlattenSeq(list) \in Seq(Cells(D))
            /\ WriteMhba(album) = Chunk("mhba", 1, Len(album.ids), text \o FlattenSeq(list))
            /\ WriteMhba(album) \in Seq(Cells(D)) /\ IsChunk("mhba", WriteMhba(album))
<1> DEFINE ids == album.ids
           text == WriteText("album name", album.name)
           list == MemberChunks(album)
           flat == FlattenSeq(list)
<1>1. ids \in Seq(D) /\ album.name \in D
  BY DEF AlbumsOf
<1>2. Len(ids) \in Nat /\ DOMAIN ids = 1 .. Len(ids)
  BY <1>1
<1>3. WriteMhba(album) = Chunk("mhba", 1, Len(ids), text \o flat)
  BY <1>2 DEF WriteMhba, Each, MemberChunks
<1>4. album.name \in Data(D) /\ "album name" \in Data(D) /\ Len(ids) \in Data(D)
  BY <1>1, <1>2 DEF Data, Words
<1>5. text \in Seq(Cells(D)) /\ Len(text) = 2 /\ IsChunk("mhod", text)
  BY <1>4, TextShape
<1>6. list = [i \in 1 .. Len(ids) |-> WriteMhia(ids[i])]
  BY DEF MemberChunks
<1> HIDE DEF ids, text, list
<1>7. ASSUME NEW i \in 1 .. Len(ids)
      PROVE  /\ WriteMhia(ids[i]) \in Seq(Cells(D)) /\ Len(WriteMhia(ids[i])) = 1
             /\ IsChunk("mhia", WriteMhia(ids[i]))
  <2>1. ids[i] \in D
    BY <1>1
  <2> QED BY <2>1, MemberShape
<1>8. list \in Seq(Seq(Cells(D))) /\ Len(list) = Len(ids)
  <2>1. \A i \in 1 .. Len(ids) : WriteMhia(ids[i]) \in Seq(Cells(D))
    BY <1>7
  <2> QED BY <1>2, <1>6, <2>1, IsASeq
<1>9. AreChunks("mhia", list) /\ \A i \in 1 .. Len(ids) : Len(list[i]) = 1
  <2>1. ASSUME NEW i \in 1 .. Len(ids) PROVE IsChunk("mhia", list[i]) /\ Len(list[i]) = 1
    BY <1>6, <1>7
  <2> QED BY <1>8, <2>1 DEF AreChunks
<1>10. flat \in Seq(Cells(D))
  BY <1>8, FlattenPlaces
<1> HIDE DEF flat
<1>11. text \o flat \in Seq(Cells(D))
  BY <1>5, <1>10, ConcatProperties
<1>12. WriteMhba(album) \in Seq(Cells(D)) /\ IsChunk("mhba", WriteMhba(album))
  <2>1. "mhba" \in Words
    BY DEF Words
  <2>2. \A n \in Data(D), c \in Seq(Cells(D)) :
          /\ Chunk("mhba", 1, n, c) \in Seq(Cells(D))
          /\ IsChunk("mhba", Chunk("mhba", 1, n, c))
    BY <2>1, ChunkShape
  <2> QED BY <1>3, <1>4, <1>11, <2>2
<1> QED BY <1>3, <1>5, <1>8, <1>9, <1>10, <1>11, <1>12 DEF list, ids, flat, text

LEMMA AlbumRead ==
  ASSUME NEW D, NEW album \in AlbumsOf(D), NEW file, NEW at \in Nat,
         Holds(file, at, WriteMhba(album))
  PROVE  ReadMhba(file, Context(at, Len(WriteMhba(album)))) = album
<1> DEFINE ids == album.ids
           name == album.name
           text == WriteText("album name", name)
           list == MemberChunks(album)
           flat == FlattenSeq(list)
           both == text \o flat
           len == Len(WriteMhba(album))
           ctx == Context(at, len)
           mhods == Children(file, ctx, 1, 1, "mhod")
           mhias == Children(file, ctx, 3, Len(list), "mhia").found
<1>1. /\ list \in Seq(Seq(Cells(D))) /\ Len(list) = Len(ids)
      /\ \A i \in 1 .. Len(ids) : Len(list[i]) = 1
      /\ AreChunks("mhia", list) /\ flat \in Seq(Cells(D))
      /\ text \in Seq(Cells(D)) /\ Len(text) = 2 /\ IsChunk("mhod", text)
      /\ both \in Seq(Cells(D))
      /\ WriteMhba(album) = Chunk("mhba", 1, Len(ids), both)
  BY AlbumShape
<1>2. ids \in Seq(D) /\ name \in D
  BY DEF AlbumsOf
<1>3. name \in Data(D) /\ "album name" \in Data(D) /\ "mhba" \in Words
  BY <1>2 DEF Data, Words
<1>4. Len(ids) \in Nat /\ Len(ids) \in Data(D)
  BY <1>2, LenProperties DEF Data
<1>5. album = [name |-> name, ids |-> ids]
  BY DEF AlbumsOf
<1>6. ReadMhba(file, ctx)
        = [name |-> TextOf(file, Children(file, ctx, 1, At(file, ctx).num, "mhod").found,
                           "album name"),
           ids  |-> LET m == Children(file, ctx,
                                      Children(file, ctx, 1, At(file, ctx).num, "mhod").next,
                                      At(file, ctx).data, "mhia").found
                    IN [i \in DOMAIN m |-> At(file, m[i]).data]]
  BY DEF ReadMhba
<1>7. \A i \in 1 .. Len(ids) : list[i] = WriteMhia(ids[i])
  BY DEF MemberChunks
<1> HIDE DEF ids, name, list
<1>8. Len(flat) \in Nat /\ Len(both) = 2 + Len(flat) /\ Len(both) \in Nat
  <2>1. flat \in Seq(Cells(D)) /\ text \in Seq(Cells(D)) /\ Len(text) = 2
    BY <1>1
  <2> HIDE DEF flat, text
  <2>2. Len(flat) \in Nat
    BY <2>1, LenProperties
  <2>3. Len(both) = Len(text) + Len(flat)
    BY <2>1, ConcatProperties
  <2> HIDE DEF both
  <2> QED BY <2>1, <2>2, <2>3
<1> HIDE DEF flat
<1>9. HeadIs(file[at], "mhba", 1 + Len(both), 1, Len(ids)) /\ Holds(file, at + 1, both)
  <2> HIDE DEF both, text
  <2>1. Holds(file, at, Chunk("mhba", 1, Len(ids), both))
    BY <1>1
  <2> QED BY <1>1, <1>3, <1>4, <2>1, HoldsChunk
<1>10. Holds(file, at + 1, text) /\ Holds(file, at + 3, flat)
  <2> HIDE DEF text
  <2>1. at + 1 \in Nat /\ (at + 1) + 2 = at + 3
    OBVIOUS
  <2>2. Holds(file, at + 1, text) /\ Holds(file, (at + 1) + Len(text), flat)
    BY <1>1, <1>9, <2>1, HoldsConcat
  <2> QED BY <1>1, <2>1, <2>2
<1>11. len = 3 + Len(flat) /\ len \in Nat
  <2> HIDE DEF both
  <2>1. \A n \in Data(D), c \in Seq(Cells(D)) : Len(Chunk("mhba", 1, n, c)) = 1 + Len(c)
    <3> SUFFICES ASSUME NEW n \in Data(D), NEW c \in Seq(Cells(D))
                 PROVE  Len(Chunk("mhba", 1, n, c)) = 1 + Len(c)
      OBVIOUS
    <3>1. "mhba" \in Words /\ 1 \in Nat
      BY <1>3
    <3> HIDE DEF len
    <3> QED BY <3>1, ChunkShape
  <2>2. len = 1 + Len(both)
    BY <1>1, <1>4, <2>1
  <2> QED BY <1>8, <2>2
<1> HIDE DEF text, both, len
<1>12. mhods.next = 3 /\ mhods.found = <<Context(at + 1, 2)>>
  <2>1. 1 + Len(text) <= len
    BY <1>1, <1>8, <1>11
  <2>2. Read(mhods, 1 + Len(text), <<Context(at + 1, Len(text))>>)
    BY <1>1, <1>10, <1>11, <2>1, OnlyChild
  <2> HIDE DEF mhods
  <2> QED BY <1>1, <2>2 DEF Read
<1>13. mhias = Contexts(at + 3, list)
  <2>1. 3 + Len(FlattenSeq(list)) <= len /\ Holds(file, at + 3, FlattenSeq(list))
    BY <1>8, <1>10, <1>11 DEF flat
  <2>2. Read(Children(file, ctx, 3, Len(list), "mhia"),
             3 + Len(FlattenSeq(list)), Contexts(at + 3, list))
    BY <1>1, <1>11, <2>1, ChildrenHeld
  <2> QED BY <2>2 DEF Read
<1>14. At(file, ctx).num = 1 /\ At(file, ctx).data = Len(list)
  BY <1>1, <1>9 DEF At, Context, HeadIs
<1>15. TextOf(file, mhods.found, "album name") = name
  <2>1. Holds(file, at + 1, WriteText("album name", name))
    BY <1>10 DEF text
  <2>0. at + 1 \in Nat
    OBVIOUS
  <2>2. TextOf(file, <<Context(at + 1, 2)>>, "album name") = name
    BY <1>3, <2>0, <2>1, TextRead
  <2> HIDE DEF mhods
  <2> QED BY <1>12, <2>2
<1> HIDE DEF ctx, mhods, mhias
<1>16. [i \in DOMAIN mhias |-> At(file, mhias[i]).data] = ids
  <2>1. DOMAIN mhias = 1 .. Len(ids)
    BY <1>1, <1>13 DEF Contexts
  <2>2. ASSUME NEW i \in 1 .. Len(ids) PROVE At(file, mhias[i]).data = ids[i]
    <3>1. mhias[i] = Context(at + 3 + Ends(list)[i - 1], Len(list[i]))
      BY <1>1, <1>13 DEF Contexts
    <3>2. Holds(file, at + 3 + Ends(list)[i - 1], list[i])
      <4>1. at + 3 \in Nat /\ Holds(file, at + 3, FlattenSeq(list))
        BY <1>10 DEF flat
      <4> QED BY <1>1, <4>1, HoldsFlat
    <3>3. at + 3 + Ends(list)[i - 1] \in Nat
      <4>1. i - 1 \in 0 .. Len(list)
        BY <1>1, <1>4
      <4>2. Ends(list)[i - 1] \in Nat
        BY <1>1, <4>1, EndsSum
      <4> QED BY <4>2
    <3>4. ids[i] \in D
      BY <1>2
    <3>5. file[at + 3 + Ends(list)[i - 1]].data = ids[i]
      BY <1>7, <3>2, <3>3, <3>4, MemberHead
    <3>6. mhias[i].at = at + 3 + Ends(list)[i - 1]
      BY <3>1 DEF Context
    <3> QED BY <3>5, <3>6 DEF At
  <2>3. ids = [i \in 1 .. Len(ids) |-> ids[i]]
    BY <1>2
  <2> QED BY <2>1, <2>2, <2>3
<1>17. ReadMhba(file, ctx) = [name |-> name, ids |-> ids]
  <2>1. Children(file, ctx, 1, At(file, ctx).num, "mhod") = mhods
    BY <1>14 DEF mhods
  <2>2. Children(file, ctx, mhods.next, At(file, ctx).data, "mhia").found = mhias
    BY <1>12, <1>14 DEF mhias
  <2> QED BY <1>6, <1>15, <1>16, <2>1, <2>2
<1> QED BY <1>5, <1>17 DEF ctx, len

(* The children of a list, behind the headers of the list.                 *)
LEMMA MhsdShape ==
  ASSUME NEW D, NEW type \in Nat, NEW tag \in Words, NEW num \in Nat,
         NEW children \in Seq(Cells(D))
  PROVE  /\ WriteMhsd(type, tag, num, children) \in Seq(Cells(D))
         /\ Len(WriteMhsd(type, tag, num, children)) = 2 + Len(children)
         /\ IsChunk("mhsd", WriteMhsd(type, tag, num, children))
         /\ <<Cell(tag, num, 0)>> \in Seq(Cells(D))
         /\ <<Cell(tag, num, 0)>> \o children \in Seq(Cells(D))
         /\ Len(<<Cell(tag, num, 0)>> \o children) = 1 + Len(children)
<1> DEFINE head == Cell(tag, num, 0)
           inner == <<head>> \o children
<1>1. head \in Cells(D)
  BY DEF Cell, Cells, Data
<1>2. WriteMhsd(type, tag, num, children) = Chunk("mhsd", 0, type, inner)
  BY DEF WriteMhsd
<1> HIDE DEF head
<1>3. <<head>> \in Seq(Cells(D)) /\ Len(<<head>>) = 1
  BY <1>1
<1>4. inner \in Seq(Cells(D)) /\ Len(inner) = 1 + Len(children)
  BY <1>3, ConcatProperties
<1>5. "mhsd" \in Words /\ type \in Data(D)
  BY DEF Words, Data
<1> HIDE DEF inner
<1>6. \A c \in Seq(Cells(D)) : /\ Chunk("mhsd", 0, type, c) \in Seq(Cells(D))
                               /\ IsChunk("mhsd", Chunk("mhsd", 0, type, c))
  BY <1>5, ChunkShape
<1>7. \A c \in Seq(Cells(D)) : Len(Chunk("mhsd", 0, type, c)) = 1 + Len(c)
  BY <1>5, ChunkShape
<1>8. Len(children) \in Nat
  BY LenProperties
<1>9. Len(WriteMhsd(type, tag, num, children)) = 2 + Len(children)
  BY <1>2, <1>4, <1>7, <1>8
<1> QED BY <1>2, <1>3, <1>4, <1>6, <1>9 DEF inner, head

LEMMA MhsdRead ==
  ASSUME NEW D, NEW type \in Nat, NEW tag \in Words, NEW child \in Words,
         NEW list \in Seq(Seq(Cells(D))), AreChunks(child, list), NEW file, NEW at \in Nat,
         Holds(file, at, WriteMhsd(type, tag, Len(list), FlattenSeq(list)))
  PROVE  /\ file[at].data = type
         /\ ReadMhsd(file, Context(at, 2 + Len(FlattenSeq(list))), tag, child)
              = Contexts(at + 2, list)
         /\ Holds(file, at + 2, FlattenSeq(list))
<1> DEFINE flat == FlattenSeq(list)
           head == Cell(tag, Len(list), 0)
           inner == <<head>> \o flat
           mhsd == Context(at, 2 + Len(flat))
           ctx == Context(at + 1, 1 + Len(flat))
<1>1. flat \in Seq(Cells(D)) /\ Len(flat) \in Nat /\ Len(list) \in Nat
  BY FlattenPlaces, LenProperties
<1>2. /\ <<head>> \in Seq(Cells(D)) /\ inner \in Seq(Cells(D)) /\ Len(inner) = 1 + Len(flat)
  <2> HIDE DEF flat
  <2> QED BY <1>1, MhsdShape
<1>3. head.tag = tag /\ head.num = Len(list)
  BY DEF Cell
<1>4. Holds(file, at, Chunk("mhsd", 0, type, inner))
  BY DEF WriteMhsd
<1>5. ReadMhsd(file, mhsd, tag, child)
        = LET l == Context(mhsd.at + 1, mhsd.len - 1)
          IN IF l.len = 0 \/ At(file, l).tag # tag THEN <<>>
             ELSE Children(file, l, 1, At(file, l).num, child).found
  BY DEF ReadMhsd
<1> HIDE DEF flat, head
<1>6. HeadIs(file[at], "mhsd", 1 + Len(inner), 0, type) /\ Holds(file, at + 1, inner)
  <2>1. "mhsd" \in Words /\ type \in Data(D)
    BY DEF Words, Data
  <2> HIDE DEF inner
  <2>2. \A c \in Seq(Cells(D)) : Holds(file, at, Chunk("mhsd", 0, type, c))
          => HeadIs(file[at], "mhsd", 1 + Len(c), 0, type) /\ Holds(file, at + 1, c)
    BY <2>1, HoldsChunk
  <2> QED BY <1>2, <1>4, <2>2
<1>7. Holds(file, at + 1, <<head>>) /\ Holds(file, at + 2, flat)
  <2>1. at + 1 \in Nat /\ (at + 1) + 1 = at + 2 /\ Len(<<head>>) = 1
    OBVIOUS
  <2>2. Holds(file, at + 1, <<head>>) /\ Holds(file, (at + 1) + Len(<<head>>), flat)
    BY <1>1, <1>2, <1>6, <2>1, HoldsConcat
  <2> QED BY <2>1, <2>2
<1> HIDE DEF inner
<1>8. file[at + 1] = head
  <2>1. 1 \in 1 .. Len(<<head>>) /\ (at + 1) + 1 - 1 = at + 1 /\ <<head>>[1] = head
    OBVIOUS
  <2>2. file[(at + 1) + 1 - 1] = <<head>>[1]
    BY <1>7, <2>1 DEF Holds
  <2> QED BY <2>1, <2>2
<1>9. Children(file, ctx, 1, Len(list), child).found = Contexts(at + 2, list)
  <2>1. at + 1 \in Nat /\ (at + 1) + 1 = at + 2 /\ 1 + Len(flat) \in Nat /\ 1 + Len(flat) <= 1 + Len(flat)
    BY <1>1
  <2>2. Read(Children(file, ctx, 1, Len(list), child),
             1 + Len(FlattenSeq(list)), Contexts((at + 1) + 1, list))
    <3>1. Holds(file, (at + 1) + 1, FlattenSeq(list))
      BY <1>7, <2>1 DEF flat
    <3>2. 1 + Len(FlattenSeq(list)) <= 1 + Len(flat)
      BY <2>1 DEF flat
    <3> QED BY <2>1, <3>1, <3>2, ChildrenHeld
  <2> QED BY <2>1, <2>2 DEF Read
<1>10. Context(mhsd.at + 1, mhsd.len - 1) = ctx
  <2>1. mhsd.at = at /\ mhsd.len = 2 + Len(flat)
    BY DEF Context
  <2>2. (2 + Len(flat)) - 1 = 1 + Len(flat)
    BY <1>1
  <2> QED BY <2>1, <2>2
<1>11. ctx.at = at + 1 /\ ctx.len # 0
  BY <1>1 DEF Context
<1> HIDE DEF ctx, mhsd
<1>12. ReadMhsd(file, mhsd, tag, child) = Contexts(at + 2, list)
  BY <1>3, <1>5, <1>8, <1>9, <1>10, <1>11 DEF At
<1>13. file[at].data = type
  BY <1>6 DEF HeadIs
<1> QED BY <1>7, <1>12, <1>13 DEF mhsd, flat

LEMMA ContextsSeq ==
  ASSUME NEW C, NEW list \in Seq(Seq(C)), NEW at \in Nat
  PROVE  /\ Contexts(at, list) \in Seq([at : Nat, len : Nat])
         /\ DOMAIN Contexts(at, list) = 1 .. Len(list)
<1>1. Len(list) \in Nat
  OBVIOUS
<1>2. ASSUME NEW n \in 1 .. Len(list)
      PROVE  Context(at + Ends(list)[n - 1], Len(list[n])) \in [at : Nat, len : Nat]
  <2>1. n - 1 \in 0 .. Len(list) /\ list[n] \in Seq(C)
    BY <1>1
  <2>2. Ends(list)[n - 1] \in Nat /\ Len(list[n]) \in Nat
    BY <2>1, EndsSum, LenProperties
  <2> QED BY <2>2 DEF Context
<1> QED BY <1>1, <1>2, IsASeq DEF Contexts

(* The images of the list are read back, and its albums.                   *)
LEMMA ImagesShape ==
  ASSUME NEW D, NEW images \in Seq(Images(D))
  PROVE  /\ ImageChunks(images) \in Seq(Seq(Cells(D)))
         /\ Len(ImageChunks(images)) = Len(images)
         /\ AreChunks("mhii", ImageChunks(images))
         /\ Each(WriteMhii, images) = FlattenSeq(ImageChunks(images))
<1> DEFINE list == ImageChunks(images)
<1>1. Len(images) \in Nat /\ DOMAIN images = 1 .. Len(images)
  OBVIOUS
<1>2. list = [i \in 1 .. Len(images) |-> WriteMhii(images[i])]
  BY DEF ImageChunks
<1>3. Each(WriteMhii, images) = FlattenSeq(list)
  BY <1>1 DEF Each, ImageChunks
<1> HIDE DEF list
<1>4. ASSUME NEW i \in 1 .. Len(images)
      PROVE  WriteMhii(images[i]) \in Seq(Cells(D)) /\ IsChunk("mhii", WriteMhii(images[i]))
  <2>1. images[i] \in Images(D)
    BY <1>1
  <2> QED BY <2>1, ImageShape
<1>5. list \in Seq(Seq(Cells(D))) /\ Len(list) = Len(images)
  BY <1>1, <1>2, <1>4, IsASeq
<1>6. AreChunks("mhii", list)
  BY <1>2, <1>4, <1>5 DEF AreChunks
<1> QED BY <1>3, <1>5, <1>6 DEF list

LEMMA ImagesRead ==
  ASSUME NEW D, NEW images \in Seq(Images(D)), \A i \in 1 .. Len(images) : HasFormats(images[i]),
         NEW file, NEW at \in Nat, Holds(file, at, FlattenSeq(ImageChunks(images)))
  PROVE  LET found == Contexts(at, ImageChunks(images))
         IN [i \in DOMAIN found |-> ReadMhii(file, found[i])] = images
<1> DEFINE list == ImageChunks(images)
           found == Contexts(at, list)
<1>1. Len(images) \in Nat /\ images = [i \in 1 .. Len(images) |-> images[i]]
  OBVIOUS
<1>2. list \in Seq(Seq(Cells(D))) /\ Len(list) = Len(images)
  BY ImagesShape
<1>3. \A i \in 1 .. Len(images) : list[i] = WriteMhii(images[i])
  BY DEF ImageChunks
<1> HIDE DEF list
<1>4. DOMAIN found = 1 .. Len(images)
  BY <1>2, ContextsSeq
<1>5. ASSUME NEW i \in 1 .. Len(images) PROVE ReadMhii(file, found[i]) = images[i]
  <2>1. found[i] = Context(at + Ends(list)[i - 1], Len(list[i]))
    BY <1>2 DEF Contexts
  <2>2. Holds(file, at + Ends(list)[i - 1], list[i])
    <3>1. Holds(file, at, FlattenSeq(list))
      BY DEF list
    <3> QED BY <1>2, <3>1, HoldsFlat
  <2>3. at + Ends(list)[i - 1] \in Nat
    <3>1. i - 1 \in 0 .. Len(list)
      BY <1>1, <1>2
    <3>2. Ends(list)[i - 1] \in Nat
      BY <1>2, <3>1, EndsSum
    <3> QED BY <3>2
  <2>4. images[i] \in Images(D) /\ HasFormats(images[i])
    BY <1>1
  <2> QED BY <1>3, <2>1, <2>2, <2>3, <2>4, ImageRead
<1> HIDE DEF found
<1>6. [i \in DOMAIN found |-> ReadMhii(file, found[i])] = images
  BY <1>1, <1>4, <1>5
<1> QED BY <1>6 DEF found, list

LEMMA AlbumsShape ==
  ASSUME NEW D, NEW shown \in Seq(AlbumsOf(D))
  PROVE  /\ AlbumChunks(shown) \in Seq(Seq(Cells(D)))
         /\ Len(AlbumChunks(shown)) = Len(shown)
         /\ AreChunks("mhba", AlbumChunks(shown))
         /\ Each(WriteMhba, shown) = FlattenSeq(AlbumChunks(shown))
<1> DEFINE list == AlbumChunks(shown)
<1>1. Len(shown) \in Nat /\ DOMAIN shown = 1 .. Len(shown)
  OBVIOUS
<1>2. list = [i \in 1 .. Len(shown) |-> WriteMhba(shown[i])]
  BY DEF AlbumChunks
<1>3. Each(WriteMhba, shown) = FlattenSeq(list)
  BY <1>1 DEF Each, AlbumChunks
<1> HIDE DEF list
<1>4. ASSUME NEW i \in 1 .. Len(shown)
      PROVE  WriteMhba(shown[i]) \in Seq(Cells(D)) /\ IsChunk("mhba", WriteMhba(shown[i]))
  <2>1. shown[i] \in AlbumsOf(D)
    BY <1>1
  <2> QED BY <2>1, AlbumShape
<1>5. list \in Seq(Seq(Cells(D))) /\ Len(list) = Len(shown)
  BY <1>1, <1>2, <1>4, IsASeq
<1>6. AreChunks("mhba", list)
  BY <1>2, <1>4, <1>5 DEF AreChunks
<1> QED BY <1>3, <1>5, <1>6 DEF list

LEMMA AlbumsRead ==
  ASSUME NEW D, NEW shown \in Seq(AlbumsOf(D)),
         NEW file, NEW at \in Nat, Holds(file, at, FlattenSeq(AlbumChunks(shown)))
  PROVE  LET found == Contexts(at, AlbumChunks(shown))
         IN [i \in DOMAIN found |-> ReadMhba(file, found[i])] = shown
<1> DEFINE list == AlbumChunks(shown)
           found == Contexts(at, list)
<1>1. Len(shown) \in Nat /\ shown = [i \in 1 .. Len(shown) |-> shown[i]]
  OBVIOUS
<1>2. list \in Seq(Seq(Cells(D))) /\ Len(list) = Len(shown)
  BY AlbumsShape
<1>3. \A i \in 1 .. Len(shown) : list[i] = WriteMhba(shown[i])
  BY DEF AlbumChunks
<1> HIDE DEF list
<1>4. DOMAIN found = 1 .. Len(shown)
  BY <1>2, ContextsSeq
<1>5. ASSUME NEW i \in 1 .. Len(shown) PROVE ReadMhba(file, found[i]) = shown[i]
  <2>1. found[i] = Context(at + Ends(list)[i - 1], Len(list[i]))
    BY <1>2 DEF Contexts
  <2>2. Holds(file, at + Ends(list)[i - 1], list[i])
    <3>1. Holds(file, at, FlattenSeq(list))
      BY DEF list
    <3> QED BY <1>2, <3>1, HoldsFlat
  <2>3. at + Ends(list)[i - 1] \in Nat
    <3>1. i - 1 \in 0 .. Len(list)
      BY <1>1, <1>2
    <3>2. Ends(list)[i - 1] \in Nat
      BY <1>2, <3>1, EndsSum
    <3> QED BY <3>2
  <2>4. shown[i] \in AlbumsOf(D)
    BY <1>1
  <2> QED BY <1>3, <2>1, <2>2, <2>3, <2>4, AlbumRead
<1> HIDE DEF found
<1>6. [i \in DOMAIN found |-> ReadMhba(file, found[i])] = shown
  BY <1>1, <1>4, <1>5
<1> QED BY <1>6 DEF found, list

LEMMA FormatsShape ==
  ASSUME NEW D, Formats \in Seq(D)
  PROVE  /\ FormatChunks \in Seq(Seq(Cells(D))) /\ Len(FormatChunks) = Len(Formats)
         /\ Each(WriteMhif, Formats) = FlattenSeq(FormatChunks)
         /\ FlattenSeq(FormatChunks) \in Seq(Cells(D))
<1>1. Len(Formats) \in Nat /\ DOMAIN Formats = 1 .. Len(Formats)
  OBVIOUS
<1>2. Each(WriteMhif, Formats) = FlattenSeq(FormatChunks)
  BY <1>1 DEF Each, FormatChunks
<1>3. ASSUME NEW i \in 1 .. Len(Formats) PROVE WriteMhif(Formats[i]) \in Seq(Cells(D))
  <2>0. Formats[i] \in D
    OBVIOUS
  <2>1. Formats[i] \in Data(D) /\ <<>> \in Seq(Cells(D))
    BY <2>0 DEF Data
  <2>3. "mhif" \in Words
    BY DEF Words
  <2>2. \A c \in Seq(Cells(D)) : Chunk("mhif", 0, Formats[i], c) \in Seq(Cells(D))
    BY <2>1, <2>3, ChunkShape
  <2> QED BY <2>1, <2>2 DEF WriteMhif
<1>4. FormatChunks \in Seq(Seq(Cells(D))) /\ Len(FormatChunks) = Len(Formats)
  BY <1>1, <1>3, IsASeq DEF FormatChunks
<1> QED BY <1>2, <1>4, FlattenPlaces

(* The one of three chunks that a set has.                                 *)
LEMMA OnlyOneOfThree ==
  ASSUME NEW C, NEW list \in Seq(C), Len(list) = 3, NEW S, NEW k \in 1 .. 3,
         \A i \in 1 .. 3 : list[i] \in S <=> i = k
  PROVE  Only(list, S) = <<list[k]>>
<1>1. PICK f : /\ f = [n \in 0 .. Len(list) |->
                         IF n = 0 THEN <<>>
                         ELSE IF list[n] \in S THEN Append(f[n - 1], list[n]) ELSE f[n - 1]]
               /\ Only(list, S) = f[Len(list)]
  BY OnlySteps
<1>2. \A n \in 0 .. 3 : f[n] = IF n = 0 THEN <<>>
                               ELSE IF list[n] \in S THEN Append(f[n - 1], list[n]) ELSE f[n - 1]
  BY <1>1
<1>3. /\ 1 \in 1 .. 3 /\ 2 \in 1 .. 3 /\ 3 \in 1 .. 3
      /\ 0 \in 0 .. 3 /\ 1 \in 0 .. 3 /\ 2 \in 0 .. 3 /\ 3 \in 0 .. 3
      /\ 1 # 0 /\ 2 # 0 /\ 3 # 0 /\ 1 - 1 = 0 /\ 2 - 1 = 1 /\ 3 - 1 = 2
  OBVIOUS
<1>4. /\ f[0] = <<>>
      /\ f[1] = IF list[1] \in S THEN Append(f[0], list[1]) ELSE f[0]
      /\ f[2] = IF list[2] \in S THEN Append(f[1], list[2]) ELSE f[1]
      /\ f[3] = IF list[3] \in S THEN Append(f[2], list[3]) ELSE f[2]
  <2>1. f[0] = <<>>
    BY <1>2, <1>3
  <2>2. f[1] = IF list[1] \in S THEN Append(f[1 - 1], list[1]) ELSE f[1 - 1]
    BY <1>2, <1>3
  <2>3. f[2] = IF list[2] \in S THEN Append(f[2 - 1], list[2]) ELSE f[2 - 1]
    BY <1>2, <1>3
  <2>4. f[3] = IF list[3] \in S THEN Append(f[3 - 1], list[3]) ELSE f[3 - 1]
    BY <1>2, <1>3
  <2> QED BY <1>3, <2>1, <2>2, <2>3, <2>4
<1>5. \A x : Append(<<>>, x) = <<x>>
  OBVIOUS
<1>6. f[3] = <<list[k]>>
  <2>1. CASE k = 1
    <3>1. list[1] \in S /\ list[2] \notin S /\ list[3] \notin S
      BY <1>3, <2>1
    <3> QED BY <1>4, <1>5, <2>1, <3>1
  <2>2. CASE k = 2
    <3>1. list[1] \notin S /\ list[2] \in S /\ list[3] \notin S
      BY <1>3, <2>2
    <3> QED BY <1>4, <1>5, <2>2, <3>1
  <2>3. CASE k = 3
    <3>1. list[1] \notin S /\ list[2] \notin S /\ list[3] \in S
      BY <1>3, <2>3
    <3> QED BY <1>4, <1>5, <2>3, <3>1
  <2> QED BY <2>1, <2>2, <2>3
<1> QED BY <1>1, <1>6

LEMMA MhsdLength ==
  ASSUME NEW D, NEW type \in Nat, NEW tag \in Words, NEW num \in Nat,
         NEW children \in Seq(Cells(D))
  PROVE  Len(WriteMhsd(type, tag, num, children)) = 2 + Len(children)
BY MhsdShape

(* The three lists of a database, in the file behind the header.           *)
LEMMA RootShape ==
  ASSUME NEW D, Formats \in Seq(D), NEW images \in Seq(Images(D)), NEW shown \in Seq(AlbumsOf(D))
  PROVE  LET mhli == WriteMhli(images)
             mhla == WriteMhla(shown)
             flat == (mhli \o mhla) \o WriteMhlf
         IN /\ mhli \in Seq(Cells(D)) /\ IsChunk("mhsd", mhli)
            /\ mhla \in Seq(Cells(D)) /\ IsChunk("mhsd", mhla)
            /\ WriteMhlf \in Seq(Cells(D)) /\ IsChunk("mhsd", WriteMhlf)
            /\ mhli = WriteMhsd(1, "mhli", Len(ImageChunks(images)), FlattenSeq(ImageChunks(images)))
            /\ mhla = WriteMhsd(2, "mhla", Len(AlbumChunks(shown)), FlattenSeq(AlbumChunks(shown)))
            /\ WriteMhlf = WriteMhsd(3, "mhlf", Len(FormatChunks), FlattenSeq(FormatChunks))
            /\ Len(mhli) = 2 + Len(FlattenSeq(ImageChunks(images)))
            /\ Len(mhla) = 2 + Len(FlattenSeq(AlbumChunks(shown)))
            /\ flat \in Seq(Cells(D))
            /\ WriteMhfd(images, shown) = Chunk("mhfd", 3, 0, flat)
            /\ FlattenSeq(<<mhli, mhla, WriteMhlf>>) = flat
<1> DEFINE mhli == WriteMhli(images)
           mhla == WriteMhla(shown)
           flat == (mhli \o mhla) \o WriteMhlf
<1>1. "mhli" \in Words /\ "mhla" \in Words /\ "mhlf" \in Words
  BY DEF Words
<1>2. mhli = WriteMhsd(1, "mhli", Len(ImageChunks(images)), FlattenSeq(ImageChunks(images)))
  BY ImagesShape DEF WriteMhli
<1>3. mhla = WriteMhsd(2, "mhla", Len(AlbumChunks(shown)), FlattenSeq(AlbumChunks(shown)))
  BY AlbumsShape DEF WriteMhla
<1>4. WriteMhlf = WriteMhsd(3, "mhlf", Len(FormatChunks), FlattenSeq(FormatChunks))
  BY FormatsShape DEF WriteMhlf
<1>5. \A type \in Nat, tag \in Words, num \in Nat, c \in Seq(Cells(D)) :
        /\ WriteMhsd(type, tag, num, c) \in Seq(Cells(D))
        /\ IsChunk("mhsd", WriteMhsd(type, tag, num, c))
  BY MhsdShape
<1>6. \A type \in Nat, tag \in Words, num \in Nat, c \in Seq(Cells(D)) :
        Len(WriteMhsd(type, tag, num, c)) = 2 + Len(c)
  <2> SUFFICES ASSUME NEW type \in Nat, NEW tag \in Words, NEW num \in Nat,
                      NEW c \in Seq(Cells(D))
               PROVE  Len(WriteMhsd(type, tag, num, c)) = 2 + Len(c)
    OBVIOUS
  <2> QED BY MhsdLength
<1>7. /\ FlattenSeq(ImageChunks(images)) \in Seq(Cells(D)) /\ Len(ImageChunks(images)) \in Nat
      /\ FlattenSeq(AlbumChunks(shown)) \in Seq(Cells(D)) /\ Len(AlbumChunks(shown)) \in Nat
      /\ FlattenSeq(FormatChunks) \in Seq(Cells(D)) /\ Len(FormatChunks) \in Nat
  <2>1. ImageChunks(images) \in Seq(Seq(Cells(D)))
    BY ImagesShape
  <2>2. AlbumChunks(shown) \in Seq(Seq(Cells(D)))
    BY AlbumsShape
  <2>3. FormatChunks \in Seq(Seq(Cells(D)))
    BY FormatsShape
  <2> QED BY <2>1, <2>2, <2>3, FlattenPlaces, LenProperties
<1>8. mhli \in Seq(Cells(D)) /\ IsChunk("mhsd", mhli)
  BY <1>1, <1>2, <1>5, <1>7
<1>9. mhla \in Seq(Cells(D)) /\ IsChunk("mhsd", mhla)
  BY <1>1, <1>3, <1>5, <1>7
<1>10. WriteMhlf \in Seq(Cells(D)) /\ IsChunk("mhsd", WriteMhlf)
  BY <1>1, <1>4, <1>5, <1>7
<1>11. Len(mhli) = 2 + Len(FlattenSeq(ImageChunks(images)))
  BY <1>1, <1>2, <1>6, <1>7
<1>12. Len(mhla) = 2 + Len(FlattenSeq(AlbumChunks(shown)))
  BY <1>1, <1>3, <1>6, <1>7
<1>13. WriteMhfd(images, shown) = Chunk("mhfd", 3, 0, mhli \o mhla \o WriteMhlf)
  BY DEF WriteMhfd
<1> HIDE DEF mhli, mhla
<1>14. flat \in Seq(Cells(D)) /\ FlattenSeq(<<mhli, mhla, WriteMhlf>>) = flat
  <2>1. mhli \o mhla \in Seq(Cells(D))
    BY <1>8, <1>9, ConcatProperties
  <2>2. flat \in Seq(Cells(D))
    BY <1>10, <2>1, ConcatProperties
  <2>3. FlattenSeq(<<mhli, mhla, WriteMhlf>>) = (mhli \o mhla) \o WriteMhlf
    <3> DEFINE list == <<mhli, mhla, WriteMhlf>>
    <3>1. list \in Seq(Seq(Cells(D))) /\ Len(list) = 3
      BY <1>8, <1>9, <1>10
    <3>2. list[1] = mhli /\ list[2] = mhla /\ list[3] = WriteMhlf
      OBVIOUS
    <3> HIDE DEF flat, list
    <3>3. FlattenSeq(list) = (list[1] \o list[2]) \o list[3]
      BY <3>1, FlattenThree
    <3> QED BY <3>2, <3>3 DEF list
  <2> QED BY <2>2, <2>3
<1>15. WriteMhfd(images, shown) = Chunk("mhfd", 3, 0, flat)
  BY <1>13
<1> HIDE DEF flat
<1> QED BY <1>2, <1>3, <1>4, <1>8, <1>9, <1>10, <1>11, <1>12, <1>14, <1>15 DEF flat, mhli, mhla

(* Where a file that was written has its three lists.                      *)
LEMMA RootRead ==
  ASSUME NEW D, Formats \in Seq(D), NEW images \in Seq(Images(D)), NEW shown \in Seq(AlbumsOf(D)),
         NEW file, file = WriteMhfd(images, shown)
  PROVE  LET mhli == WriteMhli(images)
             mhla == WriteMhla(shown)
             list == <<mhli, mhla, WriteMhlf>>
         IN /\ file[1].len = Len(file)
            /\ Children(file, Context(1, Len(file)), 1, file[1].num, "mhsd").found
                 = Contexts(2, list)
            /\ list \in Seq(Seq(Cells(D))) /\ Len(list) = 3
            /\ \A i \in 1 .. 3 : Holds(file, 2 + Ends(list)[i - 1], list[i])
<1> DEFINE mhli == WriteMhli(images)
           mhla == WriteMhla(shown)
           list == <<mhli, mhla, WriteMhlf>>
           flat == (mhli \o mhla) \o WriteMhlf
<1>1. /\ mhli \in Seq(Cells(D)) /\ IsChunk("mhsd", mhli)
      /\ mhla \in Seq(Cells(D)) /\ IsChunk("mhsd", mhla)
      /\ WriteMhlf \in Seq(Cells(D)) /\ IsChunk("mhsd", WriteMhlf)
      /\ flat \in Seq(Cells(D)) /\ FlattenSeq(list) = flat
      /\ file = Chunk("mhfd", 3, 0, flat)
  BY RootShape
<1> HIDE DEF mhli, mhla, flat
<1>2. list \in Seq(Seq(Cells(D))) /\ Len(list) = 3
  BY <1>1
<1>3. AreChunks("mhsd", list)
  <2>1. list[1] = mhli /\ list[2] = mhla /\ list[3] = WriteMhlf
    OBVIOUS
  <2> HIDE DEF list
  <2>2. \A i \in 1 .. 3 : i = 1 \/ i = 2 \/ i = 3
    OBVIOUS
  <2> QED BY <1>1, <1>2, <2>1, <2>2 DEF AreChunks
<1> HIDE DEF list
<1>4. "mhfd" \in Words /\ 0 \in Data(D)
  BY DEF Words, Data
<1>5. Len(flat) \in Nat /\ Len(file) = 1 + Len(flat)
  <2>1. Len(flat) \in Nat
    BY <1>1, LenProperties
  <2>2. \A c \in Seq(Cells(D)), d \in Data(D) : Len(Chunk("mhfd", 3, d, c)) = 1 + Len(c)
    BY <1>4, ChunkShape
  <2> QED BY <1>1, <1>4, <2>1, <2>2
<1>6. HeadIs(file[1], "mhfd", 1 + Len(flat), 3, 0) /\ Holds(file, 2, flat)
  <2>1. Holds(file, 1, file)
    <3>1. \A i \in 1 .. Len(file) : 1 + i - 1 = i
      BY <1>5
    <3> QED BY <3>1 DEF Holds
  <2>2. \A c \in Seq(Cells(D)), d \in Data(D) : Holds(file, 1, Chunk("mhfd", 3, d, c))
          => HeadIs(file[1], "mhfd", 1 + Len(c), 3, d) /\ Holds(file, 1 + 1, c)
    BY <1>4, HoldsChunk
  <2>3. 1 + 1 = 2
    OBVIOUS
  <2> QED BY <1>1, <1>4, <2>1, <2>2, <2>3
<1>7. file[1].len = Len(file) /\ file[1].num = 3
  BY <1>5, <1>6 DEF HeadIs
<1>8. Children(file, Context(1, Len(file)), 1, 3, "mhsd").found = Contexts(2, list)
  <2>1. 1 + 1 = 2 /\ 1 + Len(flat) <= Len(file) /\ Len(file) \in Nat
    BY <1>5
  <2>2. Holds(file, 1 + 1, FlattenSeq(list)) /\ 1 + Len(FlattenSeq(list)) <= Len(file)
    BY <1>1, <1>6, <2>1
  <2>3. Read(Children(file, Context(1, Len(file)), 1, Len(list), "mhsd"),
             1 + Len(FlattenSeq(list)), Contexts(1 + 1, list))
    BY <1>2, <1>3, <2>1, <2>2, ChildrenHeld
  <2> QED BY <1>2, <2>1, <2>3 DEF Read
<1>9. ASSUME NEW i \in 1 .. 3 PROVE Holds(file, 2 + Ends(list)[i - 1], list[i])
  <2>1. Holds(file, 2, FlattenSeq(list))
    BY <1>1, <1>6
  <2> QED BY <1>2, <2>1, HoldsFlat
<1> QED BY <1>2, <1>7, <1>8, <1>9 DEF list, mhli, mhla

(* One list of the file, as it is found.                                   *)
LEMMA ListRead ==
  ASSUME NEW D, Formats \in Seq(D), NEW images \in Seq(Images(D)), NEW shown \in Seq(AlbumsOf(D)),
         NEW file, file = WriteMhfd(images, shown), NEW k \in {1, 2}
  PROVE  LET mhsds == Contexts(2, <<WriteMhli(images), WriteMhla(shown), WriteMhlf>>)
         IN \E at \in Nat :
              /\ Only(mhsds, {m \in ToSet(mhsds) : At(file, m).data = k})
                   = <<Context(at, Len(IF k = 1 THEN WriteMhli(images) ELSE WriteMhla(shown)))>>
              /\ Holds(file, at, IF k = 1 THEN WriteMhli(images) ELSE WriteMhla(shown))
<1> DEFINE mhli == WriteMhli(images)
           mhla == WriteMhla(shown)
           list == <<mhli, mhla, WriteMhlf>>
           mhsds == Contexts(2, list)
           place(i) == 2 + Ends(list)[i - 1]
<1>1. list \in Seq(Seq(Cells(D))) /\ Len(list) = 3
  BY RootRead
<1>2. \A i \in 1 .. 3 : Holds(file, place(i), list[i])
  BY RootRead
<1>3. list[1] = mhli /\ list[2] = mhla /\ list[3] = WriteMhlf
  OBVIOUS
<1>4. /\ mhli = WriteMhsd(1, "mhli", Len(ImageChunks(images)), FlattenSeq(ImageChunks(images)))
      /\ mhla = WriteMhsd(2, "mhla", Len(AlbumChunks(shown)), FlattenSeq(AlbumChunks(shown)))
      /\ WriteMhlf = WriteMhsd(3, "mhlf", Len(FormatChunks), FlattenSeq(FormatChunks))
  BY RootShape
<1> HIDE DEF mhli, mhla, list
<1>5. ASSUME NEW i \in 1 .. 3 PROVE place(i) \in Nat
  <2>1. i - 1 \in 0 .. Len(list)
    BY <1>1
  <2>2. Ends(list)[i - 1] \in Nat
    BY <1>1, <2>1, EndsSum
  <2> QED BY <2>2
<1>6. mhsds \in Seq([at : Nat, len : Nat]) /\ DOMAIN mhsds = 1 .. 3 /\ Len(mhsds) = 3
  <2>1. mhsds \in Seq([at : Nat, len : Nat]) /\ DOMAIN mhsds = 1 .. 3
    BY <1>1, ContextsSeq
  <2> HIDE DEF mhsds
  <2> QED BY <2>1
<1>7. \A i \in 1 .. 3 : mhsds[i] = Context(place(i), Len(list[i]))
  BY <1>1 DEF Contexts
<1> HIDE DEF mhsds, place
<1>8. ASSUME NEW i \in 1 .. 3 PROVE file[place(i)].data = i
  <2> DEFINE inner(tag, num, c) == <<Cell(tag, num, 0)>> \o c
  <2>1. "mhli" \in Words /\ "mhla" \in Words /\ "mhlf" \in Words /\ "mhsd" \in Words
    BY DEF Words
  <2>2. /\ FlattenSeq(ImageChunks(images)) \in Seq(Cells(D)) /\ Len(ImageChunks(images)) \in Nat
        /\ FlattenSeq(AlbumChunks(shown)) \in Seq(Cells(D)) /\ Len(AlbumChunks(shown)) \in Nat
        /\ FlattenSeq(FormatChunks) \in Seq(Cells(D)) /\ Len(FormatChunks) \in Nat
    <3>1. ImageChunks(images) \in Seq(Seq(Cells(D)))
      BY ImagesShape
    <3>2. AlbumChunks(shown) \in Seq(Seq(Cells(D)))
      BY AlbumsShape
    <3>3. FormatChunks \in Seq(Seq(Cells(D)))
      BY FormatsShape
    <3> QED BY <3>1, <3>2, <3>3, FlattenPlaces, LenProperties
  <2>3. ASSUME NEW tag \in Words, NEW num \in Nat, NEW c \in Seq(Cells(D)), NEW at \in Nat,
               Holds(file, at, WriteMhsd(i, tag, num, c))
        PROVE  file[at].data = i
    <3>1. Holds(file, at, Chunk("mhsd", 0, i, inner(tag, num, c))) /\ i \in Data(D)
      BY <2>3 DEF WriteMhsd, Data
    <3>2. i \in Nat
      OBVIOUS
    <3>3. inner(tag, num, c) \in Seq(Cells(D))
      BY <3>2, MhsdShape
    <3> HIDE DEF inner
    <3>4. HeadIs(file[at], "mhsd", 1 + Len(inner(tag, num, c)), 0, i)
      BY <2>1, <3>1, <3>3, HoldsChunk
    <3> QED BY <3>4 DEF HeadIs
  <2>4. Holds(file, place(i), list[i]) /\ place(i) \in Nat
    BY <1>2, <1>5
  <2>5. i = 1 \/ i = 2 \/ i = 3
    OBVIOUS
  <2> QED BY <1>3, <1>4, <2>1, <2>2, <2>3, <2>4, <2>5
<1> DEFINE S == {m \in ToSet(mhsds) : At(file, m).data = k}
<1>9. \A i \in 1 .. 3 : mhsds[i] \in S <=> i = k
  <2> SUFFICES ASSUME NEW i \in 1 .. 3 PROVE mhsds[i] \in S <=> i = k
    OBVIOUS
  <2>1. mhsds[i] \in ToSet(mhsds)
    BY <1>6 DEF ToSet
  <2>2. mhsds[i].at = place(i)
    BY <1>7 DEF Context
  <2>3. At(file, mhsds[i]).data = i
    BY <1>8, <2>2 DEF At
  <2> QED BY <2>1, <2>3
<1> HIDE DEF S
<1>10. k \in 1 .. 3
  OBVIOUS
<1>11. Only(mhsds, S) = <<mhsds[k]>>
  BY <1>6, <1>9, <1>10, OnlyOneOfThree
<1> DEFINE here == IF k = 1 THEN mhli ELSE mhla
<1>12. list[k] = here
  BY <1>3
<1>13. Only(mhsds, S) = <<Context(place(k), Len(here))>> /\ Holds(file, place(k), here)
  BY <1>2, <1>7, <1>10, <1>11, <1>12 DEF place
<1>14. place(k) \in Nat
  BY <1>5, <1>10
<1>15. \E at \in Nat : Only(mhsds, S) = <<Context(at, Len(here))>> /\ Holds(file, at, here)
  <2> HIDE DEF here
  <2> QED BY <1>13, <1>14
<1> QED BY <1>15 DEF here, S, mhsds, list, mhli, mhla

(* What WriteMhfd writes, ReadMhfd reads: every photo and every album,     *)
(* with its thumbnails, or its members, in their order.                    *)
THEOREM PhotoDatabaseReadsBack ==
  ASSUME NEW D, Formats \in Seq(D), NEW images \in Seq(Images(D)), NEW shown \in Seq(AlbumsOf(D)),
         \A i \in 1 .. Len(images) : HasFormats(images[i])
  PROVE  ReadMhfd(WriteMhfd(images, shown)) = [images |-> images, albums |-> shown]
<1> DEFINE file == WriteMhfd(images, shown)
           mhsds == Contexts(2, <<WriteMhli(images), WriteMhla(shown), WriteMhlf>>)
           of(type) == Only(mhsds, {m \in ToSet(mhsds) : At(file, m).data = type})
           ilist == ImageChunks(images)
           alist == AlbumChunks(shown)
<1>1. /\ file[1].len = Len(file)
      /\ Children(file, Context(1, Len(file)), 1, file[1].num, "mhsd").found = mhsds
  BY RootRead
<1>2. PICK at \in Nat : /\ of(1) = <<Context(at, Len(WriteMhli(images)))>>
                        /\ Holds(file, at, WriteMhli(images))
  BY ListRead
<1>3. PICK behind \in Nat : /\ of(2) = <<Context(behind, Len(WriteMhla(shown)))>>
                            /\ Holds(file, behind, WriteMhla(shown))
  <2> DEFINE mhla == WriteMhla(shown)
             here == IF 2 = 1 THEN WriteMhli(images) ELSE mhla
  <2>1. \E b \in Nat : of(2) = <<Context(b, Len(here))>> /\ Holds(file, b, here)
    BY ListRead
  <2>2. here = mhla
    OBVIOUS
  <2> HIDE DEF here, of, file
  <2> QED BY <2>1, <2>2
<1>4. /\ WriteMhli(images) = WriteMhsd(1, "mhli", Len(ilist), FlattenSeq(ilist))
      /\ WriteMhla(shown) = WriteMhsd(2, "mhla", Len(alist), FlattenSeq(alist))
      /\ Len(WriteMhli(images)) = 2 + Len(FlattenSeq(ilist))
      /\ Len(WriteMhla(shown)) = 2 + Len(FlattenSeq(alist))
  BY RootShape
<1>5. ilist \in Seq(Seq(Cells(D))) /\ AreChunks("mhii", ilist)
  BY ImagesShape
<1>6. alist \in Seq(Seq(Cells(D))) /\ AreChunks("mhba", alist)
  BY AlbumsShape
<1>7. "mhli" \in Words /\ "mhla" \in Words /\ "mhii" \in Words /\ "mhba" \in Words
  BY DEF Words
<1> DEFINE readImages == Each(LAMBDA m : ReadMhsd(file, m, "mhli", "mhii"), of(1))
           readAlbums == Each(LAMBDA m : ReadMhsd(file, m, "mhla", "mhba"), of(2))
<1>8. ReadMhfd(file) = [images |-> [i \in DOMAIN readImages |-> ReadMhii(file, readImages[i])],
                        albums |-> [i \in DOMAIN readAlbums |-> ReadMhba(file, readAlbums[i])]]
  BY <1>1 DEF ReadMhfd
<1> HIDE DEF file, of, ilist, alist
<1>9. /\ ReadMhsd(file, Context(at, Len(WriteMhli(images))), "mhli", "mhii") = Contexts(at + 2, ilist)
      /\ Holds(file, at + 2, FlattenSeq(ilist))
  <2>1. Holds(file, at, WriteMhsd(1, "mhli", Len(ilist), FlattenSeq(ilist)))
    BY <1>2, <1>4
  <2>2. /\ ReadMhsd(file, Context(at, 2 + Len(FlattenSeq(ilist))), "mhli", "mhii")
             = Contexts(at + 2, ilist)
        /\ Holds(file, at + 2, FlattenSeq(ilist))
    <3> HIDE DEF readImages, readAlbums, mhsds
    <3>1. \A type \in Nat, tag \in Words, child \in Words :
             AreChunks(child, ilist)
             /\ Holds(file, at, WriteMhsd(type, tag, Len(ilist), FlattenSeq(ilist)))
             => /\ ReadMhsd(file, Context(at, 2 + Len(FlattenSeq(ilist))), tag, child)
                     = Contexts(at + 2, ilist)
                /\ Holds(file, at + 2, FlattenSeq(ilist))
      <4> SUFFICES ASSUME NEW type \in Nat, NEW tag \in Words, NEW child \in Words, AreChunks(child, ilist),
                          Holds(file, at, WriteMhsd(type, tag, Len(ilist), FlattenSeq(ilist)))
                   PROVE  /\ ReadMhsd(file, Context(at, 2 + Len(FlattenSeq(ilist))), tag, child)
                               = Contexts(at + 2, ilist)
                          /\ Holds(file, at + 2, FlattenSeq(ilist))
        OBVIOUS
      <4>1. ilist \in Seq(Seq(Cells(D)))
        BY <1>5
      <4> QED BY <4>1, MhsdRead
    <3> QED BY <1>5, <1>7, <2>1, <3>1
  <2> QED BY <1>4, <2>2
<1>10. /\ ReadMhsd(file, Context(behind, Len(WriteMhla(shown))), "mhla", "mhba")
            = Contexts(behind + 2, alist)
       /\ Holds(file, behind + 2, FlattenSeq(alist))
  <2>1. Holds(file, behind, WriteMhsd(2, "mhla", Len(alist), FlattenSeq(alist)))
    BY <1>3, <1>4
  <2>2. /\ ReadMhsd(file, Context(behind, 2 + Len(FlattenSeq(alist))), "mhla", "mhba")
             = Contexts(behind + 2, alist)
        /\ Holds(file, behind + 2, FlattenSeq(alist))
    <3> HIDE DEF readImages, readAlbums, mhsds
    <3>1. \A type \in Nat, tag \in Words, child \in Words :
             AreChunks(child, alist)
             /\ Holds(file, behind, WriteMhsd(type, tag, Len(alist), FlattenSeq(alist)))
             => /\ ReadMhsd(file, Context(behind, 2 + Len(FlattenSeq(alist))), tag, child)
                     = Contexts(behind + 2, alist)
                /\ Holds(file, behind + 2, FlattenSeq(alist))
      <4> SUFFICES ASSUME NEW type \in Nat, NEW tag \in Words, NEW child \in Words, AreChunks(child, alist),
                          Holds(file, behind, WriteMhsd(type, tag, Len(alist), FlattenSeq(alist)))
                   PROVE  /\ ReadMhsd(file, Context(behind, 2 + Len(FlattenSeq(alist))), tag, child)
                               = Contexts(behind + 2, alist)
                          /\ Holds(file, behind + 2, FlattenSeq(alist))
        OBVIOUS
      <4>1. alist \in Seq(Seq(Cells(D)))
        BY <1>6
      <4> QED BY <4>1, MhsdRead
    <3> QED BY <1>6, <1>7, <2>1, <3>1
  <2> QED BY <1>4, <2>2
<1>11. readImages = Contexts(at + 2, ilist)
  <2> DEFINE found == Contexts(at + 2, ilist)
  <2>1. readImages = FlattenSeq([i \in DOMAIN of(1) |-> ReadMhsd(file, of(1)[i], "mhli", "mhii")])
    BY DEF Each
  <2>2. [i \in DOMAIN of(1) |-> ReadMhsd(file, of(1)[i], "mhli", "mhii")] = <<found>>
    BY <1>2, <1>9
  <2>3. found \in Seq([at : Nat, len : Nat])
    BY <1>5, ContextsSeq
  <2> HIDE DEF found
  <2>4. FlattenSeq(<<found>>) = found
    BY <2>3, FlattenOne
  <2> QED BY <2>1, <2>2, <2>4 DEF found
<1>12. readAlbums = Contexts(behind + 2, alist)
  <2> DEFINE found == Contexts(behind + 2, alist)
  <2>1. readAlbums = FlattenSeq([i \in DOMAIN of(2) |-> ReadMhsd(file, of(2)[i], "mhla", "mhba")])
    BY DEF Each
  <2>2. [i \in DOMAIN of(2) |-> ReadMhsd(file, of(2)[i], "mhla", "mhba")] = <<found>>
    BY <1>3, <1>10
  <2>3. found \in Seq([at : Nat, len : Nat])
    BY <1>6, ContextsSeq
  <2> HIDE DEF found
  <2>4. FlattenSeq(<<found>>) = found
    BY <2>3, FlattenOne
  <2> QED BY <2>1, <2>2, <2>4 DEF found
<1> HIDE DEF readImages, readAlbums
<1>13. [i \in DOMAIN readImages |-> ReadMhii(file, readImages[i])] = images
  <2>1. Holds(file, at + 2, FlattenSeq(ImageChunks(images))) /\ at + 2 \in Nat
    BY <1>9 DEF ilist
  <2> QED BY <1>11, <2>1, ImagesRead DEF ilist
<1>14. [i \in DOMAIN readAlbums |-> ReadMhba(file, readAlbums[i])] = shown
  <2>1. Holds(file, behind + 2, FlattenSeq(AlbumChunks(shown))) /\ behind + 2 \in Nat
    BY <1>10 DEF alist
  <2> QED BY <1>12, <2>1, AlbumsRead DEF alist
<1> QED BY <1>8, <1>13, <1>14 DEF file

-----------------------------------------------------------------------------
(* A database that has photos has a library: without it nothing would      *)
(* leave with the photos, and the next library would not have them.        *)
Sound(ps, as, ms) ==
  /\ ps \in Seq(Photo) /\ IsInjective(ps)
  /\ as \in Seq(Album) /\ IsInjective(as)
  /\ ms \in [Album -> Seq(Photo)]
  /\ \A a \in Album : Listed(a, as) => \A p \in Photo : Listed(p, ms[a]) => Listed(p, ps)
  /\ as # <<>> => \A p \in Photo : Listed(p, ps) => Listed(p, ms[as[1]])
  /\ as = <<>> => ps = <<>>

(* The photos and albums that Write makes the chunks of.                   *)
IdIn(p, ps) == FirstId + FirstPlace(p, ps) - 1
Pictures(ps) == [i \in DOMAIN ps |-> [id |-> IdIn(ps[i], ps), thumbs |-> Thumbnails(ps[i])]]
Shown(ps, as, ms) ==
  [i \in DOMAIN as |-> [name |-> as[i],
                        ids  |-> [j \in DOMAIN ms[as[i]] |-> IdIn(ms[as[i]][j], ps)]]]

(* What was saved.  An album that is not in it has no photos.              *)
SavedSound ==
  \E ps, as, ms :
    /\ saved = <<ps, as, ms>> /\ Sound(ps, as, ms)
    /\ \A a \in Album : ~Listed(a, as) => ms[a] = <<>>
    /\ stored = WriteMhfd(Pictures(ps), Shown(ps, as, ms))

Ids == {0} \cup (FirstId .. FirstId + Cardinality(Photo) - 1)

IInv ==
  /\ Sound(photos, albums, members)
  /\ loose \in SUBSET Album /\ \A a \in loose : ~Listed(a, albums)
  /\ id \in [Photo -> Ids]
  /\ SavedSound
-----------------------------------------------------------------------------
(* What the functions on lists do to the elements.                         *)
LEMMA ToSetListed ==
  ASSUME NEW list, NEW x
  PROVE  x \in ToSet(list) <=> Listed(x, list)
BY DEF ToSet, Listed

LEMMA ListFacts ==
  ASSUME NEW S, NEW list \in Seq(S)
  PROVE  /\ Len(list) \in Nat /\ DOMAIN list = 1 .. Len(list)
         /\ \A i \in 1 .. Len(list) : list[i] \in S /\ Listed(list[i], list)
         /\ list = [i \in 1 .. Len(list) |-> list[i]]
BY DEF Listed

LEMMA FunctionIsSeq ==
  ASSUME NEW S, NEW n \in Nat, NEW f \in [1 .. n -> S]
  PROVE  f \in Seq(S) /\ Len(f) = n
OBVIOUS

LEMMA InsertPlace ==
  ASSUME NEW S, NEW list \in Seq(S), NEW x \in S, NEW pos \in Nat
  PROVE  LET new == Insert(list, pos, x)
         IN /\ new \in Seq(S) /\ new # <<>>
            /\ \A y : Listed(y, new) <=> y = x \/ Listed(y, list)
            /\ IsInjective(list) /\ ~Listed(x, list) => IsInjective(new)
            /\ list # <<>> /\ pos # 0 => new[1] = list[1]
<1> DEFINE place == IF pos < Len(list) THEN pos + 1 ELSE Len(list) + 1
           new == InsertAt(list, place, x)
<1>1. Insert(list, pos, x) = new
  BY DEF Insert
<1>2. Len(list) \in Nat
  OBVIOUS
<1>3. place \in Places(list) /\ (list # <<>> /\ pos # 0 => place # 1)
  <2>1. list # <<>> => Len(list) # 0
    BY EmptySeq
  <2> QED BY <1>2, <2>1 DEF Places
<1> HIDE DEF place
<1>4. new \in Seq(S) /\ Len(new) = Len(list) + 1
  BY <1>3, InsertAtPlaces
<1>5. new # <<>>
  <2> HIDE DEF new
  <2> QED BY <1>2, <1>4
<1>6. \A y : Listed(y, new) <=> y = x \/ Listed(y, list)
  BY <1>3, InsertListed
<1>7. IsInjective(list) /\ ~Listed(x, list) => IsInjective(new)
  BY <1>3, InsertInjective
<1>8. list # <<>> /\ pos # 0 => new[1] = list[1]
  BY <1>3, InsertKeepsFront
<1> QED BY <1>1, <1>4, <1>5, <1>6, <1>7, <1>8

LEMMA WithoutListed ==
  ASSUME NEW S, NEW list \in Seq(S), NEW gone
  PROVE  /\ Without(list, gone) \in Seq(S)
         /\ \A y : Listed(y, Without(list, gone)) <=> Listed(y, list) /\ y \notin gone
         /\ IsInjective(list) => IsInjective(Without(list, gone))
<1> DEFINE left == ToSet(list) \ gone
<1>1. Without(list, gone) = Only(list, left)
  BY DEF Without
<1>2. \A y : Listed(y, list) => (y \in left <=> y \notin gone)
  BY ToSetListed
<1> HIDE DEF left
<1>3. Only(list, left) \in Seq(S)
  BY OnlyElements
<1>4. \A y : Listed(y, Only(list, left)) <=> Listed(y, list) /\ y \in left
  BY OnlyElements
<1>5. IsInjective(list) => IsInjective(Only(list, left))
  BY OnlyElements
<1> QED BY <1>1, <1>2, <1>3, <1>4, <1>5

(* Photos that the list does not have make no difference.                  *)
LEMMA WithoutSame ==
  ASSUME NEW S, NEW list \in Seq(S), NEW gone, NEW other,
         \A y : Listed(y, list) => (y \in gone <=> y \in other)
  PROVE  Without(list, gone) = Without(list, other)
<1>1. \A i \in 1 .. Len(list) : Listed(list[i], list)
  BY DEF Listed
<1>2. \A i \in 1 .. Len(list) : list[i] \in ToSet(list) \ gone <=> list[i] \in ToSet(list) \ other
  BY <1>1
<1>3. Only(list, ToSet(list) \ gone) = Only(list, ToSet(list) \ other)
  BY <1>2, OnlySame
<1> QED BY <1>3 DEF Without

LEMMA EmptyListed ==
  /\ \A x : ~Listed(x, <<>>)
  /\ \A S : \A list \in Seq(S) : (\A x \in S : ~Listed(x, list)) => list = <<>>
<1>1. \A x : ~Listed(x, <<>>)
  BY DEF Listed
<1>2. ASSUME NEW S, NEW list \in Seq(S), \A x \in S : ~Listed(x, list) PROVE list = <<>>
  <2> SUFFICES ASSUME list # <<>> PROVE FALSE
    OBVIOUS
  <2>1. Len(list) \in Nat /\ Len(list) # 0
    BY EmptySeq
  <2>2. 1 \in DOMAIN list /\ list[1] \in S
    BY <2>1
  <2> QED BY <1>2, <2>2 DEF Listed
<1> QED BY <1>1, <1>2

LEMMA FrontListed ==
  ASSUME NEW S, NEW list \in Seq(S), list # <<>>
  PROVE  list[1] \in S /\ Listed(list[1], list) /\ Head(list) = list[1]
<1>1. Len(list) \in Nat /\ Len(list) # 0
  BY EmptySeq
<1>2. 1 \in DOMAIN list
  BY <1>1
<1> QED BY <1>2 DEF Listed

(* Distinct is IsInjective, said the other way round.                      *)
LEMMA DistinctInjective ==
  ASSUME NEW list
  PROVE  Distinct(list) <=> IsInjective(list)
BY DEF Distinct, IsInjective

(* A list in which no photo is twice is not longer than there are photos.  *)
LEMMA PhotosBound ==
  ASSUME NEW ps \in Seq(Photo), IsInjective(ps)
  PROVE  Len(ps) <= Cardinality(Photo) /\ Cardinality(Photo) \in Nat
<1>1. IsFiniteSet(Photo) /\ Len(ps) \in Nat
  BY PhotoAssumption
<1>2. ps \in Injection(1 .. Len(ps), Photo)
  BY DEF Injection
<1>3. IsFiniteSet(1 .. Len(ps)) /\ Cardinality(1 .. Len(ps)) = Len(ps)
  <2>1. 1 \in Int /\ Len(ps) \in Int
    BY <1>1
  <2>2. /\ IsFiniteSet(1 .. Len(ps))
        /\ Cardinality(1 .. Len(ps)) = IF 1 > Len(ps) THEN 0 ELSE Len(ps) - 1 + 1
    BY ONLY <2>1, FS_Interval
  <2> QED BY <1>1, <2>2
<1>4. Cardinality(1 .. Len(ps)) <= Cardinality(Photo)
  BY <1>1, <1>2, FS_Injection
<1> QED BY <1>1, <1>3, <1>4, FS_CardinalityType

-----------------------------------------------------------------------------
(* The photos and albums that are read.                                    *)
LEMMA ThumbnailsBack ==
  ASSUME NEW p \in Photo
  PROVE  PhotoOf(Thumbnails(p)) = p
<1>1. 1 \in DOMAIN Formats
  <2>1. Formats \in Seq(ToSet(Formats)) /\ Formats # <<>>
    BY ChunkAssumption
  <2>2. Len(Formats) \in Nat /\ Len(Formats) # 0
    BY <2>1, EmptySeq
  <2> QED BY <2>1, <2>2
<1>2. \A q \in Photo : Thumbnails(q)[1].offset = q
  BY <1>1 DEF Thumbnails
<1>3. \A q \in Photo : Thumbnails(p) = Thumbnails(q) => q = p
  BY <1>2
<1> HIDE DEF Thumbnails
<1> QED BY <1>3 DEF PhotoOf

LEMMA IdOfPlace ==
  ASSUME NEW ps \in Seq(Photo), IsInjective(ps), NEW i \in 1 .. Len(ps)
  PROVE  FirstPlace(ps[i], ps) = i /\ IdIn(ps[i], ps) = FirstId + i - 1
<1>1. Listed(ps[i], ps)
  BY DEF Listed
<1>2. FirstPlace(ps[i], ps) \in 1 .. Len(ps) /\ ps[FirstPlace(ps[i], ps)] = ps[i]
  BY <1>1, GListRemovePlaces
<1>3. FirstPlace(ps[i], ps) = i
  BY <1>2 DEF IsInjective
<1> QED BY <1>3 DEF IdIn
(* The lists make images and albums that the file can have.                *)
LEMMA WrittenParts ==
  ASSUME NEW ps, NEW as, NEW ms, Sound(ps, as, ms)
  PROVE  LET D == Photo \cup Album \cup ToSet(Formats) \cup Nat
         IN /\ Formats \in Seq(D)
            /\ Pictures(ps) \in Seq(Images(D)) /\ DOMAIN Pictures(ps) = 1 .. Len(ps)
            /\ Len(Pictures(ps)) = Len(ps)
            /\ \A i \in 1 .. Len(ps) : HasFormats(Pictures(ps)[i])
            /\ Shown(ps, as, ms) \in Seq(AlbumsOf(D)) /\ DOMAIN Shown(ps, as, ms) = 1 .. Len(as)
<1> DEFINE D == Photo \cup Album \cup ToSet(Formats) \cup Nat
<1>1. ps \in Seq(Photo) /\ as \in Seq(Album) /\ \A a \in Album : ms[a] \in Seq(Photo)
  BY DEF Sound
<1>15. \A a \in Album : Listed(a, as) => \A p \in Photo : Listed(p, ms[a]) => Listed(p, ps)
  BY DEF Sound
<1>2. Formats \in Seq(ToSet(Formats)) /\ ToSet(Formats) \subseteq D
  BY ChunkAssumption
<1>3. Formats \in Seq(D) /\ Len(Formats) \in Nat /\ DOMAIN Formats = 1 .. Len(Formats)
  <2> HIDE DEF D
  <2> QED BY <1>2
<1>4. Photo \subseteq D /\ Album \subseteq D /\ Nat \subseteq D
  OBVIOUS
<1> HIDE DEF D
<1>5. ASSUME NEW p \in Photo
      PROVE  /\ Thumbnails(p) \in Seq(Thumbs(D))
             /\ \A i \in 1 .. Len(Thumbnails(p)) : Listed(Thumbnails(p)[i].format, Formats)
  <2>1. \A i \in 1 .. Len(Formats) : Formats[i] \in D /\ p \in D
    BY <1>3, <1>4
  <2>2. \A i \in 1 .. Len(Formats) :
          [format |-> Formats[i], offset |-> p, filename |-> Formats[i]] \in Thumbs(D)
    BY <2>1 DEF Thumbs
  <2>3. Thumbnails(p) = [i \in 1 .. Len(Formats) |->
          [format |-> Formats[i], offset |-> p, filename |-> Formats[i]]]
    BY <1>3 DEF Thumbnails
  <2>4. Thumbnails(p) \in Seq(Thumbs(D)) /\ Len(Thumbnails(p)) = Len(Formats)
    BY <1>3, <2>2, <2>3, IsASeq
  <2>5. \A i \in 1 .. Len(Formats) : Listed(Formats[i], Formats)
    BY <1>3 DEF Listed
  <2> QED BY <2>3, <2>4, <2>5
<1> DEFINE pic(i) == [id |-> IdIn(ps[i], ps), thumbs |-> Thumbnails(ps[i])]
           show(i) == [name |-> as[i],
                       ids  |-> [j \in DOMAIN ms[as[i]] |-> IdIn(ms[as[i]][j], ps)]]
<1>6. ASSUME NEW p \in Photo, Listed(p, ps) PROVE IdIn(p, ps) \in D
  <2>1. FirstPlace(p, ps) \in 1 .. Len(ps) /\ Len(ps) \in Nat
    BY <1>1, <1>6, GListRemovePlaces
  <2>2. IdIn(p, ps) \in Nat
    BY <2>1 DEF IdIn, FirstId
  <2> QED BY <1>4, <2>2
<1>7. /\ Len(ps) \in Nat /\ DOMAIN ps = 1 .. Len(ps)
      /\ \A i \in 1 .. Len(ps) : ps[i] \in Photo /\ Listed(ps[i], ps)
      /\ Len(as) \in Nat /\ DOMAIN as = 1 .. Len(as)
      /\ \A i \in 1 .. Len(as) : as[i] \in Album /\ Listed(as[i], as)
  BY <1>1, ListFacts
<1>8. ASSUME NEW i \in 1 .. Len(ps) PROVE pic(i) \in Images(D) /\ HasFormats(pic(i))
  <2>1. ps[i] \in Photo /\ Listed(ps[i], ps)
    BY <1>7
  <2>2. IdIn(ps[i], ps) \in D
    BY <1>6, <2>1
  <2>3. /\ Thumbnails(ps[i]) \in Seq(Thumbs(D))
        /\ \A k \in 1 .. Len(Thumbnails(ps[i])) : Listed(Thumbnails(ps[i])[k].format, Formats)
    BY <1>5, <2>1
  <2> QED BY <2>2, <2>3 DEF Images, HasFormats
<1>9. ASSUME NEW i \in 1 .. Len(as) PROVE show(i) \in AlbumsOf(D)
  <2> DEFINE a == as[i]
  <2>1. a \in Album /\ Listed(a, as) /\ ms[a] \in Seq(Photo)
    BY <1>1, <1>7
  <2>2. /\ Len(ms[a]) \in Nat /\ DOMAIN ms[a] = 1 .. Len(ms[a])
        /\ \A j \in 1 .. Len(ms[a]) : ms[a][j] \in Photo /\ Listed(ms[a][j], ms[a])
    BY <2>1, ListFacts
  <2>3. ASSUME NEW j \in 1 .. Len(ms[a]) PROVE IdIn(ms[a][j], ps) \in D
    <3>1. ms[a][j] \in Photo /\ Listed(ms[a][j], ms[a])
      BY <2>2
    <3>2. Listed(ms[a][j], ps)
      BY <1>15, <2>1, <3>1
    <3> QED BY <1>6, <3>1, <3>2
  <2> DEFINE numbers == [j \in 1 .. Len(ms[a]) |-> IdIn(ms[a][j], ps)]
  <2>4. numbers \in Seq(D)
    <3>1. numbers \in [1 .. Len(ms[a]) -> D]
      BY <2>3
    <3> HIDE DEF numbers
    <3> QED BY <2>2, <3>1, FunctionIsSeq
  <2>5. show(i) = [name |-> a, ids |-> numbers] /\ a \in D
    BY <1>4, <2>1, <2>2
  <2> HIDE DEF show, a, numbers
  <2> QED BY <2>4, <2>5 DEF AlbumsOf
<1>10. Pictures(ps) = [i \in 1 .. Len(ps) |-> pic(i)]
  BY <1>7 DEF Pictures
<1>11. Shown(ps, as, ms) = [i \in 1 .. Len(as) |-> show(i)]
  BY <1>7 DEF Shown
<1> HIDE DEF pic, show
<1>12. Pictures(ps) \in Seq(Images(D)) /\ Len(Pictures(ps)) = Len(ps)
  BY <1>7, <1>8, <1>10, IsASeq
<1>13. Shown(ps, as, ms) \in Seq(AlbumsOf(D))
  <2>1. Shown(ps, as, ms) \in [1 .. Len(as) -> AlbumsOf(D)]
    BY <1>9, <1>11
  <2> QED BY <1>7, <2>1, FunctionIsSeq
<1>14. \A i \in 1 .. Len(ps) : HasFormats(Pictures(ps)[i])
  BY <1>8, <1>10
<1> QED BY <1>3, <1>10, <1>11, <1>12, <1>13, <1>14 DEF D

(* What was written is read: every id stands for the photo that it was     *)
(* given to.                                                               *)
LEMMA SavedRead ==
  ASSUME NEW ps, NEW as, NEW ms, Sound(ps, as, ms),
         \A a \in Album : ~Listed(a, as) => ms[a] = <<>>,
         stored = WriteMhfd(Pictures(ps), Shown(ps, as, ms))
  PROVE  Parsed = [photos |-> ps, albums |-> as, members |-> ms,
                   ids |-> [i \in 1 .. Len(ps) |-> FirstId + i - 1]]
<1> DEFINE D == Photo \cup Album \cup ToSet(Formats) \cup Nat
           images == Pictures(ps)
           shown == Shown(ps, as, ms)
           read == ReadMhfd(stored)
           parsed == [i \in DOMAIN images |-> PhotoOf(images[i].thumbs)]
           found(n) == {i \in DOMAIN parsed : images[i].id = n}
           byId(n) == IF found(n) = {} THEN NoPhoto ELSE parsed[Max(found(n))]
           at(a) == {i \in DOMAIN shown : shown[i].name = a}
           ids(a) == IF at(a) = {} THEN <<>> ELSE shown[Max(at(a))].ids
<1>1. ps \in Seq(Photo) /\ as \in Seq(Album) /\ ms \in [Album -> Seq(Photo)]
  BY DEF Sound
<1>16. IsInjective(ps) /\ IsInjective(as)
  BY DEF Sound
<1>17. \A a \in Album : Listed(a, as) => \A p \in Photo : Listed(p, ms[a]) => Listed(p, ps)
  BY DEF Sound
<1>2. read = [images |-> images, albums |-> shown]
  <2>1. /\ Formats \in Seq(D) /\ images \in Seq(Images(D)) /\ shown \in Seq(AlbumsOf(D))
        /\ \A i \in 1 .. Len(images) : HasFormats(images[i])
    BY WrittenParts
  <2> HIDE DEF D, images, shown
  <2> QED BY <2>1, PhotoDatabaseReadsBack DEF images, shown
<1>3. Parsed = [photos |-> parsed,
                albums  |-> [i \in DOMAIN shown |-> shown[i].name],
                members |-> [a \in Album |-> [j \in DOMAIN ids(a) |-> byId(ids(a)[j])]],
                ids     |-> [i \in DOMAIN parsed |-> images[i].id]]
  <2> HIDE DEF images, shown
  <2>1. read.images = images /\ read.albums = shown
    BY <1>2
  <2> HIDE DEF read
  <2> QED BY <2>1 DEF Parsed, read
<1>4. DOMAIN images = 1 .. Len(ps) /\ DOMAIN shown = 1 .. Len(as)
  <2>1. DOMAIN images = DOMAIN ps /\ DOMAIN shown = DOMAIN as
    BY DEF Pictures, Shown
  <2>2. DOMAIN ps = 1 .. Len(ps) /\ DOMAIN as = 1 .. Len(as)
    BY <1>1, ListFacts
  <2> QED BY <2>1, <2>2
<1>5. /\ Len(ps) \in Nat /\ DOMAIN ps = 1 .. Len(ps)
      /\ \A i \in 1 .. Len(ps) : ps[i] \in Photo /\ Listed(ps[i], ps)
      /\ ps = [i \in 1 .. Len(ps) |-> ps[i]]
      /\ Len(as) \in Nat /\ DOMAIN as = 1 .. Len(as)
      /\ \A i \in 1 .. Len(as) : as[i] \in Album /\ Listed(as[i], as)
      /\ as = [i \in 1 .. Len(as) |-> as[i]]
  BY <1>1, ListFacts
<1>6. \A i \in 1 .. Len(ps) : images[i].id = IdIn(ps[i], ps) /\ images[i].thumbs = Thumbnails(ps[i])
  BY <1>5 DEF Pictures
<1>7. \A i \in 1 .. Len(as) :
        /\ shown[i].name = as[i]
        /\ shown[i].ids = [j \in DOMAIN ms[as[i]] |-> IdIn(ms[as[i]][j], ps)]
  BY <1>5 DEF Shown
<1> HIDE DEF images, shown, read
<1>8. parsed = ps
  <2>1. \A i \in 1 .. Len(ps) : PhotoOf(images[i].thumbs) = ps[i]
    BY <1>5, <1>6, ThumbnailsBack
  <2> QED BY <1>4, <1>5, <2>1
<1>9. \A i \in 1 .. Len(ps) : images[i].id = FirstId + i - 1
  BY <1>1, <1>6, <1>16, IdOfPlace
<1>10. [i \in DOMAIN parsed |-> images[i].id] = [i \in 1 .. Len(ps) |-> FirstId + i - 1]
  BY <1>5, <1>8, <1>9
<1>11. [i \in DOMAIN shown |-> shown[i].name] = as
  BY <1>4, <1>5, <1>7
<1> HIDE DEF parsed
<1>12. \A i \in Int : Max({i}) = i
  BY DEF Max
<1>13. ASSUME NEW p \in Photo, Listed(p, ps) PROVE byId(IdIn(p, ps)) = p
  <2> DEFINE k == FirstPlace(p, ps)
  <2>1. k \in 1 .. Len(ps) /\ ps[k] = p
    BY <1>1, <1>13, GListRemovePlaces
  <2>2. IdIn(p, ps) = FirstId + k - 1
    BY DEF IdIn
  <2> HIDE DEF k
  <2>3. found(IdIn(p, ps)) = {k}
    <3>1. DOMAIN parsed = 1 .. Len(ps)
      BY <1>5, <1>8
    <3>2. \A i \in 1 .. Len(ps) : images[i].id = IdIn(p, ps) <=> i = k
      BY <1>9, <2>1, <2>2 DEF FirstId
    <3> QED BY <2>1, <3>1, <3>2
  <2> HIDE DEF found
  <2>4. Max({k}) = k
    BY <1>12, <2>1
  <2> QED BY <1>8, <2>1, <2>3, <2>4
<1> HIDE DEF byId
<1>14. ASSUME NEW a \in Album PROVE [j \in DOMAIN ids(a) |-> byId(ids(a)[j])] = ms[a]
  <2>1. /\ ms[a] \in Seq(Photo) /\ DOMAIN ms[a] = 1 .. Len(ms[a])
        /\ \A j \in 1 .. Len(ms[a]) : ms[a][j] \in Photo /\ Listed(ms[a][j], ms[a])
        /\ ms[a] = [j \in 1 .. Len(ms[a]) |-> ms[a][j]]
    <3>1. ms[a] \in Seq(Photo)
      BY <1>1
    <3> QED BY <3>1, ListFacts
  <2>2. CASE ~Listed(a, as)
    <3>1. at(a) = {}
      <4>1. \A i \in 1 .. Len(as) : as[i] # a
        BY <1>5, <2>2
      <4>2. \A i \in DOMAIN shown : shown[i].name # a
        BY <1>4, <1>7, <4>1
      <4> QED BY <4>2
    <3>2. ids(a) = <<>>
      <4> HIDE DEF at
      <4> QED BY <3>1
    <3>3. ms[a] = <<>>
      BY <2>2
    <3> HIDE DEF ids
    <3> QED BY <3>2, <3>3
  <2>3. CASE Listed(a, as)
    <3>1. PICK k \in 1 .. Len(as) : as[k] = a
      BY <1>5, <2>3 DEF Listed
    <3>2. \A i \in 1 .. Len(as) : as[i] = a => i = k
      BY <1>5, <1>16, <3>1 DEF IsInjective
    <3>3. at(a) = {k}
      <4>1. \A i \in DOMAIN shown : shown[i].name = a <=> i = k
        <5>1. \A i \in 1 .. Len(as) : shown[i].name = as[i]
          BY <1>7
        <5>2. DOMAIN shown = 1 .. Len(as)
          BY <1>4
        <5> HIDE DEF shown
        <5> QED BY <3>1, <3>2, <5>1, <5>2
      <4>2. k \in DOMAIN shown
        BY <1>4
      <4> QED BY <4>1, <4>2
    <3>4. Max({k}) = k
      BY <1>12
    <3>5. ids(a) = shown[k].ids
      <4> HIDE DEF at
      <4> QED BY <3>3, <3>4
    <3> HIDE DEF ids
    <3>6. ids(a) = [j \in DOMAIN ms[a] |-> IdIn(ms[a][j], ps)]
      BY <1>7, <3>1, <3>5
    <3>7. ASSUME NEW j \in DOMAIN ms[a] PROVE byId(ids(a)[j]) = ms[a][j]
      <4>1. ms[a][j] \in Photo /\ Listed(ms[a][j], ms[a])
        BY <2>1
      <4>2. Listed(ms[a][j], ps)
        BY <1>17, <2>3, <4>1
      <4>3. ids(a)[j] = IdIn(ms[a][j], ps)
        BY <3>6
      <4> QED BY <1>13, <4>1, <4>2, <4>3
    <3>8. DOMAIN ids(a) = DOMAIN ms[a]
      BY <3>6
    <3> QED BY <2>1, <3>7, <3>8
  <2> QED BY <2>2, <2>3
<1> HIDE DEF ids
<1>15. [a \in Album |-> [j \in DOMAIN ids(a) |-> byId(ids(a)[j])]] = ms
  BY <1>1, <1>14
<1> QED BY <1>3, <1>8, <1>10, <1>11, <1>15
-----------------------------------------------------------------------------
(* Sound, after each operation on the lists.                               *)
LEMMA SoundFacts ==
  ASSUME NEW ps, NEW as, NEW ms, Sound(ps, as, ms)
  PROVE  /\ ps \in Seq(Photo) /\ as \in Seq(Album)
         /\ IsInjective(ps) /\ IsInjective(as)
         /\ ms \in [Album -> Seq(Photo)] /\ \A a \in Album : ms[a] \in Seq(Photo)
         /\ \A a \in Album : Listed(a, as) => \A p \in Photo : Listed(p, ms[a]) => Listed(p, ps)
         /\ as # <<>> => \A p \in Photo : Listed(p, ps) => Listed(p, ms[as[1]])
         /\ as = <<>> => ps = <<>>
BY DEF Sound

(* A new photo goes into the library, one that is made for it or the one   *)
(* that there is.                                                          *)
LEMMA SoundAddPhoto ==
  ASSUME NEW ps, NEW as, NEW ms, Sound(ps, as, ms), as # <<>>,
         NEW p \in Photo, NEW pos \in Nat, ~Listed(p, ps)
  PROVE  Sound(Insert(ps, pos, p), as, [ms EXCEPT ![as[1]] = Insert(@, pos, p)])
<1> DEFINE h == as[1]
           ps2 == Insert(ps, pos, p)
           in == Insert(ms[h], pos, p)
           ms2 == [ms EXCEPT ![h] = in]
<1>1. /\ ps \in Seq(Photo) /\ as \in Seq(Album) /\ IsInjective(ps) /\ IsInjective(as)
      /\ ms \in [Album -> Seq(Photo)]
  BY SoundFacts
<1>2. \A a \in Album : Listed(a, as) => \A q \in Photo : Listed(q, ms[a]) => Listed(q, ps)
  BY SoundFacts
<1>3. \A q \in Photo : Listed(q, ps) => Listed(q, ms[h])
  BY SoundFacts
<1>4. h \in Album
  BY <1>1, FrontListed
<1>5. ms[h] \in Seq(Photo)
  BY <1>1, <1>4
<1>6. ps2 \in Seq(Photo) /\ IsInjective(ps2) /\ \A y : Listed(y, ps2) <=> y = p \/ Listed(y, ps)
  BY <1>1, InsertPlace
<1>7. in \in Seq(Photo) /\ \A y : Listed(y, in) <=> y = p \/ Listed(y, ms[h])
  <2> DEFINE list == ms[h]
  <2>1. list \in Seq(Photo) /\ in = Insert(list, pos, p)
    BY <1>5
  <2> HIDE DEF in, list
  <2>2. in \in Seq(Photo) /\ \A y : Listed(y, in) <=> y = p \/ Listed(y, list)
    BY <2>1, InsertPlace
  <2> QED BY <2>2 DEF list
<1> HIDE DEF ps2, in, h
<1>8. ms2 \in [Album -> Seq(Photo)] /\ ms2[h] = in /\ \A a \in Album : a # h => ms2[a] = ms[a]
  BY <1>1, <1>4, <1>7
<1> HIDE DEF ms2
<1>9. \A a \in Album : Listed(a, as) => \A q \in Photo : Listed(q, ms2[a]) => Listed(q, ps2)
  <2> SUFFICES ASSUME NEW a \in Album, Listed(a, as), NEW q \in Photo, Listed(q, ms2[a])
               PROVE  Listed(q, ps2)
    OBVIOUS
  <2>1. CASE a = h
    BY <1>2, <1>6, <1>7, <1>8, <2>1
  <2>2. CASE a # h
    BY <1>2, <1>6, <1>8, <2>2
  <2> QED BY <2>1, <2>2
<1>10. \A q \in Photo : Listed(q, ps2) => Listed(q, ms2[h])
  BY <1>3, <1>6, <1>7, <1>8
<1>11. Sound(ps2, as, ms2)
  BY <1>1, <1>6, <1>8, <1>9, <1>10 DEF Sound, h
<1> QED BY <1>11 DEF ps2, ms2, in, h

LEMMA SoundNewLibrary ==
  ASSUME NEW ps, NEW ms, Sound(ps, <<>>, ms), NEW p \in Photo, NEW pos \in Nat
  PROVE  Sound(Insert(ps, pos, p), <<Library>>, [ms EXCEPT ![Library] = <<p>>])
<1> DEFINE ps2 == Insert(ps, pos, p)
           as2 == <<Library>>
           ms2 == [ms EXCEPT ![Library] = <<p>>]
<1>1. ps = <<>> /\ ms \in [Album -> Seq(Photo)] /\ Library \in Album
  BY SoundFacts, PhotoAssumption
<1>2. <<>> \in Seq(Photo) /\ IsInjective(<<>>) /\ \A y : ~Listed(y, <<>>)
  BY EmptyListed DEF IsInjective
<1>3. ps2 \in Seq(Photo) /\ IsInjective(ps2) /\ \A y : Listed(y, ps2) <=> y = p
  BY <1>1, <1>2, InsertPlace
<1> HIDE DEF ps2
<1>4. <<p>> \in Seq(Photo) /\ \A y : Listed(y, <<p>>) <=> y = p
  BY DEF Listed
<1>5. ms2 \in [Album -> Seq(Photo)] /\ ms2[Library] = <<p>>
  BY <1>1, <1>4
<1>6. /\ as2 \in Seq(Album) /\ as2 # <<>> /\ as2[1] = Library /\ IsInjective(as2)
      /\ \A a : Listed(a, as2) <=> a = Library
  BY <1>1 DEF Listed, IsInjective
<1> HIDE DEF as2, ms2
<1> QED BY <1>3, <1>4, <1>5, <1>6 DEF Sound, as2, ms2, ps2

(* The members of an album change, and not those of the library, unless    *)
(* a photo comes in.                                                       *)
LEMMA SoundMembers ==
  ASSUME NEW ps, NEW as, NEW ms, Sound(ps, as, ms), NEW a \in Album, NEW in \in Seq(Photo),
         Listed(a, as) => \A q \in Photo : Listed(q, in) => Listed(q, ps),
         as # <<>> /\ a = as[1] => \A q \in Photo : Listed(q, ms[a]) => Listed(q, in)
  PROVE  Sound(ps, as, [ms EXCEPT ![a] = in])
<1> DEFINE ms2 == [ms EXCEPT ![a] = in]
<1>1. /\ ps \in Seq(Photo) /\ as \in Seq(Album) /\ IsInjective(ps) /\ IsInjective(as)
      /\ ms \in [Album -> Seq(Photo)] /\ (as = <<>> => ps = <<>>)
  BY SoundFacts
<1>2. \A b \in Album : Listed(b, as) => \A q \in Photo : Listed(q, ms[b]) => Listed(q, ps)
  BY SoundFacts
<1>3. as # <<>> => \A q \in Photo : Listed(q, ps) => Listed(q, ms[as[1]])
  BY SoundFacts
<1>4. as # <<>> => as[1] \in Album
  BY <1>1, FrontListed
<1>5. ms2 \in [Album -> Seq(Photo)] /\ ms2[a] = in /\ \A b \in Album : b # a => ms2[b] = ms[b]
  BY <1>1
<1> HIDE DEF ms2
<1>6. \A b \in Album : Listed(b, as) => \A q \in Photo : Listed(q, ms2[b]) => Listed(q, ps)
  BY <1>2, <1>5
<1>7. as # <<>> => \A q \in Photo : Listed(q, ps) => Listed(q, ms2[as[1]])
  BY <1>3, <1>4, <1>5
<1>8. Sound(ps, as, ms2)
  BY <1>1, <1>5, <1>6, <1>7 DEF Sound
<1> QED BY <1>8 DEF ms2

(* Photos go, from the database and from every album in the list.          *)
LEMMA SoundForget ==
  ASSUME NEW ps, NEW as, NEW ms, Sound(ps, as, ms), NEW gone,
         NEW ms2 \in [Album -> Seq(Photo)],
         \A a \in Album : Listed(a, as) => ms2[a] = Without(ms[a], gone)
  PROVE  Sound(Without(ps, gone), as, ms2)
<1> DEFINE ps2 == Without(ps, gone)
<1>1. /\ ps \in Seq(Photo) /\ as \in Seq(Album) /\ IsInjective(ps) /\ IsInjective(as)
      /\ (as = <<>> => ps = <<>>)
  BY SoundFacts
<1>2. \A a \in Album : Listed(a, as) => \A q \in Photo : Listed(q, ms[a]) => Listed(q, ps)
  BY SoundFacts
<1>3. as # <<>> => \A q \in Photo : Listed(q, ps) => Listed(q, ms[as[1]])
  BY SoundFacts
<1>4. as # <<>> => as[1] \in Album /\ Listed(as[1], as)
  BY <1>1, FrontListed
<1>5. /\ ps2 \in Seq(Photo) /\ IsInjective(ps2)
      /\ \A y : Listed(y, ps2) <=> Listed(y, ps) /\ y \notin gone
  BY <1>1, WithoutListed
<1>6. ASSUME NEW a \in Album, Listed(a, as)
      PROVE  \A y : Listed(y, ms2[a]) <=> Listed(y, ms[a]) /\ y \notin gone
  <2>1. ms[a] \in Seq(Photo) /\ ms2[a] = Without(ms[a], gone)
    BY <1>6, SoundFacts
  <2> QED BY <2>1, WithoutListed
<1> HIDE DEF ps2
<1>7. as = <<>> => ps2 = <<>>
  <2> SUFFICES ASSUME as = <<>> PROVE ps2 = <<>>
    OBVIOUS
  <2>1. \A y \in Photo : ~Listed(y, ps2)
    BY <1>1, <1>5, EmptyListed
  <2> QED BY <1>5, <2>1, EmptyListed
<1>8. \A a \in Album : Listed(a, as) => \A q \in Photo : Listed(q, ms2[a]) => Listed(q, ps2)
  BY <1>2, <1>5, <1>6
<1>9. as # <<>> => \A q \in Photo : Listed(q, ps2) => Listed(q, ms2[as[1]])
  BY <1>3, <1>4, <1>5, <1>6
<1>10. Sound(ps2, as, ms2)
  BY <1>1, <1>5, <1>7, <1>8, <1>9 DEF Sound
<1> QED BY <1>10 DEF ps2

(* An album that is not the library comes or goes, or the library when     *)
(* there are no photos.                                                    *)
LEMMA SoundAlbumComes ==
  ASSUME NEW ps, NEW as, NEW ms, Sound(ps, as, ms), NEW a \in Album, NEW pos \in Nat,
         ~Listed(a, as), as = <<>> \/ pos # 0,
         \A q \in Photo : Listed(q, ms[a]) => Listed(q, ps)
  PROVE  Sound(ps, Insert(as, pos, a), ms)
<1> DEFINE as2 == Insert(as, pos, a)
<1>1. /\ ps \in Seq(Photo) /\ as \in Seq(Album) /\ IsInjective(ps) /\ IsInjective(as)
      /\ ms \in [Album -> Seq(Photo)] /\ (as = <<>> => ps = <<>>)
  BY SoundFacts
<1>2. \A b \in Album : Listed(b, as) => \A q \in Photo : Listed(q, ms[b]) => Listed(q, ps)
  BY SoundFacts
<1>3. as # <<>> => \A q \in Photo : Listed(q, ps) => Listed(q, ms[as[1]])
  BY SoundFacts
<1>4. /\ as2 \in Seq(Album) /\ as2 # <<>> /\ IsInjective(as2)
      /\ \A b : Listed(b, as2) <=> b = a \/ Listed(b, as)
      /\ as # <<>> => as2[1] = as[1]
  <2>1. as \in Seq(Album) /\ IsInjective(as)
    BY <1>1
  <2>2. as2 \in Seq(Album) /\ as2 # <<>>
    BY <2>1, InsertPlace
  <2>3. \A b : Listed(b, as2) <=> b = a \/ Listed(b, as)
    BY <2>1, InsertPlace
  <2>4. IsInjective(as2)
    BY <2>1, InsertPlace
  <2>5. as # <<>> => as2[1] = as[1]
    <3> SUFFICES ASSUME as # <<>> PROVE as2[1] = as[1]
      OBVIOUS
    <3>1. as \in Seq(Album) /\ pos # 0 /\ as # <<>>
      BY <2>1
    <3> HIDE DEF as2
    <3>2. \A list \in Seq(Album) : list # <<>> => Insert(list, pos, a)[1] = list[1]
      BY <3>1, InsertPlace
    <3> QED BY <3>1, <3>2 DEF as2
  <2> QED BY <2>2, <2>3, <2>4, <2>5
<1> HIDE DEF as2
<1>5. \A b \in Album : Listed(b, as2) => \A q \in Photo : Listed(q, ms[b]) => Listed(q, ps)
  BY <1>2, <1>4
<1>6. \A q \in Photo : Listed(q, ps) => Listed(q, ms[as2[1]])
  <2>1. CASE as = <<>>
    BY <1>1, <2>1, EmptyListed
  <2>2. CASE as # <<>>
    BY <1>3, <1>4, <2>2
  <2> QED BY <2>1, <2>2
<1>7. Sound(ps, as2, ms)
  BY <1>1, <1>4, <1>5, <1>6 DEF Sound
<1> QED BY <1>7 DEF as2

LEMMA SoundAlbumGoes ==
  ASSUME NEW ps, NEW as, NEW ms, Sound(ps, as, ms), NEW a \in Album, Listed(a, as),
         a = as[1] => ps = <<>>,
         NEW ms2 \in [Album -> Seq(Photo)], \A b \in Album : b # a => ms2[b] = ms[b]
  PROVE  Sound(ps, GListRemove(as, a), ms2) /\ ~Listed(a, GListRemove(as, a))
<1> DEFINE as2 == GListRemove(as, a)
<1>1. /\ ps \in Seq(Photo) /\ as \in Seq(Album) /\ IsInjective(ps) /\ IsInjective(as)
  BY SoundFacts
<1>2. \A b \in Album : Listed(b, as) => \A q \in Photo : Listed(q, ms[b]) => Listed(q, ps)
  BY SoundFacts
<1>3. as # <<>> => \A q \in Photo : Listed(q, ps) => Listed(q, ms[as[1]])
  BY SoundFacts
<1>4. as # <<>>
  BY EmptyListed
<1>5. as[1] \in Album
  BY <1>1, <1>4, FrontListed
<1>6. as2 \in Seq(Album) /\ \A b : Listed(b, as2) => Listed(b, as)
  BY <1>1, RemoveListed
<1>7. IsInjective(as2) /\ ~Listed(a, as2)
  BY <1>1, RemoveInjective
<1>8. as[1] # a => as2 # <<>> /\ as2[1] = as[1]
  BY <1>1, <1>4, RemoveKeepsFront
<1> HIDE DEF as2
<1>9. \A b \in Album : Listed(b, as2) => \A q \in Photo : Listed(q, ms2[b]) => Listed(q, ps)
  BY <1>2, <1>6, <1>7
<1>10. /\ as2 # <<>> => \A q \in Photo : Listed(q, ps) => Listed(q, ms2[as2[1]])
       /\ as2 = <<>> => ps = <<>>
  <2>1. CASE as[1] = a
    BY <2>1, EmptyListed
  <2>2. CASE as[1] # a
    BY <1>3, <1>4, <1>5, <1>8, <2>2
  <2> QED BY <2>1, <2>2
<1>11. Sound(ps, as2, ms2)
  BY <1>1, <1>6, <1>7, <1>9, <1>10 DEF Sound
<1> QED BY <1>7, <1>11 DEF as2
-----------------------------------------------------------------------------
(* Every operation leaves the lists sound, and the file as it was saved.   *)
LEMMA PositionNat == Position \in SUBSET Nat
BY PhotoAssumption DEF Position

LEMMA SavedKept ==
  ASSUME SavedSound, UNCHANGED <<stored, saved>>
  PROVE  SavedSound'
BY DEF SavedSound

LEMMA IdsHaveZero == 0 \in Ids
BY DEF Ids

LEMMA AddPhotoKeeps ==
  ASSUME IInv, NEW p \in Photo, NEW pos \in Position, AddPhoto(p, pos)
  PROVE  IInv'
<1>1. /\ Sound(photos, albums, members) /\ id \in [Photo -> Ids] /\ SavedSound
      /\ loose \in SUBSET Album /\ \A a \in loose : ~Listed(a, albums)
  BY DEF IInv
<1>2. /\ ~Listed(p, photos) /\ pos \in Nat /\ photos' = Insert(photos, pos, p)
      /\ id' = [id EXCEPT ![p] = 0] /\ loose' = loose /\ stored' = stored /\ saved' = saved
  BY ToSetListed, PositionNat DEF AddPhoto
<1>3. id' \in [Photo -> Ids] /\ SavedSound'
  BY <1>1, <1>2, SavedKept, IdsHaveZero
<1>4. CASE albums # <<>> /\ members' = [members EXCEPT ![Head(albums)] = Insert(@, pos, p)]
           /\ albums' = albums
  <2>1. Head(albums) = albums[1]
    <3>1. albums \in Seq(Album)
      BY <1>1, SoundFacts
    <3> QED BY <1>4, <3>1, FrontListed
  <2>2. Sound(photos', albums', members')
    BY <1>1, <1>2, <1>4, <2>1, SoundAddPhoto
  <2> QED BY <1>1, <1>2, <1>3, <1>4, <2>2 DEF IInv
<1>5. CASE albums = <<>> /\ Unused(Library) /\ albums' = <<Library>>
           /\ members' = [members EXCEPT ![Library] = <<p>>]
  <2>1. Sound(photos', albums', members')
    BY <1>1, <1>2, <1>5, SoundNewLibrary
  <2>2. \A a \in loose : ~Listed(a, albums')
    <3>1. Library \notin loose
      BY <1>5 DEF Unused
    <3> QED BY <1>5, <3>1 DEF Listed
  <2> QED BY <1>1, <1>2, <1>3, <2>1, <2>2 DEF IInv
<1> QED BY <1>4, <1>5 DEF AddPhoto

LEMMA AddToAlbumKeeps ==
  ASSUME IInv, NEW a \in Album, NEW p \in Photo, NEW pos \in Position, AddToAlbum(a, p, pos)
  PROVE  IInv'
<1> DEFINE in == Insert(members[a], pos, p)
<1>1. /\ Sound(photos, albums, members) /\ id \in [Photo -> Ids] /\ SavedSound
      /\ loose \in SUBSET Album /\ \A b \in loose : ~Listed(b, albums)
  BY DEF IInv
<1>2. /\ Listed(p, photos) /\ pos \in Nat /\ members' = [members EXCEPT ![a] = in]
      /\ UNCHANGED <<photos, albums, loose, id, stored, saved>>
  BY ToSetListed, PositionNat DEF AddToAlbum
<1>3. /\ members[a] \in Seq(Photo)
      /\ \A b \in Album : Listed(b, albums) => \A q \in Photo : Listed(q, members[b]) => Listed(q, photos)
  BY <1>1, SoundFacts
<1>4. in \in Seq(Photo)
  BY <1>2, <1>3, InsertPlace
<1>5. \A y : Listed(y, in) <=> y = p \/ Listed(y, members[a])
  BY <1>2, <1>3, InsertPlace
<1> HIDE DEF in
<1>6. Listed(a, albums) => \A q \in Photo : Listed(q, in) => Listed(q, photos)
  BY <1>2, <1>3, <1>5
<1>7. \A q \in Photo : Listed(q, members[a]) => Listed(q, in)
  BY <1>5
<1>8. Sound(photos, albums, members')
  BY <1>1, <1>2, <1>4, <1>6, <1>7, SoundMembers
<1> QED BY <1>1, <1>2, <1>8, SavedKept DEF IInv

LEMMA ForgetKeeps ==
  ASSUME IInv, NEW p \in Photo, RemovePhoto(p)
  PROVE  IInv'
<1>1. /\ Sound(photos, albums, members) /\ id \in [Photo -> Ids] /\ SavedSound
      /\ loose \in SUBSET Album /\ \A b \in loose : ~Listed(b, albums)
  BY DEF IInv
<1>2. /\ photos' = Without(photos, {p})
      /\ members' = [a \in Album |-> IF Listed(a, albums) THEN Without(members[a], {p})
                                    ELSE members[a]]
      /\ UNCHANGED <<albums, loose, id, stored, saved>>
  BY DEF RemovePhoto, ForgetPhotos
<1>3. members' \in [Album -> Seq(Photo)]
  <2>1. \A a \in Album : members[a] \in Seq(Photo)
    BY <1>1, SoundFacts
  <2>2. \A a \in Album : Without(members[a], {p}) \in Seq(Photo)
    BY <2>1, WithoutListed
  <2> QED BY <1>2, <2>1, <2>2
<1>4. \A a \in Album : Listed(a, albums) => members'[a] = Without(members[a], {p})
  BY <1>2
<1>5. Sound(photos', albums, members')
  BY <1>1, <1>2, <1>3, <1>4, SoundForget
<1> QED BY <1>1, <1>2, <1>5, SavedKept DEF IInv

LEMMA RemoveFromAlbumKeeps ==
  ASSUME IInv, NEW a \in Album, NEW p \in Photo, RemoveFromAlbum(a, p)
  PROVE  IInv'
<1> DEFINE in == GListRemove(members[a], p)
<1>1. /\ Sound(photos, albums, members) /\ id \in [Photo -> Ids] /\ SavedSound
      /\ loose \in SUBSET Album /\ \A b \in loose : ~Listed(b, albums)
  BY DEF IInv
<1>2. /\ members' = [members EXCEPT ![a] = in] /\ (albums = <<>> \/ a # Head(albums))
      /\ UNCHANGED <<photos, albums, loose, id, stored, saved>>
  BY DEF RemoveFromAlbum
<1>3. /\ members[a] \in Seq(Photo) /\ albums \in Seq(Album)
      /\ \A b \in Album : Listed(b, albums) => \A q \in Photo : Listed(q, members[b]) => Listed(q, photos)
  BY <1>1, SoundFacts
<1>4. in \in Seq(Photo) /\ \A y : Listed(y, in) => Listed(y, members[a])
  BY <1>3, RemoveListed
<1>5. albums # <<>> => albums[1] # a
  BY <1>2, <1>3, FrontListed
<1> HIDE DEF in
<1>6. Listed(a, albums) => \A q \in Photo : Listed(q, in) => Listed(q, photos)
  BY <1>3, <1>4
<1>7. Sound(photos, albums, members')
  BY <1>1, <1>2, <1>4, <1>5, <1>6, SoundMembers
<1> QED BY <1>1, <1>2, <1>7, SavedKept DEF IInv

LEMMA CreateAlbumKeeps ==
  ASSUME IInv, NEW a \in Album, NEW pos \in Position, CreateAlbum(a, pos)
  PROVE  IInv'
<1>1. /\ Sound(photos, albums, members) /\ id \in [Photo -> Ids] /\ SavedSound
      /\ loose \in SUBSET Album /\ \A b \in loose : ~Listed(b, albums)
  BY DEF IInv
<1>2. /\ ~Listed(a, albums) /\ a \notin loose /\ pos \in Nat /\ (albums = <<>> \/ pos # 0)
      /\ albums' = Insert(albums, pos, a) /\ members' = [members EXCEPT ![a] = <<>>]
      /\ UNCHANGED <<photos, loose, id, stored, saved>>
  BY ToSetListed, PositionNat DEF CreateAlbum, Unused, Behind
<1>3. albums \in Seq(Album) /\ members \in [Album -> Seq(Photo)]
  BY <1>1, SoundFacts
<1>4. Sound(photos, albums, members')
  <2>1. <<>> \in Seq(Photo) /\ \A q : ~Listed(q, <<>>)
    BY EmptyListed
  <2>2. albums # <<>> => albums[1] # a
    BY <1>2, <1>3, FrontListed
  <2> QED BY <1>1, <1>2, <2>1, <2>2, SoundMembers
<1>5. \A q \in Photo : Listed(q, members'[a]) => Listed(q, photos)
  BY <1>2, <1>3, EmptyListed
<1>6. Sound(photos, albums', members')
  BY <1>2, <1>4, <1>5, SoundAlbumComes
<1>7. \A b \in loose : ~Listed(b, albums')
  BY <1>1, <1>2, <1>3, InsertPlace
<1> QED BY <1>1, <1>2, <1>6, <1>7, SavedKept DEF IInv

LEMMA AddAlbumKeeps ==
  ASSUME IInv, NEW a \in Album, NEW pos \in Position, AddAlbum(a, pos)
  PROVE  IInv'
<1>1. /\ Sound(photos, albums, members) /\ id \in [Photo -> Ids] /\ SavedSound
      /\ loose \in SUBSET Album /\ \A b \in loose : ~Listed(b, albums)
  BY DEF IInv
<1>2. /\ a \in loose /\ pos \in Nat /\ (albums = <<>> \/ pos # 0)
      /\ ToSet(members[a]) \subseteq ToSet(photos)
      /\ albums' = Insert(albums, pos, a) /\ loose' = loose \ {a}
      /\ UNCHANGED <<photos, members, id, stored, saved>>
  BY PositionNat DEF AddAlbum, Behind
<1>3. albums \in Seq(Album)
  BY <1>1, SoundFacts
<1>4. \A q \in Photo : Listed(q, members[a]) => Listed(q, photos)
  BY <1>2, ToSetListed
<1>5. Sound(photos, albums', members)
  BY <1>1, <1>2, <1>4, SoundAlbumComes
<1>6. \A b \in loose' : ~Listed(b, albums')
  BY <1>1, <1>2, <1>3, InsertPlace
<1> QED BY <1>1, <1>2, <1>5, <1>6, SavedKept DEF IInv

LEMMA UnlinkAlbumKeeps ==
  ASSUME IInv, NEW a \in Album, UnlinkAlbum(a)
  PROVE  IInv'
<1>1. /\ Sound(photos, albums, members) /\ id \in [Photo -> Ids] /\ SavedSound
      /\ loose \in SUBSET Album /\ \A b \in loose : ~Listed(b, albums)
  BY DEF IInv
<1>2. /\ Listed(a, albums) /\ a # Head(albums) /\ albums' = GListRemove(albums, a)
      /\ loose' = loose \cup {a} /\ UNCHANGED <<photos, members, id, stored, saved>>
  BY DEF UnlinkAlbum
<1>3. albums \in Seq(Album) /\ albums # <<>> /\ members \in [Album -> Seq(Photo)]
  BY <1>1, <1>2, SoundFacts, EmptyListed
<1>4. a # albums[1]
  BY <1>2, <1>3, FrontListed
<1>5. Sound(photos, albums', members) /\ ~Listed(a, albums')
  BY <1>1, <1>2, <1>3, <1>4, SoundAlbumGoes
<1>6. \A b \in loose : ~Listed(b, albums')
  BY <1>1, <1>2, <1>3, RemoveListed
<1> QED BY <1>1, <1>2, <1>5, <1>6, SavedKept DEF IInv
(* The photos of an album go with it, from the other albums as well; with  *)
(* the library all of them go.                                             *)
LEMMA RemoveAlbumKeeps ==
  ASSUME IInv, NEW a \in Album, NEW remove_pics \in BOOLEAN, RemoveAlbum(a, remove_pics)
  PROVE  IInv'
<1> DEFINE gone == IF remove_pics THEN ToSet(members[a]) ELSE {}
           ms == [b \in Album |-> IF Listed(b, albums) THEN Without(members[b], gone)
                                  ELSE members[b]]
<1>1. /\ Sound(photos, albums, members) /\ id \in [Photo -> Ids] /\ SavedSound
      /\ loose \in SUBSET Album /\ \A b \in loose : ~Listed(b, albums)
  BY DEF IInv
<1>2. /\ Listed(a, albums) /\ (a = Head(albums) => remove_pics)
      /\ photos' = Without(photos, gone) /\ albums' = GListRemove(albums, a)
      /\ members' = [b \in Album |-> IF b = a THEN <<>>
                                     ELSE IF Listed(b, albums) THEN Without(members[b], gone)
                                     ELSE members[b]]
      /\ UNCHANGED <<loose, id, stored, saved>>
  BY DEF RemoveAlbum
<1>3. albums \in Seq(Album) /\ photos \in Seq(Photo) /\ \A b \in Album : members[b] \in Seq(Photo)
  BY <1>1, SoundFacts
<1>4. albums # <<>> /\ Head(albums) = albums[1]
  BY <1>2, <1>3, EmptyListed, FrontListed
<1>5. \A b \in Album : Without(members[b], gone) \in Seq(Photo)
  <2> HIDE DEF gone
  <2> QED BY <1>3, WithoutListed
<1>6. a = albums[1] => photos' = <<>>
  <2> SUFFICES ASSUME a = albums[1] PROVE photos' = <<>>
    OBVIOUS
  <2>1. \A q \in Photo : Listed(q, photos) => q \in gone
    <3>1. \A q \in Photo : Listed(q, photos) => Listed(q, members[a])
      BY <1>1, <1>4, SoundFacts
    <3> QED BY <1>2, <1>4, <3>1, ToSetListed
  <2> HIDE DEF gone
  <2>2. photos' \in Seq(Photo) /\ \A q \in Photo : ~Listed(q, photos')
    BY <1>2, <1>3, <2>1, WithoutListed
  <2> QED BY <2>2, EmptyListed
<1> HIDE DEF gone
<1>7. ms \in [Album -> Seq(Photo)] /\ \A b \in Album : Listed(b, albums) => ms[b] = Without(members[b], gone)
  BY <1>3, <1>5
<1>8. Sound(photos', albums, ms)
  <2> HIDE DEF ms
  <2> QED BY <1>1, <1>2, <1>7, SoundForget
<1>9. members' \in [Album -> Seq(Photo)] /\ \A b \in Album : b # a => members'[b] = ms[b]
  BY <1>2, <1>3, <1>5
<1> HIDE DEF ms
<1>10. Sound(photos', albums', members') /\ ~Listed(a, albums')
  <2>1. Listed(a, albums) /\ albums' = GListRemove(albums, a)
    BY <1>2
  <2>2. members' \in [Album -> Seq(Photo)]
    BY <1>9
  <2>3. \A b \in Album : b # a => members'[b] = ms[b]
    BY <1>9
  <2>4. Sound(photos', GListRemove(albums, a), members') /\ ~Listed(a, GListRemove(albums, a))
    BY <1>6, <1>8, <2>1, <2>2, <2>3, SoundAlbumGoes
  <2> QED BY <2>1, <2>4
<1>11. \A b \in loose : ~Listed(b, albums')
  BY <1>1, <1>2, <1>3, RemoveListed
<1> QED BY <1>1, <1>2, <1>10, <1>11, SavedKept DEF IInv

(* What is written is what the invariant says of the file, with an id for  *)
(* each place of the list.                                                 *)
LEMMA WriteKeeps ==
  ASSUME IInv, Write
  PROVE  IInv'
<1> DEFINE ms == [a \in Album |-> IF Listed(a, albums) THEN members[a] ELSE <<>>]
<1>1. /\ Sound(photos, albums, members) /\ id \in [Photo -> Ids] /\ SavedSound
      /\ loose \in SUBSET Album /\ \A b \in loose : ~Listed(b, albums)
  BY DEF IInv
<1>2. /\ id' = [p \in Photo |-> IF Listed(p, photos) THEN Numbered(p) ELSE id[p]]
      /\ photos' = photos /\ albums' = albums /\ members' = members /\ loose' = loose
  BY DEF Write, db
<1>3. photos \in Seq(Photo) /\ IsInjective(photos)
  BY <1>1, SoundFacts
<1>4. albums \in Seq(Album) /\ \A a \in Album : members[a] \in Seq(Photo)
  BY <1>1, SoundFacts
<1>5. \A a \in Album : Listed(a, albums) => \A q \in Photo : Listed(q, members[a]) => Listed(q, photos)
  BY <1>1, SoundFacts
<1>6. ASSUME NEW p \in Photo, Listed(p, photos) PROVE Numbered(p) = IdIn(p, photos) /\ Numbered(p) \in Ids
  <2>1. FirstPlace(p, photos) \in 1 .. Len(photos) /\ Len(photos) \in Nat
    BY <1>3, <1>6, GListRemovePlaces
  <2>2. Len(photos) <= Cardinality(Photo) /\ Cardinality(Photo) \in Nat
    BY <1>3, PhotosBound
  <2>3. \A a, b, c \in Nat : a \in 1 .. b /\ b <= c => 64 + a - 1 \in 64 .. 64 + c - 1
    OBVIOUS
  <2>4. FirstPlace(p, photos) \in Nat
    BY <2>1
  <2> QED BY <2>1, <2>2, <2>3, <2>4 DEF Numbered, IdIn, Ids, FirstId
<1>7. id' \in [Photo -> Ids]
  BY <1>1, <1>2, <1>6
<1>8. \A p \in Photo : Listed(p, photos) => id'[p] = IdIn(p, photos)
  BY <1>2, <1>6
<1>9. Sound(photos, albums, ms) /\ \A a \in Album : ~Listed(a, albums) => ms[a] = <<>>
  <2>1. ms \in [Album -> Seq(Photo)] /\ \A a \in Album : Listed(a, albums) => ms[a] = members[a]
    <3>1. <<>> \in Seq(Photo)
      OBVIOUS
    <3> QED BY <1>4, <3>1
  <2>2. \A a \in Album : ~Listed(a, albums) => ms[a] = <<>>
    OBVIOUS
  <2> HIDE DEF ms
  <2>3. albums # <<>> => albums[1] \in Album /\ Listed(albums[1], albums)
    BY <1>4, FrontListed
  <2> QED BY <1>1, <2>1, <2>2, <2>3 DEF Sound
<1> DEFINE written == WriteMhfd([i \in DOMAIN photos |->
                          [id |-> id'[photos[i]], thumbs |-> Thumbnails(photos[i])]],
                       [i \in DOMAIN albums |->
                          [name |-> albums[i],
                           ids  |-> [j \in DOMAIN members[albums[i]] |->
                                       id'[members[albums[i]][j]]]]])
<1>10. written = WriteMhfd(Pictures(photos), Shown(photos, albums, ms))
  <2>1. /\ DOMAIN photos = 1 .. Len(photos)
        /\ \A i \in 1 .. Len(photos) : photos[i] \in Photo /\ Listed(photos[i], photos)
    BY <1>3, ListFacts
  <2>2. [i \in DOMAIN photos |-> [id |-> id'[photos[i]], thumbs |-> Thumbnails(photos[i])]]
          = Pictures(photos)
    BY <1>8, <2>1 DEF Pictures
  <2>3. /\ DOMAIN albums = 1 .. Len(albums)
        /\ \A i \in 1 .. Len(albums) : albums[i] \in Album /\ Listed(albums[i], albums)
    BY <1>4, ListFacts
  <2>4. ASSUME NEW i \in DOMAIN albums
        PROVE  [j \in DOMAIN members[albums[i]] |-> id'[members[albums[i]][j]]]
                 = [j \in DOMAIN ms[albums[i]] |-> IdIn(ms[albums[i]][j], photos)]
    <3> DEFINE a == albums[i]
               list == members[a]
    <3>1. a \in Album /\ Listed(a, albums)
      BY <2>3
    <3>2. ms[a] = list
      BY <3>1
    <3>3. list \in Seq(Photo)
      BY <1>4, <3>1
    <3>4. \A j \in DOMAIN list : list[j] \in Photo /\ Listed(list[j], list)
      <4> HIDE DEF list
      <4> QED BY <3>3, ListFacts
    <3>5. \A j \in DOMAIN list : id'[list[j]] = IdIn(list[j], photos)
      BY <1>5, <1>8, <3>1, <3>4
    <3> QED BY <3>2, <3>5
  <2>5. [i \in DOMAIN albums |->
           [name |-> albums[i],
            ids  |-> [j \in DOMAIN members[albums[i]] |-> id'[members[albums[i]][j]]]]]
          = Shown(photos, albums, ms)
    <3> HIDE DEF ms
    <3> QED BY <2>4 DEF Shown
  <2> QED BY <2>2, <2>5
<1>11. SavedSound'
  <2>1. CASE stored' = written /\ saved' = <<photos, albums, ms>>
    <3>1. stored' = WriteMhfd(Pictures(photos), Shown(photos, albums, ms))
      BY <1>10, <2>1
    <3> HIDE DEF ms, written
    <3> QED BY <1>9, <2>1, <3>1 DEF SavedSound
  <2>2. CASE UNCHANGED <<stored, saved>>
    BY <1>1, <2>2, SavedKept
  <2> QED BY <2>1, <2>2 DEF Write
<1> QED BY <1>1, <1>2, <1>7, <1>11 DEF IInv

(* What was saved comes back, or an empty library.                         *)
LEMMA ParseKeeps ==
  ASSUME IInv, Parse
  PROVE  IInv'
<1>1. SavedSound
  BY DEF IInv
<1>2. PICK ps, as, ms :
        /\ saved = <<ps, as, ms>> /\ Sound(ps, as, ms)
        /\ \A a \in Album : ~Listed(a, as) => ms[a] = <<>>
        /\ stored = WriteMhfd(Pictures(ps), Shown(ps, as, ms))
  BY <1>1 DEF SavedSound
<1> DEFINE ids == [i \in 1 .. Len(ps) |-> FirstId + i - 1]
<1>3. Parsed = [photos |-> ps, albums |-> as, members |-> ms, ids |-> ids]
  BY <1>2, SavedRead
<1>4. /\ photos' = ps /\ members' = ms
      /\ albums' = (IF ps = <<>> /\ as = <<>> THEN <<Library>> ELSE as)
      /\ id' = [p \in Photo |-> IF Listed(p, ps) THEN ids[FirstPlace(p, ps)] ELSE 0]
      /\ loose' = {} /\ UNCHANGED <<stored, saved>>
  <2> HIDE DEF ids
  <2>1. /\ photos' = Parsed.photos /\ members' = Parsed.members /\ loose' = {}
        /\ albums' = (IF Parsed.photos = <<>> /\ Parsed.albums = <<>> THEN <<Library>>
                      ELSE Parsed.albums)
        /\ id' = [p \in Photo |-> IF Listed(p, Parsed.photos)
                                  THEN Parsed.ids[FirstPlace(p, Parsed.photos)] ELSE 0]
        /\ UNCHANGED <<stored, saved>>
    BY DEF Parse
  <2>2. Parsed.photos = ps /\ Parsed.albums = as /\ Parsed.members = ms /\ Parsed.ids = ids
    BY <1>3
  <2> HIDE DEF Parsed
  <2> QED BY <2>1, <2>2
<1>5. ps \in Seq(Photo) /\ IsInjective(ps) /\ ms \in [Album -> Seq(Photo)]
  BY <1>2, SoundFacts
<1>6. ASSUME NEW p \in Photo, Listed(p, ps) PROVE ids[FirstPlace(p, ps)] \in Ids
  <2>1. FirstPlace(p, ps) \in 1 .. Len(ps) /\ Len(ps) \in Nat
    BY <1>5, <1>6, GListRemovePlaces
  <2>2. Len(ps) <= Cardinality(Photo) /\ Cardinality(Photo) \in Nat
    BY <1>5, PhotosBound
  <2>3. \A a, b, c \in Nat : a \in 1 .. b /\ b <= c => 64 + a - 1 \in 64 .. 64 + c - 1
    OBVIOUS
  <2>4. FirstPlace(p, ps) \in Nat
    BY <2>1
  <2>5. ids[FirstPlace(p, ps)] = 64 + FirstPlace(p, ps) - 1
    BY <2>1 DEF FirstId
  <2> HIDE DEF ids
  <2> QED BY <2>1, <2>2, <2>3, <2>4, <2>5 DEF Ids, FirstId
<1> HIDE DEF ids
<1>7. id' \in [Photo -> Ids]
  BY <1>4, <1>6, IdsHaveZero
<1>8. Sound(photos', albums', members')
  <2>1. CASE as # <<>> \/ ps # <<>>
    <3>1. albums' = as
      BY <1>4, <2>1
    <3> QED BY <1>2, <1>4, <3>1
  <2>2. CASE as = <<>> /\ ps = <<>>
    <3>1. Library \in Album /\ ~Listed(Library, as)
      BY <2>2, EmptyListed, PhotoAssumption
    <3>2. ms[Library] = <<>>
      BY <1>2, <3>1
    <3>3. \A q \in Photo : ~Listed(q, ms[Library])
      BY <3>2, EmptyListed
    <3>4. Sound(ps, Insert(as, 0, Library), ms)
      BY <1>2, <2>2, <3>1, <3>3, SoundAlbumComes
    <3>5. Sound(ps, <<Library>>, ms)
      <4> DEFINE one == <<Library>>
      <4>1. one \in Seq(Album) /\ one # <<>> /\ IsInjective(one) /\ one[1] = Library
        BY <3>1 DEF IsInjective
      <4>2. \A a : Listed(a, one) <=> a = Library
        BY DEF Listed
      <4>3. \A q \in Photo : ~Listed(q, ps)
        BY <2>2, EmptyListed
      <4> HIDE DEF one
      <4>4. Sound(ps, one, ms)
        BY <1>5, <3>3, <4>1, <4>2, <4>3 DEF Sound
      <4> QED BY <4>4 DEF one
    <3> QED BY <1>4, <2>2, <3>5
  <2> QED BY <2>1, <2>2
<1> QED BY <1>1, <1>4, <1>7, <1>8, SavedKept DEF IInv

-----------------------------------------------------------------------------
LEMMA InitSound == Init => IInv
<1> SUFFICES ASSUME Init PROVE IInv
  OBVIOUS
<1> DEFINE none == [a \in Album |-> <<>>]
           one == <<Library>>
<1>1. /\ photos = <<>> /\ albums = one /\ members = none /\ loose = {}
      /\ id = [p \in Photo |-> 0] /\ saved = <<<<>>, one, none>>
      /\ stored = WriteMhfd(<<>>, <<[name |-> Library, ids |-> <<>>]>>)
  BY DEF Init
<1>2. Library \in Album
  BY PhotoAssumption
<1>3. \A q : ~Listed(q, <<>>)
  BY EmptyListed
<1>4. one \in Seq(Album) /\ one # <<>> /\ IsInjective(one) /\ one[1] = Library
  BY <1>2 DEF IsInjective
<1>5. \A a : Listed(a, one) <=> a = Library
  BY DEF Listed
<1>6. none \in [Album -> Seq(Photo)] /\ \A a \in Album : none[a] = <<>>
  OBVIOUS
<1>7. <<>> \in Seq(Photo) /\ IsInjective(<<>>)
  BY DEF IsInjective
<1>8. Pictures(<<>>) = <<>>
  BY DEF Pictures
<1>9. Shown(<<>>, one, none) = <<[name |-> Library, ids |-> <<>>]>>
  <2>1. DOMAIN one = 1 .. 1
    OBVIOUS
  <2>2. [j \in DOMAIN none[Library] |-> IdIn(none[Library][j], <<>>)] = <<>>
    <3>1. none[Library] = <<>>
      BY <1>2, <1>6
    <3> HIDE DEF none
    <3> QED BY <3>1
  <2> HIDE DEF none, one
  <2>3. \A i \in 1 .. 1 : one[i] = Library
    BY <1>4
  <2>4. Shown(<<>>, one, none) = [i \in 1 .. 1 |-> [name |-> Library, ids |-> <<>>]]
    BY <2>1, <2>2, <2>3 DEF Shown
  <2> QED BY <2>4
<1> HIDE DEF none, one
<1>10. Sound(<<>>, one, none)
  BY <1>2, <1>3, <1>4, <1>5, <1>6, <1>7 DEF Sound
<1>11. SavedSound
  BY <1>1, <1>6, <1>8, <1>9, <1>10 DEF SavedSound
<1>12. id \in [Photo -> Ids]
  BY <1>1, IdsHaveZero
<1> QED BY <1>1, <1>10, <1>11, <1>12 DEF IInv

(* The photos and albums are sound in every state, and the file is the one *)
(* that was written for those that were saved.                             *)
THEOREM PhotosInvariant == Spec => []IInv
<1>1. Init => IInv
  BY InitSound
<1>2. IInv /\ [Next]_vars => IInv'
  <2> SUFFICES ASSUME IInv, [Next]_vars PROVE IInv'
    OBVIOUS
  <2>1. CASE \E p \in Photo, pos \in Position : AddPhoto(p, pos)
    BY <2>1, AddPhotoKeeps
  <2>2. CASE \E a \in Album, p \in Photo, pos \in Position : AddToAlbum(a, p, pos)
    BY <2>2, AddToAlbumKeeps
  <2>3. CASE \E p \in Photo : RemovePhoto(p)
    BY <2>3, ForgetKeeps
  <2>4. CASE \E a \in Album, p \in Photo : RemoveFromAlbum(a, p)
    BY <2>4, RemoveFromAlbumKeeps
  <2>5. CASE \E a \in Album, pos \in Position : CreateAlbum(a, pos) \/ AddAlbum(a, pos)
    BY <2>5, CreateAlbumKeeps, AddAlbumKeeps
  <2>6. CASE \E a \in Album, remove_pics \in BOOLEAN : RemoveAlbum(a, remove_pics)
    BY <2>6, RemoveAlbumKeeps
  <2>7. CASE \E a \in Album : UnlinkAlbum(a)
    BY <2>7, UnlinkAlbumKeeps
  <2>8. CASE Write
    BY <2>8, WriteKeeps
  <2>9. CASE Parse
    BY <2>9, ParseKeeps
  <2>10. CASE UNCHANGED vars
    BY <2>10 DEF vars, IInv, SavedSound
  <2> QED BY <2>1, <2>2, <2>3, <2>4, <2>5, <2>6, <2>7, <2>8, <2>9, <2>10 DEF Next
<1> QED BY <1>1, <1>2, PTL DEF Spec

(* No album in the list has a photo that was freed, and the library has    *)
(* every photo (itdb_photodb_remove_photo and the calls on albums).        *)
THEOREM PhotoAlbumsSound == Spec => []AlbumsSound
<1>1. IInv => AlbumsSound
  <2> SUFFICES ASSUME IInv PROVE AlbumsSound
    OBVIOUS
  <2>1. Sound(photos, albums, members) /\ id \in [Photo -> Ids] /\ loose \in SUBSET Album
    BY DEF IInv
  <2>2. \A a \in loose : ~Listed(a, albums)
    BY DEF IInv
  <2>3. /\ photos \in Seq(Photo) /\ albums \in Seq(Album)
        /\ IsInjective(photos) /\ IsInjective(albums) /\ members \in [Album -> Seq(Photo)]
    BY <2>1, SoundFacts
  <2>4. TypeOK
    BY <2>1, <2>2, <2>3, DistinctInjective, ToSetListed DEF TypeOK, Ids
  <2>5. \A a \in Album : Listed(a, albums) => \A q \in Photo : Listed(q, members[a]) => Listed(q, photos)
    BY <2>1, SoundFacts
  <2>6. \A list \in Seq(Photo) : ToSet(list) \subseteq Photo
    BY DEF ToSet
  <2>7. \A a \in ToSet(albums) : a \in Album /\ Listed(a, albums)
    BY <2>3, ToSetListed DEF ToSet
  <2>8. MembersInPhotos
    <3> SUFFICES ASSUME NEW a \in ToSet(albums), NEW q \in ToSet(members[a])
                 PROVE  q \in ToSet(photos)
      BY DEF MembersInPhotos
    <3>1. a \in Album /\ Listed(a, albums) /\ members[a] \in Seq(Photo)
      BY <2>3, <2>7
    <3>2. q \in Photo /\ Listed(q, members[a])
      BY <2>6, <3>1, ToSetListed
    <3> QED BY <2>5, <3>1, <3>2, ToSetListed
  <2>9. LibraryComplete
    <3> SUFFICES ASSUME albums # <<>> PROVE ToSet(photos) = ToSet(members[Head(albums)])
      BY DEF LibraryComplete
    <3>1. Head(albums) = albums[1] /\ albums[1] \in Album /\ Listed(albums[1], albums)
      BY <2>3, FrontListed
    <3>2. \A q \in Photo : Listed(q, photos) <=> Listed(q, members[albums[1]])
      BY <2>1, <2>5, <3>1, SoundFacts
    <3>3. members[albums[1]] \in Seq(Photo)
      BY <2>3, <3>1
    <3>4. \A q : q \in ToSet(photos) <=> q \in ToSet(members[albums[1]])
      BY <2>3, <2>6, <3>2, <3>3, ToSetListed
    <3> QED BY <3>1, <3>4
  <2> QED BY <2>4, <2>8, <2>9 DEF AlbumsSound
<1> QED BY <1>1, PhotosInvariant, PTL

(* What is on the iPod reads back as it was saved.                         *)
THEOREM PhotoFileReadsBack == Spec => []ReadsBack
<1>1. IInv => ReadsBack
  <2> SUFFICES ASSUME IInv PROVE ReadsBack
    OBVIOUS
  <2>1. PICK ps, as, ms :
          /\ saved = <<ps, as, ms>> /\ Sound(ps, as, ms)
          /\ \A a \in Album : ~Listed(a, as) => ms[a] = <<>>
          /\ stored = WriteMhfd(Pictures(ps), Shown(ps, as, ms))
    BY DEF IInv, SavedSound
  <2>2. Parsed = [photos |-> ps, albums |-> as, members |-> ms,
                  ids |-> [i \in 1 .. Len(ps) |-> FirstId + i - 1]]
    BY <2>1, SavedRead
  <2>3. Parsed.photos = ps /\ Parsed.albums = as /\ Parsed.members = ms
    BY <2>2
  <2> HIDE DEF Parsed
  <2> QED BY <2>1, <2>3 DEF ReadsBack
<1> QED BY <1>1, PhotosInvariant, PTL

(* A photo that leaves the database leaves every album in the list, and    *)
(* the other members stay as they were.                                    *)
THEOREM PhotoRemovalExact == Spec => RemovalExact
<1> DEFINE gone == ToSet(photos) \ ToSet(photos')
           Exact == gone # {} /\ ~Parse =>
                      \A a \in ToSet(albums) \cap ToSet(albums') :
                        members'[a] = Without(members[a], gone)
<1>1. IInv /\ [Next]_vars => [Exact]_vars
  <2> SUFFICES ASSUME IInv, Next PROVE Exact
    OBVIOUS
  <2> SUFFICES ASSUME gone # {}, ~Parse, NEW a \in ToSet(albums), a \in ToSet(albums')
               PROVE  members'[a] = Without(members[a], gone)
    OBVIOUS
  <2>1. /\ Sound(photos, albums, members) /\ photos \in Seq(Photo) /\ albums \in Seq(Album)
        /\ IsInjective(albums) /\ \A b \in Album : members[b] \in Seq(Photo)
    BY SoundFacts DEF IInv
  <2>2. /\ \A q \in Photo : Listed(q, photos) => q \in Photo
        /\ \A q : Listed(q, photos) => q \in Photo
    BY <2>1 DEF Listed
  <2>3. a \in Album /\ Listed(a, albums) /\ Listed(a, albums') /\ members[a] \in Seq(Photo)
    <3>1. a \in Album
      BY <2>1 DEF ToSet
    <3> QED BY <2>1, <3>1, ToSetListed
  <2>4. \A y : Listed(y, members[a]) => Listed(y, photos)
    <3>1. \A q \in Photo : Listed(q, members[a]) => Listed(q, photos)
      BY <2>1, <2>3, SoundFacts
    <3>2. \A y : Listed(y, members[a]) => y \in Photo
      BY <2>3 DEF Listed
    <3> QED BY <3>1, <3>2
  <2>5. \A y : y \in gone <=> Listed(y, photos) /\ ~Listed(y, photos')
    BY ToSetListed
  <2> HIDE DEF gone
  <2>6. ~(photos' = photos)
    BY <2>5
  <2>7. CASE \E p \in Photo, pos \in Position : AddPhoto(p, pos)
    <3>1. PICK p \in Photo, pos \in Position : photos' = Insert(photos, pos, p)
      BY <2>7 DEF AddPhoto
    <3>2. \A y : Listed(y, photos) => Listed(y, photos')
      <4>1. pos \in Nat
        BY PositionNat
      <4> QED BY <2>1, <3>1, <4>1, InsertPlace
    <3> QED BY <2>5, <3>2
  <2>8. CASE \E p \in Photo : RemovePhoto(p)
    <3>1. PICK p \in Photo : /\ photos' = Without(photos, {p})
                             /\ members'[a] = Without(members[a], {p})
      BY <2>3, <2>8 DEF RemovePhoto, ForgetPhotos
    <3>2. \A y : y \in gone <=> Listed(y, photos) /\ y \in {p}
      BY <2>1, <2>5, <3>1, WithoutListed
    <3>3. \A y : Listed(y, members[a]) => (y \in {p} <=> y \in gone)
      BY <2>4, <3>2
    <3>4. Without(members[a], {p}) = Without(members[a], gone)
      BY <2>3, <3>3, WithoutSame
    <3> QED BY <3>1, <3>4
  <2>9. CASE \E b \in Album, remove_pics \in BOOLEAN : RemoveAlbum(b, remove_pics)
    <3>1. PICK b \in Album, remove_pics \in BOOLEAN : RemoveAlbum(b, remove_pics)
      BY <2>9
    <3> DEFINE took == IF remove_pics THEN ToSet(members[b]) ELSE {}
    <3>2. /\ albums' = GListRemove(albums, b) /\ photos' = Without(photos, took)
          /\ members' = [c \in Album |-> IF c = b THEN <<>>
                                         ELSE IF Listed(c, albums) THEN Without(members[c], took)
                                         ELSE members[c]]
      BY <3>1 DEF RemoveAlbum
    <3> HIDE DEF took
    <3>3. a # b
      BY <2>1, <2>3, <3>2, RemoveInjective
    <3>4. members'[a] = Without(members[a], took)
      BY <2>3, <3>2, <3>3
    <3>5. \A y : y \in gone <=> Listed(y, photos) /\ y \in took
      BY <2>1, <2>5, <3>2, WithoutListed
    <3>6. \A y : Listed(y, members[a]) => (y \in took <=> y \in gone)
      BY <2>4, <3>5
    <3>7. Without(members[a], took) = Without(members[a], gone)
      BY <2>3, <3>6, WithoutSame
    <3> QED BY <3>4, <3>7
  <2>10. CASE \/ \E b \in Album, p \in Photo, pos \in Position : AddToAlbum(b, p, pos)
              \/ \E b \in Album, p \in Photo : RemoveFromAlbum(b, p)
              \/ \E b \in Album, pos \in Position : CreateAlbum(b, pos) \/ AddAlbum(b, pos)
              \/ \E b \in Album : UnlinkAlbum(b)
              \/ Write
    <3>1. photos' = photos
      BY <2>10 DEF AddToAlbum, RemoveFromAlbum, CreateAlbum, AddAlbum, UnlinkAlbum, Write, db
    <3> QED BY <2>6, <3>1
  <2> QED BY <2>7, <2>8, <2>9, <2>10 DEF Next
<1>2. IInv /\ [Next]_vars => [gone # {} /\ ~Parse =>
                                \A a \in ToSet(albums) \cap ToSet(albums') :
                                  members'[a] = Without(members[a], gone)]_vars
  BY <1>1
<1> QED BY <1>2, PhotosInvariant, PTL DEF Spec, RemovalExact
=============================================================================
