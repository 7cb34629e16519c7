---------------------------- MODULE ArtworkProofs ----------------------------
(***************************************************************************)
(* First the thumbnail files: ithumb_rearrange_thumbnail_file() does what  *)
(* IthmbSlots promises, for any number of thumbnails, files and slots,     *)
(* when the pictures of a file follow each other without padding.  Then    *)
(* the covers in them, of ArtworkDb: tracks keep theirs, for any tracks,   *)
(* albums and pictures.                                                    *)
(***************************************************************************)
EXTENDS IthmbRearrange, ArtworkDb, GListProofs, FiniteSetTheorems

(* How the pictures pack, in numbers of slots: first[t] is the slot that t *)
(* used at first, here[t] the one it uses now.                             *)
Unused(U, n) == (0 .. n - 1) \ U
Above(U, n) == {u \in U : u > n}
UpFrom(U, n) == {u \in U : u >= n}
FirstUsed(first) == {first[t] : t \in DOMAIN first}

(* t has moved to an unused slot, and as many have been filled before it   *)
(* as there were pictures behind its own.                                  *)
Filled(U, place, from, s) ==
  /\ place \in Unused(U, s)
  /\ Cardinality(Unused(U, place)) = Cardinality(Above(U, from))

(* Slots before s are filled, with the pictures from slot m on.            *)
Scanned(first, here, s, m) ==
  LET U == FirstUsed(first) IN
  /\ s <= m
  /\ \A t \in DOMAIN first : first[t] < m => here[t] = first[t]
  /\ \A t \in DOMAIN first : first[t] >= m => Filled(U, here[t], first[t], s)
  /\ Cardinality(Unused(U, s)) = Cardinality(UpFrom(U, m))

(* The picture of slot l is in slot s as well.                             *)
Moving(first, here, s, l) ==
  LET U == FirstUsed(first) IN
  /\ s < l /\ s \notin U /\ l \in U
  /\ \A t \in DOMAIN first : first[t] < l => here[t] = first[t]
  /\ \A t \in DOMAIN first : first[t] = l => here[t] \in {s, l}
  /\ \A t \in DOMAIN first : first[t] > l => Filled(U, here[t], first[t], s)
  /\ Cardinality(Unused(U, s)) = Cardinality(Above(U, l))

SlotsOf(first, here) ==
  /\ first \in [DOMAIN first -> Nat] /\ here \in [DOMAIN first -> Nat]
  /\ IsFiniteSet(FirstUsed(first))

LEMMA FirstUsedTyped ==
  ASSUME NEW first, NEW here, SlotsOf(first, here)
  PROVE  /\ FirstUsed(first) \in SUBSET Nat /\ IsFiniteSet(FirstUsed(first))
         /\ \A t \in DOMAIN first : first[t] \in FirstUsed(first) /\ first[t] \in Nat
                                    /\ here[t] \in Nat
  BY DEF FirstUsed, SlotsOf

LEMMA UnusedCount ==
  ASSUME NEW U, NEW n \in Nat
  PROVE  /\ IsFiniteSet(Unused(U, n)) /\ Cardinality(Unused(U, n)) \in Nat
         /\ n \in U => Unused(U, n + 1) = Unused(U, n)
         /\ n \notin U => /\ Unused(U, n + 1) = Unused(U, n) \cup {n}
                          /\ Cardinality(Unused(U, n + 1)) = Cardinality(Unused(U, n)) + 1
<1>1. IsFiniteSet(0 .. n - 1)
  BY FS_Interval
<1>2. Unused(U, n) \in SUBSET (0 .. n - 1) /\ n \notin Unused(U, n)
  BY DEF Unused
<1>3. IsFiniteSet(Unused(U, n))
  BY <1>1, <1>2, FS_Subset
<1>4. n \in U => Unused(U, n + 1) = Unused(U, n)
  BY DEF Unused
<1>5. n \notin U => Unused(U, n + 1) = Unused(U, n) \cup {n}
  BY DEF Unused
<1>6. Cardinality(Unused(U, n) \cup {n}) = Cardinality(Unused(U, n)) + 1
  BY <1>2, <1>3, FS_AddElement
<1> QED BY <1>3, <1>4, <1>5, <1>6, FS_CardinalityType

(* No two unused slots have as many before them.                           *)
LEMMA UnusedOrder ==
  ASSUME NEW U, NEW a \in Nat, NEW b \in Nat, a \notin U, b \notin U,
         Cardinality(Unused(U, a)) = Cardinality(Unused(U, b))
  PROVE  a = b
<1>1. ASSUME NEW x \in Nat, NEW y \in Nat, x \notin U, x < y
      PROVE  Cardinality(Unused(U, x)) # Cardinality(Unused(U, y))
  <2>1. Unused(U, x) \in SUBSET Unused(U, y)
    BY <1>1 DEF Unused
  <2>2. x \in Unused(U, y) /\ x \notin Unused(U, x)
    BY <1>1 DEF Unused
  <2>3. IsFiniteSet(Unused(U, y))
    BY UnusedCount
  <2> QED BY <2>1, <2>2, <2>3, FS_Subset
<1> QED BY <1>1

LEMMA AboveCount ==
  ASSUME NEW U \in SUBSET Nat, IsFiniteSet(U), NEW n \in U
  PROVE  Cardinality(UpFrom(U, n)) = Cardinality(Above(U, n)) + 1
<1>1. IsFiniteSet(Above(U, n)) /\ n \notin Above(U, n)
  <2>1. Above(U, n) \in SUBSET U /\ n \notin Above(U, n)
    BY DEF Above
  <2> QED BY <2>1, FS_Subset
<1>2. UpFrom(U, n) = Above(U, n) \cup {n}
  <2>1. \A u \in U : u >= n <=> (u > n \/ u = n)
    OBVIOUS
  <2> QED BY <2>1 DEF UpFrom, Above
<1> QED BY <1>1, <1>2, FS_AddElement

LEMMA ScanStarts ==
  ASSUME NEW first, SlotsOf(first, first), NEW m \in Nat, \A t \in DOMAIN first : first[t] < m
  PROVE  Scanned(first, first, 0, m)
<1> DEFINE U == FirstUsed(first)
<1>1. U \in SUBSET Nat /\ \A t \in DOMAIN first : first[t] \in Nat
  BY FirstUsedTyped
<1>2. \A u \in U : u < m
  BY DEF FirstUsed
<1>3. Unused(U, 0) = {} /\ UpFrom(U, m) = {}
  BY <1>1, <1>2 DEF Unused, UpFrom
<1>4. \A t \in DOMAIN first : ~(first[t] >= m)
  BY <1>1
<1> QED BY <1>3, <1>4 DEF Scanned

(* A slot in use is passed.                                                *)
LEMMA ScanPasses ==
  ASSUME NEW first, NEW here, SlotsOf(first, here), NEW s \in Nat, NEW m \in Nat,
         Scanned(first, here, s, m), NEW x \in DOMAIN first, here[x] = s
  PROVE  Scanned(first, here, s + 1, m)
<1> DEFINE U == FirstUsed(first)
<1>1. /\ U \in SUBSET Nat
      /\ \A t \in DOMAIN first : first[t] \in U /\ first[t] \in Nat /\ here[t] \in Nat
  BY FirstUsedTyped
<1>2. first[x] < m
  <2>1. ~Filled(U, here[x], first[x], s)
    BY DEF Filled, Unused
  <2> QED BY <1>1, <2>1 DEF Scanned
<1>3. first[x] = s /\ s \in U /\ s + 1 <= m
  <2>1. first[x] = s
    BY <1>2 DEF Scanned
  <2> QED BY <1>1, <1>2, <2>1
<1>4. Unused(U, s + 1) = Unused(U, s)
  BY <1>3, UnusedCount
<1>5. \A p, q : Filled(U, p, q, s) => Filled(U, p, q, s + 1)
  BY <1>4 DEF Filled
<1> QED BY <1>3, <1>4, <1>5 DEF Scanned

(* The last slot in use is copied to an unused one.                        *)
LEMMA ScanCopies ==
  ASSUME NEW first, NEW here, SlotsOf(first, here), NEW s \in Nat, NEW m \in Nat,
         Scanned(first, here, s, m), \A t \in DOMAIN first : here[t] # s,
         NEW x \in DOMAIN first, s < here[x], \A t \in DOMAIN first : here[t] <= here[x]
  PROVE  Moving(first, here, s, here[x])
<1> DEFINE U == FirstUsed(first)
           l == here[x]
<1>1. /\ U \in SUBSET Nat
      /\ \A t \in DOMAIN first : first[t] \in U /\ first[t] \in Nat /\ here[t] \in Nat
  BY FirstUsedTyped
<1>2. \A t \in DOMAIN first : first[t] >= m => here[t] < s
  <2>1. \A p, q : Filled(U, p, q, s) => p < s
    BY DEF Filled, Unused
  <2> QED BY <2>1 DEF Scanned
<1>3. first[x] < m /\ first[x] = l /\ l \in U /\ l \in Nat /\ s < l /\ l < m
  <2>1. first[x] < m
    BY <1>1, <1>2
  <2> QED BY <1>1, <2>1 DEF Scanned
<1>4. \A t \in DOMAIN first : first[t] < m => here[t] = first[t] /\ first[t] <= l
  BY DEF Scanned
<1>5. s \notin U
  <2>1. ASSUME NEW t \in DOMAIN first, first[t] = s PROVE FALSE
    <3>1. here[t] = s
      BY <1>3, <1>4, <2>1
    <3> QED BY <3>1
  <2> QED BY <2>1 DEF FirstUsed
<1>6. \A t \in DOMAIN first : first[t] > l => first[t] >= m
  BY <1>1, <1>3, <1>4
<1>7. Above(U, l) = UpFrom(U, m)
  <2>1. ASSUME NEW u \in U PROVE u > l <=> u >= m
    <3>1. PICK t \in DOMAIN first : u = first[t]
      BY DEF FirstUsed
    <3>2. u \in Nat /\ m \in Nat /\ l \in Nat /\ l < m
      BY <1>1, <1>3
    <3> QED BY <1>6, <3>1, <3>2
  <2> QED BY <2>1 DEF Above, UpFrom
<1>8. \A t \in DOMAIN first : first[t] <= l => here[t] = first[t]
  BY <1>1, <1>3, <1>4
<1>9. \A t \in DOMAIN first : first[t] > l => Filled(U, here[t], first[t], s)
  BY <1>6 DEF Scanned
<1>10. Cardinality(Unused(U, s)) = Cardinality(Above(U, l))
  BY <1>7 DEF Scanned
<1>11. \A t \in DOMAIN first : first[t] < l => here[t] = first[t]
  BY <1>1, <1>3, <1>8
<1>12. \A t \in DOMAIN first : first[t] = l => here[t] \in {s, l}
  BY <1>1, <1>3, <1>8
<1> HIDE DEF l, U
<1>13. Moving(first, here, s, l)
  BY ONLY <1>3, <1>5, <1>9, <1>10, <1>11, <1>12 DEF Moving, U
<1> QED BY <1>13 DEF l

(* A thumbnail follows its picture.                                        *)
LEMMA MovingFollows ==
  ASSUME NEW first, NEW here, SlotsOf(first, here), NEW s \in Nat, NEW l \in Nat,
         Moving(first, here, s, l), NEW x \in DOMAIN first, here[x] = l
  PROVE  Moving(first, [here EXCEPT ![x] = s], s, l)
<1> DEFINE U == FirstUsed(first)
           new == [here EXCEPT ![x] = s]
<1>1. \A t \in DOMAIN first : first[t] \in Nat /\ here[t] \in Nat
  BY FirstUsedTyped
<1>2. first[x] = l
  <2>1. \A p, q : Filled(U, p, q, s) => p < s
    BY DEF Filled, Unused
  <2>2. s < l
    BY DEF Moving
  <2>3. ~(first[x] < l)
    BY <1>1 DEF Moving
  <2>4. ~(first[x] > l)
    BY <1>1, <2>1, <2>2 DEF Moving
  <2> QED BY <1>1, <2>3, <2>4
<1>3. \A t \in DOMAIN first : new[t] = IF t = x THEN s ELSE here[t]
  BY DEF SlotsOf
<1> HIDE DEF new
<1>4. \A t \in DOMAIN first : first[t] # l => new[t] = here[t]
  BY <1>2, <1>3
<1>5. \A t \in DOMAIN first : first[t] = l => new[t] \in {s, l}
  BY <1>3 DEF Moving
<1>6. \A t \in DOMAIN first : first[t] < l => new[t] = first[t]
  <2>1. \A t \in DOMAIN first : first[t] < l => here[t] = first[t]
    BY DEF Moving
  <2> QED BY <1>1, <1>4, <2>1
<1>7. \A t \in DOMAIN first : first[t] > l => Filled(U, new[t], first[t], s)
  <2>1. \A t \in DOMAIN first : first[t] > l => Filled(U, here[t], first[t], s)
    BY DEF Moving
  <2> QED BY <1>1, <1>4, <2>1
<1>8. s < l /\ s \notin U /\ l \in U /\ Cardinality(Unused(U, s)) = Cardinality(Above(U, l))
  BY DEF Moving
<1> HIDE DEF U
<1>9. Moving(first, new, s, l)
  BY ONLY <1>5, <1>6, <1>7, <1>8 DEF Moving, U
<1> QED BY <1>9 DEF new

(* When all have, the next slot is visited.                                *)
LEMMA MovingEnds ==
  ASSUME NEW first, NEW here, SlotsOf(first, here), NEW s \in Nat, NEW l \in Nat,
         Moving(first, here, s, l), \A t \in DOMAIN first : here[t] # l
  PROVE  Scanned(first, here, s + 1, l)
<1> DEFINE U == FirstUsed(first)
<1>1. /\ U \in SUBSET Nat /\ IsFiniteSet(U)
      /\ \A t \in DOMAIN first : first[t] \in Nat /\ here[t] \in Nat
  BY FirstUsedTyped
<1>2. s < l /\ s \notin U /\ l \in U /\ Cardinality(Unused(U, s)) = Cardinality(Above(U, l))
  BY DEF Moving
<1>3. /\ Unused(U, s + 1) = Unused(U, s) \cup {s}
      /\ Cardinality(Unused(U, s + 1)) = Cardinality(UpFrom(U, l))
  BY <1>1, <1>2, UnusedCount, AboveCount
<1>4. \A p, q : Filled(U, p, q, s) => Filled(U, p, q, s + 1)
  BY <1>3 DEF Filled
<1>5. Filled(U, s, l, s + 1)
  BY <1>2, <1>3 DEF Filled
<1>6. \A t \in DOMAIN first : first[t] >= l => Filled(U, here[t], first[t], s + 1)
  <2>1. ASSUME NEW t \in DOMAIN first, first[t] >= l PROVE Filled(U, here[t], first[t], s + 1)
    <3>1. CASE first[t] = l
      <4>1. here[t] = s
        BY <3>1 DEF Moving
      <4> QED BY <1>5, <3>1, <4>1
    <3>2. CASE first[t] > l
      BY <1>4, <3>2 DEF Moving
    <3> QED BY <1>1, <2>1, <3>1, <3>2
  <2> QED BY <2>1
<1>7. s + 1 <= l /\ \A t \in DOMAIN first : first[t] < l => here[t] = first[t]
  BY <1>2 DEF Moving
<1> QED BY <1>3, <1>6, <1>7 DEF Scanned

(* When nothing is left behind the slots that were visited, the pictures   *)
(* are where PackedSlot says.                                              *)
LEMMA ScanPacks ==
  ASSUME NEW first, NEW here, SlotsOf(first, here), NEW s \in Nat, NEW m \in Nat,
         Scanned(first, here, s, m), \A t \in DOMAIN first : here[t] < s
  PROVE  \A t \in DOMAIN first : here[t] = PackedSlot(FirstUsed(first), first[t])
<1> DEFINE U == FirstUsed(first)
<1>1. /\ U \in SUBSET Nat /\ IsFiniteSet(U)
      /\ \A t \in DOMAIN first : first[t] \in U /\ first[t] \in Nat /\ here[t] \in Nat
  BY FirstUsedTyped
<1>2. \A u \in U : u < m <=> u < s
  <2>1. ASSUME NEW u \in U, u < m PROVE u < s
    <3>1. PICK t \in DOMAIN first : u = first[t]
      BY DEF FirstUsed
    <3> QED BY <2>1, <3>1 DEF Scanned
  <2>2. s <= m
    BY DEF Scanned
  <2> QED BY <1>1, <2>1, <2>2
<1>3. Cardinality(U) = s
  <2>1. IsFiniteSet(UpFrom(U, m)) /\ IsFiniteSet(0 .. s - 1) /\ Cardinality(0 .. s - 1) = s
    <3>1. UpFrom(U, m) \in SUBSET U
      BY DEF UpFrom
    <3>2. IsFiniteSet(0 .. s - 1) /\ Cardinality(0 .. s - 1) = IF 0 > s - 1 THEN 0 ELSE s - 1 - 0 + 1
      <4>1. 0 \in Int /\ s - 1 \in Int
        OBVIOUS
      <4> QED BY ONLY <4>1, FS_Interval
    <3>3. Cardinality(0 .. s - 1) = s
      BY <3>2
    <3> QED BY <1>1, <3>1, <3>2, <3>3, FS_Subset
  <2> DEFINE Low == (0 .. s - 1) \cap U
  <2>2. /\ IsFiniteSet(Low)
        /\ Cardinality(Unused(U, s)) = Cardinality(0 .. s - 1) - Cardinality(Low)
    <3>1. Low \in SUBSET U
      OBVIOUS
    <3> QED BY <1>1, <2>1, <3>1, FS_Subset, FS_Difference DEF Unused
  <2>3. U = Low \cup UpFrom(U, m) /\ Low \cap UpFrom(U, m) = {}
    <3>1. \A u \in U : u \in Low <=> u < s
      BY <1>1
    <3>2. \A u \in U : u \in UpFrom(U, m) <=> ~(u < m)
      BY <1>1 DEF UpFrom
    <3>3. Low \subseteq U /\ UpFrom(U, m) \subseteq U
      BY DEF UpFrom
    <3> HIDE DEF Low, U
    <3> QED BY <1>2, <3>1, <3>2, <3>3
  <2>4. Cardinality(U) = Cardinality(Low) + Cardinality(UpFrom(U, m))
    <3>1. Cardinality(Low \cup UpFrom(U, m))
            = Cardinality(Low) + Cardinality(UpFrom(U, m)) - Cardinality(Low \cap UpFrom(U, m))
      BY <2>1, <2>2, FS_Union
    <3>2. Cardinality(Low \cap UpFrom(U, m)) = 0
      BY <2>3, FS_EmptySet
    <3>3. Cardinality(Low) \in Nat /\ Cardinality(UpFrom(U, m)) \in Nat
      BY <2>1, <2>2, FS_CardinalityType
    <3> HIDE DEF Low, U
    <3>4. Cardinality(U) = Cardinality(Low \cup UpFrom(U, m))
      BY <2>3
    <3> QED BY <3>1, <3>2, <3>3, <3>4
  <2>5. Cardinality(Unused(U, s)) = Cardinality(UpFrom(U, m))
    BY DEF Scanned
  <2>6. Cardinality(Low) \in Nat /\ Cardinality(UpFrom(U, m)) \in Nat
    BY <2>1, <2>2, FS_CardinalityType
  <2> HIDE DEF Low, U
  <2> QED BY <2>1, <2>2, <2>4, <2>5, <2>6
<1>4. UnusedBefore(U) = Unused(U, s)
  BY <1>3 DEF UnusedBefore, Unused
<1>5. \A p \in Unused(U, s) : {u \in Unused(U, s) : u < p} = Unused(U, p)
  <2> SUFFICES ASSUME NEW p \in Unused(U, s) PROVE {u \in Unused(U, s) : u < p} = Unused(U, p)
    OBVIOUS
  <2>1. p \in Nat /\ p < s
    BY DEF Unused
  <2>2. \A u : (u \in 0 .. s - 1 /\ u < p) <=> u \in 0 .. p - 1
    BY <2>1
  <2> HIDE DEF U
  <2> QED BY <2>2 DEF Unused
<1>6. ASSUME NEW t \in DOMAIN first PROVE here[t] = PackedSlot(U, first[t])
  <2>1. CASE first[t] < s
    <3>1. here[t] = first[t]
      BY <1>1, <1>2, <2>1 DEF Scanned
    <3> QED BY <1>3, <2>1, <3>1 DEF PackedSlot
  <2>2. CASE ~(first[t] < s)
    <3>1. first[t] >= m
      BY <1>1, <1>2, <2>2
    <3>2. /\ here[t] \in Unused(U, s)
          /\ Cardinality(Unused(U, here[t])) = Cardinality(Above(U, first[t]))
      BY <3>1 DEF Scanned, Filled
    <3>3. Above(U, first[t]) = {u \in U : u > first[t]}
      BY DEF Above
    <3>4. PackedSlot(U, first[t])
            = CHOOSE free \in Unused(U, s) :
                Cardinality({u \in Unused(U, s) : u < free}) = Cardinality(Above(U, first[t]))
      BY <1>3, <1>4, <2>2, <3>3 DEF PackedSlot
    <3> DEFINE Q(free) == Cardinality({u \in Unused(U, s) : u < free})
                            = Cardinality(Above(U, first[t]))
               p == CHOOSE free \in Unused(U, s) : Q(free)
    <3>5. Q(here[t])
      BY <1>5, <3>2
    <3>6. p \in Unused(U, s) /\ Q(p)
      <4> HIDE DEF Q
      <4> QED BY <3>2, <3>5
    <3> HIDE DEF p
    <3>7. Cardinality(Unused(U, p)) = Cardinality(Unused(U, here[t]))
      BY <1>5, <3>2, <3>6
    <3>8. p \in Nat /\ p \notin U /\ here[t] \in Nat /\ here[t] \notin U
      BY <3>2, <3>6 DEF Unused
    <3>9. p = here[t]
      <4> HIDE DEF U, Q
      <4> QED BY ONLY <3>7, <3>8, UnusedOrder
    <3> QED BY <3>4, <3>9 DEF p
  <2> QED BY <2>1, <2>2
<1> QED BY <1>6

-----------------------------------------------------------------------------
(* The pictures of a format without padding follow each other.             *)
NoPadding == Stride = Size

(* The places where a picture may begin, and what their numbers are.       *)
Grid == {n * Size : n \in Nat}

LEMMA SizeTyped == Size \in Nat /\ Size >= 1 /\ MaxSlots \in Nat /\ MaxSlots >= 1
BY RearrangeAssumption

LEMMA NumberOf ==
  ASSUME NEW n \in Nat
  PROVE  Number(n * Size) = n /\ n * Size \in Grid /\ n * Size \in Nat
<1>1. Size \in Nat /\ Size >= 1
  BY SizeTyped
<1>2. \A k, s \in Nat : s >= 1 => (k * s) \div s = k /\ k * s \in Nat
  OBVIOUS
<1> QED BY <1>1, <1>2 DEF Number, Grid

LEMMA NumberBack ==
  ASSUME NEW a \in Grid
  PROVE  a \in Nat /\ Number(a) \in Nat /\ Number(a) * Size = a
<1>1. PICK n \in Nat : a = n * Size
  BY DEF Grid
<1> QED BY <1>1, NumberOf

LEMMA NumberOrder ==
  ASSUME NEW a \in Grid, NEW b \in Grid
  PROVE  /\ a < b <=> Number(a) < Number(b)
         /\ a = b <=> Number(a) = Number(b)
         /\ a < b => a + Size <= b
<1>1. /\ a = Number(a) * Size /\ b = Number(b) * Size
      /\ Number(a) \in Nat /\ Number(b) \in Nat
  BY NumberBack
<1>2. \A k, n, s \in Nat : s >= 1 =>
        /\ k * s < n * s <=> k < n
        /\ k * s = n * s <=> k = n
        /\ k < n => k * s + s <= n * s
  <2>1. ASSUME NEW k \in Nat, NEW n \in Nat, NEW s \in Nat, s >= 1, k < n
        PROVE  k * s + s <= n * s
    <3>1. PICK d \in Nat : n = k + 1 + d
      <4>1. n - k - 1 \in Nat /\ n = k + 1 + (n - k - 1)
        BY <2>1
      <4> QED BY <4>1
    <3>2. n * s = k * s + s + d * s /\ d * s \in Nat /\ k * s \in Nat
      BY <3>1
    <3> QED BY <3>2
  <2>2. ASSUME NEW k \in Nat, NEW n \in Nat, NEW s \in Nat, s >= 1, k < n
        PROVE  k * s < n * s
    <3>1. k * s + s <= n * s /\ k * s \in Nat /\ n * s \in Nat
      BY <2>1, <2>2
    <3> QED BY <2>2, <3>1
  <2> QED BY <2>1, <2>2
<1> QED BY <1>1, <1>2, SizeTyped

LEMMA NumberMonotone ==
  ASSUME NEW a \in Grid, NEW b \in Grid, a <= b
  PROVE  Number(a) <= Number(b)
<1>1. a \in Nat /\ b \in Nat /\ Number(a) \in Nat /\ Number(b) \in Nat
  BY NumberBack
<1>2. a < b \/ a = b
  BY <1>1
<1>3. Number(a) < Number(b) \/ Number(a) = Number(b)
  BY <1>2, NumberOrder
<1> QED BY <1>1, <1>3

LEMMA NumberNext ==
  ASSUME NEW a \in Grid
  PROVE  a + Size \in Grid /\ Number(a + Size) = Number(a) + 1
<1>1. a = Number(a) * Size /\ Number(a) \in Nat /\ Size \in Nat
  BY NumberBack, SizeTyped
<1>2. \A k, s \in Nat : k * s + s = (k + 1) * s
  OBVIOUS
<1>3. a + Size = (Number(a) + 1) * Size
  BY <1>1, <1>2
<1> QED BY <1>1, <1>3, NumberOf

LEMMA NumberZero == 0 \in Grid /\ Number(0) = 0
<1>1. 0 * Size = 0
  BY SizeTyped
<1> QED BY <1>1, NumberOf

(* Every number of cells that Size divides is such a place.                *)
LEMMA NumberDivides ==
  ASSUME NEW a \in Nat, a % Size = 0
  PROVE  a \in Grid
<1>1. \A k, s \in Nat : s >= 1 => k = (k \div s) * s + (k % s) /\ k \div s \in Nat
  OBVIOUS
<1>2. a = (a \div Size) * Size /\ a \div Size \in Nat
  BY <1>1, SizeTyped
<1> QED BY <1>2 DEF Grid

LEMMA GridDivides ==
  ASSUME NEW a \in Grid
  PROVE  a % Size = 0
<1>1. \A k, s \in Nat : s >= 1 => (k * s) % s = 0
  OBVIOUS
<1> QED BY <1>1, NumberBack, SizeTyped

-----------------------------------------------------------------------------
(* A file is worked on.                                                    *)
Active == {"slot", "copy", "move", "truncate"}

(* At most one file is, and its thumbnails are in the list.                *)
TypesInv ==
  /\ fileOf \in [Thumb -> File \cup {NoFile}]
  /\ offset \in [Thumb -> Grid]
  /\ \A t \in Thumb : offset[t] < MaxLength
  /\ ragged \subseteq File /\ result \in BOOLEAN
  /\ list \in Seq(Thumb) /\ gl \in 0 .. Len(list)
  /\ pc \in [File -> Idle \cup Active]
  /\ \A f, g \in File : pc[f] \in Active /\ pc[g] \in Active => f = g

(* Lengths and offsets are places of pictures.                             *)
FilesInv ==
  /\ length \in [File -> Grid] /\ slot \in [File -> Grid] /\ last \in [File -> Grid]
  /\ DOMAIN data = File
  /\ \A f \in File : /\ length[f] <= MaxLength /\ last[f] <= MaxLength
                     /\ slot[f] <= length[f]
                     /\ data[f] \in [0 .. length[f] - 1 -> Picture]
  /\ \A t \in Thumb : fileOf[t] # NoFile =>
       /\ pictured[t][1] = fileOf[t]
       /\ pictured[t][2] \in Grid /\ pictured[t][2] < MaxLength

(* Every thumbnail of the file is where its picture is.                    *)
PicturesIn(f) ==
  \A t \in ThumbsIn(f) : /\ offset[t] + Size <= length[f]
                         /\ Content(data[f], offset[t]) = Original(t)

(* Nothing has happened to the file, ...                                   *)
Untreated(f) ==
  pc[f] = "todo" => slot[f] = 0 /\ \A t \in ThumbsIn(f) : offset[t] = pictured[t][2]

(* ... the slots behind have been filled, ...                              *)
Holeless(f) ==
  pc[f] \in Active \cup {"done"} => \A s \in Grid : s < slot[f] => s \in UsedIn(f)

(* ... and the file ends there.                                            *)
CutOff(f) == pc[f] = "done" => length[f] = slot[f]

(* The list has the thumbnails of the file, once each, and up to gl those  *)
(* with the last pictures come first.                                      *)
Listing(f) ==
  /\ \A i \in 1 .. Len(list) : list[i] \in ThumbsIn(f)
  /\ \A i, j \in 1 .. Len(list) : list[i] = list[j] => i = j
  /\ \A t \in ThumbsIn(f) : \E i \in 1 .. Len(list) : list[i] = t
  /\ \A i, j \in 1 .. gl : i < j => offset[list[i]] >= offset[list[j]]

(* The picture at last is at slot, too, and some of its thumbnails have    *)
(* followed.                                                               *)
Following(f) ==
  /\ gl # 0 /\ slot[f] < last[f] /\ last[f] < length[f]
  /\ Content(data[f], slot[f]) = Content(data[f], last[f])
  /\ \A i \in 1 .. gl : offset[list[i]] <= last[f]
  /\ \A i \in gl + 1 .. Len(list) : offset[list[i]] <= slot[f]
  /\ \E t \in ThumbsIn(f) : offset[t] \in {slot[f], last[f]}

(* Where gl is: behind it in the list are thumbnails before the slot.      *)
Walking(f) ==
  /\ pc[f] \in Active => Listing(f)
  /\ pc[f] \in {"slot", "copy"} =>
       \A i \in gl + 1 .. Len(list) : offset[list[i]] < slot[f]
  /\ pc[f] = "copy" => gl # 0 /\ offset[list[gl]] > slot[f] /\ slot[f] < length[f]
  /\ pc[f] = "move" => Following(f)
  /\ pc[f] = "truncate" => \A t \in ThumbsIn(f) : offset[t] < slot[f]

(* The slots the thumbnails used at first, and those they use now.         *)
First(f) == [t \in ThumbsIn(f) |-> Number(pictured[t][2])]
Here(f) == [t \in ThumbsIn(f) |-> Number(offset[t])]

(* The pictures moved from the end of the file to the free slots in order. *)
Packing(f) ==
  /\ pc[f] \in {"slot", "copy", "truncate"} =>
       \E m \in Nat : Scanned(First(f), Here(f), Number(slot[f]), m)
  /\ pc[f] = "move" => Moving(First(f), Here(f), Number(slot[f]), Number(last[f]))
  /\ pc[f] = "done" =>
       \A t \in ThumbsIn(f) : Here(f)[t] = PackedSlot(FirstUsed(First(f)), First(f)[t])

(* What holds of each file, and of all.                                    *)
FileInv(f) ==
  PicturesIn(f) /\ Untreated(f) /\ Holeless(f) /\ CutOff(f) /\ Walking(f) /\ Packing(f)

IInv == TypesInv /\ FilesInv /\ \A f \in File : FileInv(f)

-----------------------------------------------------------------------------
LEMMA ActiveKinds ==
  ASSUME NEW p, p \in Active
  PROVE  p \notin Idle
  BY DEF Active, Idle

(* The slots of the pictures are numbers, and finitely many.               *)
LEMMA PlacesTyped ==
  ASSUME NoPadding, TypesInv, FilesInv, NEW f \in File
  PROVE  /\ SlotsOf(First(f), Here(f)) /\ DOMAIN First(f) = ThumbsIn(f)
         /\ \A t \in ThumbsIn(f) : /\ t \in Thumb /\ fileOf[t] = f
                                   /\ First(f)[t] = Number(pictured[t][2])
                                   /\ Here(f)[t] = Number(offset[t])
                                   /\ First(f)[t] \in Nat /\ First(f)[t] < MaxSlots
<1>1. f # NoFile /\ MaxSlots \in Nat /\ MaxLength = MaxSlots * Size
  BY RearrangeAssumption DEF NoPadding, MaxLength
<1>2. MaxLength \in Grid /\ Number(MaxLength) = MaxSlots
  BY <1>1, NumberOf
<1>3. ASSUME NEW t \in ThumbsIn(f)
      PROVE  /\ t \in Thumb /\ fileOf[t] = f
             /\ pictured[t][2] \in Grid /\ pictured[t][2] < MaxLength /\ offset[t] \in Grid
  BY <1>1, <1>3 DEF ThumbsIn, TypesInv, FilesInv
<1>4. ASSUME NEW t \in ThumbsIn(f)
      PROVE  /\ Number(pictured[t][2]) \in Nat /\ Number(offset[t]) \in Nat
             /\ Number(pictured[t][2]) < MaxSlots
  BY <1>2, <1>3, NumberBack, NumberOrder
<1>5. DOMAIN First(f) = ThumbsIn(f)
  BY DEF First
<1>6. First(f) \in [ThumbsIn(f) -> Nat] /\ Here(f) \in [ThumbsIn(f) -> Nat]
  BY <1>4 DEF First, Here
<1>7. ASSUME NEW t \in ThumbsIn(f)
      PROVE  /\ First(f)[t] = Number(pictured[t][2]) /\ Here(f)[t] = Number(offset[t])
  BY DEF First, Here
<1>8. IsFiniteSet(FirstUsed(First(f)))
  <2>1. FirstUsed(First(f)) \in SUBSET Nat /\ \A n \in FirstUsed(First(f)) : n <= MaxSlots
    BY <1>1, <1>4, <1>5, <1>7 DEF FirstUsed
  <2> QED BY <1>1, <2>1, FS_BoundedSetOfNaturals
<1> QED BY <1>3, <1>4, <1>5, <1>6, <1>7, <1>8 DEF SlotsOf

(* What a step on another file leaves of g.                                *)
Untouched(g) ==
  /\ pc'[g] = pc[g] /\ length'[g] = length[g] /\ data'[g] = data[g]
  /\ slot'[g] = slot[g] /\ last'[g] = last[g]
  /\ \A t \in ThumbsIn(g) : offset'[t] = offset[t]
  /\ UNCHANGED <<fileOf, pictured>>

LEMMA UntouchedFacts ==
  ASSUME NEW g, Untouched(g)
  PROVE  /\ ThumbsIn(g)' = ThumbsIn(g) /\ UsedIn(g)' = UsedIn(g)
         /\ First(g)' = First(g) /\ Here(g)' = Here(g)
         /\ \A t \in ThumbsIn(g) : Original(t)' = Original(t) /\ offset'[t] = offset[t]
<1>1. ThumbsIn(g)' = ThumbsIn(g) /\ pictured' = pictured
  BY DEF Untouched, ThumbsIn
<1>2. \A t \in ThumbsIn(g) : offset'[t] = offset[t]
  BY DEF Untouched
<1>3. UsedIn(g)' = UsedIn(g)
  BY <1>1, <1>2 DEF UsedIn
<1>4. First(g)' = First(g) /\ Here(g)' = Here(g)
  BY <1>1, <1>2 DEF First, Here
<1>5. \A t \in ThumbsIn(g) : Original(t)' = Original(t)
  BY <1>1 DEF Original
<1> QED BY <1>1, <1>2, <1>3, <1>4, <1>5

LEMMA UntouchedKeeps ==
  ASSUME NEW g \in File, FileInv(g), Untouched(g), pc[g] \notin Active
  PROVE  FileInv(g)'
<1> USE UntouchedFacts
<1>1. /\ pc'[g] = pc[g] /\ length'[g] = length[g] /\ data'[g] = data[g]
      /\ slot'[g] = slot[g] /\ pictured' = pictured
  BY DEF Untouched
<1>2. PicturesIn(g)'
  BY <1>1 DEF FileInv, PicturesIn, Content
<1>3. Untreated(g)' /\ CutOff(g)'
  BY <1>1 DEF FileInv, Untreated, CutOff
<1>4. Holeless(g)'
  BY <1>1 DEF FileInv, Holeless
<1>5. Walking(g)'
  BY <1>1 DEF Walking, Active
<1>6. Packing(g)'
  BY <1>1 DEF FileInv, Packing, Active
<1> QED BY <1>2, <1>3, <1>4, <1>5, <1>6 DEF FileInv

LEMMA UntouchedSlots ==
  ASSUME NEW g, Untouched(g)
  PROVE  UNCHANGED Slots(g)!vars
<1> USE UntouchedFacts
<1>1. /\ pc'[g] = pc[g] /\ length'[g] = length[g] /\ data'[g] = data[g]
      /\ slot'[g] = slot[g] /\ last'[g] = last[g]
  BY DEF Untouched
<1>2. [t \in ThumbsIn(g) |-> Number(offset[t])]' = [t \in ThumbsIn(g) |-> Number(offset[t])]
  OBVIOUS
<1>3. [t \in ThumbsIn(g) |-> Original(t)]' = [t \in ThumbsIn(g) |-> Original(t)]
  OBVIOUS
<1> QED BY <1>1, <1>2, <1>3 DEF Slots!vars, Content

(* What every step on a file does.                                         *)
Treated(f) ==
  /\ TypesInv' /\ FilesInv' /\ FileInv(f)'
  /\ [Slots(f)!Next]_(Slots(f)!vars)
  /\ \A g \in File : g # f => Untouched(g) /\ pc[g] \notin Active

LEMMA OthersRest ==
  ASSUME IInv, NEW f \in File, Called(f) \/ pc[f] \in Active
  PROVE  \A g \in File : g # f => pc[g] \notin Active
  BY ActiveKinds DEF IInv, TypesInv, Called

LEMMA SameThumbs ==
  ASSUME NEW f, UNCHANGED <<fileOf, pictured>>
  PROVE  /\ ThumbsIn(f)' = ThumbsIn(f) /\ First(f)' = First(f)
         /\ \A t : Original(t)' = Original(t)
<1>1. ThumbsIn(f)' = ThumbsIn(f)
  BY DEF ThumbsIn
<1> QED BY <1>1 DEF First, Original

LEMMA FailFacts ==
  ASSUME TypesInv, NEW f \in File, Fail(f)
  PROVE  /\ pc' = [pc EXCEPT ![f] = "failed"] /\ pc'[f] = "failed"
         /\ \A g \in File : g # f => pc'[g] = pc[g]
         /\ result' = FALSE
         /\ UNCHANGED <<offset, length, list, gl, slot, last, fileOf, ragged, pictured>>
  BY DEF TypesInv, Fail, GoTo, input

LEMMA FailTypes ==
  ASSUME TypesInv, NEW f \in File, Fail(f)
  PROVE  TypesInv'
<1>1. /\ pc' = [pc EXCEPT ![f] = "failed"] /\ pc'[f] = "failed"
      /\ \A g \in File : g # f => pc'[g] = pc[g]
      /\ result' = FALSE
      /\ UNCHANGED <<offset, length, list, gl, slot, last, fileOf, ragged, pictured>>
  BY FailFacts
<1>2. pc' \in [File -> Idle \cup Active]
  BY <1>1 DEF TypesInv, Idle
<1>3. \A g, h \in File : pc'[g] \in Active /\ pc'[h] \in Active => g = h
  BY <1>1 DEF TypesInv, Active
<1> QED BY <1>1, <1>2, <1>3 DEF TypesInv, MaxLength

LEMMA FailTreats ==
  ASSUME IInv, NEW f \in File, Called(f) \/ pc[f] \in {"copy", "truncate"}, Fail(f),
         UNCHANGED data
  PROVE  Treated(f)
<1> USE DEF IInv
<1>1. /\ pc' = [pc EXCEPT ![f] = "failed"] /\ pc'[f] = "failed"
      /\ \A g \in File : g # f => pc'[g] = pc[g]
      /\ UNCHANGED <<offset, length, list, gl, slot, last, fileOf, ragged, pictured>>
  BY FailFacts
<1>2. TypesInv'
  BY FailTypes
<1>3. FilesInv'
  BY <1>1 DEF FilesInv, MaxLength
<1>4. ThumbsIn(f)' = ThumbsIn(f) /\ \A t : Original(t)' = Original(t)
  BY <1>1, SameThumbs
<1>5. PicturesIn(f)'
  BY <1>1, <1>4 DEF FileInv, PicturesIn, Content
<1>6. FileInv(f)'
  BY <1>1, <1>5 DEF FileInv, Untreated, Holeless, CutOff, Walking, Packing, Active
<1>7. Slots(f)!Stop
  <2>1. pc[f] \in {"todo", "copy", "truncate"}
    BY DEF Called, At
  <2>2. [t \in ThumbsIn(f) |-> Number(offset[t])]' = [t \in ThumbsIn(f) |-> Number(offset[t])]
    BY <1>1, <1>4
  <2>3. [t \in ThumbsIn(f) |-> Original(t)]' = [t \in ThumbsIn(f) |-> Original(t)]
    BY <1>4
  <2> QED BY <1>1, <1>4, <2>1, <2>2, <2>3 DEF Slots!Stop, Content
<1>8. \A g \in File : g # f => Untouched(g) /\ pc[g] \notin Active
  <2>1. \A g \in File : g # f => pc[g] \notin Active
    BY OthersRest DEF Active
  <2> QED BY <1>1, <2>1 DEF Untouched
<1> QED BY <1>2, <1>3, <1>6, <1>7, <1>8 DEF Treated, Slots!Next

LEMMA RemoveUnusedTreats ==
  ASSUME NoPadding, IInv, NEW f \in File, RemoveUnused(f)
  PROVE  Treated(f)
<1> USE DEF IInv
<1>1. Called(f) /\ pc[f] = "todo" /\ ThumbsIn(f) = {} /\ result' = FALSE
      /\ UNCHANGED <<offset, list, gl, slot, last, fileOf, ragged, pictured>>
  BY DEF RemoveUnused, Called, At, input
<1>2. slot[f] = 0
  BY <1>1 DEF FileInv, Untreated
<1>3. \A g \in File : g # f => pc[g] \notin Active
  BY <1>1, OthersRest
<1>4. CASE GoTo(f, "failed") /\ UNCHANGED <<length, data>>
  <2>1. Fail(f)
    BY <1>1, <1>4 DEF Fail, input
  <2> QED BY <1>1, <1>4, <2>1, FailTreats
<1>5. CASE /\ length' = [length EXCEPT ![f] = 0]
           /\ data' = [data EXCEPT ![f] = <<>>]
           /\ GoTo(f, "done")
  <2>1. /\ pc'[f] = "done" /\ length'[f] = 0 /\ data'[f] = <<>>
        /\ \A g \in File : g # f => pc'[g] = pc[g] /\ length'[g] = length[g] /\ data'[g] = data[g]
        /\ DOMAIN data' = File
    BY <1>5 DEF GoTo, TypesInv, FilesInv
  <2>2. TypesInv'
    <3>1. pc' \in [File -> Idle \cup Active]
      BY <1>5 DEF TypesInv, Idle, GoTo
    <3>2. \A g, h \in File : pc'[g] \in Active /\ pc'[h] \in Active => g = h
      BY <2>1 DEF TypesInv, Active
    <3> QED BY <1>1, <3>1, <3>2 DEF TypesInv, MaxLength
  <2>3. FilesInv'
    <3>1. length' \in [File -> Grid] /\ MaxLength \in Nat
      BY <1>5, NumberZero, RearrangeAssumption DEF FilesInv, MaxLength
    <3>2. <<>> \in [0 .. 0 - 1 -> Picture]
      OBVIOUS
    <3>3. ASSUME NEW g \in File
          PROVE  /\ length'[g] <= MaxLength /\ last'[g] <= MaxLength /\ slot'[g] <= length'[g]
                 /\ data'[g] \in [0 .. length'[g] - 1 -> Picture]
      <4>1. CASE g = f
        BY <1>1, <1>2, <2>1, <3>1, <3>2, <4>1 DEF FilesInv
      <4>2. CASE g # f
        BY <1>1, <2>1, <4>2 DEF FilesInv
      <4> QED BY <4>1, <4>2
    <3> QED BY <1>1, <2>1, <3>1, <3>3 DEF FilesInv, MaxLength
  <2>4. ThumbsIn(f)' = {}
    BY <1>1, SameThumbs
  <2>5. FileInv(f)'
    BY <1>1, <1>2, <2>1, <2>4, NumberBack
       DEF FileInv, PicturesIn, Untreated, Holeless, CutOff, Walking, Packing, Active, Grid
  <2>6. Slots(f)!Truncate
    <3>1. /\ Number(slot[f]) = 0 /\ Number(length'[f]) = 0 /\ Number(slot'[f]) = 0
          /\ Number(length[f]) \in Nat
      BY <1>1, <1>2, <2>1, NumberZero, NumberBack DEF FilesInv
    <3>2. 0 .. Number(length'[f]) - 1 = {} /\ 0 .. Number(slot[f]) - 1 = {}
      BY <3>1
    <3>3. [n \in 0 .. Number(length[f]) - 1 |-> Content(data[f], n * Size)]'
            = [s \in 0 .. Number(slot[f]) - 1 |->
                 [n \in 0 .. Number(length[f]) - 1 |-> Content(data[f], n * Size)][s]]
      BY <3>2
    <3>4. /\ [t \in ThumbsIn(f) |-> Number(offset[t])]' = [t \in ThumbsIn(f) |-> Number(offset[t])]
          /\ [t \in ThumbsIn(f) |-> Original(t)]' = [t \in ThumbsIn(f) |-> Original(t)]
      BY <1>1, <2>4
    <3>5. Number(slot[f]) = Number(length[f]) \/ Number(slot[f]) < Number(length[f])
      BY <3>1
    <3> QED BY <1>1, <2>1, <2>4, <3>1, <3>3, <3>4, <3>5 DEF Slots!Truncate
  <2>7. \A g \in File : g # f => Untouched(g) /\ pc[g] \notin Active
    BY <1>1, <1>3, <2>1 DEF Untouched
  <2> QED BY <2>2, <2>3, <2>5, <2>6, <2>7 DEF Treated, Slots!Next
<1> QED BY <1>4, <1>5 DEF RemoveUnused

(* A list has every element of a set once.                                 *)
ListsOnce(l, S) ==
  /\ l \in Seq(S) /\ Len(l) \in Nat
  /\ \A i \in 1 .. Len(l) : l[i] \in S
  /\ \A i, j \in 1 .. Len(l) : l[i] = l[j] => i = j
  /\ \A x \in S : \E i \in 1 .. Len(l) : l[i] = x

LEMMA ListOfSet ==
  ASSUME NEW S, IsFiniteSet(S), NEW l, l \in SetToSeqs(S)
  PROVE  ListsOnce(l, S)
<1> DEFINE n == Cardinality(S)
<1>1. n \in Nat /\ IsFiniteSet(1 .. n) /\ Cardinality(1 .. n) = n
  <2>1. n \in Nat
    BY FS_CardinalityType
  <2>2. IsFiniteSet(1 .. n) /\ Cardinality(1 .. n) = IF 1 > n THEN 0 ELSE n - 1 + 1
    <3>1. 1 \in Int /\ n \in Int
      BY <2>1
    <3> QED BY ONLY <3>1, FS_Interval
  <2> QED BY <2>1, <2>2
<1>2. l \in [1 .. n -> S] /\ \A i, j \in 1 .. n : i # j => l[i] # l[j]
  BY DEF SetToSeqs
<1>3. l \in Seq(S) /\ Len(l) = n
  BY <1>1, <1>2
<1>4. l \in Injection(1 .. n, S)
  BY <1>2 DEF Injection, IsInjective
<1>5. l \in Surjection(1 .. n, S)
  BY <1>1, <1>4, FS_Injection
<1>6. \A x \in S : \E i \in 1 .. n : l[i] = x
  BY <1>5 DEF Surjection
<1>7. Len(l) \in Nat /\ \A i \in 1 .. Len(l) : l[i] \in S
  BY <1>1, <1>2, <1>3
<1>8. /\ \A i, j \in 1 .. Len(l) : l[i] = l[j] => i = j
      /\ \A x \in S : \E i \in 1 .. Len(l) : l[i] = x
  BY <1>2, <1>3, <1>6
<1> QED BY <1>3, <1>7, <1>8 DEF ListsOnce

LEMMA OpenFileFacts ==
  ASSUME IInv, NEW f \in File, OpenFile(f)
  PROVE  /\ pc[f] = "todo" /\ pc' = [pc EXCEPT ![f] = "slot"] /\ pc'[f] = "slot"
         /\ \A g \in File : g # f => pc'[g] = pc[g] /\ pc[g] \notin Active
         /\ UNCHANGED <<offset, data, length, result, slot, last, fileOf, ragged, pictured>>
         /\ list' \in Seq(ThumbsIn(f)) /\ gl' = Len(list') /\ Len(list') \in Nat
         /\ \A i \in 1 .. Len(list') : list'[i] \in ThumbsIn(f)
         /\ \A i, j \in 1 .. Len(list') : list'[i] = list'[j] => i = j
         /\ \A t \in ThumbsIn(f) : \E i \in 1 .. Len(list') : list'[i] = t
         /\ \A i, j \in 1 .. Len(list') : i < j => offset[list'[i]] >= offset[list'[j]]
<1>1. /\ pc[f] = "todo" /\ pc' = [pc EXCEPT ![f] = "slot"] /\ pc'[f] = "slot"
      /\ \A g \in File : g # f => pc'[g] = pc[g]
      /\ UNCHANGED <<offset, data, length, result, slot, last, fileOf, ragged, pictured>>
      /\ list' \in SortedLists(f) /\ gl' = Len(list')
  BY DEF OpenFile, Called, At, GoTo, input, IInv, TypesInv
<1>2. IsFiniteSet(ThumbsIn(f))
  <2>1. ThumbsIn(f) \in SUBSET Thumb /\ IsFiniteSet(Thumb)
    BY RearrangeAssumption DEF ThumbsIn
  <2> QED BY <2>1, FS_Subset
<1>3. /\ list' \in SetToSeqs(ThumbsIn(f))
      /\ \A i, j \in DOMAIN list' : i < j => offset[list'[i]] >= offset[list'[j]]
  BY <1>1 DEF SortedLists
<1>4. /\ list' \in Seq(ThumbsIn(f)) /\ Len(list') \in Nat
      /\ \A i \in 1 .. Len(list') : list'[i] \in ThumbsIn(f)
      /\ \A i, j \in 1 .. Len(list') : list'[i] = list'[j] => i = j
      /\ \A t \in ThumbsIn(f) : \E i \in 1 .. Len(list') : list'[i] = t
  <2>1. list' \in SetToSeqs(ThumbsIn(f))
    BY <1>3
  <2>2. ListsOnce(list', ThumbsIn(f))
    BY ONLY <1>2, <2>1, ListOfSet
  <2> QED BY <2>2 DEF ListsOnce
<1>5. DOMAIN list' = 1 .. Len(list')
  BY <1>4
<1>6. \A g \in File : g # f => pc[g] \notin Active
  BY OthersRest DEF OpenFile
<1> QED BY <1>1, <1>3, <1>4, <1>5, <1>6

LEMMA OpenFileTreats ==
  ASSUME NoPadding, IInv, NEW f \in File, OpenFile(f)
  PROVE  Treated(f)
<1> USE DEF IInv
<1>1. /\ pc[f] = "todo" /\ pc' = [pc EXCEPT ![f] = "slot"] /\ pc'[f] = "slot"
      /\ \A g \in File : g # f => pc'[g] = pc[g] /\ pc[g] \notin Active
      /\ UNCHANGED <<offset, data, length, result, slot, last, fileOf, ragged, pictured>>
      /\ list' \in Seq(ThumbsIn(f)) /\ gl' = Len(list') /\ Len(list') \in Nat
  BY OpenFileFacts
<1>2. /\ \A i \in 1 .. Len(list') : list'[i] \in ThumbsIn(f)
      /\ \A i, j \in 1 .. Len(list') : list'[i] = list'[j] => i = j
      /\ \A t \in ThumbsIn(f) : \E i \in 1 .. Len(list') : list'[i] = t
      /\ \A i, j \in 1 .. Len(list') : i < j => offset[list'[i]] >= offset[list'[j]]
  BY OpenFileFacts
<1>3. ThumbsIn(f)' = ThumbsIn(f) /\ First(f)' = First(f) /\ \A t : Original(t)' = Original(t)
  BY <1>1, SameThumbs
<1>4. TypesInv'
  <2>1. pc' \in [File -> Idle \cup Active]
    BY <1>1 DEF TypesInv, Active
  <2>2. \A g, h \in File : pc'[g] \in Active /\ pc'[h] \in Active => g = h
    BY <1>1 DEF TypesInv, Active
  <2>3. list' \in Seq(Thumb) /\ gl' \in 0 .. Len(list')
    <3>1. ThumbsIn(f) \subseteq Thumb
      BY DEF ThumbsIn
    <3> QED BY <1>1, <3>1
  <2> QED BY <1>1, <2>1, <2>2, <2>3 DEF TypesInv, MaxLength
<1>5. FilesInv'
  BY <1>1 DEF FilesInv, MaxLength
<1>6. slot[f] = 0 /\ \A t \in ThumbsIn(f) : offset[t] = pictured[t][2]
  BY <1>1 DEF FileInv, Untreated
<1>7. Packing(f)'
  <2>1. /\ SlotsOf(First(f), Here(f)) /\ DOMAIN First(f) = ThumbsIn(f)
        /\ \A t \in ThumbsIn(f) : First(f)[t] < MaxSlots
    BY PlacesTyped
  <2>2. Here(f) = First(f)
    BY <1>6 DEF First, Here
  <2>3. MaxSlots \in Nat
    BY RearrangeAssumption
  <2>4. Scanned(First(f), Here(f), 0, MaxSlots)
    BY <2>1, <2>2, <2>3, ScanStarts
  <2>5. Here(f)' = Here(f)
    BY <1>1, <1>3 DEF Here
  <2>6. Number(slot'[f]) = 0
    BY <1>1, <1>6, NumberZero
  <2> QED BY <1>1, <1>3, <2>3, <2>4, <2>5, <2>6 DEF Packing
<1>8. FileInv(f)'
  <2>1. PicturesIn(f)'
    BY <1>1, <1>3 DEF FileInv, PicturesIn, Content
  <2>2. Holeless(f)'
    BY <1>1, <1>6, NumberBack DEF Holeless
  <2>3. Listing(f)'
    BY <1>1, <1>2, <1>3 DEF Listing
  <2>4. Walking(f)'
    BY <1>1, <2>3 DEF Walking
  <2>5. Untreated(f)' /\ CutOff(f)'
    BY <1>1 DEF Untreated, CutOff
  <2> QED BY <1>7, <2>1, <2>2, <2>4, <2>5 DEF FileInv
<1>9. UNCHANGED Slots(f)!vars
  <2>1. /\ [t \in ThumbsIn(f) |-> Number(offset[t])]' = [t \in ThumbsIn(f) |-> Number(offset[t])]
        /\ [t \in ThumbsIn(f) |-> Original(t)]' = [t \in ThumbsIn(f) |-> Original(t)]
    BY <1>1, <1>3
  <2> QED BY <1>1, <1>3, <2>1 DEF Slots!vars, Content
<1>10. \A g \in File : g # f => Untouched(g) /\ pc[g] \notin Active
  BY <1>1 DEF Untouched
<1> QED BY <1>4, <1>5, <1>8, <1>9, <1>10 DEF Treated

(* Where gl is after it went back.                                         *)
Behind(s) == {i \in 1 .. gl : offset[list[i]] >= s}
Back(s) == IF Behind(s) = {} THEN 0 ELSE Max(Behind(s))

LEMMA BackFacts ==
  ASSUME gl \in Nat, NEW s
  PROVE  /\ Back(s) \in 0 .. gl
         /\ Back(s) # 0 => offset[list[Back(s)]] >= s
         /\ \A i \in 1 .. gl : offset[list[i]] >= s => i <= Back(s)
<1>1. CASE Behind(s) = {}
  <2>1. \A i \in 1 .. gl : ~(offset[list[i]] >= s)
    BY <1>1 DEF Behind
  <2> QED BY <1>1, <2>1 DEF Back
<1>2. CASE Behind(s) # {}
  <2>1. Behind(s) \in SUBSET (0 .. gl) /\ Behind(s) \subseteq 1 .. gl
    BY DEF Behind
  <2>2. PICK m \in Behind(s) : \A i \in Behind(s) : i <= m
    BY <1>2, <2>1, GreatestNatural
  <2>3. m \in Nat /\ \A i \in Behind(s) : i \in Nat
    BY <2>1
  <2>4. /\ Max(Behind(s)) \in Behind(s)
        /\ \A i \in Behind(s) : Max(Behind(s)) >= i
    BY <2>2, <2>3 DEF Max
  <2>5. Back(s) = Max(Behind(s))
    BY <1>2 DEF Back
  <2>6. Back(s) \in Behind(s) /\ \A i \in Behind(s) : Back(s) >= i
    BY <2>4, <2>5
  <2>7. Back(s) \in 1 .. gl /\ offset[list[Back(s)]] >= s
    BY <2>6 DEF Behind
  <2>8. \A i \in 1 .. gl : offset[list[i]] >= s => i <= Back(s)
    BY <2>6, <2>7 DEF Behind
  <2> QED BY <2>7, <2>8
<1> QED BY <1>1, <1>2

LEMMA StepsBackTyped ==
  ASSUME IInv, NEW f \in File, pc[f] = "slot"
  PROVE  /\ gl \in Nat /\ Len(list) \in Nat /\ gl <= Len(list)
         /\ slot[f] \in Grid /\ slot[f] \in Nat /\ length[f] \in Grid /\ length[f] \in Nat
         /\ slot[f] <= length[f] /\ Size \in Nat
         /\ \A i \in 1 .. Len(list) : list[i] \in ThumbsIn(f) /\ offset[list[i]] \in Grid
                                      /\ offset[list[i]] \in Nat
         /\ \A t \in ThumbsIn(f) : \E i \in 1 .. Len(list) : list[i] = t
         /\ \A i, j \in 1 .. gl : i < j => offset[list[i]] >= offset[list[j]]
         /\ \A i \in gl + 1 .. Len(list) : offset[list[i]] < slot[f]
         /\ \A t \in ThumbsIn(f) : offset[t] < length[f]
<1>1. gl \in 0 .. Len(list) /\ Len(list) \in Nat
  BY DEF IInv, TypesInv
<1>2. slot[f] \in Grid /\ length[f] \in Grid /\ slot[f] <= length[f]
  BY DEF IInv, FilesInv
<1>3. Listing(f) /\ \A i \in gl + 1 .. Len(list) : offset[list[i]] < slot[f]
  BY DEF IInv, FileInv, Walking, Active
<1>4. \A i \in 1 .. Len(list) : list[i] \in ThumbsIn(f) /\ list[i] \in Thumb
  BY <1>3 DEF Listing, ThumbsIn
<1>5. \A t \in ThumbsIn(f) : offset[t] \in Grid /\ offset[t] + Size <= length[f]
  BY DEF IInv, FileInv, PicturesIn, TypesInv, ThumbsIn
<1>6. \A t \in ThumbsIn(f) : offset[t] < length[f]
  <2>1. \A t \in ThumbsIn(f) : offset[t] \in Nat
    BY <1>5, NumberBack
  <2>2. length[f] \in Nat
    BY <1>2, NumberBack
  <2> QED BY <1>5, <2>1, <2>2, SizeTyped
<1>7. /\ \A t \in ThumbsIn(f) : \E i \in 1 .. Len(list) : list[i] = t
      /\ \A i, j \in 1 .. gl : i < j => offset[list[i]] >= offset[list[j]]
  BY <1>3 DEF Listing
<1>8. \A i \in 1 .. Len(list) : offset[list[i]] \in Nat /\ offset[list[i]] \in Grid
  BY <1>4, <1>5, NumberBack
<1>9. slot[f] \in Nat /\ length[f] \in Nat
  BY <1>2, NumberBack
<1>10. gl \in Nat /\ gl <= Len(list) /\ Size \in Nat
  BY <1>1, SizeTyped
<1>11. \A i \in 1 .. Len(list) : list[i] \in ThumbsIn(f) /\ offset[list[i]] \in Grid
                                 /\ offset[list[i]] \in Nat
  BY ONLY <1>4, <1>8
<1>12. \A i \in gl + 1 .. Len(list) : offset[list[i]] < slot[f]
  BY ONLY <1>3
<1> QED BY ONLY <1>1, <1>2, <1>6, <1>7, <1>9, <1>10, <1>11, <1>12

(* The four outcomes of a round: gl goes back to g, which is a picture at  *)
(* the slot, one behind it, or none.                                       *)
LEMMA VisitSlotFacts ==
  ASSUME IInv, NEW f \in File, VisitSlot(f)
  PROVE  /\ pc[f] = "slot" /\ gl' \in 0 .. gl
         /\ \A i \in gl' + 1 .. Len(list) : offset[list[i]] < slot[f]
         /\ UNCHANGED <<offset, data, length, result, list, last, fileOf, ragged, pictured>>
         /\ \/ /\ pc' = [pc EXCEPT ![f] = "truncate"] /\ UNCHANGED slot
               /\ \A t \in ThumbsIn(f) : offset[t] < slot[f]
            \/ /\ slot' = [slot EXCEPT ![f] = @ + Size] /\ UNCHANGED pc
               /\ slot[f] < length[f] /\ gl' # 0 /\ offset[list[gl']] = slot[f]
            \/ /\ pc' = [pc EXCEPT ![f] = "copy"] /\ UNCHANGED slot
               /\ slot[f] < length[f] /\ gl' # 0 /\ offset[list[gl']] > slot[f]
<1>1. pc[f] = "slot"
  BY DEF VisitSlot, At
<1>2. UNCHANGED <<offset, data, length, result, list, last, fileOf, ragged, pictured>>
  BY DEF VisitSlot, input
<1>3. /\ gl \in Nat /\ Len(list) \in Nat /\ gl <= Len(list)
      /\ slot[f] \in Nat /\ length[f] \in Nat
      /\ \A i \in 1 .. Len(list) : offset[list[i]] \in Nat
      /\ \A t \in ThumbsIn(f) : \E i \in 1 .. Len(list) : list[i] = t
      /\ \A i \in gl + 1 .. Len(list) : offset[list[i]] < slot[f]
      /\ \A t \in ThumbsIn(f) : offset[t] < length[f]
  BY <1>1, StepsBackTyped
<1> DEFINE b == Back(slot[f])
<1>4. \/ /\ gl = 0 \/ slot[f] >= length[f]
         /\ pc' = [pc EXCEPT ![f] = "truncate"] /\ UNCHANGED <<gl, slot>>
      \/ /\ gl # 0 /\ slot[f] < length[f] /\ gl' = b
         /\ \/ b = 0 /\ pc' = [pc EXCEPT ![f] = "truncate"] /\ UNCHANGED slot
            \/ b # 0 /\ offset[list[b]] = slot[f]
               /\ slot' = [slot EXCEPT ![f] = @ + Size] /\ UNCHANGED pc
            \/ b # 0 /\ offset[list[b]] > slot[f]
               /\ pc' = [pc EXCEPT ![f] = "copy"] /\ UNCHANGED slot
  BY DEF VisitSlot, GoTo, Back, Behind
<1>5. b \in 0 .. gl /\ \A i \in 1 .. gl : offset[list[i]] >= slot[f] => i <= b
  BY <1>3, BackFacts
<1> HIDE DEF b
<1>6. \A i \in b + 1 .. Len(list) : offset[list[i]] < slot[f]
  <2> SUFFICES ASSUME NEW i \in b + 1 .. Len(list) PROVE offset[list[i]] < slot[f]
    OBVIOUS
  <2>1. i \in 1 .. Len(list) /\ ~(i <= b)
    BY <1>3, <1>5
  <2>2. CASE i <= gl
    <3>1. i \in 1 .. gl
      BY <2>1, <2>2
    <3>2. ~(offset[list[i]] >= slot[f])
      BY <1>5, <2>1, <3>1
    <3> QED BY <1>3, <2>1, <3>2
  <2>3. CASE ~(i <= gl)
    <3>1. i \in gl + 1 .. Len(list)
      BY <1>3, <2>1, <2>3
    <3> QED BY <1>3, <3>1
  <2> QED BY <2>2, <2>3
<1>7. CASE /\ gl = 0 \/ slot[f] >= length[f]
           /\ pc' = [pc EXCEPT ![f] = "truncate"] /\ UNCHANGED <<gl, slot>>
  <2>1. \A t \in ThumbsIn(f) : offset[t] < slot[f]
    <3>1. CASE gl = 0
      BY <1>3, <3>1
    <3>2. CASE slot[f] >= length[f]
      <4> SUFFICES ASSUME NEW t \in ThumbsIn(f) PROVE offset[t] < slot[f]
        OBVIOUS
      <4>1. offset[t] < length[f] /\ offset[t] \in Nat
        BY <1>3
      <4> QED BY <1>3, <3>2, <4>1
    <3> QED BY <1>7, <3>1, <3>2
  <2> QED BY <1>1, <1>2, <1>3, <1>7, <2>1
<1>8. CASE b = 0 /\ gl' = b /\ pc' = [pc EXCEPT ![f] = "truncate"] /\ UNCHANGED slot
  <2>1. \A t \in ThumbsIn(f) : offset[t] < slot[f]
    <3>1. \A i \in 1 .. Len(list) : offset[list[i]] < slot[f]
      BY <1>6, <1>8
    <3> QED BY <1>3, <3>1
  <2> QED BY <1>1, <1>2, <1>5, <1>6, <1>8, <2>1
<1>9. CASE /\ gl' = b /\ slot[f] < length[f] /\ b # 0 /\ offset[list[b]] = slot[f]
           /\ slot' = [slot EXCEPT ![f] = @ + Size] /\ UNCHANGED pc
  <2>1. gl' \in 0 .. gl /\ \A i \in gl' + 1 .. Len(list) : offset[list[i]] < slot[f]
    BY <1>5, <1>6, <1>9
  <2> QED BY <1>1, <1>2, <1>9, <2>1
<1>10. CASE /\ gl' = b /\ slot[f] < length[f] /\ b # 0 /\ offset[list[b]] > slot[f]
            /\ pc' = [pc EXCEPT ![f] = "copy"] /\ UNCHANGED slot
  <2>1. gl' \in 0 .. gl /\ \A i \in gl' + 1 .. Len(list) : offset[list[i]] < slot[f]
    BY <1>5, <1>6, <1>10
  <2> QED BY <1>1, <1>2, <1>10, <2>1
<1> QED BY <1>4, <1>7, <1>8, <1>9, <1>10

(* A step that leaves the pictures where they are.                         *)
LEMMA QuietSlots ==
  ASSUME NEW f, UNCHANGED <<offset, data, length, fileOf, pictured>>
  PROVE  /\ [t \in ThumbsIn(f) |-> Number(offset[t])]' = [t \in ThumbsIn(f) |-> Number(offset[t])]
         /\ [t \in ThumbsIn(f) |-> Original(t)]' = [t \in ThumbsIn(f) |-> Original(t)]
         /\ [n \in 0 .. Number(length[f]) - 1 |-> Content(data[f], n * Size)]'
              = [n \in 0 .. Number(length[f]) - 1 |-> Content(data[f], n * Size)]
         /\ ThumbsIn(f)' = ThumbsIn(f) /\ UsedIn(f)' = UsedIn(f)
         /\ First(f)' = First(f) /\ Here(f)' = Here(f)
         /\ PicturesIn(f) => PicturesIn(f)'
<1>1. ThumbsIn(f)' = ThumbsIn(f) /\ First(f)' = First(f) /\ \A t : Original(t)' = Original(t)
  BY SameThumbs
<1>2. PicturesIn(f) => PicturesIn(f)'
  BY <1>1 DEF PicturesIn, Content
<1> QED BY <1>1, <1>2 DEF Content, UsedIn, Here

(* pc of the file that is worked on.                                       *)
LEMMA GoesTyped ==
  ASSUME TypesInv, NEW f \in File, NEW p \in Active \cup Idle,
         pc' = [pc EXCEPT ![f] = p], \A g \in File : g # f => pc[g] \notin Active
  PROVE  /\ pc' \in [File -> Idle \cup Active] /\ pc'[f] = p
         /\ \A g \in File : g # f => pc'[g] = pc[g]
         /\ \A g, h \in File : pc'[g] \in Active /\ pc'[h] \in Active => g = h
<1>1. pc' \in [File -> Idle \cup Active] /\ pc'[f] = p /\ \A g \in File : g # f => pc'[g] = pc[g]
  BY DEF TypesInv
<1> QED BY <1>1

LEMMA VisitSlotTreats ==
  ASSUME NoPadding, IInv, NEW f \in File, VisitSlot(f)
  PROVE  Treated(f)
<1> USE DEF IInv
<1>1. /\ pc[f] = "slot" /\ gl' \in 0 .. gl
      /\ \A i \in gl' + 1 .. Len(list) : offset[list[i]] < slot[f]
      /\ UNCHANGED <<offset, data, length, result, list, last, fileOf, ragged, pictured>>
  BY VisitSlotFacts
<1>2. /\ gl \in Nat /\ Len(list) \in Nat /\ gl <= Len(list)
      /\ slot[f] \in Grid /\ slot[f] \in Nat /\ length[f] \in Grid /\ length[f] \in Nat
      /\ slot[f] <= length[f]
      /\ \A i \in 1 .. Len(list) : list[i] \in ThumbsIn(f) /\ offset[list[i]] \in Nat
      /\ \A i, j \in 1 .. gl : i < j => offset[list[i]] >= offset[list[j]]
      /\ \A i \in 1 .. Len(list) : offset[list[i]] \in Grid
  BY <1>1, StepsBackTyped
<1>3. \A g \in File : g # f => pc[g] \notin Active
  BY <1>1, OthersRest DEF Active
<1>4. /\ [t \in ThumbsIn(f) |-> Number(offset[t])]' = [t \in ThumbsIn(f) |-> Number(offset[t])]
      /\ [t \in ThumbsIn(f) |-> Original(t)]' = [t \in ThumbsIn(f) |-> Original(t)]
      /\ [n \in 0 .. Number(length[f]) - 1 |-> Content(data[f], n * Size)]'
           = [n \in 0 .. Number(length[f]) - 1 |-> Content(data[f], n * Size)]
      /\ ThumbsIn(f)' = ThumbsIn(f) /\ UsedIn(f)' = UsedIn(f)
      /\ First(f)' = First(f) /\ Here(f)' = Here(f)
  BY <1>1, QuietSlots
<1>5. PicturesIn(f)'
  BY <1>1, QuietSlots DEF FileInv
<1>6. Listing(f)'
  <2>1. Listing(f)
    BY <1>1 DEF FileInv, Walking, Active
  <2>2. \A i, j \in 1 .. gl' : i < j => offset[list[i]] >= offset[list[j]]
    BY <1>1, <1>2
  <2> QED BY <1>1, <1>4, <2>1, <2>2 DEF Listing
<1>7. /\ list' \in Seq(Thumb) /\ gl' \in 0 .. Len(list') /\ gl' \in Nat
  BY <1>1, <1>2 DEF TypesInv
<1>8. PICK m \in Nat : Scanned(First(f), Here(f), Number(slot[f]), m)
  BY <1>1 DEF FileInv, Packing
<1>9. Holeless(f)
  BY DEF FileInv
<1>10. CASE /\ pc' = [pc EXCEPT ![f] = "truncate"] /\ UNCHANGED slot
            /\ \A t \in ThumbsIn(f) : offset[t] < slot[f]
  <2>1. /\ pc' \in [File -> Idle \cup Active] /\ pc'[f] = "truncate"
        /\ \A g \in File : g # f => pc'[g] = pc[g]
        /\ \A g, h \in File : pc'[g] \in Active /\ pc'[h] \in Active => g = h
    BY <1>3, <1>10, GoesTyped DEF Active
  <2>2. TypesInv'
    BY <1>1, <1>7, <2>1 DEF TypesInv, MaxLength
  <2>3. FilesInv'
    BY <1>1, <1>10 DEF FilesInv, MaxLength
  <2>4. Walking(f)'
    BY <1>1, <1>4, <1>6, <1>10, <2>1 DEF Walking
  <2>5. Packing(f)'
    BY <1>4, <1>8, <1>10, <2>1 DEF Packing
  <2>6. Untreated(f)' /\ CutOff(f)' /\ Holeless(f)'
    BY <1>1, <1>4, <1>9, <1>10, <2>1 DEF Untreated, CutOff, Holeless, Active
  <2>7. UNCHANGED Slots(f)!vars
    BY <1>1, <1>4, <1>10, <2>1 DEF Slots!vars
  <2>8. \A g \in File : g # f => Untouched(g)
    BY <1>1, <1>10, <2>1 DEF Untouched
  <2> QED BY <1>3, <1>5, <2>2, <2>3, <2>4, <2>5, <2>6, <2>7, <2>8 DEF Treated, FileInv
<1>11. CASE /\ pc' = [pc EXCEPT ![f] = "copy"] /\ UNCHANGED slot
            /\ slot[f] < length[f] /\ gl' # 0 /\ offset[list[gl']] > slot[f]
  <2>1. /\ pc' \in [File -> Idle \cup Active] /\ pc'[f] = "copy"
        /\ \A g \in File : g # f => pc'[g] = pc[g]
        /\ \A g, h \in File : pc'[g] \in Active /\ pc'[h] \in Active => g = h
    BY <1>3, <1>11, GoesTyped DEF Active
  <2>2. TypesInv'
    BY <1>1, <1>7, <2>1 DEF TypesInv, MaxLength
  <2>3. FilesInv'
    BY <1>1, <1>11 DEF FilesInv, MaxLength
  <2>4. Walking(f)'
    BY <1>1, <1>4, <1>6, <1>11, <2>1 DEF Walking
  <2>5. Packing(f)'
    BY <1>4, <1>8, <1>11, <2>1 DEF Packing
  <2>6. Untreated(f)' /\ CutOff(f)' /\ Holeless(f)'
    BY <1>1, <1>4, <1>9, <1>11, <2>1 DEF Untreated, CutOff, Holeless, Active
  <2>7. UNCHANGED Slots(f)!vars
    BY <1>1, <1>4, <1>11, <2>1 DEF Slots!vars
  <2>8. \A g \in File : g # f => Untouched(g)
    BY <1>1, <1>11, <2>1 DEF Untouched
  <2> QED BY <1>3, <1>5, <2>2, <2>3, <2>4, <2>5, <2>6, <2>7, <2>8 DEF Treated, FileInv
<1>12. CASE /\ slot' = [slot EXCEPT ![f] = @ + Size] /\ UNCHANGED pc
            /\ slot[f] < length[f] /\ gl' # 0 /\ offset[list[gl']] = slot[f]
  <2> DEFINE t == list[gl']
  <2>1. t \in ThumbsIn(f) /\ offset[t] = slot[f]
    BY <1>1, <1>2, <1>12
  <2>2. /\ slot'[f] = slot[f] + Size /\ slot' \in [File -> Grid]
        /\ \A g \in File : g # f => slot'[g] = slot[g]
        /\ Number(slot'[f]) = Number(slot[f]) + 1 /\ slot'[f] <= length[f] /\ Size \in Nat /\ Size >= 1
    BY <1>2, <1>12, NumberNext, NumberOrder, SizeTyped DEF FilesInv
  <2>3. TypesInv'
    BY <1>1, <1>7, <1>12 DEF TypesInv, MaxLength
  <2>4. FilesInv'
    BY <1>1, <1>12, <2>2 DEF FilesInv, MaxLength
  <2>5. Walking(f)'
    <3>1. \A i \in gl' + 1 .. Len(list) : offset[list[i]] < slot'[f]
      <4> SUFFICES ASSUME NEW i \in gl' + 1 .. Len(list) PROVE offset[list[i]] < slot'[f]
        OBVIOUS
      <4>1. offset[list[i]] < slot[f]
        BY <1>1
      <4>3. i \in 1 .. Len(list)
        <5>1. gl' \in Nat /\ Len(list) \in Nat
          BY <1>2, <1>7
        <5>2. \A a, b \in Nat : \A c \in a + 1 .. b : c \in 1 .. b
          OBVIOUS
        <5> HIDE DEF t
        <5> QED BY <5>1, <5>2
      <4>2. offset[list[i]] \in Nat
        BY <1>2, <4>3
      <4> QED BY <1>2, <2>2, <4>1, <4>2
    <3> QED BY <1>1, <1>6, <1>12, <3>1 DEF Walking
  <2>6. Packing(f)'
    <3>1. SlotsOf(First(f), Here(f)) /\ t \in DOMAIN First(f) /\ Here(f)[t] = Number(slot[f])
      BY <2>1, PlacesTyped
    <3>2. Number(slot[f]) \in Nat
      BY <1>2, NumberBack
    <3> HIDE DEF t
    <3>3. Scanned(First(f), Here(f), Number(slot[f]) + 1, m)
      BY <1>8, <3>1, <3>2, ScanPasses
    <3> QED BY <1>1, <1>4, <1>8, <1>12, <2>2, <3>3 DEF Packing
  <2>7. Untreated(f)' /\ CutOff(f)'
    BY <1>1, <1>12 DEF Untreated, CutOff
  <2>8. Holeless(f)'
    <3> SUFFICES ASSUME NEW s \in Grid, s < slot'[f] PROVE s \in UsedIn(f)
      BY <1>4 DEF Holeless
    <3>1. s \in Nat
      BY NumberBack
    <3>2. CASE s < slot[f]
      BY <1>1, <1>9, <3>2 DEF Holeless, Active
    <3>3. CASE s = slot[f]
      BY <2>1, <3>3 DEF UsedIn
    <3>4. ~(slot[f] < s)
      <4>1. slot[f] < s => slot[f] + Size <= s
        BY <1>2, NumberOrder
      <4> QED BY <1>2, <2>2, <3>1, <4>1
    <3> QED BY <1>2, <3>1, <3>2, <3>3, <3>4
  <2>9. Slots(f)!Keep
    <3>1. Number(slot[f]) \in {[u \in ThumbsIn(f) |-> Number(offset[u])][v] : v \in ThumbsIn(f)}
      BY <2>1
    <3>2. Number(slot[f]) < Number(length[f])
      BY <1>2, <1>12, NumberOrder
    <3> QED BY <1>1, <1>4, <1>12, <2>2, <3>1, <3>2 DEF Slots!Keep, Slots!Used
  <2>10. \A g \in File : g # f => Untouched(g)
    BY <1>1, <1>12, <2>2 DEF Untouched
  <2> QED BY <1>3, <1>5, <2>3, <2>4, <2>5, <2>6, <2>7, <2>8, <2>9, <2>10
          DEF Treated, FileInv, Slots!Next
<1> QED BY <1>10, <1>11, <1>12, VisitSlotFacts

LEMMA FollowingFacts ==
  ASSUME IInv, NEW f \in File, pc[f] = "move"
  PROVE  /\ gl \in Nat /\ gl # 0 /\ Len(list) \in Nat /\ gl <= Len(list)
         /\ list \in Seq(Thumb) /\ list # <<>> /\ Head(list) = list[1] /\ list[1] \in ThumbsIn(f)
         /\ slot[f] \in Grid /\ slot[f] \in Nat /\ last[f] \in Grid /\ last[f] \in Nat
         /\ length[f] \in Grid /\ length[f] \in Nat /\ Size \in Nat /\ Size >= 1
         /\ slot[f] < last[f] /\ last[f] < length[f]
         /\ \A i \in 1 .. Len(list) : list[i] \in ThumbsIn(f)
         /\ \A t \in ThumbsIn(f) : offset[t] \in Grid /\ offset[t] \in Nat /\ t \in Thumb
<1>1. gl \in 0 .. Len(list) /\ list \in Seq(Thumb) /\ Len(list) \in Nat
  BY DEF IInv, TypesInv
<1>2. Listing(f) /\ gl # 0 /\ slot[f] < last[f] /\ last[f] < length[f]
  BY DEF IInv, FileInv, Walking, Active, Following
<1>3. list # <<>> /\ Head(list) = list[1] /\ 1 \in 1 .. Len(list)
  BY <1>1, <1>2
<1>4. \A i \in 1 .. Len(list) : list[i] \in ThumbsIn(f)
  BY <1>2 DEF Listing
<1>5. \A t \in ThumbsIn(f) : offset[t] \in Grid /\ t \in Thumb
  BY DEF IInv, TypesInv, ThumbsIn
<1>6. slot[f] \in Grid /\ last[f] \in Grid /\ length[f] \in Grid
  BY DEF IInv, FilesInv
<1>7. slot[f] \in Nat /\ last[f] \in Nat /\ length[f] \in Nat
      /\ \A t \in ThumbsIn(f) : offset[t] \in Nat
  BY <1>5, <1>6, NumberBack
<1> QED BY <1>1, <1>2, <1>3, <1>4, <1>5, <1>6, <1>7, SizeTyped

(* When the first thumbnail of the list is not at last, none is.           *)
LEMMA NoneIsLast ==
  ASSUME IInv, NEW f \in File, pc[f] = "move", offset[Head(list)] # last[f]
  PROVE  /\ \A t \in ThumbsIn(f) : offset[t] # last[f]
         /\ \E t \in ThumbsIn(f) : offset[t] = slot[f]
<1>1. /\ gl \in Nat /\ gl # 0 /\ Len(list) \in Nat /\ gl <= Len(list)
      /\ Head(list) = list[1] /\ slot[f] \in Nat /\ last[f] \in Nat /\ slot[f] < last[f]
      /\ \A i \in 1 .. Len(list) : list[i] \in ThumbsIn(f)
      /\ \A t \in ThumbsIn(f) : offset[t] \in Nat
  BY FollowingFacts
<1>2. Listing(f) /\ Following(f)
  BY DEF IInv, FileInv, Walking, Active
<1>3. ASSUME NEW i \in 1 .. Len(list) PROVE offset[list[i]] # last[f]
  <2>1. offset[list[i]] \in Nat /\ offset[list[1]] \in Nat
    <3>1. 1 \in 1 .. Len(list)
      BY <1>1
    <3> QED BY <1>1, <3>1
  <2>2. CASE i <= gl
    <3>1. 1 \in 1 .. gl /\ i \in 1 .. gl
      BY <1>1, <2>2
    <3>2. offset[list[1]] <= last[f]
      BY <1>2, <3>1 DEF Following
    <3>3. i # 1 => offset[list[1]] >= offset[list[i]]
      BY <1>2, <3>1 DEF Listing
    <3> QED BY <1>1, <2>1, <3>2, <3>3
  <2>3. CASE ~(i <= gl)
    <3>1. i \in gl + 1 .. Len(list)
      BY <1>1, <2>3
    <3>2. offset[list[i]] <= slot[f]
      BY <1>2, <3>1 DEF Following
    <3> QED BY <1>1, <2>1, <3>2
  <2> QED BY <2>2, <2>3
<1>4. \A t \in ThumbsIn(f) : offset[t] # last[f]
  BY <1>2, <1>3 DEF Listing
<1> QED BY <1>2, <1>4 DEF Following

LEMMA MoveDoneTreats ==
  ASSUME NoPadding, IInv, NEW f \in File, MoveDone(f)
  PROVE  Treated(f)
<1> USE DEF IInv
<1>1. /\ pc[f] = "move" /\ offset[Head(list)] # last[f]
      /\ slot' = [slot EXCEPT ![f] = @ + Size] /\ pc' = [pc EXCEPT ![f] = "slot"]
      /\ UNCHANGED <<offset, data, length, result, list, gl, last, fileOf, ragged, pictured>>
  BY DEF MoveDone, At, GoTo, input
<1>2. /\ gl \in Nat /\ Len(list) \in Nat /\ gl <= Len(list)
      /\ slot[f] \in Grid /\ slot[f] \in Nat /\ last[f] \in Grid /\ last[f] \in Nat
      /\ length[f] \in Grid /\ length[f] \in Nat /\ Size \in Nat /\ Size >= 1
      /\ slot[f] < last[f] /\ last[f] < length[f]
      /\ \A i \in 1 .. Len(list) : list[i] \in ThumbsIn(f)
      /\ \A t \in ThumbsIn(f) : offset[t] \in Grid /\ offset[t] \in Nat
  BY <1>1, FollowingFacts
<1>3. \A g \in File : g # f => pc[g] \notin Active
  BY <1>1, OthersRest DEF Active
<1>4. /\ [t \in ThumbsIn(f) |-> Number(offset[t])]' = [t \in ThumbsIn(f) |-> Number(offset[t])]
      /\ [t \in ThumbsIn(f) |-> Original(t)]' = [t \in ThumbsIn(f) |-> Original(t)]
      /\ [n \in 0 .. Number(length[f]) - 1 |-> Content(data[f], n * Size)]'
           = [n \in 0 .. Number(length[f]) - 1 |-> Content(data[f], n * Size)]
      /\ ThumbsIn(f)' = ThumbsIn(f) /\ UsedIn(f)' = UsedIn(f)
      /\ First(f)' = First(f) /\ Here(f)' = Here(f)
  BY <1>1, QuietSlots
<1>5. PicturesIn(f)'
  BY <1>1, QuietSlots DEF FileInv
<1>6. Listing(f) /\ Following(f)
  BY <1>1 DEF FileInv, Walking, Active
<1>7. /\ \A t \in ThumbsIn(f) : offset[t] # last[f]
      /\ \E t \in ThumbsIn(f) : offset[t] = slot[f]
  BY <1>1, NoneIsLast
<1>8. /\ pc' \in [File -> Idle \cup Active] /\ pc'[f] = "slot"
      /\ \A g \in File : g # f => pc'[g] = pc[g]
      /\ \A g, h \in File : pc'[g] \in Active /\ pc'[h] \in Active => g = h
  BY <1>1, <1>3, GoesTyped DEF Active
<1>9. /\ slot'[f] = slot[f] + Size /\ slot' \in [File -> Grid]
      /\ \A g \in File : g # f => slot'[g] = slot[g]
      /\ Number(slot'[f]) = Number(slot[f]) + 1 /\ slot'[f] <= length[f]
  <2>1. slot[f] + Size <= last[f]
    BY <1>2, NumberOrder
  <2>2. slot[f] + Size <= length[f]
    BY <1>2, <2>1
  <2> QED BY <1>1, <1>2, <2>2, NumberNext DEF FilesInv
<1>10. TypesInv'
  BY <1>1, <1>8 DEF TypesInv, MaxLength
<1>11. FilesInv'
  BY <1>1, <1>9 DEF FilesInv, MaxLength
<1>12. Walking(f)'
  <2>1. \A i \in gl + 1 .. Len(list) : offset[list[i]] < slot'[f]
    <3> SUFFICES ASSUME NEW i \in gl + 1 .. Len(list) PROVE offset[list[i]] < slot'[f]
      OBVIOUS
    <3>1. offset[list[i]] <= slot[f]
      BY <1>6 DEF Following
    <3>2. i \in 1 .. Len(list)
      BY <1>2
    <3>3. offset[list[i]] \in Nat
      BY <1>2, <3>2
    <3> QED BY <1>2, <1>9, <3>1, <3>3
  <2>2. Listing(f)'
    BY <1>1, <1>4, <1>6 DEF Listing
  <2> QED BY <1>1, <1>8, <2>1, <2>2 DEF Walking
<1>13. Packing(f)'
  <2>1. /\ SlotsOf(First(f), Here(f)) /\ DOMAIN First(f) = ThumbsIn(f)
        /\ \A t \in ThumbsIn(f) : Here(f)[t] = Number(offset[t])
    BY PlacesTyped
  <2>2. Number(slot[f]) \in Nat /\ Number(last[f]) \in Nat
    BY <1>2, NumberBack
  <2>3. \A t \in ThumbsIn(f) : Here(f)[t] # Number(last[f])
    BY <1>2, <1>7, <2>1, NumberOrder
  <2>4. Moving(First(f), Here(f), Number(slot[f]), Number(last[f]))
    BY <1>1 DEF FileInv, Packing
  <2>5. Scanned(First(f), Here(f), Number(slot[f]) + 1, Number(last[f]))
    BY <2>1, <2>2, <2>3, <2>4, MovingEnds
  <2> QED BY <1>4, <1>8, <1>9, <2>2, <2>5 DEF Packing
<1>14. Untreated(f)' /\ CutOff(f)'
  BY <1>8 DEF Untreated, CutOff
<1>15. Holeless(f)'
  <2> SUFFICES ASSUME NEW s \in Grid, s < slot'[f] PROVE s \in UsedIn(f)
    BY <1>4 DEF Holeless
  <2>1. s \in Nat
    BY NumberBack
  <2>2. CASE s < slot[f]
    BY <1>1, <2>2 DEF FileInv, Holeless, Active
  <2>3. CASE s = slot[f]
    BY <1>7, <2>3 DEF UsedIn
  <2>4. ~(slot[f] < s)
    <3>1. slot[f] < s => slot[f] + Size <= s
      BY <1>2, NumberOrder
    <3> QED BY <1>2, <1>9, <2>1, <3>1
  <2> QED BY <1>2, <2>1, <2>2, <2>3, <2>4
<1>16. Slots(f)!Relinked
  <2>1. Number(last[f]) \notin {[u \in ThumbsIn(f) |-> Number(offset[u])][v] : v \in ThumbsIn(f)}
    BY <1>2, <1>7, NumberOrder
  <2> QED BY <1>1, <1>4, <1>8, <1>9, <2>1 DEF Slots!Relinked, Slots!Used
<1>17. \A g \in File : g # f => Untouched(g)
  BY <1>1, <1>8, <1>9 DEF Untouched
<1> QED BY <1>3, <1>5, <1>10, <1>11, <1>12, <1>13, <1>14, <1>15, <1>16, <1>17
        DEF Treated, FileInv, Slots!Next

(* The list after its first element was put behind the n-th.               *)
Passed(l, n) == SubSeq(l, 2, n) \o <<Head(l)>> \o SubSeq(l, n + 1, Len(l))

LEMMA PassedPlaces ==
  ASSUME NEW S, NEW l \in Seq(S), NEW n \in 2 .. Len(l)
  PROVE  /\ Passed(l, n) \in Seq(S) /\ Len(Passed(l, n)) = Len(l)
         /\ \A i \in 1 .. Len(l) : Passed(l, n)[i] = IF i < n THEN l[i + 1]
                                                    ELSE IF i = n THEN l[1] ELSE l[i]
<1> DEFINE a == SubSeq(l, 2, n)
           b == <<Head(l)>>
           c == SubSeq(l, n + 1, Len(l))
<1>1. Len(l) \in Nat /\ n \in Nat /\ 2 <= n /\ n <= Len(l) /\ l # <<>>
  BY EmptySeq
<1>2. a \in Seq(S) /\ Len(a) = n - 1 /\ \A i \in 1 .. n - 1 : a[i] = l[i + 1]
  <2>1. /\ a \in Seq(S) /\ Len(a) = n - 2 + 1
        /\ \A i \in 1 .. n - 2 + 1 : a[i] = l[2 + i - 1]
    BY <1>1, SubSeqProperties
  <2> HIDE DEF a
  <2> QED BY <1>1, <2>1
<1>3. b \in Seq(S) /\ Len(b) = 1 /\ b[1] = l[1]
  BY <1>1
<1>4. /\ c \in Seq(S) /\ Len(c) = Len(l) - n /\ \A i \in 1 .. Len(l) - n : c[i] = l[n + i]
  <2>1. c \in Seq(S)
    BY <1>1, SubSeqProperties
  <2>2. /\ Len(c) = IF n + 1 <= Len(l) THEN Len(l) - (n + 1) + 1 ELSE 0
        /\ \A i \in 1 .. Len(l) - (n + 1) + 1 : c[i] = l[n + 1 + i - 1]
    BY <1>1, SubSeqProperties
  <2> HIDE DEF c
  <2> QED BY <1>1, <2>1, <2>2
<1> HIDE DEF a, b, c
<1>5. /\ a \o b \in Seq(S) /\ Len(a \o b) = n
      /\ \A i \in 1 .. n : (a \o b)[i] = IF i <= n - 1 THEN a[i] ELSE b[i - (n - 1)]
  <2>1. /\ a \o b \in Seq(S) /\ Len(a \o b) = Len(a) + Len(b)
        /\ \A i \in 1 .. Len(a) + Len(b) :
             (a \o b)[i] = IF i <= Len(a) THEN a[i] ELSE b[i - Len(a)]
    BY <1>2, <1>3, ConcatProperties
  <2>2. Len(a) + Len(b) = n
    BY <1>1, <1>2, <1>3
  <2> QED BY <1>2, <2>1, <2>2
<1>6. PICK d \in Seq(S) :
        /\ d = a \o b /\ Len(d) = n
        /\ \A i \in 1 .. n : d[i] = IF i <= n - 1 THEN a[i] ELSE b[i - (n - 1)]
  BY <1>5
<1>7. /\ d \o c \in Seq(S) /\ Len(d \o c) = Len(l)
      /\ \A i \in 1 .. Len(l) : (d \o c)[i] = IF i <= n THEN d[i] ELSE c[i - n]
  <2>1. /\ d \o c \in Seq(S) /\ Len(d \o c) = Len(d) + Len(c)
        /\ \A i \in 1 .. Len(d) + Len(c) :
             (d \o c)[i] = IF i <= Len(d) THEN d[i] ELSE c[i - Len(d)]
    BY <1>4, ConcatProperties
  <2>2. Len(d) + Len(c) = Len(l)
    <3>1. Len(d) = n /\ Len(c) = Len(l) - n
      BY <1>4, <1>6
    <3>2. \A x, y \in Nat : x + (y - x) = y
      OBVIOUS
    <3> QED BY <1>1, <3>1, <3>2
  <2> QED BY <1>6, <2>1, <2>2
<1>8. Passed(l, n) = d \o c
  BY <1>6 DEF Passed, a, b, c
<1>9. ASSUME NEW i \in 1 .. Len(l)
      PROVE  (d \o c)[i] = IF i < n THEN l[i + 1] ELSE IF i = n THEN l[1] ELSE l[i]
  <2>1. CASE i < n
    <3>1. i \in 1 .. n /\ i \in 1 .. n - 1 /\ i <= n /\ i <= n - 1
      BY <1>1, <2>1
    <3> QED BY <1>2, <1>6, <1>7, <2>1, <3>1
  <2>2. CASE i = n
    <3>1. i \in 1 .. n /\ ~(i <= n - 1) /\ i <= n /\ i - (n - 1) = 1
      BY <1>1, <2>2
    <3>2. (d \o c)[i] = d[i] /\ d[i] = b[1]
      BY <1>6, <1>7, <3>1
    <3>3. (d \o c)[i] = l[1] /\ ~(i < n)
      BY <1>1, <1>3, <2>2, <3>2
    <3> QED BY <2>2, <3>3
  <2>3. CASE i > n
    <3>1. ~(i <= n) /\ i - n \in 1 .. Len(l) - n /\ n + (i - n) = i /\ ~(i < n) /\ i # n
      BY <1>1, <2>3
    <3> QED BY <1>4, <1>7, <2>3, <3>1
  <2>4. i < n \/ i = n \/ i > n
    BY <1>1
  <2> QED BY <2>1, <2>2, <2>3, <2>4
<1> QED BY <1>7, <1>8, <1>9

(* The place in the old list of what is at place i of Passed(l, n).        *)
From(n, i) == IF i < n THEN i + 1 ELSE IF i = n THEN 1 ELSE i

LEMMA FromPlaces ==
  ASSUME NEW k \in Nat, NEW n \in 1 .. k
  PROVE  /\ \A i \in 1 .. k : From(n, i) \in 1 .. k
         /\ \A i, j \in 1 .. k : From(n, i) = From(n, j) => i = j
         /\ \A j \in 1 .. k : \E i \in 1 .. k : From(n, i) = j
<1>1. \A i \in 1 .. k : From(n, i) \in 1 .. k
  BY DEF From
<1>2. \A i, j \in 1 .. k : From(n, i) = From(n, j) => i = j
  BY DEF From
<1>3. ASSUME NEW j \in 1 .. k PROVE \E i \in 1 .. k : From(n, i) = j
  <2>1. CASE j = 1
    <3>1. From(n, n) = j /\ n \in 1 .. k
      BY <2>1 DEF From
    <3> QED BY <3>1
  <2>2. CASE j # 1 /\ j <= n
    <3>1. j - 1 \in 1 .. k /\ From(n, j - 1) = j
      BY <2>2 DEF From
    <3> QED BY <3>1
  <2>3. CASE j > n
    <3>1. From(n, j) = j
      BY <2>3 DEF From
    <3> QED BY <3>1
  <2>4. j = 1 \/ (j # 1 /\ j <= n) \/ j > n
    OBVIOUS
  <2> QED BY <2>1, <2>2, <2>3, <2>4
<1> QED BY <1>1, <1>2, <1>3

LEMMA MoveFirstFacts ==
  ASSUME IInv, NEW f \in File, MoveFirst(f)
  PROVE  /\ pc[f] = "move" /\ offset[list[1]] = last[f]
         /\ offset' = [offset EXCEPT ![list[1]] = slot[f]]
         /\ UNCHANGED <<data, length, result, slot, last, pc, fileOf, ragged, pictured>>
         /\ list' \in Seq(Thumb) /\ Len(list') = Len(list)
         /\ \A i \in 1 .. Len(list) : list'[i] = list[From(gl, i)]
         /\ gl' = IF gl = 1 THEN 1 ELSE gl - 1
<1>1. /\ pc[f] = "move" /\ offset[Head(list)] = last[f]
      /\ offset' = [offset EXCEPT ![Head(list)] = slot[f]]
      /\ UNCHANGED <<data, length, result, slot, last, pc, fileOf, ragged, pictured>>
  BY DEF MoveFirst, At, input
<1>2. /\ gl \in Nat /\ gl # 0 /\ Len(list) \in Nat /\ gl <= Len(list)
      /\ list \in Seq(Thumb) /\ Head(list) = list[1]
  BY <1>1, FollowingFacts
<1>3. CASE gl # 1 /\ list' = Passed(list, gl) /\ gl' = gl - 1
  <2>1. gl \in 2 .. Len(list)
    BY <1>2, <1>3
  <2>2. /\ Passed(list, gl) \in Seq(Thumb) /\ Len(Passed(list, gl)) = Len(list)
        /\ \A i \in 1 .. Len(list) : Passed(list, gl)[i] = IF i < gl THEN list[i + 1]
                                      ELSE IF i = gl THEN list[1] ELSE list[i]
    BY <1>2, <2>1, PassedPlaces
  <2>3. \A i \in 1 .. Len(list) : list'[i] = list[From(gl, i)]
    BY <1>3, <2>2 DEF From
  <2> QED BY <1>1, <1>2, <1>3, <2>2, <2>3
<1>4. CASE gl = 1 /\ UNCHANGED <<list, gl>>
  <2>1. \A i \in 1 .. Len(list) : From(gl, i) = i
    BY <1>4 DEF From
  <2>2. list' = list /\ gl' = 1
    BY <1>4
  <2> QED BY <1>1, <1>2, <1>4, <2>1, <2>2
<1> QED BY <1>3, <1>4 DEF MoveFirst, Passed

LEMMA MoveFirstWalks ==
  ASSUME IInv, NEW f \in File, MoveFirst(f)
  PROVE  Listing(f)' /\ Following(f)'
<1>1. /\ pc[f] = "move" /\ offset[list[1]] = last[f]
      /\ offset' = [offset EXCEPT ![list[1]] = slot[f]]
      /\ UNCHANGED <<data, length, result, slot, last, pc, fileOf, ragged, pictured>>
      /\ list' \in Seq(Thumb) /\ Len(list') = Len(list)
      /\ \A i \in 1 .. Len(list) : list'[i] = list[From(gl, i)]
      /\ gl' = IF gl = 1 THEN 1 ELSE gl - 1
  BY MoveFirstFacts
<1>2. /\ gl \in Nat /\ gl # 0 /\ Len(list) \in Nat /\ gl <= Len(list)
      /\ slot[f] \in Nat /\ last[f] \in Nat /\ slot[f] < last[f] /\ list[1] \in ThumbsIn(f)
      /\ \A i \in 1 .. Len(list) : list[i] \in ThumbsIn(f)
      /\ \A t \in ThumbsIn(f) : offset[t] \in Nat /\ t \in Thumb
  BY <1>1, FollowingFacts
<1>3. Listing(f) /\ Following(f)
  BY <1>1 DEF IInv, FileInv, Walking, Active
<1>4. \A i, j \in 1 .. Len(list) : list[i] = list[j] => i = j
  BY <1>3 DEF Listing
<1>5. /\ \A i \in 1 .. Len(list) : From(gl, i) \in 1 .. Len(list)
      /\ \A i, j \in 1 .. Len(list) : From(gl, i) = From(gl, j) => i = j
      /\ \A j \in 1 .. Len(list) : \E i \in 1 .. Len(list) : From(gl, i) = j
  <2>1. gl \in 1 .. Len(list) /\ Len(list) \in Nat
    BY <1>2
  <2> QED BY <2>1, FromPlaces
<1>6. ThumbsIn(f)' = ThumbsIn(f)
  BY <1>1, SameThumbs
<1>7. DOMAIN offset = Thumb
  BY DEF IInv, TypesInv
<1>8. ASSUME NEW i \in 1 .. Len(list)
      PROVE  /\ i = 1 => offset'[list[i]] = slot[f]
             /\ i # 1 => offset'[list[i]] = offset[list[i]]
             /\ offset[list[i]] \in Nat
  <2>1. list[i] \in Thumb /\ list[1] \in Thumb /\ offset[list[i]] \in Nat
    BY <1>2
  <2>2. i # 1 => list[i] # list[1]
    <3>1. 1 \in 1 .. Len(list)
      BY <1>2
    <3> QED BY <1>4, <3>1
  <2> QED BY <1>1, <1>7, <2>1, <2>2
<1>9. \A i \in 1 .. gl' : From(gl, i) = IF gl = 1 THEN 1 ELSE i + 1
  BY <1>1, <1>2 DEF From
<1>10. Listing(f)'
  <2>1. \A i \in 1 .. Len(list') : list'[i] \in ThumbsIn(f)
    BY <1>1, <1>2, <1>5
  <2>2. \A i, j \in 1 .. Len(list') : list'[i] = list'[j] => i = j
    <3> SUFFICES ASSUME NEW i \in 1 .. Len(list), NEW j \in 1 .. Len(list), list'[i] = list'[j]
                 PROVE  i = j
      BY <1>1
    <3>1. list[From(gl, i)] = list[From(gl, j)]
      BY <1>1
    <3>2. From(gl, i) \in 1 .. Len(list) /\ From(gl, j) \in 1 .. Len(list)
      BY <1>5
    <3>3. From(gl, i) = From(gl, j)
      BY <1>4, <3>1, <3>2
    <3> QED BY <1>5, <3>3
  <2>3. ASSUME NEW t \in ThumbsIn(f) PROVE \E i \in 1 .. Len(list') : list'[i] = t
    <3>1. PICK j \in 1 .. Len(list) : list[j] = t
      BY <1>3 DEF Listing
    <3>2. PICK i \in 1 .. Len(list) : From(gl, i) = j
      BY <1>5
    <3> QED BY <1>1, <3>1, <3>2
  <2>4. ASSUME NEW i \in 1 .. gl', NEW j \in 1 .. gl', i < j
        PROVE  offset'[list'[i]] >= offset'[list'[j]]
    <3>1. gl # 1 /\ i + 1 \in 1 .. gl /\ j + 1 \in 1 .. gl /\ i + 1 < j + 1
      BY <1>1, <1>2, <2>4
    <3>2. From(gl, i) = i + 1 /\ From(gl, j) = j + 1
      BY <1>9, <3>1
    <3>3. i \in 1 .. Len(list) /\ j \in 1 .. Len(list)
      BY <1>2, <3>1
    <3>4. list'[i] = list[i + 1] /\ list'[j] = list[j + 1]
      BY <1>1, <3>2, <3>3
    <3>5. offset[list[i + 1]] >= offset[list[j + 1]]
      BY <1>3, <3>1 DEF Listing
    <3>6. i + 1 \in 1 .. Len(list) /\ j + 1 \in 1 .. Len(list) /\ i + 1 # 1 /\ j + 1 # 1
      BY <1>2, <3>1, <3>3
    <3> QED BY <1>8, <3>4, <3>5, <3>6
  <2> QED BY <1>6, <2>1, <2>2, <2>3, <2>4 DEF Listing
<1>11. Following(f)'
  <2>1. ASSUME NEW i \in 1 .. gl' PROVE offset'[list'[i]] <= last[f]
    <3>1. i \in 1 .. Len(list)
      BY <1>1, <1>2
    <3>2. CASE gl = 1
      <4>1. list'[i] = list[1] /\ 1 \in 1 .. Len(list)
        BY <1>1, <1>2, <1>9, <3>1, <3>2
      <4>2. offset'[list'[i]] = slot[f]
        BY <1>8, <4>1
      <4> QED BY <1>2, <4>2
    <3>3. CASE gl # 1
      <4>1. i + 1 \in 1 .. gl /\ i + 1 \in 1 .. Len(list) /\ i + 1 # 1
        BY <1>1, <1>2, <3>1, <3>3
      <4>2. list'[i] = list[i + 1]
        BY <1>1, <1>9, <3>1, <3>3
      <4>3. offset[list[i + 1]] <= last[f]
        BY <1>3, <4>1 DEF Following
      <4> QED BY <1>8, <4>1, <4>2, <4>3
    <3> QED BY <3>2, <3>3
  <2>2. ASSUME NEW i \in gl' + 1 .. Len(list) PROVE offset'[list'[i]] <= slot[f]
    <3>1. i \in 1 .. Len(list) /\ i >= gl /\ (gl = 1 => i > gl)
      BY <1>1, <1>2
    <3>2. CASE i = gl
      <4>1. list'[i] = list[1] /\ 1 \in 1 .. Len(list)
        BY <1>1, <1>2, <3>1, <3>2 DEF From
      <4>2. offset'[list'[i]] = slot[f]
        BY <1>8, <4>1
      <4> QED BY <1>2, <4>2
    <3>3. CASE i # gl
      <4>1. list'[i] = list[i] /\ i \in gl + 1 .. Len(list) /\ i # 1
        BY <1>1, <1>2, <3>1, <3>3 DEF From
      <4>2. offset[list[i]] <= slot[f]
        BY <1>3, <4>1 DEF Following
      <4> QED BY <1>8, <3>1, <4>1, <4>2
    <3> QED BY <3>2, <3>3
  <2>3. \E t \in ThumbsIn(f) : offset'[t] \in {slot[f], last[f]}
    <3>1. 1 \in 1 .. Len(list)
      BY <1>2
    <3>2. offset'[list[1]] = slot[f]
      BY <1>8, <3>1
    <3> QED BY <1>2, <3>2
  <2>4. gl' # 0
    BY <1>1, <1>2
  <2>5. slot[f] < last[f] /\ last[f] < length[f]
        /\ Content(data[f], slot[f]) = Content(data[f], last[f])
    BY <1>3 DEF Following
  <2> QED BY <1>1, <1>6, <2>1, <2>2, <2>3, <2>4, <2>5 DEF Following, Content
<1> QED BY <1>10, <1>11

LEMMA MoveFirstTreats ==
  ASSUME NoPadding, IInv, NEW f \in File, MoveFirst(f)
  PROVE  Treated(f)
<1> DEFINE x == list[1]
<1>1. /\ pc[f] = "move" /\ offset[x] = last[f] /\ offset' = [offset EXCEPT ![x] = slot[f]]
      /\ UNCHANGED <<data, length, result, slot, last, pc, fileOf, ragged, pictured>>
      /\ list' \in Seq(Thumb) /\ Len(list') = Len(list)
      /\ gl' = IF gl = 1 THEN 1 ELSE gl - 1
  BY MoveFirstFacts
<1>2. /\ gl \in Nat /\ gl # 0 /\ Len(list) \in Nat /\ gl <= Len(list)
      /\ slot[f] \in Grid /\ slot[f] \in Nat /\ last[f] \in Grid /\ last[f] \in Nat
      /\ length[f] \in Grid /\ length[f] \in Nat /\ Size \in Nat
      /\ slot[f] < last[f] /\ last[f] < length[f] /\ x \in ThumbsIn(f)
      /\ \A t \in ThumbsIn(f) : offset[t] \in Grid /\ offset[t] \in Nat /\ t \in Thumb
  BY <1>1, FollowingFacts
<1>3. Listing(f)' /\ Following(f)'
  BY MoveFirstWalks
<1>4. ThumbsIn(f)' = ThumbsIn(f) /\ First(f)' = First(f) /\ \A t : Original(t)' = Original(t)
  BY <1>1, SameThumbs
<1> HIDE DEF x
<1>5. offset'[x] = slot[f] /\ \A t \in Thumb : t # x => offset'[t] = offset[t]
  BY <1>1, <1>2 DEF IInv, TypesInv
<1>6. TypesInv'
  <2>1. offset' \in [Thumb -> Grid]
    BY <1>1, <1>2 DEF IInv, TypesInv
  <2>2. length[f] <= MaxLength /\ MaxLength \in Nat
    BY RearrangeAssumption DEF IInv, FilesInv, MaxLength
  <2>3. slot[f] < MaxLength
    BY <1>2, <2>2
  <2>4. \A t \in Thumb : offset'[t] < MaxLength
    BY <1>5, <2>3 DEF IInv, TypesInv
  <2>5. gl' \in 0 .. Len(list')
    BY <1>1, <1>2
  <2> QED BY <1>1, <2>1, <2>4, <2>5 DEF IInv, TypesInv, MaxLength
<1>7. FilesInv'
  BY <1>1 DEF IInv, FilesInv, MaxLength
<1>8. PicturesIn(f)'
  <2>1. Following(f) /\ PicturesIn(f)
    BY <1>1 DEF IInv, FileInv, Walking
  <2>2. Content(data[f], slot[f]) = Original(x)
    BY <1>1, <1>2, <2>1 DEF Following, PicturesIn
  <2>3. slot[f] + Size <= length[f]
    <3>1. slot[f] + Size <= last[f]
      BY <1>2, NumberOrder
    <3> QED BY <1>2, <3>1
  <2>4. ASSUME NEW t \in ThumbsIn(f)
        PROVE  offset'[t] + Size <= length[f] /\ Content(data[f], offset'[t]) = Original(t)
    BY <1>2, <1>5, <2>1, <2>2, <2>3 DEF PicturesIn
  <2> QED BY <1>1, <1>4, <2>4 DEF PicturesIn, Content
<1>9. Untreated(f)' /\ CutOff(f)'
  BY <1>1 DEF Untreated, CutOff
<1>10. Holeless(f)'
  <2> SUFFICES ASSUME NEW s \in Grid, s < slot[f] PROVE \E t \in ThumbsIn(f) : offset'[t] = s
    BY <1>1, <1>4 DEF Holeless, UsedIn
  <2>1. PICK t \in ThumbsIn(f) : offset[t] = s
    BY <1>1 DEF IInv, FileInv, Holeless, Active, UsedIn
  <2>2. t # x
    BY <1>1, <1>2, <2>1
  <2> QED BY <1>2, <1>5, <2>1, <2>2
<1>11. Walking(f)'
  BY <1>1, <1>3 DEF Walking
<1>12. Here(f)' = [Here(f) EXCEPT ![x] = Number(slot[f])]
  BY <1>2, <1>4, <1>5 DEF Here
<1>13. Packing(f)'
  <2>1. SlotsOf(First(f), Here(f)) /\ x \in DOMAIN First(f) /\ Here(f)[x] = Number(last[f])
    BY <1>1, <1>2, PlacesTyped DEF IInv
  <2>2. Number(slot[f]) \in Nat /\ Number(last[f]) \in Nat
    BY <1>2, NumberBack
  <2>3. Moving(First(f), Here(f), Number(slot[f]), Number(last[f]))
    BY <1>1 DEF IInv, FileInv, Packing
  <2>4. Moving(First(f), [Here(f) EXCEPT ![x] = Number(slot[f])], Number(slot[f]), Number(last[f]))
    BY <2>1, <2>2, <2>3, MovingFollows
  <2> QED BY <1>1, <1>4, <1>12, <2>4 DEF Packing
<1>14. Slots(f)!Relink(x)
  <2>1. [t \in ThumbsIn(f) |-> Number(offset[t])]'
          = [[t \in ThumbsIn(f) |-> Number(offset[t])] EXCEPT ![x] = Number(slot[f])]
    BY <1>12 DEF Here
  <2>2. [t \in ThumbsIn(f) |-> Number(offset[t])][x] = Number(last[f])
    BY <1>1, <1>2
  <2>3. /\ [t \in ThumbsIn(f) |-> Original(t)]' = [t \in ThumbsIn(f) |-> Original(t)]
        /\ [n \in 0 .. Number(length[f]) - 1 |-> Content(data[f], n * Size)]'
             = [n \in 0 .. Number(length[f]) - 1 |-> Content(data[f], n * Size)]
    BY <1>1, <1>4 DEF Content
  <2> QED BY <1>1, <1>4, <2>1, <2>2, <2>3 DEF Slots!Relink
<1>15. ASSUME NEW g \in File, g # f PROVE Untouched(g) /\ pc[g] \notin Active
  <2>1. pc[g] \notin Active
    BY <1>1, <1>15, OthersRest DEF Active
  <2>2. x \notin ThumbsIn(g) /\ ThumbsIn(g) \subseteq Thumb
    BY <1>2, <1>15 DEF ThumbsIn
  <2> QED BY <1>1, <1>5, <2>1, <2>2 DEF Untouched
<1>16. Slots(f)!Next
  BY <1>2, <1>14 DEF Slots!Next
<1> QED BY <1>6, <1>7, <1>8, <1>9, <1>10, <1>11, <1>13, <1>15, <1>16 DEF Treated, FileInv

(* Where the last picture is, when it is about to be copied.               *)
LEMMA CopyFacts ==
  ASSUME IInv, NEW f \in File, pc[f] = "copy"
  PROVE  /\ Head(list) = list[1] /\ list[1] \in ThumbsIn(f)
         /\ slot[f] \in Grid /\ slot[f] \in Nat /\ length[f] \in Grid /\ length[f] \in Nat
         /\ Size \in Nat /\ Size >= 1
         /\ \A t \in ThumbsIn(f) : /\ offset[t] \in Grid /\ offset[t] \in Nat /\ t \in Thumb
                                   /\ offset[t] # slot[f] /\ offset[t] <= offset[list[1]]
         /\ slot[f] < offset[list[1]] /\ offset[list[1]] < length[f]
         /\ gl # 0
         /\ \A i \in gl + 1 .. Len(list) : offset[list[i]] < slot[f]
         /\ \A i \in 1 .. gl : offset[list[i]] <= offset[list[1]]
<1>1. gl \in 0 .. Len(list) /\ list \in Seq(Thumb) /\ Len(list) \in Nat
  BY DEF IInv, TypesInv
<1>2. /\ Listing(f) /\ gl # 0 /\ offset[list[gl]] > slot[f] /\ slot[f] < length[f]
      /\ \A i \in gl + 1 .. Len(list) : offset[list[i]] < slot[f]
      /\ PicturesIn(f)
  BY DEF IInv, FileInv, Walking, Active
<1>3. list # <<>> /\ Head(list) = list[1] /\ 1 \in 1 .. gl /\ gl \in 1 .. gl /\ gl \in 1 .. Len(list)
      /\ 1 \in 1 .. Len(list)
  BY <1>1, <1>2
<1>4. slot[f] \in Grid /\ slot[f] \in Nat /\ length[f] \in Grid /\ length[f] \in Nat
  BY NumberBack DEF IInv, FilesInv
<1>5. \A t \in ThumbsIn(f) : offset[t] \in Grid /\ offset[t] \in Nat /\ t \in Thumb
  BY NumberBack DEF IInv, TypesInv, ThumbsIn
<1>6. \A i \in 1 .. Len(list) : list[i] \in ThumbsIn(f) /\ offset[list[i]] \in Nat
  BY <1>2, <1>5 DEF Listing
<1>7. ASSUME NEW i \in 1 .. gl
      PROVE  /\ offset[list[gl]] <= offset[list[i]] /\ offset[list[i]] <= offset[list[1]]
             /\ i \in 1 .. Len(list)
  <2>1. i \in 1 .. Len(list)
    BY <1>1
  <2>2. i # 1 => offset[list[1]] >= offset[list[i]]
    BY <1>2, <1>3 DEF Listing
  <2>3. i # gl => offset[list[i]] >= offset[list[gl]]
    BY <1>1, <1>2, <1>3 DEF Listing
  <2> QED BY <1>3, <1>6, <2>1, <2>2, <2>3
<1>8. slot[f] < offset[list[1]]
  BY <1>2, <1>3, <1>4, <1>6, <1>7
<1>9. ASSUME NEW t \in ThumbsIn(f)
      PROVE  offset[t] # slot[f] /\ offset[t] <= offset[list[1]]
  <2>1. PICK i \in 1 .. Len(list) : list[i] = t
    BY <1>2 DEF Listing
  <2>2. CASE i <= gl
    <3>1. i \in 1 .. gl
      BY <1>1, <2>2
    <3> QED BY <1>2, <1>3, <1>4, <1>6, <1>7, <2>1, <3>1
  <2>3. CASE ~(i <= gl)
    <3>1. i \in gl + 1 .. Len(list)
      BY <1>1, <2>3
    <3>2. offset[t] < slot[f]
      BY <1>2, <2>1, <3>1
    <3> QED BY <1>3, <1>4, <1>5, <1>6, <1>8, <3>2
  <2> QED BY <2>2, <2>3
<1>10. offset[list[1]] < length[f]
  <2>1. offset[list[1]] + Size <= length[f]
    BY <1>2, <1>3, <1>6 DEF PicturesIn
  <2> QED BY <1>3, <1>4, <1>6, <2>1, SizeTyped
<1> QED BY <1>2, <1>3, <1>4, <1>5, <1>6, <1>7, <1>8, <1>9, <1>10, SizeTyped

(* A file of n cells was written at b only, and the other pictures are as  *)
(* they were.                                                              *)
WrittenAt(b, n, cells, new) ==
  \A s \in 0 .. n - 1 : s \notin b .. b + Size - 1 => new[s] = cells[s]

LEMMA OtherCells ==
  ASSUME NEW cells, NEW new, NEW n \in Nat, NEW a \in Grid, NEW b \in Grid, a # b,
         a + Size <= n, WrittenAt(b, n, cells, new)
  PROVE  Content(new, a) = Content(cells, a)
<1>1. a \in Nat /\ b \in Nat /\ Size \in Nat /\ Size >= 1
  BY NumberBack, SizeTyped
<1>2. a + Size <= b \/ b + Size <= a
  BY <1>1, NumberOrder
<1>3. ASSUME NEW i \in 0 .. Size - 1 PROVE new[a + i] = cells[a + i]
  <2>1. a + i \in 0 .. n - 1 /\ a + i \notin b .. b + Size - 1
    BY <1>1, <1>2
  <2> QED BY <2>1 DEF WrittenAt
<1> QED BY <1>3 DEF Content

LEMMA StoredFacts ==
  ASSUME IInv, NEW f \in File, slot[f] < length[f],
         \A t \in ThumbsIn(f) : offset[t] # slot[f],
         NEW new, new \in [0 .. length[f] - 1 -> Picture],
         WrittenAt(slot[f], length[f], data[f], new),
         data' = [data EXCEPT ![f] = new],
         UNCHANGED <<offset, length, fileOf, pictured>>
  PROVE  /\ PicturesIn(f)' /\ Content(data'[f], slot[f]) \in [0 .. Size - 1 -> Picture]
         /\ [n \in 0 .. Number(length[f]) - 1 |-> Content(data[f], n * Size)]'
              = [[n \in 0 .. Number(length[f]) - 1 |-> Content(data[f], n * Size)]
                   EXCEPT ![Number(slot[f])] = Content(data'[f], slot[f])]
         /\ data'[f] = new /\ \A g \in File : g # f => data'[g] = data[g]
         /\ DOMAIN data' = File
<1>1. data'[f] = new /\ (\A g \in File : g # f => data'[g] = data[g]) /\ DOMAIN data' = File
  BY DEF IInv, FilesInv
<1>2. slot[f] \in Grid /\ slot[f] \in Nat /\ length[f] \in Grid /\ length[f] \in Nat
      /\ Size \in Nat /\ Size >= 1
  BY NumberBack, SizeTyped DEF IInv, FilesInv
<1>3. slot[f] + Size <= length[f]
  BY <1>2, NumberOrder
<1>4. ThumbsIn(f)' = ThumbsIn(f) /\ \A t : Original(t)' = Original(t)
  BY SameThumbs
<1>5. ASSUME NEW a \in Grid, a # slot[f], a + Size <= length[f]
      PROVE  Content(new, a) = Content(data[f], a)
  BY <1>2, <1>5, OtherCells
<1>6. PicturesIn(f)'
  <2>1. ASSUME NEW t \in ThumbsIn(f)
        PROVE  offset[t] + Size <= length[f] /\ Content(new, offset[t]) = Original(t)
    <3>1. offset[t] \in Grid
      BY DEF IInv, TypesInv, ThumbsIn
    <3>2. offset[t] + Size <= length[f] /\ Content(data[f], offset[t]) = Original(t)
      BY DEF IInv, FileInv, PicturesIn
    <3> QED BY <1>5, <3>1, <3>2
  <2> QED BY <1>1, <1>4, <2>1 DEF PicturesIn, Content
<1>7. Content(new, slot[f]) \in [0 .. Size - 1 -> Picture]
  <2>1. ASSUME NEW i \in 0 .. Size - 1 PROVE new[slot[f] + i] \in Picture
    <3>1. slot[f] + i \in 0 .. length[f] - 1
      BY <1>2, <1>3
    <3> QED BY <3>1
  <2> QED BY <2>1 DEF Content
<1>8. ASSUME NEW n \in 0 .. Number(length[f]) - 1, n # Number(slot[f])
      PROVE  Content(new, n * Size) = Content(data[f], n * Size)
  <2>1. n \in Nat /\ n < Number(length[f])
    BY <1>2, NumberBack
  <2>2. n * Size \in Grid /\ Number(n * Size) = n
    BY <2>1, NumberOf
  <2>3. n * Size < length[f]
    BY <1>2, <2>1, <2>2, NumberOrder
  <2>4. n * Size + Size <= length[f]
    BY <1>2, <2>2, <2>3, NumberOrder
  <2> QED BY <1>5, <1>8, <2>2, <2>4
<1>9. Number(slot[f]) * Size = slot[f]
  BY <1>2, NumberBack
<1> DEFINE N == Number(length[f]) - 1
           old == [n \in 0 .. N |-> Content(data[f], n * Size)]
<1>10. [n \in 0 .. N |-> Content(new, n * Size)] = [old EXCEPT ![Number(slot[f])] = Content(new, slot[f])]
  <2>1. ASSUME NEW n \in 0 .. N
        PROVE  Content(new, n * Size)
                 = IF n = Number(slot[f]) THEN Content(new, slot[f]) ELSE old[n]
    BY <1>8, <1>9
  <2> HIDE DEF N
  <2> QED BY <2>1
<1> QED BY <1>1, <1>6, <1>7, <1>10 DEF Content

(* What is stored in a file of n cells.                                    *)
Stored(n) == [0 .. n - 1 -> Picture]

LEMMA CopiedCells ==
  ASSUME NEW n \in Nat, NEW cells, cells \in Stored(n), NEW a \in Grid, NEW b \in Grid,
         a + Size <= n, b + Size <= n
  PROVE  /\ Copied(cells, a, b) \in Stored(n)
         /\ WrittenAt(b, n, cells, Copied(cells, a, b))
         /\ Content(Copied(cells, a, b), b) = Content(cells, a)
<1>1. a \in Nat /\ b \in Nat /\ Size \in Nat /\ Size >= 1
  BY NumberBack, SizeTyped
<1>2. ASSUME NEW s \in 0 .. n - 1
      PROVE  /\ s \in b .. b + Size - 1 => cells[s - b + a] \in Picture
             /\ cells[s] \in Picture
  <2>1. s \in b .. b + Size - 1 => s - b + a \in 0 .. n - 1
    BY <1>1
  <2> QED BY <2>1 DEF Stored
<1>3. DOMAIN cells = 0 .. n - 1
  BY DEF Stored
<1>4. /\ Copied(cells, a, b) \in [0 .. n - 1 -> Picture]
      /\ WrittenAt(b, n, cells, Copied(cells, a, b))
  BY <1>2, <1>3 DEF Copied, WrittenAt
<1>5. ASSUME NEW i \in 0 .. Size - 1 PROVE Copied(cells, a, b)[b + i] = cells[a + i]
  <2>1. b + i \in 0 .. n - 1 /\ b + i \in b .. b + Size - 1 /\ (b + i) - b + a = a + i
    BY <1>1
  <2> QED BY <1>3, <2>1 DEF Copied
<1>6. Content(Copied(cells, a, b), b) = Content(cells, a)
  BY <1>5 DEF Content
<1> QED BY <1>4, <1>6 DEF Stored

LEMMA CopyLastTreats ==
  ASSUME NoPadding, IInv, NEW f \in File, CopyLast(f)
  PROVE  Treated(f)
<1> DEFINE x == list[1]
<1>1. pc[f] = "copy"
  BY DEF CopyLast, At
<1>2. /\ Head(list) = x /\ x \in ThumbsIn(f)
      /\ slot[f] \in Grid /\ slot[f] \in Nat /\ length[f] \in Grid /\ length[f] \in Nat
      /\ Size \in Nat /\ Size >= 1
      /\ \A t \in ThumbsIn(f) : /\ offset[t] \in Grid /\ offset[t] \in Nat /\ t \in Thumb
                                /\ offset[t] # slot[f] /\ offset[t] <= offset[x]
      /\ slot[f] < offset[x] /\ offset[x] < length[f]
      /\ gl # 0
      /\ \A i \in gl + 1 .. Len(list) : offset[list[i]] < slot[f]
      /\ \A i \in 1 .. gl : offset[list[i]] <= offset[x]
  BY <1>1, CopyFacts
<1>3. Listing(f)
  BY <1>1 DEF IInv, FileInv, Walking, Active
<1>4. \A g \in File : g # f => pc[g] \notin Active
  BY <1>1, OthersRest DEF Active
<1> HIDE DEF x
<1>5. /\ offset[x] \in Grid /\ offset[x] \in Nat /\ x \in Thumb
      /\ slot[f] + Size <= offset[x] /\ offset[x] + Size <= length[f] /\ slot[f] < length[f]
      /\ slot[f] + Size <= length[f]
  <2>1. offset[x] \in Grid /\ offset[x] \in Nat /\ x \in Thumb
    BY <1>2
  <2>2. slot[f] + Size <= offset[x] /\ offset[x] + Size <= length[f]
    BY <1>2, <2>1, NumberOrder
  <2> QED BY <1>2, <2>1, <2>2
<1>6. data[f] \in [0 .. length[f] - 1 -> Picture]
  BY DEF IInv, FilesInv
<1>7. CASE /\ last' = [last EXCEPT ![f] = offset[x]]
           /\ data' = [data EXCEPT ![f] = Copied(@, offset[x], slot[f])]
           /\ GoTo(f, "move")
           /\ UNCHANGED <<offset, length, result, list, gl, slot, input>>
  <2> DEFINE new == Copied(data[f], offset[x], slot[f])
  <2>1. /\ new \in [0 .. length[f] - 1 -> Picture]
        /\ WrittenAt(slot[f], length[f], data[f], new)
        /\ Content(new, slot[f]) = Content(data[f], offset[x])
    <3>1. /\ length[f] \in Nat /\ offset[x] \in Grid /\ slot[f] \in Grid
          /\ offset[x] + Size <= length[f] /\ slot[f] + Size <= length[f]
      BY <1>2, <1>5
    <3> HIDE DEF x
    <3>2. data[f] \in Stored(length[f])
      BY <1>6 DEF Stored
    <3>3. /\ new \in Stored(length[f])
          /\ WrittenAt(slot[f], length[f], data[f], new)
          /\ Content(new, slot[f]) = Content(data[f], offset[x])
      BY ONLY <3>1, <3>2, CopiedCells DEF new
    <3> QED BY <3>3 DEF Stored
  <2>2. data' = [data EXCEPT ![f] = new] /\ UNCHANGED <<fileOf, ragged, pictured>>
    BY <1>7 DEF input
  <2> HIDE DEF new
  <2>3. /\ PicturesIn(f)' /\ Content(data'[f], slot[f]) \in [0 .. Size - 1 -> Picture]
        /\ [n \in 0 .. Number(length[f]) - 1 |-> Content(data[f], n * Size)]'
             = [[n \in 0 .. Number(length[f]) - 1 |-> Content(data[f], n * Size)]
                  EXCEPT ![Number(slot[f])] = Content(data'[f], slot[f])]
        /\ data'[f] = new /\ \A g \in File : g # f => data'[g] = data[g]
        /\ DOMAIN data' = File
    BY <1>2, <1>5, <1>7, <2>1, <2>2, StoredFacts
  <2>4. /\ pc' \in [File -> Idle \cup Active] /\ pc'[f] = "move"
        /\ \A g \in File : g # f => pc'[g] = pc[g]
        /\ \A g, h \in File : pc'[g] \in Active /\ pc'[h] \in Active => g = h
    BY <1>4, <1>7, GoesTyped DEF IInv, GoTo, Active
  <2>5. ThumbsIn(f)' = ThumbsIn(f) /\ First(f)' = First(f) /\ (\A t : Original(t)' = Original(t))
        /\ Here(f)' = Here(f) /\ UsedIn(f)' = UsedIn(f)
    BY <1>7, <2>2, SameThumbs DEF Here, UsedIn
  <2>6. last'[f] = offset[x] /\ last' \in [File -> Grid]
        /\ \A g \in File : g # f => last'[g] = last[g]
    BY <1>5, <1>7 DEF IInv, FilesInv
  <2>7. Content(data'[f], slot[f]) = Content(data'[f], offset[x])
    <3>1. offset[x] # slot[f]
      BY <1>2
    <3>2. Content(new, offset[x]) = Content(data[f], offset[x])
      BY <1>2, <1>5, <2>1, <3>1, OtherCells
    <3> QED BY <2>1, <2>3, <3>2
  <2>8. TypesInv'
    BY <1>7, <2>2, <2>4 DEF IInv, TypesInv, MaxLength
  <2>9. FilesInv'
    <3>1. length[f] <= MaxLength /\ MaxLength \in Nat
      BY RearrangeAssumption DEF IInv, FilesInv, MaxLength
    <3>2. last'[f] <= MaxLength
      BY <1>2, <1>5, <2>6, <3>1
    <3>3. ASSUME NEW g \in File
          PROVE  /\ length[g] <= MaxLength /\ last'[g] <= MaxLength /\ slot[g] <= length[g]
                 /\ data'[g] \in [0 .. length[g] - 1 -> Picture]
      <4>1. CASE g = f
        BY <2>1, <2>3, <3>1, <3>2, <4>1 DEF IInv, FilesInv
      <4>2. CASE g # f
        BY <2>3, <2>6, <4>2 DEF IInv, FilesInv
      <4> QED BY <4>1, <4>2
    <3> QED BY <1>7, <2>2, <2>3, <2>6, <3>3 DEF IInv, FilesInv, MaxLength
  <2>10. Walking(f)'
    <3>1. \A i \in gl + 1 .. Len(list) : offset[list[i]] <= slot[f]
      <4> SUFFICES ASSUME NEW i \in gl + 1 .. Len(list) PROVE offset[list[i]] <= slot[f]
        OBVIOUS
      <4>1. i \in 1 .. Len(list)
        BY DEF IInv, TypesInv
      <4>2. list[i] \in ThumbsIn(f)
        BY <1>3, <4>1 DEF Listing
      <4> QED BY <1>2, <4>2
    <3>2. Following(f)'
      BY <1>2, <1>5, <1>7, <2>5, <2>6, <2>7, <3>1 DEF Following, Content
    <3>3. Listing(f)'
      BY <1>3, <1>7, <2>5 DEF Listing
    <3> QED BY <2>4, <3>2, <3>3 DEF Walking
  <2>11. Packing(f)'
    <3>1. PICK m \in Nat : Scanned(First(f), Here(f), Number(slot[f]), m)
      BY <1>1 DEF IInv, FileInv, Packing
    <3>2. /\ SlotsOf(First(f), Here(f)) /\ DOMAIN First(f) = ThumbsIn(f)
          /\ \A t \in ThumbsIn(f) : Here(f)[t] = Number(offset[t])
      BY PlacesTyped DEF IInv
    <3>3. /\ Number(slot[f]) \in Nat /\ Number(slot[f]) < Here(f)[x] /\ x \in DOMAIN First(f)
      BY <1>2, <1>5, <3>2, NumberBack, NumberOrder
    <3>4. \A t \in DOMAIN First(f) : Here(f)[t] # Number(slot[f])
      BY <1>2, <3>2, NumberOrder
    <3>5. \A t \in DOMAIN First(f) : Here(f)[t] <= Here(f)[x]
      <4> SUFFICES ASSUME NEW t \in ThumbsIn(f) PROVE Number(offset[t]) <= Number(offset[x])
        BY <1>2, <3>2
      <4>1. offset[t] \in Grid /\ offset[x] \in Grid /\ offset[t] <= offset[x]
        BY <1>2, <1>5
      <4> QED BY ONLY <4>1, NumberMonotone
    <3>6. Moving(First(f), Here(f), Number(slot[f]), Here(f)[x])
      BY <3>1, <3>2, <3>3, <3>4, <3>5, ScanCopies
    <3>7. Here(f)[x] = Number(last'[f]) /\ slot' = slot
      BY <1>2, <1>7, <2>6, <3>2
    <3> QED BY <2>4, <2>5, <3>6, <3>7 DEF Packing
  <2>12. Untreated(f)' /\ CutOff(f)'
    BY <2>4 DEF Untreated, CutOff
  <2>13. Holeless(f)'
    BY <1>1, <1>7, <2>4, <2>5 DEF IInv, FileInv, Holeless, Active
  <2>14. Slots(f)!Copy
    <3> DEFINE pictures == [n \in 0 .. Number(length[f]) - 1 |-> Content(data[f], n * Size)]
               places == [t \in ThumbsIn(f) |-> Number(offset[t])]
    <3>1. Number(slot[f]) < Number(length[f]) /\ Number(offset[x]) < Number(length[f])
          /\ Number(offset[x]) \in Nat /\ Number(offset[x]) * Size = offset[x]
          /\ Number(length[f]) \in Nat
      BY <1>2, <1>5, NumberOrder, NumberBack
    <3>2. Number(slot[f]) \notin {places[v] : v \in ThumbsIn(f)}
      BY <1>2, NumberOrder
    <3>3. Number(slot[f]) < places[x]
      BY <1>2, <1>5, NumberOrder
    <3>4. \A u \in ThumbsIn(f) : places[u] <= places[x]
      <4> SUFFICES ASSUME NEW t \in ThumbsIn(f) PROVE Number(offset[t]) <= Number(offset[x])
        BY <1>2
      <4>1. offset[t] \in Grid /\ offset[x] \in Grid /\ offset[t] <= offset[x]
        BY <1>2, <1>5
      <4> QED BY ONLY <4>1, NumberMonotone
    <3>5. Number(last'[f]) = places[x]
      BY <1>2, <2>6
    <3>6. pictures[places[x]] = Content(data[f], offset[x])
      <4>1. Number(offset[x]) \in 0 .. Number(length[f]) - 1
        BY <3>1
      <4> QED BY <1>2, <3>1, <4>1
    <3>7. pictures' = [pictures EXCEPT ![Number(slot[f])] = pictures[places[x]]]
      BY <2>1, <2>3, <3>6
    <3>8. /\ places' = places /\ ThumbsIn(f)' = ThumbsIn(f)
          /\ [t \in ThumbsIn(f) |-> Original(t)]' = [t \in ThumbsIn(f) |-> Original(t)]
          /\ UNCHANGED <<length, slot>>
      BY <1>7, <2>5
    <3> HIDE DEF pictures, places
    <3>9. \E t \in ThumbsIn(f) :
            /\ Number(slot[f]) < places[t]
            /\ \A u \in ThumbsIn(f) : places[u] <= places[t]
            /\ Number(last'[f]) = places[t]
            /\ pictures' = [pictures EXCEPT ![Number(slot[f])] = pictures[places[t]]]
      BY <1>2, <3>3, <3>4, <3>5, <3>7
    <3> QED BY <1>1, <2>4, <3>1, <3>2, <3>8, <3>9 DEF Slots!Copy, Slots!Used, pictures, places
  <2>15. \A g \in File : g # f => Untouched(g)
    BY <1>7, <2>2, <2>3, <2>4, <2>6 DEF Untouched
  <2> QED BY <1>4, <2>3, <2>8, <2>9, <2>10, <2>11, <2>12, <2>13, <2>14, <2>15
          DEF Treated, FileInv, Slots!Next
<1>8. CASE Fail(f) /\ UNCHANGED data
  BY <1>1, <1>8, FailTreats
<1>9. CASE Fail(f) /\ data' = [data EXCEPT ![f][slot[f]] = Garbage]
  <2> DEFINE new == [data[f] EXCEPT ![slot[f]] = Garbage]
  <2>1. new \in [0 .. length[f] - 1 -> Picture]
    BY <1>6 DEF Picture
  <2>2. WrittenAt(slot[f], length[f], data[f], new)
    BY <1>2, <1>6 DEF WrittenAt
  <2>3. data' = [data EXCEPT ![f] = new]
    BY <1>9
  <2> HIDE DEF new
  <2>4. /\ pc' = [pc EXCEPT ![f] = "failed"] /\ pc'[f] = "failed"
        /\ \A g \in File : g # f => pc'[g] = pc[g]
        /\ UNCHANGED <<offset, length, list, gl, slot, last, fileOf, ragged, pictured>>
    BY <1>9, FailFacts DEF IInv
  <2>5. /\ PicturesIn(f)' /\ Content(data'[f], slot[f]) \in [0 .. Size - 1 -> Picture]
        /\ [n \in 0 .. Number(length[f]) - 1 |-> Content(data[f], n * Size)]'
             = [[n \in 0 .. Number(length[f]) - 1 |-> Content(data[f], n * Size)]
                  EXCEPT ![Number(slot[f])] = Content(data'[f], slot[f])]
        /\ data'[f] = new /\ \A g \in File : g # f => data'[g] = data[g]
        /\ DOMAIN data' = File
    BY <1>2, <1>5, <2>1, <2>2, <2>3, <2>4, StoredFacts
  <2>6. TypesInv'
    BY <1>9, FailTypes DEF IInv
  <2>7. FilesInv'
    <3>1. ASSUME NEW g \in File PROVE data'[g] \in [0 .. length[g] - 1 -> Picture]
      <4>1. CASE g = f
        BY <2>1, <2>5, <4>1
      <4>2. CASE g # f
        BY <2>5, <4>2 DEF IInv, FilesInv
      <4> QED BY <4>1, <4>2
    <3> QED BY <2>4, <2>5, <3>1 DEF IInv, FilesInv, MaxLength
  <2>8. Untreated(f)' /\ CutOff(f)' /\ Holeless(f)' /\ Walking(f)' /\ Packing(f)'
    BY <2>4 DEF Untreated, Holeless, CutOff, Walking, Packing, Active
  <2>9. Slots(f)!Stop
    <3>1. Number(slot[f]) < Number(length[f])
      BY <1>2, <1>5, NumberOrder
    <3>2. Number(slot[f])
            \notin {[t \in ThumbsIn(f) |-> Number(offset[t])][v] : v \in ThumbsIn(f)}
      BY <1>2, NumberOrder
    <3>3. /\ [t \in ThumbsIn(f) |-> Number(offset[t])]' = [t \in ThumbsIn(f) |-> Number(offset[t])]
          /\ [t \in ThumbsIn(f) |-> Original(t)]' = [t \in ThumbsIn(f) |-> Original(t)]
          /\ ThumbsIn(f)' = ThumbsIn(f)
      BY <2>4, SameThumbs
    <3> QED BY <1>1, <2>4, <2>5, <3>1, <3>2, <3>3 DEF Slots!Stop, Slots!Used
  <2>10. \A g \in File : g # f => Untouched(g)
    BY <2>4, <2>5 DEF Untouched
  <2> QED BY <1>4, <2>5, <2>6, <2>7, <2>8, <2>9, <2>10 DEF Treated, FileInv, Slots!Next
<1> QED BY <1>2, <1>7, <1>8, <1>9 DEF CopyLast

LEMMA CutCells ==
  ASSUME NEW n \in Nat, NEW cells, cells \in Stored(n), NEW b \in Nat, b <= n
  PROVE  /\ Cut(cells, b) \in Stored(b)
         /\ \A a \in Nat : a + Size <= b => Content(Cut(cells, b), a) = Content(cells, a)
<1>1. \A s \in 0 .. b - 1 : cells[s] \in Picture
  BY DEF Stored
<1>2. ASSUME NEW a \in Nat, a + Size <= b
      PROVE  Content(Cut(cells, b), a) = Content(cells, a)
  <2>1. ASSUME NEW i \in 0 .. Size - 1 PROVE Cut(cells, b)[a + i] = cells[a + i]
    <3>1. a + i \in 0 .. b - 1
      BY <1>2, SizeTyped
    <3> QED BY <3>1 DEF Cut
  <2> QED BY <2>1 DEF Content
<1> QED BY <1>1, <1>2 DEF Cut, Stored

LEMMA TruncateFileTreats ==
  ASSUME NoPadding, IInv, NEW f \in File, TruncateFile(f)
  PROVE  Treated(f)
<1>1. pc[f] = "truncate"
  BY DEF TruncateFile, At
<1>2. CASE Fail(f) /\ UNCHANGED data
  BY <1>1, <1>2, FailTreats
<1>3. CASE /\ length' = [length EXCEPT ![f] = slot[f]]
           /\ data' = [data EXCEPT ![f] = Cut(@, slot[f])]
           /\ GoTo(f, "done")
           /\ list' = <<>> /\ gl' = 0
           /\ UNCHANGED <<offset, result, slot, last, input>>
  <2>1. \A g \in File : g # f => pc[g] \notin Active
    BY <1>1, OthersRest DEF Active
  <2>2. /\ slot[f] \in Grid /\ slot[f] \in Nat /\ length[f] \in Grid /\ length[f] \in Nat
        /\ slot[f] <= length[f]
        /\ \A t \in ThumbsIn(f) : offset[t] \in Grid /\ offset[t] \in Nat
        /\ \A t \in ThumbsIn(f) : offset[t] < slot[f]
        /\ \A t \in ThumbsIn(f) : offset[t] + Size <= slot[f]
    <3>1. slot[f] \in Grid /\ length[f] \in Grid /\ slot[f] <= length[f]
      BY DEF IInv, FilesInv
    <3>2. \A t \in ThumbsIn(f) : offset[t] \in Grid /\ offset[t] < slot[f]
      BY <1>1 DEF IInv, TypesInv, FileInv, Walking, ThumbsIn
    <3> QED BY <3>1, <3>2, NumberBack, NumberOrder
  <2>3. UNCHANGED <<fileOf, ragged, pictured>>
    BY <1>3 DEF input
  <2>4. ThumbsIn(f)' = ThumbsIn(f) /\ First(f)' = First(f) /\ (\A t : Original(t)' = Original(t))
        /\ Here(f)' = Here(f) /\ UsedIn(f)' = UsedIn(f)
    BY <1>3, <2>3, SameThumbs DEF Here, UsedIn
  <2>5. /\ pc' \in [File -> Idle \cup Active] /\ pc'[f] = "done"
        /\ \A g \in File : g # f => pc'[g] = pc[g]
        /\ \A g, h \in File : pc'[g] \in Active /\ pc'[h] \in Active => g = h
    BY <1>3, <2>1, GoesTyped DEF IInv, GoTo, Idle
  <2>6. /\ length'[f] = slot[f] /\ data'[f] = Cut(data[f], slot[f])
        /\ length' \in [File -> Grid] /\ DOMAIN data' = File
        /\ \A g \in File : g # f => length'[g] = length[g] /\ data'[g] = data[g]
    BY <1>3, <2>2 DEF IInv, FilesInv
  <2>7. /\ Cut(data[f], slot[f]) \in Stored(slot[f])
        /\ \A a \in Nat : a + Size <= slot[f] =>
             Content(Cut(data[f], slot[f]), a) = Content(data[f], a)
    <3>1. data[f] \in Stored(length[f])
      BY DEF IInv, FilesInv, Stored
    <3> QED BY <2>2, <3>1, CutCells
  <2>8. TypesInv'
    BY <1>3, <2>3, <2>5 DEF IInv, TypesInv, MaxLength
  <2>9. FilesInv'
    <3>1. length[f] <= MaxLength /\ MaxLength \in Nat
      BY RearrangeAssumption DEF IInv, FilesInv, MaxLength
    <3>2. ASSUME NEW g \in File
          PROVE  /\ length'[g] <= MaxLength /\ last[g] <= MaxLength /\ slot[g] <= length'[g]
                 /\ data'[g] \in [0 .. length'[g] - 1 -> Picture]
      <4>1. CASE g = f
        BY <2>2, <2>6, <2>7, <3>1, <4>1 DEF IInv, FilesInv, Stored
      <4>2. CASE g # f
        BY <2>6, <4>2 DEF IInv, FilesInv
      <4> QED BY <4>1, <4>2
    <3> QED BY <1>3, <2>3, <2>6, <3>2 DEF IInv, FilesInv, MaxLength
  <2>10. PicturesIn(f)'
    <3>1. ASSUME NEW t \in ThumbsIn(f)
          PROVE  /\ offset[t] + Size <= slot[f]
                 /\ Content(Cut(data[f], slot[f]), offset[t]) = Original(t)
      <4>1. Content(data[f], offset[t]) = Original(t)
        BY DEF IInv, FileInv, PicturesIn
      <4> QED BY <2>2, <2>7, <4>1
    <3> QED BY <1>3, <2>4, <2>6, <3>1 DEF PicturesIn, Content
  <2>11. Untreated(f)' /\ CutOff(f)' /\ Walking(f)'
    BY <1>3, <2>5, <2>6 DEF Untreated, CutOff, Walking, Active
  <2>12. Holeless(f)'
    BY <1>1, <1>3, <2>4, <2>5 DEF IInv, FileInv, Holeless, Active
  <2>13. Packing(f)'
    <3>1. PICK m \in Nat : Scanned(First(f), Here(f), Number(slot[f]), m)
      BY <1>1 DEF IInv, FileInv, Packing
    <3>2. /\ SlotsOf(First(f), Here(f)) /\ DOMAIN First(f) = ThumbsIn(f)
          /\ \A t \in ThumbsIn(f) : Here(f)[t] = Number(offset[t])
      BY PlacesTyped DEF IInv
    <3>3. Number(slot[f]) \in Nat /\ \A t \in DOMAIN First(f) : Here(f)[t] < Number(slot[f])
      BY <2>2, <3>2, NumberBack, NumberOrder
    <3>4. \A t \in DOMAIN First(f) : Here(f)[t] = PackedSlot(FirstUsed(First(f)), First(f)[t])
      BY <3>1, <3>2, <3>3, ScanPacks
    <3> QED BY <2>4, <2>5, <3>2, <3>4 DEF Packing
  <2>14. Slots(f)!Truncate
    <3> DEFINE pictures == [n \in 0 .. Number(length[f]) - 1 |-> Content(data[f], n * Size)]
               places == [t \in ThumbsIn(f) |-> Number(offset[t])]
    <3>1. Number(slot[f]) \in Nat /\ Number(length[f]) \in Nat
      BY <2>2, NumberBack
    <3>2. \/ Number(slot[f]) = Number(length[f])
          \/ Number(slot[f]) < Number(length[f]) /\ \A t \in ThumbsIn(f) : places[t] < Number(slot[f])
      <4>1. slot[f] = length[f] \/ slot[f] < length[f]
        BY <2>2
      <4>2. \A t \in ThumbsIn(f) : places[t] < Number(slot[f])
        BY <2>2, NumberOrder
      <4> QED BY <2>2, <4>1, <4>2, NumberOrder
    <3>3. ASSUME NEW n \in 0 .. Number(slot[f]) - 1
          PROVE  /\ Content(data'[f], n * Size) = Content(data[f], n * Size)
                 /\ n \in 0 .. Number(length[f]) - 1
      <4>1. n \in Nat /\ n < Number(slot[f])
        BY <3>1
      <4>2. n * Size \in Grid /\ n * Size \in Nat /\ Number(n * Size) = n
        BY <4>1, NumberOf
      <4>3. n * Size < slot[f]
        BY <2>2, <4>1, <4>2, NumberOrder
      <4>4. n * Size + Size <= slot[f]
        BY <2>2, <4>2, <4>3, NumberOrder
      <4>5. Content(data'[f], n * Size) = Content(data[f], n * Size)
        BY <2>6, <2>7, <4>2, <4>4
      <4>6. Number(slot[f]) <= Number(length[f])
        BY <3>1, <3>2
      <4> QED BY <3>1, <4>1, <4>5, <4>6
    <3>4. pictures' = [s \in 0 .. Number(slot[f]) - 1 |-> pictures[s]]
      <4>1. pictures' = [n \in 0 .. Number(slot[f]) - 1 |-> Content(data'[f], n * Size)]
        BY <2>6 DEF Content
      <4> QED BY <3>3, <4>1
    <3>5. /\ places' = places /\ ThumbsIn(f)' = ThumbsIn(f)
          /\ [t \in ThumbsIn(f) |-> Original(t)]' = [t \in ThumbsIn(f) |-> Original(t)]
          /\ UNCHANGED <<slot, last>> /\ length'[f] = slot[f]
      BY <1>3, <2>4, <2>6
    <3> HIDE DEF pictures, places
    <3> QED BY <1>1, <2>5, <3>2, <3>4, <3>5 DEF Slots!Truncate, pictures, places
  <2>15. \A g \in File : g # f => Untouched(g)
    BY <1>3, <2>3, <2>5, <2>6 DEF Untouched
  <2> QED BY <2>1, <2>8, <2>9, <2>10, <2>11, <2>12, <2>13, <2>14, <2>15
          DEF Treated, FileInv, Slots!Next
<1> QED BY <1>2, <1>3 DEF TruncateFile

LEMMA InitFacts ==
  ASSUME NoPadding, Init
  PROVE  /\ \A f \in File : /\ length[f] \in Grid /\ length[f] \in Nat /\ length[f] <= MaxLength
                            /\ data[f] = [s \in 0 .. length[f] - 1 |-> <<f, s>>]
                            /\ data[f] \in [0 .. length[f] - 1 -> Picture]
                            /\ slot[f] = 0 /\ last[f] = 0 /\ pc[f] = "todo"
         /\ \A t \in Thumb : /\ offset[t] \in Grid /\ offset[t] \in Nat /\ offset[t] < MaxLength
                             /\ fileOf[t] # NoFile => /\ fileOf[t] \in File
                                                      /\ offset[t] + Size <= length[fileOf[t]]
                                                      /\ pictured[t] = <<fileOf[t], offset[t]>>
         /\ MaxLength \in Nat
<1>1. Stride = Size /\ MaxLength = MaxSlots * Size /\ MaxSlots \in Nat
  BY SizeTyped DEF NoPadding, MaxLength
<1>2. MaxLength \in Grid /\ MaxLength \in Nat /\ Number(MaxLength) = MaxSlots
  BY <1>1, NumberOf
<1>3. ASSUME NEW n \in Nat
      PROVE  /\ n * Size \in Grid /\ n * Size \in Nat
             /\ n < MaxSlots => n * Size < MaxLength
             /\ n <= MaxSlots => n * Size <= MaxLength
  <2>1. n * Size \in Grid /\ n * Size \in Nat /\ Number(n * Size) = n
    BY NumberOf
  <2>2. n < MaxSlots => n * Size < MaxLength
    BY <1>2, <2>1, NumberOrder
  <2>3. n = MaxSlots => n * Size = MaxLength
    BY <1>1
  <2> QED BY <1>1, <1>2, <2>1, <2>2, <2>3
<1>4. ASSUME NEW f \in File
      PROVE  length[f] \in Grid /\ length[f] \in Nat /\ length[f] <= MaxLength
  <2>1. PICK n \in 0 .. MaxSlots : length[f] = n * Stride
    BY DEF Init
  <2>2. n \in Nat /\ n <= MaxSlots
    BY <1>1
  <2> QED BY <1>1, <1>3, <2>1, <2>2
<1>5. ASSUME NEW t \in Thumb
      PROVE  offset[t] \in Grid /\ offset[t] \in Nat /\ offset[t] < MaxLength
  <2>1. PICK n \in 0 .. MaxSlots - 1 : offset[t] = n * Stride
    BY DEF Init
  <2>2. n \in Nat /\ n < MaxSlots
    BY <1>1
  <2> QED BY <1>1, <1>3, <2>1, <2>2
<1>6. ASSUME NEW f \in File
      PROVE  /\ data[f] = [s \in 0 .. length[f] - 1 |-> <<f, s>>]
             /\ data[f] \in [0 .. length[f] - 1 -> Picture]
  <2>1. data[f] = [s \in 0 .. length[f] - 1 |-> <<f, s>>]
    BY DEF Init
  <2>2. \A s \in 0 .. length[f] - 1 : <<f, s>> \in Picture
    BY <1>2, <1>4 DEF Picture
  <2> QED BY <2>1, <2>2
<1>7. ASSUME NEW t \in Thumb, fileOf[t] # NoFile
      PROVE  /\ fileOf[t] \in File /\ offset[t] + Size <= length[fileOf[t]]
             /\ pictured[t] = <<fileOf[t], offset[t]>>
  <2>1. /\ fileOf[t] \in File /\ offset[t] < length[fileOf[t]]
        /\ pictured[t] = <<fileOf[t], offset[t]>>
    BY <1>7 DEF Init
  <2> QED BY <1>4, <1>5, <2>1, NumberOrder
<1>8. \A f \in File : slot[f] = 0 /\ last[f] = 0 /\ pc[f] = "todo"
  BY DEF Init
<1> QED BY <1>2, <1>4, <1>5, <1>6, <1>7, <1>8

LEMMA InitPictures ==
  ASSUME NoPadding, Init, NEW f \in File
  PROVE  PicturesIn(f)
<1> SUFFICES ASSUME NEW t \in ThumbsIn(f)
             PROVE  offset[t] + Size <= length[f] /\ Content(data[f], offset[t]) = Original(t)
  BY DEF PicturesIn
<1>1. t \in Thumb /\ fileOf[t] = f /\ f # NoFile
  BY RearrangeAssumption DEF ThumbsIn
<1>2. /\ offset[t] + Size <= length[f] /\ pictured[t] = <<f, offset[t]>>
      /\ data[f] = [s \in 0 .. length[f] - 1 |-> <<f, s>>]
      /\ length[f] \in Nat /\ offset[t] \in Nat /\ Size \in Nat
  BY <1>1, InitFacts, SizeTyped
<1>3. ASSUME NEW i \in 0 .. Size - 1
      PROVE  data[f][offset[t] + i] = <<pictured[t][1], pictured[t][2] + i>>
  <2>1. offset[t] + i \in 0 .. length[f] - 1
    BY <1>2
  <2> QED BY <1>2, <2>1
<1> QED BY <1>2, <1>3 DEF Content, Original

LEMMA InitInvariant ==
  ASSUME NoPadding, Init
  PROVE  IInv
<1> USE InitFacts
<1>1. TypesInv
  <2>1. fileOf \in [Thumb -> File \cup {NoFile}] /\ offset \in [Thumb -> Grid]
    BY DEF Init
  <2>2. ragged \subseteq File /\ result \in BOOLEAN /\ list = <<>> /\ gl = 0
    BY DEF Init
  <2>3. pc = [f \in File |-> "todo"]
    BY DEF Init
  <2> QED BY <2>1, <2>2, <2>3 DEF TypesInv, Idle, Active
<1>2. FilesInv
  <2>1. /\ length \in [File -> Grid] /\ slot \in [File -> Grid] /\ last \in [File -> Grid]
        /\ DOMAIN data = File
    BY NumberZero DEF Init
  <2>2. \A f \in File : /\ length[f] <= MaxLength /\ last[f] <= MaxLength
                        /\ slot[f] <= length[f]
                        /\ data[f] \in [0 .. length[f] - 1 -> Picture]
    <3> SUFFICES ASSUME NEW f \in File
                 PROVE  0 <= length[f] /\ 0 <= MaxLength
      OBVIOUS
    <3>1. length[f] \in Nat /\ MaxLength \in Nat
      OBVIOUS
    <3> QED BY <3>1
  <2>3. \A t \in Thumb : fileOf[t] # NoFile =>
          /\ pictured[t][1] = fileOf[t]
          /\ pictured[t][2] \in Grid /\ pictured[t][2] < MaxLength
    OBVIOUS
  <2> QED BY <2>1, <2>2, <2>3 DEF FilesInv
<1>3. ASSUME NEW f \in File PROVE FileInv(f)
  <2>1. \A t \in ThumbsIn(f) : offset[t] = pictured[t][2]
    BY RearrangeAssumption DEF ThumbsIn
  <2>2. Untreated(f)
    BY <2>1 DEF Untreated
  <2> QED BY <2>2, InitPictures
          DEF FileInv, Holeless, CutOff, Walking, Packing, Active
<1> QED BY <1>1, <1>2, <1>3 DEF IInv

LEMMA InitSlots ==
  ASSUME NoPadding, Init, NEW f \in File
  PROVE  Slots(f)!Init
<1> DEFINE N == Number(length[f])
           pictures == [n \in 0 .. N - 1 |-> Content(data[f], n * Size)]
           places == [t \in ThumbsIn(f) |-> Number(offset[t])]
<1>1. /\ length[f] \in Grid /\ length[f] \in Nat /\ N \in Nat /\ Size \in Nat /\ Size >= 1
      /\ data[f] \in [0 .. length[f] - 1 -> Picture]
      /\ slot[f] = 0 /\ last[f] = 0 /\ pc[f] = "todo"
  BY InitFacts, NumberBack, SizeTyped
<1>2. pictures \in [0 .. N - 1 -> [0 .. Size - 1 -> Picture]]
  <2>1. ASSUME NEW n \in 0 .. N - 1, NEW i \in 0 .. Size - 1
        PROVE  data[f][n * Size + i] \in Picture
    <3>1. n \in Nat /\ n < N
      BY <1>1
    <3>2. n * Size \in Grid /\ n * Size \in Nat /\ Number(n * Size) = n
      BY <3>1, NumberOf
    <3>3. n * Size < length[f]
      BY <1>1, <3>1, <3>2, NumberOrder
    <3>4. n * Size + Size <= length[f]
      BY <1>1, <3>2, <3>3, NumberOrder
    <3> HIDE DEF N
    <3>5. n * Size + i \in 0 .. length[f] - 1
      BY <1>1, <3>2, <3>4
    <3> QED BY <1>1, <3>5
  <2> HIDE DEF N
  <2> QED BY <2>1 DEF Content
<1>3. ASSUME NEW t \in ThumbsIn(f)
      PROVE  /\ Number(offset[t]) \in 0 .. N - 1
             /\ pictures[Number(offset[t])] = Original(t)
  <2>1. t \in Thumb /\ fileOf[t] = f /\ f # NoFile
    BY RearrangeAssumption DEF ThumbsIn
  <2>2. offset[t] \in Grid /\ offset[t] \in Nat /\ offset[t] + Size <= length[f]
    BY <2>1, InitFacts
  <2>3. offset[t] < length[f]
    BY <1>1, <2>2
  <2>4. Number(offset[t]) \in Nat /\ Number(offset[t]) < N /\ Number(offset[t]) * Size = offset[t]
    BY <1>1, <2>2, <2>3, NumberBack, NumberOrder
  <2>5. Number(offset[t]) \in 0 .. N - 1
    BY <1>1, <2>4
  <2>6. Content(data[f], offset[t]) = Original(t)
    BY InitPictures DEF PicturesIn
  <2> HIDE DEF N
  <2> QED BY <2>4, <2>5, <2>6
<1>4. places \in [ThumbsIn(f) -> 0 .. N - 1]
  BY <1>3
<1>5. [t \in ThumbsIn(f) |-> Original(t)] = [t \in ThumbsIn(f) |-> pictures[places[t]]]
  BY <1>3
<1>6. ThumbsIn(f) \subseteq Thumb
  BY DEF ThumbsIn
<1> QED BY <1>1, <1>2, <1>4, <1>5, <1>6, NumberZero DEF Slots!Init

LEMMA StepTreats ==
  ASSUME NoPadding, IInv, Step
  PROVE  \E f \in File : Treated(f)
<1>1. PICK f \in File :
        \/ SkipFile(f) \/ RemoveUnused(f) \/ RefuseFile(f) \/ OpenFile(f)
        \/ VisitSlot(f) \/ CopyLast(f) \/ MoveFirst(f) \/ MoveDone(f)
        \/ TruncateFile(f)
  BY DEF Step
<1>2. CASE SkipFile(f)
  <2>1. Called(f) /\ Fail(f) /\ UNCHANGED data
    BY <1>2 DEF SkipFile
  <2> QED BY <2>1, FailTreats
<1>3. CASE RefuseFile(f)
  <2>1. Called(f) /\ Fail(f) /\ UNCHANGED data
    BY <1>3 DEF RefuseFile
  <2> QED BY <2>1, FailTreats
<1> QED BY <1>1, <1>2, <1>3, RemoveUnusedTreats, OpenFileTreats, VisitSlotTreats,
           CopyLastTreats, MoveFirstTreats, MoveDoneTreats, TruncateFileTreats

LEMMA StepKeeps ==
  ASSUME NoPadding, IInv, [Next]_vars
  PROVE  IInv' /\ \A f \in File : [Slots(f)!Next]_(Slots(f)!vars)
<1>1. CASE Step
  <2>1. PICK f \in File : Treated(f)
    BY <1>1, StepTreats
  <2>2. ASSUME NEW g \in File, g # f
        PROVE  FileInv(g)' /\ UNCHANGED Slots(g)!vars
    <3>1. Untouched(g) /\ pc[g] \notin Active
      BY <2>1, <2>2 DEF Treated
    <3> QED BY <3>1, UntouchedKeeps, UntouchedSlots DEF IInv
  <2>3. \A g \in File : FileInv(g)'
    BY <2>1, <2>2 DEF Treated
  <2>4. \A g \in File : [Slots(g)!Next]_(Slots(g)!vars)
    BY <2>1, <2>2 DEF Treated
  <2> QED BY <2>1, <2>3, <2>4 DEF Treated, IInv
<1>2. CASE UNCHANGED vars
  <2>1. /\ UNCHANGED <<fileOf, offset, data, length, ragged, result, list, gl, slot, last>>
        /\ UNCHANGED <<pc, pictured>>
    BY <1>2 DEF vars
  <2>2. ASSUME NEW f \in File
        PROVE  FileInv(f)' /\ UNCHANGED Slots(f)!vars
    <3>1. /\ ThumbsIn(f)' = ThumbsIn(f) /\ UsedIn(f)' = UsedIn(f)
          /\ First(f)' = First(f) /\ Here(f)' = Here(f)
          /\ PicturesIn(f)'
      BY <2>1, QuietSlots DEF IInv, FileInv
    <3>2. Untreated(f)' /\ Holeless(f)' /\ CutOff(f)' /\ Packing(f)'
      BY <2>1, <3>1 DEF IInv, FileInv, Untreated, Holeless, CutOff, Packing
    <3>3. Walking(f)'
      <4>1. Listing(f) => Listing(f)'
        BY <2>1, <3>1 DEF Listing
      <4>2. Following(f) => Following(f)'
        BY <2>1, <3>1 DEF Following, Content
      <4> QED BY <2>1, <3>1, <4>1, <4>2 DEF IInv, FileInv, Walking
    <3>4. Untouched(f)
      BY <2>1 DEF Untouched
    <3> QED BY <3>1, <3>2, <3>3, <3>4, UntouchedSlots DEF FileInv
  <2>3. TypesInv' /\ FilesInv'
    BY <2>1 DEF IInv, TypesInv, FilesInv, MaxLength
  <2> QED BY <2>2, <2>3 DEF IInv
<1> QED BY <1>1, <1>2 DEF Next

(* Between any two steps every file is where the walk over it left it:     *)
(* the slots that were visited are in use, the list has the thumbnails in  *)
(* order, and the pictures that moved fill the free slots from the end.    *)
THEOREM RearrangeInvariant ==
  ASSUME NoPadding
  PROVE  Spec => []IInv
<1>1. Init => IInv
  BY InitInvariant
<1>2. IInv /\ [Next]_vars => IInv'
  BY StepKeeps
<1> QED BY <1>1, <1>2, PTL DEF Spec

(* Walking the sorted list finds every free slot and every thumbnail of    *)
(* the last one: the work on each file implements IthmbSlots.              *)
THEOREM SlotsImplemented ==
  ASSUME NoPadding
  PROVE  Spec => ImplementsSlots
<1>1. Init => \A f \in File : Slots(f)!Init
  BY InitSlots
<1>2. IInv /\ [Next]_vars => [\A f \in File : [Slots(f)!Next]_(Slots(f)!vars)]_vars
  BY StepKeeps
<1> QED BY <1>1, <1>2, RearrangeInvariant, PTL DEF Spec, ImplementsSlots

(* A thumbnail in memory refers to its own picture, at every step and      *)
(* after every call that failed.                                           *)
THEOREM PicturesKeptCorrect ==
  ASSUME NoPadding
  PROVE  Spec => []PicturesKept
<1>1. IInv => PicturesKept
  <2> SUFFICES ASSUME IInv, NEW t \in Thumb, fileOf[t] # NoFile
               PROVE  /\ offset[t] + Size <= length[fileOf[t]]
                      /\ Content(data[fileOf[t]], offset[t]) = Original(t)
    BY DEF PicturesKept
  <2>1. fileOf[t] \in File /\ t \in ThumbsIn(fileOf[t])
    BY DEF IInv, TypesInv, ThumbsIn
  <2> QED BY <2>1 DEF IInv, FileInv, PicturesIn
<1> QED BY <1>1, RearrangeInvariant, PTL

LEMMA TypesCorrect ==
  ASSUME IInv
  PROVE  TypeOK
<1>1. \A a \in Grid : a \in Nat
  BY NumberBack
<1>2. MaxLength \in Nat
  BY RearrangeAssumption DEF MaxLength
<1>3. offset \in [Thumb -> 0 .. MaxLength - 1]
  <2>1. \A t \in Thumb : offset[t] \in 0 .. MaxLength - 1
    BY <1>1, <1>2 DEF IInv, TypesInv
  <2> QED BY <2>1 DEF IInv, TypesInv
<1>4. \A f \in File : /\ length[f] \in 0 .. MaxLength /\ last[f] \in 0 .. MaxLength
                      /\ slot[f] \in 0 .. length[f] /\ slot[f] \in Nat
  <2> SUFFICES ASSUME NEW f \in File
               PROVE  /\ length[f] \in 0 .. MaxLength /\ last[f] \in 0 .. MaxLength
                      /\ slot[f] \in 0 .. length[f] /\ slot[f] \in Nat
    OBVIOUS
  <2>1. length[f] \in Nat /\ last[f] \in Nat /\ slot[f] \in Nat
    BY <1>1 DEF IInv, FilesInv
  <2>2. length[f] <= MaxLength /\ last[f] <= MaxLength /\ slot[f] <= length[f]
    BY DEF IInv, FilesInv
  <2> QED BY <1>2, <2>1, <2>2
<1>5. /\ length \in [File -> 0 .. MaxLength] /\ last \in [File -> 0 .. MaxLength]
      /\ slot \in [File -> Nat]
  BY <1>4 DEF IInv, FilesInv
<1>6. Range(list) \subseteq Thumb
  <2>1. \A i \in DOMAIN list : list[i] \in Thumb
    BY DEF IInv, TypesInv
  <2> QED BY <2>1 DEF Range
<1>7. Idle \cup Active = Idle \cup {"slot", "copy", "move", "truncate"}
  BY DEF Active
<1>8. Cardinality({f \in File : pc[f] \notin Idle}) <= 1
  <2> DEFINE A == {f \in File : pc[f] \notin Idle}
  <2>1. \A f, g \in A : f = g
    BY DEF IInv, TypesInv
  <2>2. CASE A = {}
    BY <2>2, FS_EmptySet
  <2>3. CASE A # {}
    <3>1. PICK f : A = {f}
      BY <2>1, <2>3
    <3>2. Cardinality({f}) = 1
      BY FS_Singleton
    <3> QED BY <3>1, <3>2
  <2> QED BY <2>2, <2>3
<1> QED BY <1>3, <1>4, <1>5, <1>6, <1>7, <1>8 DEF TypeOK, IInv, TypesInv, FilesInv

LEMMA NoSlotWastedCorrect ==
  ASSUME IInv
  PROVE  NoSlotWasted
<1> SUFFICES ASSUME NEW f \in File, pc[f] = "done"
             PROVE  UsedIn(f) = {s \in 0 .. length[f] - 1 : s % Size = 0}
  BY DEF NoSlotWasted
<1>1. length[f] \in Nat /\ length[f] = slot[f] /\ Size \in Nat /\ Size >= 1
  BY NumberBack, SizeTyped DEF IInv, FilesInv, FileInv, CutOff
<1>2. ASSUME NEW t \in ThumbsIn(f)
      PROVE  offset[t] \in 0 .. length[f] - 1 /\ offset[t] % Size = 0
  <2>1. offset[t] \in Grid /\ offset[t] \in Nat
    BY NumberBack DEF IInv, TypesInv, ThumbsIn
  <2>2. offset[t] + Size <= length[f]
    BY DEF IInv, FileInv, PicturesIn
  <2> QED BY <1>1, <2>1, <2>2, GridDivides
<1>3. ASSUME NEW s \in 0 .. length[f] - 1, s % Size = 0
      PROVE  s \in UsedIn(f)
  <2>1. s \in Nat /\ s < slot[f]
    BY <1>1
  <2>2. s \in Grid
    BY <1>3, <2>1, NumberDivides
  <2> QED BY <2>1, <2>2 DEF IInv, FileInv, Holeless
<1> QED BY <1>2, <1>3 DEF UsedIn

LEMMA PackedFromTheEndCorrect ==
  ASSUME NoPadding, IInv
  PROVE  PackedFromTheEnd
<1> SUFFICES ASSUME NEW f \in File, NEW t \in Thumb, pc[f] = "done", fileOf[t] = f
             PROVE  offset[t] = Stride * PackedSlot({pictured[u][2] \div Stride : u \in ThumbsIn(f)},
                                                    pictured[t][2] \div Stride)
  BY DEF PackedFromTheEnd
<1>1. t \in ThumbsIn(f)
  BY DEF ThumbsIn
<1>2. /\ DOMAIN First(f) = ThumbsIn(f)
      /\ \A u \in ThumbsIn(f) : First(f)[u] = Number(pictured[u][2])
      /\ Here(f)[t] = Number(offset[t])
  BY <1>1, PlacesTyped DEF IInv
<1>3. Number(offset[t]) = PackedSlot(FirstUsed(First(f)), First(f)[t])
  BY <1>1, <1>2 DEF IInv, FileInv, Packing
<1>4. FirstUsed(First(f)) = {pictured[u][2] \div Stride : u \in ThumbsIn(f)}
  BY <1>2 DEF FirstUsed, Number, NoPadding
<1>5. First(f)[t] = pictured[t][2] \div Stride
  BY <1>1, <1>2 DEF Number, NoPadding
<1>6. Number(offset[t]) \in Nat /\ Number(offset[t]) * Size = offset[t]
  BY NumberBack DEF IInv, TypesInv
<1>7. Size * Number(offset[t]) = offset[t]
  <2>1. \A a, b \in Nat : a * b = b * a
    OBVIOUS
  <2> QED BY <1>6, <2>1, SizeTyped
<1> QED BY <1>3, <1>4, <1>5, <1>7 DEF NoPadding

(* A file that was rearranged has the slots in use and no others, and its  *)
(* pictures are where PackedSlot says.                                     *)
THEOREM FilesPackedCorrect ==
  ASSUME NoPadding
  PROVE  Spec => []FilesPacked
<1>1. IInv => FilesPacked
  BY TypesCorrect, NoSlotWastedCorrect, PackedFromTheEndCorrect DEF FilesPacked
<1> QED BY <1>1, RearrangeInvariant, PTL

-----------------------------------------------------------------------------
(* What the promise is worth: IthmbSlots keeps every picture and wastes no *)
(* slot, for any number of thumbnails, pictures and slots.                 *)
VARIABLES thumbs, state
Promise == INSTANCE IthmbSlots

(* Between the copy and the last relink both slots hold the picture.       *)
PromisedCopy ==
  state = "relink" =>
    /\ slot < last /\ last < length
    /\ data[slot] = data[last]
    /\ \A t \in thumbs : offset[t] <= last
    /\ \E t \in thumbs : offset[t] \in {slot, last}

(* Every slot already visited is in use.                                   *)
NoHoleLeft == state \in {"scan", "relink"} => \A s \in 0 .. slot - 1 : s \in Promise!Used

VisitsInFile == slot <= length

PromiseInv ==
  /\ Promise!TypeOK /\ Promise!PicturesKept /\ Promise!NoSlotWasted
  /\ PromisedCopy /\ NoHoleLeft /\ VisitsInFile

LEMMA PromiseInit == Promise!Init => PromiseInv
  <1> SUFFICES ASSUME Promise!Init PROVE PromiseInv
    OBVIOUS
  <1>1. Promise!TypeOK
    BY DEF Promise!Init, Promise!TypeOK
  <1>2. Promise!PicturesKept
    BY DEF Promise!Init, Promise!PicturesKept
  <1>3. PromisedCopy /\ Promise!NoSlotWasted
    BY DEF Promise!Init, PromisedCopy, Promise!NoSlotWasted
  <1>4. NoHoleLeft /\ VisitsInFile
    BY DEF Promise!Init, NoHoleLeft, VisitsInFile
  <1> QED BY <1>1, <1>2, <1>3, <1>4 DEF PromiseInv

LEMMA PromiseKeep == ASSUME PromiseInv, Promise!Keep PROVE PromiseInv'
  <1> USE DEF PromiseInv, Promise!Keep
  <1>1. Promise!TypeOK'
    BY DEF Promise!TypeOK
  <1>2. Promise!PicturesKept'
    BY DEF Promise!PicturesKept
  <1>3. PromisedCopy' /\ Promise!NoSlotWasted'
    BY DEF PromisedCopy, Promise!NoSlotWasted
  <1>4. NoHoleLeft'
    BY DEF NoHoleLeft, Promise!Used, Promise!TypeOK
  <1>5. VisitsInFile'
    BY DEF VisitsInFile, Promise!TypeOK
  <1> QED BY <1>1, <1>2, <1>3, <1>4, <1>5

LEMMA PromiseCopy == ASSUME PromiseInv, Promise!Copy PROVE PromiseInv'
  <1> USE DEF PromiseInv
  <1>1. PICK t \in thumbs :
          /\ slot < offset[t]
          /\ \A u \in thumbs : offset[u] <= offset[t]
          /\ last' = offset[t]
          /\ data' = [data EXCEPT ![slot] = data[offset[t]]]
    BY DEF Promise!Copy
  <1>2. /\ state = "scan" /\ slot < length /\ slot \notin Promise!Used /\ state' = "relink"
        /\ UNCHANGED <<thumbs, length, offset, slot, pictured>>
    BY DEF Promise!Copy
  <1>3. offset[t] \in 0 .. length - 1 /\ slot \in 0 .. length - 1
    BY <1>1, <1>2 DEF Promise!TypeOK, Promise!PicturesKept
  <1>4. data[offset[t]] \in Picture
    BY <1>3 DEF Promise!TypeOK
  <1>5. Promise!TypeOK'
    BY <1>1, <1>2, <1>3, <1>4 DEF Promise!TypeOK
  <1>6. Promise!PicturesKept'
    <2> SUFFICES ASSUME NEW u \in thumbs
                 PROVE  offset[u] < length /\ data'[offset[u]] = pictured[u]
      BY <1>2 DEF Promise!PicturesKept
    <2>1. offset[u] # slot
      BY <1>2 DEF Promise!Used
    <2>2. offset[u] \in 0 .. length - 1 /\ data[offset[u]] = pictured[u]
      BY DEF Promise!PicturesKept, Promise!TypeOK
    <2> QED BY <1>1, <2>1, <2>2 DEF Promise!TypeOK
  <1>7. PromisedCopy'
    <2>1. data'[slot] = data'[last']
      BY <1>1, <1>2, <1>3 DEF Promise!TypeOK
    <2>2. slot' < last' /\ last' < length'
      <3>1. slot' = slot /\ length' = length /\ last' = offset[t]
        BY <1>1, <1>2
      <3> QED BY <1>1, <1>3, <3>1 DEF Promise!TypeOK
    <2>3. \A u \in thumbs' : offset'[u] <= last'
      BY <1>1, <1>2
    <2>4. \E u \in thumbs' : offset'[u] \in {slot', last'}
      <3>1. t \in thumbs' /\ offset'[t] = last'
        BY <1>1, <1>2
      <3> QED BY <3>1
    <2> QED BY <2>1, <2>2, <2>3, <2>4, <1>2 DEF PromisedCopy
  <1>8. NoHoleLeft' /\ VisitsInFile' /\ Promise!NoSlotWasted'
    BY <1>2 DEF NoHoleLeft, VisitsInFile, Promise!NoSlotWasted, Promise!Used
  <1> QED BY <1>5, <1>6, <1>7, <1>8

LEMMA PromiseRelink == ASSUME PromiseInv, NEW t \in thumbs, Promise!Relink(t) PROVE PromiseInv'
  <1> USE DEF PromiseInv, Promise!Relink
  <1>1. /\ slot < last /\ last < length /\ data[slot] = data[last]
        /\ \A u \in thumbs : offset[u] <= last
    BY DEF PromisedCopy
  <1>2. \A u \in thumbs : offset'[u] = IF u = t THEN slot ELSE offset[u]
    BY DEF Promise!TypeOK
  <1>3. Promise!TypeOK'
    BY DEF Promise!TypeOK
  <1>4. Promise!PicturesKept'
    BY <1>1, <1>2 DEF Promise!PicturesKept, Promise!TypeOK
  <1>5. PromisedCopy'
    <2>1. \A u \in thumbs : offset'[u] <= last
      BY <1>1, <1>2 DEF Promise!TypeOK
    <2>2. offset'[t] = slot
      BY <1>2
    <2> QED BY <1>1, <2>1, <2>2 DEF PromisedCopy
  <1>6. NoHoleLeft'
    <2> SUFFICES ASSUME NEW s \in 0 .. slot - 1 PROVE s \in Promise!Used'
      BY DEF NoHoleLeft
    <2>1. PICK u \in thumbs : offset[u] = s
      BY DEF NoHoleLeft, Promise!Used
    <2>2. u # t
      BY <1>1, <2>1 DEF Promise!TypeOK
    <2> QED BY <1>2, <2>1, <2>2 DEF Promise!Used
  <1>7. VisitsInFile' /\ Promise!NoSlotWasted'
    BY DEF VisitsInFile, Promise!NoSlotWasted
  <1> QED BY <1>3, <1>4, <1>5, <1>6, <1>7

LEMMA PromiseRelinked == ASSUME PromiseInv, Promise!Relinked PROVE PromiseInv'
  <1> USE DEF PromiseInv, Promise!Relinked
  <1>1. slot \in Promise!Used
    BY DEF PromisedCopy, Promise!Used
  <1>2. Promise!TypeOK' /\ Promise!PicturesKept'
    BY DEF Promise!TypeOK, Promise!PicturesKept
  <1>3. PromisedCopy' /\ Promise!NoSlotWasted'
    BY DEF PromisedCopy, Promise!NoSlotWasted
  <1>4. NoHoleLeft'
    BY <1>1 DEF NoHoleLeft, Promise!Used, Promise!TypeOK
  <1>5. VisitsInFile'
    BY DEF VisitsInFile, PromisedCopy, Promise!TypeOK
  <1> QED BY <1>2, <1>3, <1>4, <1>5

LEMMA PromiseTruncate == ASSUME PromiseInv, Promise!Truncate PROVE PromiseInv'
  <1> USE DEF PromiseInv, Promise!Truncate
  <1>1. \A t \in thumbs : offset[t] \in 0 .. slot - 1
    BY DEF Promise!PicturesKept, Promise!TypeOK
  <1>2. slot <= length
    BY DEF VisitsInFile
  <1>3. Promise!TypeOK'
    BY <1>2 DEF Promise!TypeOK
  <1>4. Promise!PicturesKept'
    BY <1>1, <1>2 DEF Promise!PicturesKept, Promise!TypeOK
  <1>5. Promise!NoSlotWasted'
    <2>1. Promise!Used' = Promise!Used
      BY DEF Promise!Used
    <2>2. Promise!Used \subseteq 0 .. slot - 1
      BY <1>1 DEF Promise!Used
    <2>3. 0 .. slot - 1 \subseteq Promise!Used
      BY DEF NoHoleLeft
    <2> QED BY <2>1, <2>2, <2>3 DEF Promise!NoSlotWasted
  <1>6. PromisedCopy' /\ NoHoleLeft' /\ VisitsInFile'
    BY DEF PromisedCopy, NoHoleLeft, VisitsInFile, Promise!TypeOK
  <1> QED BY <1>3, <1>4, <1>5, <1>6

LEMMA PromiseStop == ASSUME PromiseInv, Promise!Stop PROVE PromiseInv'
  <1> USE DEF PromiseInv
  <1>1. /\ state' = "stopped"
        /\ UNCHANGED <<thumbs, length, offset, slot, last, pictured>>
    BY DEF Promise!Stop
  <1>2. \/ data' = data
        \/ /\ slot < length /\ slot \notin Promise!Used
           /\ \E p \in Picture : data' = [data EXCEPT ![slot] = p]
    BY DEF Promise!Stop
  <1>3. Promise!TypeOK'
    BY <1>1, <1>2 DEF Promise!TypeOK
  <1>4. Promise!PicturesKept'
    <2> SUFFICES ASSUME NEW t \in thumbs
                 PROVE  offset[t] < length /\ data'[offset[t]] = pictured[t]
      BY <1>1 DEF Promise!PicturesKept
    <2>1. offset[t] \in 0 .. length - 1 /\ data[offset[t]] = pictured[t]
      BY DEF Promise!PicturesKept, Promise!TypeOK
    <2>2. slot \notin Promise!Used => slot # offset[t]
      BY DEF Promise!Used
    <2> QED BY <1>2, <2>1, <2>2 DEF Promise!TypeOK
  <1>5. PromisedCopy' /\ NoHoleLeft' /\ VisitsInFile' /\ Promise!NoSlotWasted'
    BY <1>1 DEF PromisedCopy, NoHoleLeft, VisitsInFile, Promise!NoSlotWasted
  <1> QED BY <1>3, <1>4, <1>5

(* The invariant: the pictures, what the two slots of a copy hold, and     *)
(* that no hole is left behind (ithumb_rearrange_thumbnail_file).          *)
THEOREM PromiseInvariant == Promise!Spec => []PromiseInv
  <1>1. Promise!Init => PromiseInv
    BY PromiseInit
  <1>2. PromiseInv /\ [Promise!Next]_Promise!vars => PromiseInv'
    <2> SUFFICES ASSUME PromiseInv, [Promise!Next]_Promise!vars PROVE PromiseInv'
      OBVIOUS
    <2>1. CASE UNCHANGED Promise!vars
      BY <2>1 DEF Promise!vars, PromiseInv, Promise!TypeOK, Promise!PicturesKept,
                  Promise!NoSlotWasted, Promise!Used, PromisedCopy, NoHoleLeft, VisitsInFile
    <2>2. CASE Promise!Keep
      BY <2>2, PromiseKeep
    <2>3. CASE Promise!Copy
      BY <2>3, PromiseCopy
    <2>4. CASE Promise!Relinked
      BY <2>4, PromiseRelinked
    <2>5. CASE Promise!Truncate
      BY <2>5, PromiseTruncate
    <2>6. CASE Promise!Stop
      BY <2>6, PromiseStop
    <2>7. CASE \E t \in thumbs : Promise!Relink(t)
      BY <2>7, PromiseRelink
    <2> QED BY <2>1, <2>2, <2>3, <2>4, <2>5, <2>6, <2>7 DEF Promise!Next
  <1> QED BY <1>1, <1>2, PTL DEF Promise!Spec

(* A thumbnail always refers to a slot of its file that holds its picture, *)
(* also when a call of ithumb_rearrange_thumbnail_file failed on the way.  *)
THEOREM PromisePicturesKept == Promise!Spec => []Promise!PicturesKept
  <1>1. PromiseInv => Promise!PicturesKept
    BY DEF PromiseInv
  <1> QED BY <1>1, PromiseInvariant, PTL

(* A rearranged file has no unused slot and ends behind the last used one. *)
THEOREM PromiseNoSlotWasted == Promise!Spec => []Promise!NoSlotWasted
  <1>1. PromiseInv => Promise!NoSlotWasted
    BY DEF PromiseInv
  <1> QED BY <1>1, PromiseInvariant, PTL

-----------------------------------------------------------------------------
(* The covers of ArtworkDb.  Tracks that share a cover do so by its id;    *)
(* only the owner of a shared cover learns where a write puts the picture  *)
(* (ithumb-writer.c:1439), so that what is known of a thumbnail on the     *)
(* iPod is known of those that have not gone astray.                       *)

(* A thumbnail at these slots of f shows the picture p, or nothing when    *)
(* there is none or it could not be written.                               *)
ShowsAt(f, at, p, missing) ==
  \/ \E s \in DOMAIN f : at = {s} /\ f[s] = p
  \/ at = {} /\ (missing \/ p = NoImage)

(* What an entry of ArtworkDB says.                                        *)
EntriesInv ==
  /\ LinksResolve
  /\ \A m \in entries : m.at = {} \/ \E s \in 0 .. MaxPictures - 1 : m.at = {s}
  /\ \A m \in entries : m.id \notin astrayIds => m.at \in SUBSET DOMAIN file
  /\ \A m, n \in entries : m.id = n.id => m = n
  /\ \A m \in entries : \E u \in DOMAIN stored :
       stored[u].dbid = m.dbid /\ stored[u].link = m.id
  /\ sparse => \A m, n \in entries :
       m.id \notin astrayIds /\ n.id \notin astrayIds /\ m # n => m.at \cap n.at = {}
  /\ astrayIds = {} => UNION {m.at : m \in entries} = DOMAIN file

(* The entry that a track of iTunesDB links to shows its cover.            *)
StoredInv ==
  \A t \in DOMAIN stored :
    /\ stored[t].link = 0 => stored[t].cover = NoImage
    /\ \A m \in entries : m.id = stored[t].link /\ m.id \notin astrayIds =>
         ShowsAt(file, m.at, stored[t].cover, stored[t].lost)

(* The thumbnail of u is right for t.                                      *)
Holds(u, t) ==
  /\ art[u].thumb.kind = "new" => art[u].thumb.picture = cover[t]
  /\ art[u].thumb.kind = "ipod" /\ u \notin astray =>
       ShowsAt(file, art[u].thumb.at, cover[t], t \in lost)

(* Covers are shared by their id, ...                                      *)
Shares(t, u) == t = u \/ (art[t].id = art[u].id /\ art[t].id # 0)

NoneRight(t) == art[t].thumb.kind = "none" => art[t].id = 0 /\ cover[t] = NoImage

(* ... and pictures in the file only by it.                                *)
SlotsApart ==
  \A t, u \in present \ astray :
    art[t].thumb.at \cap art[u].thumb.at # {} => art[t].id = art[u].id

MemoryInv ==
  /\ \A t \in present : NoneRight(t)
  /\ \A t, u \in present : Shares(t, u) => Holds(u, t)
  /\ sparse => SlotsApart

CoversInv == ADTypeOK /\ StoredThumbsHaveIds /\ EntriesInv /\ StoredInv /\ MemoryInv

-----------------------------------------------------------------------------
(* Numbers of things in a set of naturals.                                 *)

(* A set of naturals has a least element.                                  *)
LEMMA MinOf ==
  ASSUME NEW S \in SUBSET Nat, S # {}
  PROVE  Min(S) \in S /\ \A y \in S : Min(S) <= y
<1>1. \E n \in S : \A y \in S : n <= y
  BY LeastNatural
<1> QED BY <1>1 DEF Min

(* A rank is below the size of the set, and grows.                         *)
LEMMA RanksGrow ==
  ASSUME NEW S \in SUBSET Nat, IsFiniteSet(S)
  PROVE  /\ Cardinality(S) \in Nat
         /\ \A s \in S : Rank(s, S) \in 0 .. Cardinality(S) - 1
         /\ \A s, t \in S : s < t => Rank(s, S) < Rank(t, S)
<1> DEFINE Below(s) == {u \in S : u < s}
<1>1. Cardinality(S) \in Nat
  BY FS_CardinalityType
<1>2. \A s \in S : IsFiniteSet(Below(s)) /\ Rank(s, S) \in Nat
  <2> SUFFICES ASSUME NEW s \in S PROVE IsFiniteSet(Below(s)) /\ Rank(s, S) \in Nat
    OBVIOUS
  <2>1. Below(s) \in SUBSET S
    OBVIOUS
  <2>2. IsFiniteSet(Below(s))
    BY <2>1, FS_Subset
  <2> QED BY <2>2, FS_CardinalityType DEF Rank
<1>3. ASSUME NEW s \in S PROVE Rank(s, S) \in 0 .. Cardinality(S) - 1
  <2>1. Below(s) \in SUBSET S /\ s \notin Below(s)
    OBVIOUS
  <2>2. Cardinality(Below(s)) <= Cardinality(S) /\ Cardinality(S) # Cardinality(Below(s))
    BY <2>1, FS_Subset
  <2> QED BY <1>1, <1>2, <2>2 DEF Rank
<1>4. ASSUME NEW s \in S, NEW t \in S, s < t PROVE Rank(s, S) < Rank(t, S)
  <2>1. \A u \in S : u \in Nat /\ (u < s => u < t) /\ ~(s < s)
    BY <1>4
  <2>2. Below(s) \in SUBSET Below(t) /\ s \in Below(t) /\ s \notin Below(s)
    BY <1>4, <2>1
  <2>3. /\ Cardinality(Below(s)) <= Cardinality(Below(t))
        /\ Cardinality(Below(t)) # Cardinality(Below(s))
    <3> HIDE DEF Below
    <3> QED BY <1>2, <2>2, FS_Subset
  <2> QED BY <1>2, <2>3 DEF Rank
<1> QED BY <1>1, <1>3, <1>4

(* No two have the same rank.                                              *)
LEMMA RanksApart ==
  ASSUME NEW S \in SUBSET Nat, IsFiniteSet(S), NEW s \in S, NEW t \in S,
         Rank(s, S) = Rank(t, S)
  PROVE  s = t
<1>1. s \in Nat /\ t \in Nat /\ Rank(s, S) \in Nat /\ Rank(t, S) \in Nat
  BY RanksGrow
<1>2. ~(s < t) /\ ~(t < s)
  BY <1>1, RanksGrow
<1> QED BY <1>1, <1>2

(* An injection into the first numbers takes every one of as many.         *)
LEMMA NumbersTaken ==
  ASSUME NEW S, IsFiniteSet(S), NEW f \in [S -> 0 .. Cardinality(S) - 1],
         \A s, t \in S : f[s] = f[t] => s = t,
         NEW i \in 0 .. Cardinality(S) - 1
  PROVE  \E s \in S : f[s] = i
<1> DEFINE N == 0 .. Cardinality(S) - 1
<1>1. Cardinality(S) \in Nat
  BY FS_CardinalityType
<1>2. IsFiniteSet(N) /\ Cardinality(N) = Cardinality(S)
  <2>1. 0 \in Int /\ Cardinality(S) - 1 \in Int
    BY <1>1
  <2>2. /\ IsFiniteSet(N)
        /\ Cardinality(N) = IF 0 > Cardinality(S) - 1 THEN 0
                            ELSE (Cardinality(S) - 1) - 0 + 1
    BY <2>1, FS_Interval
  <2> QED BY <1>1, <2>2
<1> HIDE DEF N
<1>3. f \in Injection(S, N)
  BY DEF Injection, IsInjective, N
<1>4. f \in Surjection(S, N)
  BY <1>2, <1>3, FS_Injection
<1> QED BY <1>4 DEF Surjection, N

(* Every rank is taken.                                                    *)
LEMMA RanksTaken ==
  ASSUME NEW S \in SUBSET Nat, IsFiniteSet(S), NEW i \in 0 .. Cardinality(S) - 1
  PROVE  \E s \in S : Rank(s, S) = i
<1> DEFINE f == [s \in S |-> Rank(s, S)]
<1>1. f \in [S -> 0 .. Cardinality(S) - 1]
  BY RanksGrow
<1>2. \A s, t \in S : f[s] = f[t] => s = t
  BY RanksApart
<1> HIDE DEF f
<1>3. PICK s \in S : f[s] = i
  BY <1>1, <1>2, NumbersTaken
<1> QED BY <1>3 DEF f

-----------------------------------------------------------------------------
(* PackedSlot numbers the slots in use.                                    *)
Higher(used, s) == {u \in used : u > s}
High(used) == {u \in used : u >= Cardinality(used)}

(* There are as many free slots in front as there are pictures behind.     *)
LEMMA FreeSlots ==
  ASSUME NEW used \in SUBSET Nat, IsFiniteSet(used)
  PROVE  /\ UnusedBefore(used) \in SUBSET Nat /\ IsFiniteSet(UnusedBefore(used))
         /\ IsFiniteSet(High(used))
         /\ Cardinality(UnusedBefore(used)) = Cardinality(High(used))
<1> DEFINE N == Cardinality(used)
           Begin == 0 .. N - 1
           Low == Begin \cap used
<1>1. N \in Nat
  BY FS_CardinalityType
<1>2. IsFiniteSet(Begin) /\ Cardinality(Begin) = N
  <2>1. 0 \in Int /\ N - 1 \in Int
    BY <1>1
  <2>2. IsFiniteSet(Begin) /\ Cardinality(Begin) = IF 0 > N - 1 THEN 0 ELSE (N - 1) - 0 + 1
    BY <2>1, FS_Interval
  <2> QED BY <1>1, <2>2
<1>3. High(used) = used \ Low
  <2>1. \A u \in used : u \in Nat
    OBVIOUS
  <2>2. \A u \in used : u >= N <=> u \notin Begin
    BY <1>1, <2>1
  <2> HIDE DEF N, Begin
  <2>3. High(used) = {u \in used : u >= N}
    BY DEF High, N
  <2> QED BY <2>2, <2>3
<1>4. UnusedBefore(used) = Begin \ used
  BY DEF UnusedBefore
<1>5. UnusedBefore(used) \in SUBSET Nat
  BY <1>1, <1>4
<1> HIDE DEF N, Begin
<1>6. /\ IsFiniteSet(Begin \ used)
      /\ Cardinality(Begin \ used) = Cardinality(Begin) - Cardinality(Low)
  BY <1>2, FS_Difference
<1>7. used \cap Low = Low
  OBVIOUS
<1>8. IsFiniteSet(used \ Low) /\ Cardinality(used \ Low) = N - Cardinality(Low)
  BY <1>7, FS_Difference DEF N
<1> QED BY <1>2, <1>3, <1>4, <1>5, <1>6, <1>8

(* The pictures behind one in use are fewer, the further back it is.       *)
LEMMA HigherCount ==
  ASSUME NEW used \in SUBSET Nat, IsFiniteSet(used)
  PROVE  /\ \A s \in High(used) :
              Cardinality(Higher(used, s)) \in 0 .. Cardinality(High(used)) - 1
         /\ \A s, t \in used :
              Cardinality(Higher(used, s)) = Cardinality(Higher(used, t)) => s = t
<1>1. \A u \in used : u \in Nat
  OBVIOUS
<1>2. Cardinality(used) \in Nat /\ IsFiniteSet(High(used)) /\ Cardinality(High(used)) \in Nat
  BY FreeSlots, FS_CardinalityType
<1>3. \A s \in used : /\ IsFiniteSet(Higher(used, s))
                      /\ Cardinality(Higher(used, s)) \in Nat
  <2> SUFFICES ASSUME NEW s \in used
               PROVE  IsFiniteSet(Higher(used, s)) /\ Cardinality(Higher(used, s)) \in Nat
    OBVIOUS
  <2>1. Higher(used, s) \in SUBSET used
    BY DEF Higher
  <2> QED BY <2>1, FS_Subset, FS_CardinalityType
<1>4. ASSUME NEW s \in High(used)
      PROVE  Cardinality(Higher(used, s)) \in 0 .. Cardinality(High(used)) - 1
  <2>1. s \in used /\ s >= Cardinality(used) /\ s \in Nat
    BY <1>1 DEF High
  <2>2. ~(s > s) /\ \A u \in used : u > s => u >= Cardinality(used)
    BY <1>1, <1>2, <2>1
  <2>3. Higher(used, s) \in SUBSET High(used) /\ s \notin Higher(used, s)
    BY <2>1, <2>2 DEF High, Higher
  <2>4. /\ Cardinality(Higher(used, s)) <= Cardinality(High(used))
        /\ Cardinality(High(used)) # Cardinality(Higher(used, s))
    BY <1>2, <2>3, FS_Subset
  <2> QED BY <1>2, <1>3, <2>1, <2>4
<1>5. ASSUME NEW s \in used, NEW t \in used, s < t
      PROVE  Cardinality(Higher(used, s)) # Cardinality(Higher(used, t))
  <2>1. \A u \in used : u > t => u > s
    BY <1>1, <1>5
  <2>2. t > s /\ ~(t > t)
    BY <1>1, <1>5
  <2>3. Higher(used, t) \in SUBSET Higher(used, s) /\ t \in Higher(used, s)
        /\ t \notin Higher(used, t)
    BY <2>1, <2>2 DEF Higher
  <2> QED BY <1>3, <2>3, FS_Subset
<1>6. ASSUME NEW s \in used, NEW t \in used,
             Cardinality(Higher(used, s)) = Cardinality(Higher(used, t))
      PROVE  s = t
  <2>1. s \in Nat /\ t \in Nat /\ ~(s < t) /\ ~(t < s)
    BY <1>1, <1>5, <1>6
  <2> QED BY <2>1
<1> QED BY <1>4, <1>6

(* A picture behind gets the free slot with its number.                    *)
LEMMA PackedHigh ==
  ASSUME NEW used \in SUBSET Nat, IsFiniteSet(used), NEW s \in High(used)
  PROVE  /\ PackedSlot(used, s) \in UnusedBefore(used)
         /\ Rank(PackedSlot(used, s), UnusedBefore(used)) = Cardinality(Higher(used, s))
<1> DEFINE Free == UnusedBefore(used)
           Q(free) == Cardinality({u \in Free : u < free}) = Cardinality(Higher(used, s))
<1>1. Cardinality(used) \in Nat /\ s \in Nat /\ ~(s < Cardinality(used))
  BY FS_CardinalityType DEF High
<1>2. PackedSlot(used, s) = CHOOSE free \in Free : Q(free)
  BY <1>1 DEF PackedSlot, Higher
<1>3. \E free \in Free : Rank(free, Free) = Cardinality(Higher(used, s))
  BY FreeSlots, HigherCount, RanksTaken
<1>4. \A free \in Free : Q(free) <=> Rank(free, Free) = Cardinality(Higher(used, s))
  BY DEF Rank
<1> HIDE DEF Q, Free
<1>5. \E free \in Free : Q(free)
  BY <1>3, <1>4
<1>6. PackedSlot(used, s) \in Free /\ Q(PackedSlot(used, s))
  BY <1>2, <1>5
<1> QED BY <1>4, <1>6 DEF Free

(* Every slot in use gets a number of its own, and every number is taken.  *)
LEMMA PackedSlots ==
  ASSUME NEW used \in SUBSET Nat, IsFiniteSet(used)
  PROVE  /\ Cardinality(used) \in Nat
         /\ \A s \in used : PackedSlot(used, s) \in 0 .. Cardinality(used) - 1
         /\ \A s, t \in used : PackedSlot(used, s) = PackedSlot(used, t) => s = t
         /\ \A i \in 0 .. Cardinality(used) - 1 : \E s \in used : PackedSlot(used, s) = i
<1> DEFINE N == Cardinality(used)
           f == [s \in used |-> PackedSlot(used, s)]
<1>1. N \in Nat /\ \A s \in used : s \in Nat
  BY FS_CardinalityType
<1>2. \A s \in used : s \notin High(used) => s < N /\ PackedSlot(used, s) = s
  BY <1>1 DEF High, PackedSlot
<1>3. \A s \in High(used) : PackedSlot(used, s) \in 0 .. N - 1 /\ PackedSlot(used, s) \notin used
  BY PackedHigh DEF UnusedBefore
<1>4. ASSUME NEW s \in used PROVE PackedSlot(used, s) \in 0 .. N - 1
  BY <1>1, <1>2, <1>3
<1>5. ASSUME NEW s \in used, NEW t \in used, PackedSlot(used, s) = PackedSlot(used, t)
      PROVE  s = t
  <2>1. CASE s \in High(used) /\ t \in High(used)
    <3>1. Cardinality(Higher(used, s)) = Cardinality(Higher(used, t))
      BY <1>5, <2>1, PackedHigh
    <3> QED BY <3>1, HigherCount
  <2>2. CASE s \notin High(used) \/ t \notin High(used)
    BY <1>2, <1>3, <1>5, <2>2
  <2> QED BY <2>1, <2>2
<1>6. ASSUME NEW i \in 0 .. N - 1 PROVE \E s \in used : PackedSlot(used, s) = i
  <2>1. f \in [used -> 0 .. N - 1] /\ \A s, t \in used : f[s] = f[t] => s = t
    BY <1>4, <1>5
  <2> HIDE DEF f
  <2>2. PICK s \in used : f[s] = i
    BY <2>1, NumbersTaken
  <2> QED BY <2>2 DEF f
<1> QED BY <1>1, <1>4, <1>5, <1>6

-----------------------------------------------------------------------------
(* The ids of covers.                                                      *)

(* Tracks are a finite set of numbers.                                     *)
LEMMA TrackSets ==
  ASSUME NEW S \in SUBSET Track
  PROVE  /\ S \in SUBSET Nat /\ IsFiniteSet(S) /\ Cardinality(S) \in Nat
         /\ Cardinality(S) <= Cardinality(Track)
<1>1. Track \in SUBSET Nat /\ IsFiniteSet(Track)
  BY ArtworkAssumption
<1>2. IsFiniteSet(S) /\ Cardinality(S) <= Cardinality(Track)
  BY <1>1, FS_Subset
<1> QED BY <1>1, <1>2, FS_CardinalityType


(* Covers while they get their ids.                                        *)
Covers == [Track -> [thumb : Thumbnail, id : Nat, own : BOOLEAN, link : Nat]]

(* What two tracks have in common that get one id.                         *)
SameId(a, t, u) == IF sparse THEN a[t].id = a[u].id ELSE t = u

(* The first track of each id stands for it.                               *)
LEMMA FirstFacts ==
  ASSUME NEW a
  PROVE  /\ DOMAIN FirstWithId(a) = Numbered(a) /\ Firsts(a) \in SUBSET Numbered(a)
         /\ \A t \in Numbered(a) :
              /\ FirstWithId(a)[t] \in Numbered(a) /\ SameId(a, t, FirstWithId(a)[t])
              /\ FirstWithId(a)[t] \in Firsts(a)
         /\ \A t, u \in Numbered(a) :
              SameId(a, t, u) <=> FirstWithId(a)[t] = FirstWithId(a)[u]
         /\ \A t \in Firsts(a) : FirstWithId(a)[t] = t
<1> DEFINE S == Numbered(a)
           first == FirstWithId(a)
           Class(t) == {u \in S : a[u].id = a[t].id}
<1>1. S \in SUBSET Nat
  BY ArtworkAssumption DEF Numbered
<1>2. first = [t \in S |-> IF sparse THEN Min(Class(t)) ELSE t]
  BY DEF FirstWithId
<1>3. \A t \in S : Class(t) \in SUBSET Nat /\ t \in Class(t)
  BY <1>1
<1>4. \A t \in S : Min(Class(t)) \in Class(t)
  BY <1>3, MinOf
<1> HIDE DEF first
<1>5. \A t \in S : first[t] \in S /\ SameId(a, t, first[t])
  BY <1>2, <1>4 DEF SameId
<1>6. ASSUME NEW t \in S, NEW u \in S, SameId(a, t, u) PROVE first[t] = first[u]
  <2>1. CASE sparse
    <3>1. Class(t) = Class(u)
      BY <1>6, <2>1 DEF SameId
    <3> QED BY <1>2, <2>1, <3>1
  <2>2. CASE ~sparse
    BY <1>6, <2>2 DEF SameId
  <2> QED BY <2>1, <2>2
<1>7. ASSUME NEW t \in S, NEW u \in S, first[t] = first[u] PROVE SameId(a, t, u)
  <2>1. SameId(a, t, first[t]) /\ SameId(a, u, first[t])
    BY <1>5, <1>7
  <2> QED BY <2>1 DEF SameId
<1>8. DOMAIN first = S
  BY <1>2
<1>9. Firsts(a) = {first[t] : t \in S}
  BY <1>8 DEF Firsts, Range, first
<1>10. \A t \in S : first[first[t]] = first[t]
  BY <1>5, <1>6 DEF SameId
<1> HIDE DEF S
<1>11. /\ \A t \in S : first[t] \in Firsts(a)
       /\ \A t \in Firsts(a) : t \in S /\ first[t] = t
  BY <1>5, <1>9, <1>10
<1>12. Firsts(a) \in SUBSET S
  BY <1>11
<1>13. \A t, u \in S : SameId(a, t, u) <=> first[t] = first[u]
  BY <1>6, <1>7
<1> QED BY ONLY <1>5, <1>8, <1>11, <1>12, <1>13 DEF S, first

(* ipod_artwork_db_set_ids: tracks that shared an id share one again, the  *)
(* first of them owns it, and the ids are the first ones from min_id on.   *)
LEMMA SetIdsFacts ==
  ASSUME NEW a \in Covers, NEW d, d = SetIds(a)
  PROVE  LET S == Numbered(a)
             N == Cardinality(Firsts(a))
         IN  /\ N \in Nat /\ N <= Cardinality(Track)
             /\ \A t \in S : /\ d[t].id \in MinId .. MinId + N - 1 /\ d[t].link = d[t].id
                             /\ d[t].own <=> t \in Firsts(a)
                             /\ \E u \in S : d[u].own /\ d[u].id = d[t].id
             /\ \A t, u \in S : d[t].id = d[u].id <=> SameId(a, t, u)
             /\ \A t, u \in S : d[t].own /\ d[u].own /\ d[t].id = d[u].id => t = u
             /\ \A i \in MinId .. MinId + N - 1 : \E t \in S : d[t].own /\ d[t].id = i
             /\ \A t \in Track \ S :
                  /\ d[t].id = a[t].id /\ d[t].own = a[t].own
                  /\ t \in present => d[t].link = IF sparse THEN 0 ELSE a[t].id
                  /\ t \notin present => d[t] = a[t]
<1> DEFINE S == Numbered(a)
           F == Firsts(a)
           N == Cardinality(F)
           first == FirstWithId(a)
<1>1. S \in SUBSET Track
  BY DEF Numbered
<1>2. /\ DOMAIN first = S /\ F \in SUBSET S
      /\ \A t \in S : first[t] \in F /\ first[t] \in S
      /\ \A t, u \in S : SameId(a, t, u) <=> first[t] = first[u]
      /\ \A t \in F : first[t] = t
  BY FirstFacts
<1>3. F \in SUBSET Track
  BY <1>1, <1>2
<1>4. F \in SUBSET Nat /\ IsFiniteSet(F) /\ N \in Nat /\ N <= Cardinality(Track)
  BY <1>3, TrackSets
<1>5. MinId \in Nat
  BY ArtworkAssumption
<1> DEFINE number == [t \in DOMAIN first |-> MinId + Rank(first[t], F)]
<1>6. d = [t \in Track |->
             IF t \in DOMAIN first
               THEN [thumb |-> a[t].thumb, id |-> number[t], own |-> t = first[t],
                     link |-> number[t]]
             ELSE IF t \in present
               THEN [a[t] EXCEPT !.link = IF sparse THEN 0 ELSE a[t].id]
             ELSE a[t]]
  BY DEF SetIds, Firsts
<1> HIDE DEF number
<1>7. ASSUME NEW t \in S
      PROVE  /\ d[t].id = number[t] /\ d[t].link = number[t]
             /\ d[t].own <=> t = first[t]
  <2> DEFINE owns == t = first[t]
  <2>1. d[t] = [thumb |-> a[t].thumb, id |-> number[t], own |-> owns, link |-> number[t]]
    BY <1>1, <1>2, <1>6
  <2> HIDE DEF owns
  <2>2. d[t].id = number[t] /\ d[t].link = number[t] /\ d[t].own = owns
    BY <2>1
  <2> QED BY <2>2 DEF owns
<1>8. \A t \in S : number[t] = MinId + Rank(first[t], F)
  BY <1>2 DEF number
<1>9. \A t \in F : Rank(t, F) \in 0 .. N - 1
  BY <1>4, RanksGrow
<1>10. ASSUME NEW t \in S
       PROVE  d[t].id \in MinId .. MinId + N - 1 /\ d[t].link = d[t].id /\ (d[t].own <=> t \in F)
  <2>1. Rank(first[t], F) \in 0 .. N - 1
    BY <1>2, <1>9
  <2>2. MinId + Rank(first[t], F) \in MinId .. MinId + N - 1
    BY <1>4, <1>5, <2>1
  <2>3. t = first[t] <=> t \in F
    BY <1>2
  <2>4. d[t].own <=> t \in F
    BY <1>7, <2>3
  <2> QED BY <1>7, <1>8, <2>2, <2>4
<1>11. \A t, u \in S : d[t].id = d[u].id <=> first[t] = first[u]
  <2> SUFFICES ASSUME NEW t \in S, NEW u \in S PROVE d[t].id = d[u].id <=> first[t] = first[u]
    OBVIOUS
  <2>1. Rank(first[t], F) \in Nat /\ Rank(first[u], F) \in Nat
    BY <1>2, <1>4, <1>9
  <2>2. d[t].id = d[u].id <=> Rank(first[t], F) = Rank(first[u], F)
    BY <1>5, <1>7, <1>8, <2>1
  <2> QED BY <1>2, <1>4, <2>2, RanksApart
<1>12. ASSUME NEW i \in MinId .. MinId + N - 1 PROVE \E t \in S : d[t].own /\ d[t].id = i
  <2>1. i - MinId \in 0 .. N - 1
    BY <1>4, <1>5
  <2>2. PICK t \in F : Rank(t, F) = i - MinId
    BY <1>4, <2>1, RanksTaken
  <2>3. t \in S /\ first[t] = t
    BY <1>2
  <2>4. d[t].id = number[t] /\ number[t] = MinId + Rank(t, F)
    <3>1. number[t] = MinId + Rank(first[t], F)
      BY <1>8, <2>3
    <3>2. d[t].id = number[t]
      BY <1>7, <2>3
    <3> QED BY <2>3, <3>1, <3>2
  <2>5. d[t].own
    BY <1>10, <2>3
  <2>6. MinId + Rank(t, F) = i
    BY <1>5, <2>2
  <2> QED BY <2>3, <2>4, <2>5, <2>6
<1>13. \A t \in S : first[t] \in S /\ d[first[t]].own /\ d[first[t]].id = d[t].id
  BY <1>2, <1>10, <1>11
<1>14. \A t, u \in S : d[t].own /\ d[u].own /\ d[t].id = d[u].id => t = u
  BY <1>2, <1>10, <1>11
<1>15. ASSUME NEW t \in Track \ S
       PROVE  /\ d[t].id = a[t].id /\ d[t].own = a[t].own
              /\ t \in present => d[t].link = IF sparse THEN 0 ELSE a[t].id
              /\ t \notin present => d[t] = a[t]
  <2>1. a[t] \in [thumb : Thumbnail, id : Nat, own : BOOLEAN, link : Nat]
    BY DEF Covers
  <2>2. d[t] = IF t \in present THEN [a[t] EXCEPT !.link = IF sparse THEN 0 ELSE a[t].id]
               ELSE a[t]
    BY <1>2, <1>6
  <2> QED BY <2>1, <2>2
<1> HIDE DEF S, F, N, first
<1>16. /\ N \in Nat /\ N <= Cardinality(Track)
       /\ \A t \in S : /\ d[t].id \in MinId .. MinId + N - 1 /\ d[t].link = d[t].id
                       /\ d[t].own <=> t \in F
                       /\ \E u \in S : d[u].own /\ d[u].id = d[t].id
       /\ \A t, u \in S : d[t].id = d[u].id <=> SameId(a, t, u)
       /\ \A t, u \in S : d[t].own /\ d[u].own /\ d[t].id = d[u].id => t = u
       /\ \A i \in MinId .. MinId + N - 1 : \E t \in S : d[t].own /\ d[t].id = i
       /\ \A t \in Track \ S :
            /\ d[t].id = a[t].id /\ d[t].own = a[t].own
            /\ t \in present => d[t].link = IF sparse THEN 0 ELSE a[t].id
            /\ t \notin present => d[t] = a[t]
  BY <1>2, <1>4, <1>10, <1>11, <1>12, <1>13, <1>14, <1>15
<1> QED BY <1>16 DEF S, F, N

(* It leaves the thumbnails alone.                                         *)
LEMMA SetIdsKeeps ==
  ASSUME NEW a \in Covers
  PROVE  /\ SetIds(a) \in Covers
         /\ \A t \in Track : SetIds(a)[t].thumb = a[t].thumb
         /\ \A t \in Track : HasThumb(SetIds(a), t) <=> HasThumb(a, t)
<1> DEFINE d == SetIds(a)
           first == FirstWithId(a)
           F == Firsts(a)
           number == [t \in DOMAIN first |-> MinId + Rank(first[t], F)]
<1>1. DOMAIN first = Numbered(a) /\ F \in SUBSET Numbered(a) /\ \A t \in DOMAIN first : first[t] \in F
  BY FirstFacts
<1>2. F \in SUBSET Track
  BY <1>1 DEF Numbered
<1>3. F \in SUBSET Nat /\ IsFiniteSet(F)
  BY <1>2, TrackSets
<1>4. MinId \in Nat
  BY ArtworkAssumption
<1>5. \A t \in F : Rank(t, F) \in Nat
  BY <1>3, RanksGrow
<1>6. \A t \in DOMAIN first : number[t] \in Nat
  BY <1>1, <1>4, <1>5
<1>7. d = [t \in Track |->
             IF t \in DOMAIN first
               THEN [thumb |-> a[t].thumb, id |-> number[t], own |-> t = first[t],
                     link |-> number[t]]
             ELSE IF t \in present
               THEN [a[t] EXCEPT !.link = IF sparse THEN 0 ELSE a[t].id]
             ELSE a[t]]
  BY DEF SetIds, Firsts
<1> HIDE DEF number, d
<1>8. ASSUME NEW t \in Track
      PROVE  /\ d[t] \in [thumb : Thumbnail, id : Nat, own : BOOLEAN, link : Nat]
             /\ d[t].thumb = a[t].thumb
  <2>1. a[t] \in [thumb : Thumbnail, id : Nat, own : BOOLEAN, link : Nat]
    BY DEF Covers
  <2>2. CASE t \in DOMAIN first
    BY <1>6, <1>7, <2>1, <2>2
  <2>3. CASE t \notin DOMAIN first
    <3>1. d[t] = IF t \in present THEN [a[t] EXCEPT !.link = IF sparse THEN 0 ELSE a[t].id]
                 ELSE a[t]
      BY <1>7, <2>3
    <3> QED BY <2>1, <3>1
  <2> QED BY <2>2, <2>3
<1>9. DOMAIN d = Track /\ d = [t \in Track |-> d[t]]
  BY <1>7
<1>10. d \in Covers
  BY <1>8, <1>9 DEF Covers
<1>11. \A t \in Track : HasThumb(d, t) <=> HasThumb(a, t)
  BY <1>8 DEF HasThumb
<1> QED BY <1>8, <1>10, <1>11 DEF d

(* ipod_artwork_mark_new_doubles: new covers get ids above max, and one    *)
(* only if they are the same picture of one album.                         *)
LEMMA MarkFacts ==
  ASSUME NEW a \in Covers, NEW max \in Nat, NEW c, c = MarkNewDoubles(a, max)
  PROVE  LET S == {t \in Track : HasThumb(a, t) /\ a[t].id = 0}
         IN  /\ c \in Covers
             /\ \A t \in Track : c[t].thumb = a[t].thumb
             /\ \A t \in Track : HasThumb(c, t) <=> HasThumb(a, t)
             /\ \A t \in S : c[t].id > max
             /\ \A t, u \in S : c[t].id = c[u].id => SameNewArtwork(t, u)
             /\ \A t \in Track \ S : c[t] = a[t]
<1> DEFINE S == {t \in Track : HasThumb(a, t) /\ a[t].id = 0}
           Class(t) == {u \in S : SameNewArtwork(t, u)}
           first == [t \in S |-> Min(Class(t))]
           F == Range(first)
           number == [t \in S |-> max + 1 + Rank(first[t], F)]
<1>1. S \in SUBSET Track /\ S \in SUBSET Nat
  BY ArtworkAssumption
<1>2. \A t \in S : Class(t) \in SUBSET Nat /\ t \in Class(t)
  BY <1>1 DEF SameNewArtwork
<1>3. \A t \in S : Min(Class(t)) \in Class(t)
  BY <1>2, MinOf
<1>4. \A t \in S : first[t] \in S /\ SameNewArtwork(t, first[t])
  BY <1>3
<1>5. DOMAIN first = S
  OBVIOUS
<1>6. c = [t \in Track |->
             IF t \in S THEN [thumb |-> a[t].thumb, id |-> number[t], own |-> t = first[t],
                              link |-> number[t]]
             ELSE a[t]]
  BY DEF MarkNewDoubles
<1> HIDE DEF first, S
<1>7. F = {first[t] : t \in S}
  BY <1>5 DEF Range
<1>8. F \in SUBSET Track /\ \A t \in S : first[t] \in F
  BY <1>1, <1>4, <1>7
<1>9. F \in SUBSET Nat /\ IsFiniteSet(F)
  BY <1>8, TrackSets
<1>10. \A t \in S : Rank(first[t], F) \in Nat
  BY <1>8, <1>9, RanksGrow
<1>11. \A t \in S : number[t] = max + 1 + Rank(first[t], F)
  OBVIOUS
<1> HIDE DEF number, F
<1>12. \A t \in S : number[t] \in Nat /\ number[t] > max
  BY <1>10, <1>11
<1>13. ASSUME NEW t \in S
       PROVE  /\ c[t].id = number[t] /\ c[t].thumb = a[t].thumb
              /\ c[t] \in [thumb : Thumbnail, id : Nat, own : BOOLEAN, link : Nat]
  <2> DEFINE owns == t = first[t]
  <2>1. c[t] = [thumb |-> a[t].thumb, id |-> number[t], own |-> owns, link |-> number[t]]
    BY <1>1, <1>6
  <2>2. owns \in BOOLEAN
    OBVIOUS
  <2> HIDE DEF owns
  <2>3. a[t].thumb \in Thumbnail
    BY <1>1 DEF Covers
  <2> QED BY <1>12, <2>1, <2>2, <2>3
<1>14. \A t \in Track \ S : c[t] = a[t]
  BY <1>6
<1>15. c = [t \in Track |-> c[t]]
  BY <1>6
<1>16. \A t \in Track : /\ c[t] \in [thumb : Thumbnail, id : Nat, own : BOOLEAN, link : Nat]
                        /\ c[t].thumb = a[t].thumb
  BY <1>13, <1>14 DEF Covers
<1>17. c \in Covers
  BY <1>15, <1>16 DEF Covers
<1>18. \A t \in Track : HasThumb(c, t) <=> HasThumb(a, t)
  BY <1>16 DEF HasThumb
<1>19. ASSUME NEW t \in S, NEW u \in S, c[t].id = c[u].id PROVE SameNewArtwork(t, u)
  <2>1. Rank(first[t], F) = Rank(first[u], F)
    BY <1>10, <1>11, <1>13, <1>19
  <2>2. first[t] = first[u]
    BY <1>8, <1>9, <2>1, RanksApart
  <2>3. SameNewArtwork(t, first[t]) /\ SameNewArtwork(u, first[t])
    BY <1>4, <2>2
  <2> QED BY <2>3 DEF SameNewArtwork
<1>20. \A t \in S : c[t].id > max
  BY <1>12, <1>13
<1> QED BY <1>14, <1>16, <1>17, <1>18, <1>19, <1>20 DEF S

(* Covers that are right to be numbered: thumbnails on the iPod have an    *)
(* id.                                                                     *)
Numberable ==
  /\ sparse \in BOOLEAN /\ present \in SUBSET Track /\ art \in [Track -> Artwork]
  /\ StoredThumbsHaveIds /\ MemoryInv

(* Every cover has an id, and the thumbnail of a track is right for those  *)
(* that have the same one.                                                 *)
Identified(d) ==
  /\ d \in Covers
  /\ \A t \in Track : d[t].thumb = art[t].thumb
  /\ \A t \in Track : HasThumb(d, t) => d[t].link = d[t].id
  /\ \A t \in Track : HasThumb(d, t) => \E u \in Owners(d) : d[u].id = d[t].id
  /\ \A t, u \in Owners(d) : d[t].id = d[u].id => t = u
  /\ \A t, u \in Track : HasThumb(d, t) /\ HasThumb(d, u) =>
       /\ d[t].id = d[u].id => Holds(u, t)
       /\ sparse /\ t \notin astray /\ u \notin astray
            /\ d[t].thumb.at \cap d[u].thumb.at # {} => d[t].id = d[u].id
  /\ {d[u].id : u \in Owners(d)} = MinId .. MinId + Cardinality(Owners(d)) - 1
  /\ \A t \in present : ~HasThumb(d, t) => d[t].id = 0 /\ d[t].link = 0
  /\ \A t \in Track \ present : d[t] = art[t]

(* What thumbnails are.                                                    *)
LEMMA ThumbnailKinds ==
  ASSUME NEW a \in Covers, NEW t \in Track
  PROVE  /\ a[t].thumb.kind \in {"none", "new", "ipod"}
         /\ a[t].thumb.kind = "none" => a[t].thumb = NoThumb
         /\ a[t].thumb.kind = "new" =>
              a[t].thumb = NewThumb(a[t].thumb.picture) /\ a[t].thumb.picture \in Image
              /\ a[t].thumb.at = {}
         /\ a[t].thumb.kind = "ipod" => a[t].thumb = IpodThumb(a[t].thumb.at)
<1>1. a[t].thumb \in Thumbnail
  BY DEF Covers
<1> QED BY <1>1 DEF Thumbnail, NoThumb, NewThumb, IpodThumb

LEMMA CoversOfArt == ASSUME art \in [Track -> Artwork] PROVE art \in Covers
<1>1. Id \in SUBSET Nat
  BY ArtworkAssumption DEF Id
<1>2. Artwork \in SUBSET [thumb : Thumbnail, id : Nat, own : BOOLEAN, link : Nat]
  BY <1>1 DEF Artwork
<1> QED BY <1>2 DEF Covers

(* The last numbering identifies the covers.                               *)
LEMMA NumberingIdentifies ==
  ASSUME Numberable, NEW c \in Covers,
         \A t \in Track : c[t].thumb = art[t].thumb,
         \A t \in Track : HasThumb(c, t) => t \in Numbered(c),
         \A t, u \in Track : sparse /\ HasThumb(c, t) /\ HasThumb(c, u) =>
           /\ c[t].id = c[u].id => Holds(u, t)
           /\ t \notin astray /\ u \notin astray /\ c[t].thumb.at \cap c[u].thumb.at # {} =>
                c[t].id = c[u].id,
         \A t \in present : ~HasThumb(c, t) => c[t].id = 0,
         \A t \in Track \ present : c[t] = art[t]
  PROVE  Identified(SetIds(c))
<1> DEFINE S == Numbered(c)
           d == SetIds(c)
           N == Cardinality(Firsts(c))
<1>1. \A t \in Track : t \in S <=> HasThumb(c, t)
  BY DEF Numbered
<1>2. /\ d \in Covers
      /\ \A t \in Track : d[t].thumb = c[t].thumb /\ (HasThumb(d, t) <=> HasThumb(c, t))
  BY SetIdsKeeps
<1>3. /\ \A t \in S : /\ d[t].id \in MinId .. MinId + N - 1 /\ d[t].link = d[t].id
                      /\ d[t].own <=> t \in Firsts(c)
                      /\ \E u \in S : d[u].own /\ d[u].id = d[t].id
      /\ \A t, u \in S : d[t].id = d[u].id <=> SameId(c, t, u)
      /\ \A t, u \in S : d[t].own /\ d[u].own /\ d[t].id = d[u].id => t = u
      /\ \A i \in MinId .. MinId + N - 1 : \E t \in S : d[t].own /\ d[t].id = i
      /\ \A t \in Track \ S :
           /\ d[t].id = c[t].id /\ d[t].own = c[t].own
           /\ t \in present => d[t].link = IF sparse THEN 0 ELSE c[t].id
           /\ t \notin present => d[t] = c[t]
  BY SetIdsFacts
<1>4. Firsts(c) \in SUBSET S /\ S \in SUBSET Track
  BY FirstFacts DEF Numbered
<1> HIDE DEF S, d
<1>5. \A t : t \in Owners(d) <=> t \in S /\ d[t].own
  BY <1>1, <1>2, <1>4 DEF Owners
<1>6. Owners(d) = Firsts(c)
  BY <1>3, <1>4, <1>5
<1>7. {d[u].id : u \in Owners(d)} = MinId .. MinId + Cardinality(Owners(d)) - 1
  <2>1. \A u \in Owners(d) : d[u].id \in MinId .. MinId + N - 1
    BY <1>3, <1>5
  <2>2. \A i \in MinId .. MinId + N - 1 : \E u \in Owners(d) : d[u].id = i
    BY <1>3, <1>5
  <2> HIDE DEF N
  <2>3. {d[u].id : u \in Owners(d)} = MinId .. MinId + N - 1
    BY <2>1, <2>2
  <2> QED BY <1>6, <2>3 DEF N
<1> HIDE DEF N
<1>8. ASSUME NEW t \in Track, NEW u \in Track, HasThumb(d, t), HasThumb(d, u)
      PROVE  /\ d[t].id = d[u].id => Holds(u, t)
             /\ sparse /\ t \notin astray /\ u \notin astray
                  /\ d[t].thumb.at \cap d[u].thumb.at # {} => d[t].id = d[u].id
  <2>1. t \in S /\ u \in S /\ HasThumb(c, t) /\ HasThumb(c, u)
    BY <1>1, <1>2, <1>8
  <2>2. d[t].id = d[u].id <=> SameId(c, t, u)
    BY <1>3, <2>1
  <2>3. d[t].thumb = c[t].thumb /\ d[u].thumb = c[u].thumb
    BY <1>2
  <2>4. t \in present /\ Holds(t, t)
    BY <2>1 DEF HasThumb, Numberable, MemoryInv, Shares
  <2> QED BY <2>1, <2>2, <2>3, <2>4 DEF SameId
<1>9. \A t \in Track : HasThumb(d, t) =>
        d[t].link = d[t].id /\ \E u \in Owners(d) : d[u].id = d[t].id
  BY <1>1, <1>2, <1>3, <1>5
<1>10. \A t, u \in Owners(d) : d[t].id = d[u].id => t = u
  BY <1>3, <1>5
<1>11. \A t \in present : ~HasThumb(d, t) => d[t].id = 0 /\ d[t].link = 0
  <2> SUFFICES ASSUME NEW t \in present, ~HasThumb(d, t) PROVE d[t].id = 0 /\ d[t].link = 0
    OBVIOUS
  <2>1. t \in Track
    BY DEF Numberable
  <2>2. t \in Track \ S /\ c[t].id = 0
    BY <1>1, <1>2, <2>1
  <2> QED BY <1>3, <2>2
<1>12. \A t \in Track \ present : d[t] = art[t]
  BY <1>1, <1>3 DEF HasThumb
<1>13. \A t \in Track : d[t].thumb = art[t].thumb
  BY <1>2
<1>14. Identified(d)
  BY <1>2, <1>7, <1>8, <1>9, <1>10, <1>11, <1>12, <1>13 DEF Identified
<1> QED BY <1>14 DEF d

(* itdb_prepare_thumbnails identifies the covers, although the ids are     *)
(* handed out again while tracks are found by them: the first numbering    *)
(* leaves room above for new covers, the second one closes it.             *)
LEMMA PreparedIdentifies ==
  ASSUME Numberable
  PROVE  Identified(Prepared(art))
<1>1. art \in Covers /\ present \in SUBSET Track
  BY CoversOfArt DEF Numberable
<1>2. CASE ~sparse
  <2>1. Prepared(art) = SetIds(art)
    BY <1>2 DEF Prepared
  <2>2. \A t \in Track : HasThumb(art, t) => t \in Numbered(art)
    BY <1>2 DEF Numbered
  <2>3. \A t \in present : ~HasThumb(art, t) => art[t].id = 0
    BY DEF HasThumb, Numberable, MemoryInv, NoneRight
  <2> QED BY <1>1, <1>2, <2>1, <2>2, <2>3, NumberingIdentifies
<1>3. CASE sparse
  <2> DEFINE b == SetIds(art)
             max == HighestId(b)
             c == MarkNewDoubles(b, max)
             S == Numbered(art)
             N == Cardinality(Firsts(art))
  <2>1. /\ b \in Covers
        /\ \A t \in Track : b[t].thumb = art[t].thumb
        /\ \A t \in Track : HasThumb(b, t) <=> HasThumb(art, t)
    BY <1>1, SetIdsKeeps
  <2>2. /\ N \in Nat
        /\ \A t \in S : b[t].id \in MinId .. MinId + N - 1
        /\ \A t, u \in S : b[t].id = b[u].id <=> SameId(art, t, u)
        /\ \A t \in Track \ S : b[t].id = art[t].id
        /\ \A t \in Track \ S : t \notin present => b[t] = art[t]
    BY <1>1, SetIdsFacts
  <2> HIDE DEF b
  <2>3. MinId \in Nat /\ MinId # 0
    BY ArtworkAssumption
  <2>4. \A t : t \in S <=> t \in Track /\ HasThumb(art, t) /\ art[t].id # 0
    BY <1>3 DEF Numbered
  <2>5. \A t \in S : b[t].id # 0
    BY <2>2, <2>3
  <2>6. Numbered(b) = S
    <3>1. \A t \in Track : t \in Numbered(b) <=> HasThumb(b, t) /\ b[t].id # 0
      BY <1>3 DEF Numbered
    <3>2. \A t \in Track : t \in Numbered(b) <=> t \in S
      BY <2>1, <2>2, <2>4, <2>5, <3>1
    <3> QED BY <3>2 DEF Numbered
  <2>7. FirstWithId(b) = FirstWithId(art)
    <3>1. \A t \in S : {u \in S : b[u].id = b[t].id} = {u \in S : art[u].id = art[t].id}
      BY <1>3, <2>2 DEF SameId
    <3>2. FirstWithId(b) = [t \in S |-> Min({u \in S : b[u].id = b[t].id})]
      BY <1>3, <2>6 DEF FirstWithId
    <3>3. FirstWithId(art) = [t \in S |-> Min({u \in S : art[u].id = art[t].id})]
      BY <1>3 DEF FirstWithId
    <3> HIDE DEF S
    <3> QED BY <3>1, <3>2, <3>3
  <2>8. Firsts(b) = Firsts(art)
    BY <2>7 DEF Firsts
  <2>9. max \in Nat /\ \A t \in S : b[t].id <= max
    <3>1. max = IF Firsts(art) = {} THEN 0 ELSE MinId + N - 1
      BY <2>8 DEF HighestId
    <3>2. max \in Nat
      BY <2>2, <2>3, <3>1
    <3>3. ASSUME NEW t \in S PROVE b[t].id <= max
      <4>1. Firsts(art) # {}
        BY FirstFacts
      <4>2. b[t].id \in MinId .. MinId + N - 1
        BY <2>2
      <4> HIDE DEF max, N
      <4> QED BY <2>2, <2>3, <3>1, <4>1, <4>2
    <3> QED BY <3>2, <3>3
  <2> HIDE DEF max
  <2> DEFINE New == {t \in Track : HasThumb(b, t) /\ b[t].id = 0}
  <2>10. /\ c \in Covers
         /\ \A t \in Track : c[t].thumb = b[t].thumb
         /\ \A t \in Track : HasThumb(c, t) <=> HasThumb(b, t)
         /\ \A t \in New : c[t].id > max
         /\ \A t, u \in New : c[t].id = c[u].id => SameNewArtwork(t, u)
         /\ \A t \in Track \ New : c[t] = b[t]
    BY <2>1, <2>9, MarkFacts
  <2> HIDE DEF c
  <2>11. \A t \in Track : HasThumb(c, t) <=> t \in S \/ t \in New
    BY <2>1, <2>2, <2>4, <2>5, <2>10
  <2>12. \A t \in S : /\ t \in Track \ New /\ c[t].id = b[t].id /\ c[t].id # 0 /\ c[t].id <= max
                      /\ t \in present /\ art[t].id # 0
    BY <2>4, <2>5, <2>9, <2>10 DEF HasThumb
  <2>13. \A t \in New : /\ t \in Track /\ c[t].id # 0 /\ c[t].id > max
                        /\ t \in present /\ art[t].thumb.kind = "new"
    <3> SUFFICES ASSUME NEW t \in New
                 PROVE  /\ t \in Track /\ c[t].id # 0 /\ c[t].id > max
                        /\ t \in present /\ art[t].thumb.kind = "new"
      OBVIOUS
    <3>1. t \in Track /\ HasThumb(art, t) /\ t \in present /\ art[t].thumb.kind # "none"
      BY <2>1 DEF HasThumb
    <3>2. art[t].id = 0
      BY <2>2, <2>4, <2>5
    <3>3. art[t].thumb.kind # "ipod"
      BY <3>1, <3>2 DEF Numberable, StoredThumbsHaveIds
    <3>4. art[t].thumb.kind = "new"
      BY <1>1, <3>1, <3>3, ThumbnailKinds
    <3>5. c[t].id > max /\ c[t].id # 0
      BY <2>9, <2>10
    <3> QED BY <3>1, <3>4, <3>5
  <2>14. \A t \in Track : c[t].thumb = art[t].thumb
    BY <2>1, <2>10
  <2>15. ASSUME NEW t \in Track, NEW u \in Track, HasThumb(c, t), HasThumb(c, u)
         PROVE  /\ c[t].id = c[u].id => Holds(u, t)
                /\ t \notin astray /\ u \notin astray /\ c[t].thumb.at \cap c[u].thumb.at # {} =>
                     c[t].id = c[u].id
    <3>1. CASE t \in S /\ u \in S
      <4>1. c[t].id = c[u].id <=> art[t].id = art[u].id
        BY <1>3, <2>2, <2>12, <3>1 DEF SameId
      <4>2. /\ art[t].id = art[u].id => Holds(u, t)
            /\ t \notin astray /\ u \notin astray /\ art[t].thumb.at \cap art[u].thumb.at # {} =>
                 art[t].id = art[u].id
        BY <1>3, <2>12, <3>1 DEF Numberable, MemoryInv, Shares, SlotsApart
      <4> QED BY <2>14, <4>1, <4>2
    <3>2. CASE t \in New /\ u \in New
      <4>1. /\ art[t].thumb = NewThumb(art[t].thumb.picture) /\ art[t].thumb.at = {}
            /\ art[u].thumb = NewThumb(art[u].thumb.picture)
        BY <1>1, <2>13, <3>2, ThumbnailKinds
      <4>2. c[t].id = c[u].id => art[t].thumb.picture = art[u].thumb.picture
        BY <2>10, <3>2 DEF SameNewArtwork
      <4>3. c[t].thumb.at = {}
        BY <2>14, <4>1
      <4>4. art[t].thumb.kind = "new" /\ art[u].thumb.kind = "new" /\ Holds(t, t)
        BY <2>13, <3>2 DEF Numberable, MemoryInv, Shares
      <4>5. c[t].id = c[u].id => Holds(u, t)
        BY <4>2, <4>4 DEF Holds
      <4> QED BY <4>3, <4>5
    <3>3. CASE (t \in S /\ u \in New) \/ (t \in New /\ u \in S)
      <4>1. c[t].id # c[u].id
        <5>1. c[t].id \in Nat /\ c[u].id \in Nat
          BY <2>10 DEF Covers
        <5> HIDE DEF S, New
        <5> QED BY <2>9, <2>12, <2>13, <3>3, <5>1
      <4>2. art[t].thumb.at = {} \/ art[u].thumb.at = {}
        BY <1>1, <2>13, <3>3, ThumbnailKinds
      <4> QED BY <2>14, <4>1, <4>2
    <3> QED BY <2>11, <2>15, <3>1, <3>2, <3>3
  <2>16. \A t \in Track : HasThumb(c, t) => t \in Numbered(c)
    BY <2>11, <2>12, <2>13 DEF Numbered
  <2>17. ASSUME NEW t \in present, ~HasThumb(c, t) PROVE c[t].id = 0
    <3>1. t \in Track /\ t \notin S /\ t \notin New
      BY <1>1, <2>11, <2>17
    <3>2. c[t].id = art[t].id
      BY <2>2, <2>10, <3>1
    <3>3. art[t].thumb.kind = "none" /\ NoneRight(t)
      BY <2>1, <2>10, <2>17, <3>1 DEF HasThumb, Numberable, MemoryInv
    <3> QED BY <3>2, <3>3 DEF NoneRight
  <2>18. \A t \in Track \ present : c[t] = art[t]
    <3> SUFFICES ASSUME NEW t \in Track \ present PROVE c[t] = art[t]
      OBVIOUS
    <3>1. t \in Track \ S /\ t \in Track \ New
      BY <2>12, <2>13
    <3> QED BY <2>2, <2>10, <3>1
  <2>19. Identified(SetIds(c))
    BY <1>3, <2>10, <2>14, <2>15, <2>16, <2>17, <2>18, NumberingIdentifies
  <2>20. Prepared(art) = SetIds(c)
    BY <1>3 DEF Prepared, b, c, max
  <2> QED BY <2>19, <2>20
<1> QED BY <1>2, <1>3 DEF Numberable

-----------------------------------------------------------------------------
(* Writing: pictures in use are moved to the front, new ones follow.       *)

(* Covers that were identified are typed.                                  *)
LEMMA IdentifiedTyped ==
  ASSUME art \in [Track -> Artwork], NEW d, Identified(d)
  PROVE  /\ d \in [Track -> Artwork]
         /\ \A t \in Track : HasThumb(d, t) => d[t].id # 0
         /\ Owners(d) \in SUBSET Track /\ Cardinality(Owners(d)) \in Nat
<1>1. d \in Covers /\ d = [t \in Track |-> d[t]]
  BY DEF Identified, Covers
<1>2. Owners(d) \in SUBSET Track
  BY DEF Owners
<1>3. Cardinality(Owners(d)) \in Nat /\ Cardinality(Owners(d)) <= Cardinality(Track)
  BY <1>2, TrackSets
<1>4. MinId \in Nat /\ MinId # 0 /\ Cardinality(Track) \in Nat
  BY ArtworkAssumption, TrackSets
<1>5. \A i \in MinId .. MinId + Cardinality(Owners(d)) - 1 : i \in Id /\ i # 0
  BY <1>3, <1>4 DEF Id
<1>6. \A t \in Track : HasThumb(d, t) => d[t].id \in Id /\ d[t].id # 0 /\ d[t].link = d[t].id
  <2> SUFFICES ASSUME NEW t \in Track, HasThumb(d, t)
               PROVE  d[t].id \in Id /\ d[t].id # 0 /\ d[t].link = d[t].id
    OBVIOUS
  <2>1. d[t].link = d[t].id /\ \E u \in Owners(d) : d[u].id = d[t].id
    BY DEF Identified
  <2>2. d[t].id \in MinId .. MinId + Cardinality(Owners(d)) - 1
    BY <2>1 DEF Identified
  <2> QED BY <1>5, <2>1, <2>2
<1>7. 0 \in Id
  BY DEF Id
<1>8. ASSUME NEW t \in Track PROVE d[t] \in Artwork
  <2>1. d[t] \in [thumb : Thumbnail, id : Nat, own : BOOLEAN, link : Nat]
    BY <1>1 DEF Covers
  <2>2. t \notin present => d[t] = art[t]
    BY DEF Identified
  <2>3. t \in present => d[t].id \in Id /\ d[t].link \in Id
    BY <1>6, <1>7 DEF Identified
  <2> QED BY <2>1, <2>2, <2>3 DEF Artwork
<1> QED BY <1>1, <1>2, <1>3, <1>6, <1>8

(* The tracks whose pictures are in the file, and those whose new pictures *)
(* are written.                                                            *)
Placed(d) == {t \in Owners(d) : d[t].thumb.kind = "ipod"}
Written(d, failed) == NewOwners(d) \ failed

(* Where a write puts a picture that was at s, and a new one: those in use *)
(* are packed, unless one of them is behind the end of the file.           *)
OldSlot(d, s) == IF InFile(d) THEN PackedSlot(UsedSlots(d), s) ELSE s
Base(d) == IF InFile(d) THEN Cardinality(UsedSlots(d)) ELSE Length(file)
NewSlot(d, failed, t) == Base(d) + Rank(t, Written(d, failed))

(* A thumbnail has one slot or none.                                       *)
LEMMA SlotsUsed ==
  ASSUME NEW d \in Covers
  PROVE  /\ UsedSlots(d) \in SUBSET (0 .. MaxPictures - 1)
         /\ UsedSlots(d) \in SUBSET Nat /\ IsFiniteSet(UsedSlots(d))
         /\ \A t \in Track : \/ d[t].thumb.at = {}
                              \/ \E s \in 0 .. MaxPictures - 1 : d[t].thumb.at = {s}
<1>1. ASSUME NEW t \in Track
      PROVE  \/ d[t].thumb.at = {}
             \/ \E s \in 0 .. MaxPictures - 1 : d[t].thumb.at = {s}
  <2>1. d[t].thumb \in Thumbnail
    BY DEF Covers
  <2> QED BY <2>1 DEF Thumbnail, NoThumb, NewThumb, IpodThumb
<1>2. UsedSlots(d) \in SUBSET (0 .. MaxPictures - 1)
  BY <1>1 DEF UsedSlots, Owners
<1>3. 0 \in Int /\ MaxPictures - 1 \in Int
  BY ArtworkAssumption
<1>4. IsFiniteSet(0 .. MaxPictures - 1)
  BY <1>3, FS_Interval
<1>5. 0 .. MaxPictures - 1 \subseteq Nat
  BY <1>3
<1> QED BY <1>1, <1>2, <1>4, <1>5, FS_Subset

(* A file from 0 to n - 1 has n slots.                                     *)
LEMMA LengthOf ==
  ASSUME NEW n \in Nat, NEW f, DOMAIN f = 0 .. n - 1
  PROVE  Length(f) = n
<1>1. 0 \in Int /\ n - 1 \in Int
  OBVIOUS
<1>2. Cardinality(0 .. n - 1) = IF 0 > n - 1 THEN 0 ELSE (n - 1) - 0 + 1
  BY <1>1, FS_Interval
<1> QED BY <1>2 DEF Length

(* Rearranging the file: every picture in use that is there is where       *)
(* OldSlot says.                                                           *)
LEMMA FileRearranged ==
  ASSUME NEW d \in Covers, file \in [0 .. Length(file) - 1 -> Image],
         Length(file) \in Nat
  PROVE  LET used == UsedSlots(d)
             f == RearrangedFile(d)
         IN  /\ Base(d) \in Nat /\ Length(f) = Base(d)
             /\ f \in [0 .. Base(d) - 1 -> Image]
             /\ \A s \in used \cap DOMAIN file :
                  OldSlot(d, s) \in 0 .. Base(d) - 1 /\ f[OldSlot(d, s)] = file[s]
             /\ \A r, s \in used : OldSlot(d, r) = OldSlot(d, s) => r = s
             /\ \A s \in used : OldSlot(d, s) \in 0 .. Base(d) - 1 \/ OldSlot(d, s) = s
             /\ InFile(d) => \A i \in 0 .. Base(d) - 1 : \E s \in used : OldSlot(d, s) = i
<1> DEFINE used == UsedSlots(d)
           f == RearrangedFile(d)
           N == Cardinality(used)
           Source(s) == CHOOSE u \in used : PackedSlot(used, u) = s
<1>1. CASE InFile(d)
  <2>1. used \in SUBSET DOMAIN file /\ used \in SUBSET Nat /\ IsFiniteSet(used)
    BY <1>1, SlotsUsed DEF InFile
  <2>2. f = [s \in 0 .. N - 1 |-> file[Source(s)]]
    BY <1>1 DEF RearrangedFile
  <2>3. Base(d) = N /\ \A s : OldSlot(d, s) = PackedSlot(used, s)
    BY <1>1 DEF Base, OldSlot
  <2> HIDE DEF used
  <2>4. /\ N \in Nat
        /\ \A s \in used : PackedSlot(used, s) \in 0 .. N - 1
        /\ \A s, t \in used : PackedSlot(used, s) = PackedSlot(used, t) => s = t
        /\ \A i \in 0 .. N - 1 : \E s \in used : PackedSlot(used, s) = i
    BY <2>1, PackedSlots
  <2> HIDE DEF N, f
  <2>5. \A i \in 0 .. N - 1 : Source(i) \in used /\ PackedSlot(used, Source(i)) = i
    BY <2>4
  <2>6. \A s \in used : Source(PackedSlot(used, s)) = s
    BY <2>4, <2>5
  <2> HIDE DEF Source
  <2>7. f \in [0 .. N - 1 -> Image]
    BY <2>1, <2>2, <2>5
  <2>8. \A s \in used : f[PackedSlot(used, s)] = file[s]
    BY <2>2, <2>4, <2>6
  <2>9. Length(f) = N
    BY <2>4, <2>7, LengthOf
  <2> QED BY <2>3, <2>4, <2>7, <2>8, <2>9 DEF used, f
<1>2. CASE ~InFile(d)
  <2>1. f = file /\ Base(d) = Length(file) /\ \A s : OldSlot(d, s) = s
    BY <1>2 DEF RearrangedFile, Base, OldSlot
  <2>2. DOMAIN file = 0 .. Length(file) - 1
    OBVIOUS
  <2> HIDE DEF f
  <2> QED BY <1>2, <2>1, <2>2 DEF f
<1> QED BY <1>1, <1>2

(* The file g has the n pictures of f and the pictures of b after them, in  *)
(* the order of the tracks.                                                *)
Grown(g, f, n, total, b, written) ==
  /\ Cardinality(written) \in Nat /\ Length(g) = total
  /\ g \in [0 .. total - 1 -> Image]
  /\ \A s \in 0 .. n - 1 : g[s] = f[s]
  /\ \A t \in written : n + Rank(t, written) \in n .. total - 1
  /\ \A t \in written : g[n + Rank(t, written)] = b[t].thumb.picture
  /\ \A i \in n .. total - 1 : \E t \in written : n + Rank(t, written) = i

LEMMA FileAppended ==
  ASSUME NEW b, NEW f, NEW n \in Nat, NEW failed,
         f \in [0 .. n - 1 -> Image], NewOwners(b) \in SUBSET Track,
         \A t \in NewOwners(b) : b[t].thumb.picture \in Image,
         NEW written, written = NewOwners(b) \ failed,
         NEW g, g = AppendedFile(b, f, failed)
  PROVE  /\ Grown(g, f, n, n + Cardinality(written), b, written)
         /\ Cardinality(written) <= Cardinality(NewOwners(b))
<1> DEFINE M == Cardinality(written)
           total == n + M
           Source(s) == CHOOSE t \in written : n + Rank(t, written) = s
<1>1. written \in SUBSET Track /\ written \in SUBSET NewOwners(b)
  OBVIOUS
<1>2. written \in SUBSET Nat /\ IsFiniteSet(written) /\ M \in Nat
  BY <1>1, TrackSets
<1>3. M <= Cardinality(NewOwners(b))
  BY <1>1, TrackSets, FS_Subset
<1>4. Length(f) = n /\ DOMAIN f = 0 .. n - 1
  BY LengthOf
<1>5. g = [s \in 0 .. total - 1 |-> IF s \in DOMAIN f THEN f[s] ELSE b[Source(s)].thumb.picture]
  BY <1>4 DEF AppendedFile
<1>6. ASSUME NEW t \in written
      PROVE  n + Rank(t, written) \in n .. total - 1 /\ Rank(t, written) \in Nat
  <2>1. Rank(t, written) \in 0 .. M - 1
    BY <1>2, RanksGrow
  <2> HIDE DEF M
  <2> QED BY <1>2, <2>1
<1>7. ASSUME NEW i \in n .. total - 1 PROVE \E t \in written : n + Rank(t, written) = i
  <2>1. i - n \in 0 .. M - 1
    <3> HIDE DEF M
    <3> QED BY <1>2
  <2>2. PICK t \in written : Rank(t, written) = i - n
    BY <1>2, <2>1, RanksTaken
  <2>3. n + Rank(t, written) = i
    BY <2>2
  <2> QED BY <2>3
<1>8. \A i \in n .. total - 1 : Source(i) \in written /\ n + Rank(Source(i), written) = i
  BY <1>7
<1>9. ASSUME NEW t \in written PROVE Source(n + Rank(t, written)) = t
  <2> DEFINE u == Source(n + Rank(t, written))
  <2>1. u \in written /\ n + Rank(u, written) = n + Rank(t, written)
    BY <1>6, <1>8
  <2>2. Rank(u, written) \in Nat /\ Rank(t, written) \in Nat
    BY <1>6, <2>1
  <2> HIDE DEF u
  <2>3. Rank(u, written) = Rank(t, written)
    BY <2>1, <2>2
  <2>4. u = t
    BY <1>2, <2>1, <2>3, RanksApart
  <2> QED BY <2>4 DEF u
<1> HIDE DEF Source, M
<1>10. \A s \in 0 .. total - 1 : s \notin DOMAIN f => s \in n .. total - 1
  BY <1>2, <1>4
<1>11. \A t \in written : b[t].thumb.picture \in Image
  BY <1>1
<1>12. g \in [0 .. total - 1 -> Image]
  BY <1>4, <1>5, <1>8, <1>10, <1>11
<1>13. \A s \in 0 .. n - 1 : s \in 0 .. total - 1 /\ g[s] = f[s]
  BY <1>2, <1>4, <1>5
<1>14. ASSUME NEW t \in written PROVE g[n + Rank(t, written)] = b[t].thumb.picture
  <2> DEFINE s == n + Rank(t, written)
  <2>1. s \in 0 .. total - 1 /\ s \notin DOMAIN f
    <3>1. s \in n .. total - 1
      BY <1>6
    <3> HIDE DEF s
    <3> QED BY <1>2, <1>4, <3>1
  <2> QED BY <1>5, <1>9, <2>1
<1>15. Length(g) = total
  <2>1. total \in Nat /\ DOMAIN g = 0 .. total - 1
    BY <1>2, <1>12
  <2> QED BY <2>1, LengthOf
<1>16. /\ \A t \in written : n + Rank(t, written) \in n .. total - 1
       /\ \A i \in n .. total - 1 : \E t \in written : n + Rank(t, written) = i
  BY <1>6, <1>7
<1>17. /\ Cardinality(written) \in Nat /\ Cardinality(written) <= Cardinality(NewOwners(b))
       /\ total = n + Cardinality(written)
  BY <1>2, <1>3 DEF M
<1> HIDE DEF total
<1>18. Grown(g, f, n, total, b, written)
  BY <1>12, <1>13, <1>14, <1>15, <1>16, <1>17 DEF Grown
<1> QED BY <1>17, <1>18

(* Rearranging moves the thumbnails of owners and changes nothing else.    *)
LEMMA CoversRearranged ==
  ASSUME NEW d \in Covers
  PROVE  LET b == Rearranged(d)
         IN  /\ \A t \in Track \ Owners(d) : b[t] = d[t]
             /\ \A t \in Owners(d) :
                  /\ b[t].id = d[t].id /\ b[t].own = d[t].own /\ b[t].link = d[t].link
                  /\ b[t].thumb.kind = d[t].thumb.kind
                  /\ b[t].thumb.picture = d[t].thumb.picture
                  /\ b[t].thumb.at = {OldSlot(d, s) : s \in d[t].thumb.at}
                  /\ b[t] = [thumb |-> b[t].thumb, id |-> d[t].id, own |-> d[t].own,
                             link |-> d[t].link]
                  /\ b[t].thumb = [kind |-> d[t].thumb.kind, picture |-> d[t].thumb.picture,
                                   at |-> b[t].thumb.at]
             /\ Owners(b) = Owners(d) /\ NewOwners(b) = NewOwners(d)
<1> DEFINE b == Rearranged(d)
           Packed(S) == {OldSlot(d, s) : s \in S}
<1>1. b = [t \in Track |-> IF t \in Owners(d) /\ InFile(d)
                             THEN [d[t] EXCEPT !.thumb = [d[t].thumb EXCEPT !.at =
                                                            Packed(d[t].thumb.at)]]
                           ELSE d[t]]
  <2>1. InFile(d) => \A S : Packed(S) = {PackedSlot(UsedSlots(d), s) : s \in S}
    BY DEF OldSlot
  <2> HIDE DEF Packed
  <2> QED BY <2>1 DEF Rearranged
<1>2. ~InFile(d) => \A S : Packed(S) = S
  BY DEF OldSlot
<1> HIDE DEF Packed, b
<1>3. ASSUME NEW t \in Owners(d)
      PROVE  /\ b[t] = [thumb |-> b[t].thumb, id |-> d[t].id, own |-> d[t].own,
                        link |-> d[t].link]
             /\ b[t].thumb = [kind |-> d[t].thumb.kind, picture |-> d[t].thumb.picture,
                              at |-> Packed(d[t].thumb.at)]
  <2>1. t \in Track
    BY DEF Owners
  <2>2. /\ d[t] = [thumb |-> d[t].thumb, id |-> d[t].id, own |-> d[t].own, link |-> d[t].link]
        /\ d[t].thumb \in Thumbnail
    BY <2>1 DEF Covers
  <2>3. d[t].thumb = [kind |-> d[t].thumb.kind, picture |-> d[t].thumb.picture,
                      at |-> d[t].thumb.at]
    BY <2>2 DEF Thumbnail, NoThumb, NewThumb, IpodThumb
  <2>4. CASE InFile(d)
    <3>1. b[t] = [d[t] EXCEPT !.thumb = [d[t].thumb EXCEPT !.at = Packed(d[t].thumb.at)]]
      BY <1>1, <2>1, <2>4
    <3> DEFINE h == d[t].thumb
    <3>2. [h EXCEPT !.at = Packed(h.at)]
            = [kind |-> h.kind, picture |-> h.picture, at |-> Packed(h.at)]
      <4> HIDE DEF h
      <4> QED BY <2>3 DEF h
    <3> QED BY <2>2, <3>1, <3>2
  <2>5. CASE ~InFile(d)
    <3>1. b[t] = d[t] /\ Packed(d[t].thumb.at) = d[t].thumb.at
      BY <1>2, <1>1, <2>1, <2>5
    <3> QED BY <2>2, <2>3, <3>1
  <2> QED BY <2>4, <2>5
<1>4. \A t \in Track \ Owners(d) : b[t] = d[t]
  BY <1>1
<1>5. \A t \in Owners(d) :
        /\ b[t].id = d[t].id /\ b[t].own = d[t].own /\ b[t].link = d[t].link
        /\ b[t].thumb.kind = d[t].thumb.kind /\ b[t].thumb.picture = d[t].thumb.picture
        /\ b[t].thumb.at = Packed(d[t].thumb.at)
        /\ b[t].thumb = [kind |-> d[t].thumb.kind, picture |-> d[t].thumb.picture,
                         at |-> b[t].thumb.at]
  <2> SUFFICES ASSUME NEW t \in Owners(d)
               PROVE  /\ b[t].id = d[t].id /\ b[t].own = d[t].own /\ b[t].link = d[t].link
                      /\ b[t].thumb.kind = d[t].thumb.kind
                      /\ b[t].thumb.picture = d[t].thumb.picture
                      /\ b[t].thumb.at = Packed(d[t].thumb.at)
                      /\ b[t].thumb = [kind |-> d[t].thumb.kind,
                                       picture |-> d[t].thumb.picture, at |-> b[t].thumb.at]
    OBVIOUS
  <2> DEFINE w == b[t].thumb
             at == Packed(d[t].thumb.at)
  <2>1. w = [kind |-> d[t].thumb.kind, picture |-> d[t].thumb.picture, at |-> at]
    BY <1>3
  <2>2. b[t] = [thumb |-> w, id |-> d[t].id, own |-> d[t].own, link |-> d[t].link]
    BY <1>3
  <2> HIDE DEF w, at
  <2>3. w.kind = d[t].thumb.kind /\ w.picture = d[t].thumb.picture /\ w.at = at
    BY <2>1
  <2>4. b[t].id = d[t].id /\ b[t].own = d[t].own /\ b[t].link = d[t].link
    BY <2>2
  <2> QED BY <2>1, <2>3, <2>4 DEF w, at
<1>6. \A t \in Track : t \in Owners(b) <=> t \in Owners(d)
  BY <1>4, <1>5 DEF Owners, HasThumb
<1>7. Owners(b) = Owners(d)
  BY <1>6 DEF Owners
<1>8. NewOwners(b) = NewOwners(d)
  BY <1>5, <1>7 DEF NewOwners
<1> QED BY <1>3, <1>4, <1>5, <1>7, <1>8 DEF b, Packed

(* Appending replaces new covers by thumbnails in the file, or by none.    *)
LEMMA CoversAppended ==
  ASSUME NEW d \in Covers, NEW f, NEW failed, failed \in SUBSET NewOwners(d),
         NEW a, a = Appended(Rearranged(d), f, failed)
  PROVE  LET written == Written(d, failed)
         IN  /\ \A t \in Track \ Owners(d) : a[t] = d[t]
             /\ \A t \in Owners(d) :
                  a[t] = [thumb |-> IpodThumb(a[t].thumb.at), id |-> d[t].id,
                          own |-> d[t].own, link |-> d[t].link]
             /\ \A t \in Placed(d) :
                  a[t].thumb.at = {OldSlot(d, s) : s \in d[t].thumb.at}
             /\ \A t \in written : a[t].thumb.at = {Length(f) + Rank(t, written)}
             /\ \A t \in failed : a[t].thumb.at = {}
             /\ Owners(d) = Placed(d) \cup written \cup failed
             /\ Owners(a) = Owners(d)
             /\ a = [t \in Track |-> a[t]]
<1> DEFINE b == Rearranged(d)
           written == Written(d, failed)
<1>1. /\ \A t \in Track \ Owners(d) : b[t] = d[t]
      /\ \A t \in Owners(d) :
           /\ b[t].id = d[t].id /\ b[t].own = d[t].own /\ b[t].link = d[t].link
           /\ b[t].thumb.kind = d[t].thumb.kind
           /\ b[t].thumb.at = {OldSlot(d, s) : s \in d[t].thumb.at}
           /\ b[t] = [thumb |-> b[t].thumb, id |-> d[t].id, own |-> d[t].own,
                      link |-> d[t].link]
           /\ b[t].thumb = [kind |-> d[t].thumb.kind, picture |-> d[t].thumb.picture,
                            at |-> b[t].thumb.at]
      /\ NewOwners(b) = NewOwners(d)
  BY CoversRearranged
<1> HIDE DEF b
<1>2. a = [t \in Track |->
             IF t \in written
               THEN [b[t] EXCEPT !.thumb = IpodThumb({Length(f) + Rank(t, written)})]
             ELSE IF t \in NewOwners(d) THEN [b[t] EXCEPT !.thumb = IpodThumb({})]
             ELSE b[t]]
  BY <1>1 DEF Appended, Written, b
<1>3. /\ Owners(d) \in SUBSET Track /\ NewOwners(d) \in SUBSET Owners(d)
      /\ written = NewOwners(d) \ failed
  BY DEF Owners, NewOwners, Written
<1> HIDE DEF written
<1>4. \A t \in Owners(d) : /\ d[t].thumb.kind \in {"new", "ipod"}
                           /\ d[t].thumb.kind = "ipod" => d[t].thumb.picture = NoImage
  <2> SUFFICES ASSUME NEW t \in Owners(d)
               PROVE  /\ d[t].thumb.kind \in {"new", "ipod"}
                      /\ d[t].thumb.kind = "ipod" => d[t].thumb.picture = NoImage
    OBVIOUS
  <2>1. t \in Track /\ d[t].thumb.kind # "none"
    BY <1>3 DEF Owners, HasThumb
  <2>2. d[t].thumb \in Thumbnail
    BY <2>1 DEF Covers
  <2> QED BY <2>1, <2>2 DEF Thumbnail, NoThumb, NewThumb, IpodThumb
<1>5. Owners(d) = Placed(d) \cup NewOwners(d) /\ Placed(d) \cap NewOwners(d) = {}
  BY <1>4 DEF Placed, NewOwners
<1>6. Owners(d) = Placed(d) \cup written \cup failed
  BY <1>3, <1>5
<1>7. \A t \in Track \ Owners(d) : a[t] = d[t]
  BY <1>1, <1>2, <1>3
<1>8. ASSUME NEW t \in written
      PROVE  a[t] = [thumb |-> IpodThumb({Length(f) + Rank(t, written)}), id |-> d[t].id,
                     own |-> d[t].own, link |-> d[t].link]
  <2>1. t \in Track /\ t \in Owners(d)
    BY <1>3
  <2>2. a[t] = [b[t] EXCEPT !.thumb = IpodThumb({Length(f) + Rank(t, written)})]
    BY <1>2, <2>1
  <2>3. b[t] = [thumb |-> b[t].thumb, id |-> d[t].id, own |-> d[t].own, link |-> d[t].link]
    BY <1>1, <2>1
  <2> QED BY <2>2, <2>3
<1>9. ASSUME NEW t \in failed
      PROVE  a[t] = [thumb |-> IpodThumb({}), id |-> d[t].id, own |-> d[t].own,
                     link |-> d[t].link]
  <2>1. t \in Track /\ t \in Owners(d) /\ t \in NewOwners(d) /\ t \notin written
    BY <1>3
  <2>2. a[t] = [b[t] EXCEPT !.thumb = IpodThumb({})]
    BY <1>2, <2>1
  <2>3. b[t] = [thumb |-> b[t].thumb, id |-> d[t].id, own |-> d[t].own, link |-> d[t].link]
    BY <1>1, <2>1
  <2> QED BY <2>2, <2>3
<1>10. ASSUME NEW t \in Placed(d)
       PROVE  a[t] = [thumb |-> IpodThumb({OldSlot(d, s) : s \in d[t].thumb.at}),
                      id |-> d[t].id, own |-> d[t].own, link |-> d[t].link]
  <2>1. t \in Track /\ t \in Owners(d) /\ t \notin NewOwners(d) /\ t \notin written
    BY <1>3, <1>5
  <2>2. a[t] = b[t] /\ d[t].thumb.kind = "ipod"
    BY <1>2, <2>1 DEF Placed
  <2>3. b[t].thumb = IpodThumb(b[t].thumb.at)
    BY <1>1, <1>4, <2>1, <2>2 DEF IpodThumb
  <2>4. b[t].thumb.at = {OldSlot(d, s) : s \in d[t].thumb.at}
    BY <1>1, <2>1
  <2>5. b[t] = [thumb |-> b[t].thumb, id |-> d[t].id, own |-> d[t].own, link |-> d[t].link]
    BY <1>1, <2>1
  <2> QED BY <2>2, <2>3, <2>4, <2>5
<1>11. \A at : IpodThumb(at).at = at /\ IpodThumb(at).kind = "ipod"
  BY DEF IpodThumb
<1>12. ASSUME NEW t \in Owners(d)
       PROVE  /\ a[t] = [thumb |-> IpodThumb(a[t].thumb.at), id |-> d[t].id,
                         own |-> d[t].own, link |-> d[t].link]
              /\ t \in Placed(d) =>
                   a[t].thumb.at = {OldSlot(d, s) : s \in d[t].thumb.at}
              /\ t \in written => a[t].thumb.at = {Length(f) + Rank(t, written)}
              /\ t \in failed => a[t].thumb.at = {}
  <2>1. ASSUME NEW at, a[t] = [thumb |-> IpodThumb(at), id |-> d[t].id, own |-> d[t].own,
                               link |-> d[t].link]
        PROVE  a[t].thumb = IpodThumb(at) /\ a[t].thumb.at = at
    BY <1>11, <2>1
  <2>2. t \in Placed(d) =>
          /\ a[t].thumb.at = {OldSlot(d, s) : s \in d[t].thumb.at}
          /\ a[t] = [thumb |-> IpodThumb(a[t].thumb.at), id |-> d[t].id, own |-> d[t].own,
                     link |-> d[t].link]
    BY <1>10, <2>1
  <2>3. t \in written =>
          /\ a[t].thumb.at = {Length(f) + Rank(t, written)}
          /\ a[t] = [thumb |-> IpodThumb(a[t].thumb.at), id |-> d[t].id, own |-> d[t].own,
                     link |-> d[t].link]
    BY <1>8, <2>1
  <2>4. t \in failed =>
          /\ a[t].thumb.at = {}
          /\ a[t] = [thumb |-> IpodThumb(a[t].thumb.at), id |-> d[t].id, own |-> d[t].own,
                     link |-> d[t].link]
    BY <1>9, <2>1
  <2> QED BY <1>6, <2>2, <2>3, <2>4
<1>13. Owners(a) = Owners(d)
  <2>1. \A t \in Owners(d) : a[t].thumb.kind = "ipod" /\ a[t].own = d[t].own
    <3> SUFFICES ASSUME NEW t \in Owners(d)
                 PROVE  a[t].thumb.kind = "ipod" /\ a[t].own = d[t].own
      OBVIOUS
    <3> DEFINE w == IpodThumb(a[t].thumb.at)
    <3>1. a[t] = [thumb |-> w, id |-> d[t].id, own |-> d[t].own, link |-> d[t].link]
          /\ w.kind = "ipod"
      BY <1>11, <1>12
    <3> HIDE DEF w
    <3> QED BY <3>1
  <2>2. \A t \in Track : t \in Owners(a) <=> t \in Owners(d)
    BY <1>7, <2>1 DEF Owners, HasThumb
  <2> QED BY <1>3, <2>2 DEF Owners
<1>14. a = [t \in Track |-> a[t]]
  BY <1>2
<1>15. failed \in SUBSET Owners(d) /\ written \in SUBSET Owners(d) /\ Placed(d) \in SUBSET Owners(d)
  BY <1>3, <1>5
<1> QED BY <1>6, <1>7, <1>12, <1>13, <1>14, <1>15 DEF written

(* What a write leaves, for the covers d that were identified and those of *)
(* failed, which could not be written.                                     *)
WroteCovers(d, failed) ==
  /\ Identified(d) /\ failed \in SUBSET NewOwners(d)
  /\ art' = [t \in Track |-> art'[t]]
  /\ \A t \in Track \ Owners(d) : art'[t] = d[t]
  /\ \A t \in Owners(d) :
       /\ art'[t].thumb = IpodThumb(art'[t].thumb.at)
       /\ art'[t].id = d[t].id /\ art'[t].own = d[t].own /\ art'[t].link = d[t].link
       /\ art'[t] = [thumb |-> art'[t].thumb, id |-> d[t].id, own |-> d[t].own,
                     link |-> d[t].link]
  /\ Owners(art') = Owners(d)
  /\ Owners(d) = Placed(d) \cup Written(d, failed) \cup failed

WroteSlots(d, failed) ==
  /\ Base(d) + Cardinality(Written(d, failed)) <= MaxPictures
  /\ \A t \in Placed(d) : art'[t].thumb.at = {OldSlot(d, s) : s \in d[t].thumb.at}
  /\ \A t \in Written(d, failed) : art'[t].thumb.at = {NewSlot(d, failed, t)}
  /\ \A t \in failed : art'[t].thumb.at = {}

WroteFile(d, failed) ==
  LET written == Written(d, failed)
      n == Base(d)
      total == n + Cardinality(written)
  IN  /\ n \in Nat /\ Cardinality(written) \in Nat
      /\ Length(file') = total /\ file' \in [0 .. total - 1 -> Image]
      /\ \A s \in UsedSlots(d) \cap DOMAIN file :
           OldSlot(d, s) \in 0 .. n - 1 /\ file'[OldSlot(d, s)] = file[s]
      /\ \A t \in written : NewSlot(d, failed, t) \in n .. total - 1
      /\ \A t \in written : file'[NewSlot(d, failed, t)] = d[t].thumb.picture
      /\ \A i \in n .. total - 1 : \E t \in written : NewSlot(d, failed, t) = i

WroteRest(d, failed) ==
  /\ lost' = lost \cup {t \in present :
                          \E u \in failed : HasThumb(d, t) /\ d[t].id = d[u].id}
  /\ entries' = {[id |-> art'[t].id, dbid |-> dbid[t], at |-> art'[t].thumb.at]
                   : t \in Owners(d)}
  /\ stored' = [t \in present |-> [dbid |-> dbid[t], link |-> art'[t].link,
                                   cover |-> cover[t], lost |-> t \in lost']]
  /\ astray' = Astray(art') /\ astrayIds' = AstrayIds(art')
  /\ UNCHANGED <<sparse, present, dbid, edits, cover>>

Wrote(d, failed) ==
  WroteCovers(d, failed) /\ WroteSlots(d, failed) /\ WroteFile(d, failed)
    /\ WroteRest(d, failed)

(* The covers in memory can be numbered.                                   *)
LEMMA MemoryNumberable ==
  ASSUME CoversInv
  PROVE  /\ Numberable
         /\ file \in [0 .. Length(file) - 1 -> Image] /\ Length(file) \in Nat
<1>1. file \in [0 .. Length(file) - 1 -> Image] /\ Length(file) \in Nat
  BY DEF CoversInv, ADTypeOK
<1>2. Numberable
  BY DEF CoversInv, ADTypeOK, Numberable
<1> QED BY <1>1, <1>2

(* A write does that.                                                      *)
LEMMA WriteWrites ==
  ASSUME CoversInv, Write
  PROVE  \E failed : Wrote(Prepared(art), failed)
<1> DEFINE d == Prepared(art)
           n == Base(d)
           f == RearrangedFile(d)
           b == Rearranged(d)
<1>1. /\ Numberable /\ Identified(d)
      /\ file \in [0 .. Length(file) - 1 -> Image] /\ Length(file) \in Nat
  BY MemoryNumberable, PreparedIdentifies
<1>2. PICK failed \in {{}} \cup {{t} : t \in {u \in NewOwners(d) : MayFail}} :
        /\ Length(f) + Cardinality(NewOwners(d)) <= MaxPictures
        /\ art' = Appended(b, f, failed)
        /\ file' = AppendedFile(b, f, failed)
        /\ lost' = lost \cup {t \in present :
                                \E u \in failed : HasThumb(d, t) /\ d[t].id = d[u].id}
  BY DEF Write
<1>3. /\ entries' = {[id |-> art'[t].id, dbid |-> dbid[t], at |-> art'[t].thumb.at]
                        : t \in Owners(art')}
      /\ stored' = [t \in present |-> [dbid |-> dbid[t], link |-> art'[t].link,
                                        cover |-> cover[t], lost |-> t \in lost']]
      /\ astray' = Astray(art') /\ astrayIds' = AstrayIds(art')
      /\ UNCHANGED <<sparse, present, dbid, edits, cover>>
  BY DEF Write
<1>4. failed \in SUBSET NewOwners(d) /\ d \in Covers
  BY <1>1, <1>2 DEF Identified
<1> DEFINE written == Written(d, failed)
           used == UsedSlots(d)
<1>5. /\ n \in Nat /\ Length(f) = n /\ f \in [0 .. n - 1 -> Image]
      /\ \A s \in used \cap DOMAIN file :
           OldSlot(d, s) \in 0 .. n - 1 /\ f[OldSlot(d, s)] = file[s]
  BY <1>1, <1>4, FileRearranged
<1> HIDE DEF d, f, b, n, used
<1>6. /\ \A t \in Track \ Owners(d) : art'[t] = d[t]
      /\ \A t \in Owners(d) :
           art'[t] = [thumb |-> IpodThumb(art'[t].thumb.at), id |-> d[t].id,
                      own |-> d[t].own, link |-> d[t].link]
      /\ \A t \in Placed(d) :
           art'[t].thumb.at = {OldSlot(d, s) : s \in d[t].thumb.at}
      /\ \A t \in written : art'[t].thumb.at = {Length(f) + Rank(t, written)}
      /\ \A t \in failed : art'[t].thumb.at = {}
      /\ Owners(d) = Placed(d) \cup written \cup failed
      /\ Owners(art') = Owners(d)
      /\ art' = [t \in Track |-> art'[t]]
  BY <1>2, <1>4, CoversAppended DEF b
<1>7. \A t \in Owners(d) :
        /\ art'[t].thumb = IpodThumb(art'[t].thumb.at)
        /\ art'[t].id = d[t].id /\ art'[t].own = d[t].own /\ art'[t].link = d[t].link
        /\ art'[t] = [thumb |-> art'[t].thumb, id |-> d[t].id, own |-> d[t].own,
                      link |-> d[t].link]
  <2> SUFFICES ASSUME NEW t \in Owners(d)
               PROVE  /\ art'[t].thumb = IpodThumb(art'[t].thumb.at)
                      /\ art'[t].id = d[t].id /\ art'[t].own = d[t].own
                      /\ art'[t].link = d[t].link
                      /\ art'[t] = [thumb |-> art'[t].thumb, id |-> d[t].id,
                                    own |-> d[t].own, link |-> d[t].link]
    OBVIOUS
  <2> DEFINE w == IpodThumb(art'[t].thumb.at)
  <2>1. art'[t] = [thumb |-> w, id |-> d[t].id, own |-> d[t].own, link |-> d[t].link]
    BY <1>6
  <2> HIDE DEF w
  <2>2. art'[t].thumb = w
    BY <2>1
  <2> QED BY <2>1, <2>2 DEF w
<1>8. WroteCovers(d, failed)
  BY <1>1, <1>4, <1>6, <1>7 DEF WroteCovers
<1>9. /\ NewOwners(b) = NewOwners(d) /\ NewOwners(d) \in SUBSET Track
       /\ \A t \in NewOwners(d) : /\ b[t].thumb.picture = d[t].thumb.picture
                                   /\ b[t].thumb.picture \in Image
  <2>1. NewOwners(d) \in SUBSET Owners(d) /\ Owners(d) \in SUBSET Track
    BY DEF NewOwners, Owners
  <2>2. /\ NewOwners(b) = NewOwners(d)
        /\ \A t \in Owners(d) : b[t].thumb.picture = d[t].thumb.picture
    BY <1>4, CoversRearranged DEF b
  <2>3. \A t \in NewOwners(d) : d[t].thumb.kind = "new" /\ t \in Track
    BY <2>1 DEF NewOwners
  <2>4. \A t \in NewOwners(d) : d[t].thumb.picture \in Image
    BY <1>4, <2>3, ThumbnailKinds
  <2> QED BY <2>1, <2>2, <2>4
<1>10. written = NewOwners(b) \ failed
  BY <1>9 DEF Written
<1>11. \A t : NewSlot(d, failed, t) = n + Rank(t, written)
  BY DEF NewSlot, n
<1> HIDE DEF written
<1> DEFINE total == n + Cardinality(written)
<1>12. /\ Cardinality(written) \in Nat /\ Length(file') = total
       /\ Cardinality(written) <= Cardinality(NewOwners(d))
       /\ file' \in [0 .. total - 1 -> Image]
       /\ \A s \in 0 .. n - 1 : file'[s] = f[s]
       /\ \A t \in written : n + Rank(t, written) \in n .. total - 1
       /\ \A t \in written : file'[n + Rank(t, written)] = b[t].thumb.picture
       /\ \A i \in n .. total - 1 : \E t \in written : n + Rank(t, written) = i
  <2>1. /\ n \in Nat /\ f \in [0 .. n - 1 -> Image] /\ NewOwners(b) \in SUBSET Track
        /\ \A t \in NewOwners(b) : b[t].thumb.picture \in Image
    BY <1>5, <1>9
  <2>2. written = NewOwners(b) \ failed /\ file' = AppendedFile(b, f, failed)
    BY <1>2, <1>10
  <2>3. NewOwners(b) = NewOwners(d)
    BY <1>9
  <2> HIDE DEF total
  <2>4. PICK g : g = file'
    OBVIOUS
  <2>5. g = AppendedFile(b, f, failed)
    BY <2>2, <2>4
  <2>6. Grown(g, f, n, total, b, written) /\ Cardinality(written) <= Cardinality(NewOwners(b))
    BY <2>1, <2>2, <2>5, FileAppended DEF total
  <2>7. /\ Cardinality(written) \in Nat /\ Length(g) = total
        /\ g \in [0 .. total - 1 -> Image]
        /\ \A s \in 0 .. n - 1 : g[s] = f[s]
        /\ \A t \in written : g[n + Rank(t, written)] = b[t].thumb.picture
        /\ \A t \in written : n + Rank(t, written) \in n .. total - 1
        /\ \A i \in n .. total - 1 : \E t \in written : n + Rank(t, written) = i
    <3> DEFINE at(t) == n + Rank(t, written)
    <3>1. Grown(g, f, n, total, b, written)
      BY <2>6
    <3>2. \A t \in written : g[at(t)] = b[t].thumb.picture
      BY <3>1 DEF Grown
    <3>3. /\ Cardinality(written) \in Nat /\ Length(g) = total
          /\ g \in [0 .. total - 1 -> Image]
          /\ \A s \in 0 .. n - 1 : g[s] = f[s]
      BY <3>1 DEF Grown
    <3>4. /\ \A t \in written : n + Rank(t, written) \in n .. total - 1
          /\ \A i \in n .. total - 1 : \E t \in written : n + Rank(t, written) = i
      BY <3>1 DEF Grown
    <3> QED BY <3>2, <3>3, <3>4
  <2> QED BY <2>3, <2>4, <2>6, <2>7
<1>13. Cardinality(NewOwners(d)) \in Nat
  BY <1>9, TrackSets
<1>14. WroteSlots(d, failed)
  <2>1. n + Cardinality(written) <= MaxPictures
    <3>1. n + Cardinality(NewOwners(d)) <= MaxPictures /\ MaxPictures \in Nat
      BY <1>2, <1>5, ArtworkAssumption
    <3> QED BY <1>5, <1>12, <1>13, <3>1
  <2>2. \A t \in written : art'[t].thumb.at = {NewSlot(d, failed, t)}
    BY <1>5, <1>6, <1>11
  <2> QED BY <1>6, <2>1, <2>2 DEF WroteSlots, n, written
<1>15. WroteFile(d, failed)
  <2>1. \A s \in used \cap DOMAIN file :
          OldSlot(d, s) \in 0 .. n - 1 /\ file'[OldSlot(d, s)] = file[s]
    BY <1>5, <1>12
  <2>2. \A t \in written : t \in NewOwners(d)
    BY DEF Written, written
  <2>3. \A t \in written : file'[NewSlot(d, failed, t)] = d[t].thumb.picture
    BY <1>9, <1>12, <1>11, <2>2
  <2>4. /\ Length(file') = total /\ file' \in [0 .. total - 1 -> Image]
        /\ Cardinality(written) \in Nat /\ n \in Nat
    BY <1>5, <1>12
  <2>5. /\ \A t \in written : NewSlot(d, failed, t) \in n .. total - 1
        /\ \A i \in n .. total - 1 : \E t \in written : NewSlot(d, failed, t) = i
    BY <1>12, <1>11
  <2> QED BY <2>1, <2>3, <2>4, <2>5 DEF WroteFile, used, n, written
<1>16. WroteRest(d, failed)
  BY <1>2, <1>3, <1>6 DEF WroteRest
<1> QED BY <1>8, <1>14, <1>15, <1>16 DEF Wrote, d

Writing(d, failed) ==
  /\ Numberable /\ Wrote(d, failed)
  /\ file \in [0 .. Length(file) - 1 -> Image] /\ Length(file) \in Nat

(* The pictures in use, old and new, are in the file, each in a slot of    *)
(* its own, and nothing else is when the old ones were packed.             *)
LEMMA WritePlaces ==
  ASSUME NEW d, NEW failed, Writing(d, failed)
  PROVE  /\ \A s \in UsedSlots(d) \cap DOMAIN file :
              /\ OldSlot(d, s) \in DOMAIN file' /\ file'[OldSlot(d, s)] = file[s]
              /\ \A t \in Written(d, failed) : OldSlot(d, s) # NewSlot(d, failed, t)
         /\ \A t \in Written(d, failed) :
              /\ NewSlot(d, failed, t) \in DOMAIN file'
              /\ file'[NewSlot(d, failed, t)] = d[t].thumb.picture
         /\ \A r, s \in UsedSlots(d) : OldSlot(d, r) = OldSlot(d, s) => r = s
         /\ \A t, u \in Written(d, failed) :
              NewSlot(d, failed, t) = NewSlot(d, failed, u) => t = u
         /\ \A s \in UsedSlots(d) : OldSlot(d, s) \in DOMAIN file' \/ OldSlot(d, s) = s
         /\ InFile(d) => \A i \in DOMAIN file' :
              \/ \E s \in UsedSlots(d) : OldSlot(d, s) = i
              \/ \E t \in Written(d, failed) : NewSlot(d, failed, t) = i
<1> DEFINE used == UsedSlots(d)
           written == Written(d, failed)
           n == Base(d)
           total == n + Cardinality(written)
<1>1. Identified(d) /\ WroteFile(d, failed) /\ d \in Covers
  BY DEF Writing, Wrote, WroteCovers, Identified
<1>2. /\ n \in Nat
      /\ \A r, s \in used : OldSlot(d, r) = OldSlot(d, s) => r = s
      /\ \A s \in used : OldSlot(d, s) \in 0 .. n - 1 \/ OldSlot(d, s) = s
      /\ InFile(d) => \A i \in 0 .. n - 1 : \E s \in used : OldSlot(d, s) = i
  BY <1>1, FileRearranged DEF Writing
<1>3. /\ file' \in [0 .. total - 1 -> Image]
      /\ \A s \in used \cap DOMAIN file :
           OldSlot(d, s) \in 0 .. n - 1 /\ file'[OldSlot(d, s)] = file[s]
      /\ \A t \in written : NewSlot(d, failed, t) \in n .. total - 1
      /\ \A t \in written : file'[NewSlot(d, failed, t)] = d[t].thumb.picture
      /\ \A i \in n .. total - 1 : \E t \in written : NewSlot(d, failed, t) = i
  BY <1>1 DEF WroteFile
<1>4. written \in SUBSET Nat /\ IsFiniteSet(written) /\ Cardinality(written) \in Nat
  <2>1. written \in SUBSET Track
    BY DEF Written, NewOwners, Owners
  <2> QED BY <2>1, TrackSets
<1>5. \A t : NewSlot(d, failed, t) = n + Rank(t, written)
  BY DEF NewSlot
<1> HIDE DEF n, used, written
<1>6. ASSUME NEW t \in written, NEW u \in written,
             NewSlot(d, failed, t) = NewSlot(d, failed, u)
      PROVE  t = u
  <2>1. n + Rank(t, written) = n + Rank(u, written)
    BY <1>5, <1>6
  <2>2. Rank(t, written) \in 0 .. Cardinality(written) - 1
        /\ Rank(u, written) \in 0 .. Cardinality(written) - 1
    BY <1>4, RanksGrow
  <2>3. Rank(t, written) = Rank(u, written)
    <3>1. Rank(t, written) \in Int /\ Rank(u, written) \in Int
      BY <2>2
    <3>2. \A k, i, j \in Int : k + i = k + j => i = j
      OBVIOUS
    <3>3. n \in Int
      BY <1>2
    <3> QED BY <2>1, <3>1, <3>2, <3>3
  <2> QED BY <1>4, <2>3, RanksApart
<1>7. /\ 0 .. n - 1 \subseteq 0 .. total - 1 /\ n .. total - 1 \subseteq 0 .. total - 1
      /\ \A i \in 0 .. total - 1 : i \in 0 .. n - 1 \/ i \in n .. total - 1
      /\ \A i \in 0 .. n - 1, j \in n .. total - 1 : i # j
  <2> DEFINE m == Cardinality(written)
  <2>1. m \in Nat /\ n \in Nat /\ total = n + m
    BY <1>2, <1>4
  <2> HIDE DEF m, total
  <2> QED BY <2>1
<1> HIDE DEF total
<1>8. DOMAIN file' = 0 .. total - 1
  BY <1>3
<1>9. \A s \in used \cap DOMAIN file, t \in written : OldSlot(d, s) # NewSlot(d, failed, t)
  BY <1>3, <1>7
<1>10. InFile(d) => \A i \in DOMAIN file' :
         \/ \E s \in used : OldSlot(d, s) = i
         \/ \E t \in written : NewSlot(d, failed, t) = i
  BY <1>2, <1>3, <1>7, <1>8
<1>11. /\ \A s \in used \cap DOMAIN file :
            OldSlot(d, s) \in DOMAIN file' /\ file'[OldSlot(d, s)] = file[s]
       /\ \A s \in used : OldSlot(d, s) \in DOMAIN file' \/ OldSlot(d, s) = s
       /\ \A t \in written : /\ NewSlot(d, failed, t) \in DOMAIN file'
                             /\ file'[NewSlot(d, failed, t)] = d[t].thumb.picture
  BY <1>2, <1>3, <1>7, <1>8
<1> QED BY <1>2, <1>6, <1>9, <1>10, <1>11 DEF used, written

(* What the thumbnail of an owner is after a write.                        *)
LEMMA WriteThumbs ==
  ASSUME NEW d, NEW failed, Writing(d, failed), NEW u \in Owners(d)
  PROVE  /\ \/ /\ u \in Placed(d) /\ art[u].thumb.kind = "ipod"
               /\ \/ /\ art[u].thumb.at = {} /\ art'[u].thumb.at = {}
                  \/ \E s \in UsedSlots(d) : /\ art[u].thumb.at = {s}
                                             /\ art'[u].thumb.at = {OldSlot(d, s)}
                                             /\ u \notin astray => s \in DOMAIN file
            \/ /\ u \in Written(d, failed) /\ art[u].thumb.kind = "new"
               /\ art'[u].thumb.at = {NewSlot(d, failed, u)}
            \/ /\ u \in failed /\ art[u].thumb.kind = "new" /\ art'[u].thumb.at = {}
         /\ u \in Track /\ u \in present /\ HasThumb(d, u) /\ d[u].thumb = art[u].thumb
<1>1. /\ Identified(d) /\ WroteCovers(d, failed) /\ WroteSlots(d, failed) /\ d \in Covers
  BY DEF Writing, Wrote, WroteCovers, Identified
<1>2. u \in Track /\ HasThumb(d, u) /\ d[u].thumb = art[u].thumb /\ u \in present
  BY <1>1 DEF Owners, Identified, HasThumb
<1>3. u \in Placed(d) \/ u \in Written(d, failed) \/ u \in failed
  BY <1>1 DEF WroteCovers
<1>4. CASE u \in Placed(d)
  <2>1. art[u].thumb.kind = "ipod" /\ d[u].thumb.kind = "ipod"
    BY <1>2, <1>4 DEF Placed
  <2>2. art'[u].thumb.at = {OldSlot(d, s) : s \in d[u].thumb.at}
    BY <1>1, <1>4 DEF WroteSlots
  <2>3. d[u].thumb.at = {} \/ \E s \in 0 .. MaxPictures - 1 : d[u].thumb.at = {s}
    BY <1>1, <1>2, SlotsUsed
  <2>4. Holds(u, u)
    BY <1>1, <1>2 DEF Identified
  <2>5. CASE d[u].thumb.at = {}
    BY <1>2, <1>4, <2>1, <2>2, <2>5
  <2>6. ASSUME NEW s, d[u].thumb.at = {s}
        PROVE  /\ s \in UsedSlots(d) /\ art'[u].thumb.at = {OldSlot(d, s)}
               /\ u \notin astray => s \in DOMAIN file
    <3>1. u \notin astray => s \in DOMAIN file
      BY <1>2, <2>1, <2>6, <2>4 DEF Holds, ShowsAt
    <3> QED BY <2>2, <2>6, <3>1 DEF UsedSlots
  <2> QED BY <1>2, <1>4, <2>1, <2>3, <2>5, <2>6
<1>5. CASE u \in Written(d, failed)
  <2>1. d[u].thumb.kind = "new"
    BY <1>5 DEF Written, NewOwners
  <2>2. art'[u].thumb.at = {NewSlot(d, failed, u)}
    BY <1>1, <1>5 DEF WroteSlots
  <2> QED BY <1>2, <1>5, <2>1, <2>2
<1>6. CASE u \in failed
  <2>1. d[u].thumb.kind = "new"
    BY <1>1, <1>6 DEF WroteCovers, NewOwners
  <2>2. art'[u].thumb.at = {}
    BY <1>1, <1>6 DEF WroteSlots
  <2> QED BY <1>2, <1>6, <2>1, <2>2
<1> QED BY <1>2, <1>3, <1>4, <1>5, <1>6

(* The owner of a cover shows it after a write, to all that share it.      *)
LEMMA WriteShows ==
  ASSUME NEW d, NEW failed, Writing(d, failed), NEW u \in Owners(d), u \notin astray,
         NEW t \in Track, HasThumb(d, t), d[t].id = d[u].id
  PROVE  ShowsAt(file', art'[u].thumb.at, cover[t], t \in lost')
<1>1. Identified(d) /\ WroteRest(d, failed)
  BY DEF Writing, Wrote, WroteCovers
<1>2. u \in Track /\ HasThumb(d, u) /\ d[u].thumb = art[u].thumb
  BY WriteThumbs
<1>3. t \in present /\ Holds(u, t)
  BY <1>1, <1>2 DEF HasThumb, Identified
<1>4. /\ t \in lost => t \in lost'
      /\ u \in failed => t \in lost'
  BY <1>1, <1>3 DEF WroteRest
<1>5. CASE /\ art[u].thumb.kind = "ipod"
           /\ art[u].thumb.at = {} /\ art'[u].thumb.at = {}
  <2>1. t \in lost \/ cover[t] = NoImage
    BY <1>3, <1>5 DEF Holds, ShowsAt
  <2> QED BY <1>4, <1>5, <2>1 DEF ShowsAt
<1>6. ASSUME NEW s \in UsedSlots(d), art[u].thumb.kind = "ipod",
             art[u].thumb.at = {s}, art'[u].thumb.at = {OldSlot(d, s)}
      PROVE  ShowsAt(file', art'[u].thumb.at, cover[t], t \in lost')
  <2>1. s \in DOMAIN file /\ file[s] = cover[t]
    BY <1>3, <1>6 DEF Holds, ShowsAt
  <2>2. OldSlot(d, s) \in DOMAIN file' /\ file'[OldSlot(d, s)] = file[s]
    BY <2>1, WritePlaces
  <2> QED BY <1>6, <2>1, <2>2 DEF ShowsAt
<1>7. CASE /\ u \in Written(d, failed) /\ art[u].thumb.kind = "new"
           /\ art'[u].thumb.at = {NewSlot(d, failed, u)}
  <2>1. d[u].thumb.picture = cover[t]
    BY <1>2, <1>3, <1>7 DEF Holds
  <2>2. /\ NewSlot(d, failed, u) \in DOMAIN file'
        /\ file'[NewSlot(d, failed, u)] = d[u].thumb.picture
    BY <1>7, WritePlaces
  <2> QED BY <1>7, <2>1, <2>2 DEF ShowsAt
<1>8. CASE u \in failed /\ art'[u].thumb.at = {}
  BY <1>4, <1>8 DEF ShowsAt
<1> QED BY <1>5, <1>6, <1>7, <1>8, WriteThumbs

(* Which thumbnails go astray: an entry whose owner has not is none of     *)
(* astrayIds', and a thumbnail that has not is where its owner's is.       *)
LEMMA WriteAstray ==
  ASSUME NEW d, NEW failed, Writing(d, failed)
  PROVE  /\ \A u \in Owners(d) : d[u].id \in astrayIds' <=> u \in astray
         /\ astrayIds' = {} => Owners(d) \cap astray = {}
         /\ astrayIds' \subseteq {d[u].id : u \in Owners(d)} /\ astray' \subseteq present
         /\ \A t \in present \ astray' : art'[t].thumb.kind = "ipod" =>
              \E u \in Owners(d) : /\ u \notin astray /\ d[u].id = d[t].id /\ HasThumb(d, t)
                                   /\ art'[t].thumb.at = art'[u].thumb.at
<1> DEFINE O == Owners(d)
<1>1. /\ Identified(d) /\ WroteCovers(d, failed) /\ WroteRest(d, failed)
      /\ present \in SUBSET Track
  BY DEF Writing, Wrote, WroteCovers, Numberable
<1>2. /\ Owners(art') = O /\ \A u \in O : art'[u].id = d[u].id
      /\ \A t, u \in O : d[t].id = d[u].id => t = u
  BY <1>1 DEF WroteCovers, Identified
<1>3. astray' = Astray(art') /\ astrayIds' = AstrayIds(art')
  BY <1>1 DEF WroteRest
<1> HIDE DEF O
<1>4. astrayIds' = {art'[u].id : u \in O \cap astray}
  BY <1>2, <1>3 DEF AstrayIds
<1>5. \A i : i \in astrayIds' <=> \E u \in O : u \in astray /\ d[u].id = i
  BY <1>2, <1>4
<1>6. astray' \subseteq present
  BY <1>3 DEF Astray
<1>7. ASSUME NEW t \in present, t \notin astray', art'[t].thumb.kind = "ipod"
      PROVE  \E u \in O : /\ u \notin astray /\ d[u].id = d[t].id /\ HasThumb(d, t)
                          /\ art'[t].thumb.at = art'[u].thumb.at
  <2>1. t \in Track /\ HasThumb(d, t) /\ art'[t].id = d[t].id
    <3>1. CASE t \in O
      BY <1>2, <3>1 DEF Owners, O
    <3>2. CASE t \notin O
      BY <1>1, <1>7, <3>2 DEF WroteCovers, O, HasThumb
    <3> QED BY <3>1, <3>2
  <2>2. \E u \in O : art'[u].id = art'[t].id
    BY <1>1, <1>2, <2>1 DEF Identified, O
  <2> DEFINE w == OwnerOf(art', t)
  <2>3. w \in O /\ art'[w].id = art'[t].id
    BY <1>2, <2>2 DEF OwnerOf
  <2>4. ~(\/ t \in astray \/ art'[t].id \in AstrayIds(art')
          \/ art'[t].thumb.at # art'[w].thumb.at)
    BY <1>3, <1>7 DEF Astray
  <2> HIDE DEF w
  <2>5. w \notin astray
    BY <1>2, <1>3, <1>5, <2>3, <2>4
  <2> QED BY <1>2, <2>1, <2>3, <2>4, <2>5
<1> QED BY <1>2, <1>5, <1>6, <1>7 DEF O

(* The file after a write.                                                 *)
LEMMA WriteLength ==
  ASSUME NEW d, NEW failed, Writing(d, failed)
  PROVE  /\ Length(file') \in 0 .. MaxPictures /\ file' \in [0 .. Length(file') - 1 -> Image]
         /\ DOMAIN file' \subseteq 0 .. MaxPictures - 1
<1> DEFINE n == Base(d)
           k == Cardinality(Written(d, failed))
           total == n + k
           count == Length(file')
<1>1. WroteSlots(d, failed) /\ WroteFile(d, failed)
  BY DEF Writing, Wrote
<1>2. n \in Nat /\ k \in Nat /\ n + k <= MaxPictures /\ MaxPictures \in Nat
  BY <1>1, ArtworkAssumption DEF WroteSlots, WroteFile
<1>3. count = total /\ file' \in [0 .. total - 1 -> Image]
  BY <1>1 DEF WroteFile
<1> HIDE DEF n, k
<1>4. total \in Nat /\ total <= MaxPictures
  BY <1>2
<1> HIDE DEF total
<1>5. 0 .. total - 1 \subseteq 0 .. MaxPictures - 1 /\ total \in 0 .. MaxPictures
  BY <1>2, <1>4
<1>6. DOMAIN file' = 0 .. total - 1
  BY <1>3
<1>7. count \in 0 .. MaxPictures /\ file' \in [0 .. count - 1 -> Image]
  BY <1>3, <1>5
<1> QED BY <1>5, <1>6, <1>7

(* The thumbnails of the owners are the pictures of the file, and no two   *)
(* owners have the same one when covers are shared, except for thumbnails  *)
(* that have gone astray.                                                  *)
LEMMA WriteFills ==
  ASSUME NEW d, NEW failed, Writing(d, failed)
  PROVE  /\ \A u \in Owners(d) : \/ art'[u].thumb.at = {}
                                  \/ \E s \in 0 .. MaxPictures - 1 : art'[u].thumb.at = {s}
         /\ \A u \in Owners(d) \ astray : art'[u].thumb.at \in SUBSET DOMAIN file'
         /\ Owners(d) \cap astray = {} =>
              UNION {art'[u].thumb.at : u \in Owners(d)} = DOMAIN file'
         /\ sparse => \A t, u \in Owners(d) \ astray :
                        t # u => art'[t].thumb.at \cap art'[u].thumb.at = {}
<1> DEFINE AtAfter(u) == art'[u].thumb.at
<1>1. Identified(d) /\ d \in Covers
  BY DEF Writing, Wrote, WroteCovers, Identified
<1>2. ASSUME NEW u \in Owners(d)
      PROVE  /\ AtAfter(u) = {} \/ \E s \in 0 .. MaxPictures - 1 : AtAfter(u) = {s}
             /\ u \notin astray => AtAfter(u) \in SUBSET DOMAIN file'
  <2>1. CASE AtAfter(u) = {}
    BY <2>1
  <2>2. ASSUME NEW s \in UsedSlots(d), AtAfter(u) = {OldSlot(d, s)},
               u \notin astray => s \in DOMAIN file
        PROVE  /\ \E i \in 0 .. MaxPictures - 1 : AtAfter(u) = {i}
               /\ u \notin astray => AtAfter(u) \in SUBSET DOMAIN file'
    <3>1. s \in 0 .. MaxPictures - 1
      BY <1>1, SlotsUsed
    <3>2. OldSlot(d, s) \in 0 .. MaxPictures - 1
      BY <3>1, WritePlaces, WriteLength
    <3>3. u \notin astray => OldSlot(d, s) \in DOMAIN file'
      BY <2>2, WritePlaces
    <3> QED BY <2>2, <3>2, <3>3
  <2>3. CASE u \in Written(d, failed) /\ AtAfter(u) = {NewSlot(d, failed, u)}
    BY <2>3, WritePlaces, WriteLength
  <2> QED BY <2>1, <2>2, <2>3, WriteThumbs
<1>3. ASSUME Owners(d) \cap astray = {}
      PROVE  UNION {AtAfter(u) : u \in Owners(d)} = DOMAIN file'
  <2>1. InFile(d)
    <3> SUFFICES ASSUME NEW u \in Owners(d) PROVE d[u].thumb.at \in SUBSET DOMAIN file
      BY DEF InFile, UsedSlots
    <3>1. u \notin astray
      BY <1>3
    <3>2. u \in Track /\ d[u].thumb = art[u].thumb
      BY WriteThumbs
    <3>3. art[u].thumb.kind = "new" => d[u].thumb.at = {}
      BY <1>1, <3>2, ThumbnailKinds
    <3>4. \/ art[u].thumb.kind = "new" \/ art[u].thumb.at = {}
          \/ \E s \in DOMAIN file : art[u].thumb.at = {s}
      BY <3>1, WriteThumbs
    <3> QED BY <3>2, <3>3, <3>4
  <2>2. ASSUME NEW i \in DOMAIN file' PROVE \E u \in Owners(d) : i \in AtAfter(u)
    <3>1. ASSUME NEW s \in UsedSlots(d), OldSlot(d, s) = i
          PROVE  \E u \in Owners(d) : i \in AtAfter(u)
      <4>1. PICK u \in Owners(d) : s \in d[u].thumb.at
        BY DEF UsedSlots
      <4>2. u \in Track /\ d[u].thumb = art[u].thumb /\ s \in art[u].thumb.at
        BY <4>1, WriteThumbs
      <4>3. art[u].thumb.kind # "new"
        BY <1>1, <4>1, <4>2, ThumbnailKinds
      <4>4. PICK r \in UsedSlots(d) : art[u].thumb.at = {r} /\ AtAfter(u) = {OldSlot(d, r)}
        BY <4>1, <4>2, <4>3, WriteThumbs
      <4>5. r = s
        BY <4>2, <4>4
      <4> QED BY <3>1, <4>4, <4>5
    <3>2. ASSUME NEW t \in Written(d, failed), NewSlot(d, failed, t) = i
          PROVE  \E u \in Owners(d) : i \in AtAfter(u)
      <4>1. t \in Owners(d) /\ AtAfter(t) = {NewSlot(d, failed, t)}
        BY DEF Writing, Wrote, WroteSlots, Written, NewOwners
      <4> QED BY <3>2, <4>1
    <3> QED BY <2>1, <3>1, <3>2, WritePlaces
  <2> DEFINE all == UNION {AtAfter(u) : u \in Owners(d)}
             slots == DOMAIN file'
  <2>3. \A i : i \in all <=> \E u \in Owners(d) : i \in AtAfter(u)
    OBVIOUS
  <2>4. \A u \in Owners(d) : \A i \in AtAfter(u) : i \in slots
    BY <1>2, <1>3
  <2>5. \A i \in slots : \E u \in Owners(d) : i \in AtAfter(u)
    BY <2>2
  <2> HIDE DEF all, slots, AtAfter
  <2>6. \A i : i \in all <=> i \in slots
    BY <2>3, <2>4, <2>5
  <2> QED BY <2>6 DEF all, slots
<1>4. ASSUME sparse, NEW t \in Owners(d), NEW u \in Owners(d), t # u,
             t \notin astray, u \notin astray, NEW i \in AtAfter(t), i \in AtAfter(u)
      PROVE  FALSE
  <2>1. d[t].id # d[u].id
    BY <1>1, <1>4 DEF Identified
  <2>2. \/ \E s \in UsedSlots(d) : /\ art[t].thumb.at = {s} /\ AtAfter(t) = {OldSlot(d, s)}
                                   /\ s \in DOMAIN file
        \/ t \in Written(d, failed) /\ AtAfter(t) = {NewSlot(d, failed, t)}
    BY <1>4, WriteThumbs
  <2>3. \/ \E s \in UsedSlots(d) : /\ art[u].thumb.at = {s} /\ AtAfter(u) = {OldSlot(d, s)}
                                   /\ s \in DOMAIN file
        \/ u \in Written(d, failed) /\ AtAfter(u) = {NewSlot(d, failed, u)}
    BY <1>4, WriteThumbs
  <2>4. ASSUME NEW r \in UsedSlots(d), art[t].thumb.at = {r}, AtAfter(t) = {OldSlot(d, r)},
               NEW s \in UsedSlots(d), art[u].thumb.at = {s}, AtAfter(u) = {OldSlot(d, s)}
        PROVE  FALSE
    <3>1. OldSlot(d, r) = OldSlot(d, s)
      BY <1>4, <2>4
    <3>2. r = s
      BY <3>1, WritePlaces
    <3>3. d[t].thumb = art[t].thumb /\ d[u].thumb = art[u].thumb
          /\ HasThumb(d, t) /\ HasThumb(d, u) /\ t \in Track /\ u \in Track
      BY WriteThumbs
    <3>4. d[t].thumb.at \cap d[u].thumb.at # {}
      BY <2>4, <3>2, <3>3
    <3> QED BY <1>1, <1>4, <2>1, <3>3, <3>4 DEF Identified
  <2> QED BY <1>4, <2>2, <2>3, <2>4, WritePlaces
<1> QED BY <1>2, <1>3, <1>4

(* The entries are those of the owners, with the ids of these.             *)
LEMMA WriteEntries ==
  ASSUME NEW d, NEW failed, Writing(d, failed)
  PROVE  /\ \A u \in Owners(d) : \E m \in entries' :
              m = [id |-> d[u].id, dbid |-> dbid[u], at |-> art'[u].thumb.at]
         /\ \A m \in entries' : \E u \in Owners(d) :
              /\ m = [id |-> d[u].id, dbid |-> dbid[u], at |-> art'[u].thumb.at]
              /\ m.id = d[u].id /\ m.dbid = dbid[u] /\ m.at = art'[u].thumb.at
         /\ Cardinality(entries') = Cardinality(Owners(d))
<1> DEFINE Entry(u) == [id |-> d[u].id, dbid |-> dbid[u], at |-> art'[u].thumb.at]
           E == entries'
           O == Owners(d)
<1>1. Identified(d) /\ WroteRest(d, failed) /\ WroteCovers(d, failed)
  BY DEF Writing, Wrote, WroteCovers
<1>2. E = {[id |-> art'[t].id, dbid |-> dbid[t], at |-> art'[t].thumb.at] : t \in O}
      /\ \A t \in O : art'[t].id = d[t].id
  BY <1>1 DEF WroteRest, WroteCovers
<1>3. \A u \in O : Entry(u) \in E /\ Entry(u).id = d[u].id
  BY <1>2
<1>4. \A m \in E : \E u \in O : m = Entry(u)
  BY <1>2
<1>5. IsFiniteSet(O)
  <2>1. O \in SUBSET Track
    BY DEF Owners
  <2> QED BY <2>1, TrackSets
<1>6. \A t, u \in O : d[t].id = d[u].id => t = u
  BY <1>1 DEF Identified
<1> DEFINE f == [u \in O |-> Entry(u)]
<1>7. f \in Bijection(O, E)
  <2> HIDE DEF Entry, O, E
  <2>1. f \in [O -> E]
    BY <1>3
  <2>2. \A t, u \in O : f[t] = f[u] => t = u
    BY <1>3, <1>6
  <2>3. \A m \in E : \E u \in O : f[u] = m
    BY <1>4
  <2> QED BY <2>1, <2>2, <2>3 DEF Bijection, Injection, Surjection, IsInjective
<1>8. Cardinality(E) = Cardinality(O)
  <2> HIDE DEF f, O, E
  <2>1. ExistsBijection(O, E)
    BY <1>7 DEF ExistsBijection
  <2> QED BY <1>5, <2>1, FS_Bijection
<1>9. \A u \in O : \E m \in E : m = Entry(u)
  BY <1>3
<1>10. \A m \in E : \E u \in O : /\ m = Entry(u) /\ m.id = d[u].id
                                 /\ m.dbid = dbid[u] /\ m.at = art'[u].thumb.at
  BY <1>4
<1> QED BY <1>8, <1>9, <1>10

(* The link of a stored track is the id of its cover, or 0.                *)
LEMMA WriteLinks ==
  ASSUME NEW d, NEW failed, Writing(d, failed), NEW t \in present
  PROVE  /\ t \in Track /\ t \in DOMAIN stored' /\ DOMAIN stored' = present
         /\ art'[t].id = d[t].id /\ art'[t].link = d[t].link
         /\ stored'[t] = [dbid |-> dbid[t], link |-> d[t].link, cover |-> cover[t],
                          lost |-> t \in lost']
         /\ stored'[t].dbid = dbid[t] /\ stored'[t].link = d[t].link
         /\ stored'[t].cover = cover[t] /\ stored'[t].lost = (t \in lost')
         /\ HasThumb(d, t) =>
              /\ d[t].id # 0 /\ d[t].link = d[t].id
              /\ \E u \in Owners(d) : d[u].id = d[t].id
         /\ ~HasThumb(d, t) => /\ d[t].id = 0 /\ d[t].link = 0 /\ cover[t] = NoImage
                               /\ art'[t] = d[t]
<1>1. /\ Identified(d) /\ WroteRest(d, failed) /\ WroteCovers(d, failed)
      /\ art \in [Track -> Artwork] /\ present \in SUBSET Track
  BY DEF Writing, Wrote, WroteCovers, Numberable
<1>2. t \in Track
  BY <1>1
<1>3. art'[t].id = d[t].id /\ art'[t].link = d[t].link
  <2>1. CASE t \in Owners(d)
    BY <1>1, <2>1 DEF WroteCovers
  <2>2. CASE t \notin Owners(d)
    BY <1>1, <1>2, <2>2 DEF WroteCovers
  <2> QED BY <2>1, <2>2
<1> DEFINE missing == t \in lost'
<1>4. stored'[t] = [dbid |-> dbid[t], link |-> d[t].link, cover |-> cover[t],
                    lost |-> missing]
      /\ DOMAIN stored' = present
  BY <1>1, <1>3 DEF WroteRest
<1>5. /\ stored'[t].dbid = dbid[t] /\ stored'[t].link = d[t].link
      /\ stored'[t].cover = cover[t] /\ stored'[t].lost = missing
  <2> HIDE DEF missing
  <2> QED BY <1>4
<1>6. HasThumb(d, t) => /\ d[t].id # 0 /\ d[t].link = d[t].id
                        /\ \E u \in Owners(d) : d[u].id = d[t].id
  BY <1>1, <1>2, IdentifiedTyped DEF Identified
<1>7. ASSUME ~HasThumb(d, t)
      PROVE  /\ d[t].id = 0 /\ d[t].link = 0 /\ cover[t] = NoImage /\ art'[t] = d[t]
  <2>1. d[t].id = 0 /\ d[t].link = 0
    BY <1>1, <1>7 DEF Identified
  <2>2. art[t].thumb.kind = "none"
    BY <1>1, <1>2, <1>7 DEF Identified, HasThumb
  <2>3. NoneRight(t)
    BY DEF Writing, Numberable, MemoryInv
  <2>4. t \notin Owners(d)
    BY <1>7 DEF Owners
  <2> QED BY <1>1, <1>2, <2>1, <2>2, <2>3, <2>4 DEF NoneRight, WroteCovers
<1> QED BY <1>2, <1>3, <1>4, <1>5, <1>6, <1>7

LEMMA WriteEntriesInv ==
  ASSUME NEW d, NEW failed, Writing(d, failed)
  PROVE  EntriesInv' /\ StoredInv'
<1> DEFINE E == entries'
           O == Owners(d)
<1>1. /\ Identified(d) /\ WroteRest(d, failed) /\ Owners(d) \in SUBSET Track
      /\ O \in SUBSET present
  BY DEF Writing, Wrote, WroteCovers, Owners, HasThumb
<1>2. /\ \A u \in O : \E m \in E :
           m = [id |-> d[u].id, dbid |-> dbid[u], at |-> art'[u].thumb.at]
      /\ \A m \in E : \E u \in O :
           /\ m = [id |-> d[u].id, dbid |-> dbid[u], at |-> art'[u].thumb.at]
           /\ m.id = d[u].id /\ m.dbid = dbid[u] /\ m.at = art'[u].thumb.at
      /\ Cardinality(E) = Cardinality(O)
  BY WriteEntries
<1>3. \A u \in O : \E m \in E : m.id = d[u].id
  BY <1>2
<1>4. DOMAIN stored' = present /\ \A t \in present : t \in DOMAIN stored'
  BY <1>1 DEF WroteRest
<1>5. LinksResolve'
  <2> DEFINE ids == {m.id : m \in E}
             owned == {d[u].id : u \in O}
  <2>1. owned = MinId .. MinId + Cardinality(O) - 1
    BY <1>1 DEF Identified
  <2>2. \A i : i \in ids <=> i \in owned
    BY <1>2, <1>3
  <2>3. ids = owned
    <3> HIDE DEF ids, owned
    <3> QED BY <2>2
  <2>4. ASSUME NEW t \in DOMAIN stored', stored'[t].link # 0
        PROVE  stored'[t].link \in ids
    <3>1. t \in present
      BY <1>4
    <3>2. /\ stored'[t].link = d[t].link
          /\ HasThumb(d, t) => d[t].link = d[t].id /\ \E u \in O : d[u].id = d[t].id
          /\ ~HasThumb(d, t) => d[t].link = 0
      BY <3>1, WriteLinks
    <3>3. \E u \in O : d[u].id = stored'[t].link
      BY <2>4, <3>2
    <3> QED BY <2>3, <3>3
  <2>5. ids = MinId .. MinId + Cardinality(E) - 1
    BY <1>2, <2>1, <2>3
  <2> QED BY <2>4, <2>5 DEF LinksResolve
<1>6. /\ \A u \in O : \/ art'[u].thumb.at = {}
                    \/ \E s \in 0 .. MaxPictures - 1 : art'[u].thumb.at = {s}
      /\ \A u \in O : d[u].id \in astrayIds' <=> u \in astray
      /\ \A u \in O \ astray : art'[u].thumb.at \in SUBSET DOMAIN file'
  BY WriteFills, WriteAstray
<1>7. \A m \in E : m.at = {} \/ \E s \in 0 .. MaxPictures - 1 : m.at = {s}
  BY <1>2, <1>6
<1>8. \A m \in E : m.id \notin astrayIds' => m.at \in SUBSET DOMAIN file'
  BY <1>2, <1>6
<1>9. ASSUME astrayIds' = {} PROVE UNION {m.at : m \in E} = DOMAIN file'
  <2> DEFINE AtAfter(u) == art'[u].thumb.at
  <2>1. /\ \A u \in O : \E m \in E : m = [id |-> d[u].id, dbid |-> dbid[u], at |-> AtAfter(u)]
        /\ \A m \in E : \E u \in O : m.at = AtAfter(u)
    BY <1>2
  <2>2. \A u \in O : \E m \in E : m.at = AtAfter(u)
    BY <2>1
  <2>3. UNION {AtAfter(u) : u \in O} = DOMAIN file'
    BY <1>9, WriteFills, WriteAstray
  <2> HIDE DEF E, O, AtAfter
  <2>4. UNION {m.at : m \in E} = UNION {AtAfter(u) : u \in O}
    BY <2>1, <2>2
  <2> QED BY <2>3, <2>4
<1>10. \A t, u \in O : d[t].id = d[u].id => t = u
  BY <1>1 DEF Identified
<1>11. \A m, n \in E : m.id = n.id => m = n
  BY <1>2, <1>10
<1>12. ASSUME NEW m \in E
       PROVE  \E u \in DOMAIN stored' : stored'[u].dbid = m.dbid /\ stored'[u].link = m.id
  <2>1. PICK u \in O : m.id = d[u].id /\ m.dbid = dbid[u]
    BY <1>2
  <2>2. u \in present /\ HasThumb(d, u)
    BY <1>1 DEF Owners
  <2>3. u \in DOMAIN stored' /\ stored'[u].dbid = dbid[u] /\ stored'[u].link = d[u].link
        /\ d[u].link = d[u].id
    BY <2>2, WriteLinks
  <2> QED BY <2>1, <2>3
<1>13. ASSUME sparse', NEW m \in E, NEW n \in E, m # n,
              m.id \notin astrayIds', n.id \notin astrayIds'
       PROVE  m.at \cap n.at = {}
  <2>1. sparse
    BY <1>1, <1>13 DEF WroteRest
  <2>2. PICK t \in O : /\ m = [id |-> d[t].id, dbid |-> dbid[t], at |-> art'[t].thumb.at]
                       /\ m.at = art'[t].thumb.at /\ m.id = d[t].id
    BY <1>2
  <2>3. PICK u \in O : /\ n = [id |-> d[u].id, dbid |-> dbid[u], at |-> art'[u].thumb.at]
                       /\ n.at = art'[u].thumb.at /\ n.id = d[u].id
    BY <1>2
  <2>4. t # u /\ t \notin astray /\ u \notin astray
    BY <1>6, <1>13, <2>2, <2>3
  <2>5. art'[t].thumb.at \cap art'[u].thumb.at = {}
    BY <2>1, <2>4, WriteFills
  <2> QED BY <2>2, <2>3, <2>5
<1>14. EntriesInv'
  BY <1>5, <1>7, <1>11, <1>12, <1>13, <1>8, <1>9 DEF EntriesInv
<1>15. ASSUME NEW t \in DOMAIN stored'
       PROVE  /\ stored'[t].link = 0 => stored'[t].cover = NoImage
              /\ \A m \in E : m.id = stored'[t].link /\ m.id \notin astrayIds' =>
                   ShowsAt(file', m.at, stored'[t].cover, stored'[t].lost)
  <2>1. t \in present
    BY <1>4
  <2>2. stored'[t].link = 0 => stored'[t].cover = NoImage
    BY <2>1, WriteLinks
  <2>3. ASSUME NEW m \in E, m.id = stored'[t].link, m.id \notin astrayIds'
        PROVE  ShowsAt(file', m.at, stored'[t].cover, stored'[t].lost)
    <3>1. PICK u \in O : m.id = d[u].id /\ m.at = art'[u].thumb.at
      BY <1>2
    <3>2. u \in present /\ HasThumb(d, u) /\ u \notin astray
      BY <1>1, <1>6, <2>3, <3>1 DEF Owners
    <3>3. d[u].id # 0
      BY <3>2, WriteLinks
    <3>4. t \in Track /\ HasThumb(d, t) /\ d[t].id = d[u].id
      <4>1. /\ t \in Track /\ stored'[t].link = d[t].link
            /\ HasThumb(d, t) => d[t].link = d[t].id
            /\ ~HasThumb(d, t) => d[t].link = 0
        BY <2>1, WriteLinks
      <4> QED BY <2>3, <3>1, <3>3, <4>1
    <3>5. ShowsAt(file', art'[u].thumb.at, cover[t], t \in lost')
      BY <3>2, <3>4, WriteShows
    <3>6. stored'[t].cover = cover[t] /\ stored'[t].lost = (t \in lost')
      BY <2>1, WriteLinks
    <3> QED BY <3>1, <3>5, <3>6
  <2> QED BY <2>2, <2>3
<1>16. StoredInv'
  BY <1>15 DEF StoredInv
<1> QED BY <1>14, <1>16

(* What is in memory after a write: every thumbnail is still right for     *)
(* the tracks that share its id, or has gone astray.                       *)
LEMMA WriteMemory ==
  ASSUME NEW d, NEW failed, Writing(d, failed)
  PROVE  StoredThumbsHaveIds' /\ MemoryInv'
<1>1. /\ Identified(d) /\ WroteCovers(d, failed) /\ WroteRest(d, failed)
      /\ d \in Covers /\ present \in SUBSET Track
  BY DEF Writing, Wrote, WroteCovers, Identified, Numberable
<1>2. present' = present /\ sparse' = sparse /\ cover' = cover
  BY <1>1 DEF WroteRest
<1>3. \A t \in present :
        /\ t \in Track /\ art'[t].id = d[t].id
        /\ HasThumb(d, t) => d[t].id # 0
        /\ ~HasThumb(d, t) => d[t].id = 0 /\ cover[t] = NoImage /\ art'[t] = d[t]
  <2> SUFFICES ASSUME NEW t \in present
               PROVE  /\ t \in Track /\ art'[t].id = d[t].id
                      /\ HasThumb(d, t) => d[t].id # 0
                      /\ ~HasThumb(d, t) => /\ d[t].id = 0 /\ cover[t] = NoImage
                                            /\ art'[t] = d[t]
    OBVIOUS
  <2> QED BY WriteLinks
<1>4. \A t \in present :
        /\ art'[t].thumb.kind = "none" <=> ~HasThumb(d, t)
        /\ art'[t].thumb.kind = "new" => art'[t] = d[t]
  <2> SUFFICES ASSUME NEW t \in present
               PROVE  /\ art'[t].thumb.kind = "none" <=> ~HasThumb(d, t)
                      /\ art'[t].thumb.kind = "new" => art'[t] = d[t]
    OBVIOUS
  <2>1. CASE t \in Owners(d)
    <3> DEFINE w == IpodThumb(art'[t].thumb.at)
    <3>1. art'[t].thumb = w /\ w.kind = "ipod"
      BY <1>1, <2>1 DEF WroteCovers, IpodThumb
    <3>2. HasThumb(d, t)
      BY <2>1 DEF Owners
    <3> HIDE DEF w
    <3> QED BY <3>1, <3>2
  <2>2. CASE t \notin Owners(d)
    <3>1. art'[t] = d[t]
      BY <1>1, <1>3, <2>2 DEF WroteCovers
    <3> QED BY <3>1 DEF HasThumb
  <2> QED BY <2>1, <2>2
<1>5. StoredThumbsHaveIds'
  <2>1. ASSUME NEW t \in present', art'[t].thumb.kind = "ipod" PROVE art'[t].id # 0
    BY <1>2, <1>3, <1>4, <2>1
  <2> QED BY <2>1 DEF StoredThumbsHaveIds
<1>6. ASSUME NEW t \in present' PROVE NoneRight(t)'
  BY <1>2, <1>3, <1>4 DEF NoneRight
<1>7. \A t \in present \ astray' : art'[t].thumb.kind = "ipod" =>
        \E u \in Owners(d) : /\ u \notin astray /\ d[u].id = d[t].id /\ HasThumb(d, t)
                             /\ art'[t].thumb.at = art'[u].thumb.at
  BY WriteAstray
<1>8. ASSUME NEW t \in present', NEW u \in present', Shares(t, u)' PROVE Holds(u, t)'
  <2>1. t \in present /\ u \in present /\ t \in Track /\ u \in Track
    BY <1>2, <1>3
  <2>2. t = u \/ (d[t].id = d[u].id /\ d[t].id # 0)
    BY <1>3, <1>8, <2>1 DEF Shares
  <2>3. ASSUME art'[u].thumb.kind = "new" PROVE art'[u].thumb.picture = cover'[t]
    <3>1. HasThumb(d, u) /\ art'[u] = d[u] /\ d[u].thumb = art[u].thumb
      BY <1>1, <1>4, <2>1, <2>3 DEF Identified
    <3>2. HasThumb(d, t) /\ d[t].id = d[u].id
      BY <1>3, <2>1, <2>2, <3>1
    <3>3. Holds(u, t)
      BY <1>1, <2>1, <3>1, <3>2 DEF Identified
    <3>4. art[u].thumb.kind = "new" /\ art'[u].thumb.picture = art[u].thumb.picture
      BY <2>3, <3>1
    <3> QED BY <1>2, <3>3, <3>4 DEF Holds
  <2>4. ASSUME art'[u].thumb.kind = "ipod", u \notin astray'
        PROVE  ShowsAt(file', art'[u].thumb.at, cover'[t], t \in lost')
    <3>1. PICK w \in Owners(d) : /\ w \notin astray /\ d[w].id = d[u].id /\ HasThumb(d, u)
                                 /\ art'[u].thumb.at = art'[w].thumb.at
      BY <1>7, <2>1, <2>4
    <3>2. HasThumb(d, t) /\ d[t].id = d[w].id
      BY <1>3, <2>1, <2>2, <3>1
    <3>3. ShowsAt(file', art'[w].thumb.at, cover[t], t \in lost')
      BY <2>1, <3>1, <3>2, WriteShows
    <3> QED BY <1>2, <3>1, <3>3
  <2> QED BY <2>3, <2>4 DEF Holds
<1>9. ASSUME sparse, NEW t \in present' \ astray', NEW u \in present' \ astray',
             art'[t].thumb.at \cap art'[u].thumb.at # {}
      PROVE  art'[t].id = art'[u].id
  <2>1. ASSUME NEW x \in present, art'[x].thumb.at # {} PROVE art'[x].thumb.kind = "ipod"
    <3>1. CASE x \in Owners(d)
      <4> DEFINE w == IpodThumb(art'[x].thumb.at)
      <4>1. art'[x].thumb = w /\ w.kind = "ipod"
        BY <1>1, <3>1 DEF WroteCovers, IpodThumb
      <4> HIDE DEF w
      <4> QED BY <4>1
    <3>2. CASE x \notin Owners(d)
      <4>1. x \in Track /\ art'[x] = d[x]
        BY <1>1, <1>3, <3>2 DEF WroteCovers
      <4>2. d[x].thumb.at # {}
        BY <2>1, <4>1
      <4>3. d[x].thumb.kind = "ipod"
        <5>1. d[x].thumb \in Thumbnail
          BY <1>1, <4>1 DEF Covers
        <5> QED BY <4>2, <5>1 DEF Thumbnail, NoThumb, NewThumb, IpodThumb
      <4> QED BY <4>1, <4>3
    <3> QED BY <3>1, <3>2
  <2>2. t \in present /\ u \in present
    BY <1>2
  <2>3. art'[t].thumb.kind = "ipod" /\ art'[u].thumb.kind = "ipod"
    BY <1>9, <2>1, <2>2
  <2>4. PICK v \in Owners(d) : /\ v \notin astray /\ d[v].id = d[t].id
                               /\ art'[t].thumb.at = art'[v].thumb.at
    BY <1>7, <2>2, <2>3
  <2>5. PICK w \in Owners(d) : /\ w \notin astray /\ d[w].id = d[u].id
                               /\ art'[u].thumb.at = art'[w].thumb.at
    BY <1>7, <2>2, <2>3
  <2>6. v = w
    BY <1>9, <2>4, <2>5, WriteFills
  <2> QED BY <1>3, <2>2, <2>4, <2>5, <2>6
<1>10. sparse => SlotsApart'
  BY <1>9 DEF SlotsApart
<1> QED BY <1>2, <1>5, <1>6, <1>8, <1>10 DEF MemoryInv

(* Its types.                                                              *)
LEMMA WriteTyped ==
  ASSUME NEW d, NEW failed, Writing(d, failed), ADTypeOK
  PROVE  ADTypeOK'
<1>1. /\ Identified(d) /\ WroteCovers(d, failed) /\ WroteSlots(d, failed)
      /\ WroteFile(d, failed) /\ WroteRest(d, failed)
      /\ d \in [Track -> Artwork] /\ Owners(d) \in SUBSET Track
  <2>1. Identified(d) /\ art \in [Track -> Artwork]
    BY DEF Writing, Wrote, WroteCovers, Numberable
  <2> QED BY <2>1, IdentifiedTyped DEF Writing, Wrote
<1>2. /\ UNCHANGED <<sparse, present, dbid, edits, cover>>
      /\ sparse \in BOOLEAN /\ present \subseteq Track /\ dbid \in [Track -> Track]
      /\ cover \in [Track -> Image \cup {NoImage}] /\ edits \in 0 .. MaxEdits[sparse]
  BY <1>1 DEF WroteRest, ADTypeOK
<1>3. Length(file') \in 0 .. MaxPictures /\ file' \in [0 .. Length(file') - 1 -> Image]
  BY WriteLength
<1>4. ASSUME NEW t \in Track PROVE art'[t] \in Artwork
  <2>1. d[t] \in Artwork
    BY <1>1
  <2>2. CASE t \notin Owners(d)
    BY <1>1, <2>1, <2>2 DEF WroteCovers
  <2>3. CASE t \in Owners(d)
    <3> DEFINE w == art'[t].thumb
    <3>1. /\ w = IpodThumb(w.at)
          /\ art'[t] = [thumb |-> w, id |-> d[t].id, own |-> d[t].own, link |-> d[t].link]
      BY <1>1, <2>3 DEF WroteCovers
    <3>2. w.at = {} \/ \E s \in 0 .. MaxPictures - 1 : w.at = {s}
      BY <2>3, WriteFills
    <3>3. w.at \in {{}} \cup {{s} : s \in 0 .. MaxPictures - 1}
      BY <3>2
    <3>4. w \in Thumbnail
      BY <3>1, <3>3 DEF Thumbnail
    <3> HIDE DEF w
    <3> QED BY <2>1, <3>1, <3>4 DEF Artwork
  <2> QED BY <2>2, <2>3
<1>5. art' \in [Track -> Artwork]
  BY <1>1, <1>4 DEF WroteCovers
<1>6. entries' \subseteq [id : Id \ {0}, dbid : Track, at : SUBSET (0 .. MaxPictures - 1)]
  <2> SUFFICES ASSUME NEW m \in entries'
               PROVE  m \in [id : Id \ {0}, dbid : Track, at : SUBSET (0 .. MaxPictures - 1)]
    OBVIOUS
  <2>1. PICK u \in Owners(d) :
               m = [id |-> d[u].id, dbid |-> dbid[u], at |-> art'[u].thumb.at]
    BY WriteEntries
  <2>2. art'[u].thumb.at \in SUBSET (0 .. MaxPictures - 1)
    BY WriteFills
  <2>3. u \in Track /\ HasThumb(d, u)
    BY DEF Owners
  <2>4. d[u].id \in Id /\ d[u].id # 0
    BY <1>1, <2>3, IdentifiedTyped DEF Artwork, Writing, Numberable
  <2> QED BY <1>2, <2>1, <2>2, <2>3, <2>4
<1>7. DOMAIN stored' = present
  BY <1>1 DEF WroteRest
<1>8. ASSUME NEW t \in DOMAIN stored'
      PROVE  stored'[t] \in [dbid : Track, link : Id, cover : Image \cup {NoImage},
                             lost : BOOLEAN]
  <2> DEFINE missing == t \in lost'
  <2>1. t \in present /\ t \in Track
    BY <1>2, <1>7
  <2>2. stored'[t] = [dbid |-> dbid[t], link |-> d[t].link, cover |-> cover[t],
                      lost |-> missing]
    BY <2>1, WriteLinks
  <2>3. d[t].link \in Id
    BY <1>1, <2>1 DEF Artwork
  <2>4. missing \in BOOLEAN
    OBVIOUS
  <2> HIDE DEF missing
  <2> QED BY <1>2, <2>1, <2>2, <2>3, <2>4
<1>9. astray' \subseteq Track /\ astrayIds' \subseteq Id
  <2>1. astrayIds' \subseteq {d[u].id : u \in Owners(d)} /\ astray' \subseteq present
    BY WriteAstray
  <2>2. \A u \in Owners(d) : d[u].id \in Id
    BY <1>1 DEF Artwork
  <2> QED BY <1>2, <2>1, <2>2
<1>10. lost' \subseteq Track
  BY <1>1, <1>2 DEF WroteRest, ADTypeOK
<1> QED BY <1>2, <1>3, <1>5, <1>6, <1>7, <1>8, <1>9, <1>10 DEF ADTypeOK

(* A write keeps the covers right.                                         *)
LEMMA WriteKeeps ==
  ASSUME CoversInv, Write
  PROVE  CoversInv'
<1>1. /\ Numberable
      /\ file \in [0 .. Length(file) - 1 -> Image] /\ Length(file) \in Nat
  BY MemoryNumberable
<1>2. PICK failed : Wrote(Prepared(art), failed)
  BY WriteWrites
<1> DEFINE d == Prepared(art)
<1>3. Writing(d, failed)
  BY <1>1, <1>2 DEF Writing
<1> HIDE DEF d
<1>4. ADTypeOK'
  BY <1>3, WriteTyped DEF CoversInv
<1>5. EntriesInv' /\ StoredInv'
  BY <1>3, WriteEntriesInv
<1>6. StoredThumbsHaveIds' /\ MemoryInv'
  BY <1>3, WriteMemory
<1> QED BY <1>4, <1>5, <1>6 DEF CoversInv

-----------------------------------------------------------------------------
(* Reading what was written.                                               *)

(* The artwork of a track with the entry m.                                *)
HeldArtwork(t, m) ==
  [thumb |-> IpodThumb(m.at), id |-> m.id, own |-> TRUE, link |-> stored[t].link]

(* The first of some entries.                                              *)
LEMMA FirstEntry ==
  ASSUME ADTypeOK, NEW S \in SUBSET entries, S # {},
         NEW first, first = CHOOSE m \in S : \A n \in S : m.id <= n.id
  PROVE  first \in S
<1> DEFINE ids == {m.id : m \in S}
<1>1. \A m \in entries : m.id \in Nat
  BY ArtworkAssumption DEF ADTypeOK, Id
<1>2. ids \in SUBSET Nat /\ ids # {}
  BY <1>1
<1>3. PICK m \in S : m.id = Min(ids)
  <2>1. Min(ids) \in ids
    <3> HIDE DEF ids
    <3> QED BY <1>2, MinOf
  <2> QED BY <2>1
<1>4. \A n \in S : m.id <= n.id
  <2>1. \A i \in ids : m.id <= i
    <3> HIDE DEF ids
    <3> QED BY <1>2, <1>3, MinOf
  <2> QED BY <2>1
<1> QED BY <1>3, <1>4

(* A track gets the entry it links to; one without a link gets none, or    *)
(* that of a track with its dbid.                                          *)
LEMMA ParsedFacts ==
  ASSUME ADTypeOK, EntriesInv, NEW t \in DOMAIN stored
  PROVE  \/ \E m \in entries : /\ ParsedArtwork(t) = HeldArtwork(t, m)
                               /\ m.id = stored[t].link /\ ~Regains(t)
         \/ \E m \in entries : /\ ParsedArtwork(t) = HeldArtwork(t, m)
                               /\ stored[t].link = 0 /\ Regains(t)
         \/ ParsedArtwork(t) = NoArtwork /\ stored[t].link = 0
<1> DEFINE byDbid == {m \in entries : m.dbid = stored[t].dbid
                        /\ t = Max({u \in DOMAIN stored : stored[u].dbid = m.dbid})}
           first == CHOOSE m \in byDbid : \A n \in byDbid : m.id <= n.id
           linked == {m \in entries : m.id = stored[t].link}
           link == stored[t].link
<1>1. ParsedArtwork(t) =
        IF link # 0
          THEN IF linked # {} THEN HeldArtwork(t, CHOOSE m \in linked : TRUE) ELSE NoArtwork
        ELSE IF byDbid # {} THEN HeldArtwork(t, first) ELSE NoArtwork
  BY DEF ParsedArtwork, HeldArtwork
<1>2. CASE link # 0
  <2>1. linked # {}
    BY <1>2 DEF EntriesInv, LinksResolve
  <2> DEFINE m == CHOOSE x \in linked : TRUE
  <2>2. m \in linked
    BY <2>1
  <2>3. ParsedArtwork(t) = HeldArtwork(t, m)
    <3> HIDE DEF linked, byDbid, first
    <3> QED BY <1>1, <1>2, <2>1
  <2>4. m \in entries /\ m.id = link
    <3> HIDE DEF m
    <3> QED BY <2>2
  <2>5. ~Regains(t)
    BY <1>2 DEF Regains
  <2> HIDE DEF m
  <2> QED BY <2>3, <2>4, <2>5
<1>3. CASE link = 0 /\ byDbid # {}
  <2>1. byDbid \in SUBSET entries
    OBVIOUS
  <2>2. first \in byDbid
    <3> HIDE DEF byDbid
    <3> QED BY <1>3, <2>1, FirstEntry
  <2>3. ParsedArtwork(t) = HeldArtwork(t, first)
    <3> HIDE DEF linked, byDbid, first
    <3> QED BY <1>1, <1>3
  <2> HIDE DEF first
  <2>4. first \in entries /\ first.dbid = stored[t].dbid
    BY <2>2
  <2>5. first.id # 0
    BY <2>4 DEF ADTypeOK
  <2>6. PICK u \in DOMAIN stored : stored[u].dbid = first.dbid /\ stored[u].link = first.id
    BY <2>4 DEF EntriesInv
  <2>7. u # t
    BY <1>3, <2>5, <2>6
  <2>8. Regains(t)
    BY <1>3, <2>4, <2>6, <2>7 DEF Regains
  <2> QED BY <1>3, <2>3, <2>4, <2>8
<1>4. CASE link = 0 /\ byDbid = {}
  <2>1. ParsedArtwork(t) = NoArtwork
    <3> HIDE DEF linked, byDbid, first
    <3> QED BY <1>1, <1>4
  <2> QED BY <1>4, <2>1
<1> QED BY <1>2, <1>3, <1>4

(* What is shown for it.                                                   *)
LEMMA ShownFacts ==
  ASSUME NEW t, NEW m, ParsedArtwork(t) = HeldArtwork(t, m)
  PROVE  /\ ParsedArtwork(t).thumb = IpodThumb(m.at) /\ ParsedArtwork(t).id = m.id
         /\ ParsedArtwork(t).thumb.kind = "ipod" /\ ParsedArtwork(t).thumb.at = m.at
         /\ Shown(t) \in {NoImage} \cup {file[s] : s \in DOMAIN file}
         /\ m.at = {} => Shown(t) = NoImage
         /\ \A s \in DOMAIN file : m.at = {s} => Shown(t) = file[s]
<1> DEFINE w == IpodThumb(m.at)
<1>1. w.kind = "ipod" /\ w.at = m.at
  BY DEF IpodThumb
<1>2. ParsedArtwork(t) = [thumb |-> w, id |-> m.id, own |-> TRUE, link |-> stored[t].link]
  BY DEF HeldArtwork
<1> HIDE DEF w
<1>3. ParsedArtwork(t).thumb = w /\ ParsedArtwork(t).id = m.id
  BY <1>2
<1>4. ParsedArtwork(t).thumb.at = m.at
  BY <1>1, <1>3
<1>5. m.at = {} => Shown(t) = NoImage
  BY <1>4 DEF Shown
<1>6. ASSUME NEW s \in DOMAIN file, m.at = {s} PROVE Shown(t) = file[s]
  <2>1. m.at \cap DOMAIN file = {s}
    BY <1>6
  <2>2. (CHOOSE x \in {s} : TRUE) = s
    OBVIOUS
  <2> QED BY <1>4, <2>1, <2>2 DEF Shown
<1>7. Shown(t) \in {NoImage} \cup {file[s] : s \in DOMAIN file}
  <2> DEFINE at == m.at \cap DOMAIN file
  <2>1. Shown(t) = IF at = {} THEN NoImage ELSE file[CHOOSE s \in at : TRUE]
    BY <1>4 DEF Shown
  <2>2. at # {} => (CHOOSE s \in at : TRUE) \in at
    OBVIOUS
  <2> QED BY <2>1, <2>2
<1> QED BY <1>1, <1>3, <1>4, <1>5, <1>6, <1>7 DEF w

LEMMA ShownNothing ==
  ASSUME NEW t, ParsedArtwork(t) = NoArtwork
  PROVE  /\ Shown(t) = NoImage /\ ParsedArtwork(t).thumb.kind = "none"
         /\ ParsedArtwork(t).id = 0
BY DEF Shown, NoArtwork, NoThumb

(* So what is stored is right.                                             *)
LEMMA StoredRight ==
  ASSUME ADTypeOK, EntriesInv, StoredInv
  PROVE  StoredCoversRight
<1> SUFFICES ASSUME NEW t \in DOMAIN stored, stored[t].link \notin astrayIds
             PROVE  \/ Shown(t) = stored[t].cover
                    \/ stored[t].lost /\ Shown(t) = NoImage
                    \/ Regains(t)
  BY DEF StoredCoversRight
<1>1. ASSUME NEW m \in entries, ParsedArtwork(t) = HeldArtwork(t, m), m.id = stored[t].link
      PROVE  \/ Shown(t) = stored[t].cover
             \/ stored[t].lost /\ Shown(t) = NoImage
  <2>1. ShowsAt(file, m.at, stored[t].cover, stored[t].lost)
    BY <1>1 DEF StoredInv
  <2>2. CASE m.at = {} /\ (stored[t].lost \/ stored[t].cover = NoImage)
    BY <1>1, <2>2, ShownFacts
  <2>3. ASSUME NEW s \in DOMAIN file, m.at = {s}, file[s] = stored[t].cover
        PROVE  Shown(t) = stored[t].cover
    BY <1>1, <2>3, ShownFacts
  <2> QED BY <2>1, <2>2, <2>3 DEF ShowsAt
<1>2. CASE ParsedArtwork(t) = NoArtwork /\ stored[t].link = 0
  <2>1. stored[t].cover = NoImage
    BY <1>2 DEF StoredInv
  <2> QED BY <1>2, <2>1, ShownNothing
<1> QED BY <1>1, <1>2, ParsedFacts

(* What a parse gives a track.                                             *)
LEMMA ParseGives ==
  ASSUME CoversInv, Parse, NEW t \in DOMAIN stored
  PROVE  /\ t \in Track /\ art'[t] = ParsedArtwork(t)
         /\ cover'[t] = IF Regains(t) THEN Shown(t) ELSE stored[t].cover
         /\ t \in lost' <=> stored[t].lost
<1>1. DOMAIN stored \subseteq Track
  BY DEF CoversInv, ADTypeOK
<1> QED BY <1>1 DEF Parse

LEMMA ParseHolds ==
  ASSUME CoversInv, Parse, NEW t \in DOMAIN stored
  PROVE  /\ NoneRight(t)'
         /\ art'[t] \in Artwork /\ cover'[t] \in Image \cup {NoImage}
         /\ \/ art'[t].thumb.kind = "none" /\ art'[t].id = 0 /\ art'[t].thumb.at = {}
            \/ /\ art'[t].thumb.kind = "ipod" /\ (t \in astray' <=> art'[t].id \in astrayIds)
               /\ \E m \in entries :
                    /\ art'[t].thumb.at = m.at /\ art'[t].id = m.id
                    /\ m.id \notin astrayIds => ShowsAt(file, m.at, cover'[t], t \in lost')
<1>1. /\ art'[t] = ParsedArtwork(t)
      /\ cover'[t] = IF Regains(t) THEN Shown(t) ELSE stored[t].cover
      /\ t \in lost' <=> stored[t].lost
      /\ file' = file /\ (t \in astray' <=> art'[t].id \in astrayIds)
  BY ParseGives DEF Parse, disk
<1>2. /\ ADTypeOK /\ EntriesInv /\ StoredInv
      /\ stored[t] \in [dbid : Track, link : Id, cover : Image \cup {NoImage},
                        lost : BOOLEAN]
  BY DEF CoversInv, ADTypeOK
<1>3. \A s \in DOMAIN file : file[s] \in Image
  BY <1>2 DEF ADTypeOK
<1>4. ASSUME NEW m \in entries, ParsedArtwork(t) = HeldArtwork(t, m)
      PROVE  /\ art'[t] \in Artwork /\ art'[t].id = m.id
             /\ art'[t].thumb.at = m.at /\ art'[t].thumb.kind = "ipod"
             /\ m.at = {} => Shown(t) = NoImage
             /\ \A s \in DOMAIN file : m.at = {s} => Shown(t) = file[s]
             /\ Shown(t) \in Image \cup {NoImage}
             /\ m.id \notin astrayIds => m.at = {} \/ \E s \in DOMAIN file : m.at = {s}
             /\ m.id # 0
  <2>1. m.id \in Id /\ m.id # 0
    BY <1>2 DEF ADTypeOK
  <2>2. /\ m.at = {} \/ \E s \in 0 .. MaxPictures - 1 : m.at = {s}
        /\ m.id \notin astrayIds => m.at \in SUBSET DOMAIN file
    BY <1>2 DEF EntriesInv
  <2>3. IpodThumb(m.at) \in Thumbnail
    BY <2>2 DEF Thumbnail
  <2> DEFINE w == IpodThumb(m.at)
  <2>4. art'[t] = [thumb |-> w, id |-> m.id, own |-> TRUE, link |-> stored[t].link]
    BY <1>1, <1>4 DEF HeldArtwork
  <2>5. art'[t] \in Artwork
    <3> HIDE DEF w
    <3>1. w \in Thumbnail
      BY <2>3 DEF w
    <3> QED BY <1>2, <2>1, <2>4, <3>1 DEF Artwork
  <2>6. /\ art'[t].id = m.id /\ art'[t].thumb.at = m.at /\ art'[t].thumb.kind = "ipod"
        /\ m.at = {} => Shown(t) = NoImage
        /\ \A s \in DOMAIN file : m.at = {s} => Shown(t) = file[s]
        /\ Shown(t) \in {NoImage} \cup {file[s] : s \in DOMAIN file}
    BY <1>1, <1>4, ShownFacts
  <2>7. Shown(t) \in Image \cup {NoImage}
    BY <1>3, <2>6
  <2>8. m.id \notin astrayIds => m.at = {} \/ \E s \in DOMAIN file : m.at = {s}
    BY <2>2
  <2> QED BY <2>1, <2>5, <2>6, <2>7, <2>8
<1>5. ASSUME NEW m \in entries, ParsedArtwork(t) = HeldArtwork(t, m),
             m.id = stored[t].link, ~Regains(t)
      PROVE  /\ cover'[t] \in Image \cup {NoImage}
             /\ m.id \notin astrayIds => ShowsAt(file, m.at, cover'[t], t \in lost')
  <2>1. cover'[t] = stored[t].cover
    BY <1>1, <1>5
  <2>2. m.id \notin astrayIds => ShowsAt(file, m.at, stored[t].cover, stored[t].lost)
    BY <1>2, <1>5 DEF StoredInv
  <2> QED BY <1>1, <1>2, <2>1, <2>2 DEF ShowsAt
<1>6. ASSUME NEW m \in entries, ParsedArtwork(t) = HeldArtwork(t, m), Regains(t)
      PROVE  /\ cover'[t] \in Image \cup {NoImage}
             /\ m.id \notin astrayIds => ShowsAt(file, m.at, cover'[t], t \in lost')
  <2>1. cover'[t] = Shown(t)
    BY <1>1, <1>6
  <2> QED BY <1>4, <1>6, <2>1 DEF ShowsAt
<1>7. CASE ParsedArtwork(t) = NoArtwork /\ stored[t].link = 0
  <2>1. /\ Shown(t) = NoImage /\ art'[t].thumb.kind = "none" /\ art'[t].id = 0
        /\ art'[t].thumb.at = {}
    BY <1>1, <1>7, ShownNothing DEF NoArtwork, NoThumb
  <2>2. cover'[t] = NoImage
    BY <1>1, <1>2, <1>7, <2>1 DEF StoredInv
  <2>3. art'[t] \in Artwork
    BY <1>1, <1>7 DEF NoArtwork, Artwork, Thumbnail, Id
  <2> QED BY <2>1, <2>2, <2>3 DEF NoneRight
<1>8. ASSUME NEW m \in entries, ParsedArtwork(t) = HeldArtwork(t, m),
             (m.id = stored[t].link /\ ~Regains(t)) \/ Regains(t)
      PROVE  /\ art'[t] \in Artwork /\ cover'[t] \in Image \cup {NoImage}
             /\ art'[t].thumb.kind = "ipod" /\ art'[t].thumb.at = m.at /\ art'[t].id = m.id
             /\ m.id \notin astrayIds => ShowsAt(file, m.at, cover'[t], t \in lost')
  BY <1>4, <1>5, <1>6, <1>8
<1>9. art'[t].thumb.kind = "ipod" => NoneRight(t)'
  BY DEF NoneRight
<1> QED BY <1>1, <1>7, <1>8, <1>9, ParsedFacts, <1>2

(* A parse keeps the covers right.                                         *)
LEMMA ParseKeeps ==
  ASSUME CoversInv, Parse
  PROVE  CoversInv'
<1>1. /\ ADTypeOK /\ EntriesInv /\ StoredInv
      /\ UNCHANGED <<sparse, file, entries, stored, astrayIds, edits>>
      /\ present' = DOMAIN stored /\ DOMAIN stored \subseteq Track
  BY DEF CoversInv, Parse, disk, ADTypeOK
<1>2. EntriesInv' /\ StoredInv'
  BY <1>1 DEF EntriesInv, StoredInv, LinksResolve, ShowsAt
<1>3. \A t \in present' :
        /\ NoneRight(t)'
        /\ \/ art'[t].thumb.kind = "none" /\ art'[t].id = 0 /\ art'[t].thumb.at = {}
           \/ /\ art'[t].thumb.kind = "ipod" /\ (t \in astray' <=> art'[t].id \in astrayIds)
              /\ \E m \in entries :
                   /\ art'[t].thumb.at = m.at /\ art'[t].id = m.id
                   /\ m.id \notin astrayIds => ShowsAt(file, m.at, cover'[t], t \in lost')
  BY <1>1, ParseHolds
<1>4. \A m \in entries : m.id # 0
  BY <1>1 DEF ADTypeOK
<1>5. StoredThumbsHaveIds'
  <2>1. \A t \in present' : art'[t].thumb.kind = "ipod" => art'[t].id # 0
    BY <1>3, <1>4
  <2> QED BY <2>1 DEF StoredThumbsHaveIds
<1>6. ASSUME NEW t \in present', NEW u \in present', Shares(t, u)' PROVE Holds(u, t)'
  <2>1. art'[u].thumb.kind # "new"
    BY <1>3
  <2>2. ASSUME art'[u].thumb.kind = "ipod", u \notin astray'
        PROVE  ShowsAt(file, art'[u].thumb.at, cover'[t], t \in lost')
    <3>1. PICK m \in entries : art'[u].thumb.at = m.at /\ art'[u].id = m.id
      BY <1>3, <2>2
    <3>2. m.id \notin astrayIds /\ m.id # 0
      BY <1>3, <1>4, <2>2, <3>1
    <3>3. art'[t].id = m.id
      BY <1>6, <3>1 DEF Shares
    <3>4. PICK n \in entries :
            /\ art'[t].id = n.id
            /\ n.id \notin astrayIds => ShowsAt(file, n.at, cover'[t], t \in lost')
      BY <1>3, <3>2, <3>3
    <3>5. n = m
      BY <1>1, <3>3, <3>4 DEF EntriesInv
    <3> QED BY <3>1, <3>2, <3>4, <3>5
  <2> QED BY <1>1, <2>1, <2>2 DEF Holds
<1>7. ASSUME sparse, NEW t \in present' \ astray', NEW u \in present' \ astray',
             art'[t].thumb.at \cap art'[u].thumb.at # {}
      PROVE  art'[t].id = art'[u].id
  <2>1. PICK m \in entries : art'[t].thumb.at = m.at /\ art'[t].id = m.id
                             /\ m.id \notin astrayIds
    BY <1>3, <1>7
  <2>2. PICK n \in entries : art'[u].thumb.at = n.at /\ art'[u].id = n.id
                             /\ n.id \notin astrayIds
    BY <1>3, <1>7
  <2>3. m = n
    BY <1>1, <1>7, <2>1, <2>2 DEF EntriesInv
  <2> QED BY <2>1, <2>2, <2>3
<1>8. MemoryInv'
  BY <1>1, <1>3, <1>6, <1>7 DEF MemoryInv, SlotsApart
<1>9. ADTypeOK'
  <2>1. art' \in [Track -> Artwork]
    <3>1. \A t \in Track \ DOMAIN stored : art'[t] = NoArtwork
      BY DEF Parse
    <3>2. NoArtwork \in Artwork
      BY DEF NoArtwork, Artwork, Thumbnail, Id
    <3>3. art' = [t \in Track |-> art'[t]]
      BY DEF Parse
    <3>4. \A t \in Track : art'[t] \in Artwork
      BY <3>1, <3>2, ParseHolds
    <3> QED BY <3>3, <3>4
  <2>2. cover' \in [Track -> Image \cup {NoImage}]
    <3>1. \A t \in Track \ DOMAIN stored : cover'[t] = NoImage
      BY DEF Parse
    <3>2. cover' = [t \in Track |-> cover'[t]]
      BY DEF Parse
    <3>3. \A t \in Track : cover'[t] \in Image \cup {NoImage}
      BY <3>1, ParseHolds
    <3> QED BY <3>2, <3>3
  <2>3. dbid' \in [Track -> Track]
    <3>1. \A t \in DOMAIN stored : stored[t].dbid \in Track
      BY <1>1 DEF ADTypeOK
    <3> QED BY <3>1 DEF Parse
  <2>4. lost' \subseteq Track /\ astray' \subseteq Track
    BY <1>1 DEF Parse
  <2> QED BY <1>1, <2>1, <2>2, <2>3, <2>4 DEF ADTypeOK
<1> QED BY <1>2, <1>5, <1>9, <1>8 DEF CoversInv

-----------------------------------------------------------------------------
(* Changes in memory.                                                      *)

(* A track whose cover is not changed, or a copy of it.                    *)
Kept(x, y) ==
  /\ art'[y] = art[x] /\ cover'[y] = cover[x]
  /\ x \in lost => y \in lost'
  /\ x \in astray => y \in astray'

(* A track whose cover was set or removed.                                 *)
Fresh(y) ==
  /\ art'[y].id = 0 /\ art'[y].thumb.at = {} /\ art'[y].thumb.kind # "ipod"
  /\ art'[y].thumb.kind = "new" => art'[y].thumb.picture = cover'[y]
  /\ art'[y].thumb.kind = "none" => cover'[y] = NoImage

(* A change leaves what is on the iPod, and the tracks that it is not      *)
(* about.                                                                  *)
LEMMA EditKeeps ==
  ASSUME CoversInv, Edit, UNCHANGED <<sparse, disk>>,
         present' \subseteq Track, dbid' \in [Track -> Track],
         art' \in [Track -> Artwork],
         cover' \in [Track -> Image \cup {NoImage}],
         lost' \subseteq Track, astray' \subseteq Track,
         \A y \in present' : Fresh(y) \/ \E x \in present : Kept(x, y)
  PROVE  CoversInv'
<1>1. ADTypeOK'
  <2>1. edits' \in 0 .. MaxEdits[sparse]
    <3>1. MaxEdits[sparse] \in Nat /\ edits \in 0 .. MaxEdits[sparse]
      BY ArtworkAssumption DEF CoversInv, ADTypeOK
    <3> QED BY <3>1 DEF Edit
  <2> QED BY <2>1 DEF CoversInv, ADTypeOK, disk
<1>2. EntriesInv' /\ StoredInv'
  BY DEF CoversInv, EntriesInv, StoredInv, LinksResolve, ShowsAt, disk
<1>3. /\ StoredThumbsHaveIds /\ \A t \in present : NoneRight(t)
      /\ \A t, u \in present : Shares(t, u) => Holds(u, t)
      /\ sparse => SlotsApart
  BY DEF CoversInv, MemoryInv
<1>4. StoredThumbsHaveIds'
  BY <1>3 DEF StoredThumbsHaveIds, Kept, Fresh
<1>5. ASSUME NEW t \in present' PROVE NoneRight(t)'
  BY <1>3 DEF NoneRight, Kept, Fresh
<1>6. ASSUME NEW t \in present', NEW u \in present', Shares(t, u)' PROVE Holds(u, t)'
  <2>1. CASE Fresh(u)
    <3>1. art'[u].thumb.kind = "new" => art'[u].thumb.picture = cover'[t]
      BY <1>6, <2>1 DEF Fresh, Shares
    <3> QED BY <2>1, <3>1 DEF Fresh, Holds
  <2>2. ASSUME NEW x \in present, Kept(x, u) PROVE Holds(u, t)'
    <3>1. PICK y \in present : Kept(y, t) /\ Shares(y, x)
      <4>1. CASE t = u
        BY <2>2, <4>1 DEF Shares
      <4>2. CASE t # u
        <5>1. art'[t].id # 0 /\ art'[t].id = art'[u].id
          BY <1>6, <4>2 DEF Shares
        <5>2. PICK y \in present : Kept(y, t)
          BY <5>1 DEF Fresh
        <5> QED BY <2>2, <5>1, <5>2 DEF Kept, Shares
      <4> QED BY <4>1, <4>2
    <3>2. Holds(x, y)
      BY <1>3, <3>1
    <3>3. art'[u] = art[x] /\ cover'[t] = cover[y] /\ (y \in lost => t \in lost')
          /\ (x \in astray => u \in astray') /\ file' = file
      BY <2>2, <3>1 DEF Kept, disk
    <3> QED BY <3>2, <3>3 DEF Holds, ShowsAt
  <2> QED BY <2>1, <2>2
<1>7. ASSUME sparse, NEW t \in present' \ astray', NEW u \in present' \ astray',
             art'[t].thumb.at \cap art'[u].thumb.at # {}
      PROVE  art'[t].id = art'[u].id
  <2>1. PICK x \in present \ astray : art'[t] = art[x]
    BY <1>7 DEF Kept, Fresh
  <2>2. PICK y \in present \ astray : art'[u] = art[y]
    BY <1>7 DEF Kept, Fresh
  <2> QED BY <1>3, <1>7, <2>1, <2>2 DEF SlotsApart
<1>8. MemoryInv'
  BY <1>5, <1>6, <1>7 DEF MemoryInv, SlotsApart
<1> QED BY <1>1, <1>2, <1>4, <1>8 DEF CoversInv

LEMMA SetThumbnailsKeeps ==
  ASSUME CoversInv, NEW t \in Track, NEW p \in Image, SetThumbnails(t, p)
  PROVE  CoversInv'
<1>1. /\ Edit /\ t \in present /\ UNCHANGED <<sparse, present, dbid, disk>>
      /\ cover' = [cover EXCEPT ![t] = p] /\ lost' = lost \ {t}
      /\ astray' = astray \ {t}
  BY DEF SetThumbnails, disk
<1>2. ADTypeOK /\ art \in [Track -> Artwork]
  BY DEF CoversInv, ADTypeOK
<1> DEFINE w == NewThumb(p)
<1>3. /\ w \in Thumbnail /\ w.kind = "new" /\ w.picture = p /\ w.at = {}
  BY DEF Thumbnail, NewThumb
<1>4. art' = [art EXCEPT ![t].thumb = w, ![t].id = 0]
  BY DEF SetThumbnails
<1> HIDE DEF w
<1>5. art[t] = [thumb |-> art[t].thumb, id |-> art[t].id, own |-> art[t].own,
                link |-> art[t].link] /\ art[t] \in Artwork
  BY <1>2 DEF Artwork
<1>6. art'[t] = [thumb |-> w, id |-> 0, own |-> art[t].own, link |-> art[t].link]
  BY <1>2, <1>4, <1>5
<1>7. art'[t].thumb = w /\ art'[t].id = 0
  BY <1>6
<1>8. \A u \in Track \ {t} : art'[u] = art[u] /\ cover'[u] = cover[u]
  BY <1>1, <1>2, <1>4 DEF ADTypeOK
<1>9. cover'[t] = p
  BY <1>1, <1>2 DEF ADTypeOK
<1>10. Fresh(t)
  BY <1>3, <1>7, <1>9 DEF Fresh
<1>11. \A u \in present : u \in Track
  BY <1>2 DEF ADTypeOK
<1>12. \A u \in present \ {t} : Kept(u, u)
  BY <1>1, <1>8, <1>11 DEF Kept
<1>13. art' \in [Track -> Artwork]
  <2>1. art'[t] \in Artwork
    BY <1>3, <1>5, <1>6 DEF Artwork, Id
  <2>2. art' = [u \in Track |-> art'[u]]
    BY <1>2, <1>4
  <2> QED BY <1>2, <1>8, <2>1, <2>2
<1>14. /\ present' \subseteq Track /\ dbid' \in [Track -> Track]
       /\ cover' \in [Track -> Image \cup {NoImage}] /\ lost' \subseteq Track
       /\ astray' \subseteq Track
  BY <1>1, <1>2 DEF ADTypeOK
<1> QED BY <1>1, <1>10, <1>12, <1>13, <1>14, EditKeeps

LEMMA RemoveThumbnailsKeeps ==
  ASSUME CoversInv, NEW t \in Track, RemoveThumbnails(t)
  PROVE  CoversInv'
<1>1. /\ Edit /\ t \in present /\ UNCHANGED <<sparse, present, dbid, disk>>
      /\ cover' = [cover EXCEPT ![t] = NoImage] /\ lost' = lost \ {t}
      /\ astray' = astray \ {t}
  BY DEF RemoveThumbnails, disk
<1>2. ADTypeOK /\ art \in [Track -> Artwork]
  BY DEF CoversInv, ADTypeOK
<1> DEFINE w == NoThumb
<1>3. w \in Thumbnail /\ w.kind = "none" /\ w.at = {}
  BY DEF Thumbnail, NoThumb
<1>4. art' = [art EXCEPT ![t].thumb = w, ![t].id = 0, ![t].link = 0]
  BY DEF RemoveThumbnails
<1> HIDE DEF w
<1>5. art[t] = [thumb |-> art[t].thumb, id |-> art[t].id, own |-> art[t].own,
                link |-> art[t].link] /\ art[t] \in Artwork
  BY <1>2 DEF Artwork
<1>6. art'[t] = [thumb |-> w, id |-> 0, own |-> art[t].own, link |-> 0]
  BY <1>2, <1>4, <1>5
<1>7. art'[t].thumb = w /\ art'[t].id = 0
  BY <1>6
<1>8. \A u \in Track \ {t} : art'[u] = art[u] /\ cover'[u] = cover[u]
  BY <1>1, <1>2, <1>4 DEF ADTypeOK
<1>9. cover'[t] = NoImage
  BY <1>1, <1>2 DEF ADTypeOK
<1>10. Fresh(t)
  BY <1>3, <1>7, <1>9 DEF Fresh
<1>11. \A u \in present : u \in Track
  BY <1>2 DEF ADTypeOK
<1>12. \A u \in present \ {t} : Kept(u, u)
  BY <1>1, <1>8, <1>11 DEF Kept
<1>13. art' \in [Track -> Artwork]
  <2>1. art'[t] \in Artwork
    BY <1>3, <1>5, <1>6 DEF Artwork, Id
  <2>2. art' = [u \in Track |-> art'[u]]
    BY <1>2, <1>4
  <2> QED BY <1>2, <1>8, <2>1, <2>2
<1>14. /\ present' \subseteq Track /\ dbid' \in [Track -> Track]
       /\ cover' \in [Track -> Image \cup {NoImage}] /\ lost' \subseteq Track
       /\ astray' \subseteq Track
  BY <1>1, <1>2 DEF ADTypeOK
<1> QED BY <1>1, <1>10, <1>12, <1>13, <1>14, EditKeeps

LEMMA RemoveTrackKeeps ==
  ASSUME CoversInv, NEW t \in Track, RemoveTrack(t)
  PROVE  CoversInv'
<1>1. /\ Edit /\ t \in present /\ present' = present \ {t} /\ UNCHANGED <<sparse, disk>>
      /\ art' = [art EXCEPT ![t] = NoArtwork] /\ dbid' = [dbid EXCEPT ![t] = t]
      /\ cover' = [cover EXCEPT ![t] = NoImage] /\ lost' = lost \ {t}
      /\ astray' = astray \ {t}
  BY DEF RemoveTrack
<1>2. /\ ADTypeOK /\ art \in [Track -> Artwork] /\ NoArtwork \in Artwork
  BY DEF CoversInv, ADTypeOK, NoArtwork, Artwork, Thumbnail, Id
<1>3. \A u \in Track \ {t} : art'[u] = art[u] /\ cover'[u] = cover[u]
  BY <1>1, <1>2 DEF ADTypeOK
<1>4. \A u \in present' : u \in present \ {t} /\ u \in Track
  BY <1>1, <1>2 DEF ADTypeOK
<1>5. \A u \in present' : Kept(u, u)
  BY <1>1, <1>3, <1>4 DEF Kept
<1>6. /\ present' \subseteq Track /\ dbid' \in [Track -> Track] /\ art' \in [Track -> Artwork]
      /\ cover' \in [Track -> Image \cup {NoImage}]
      /\ lost' \subseteq Track /\ astray' \subseteq Track
  BY <1>1, <1>2 DEF ADTypeOK
<1> QED BY <1>1, <1>4, <1>5, <1>6, EditKeeps

LEMMA DuplicateKeeps ==
  ASSUME CoversInv, NEW t \in Track, NEW u \in Track, Duplicate(t, u)
  PROVE  CoversInv'
<1>1. /\ Edit /\ t \in present /\ u \in Track \ present /\ present' = present \cup {u}
      /\ UNCHANGED <<sparse, disk>>
      /\ art' = [art EXCEPT ![u] = art[t]] /\ dbid' = [dbid EXCEPT ![u] = dbid[t]]
      /\ cover' = [cover EXCEPT ![u] = cover[t]]
      /\ lost' = IF t \in lost THEN lost \cup {u} ELSE lost
      /\ astray' = IF t \in astray THEN astray \cup {u} ELSE astray
  BY DEF Duplicate
<1>2. ADTypeOK /\ art \in [Track -> Artwork] /\ art[t] \in Artwork
  BY DEF CoversInv, ADTypeOK
<1>3. \A x \in Track \ {u} : art'[x] = art[x] /\ cover'[x] = cover[x]
  BY <1>1, <1>2 DEF ADTypeOK
<1>4. art'[u] = art[t] /\ cover'[u] = cover[t]
  BY <1>1, <1>2 DEF ADTypeOK
<1>5. \A x \in present : x \in Track \ {u}
  BY <1>1, <1>2 DEF ADTypeOK
<1>6. (\A x \in present : Kept(x, x)) /\ Kept(t, u)
  BY <1>1, <1>3, <1>4, <1>5 DEF Kept
<1>7. /\ present' \subseteq Track /\ dbid' \in [Track -> Track] /\ art' \in [Track -> Artwork]
      /\ cover' \in [Track -> Image \cup {NoImage}]
      /\ lost' \subseteq Track /\ astray' \subseteq Track
  BY <1>1, <1>2 DEF ADTypeOK
<1> QED BY <1>1, <1>6, <1>7, EditKeeps

-----------------------------------------------------------------------------
LEMMA CoversInvInit == ADInit => CoversInv
<1> SUFFICES ASSUME ADInit PROVE CoversInv
  OBVIOUS
<1>1. /\ file \in [{} -> Image] /\ DOMAIN file = {} /\ entries = {}
      /\ art = [t \in Track |-> NoArtwork] /\ present = Track
      /\ stored = [t \in Track |-> [dbid |-> t, link |-> 0, cover |-> NoImage,
                                    lost |-> FALSE]]
      /\ cover = [t \in Track |-> NoImage] /\ sparse \in BOOLEAN
      /\ edits = 0 /\ lost = {} /\ astray = {} /\ astrayIds = {}
      /\ dbid = [t \in Track |-> t]
  BY DEF ADInit
<1>2. Length(file) = 0 /\ Cardinality(entries) = 0
  BY <1>1, FS_EmptySet DEF Length
<1>3. /\ NoArtwork \in Artwork /\ NoArtwork.thumb.kind = "none" /\ NoArtwork.id = 0
      /\ NoArtwork.thumb.at = {}
  BY DEF NoArtwork, NoThumb, Artwork, Thumbnail, Id
<1>4. ADTypeOK
  <2>1. file \in [0 .. Length(file) - 1 -> Image]
    <3>1. 0 .. 0 - 1 = {}
      OBVIOUS
    <3> QED BY <1>1, <1>2, <3>1
  <2>2. MaxEdits[sparse] \in Nat /\ MaxPictures \in Nat
    BY <1>1, ArtworkAssumption
  <2>3. \A t \in DOMAIN stored :
          /\ t \in Track
          /\ stored[t] \in [dbid : Track, link : Id, cover : Image \cup {NoImage},
                            lost : BOOLEAN]
    BY <1>1 DEF Id
  <2>4. /\ edits \in 0 .. MaxEdits[sparse]
        /\ Length(file) \in 0 .. MaxPictures
    BY <1>1, <1>2, <2>2
  <2> QED BY <1>1, <1>3, <2>1, <2>3, <2>4 DEF ADTypeOK
<1>5. StoredThumbsHaveIds
  BY <1>1, <1>3 DEF StoredThumbsHaveIds
<1>6. EntriesInv
  <2>1. {m.id : m \in entries} = {}
    BY <1>1
  <2>2. MinId .. MinId + Cardinality(entries) - 1 = {}
    <3>1. MinId \in Nat
      BY ArtworkAssumption
    <3>2. MinId .. MinId + 0 - 1 = {}
      BY <3>1
    <3> QED BY <1>2, <3>2
  <2>3. \A t \in DOMAIN stored : stored[t].link = 0
    BY <1>1
  <2>4. LinksResolve
    BY <2>1, <2>2, <2>3 DEF LinksResolve
  <2> QED BY <1>1, <2>4 DEF EntriesInv
<1>7. StoredInv
  BY <1>1 DEF StoredInv
<1>8. MemoryInv
  <2>1. \A t \in present : NoneRight(t) /\ art[t] = NoArtwork
    BY <1>1, <1>3 DEF NoneRight
  <2>2. SlotsApart /\ \A t, u \in present : Holds(u, t)
    BY <1>3, <2>1 DEF SlotsApart, Holds
  <2> QED BY <2>1, <2>2 DEF MemoryInv
<1> QED BY <1>4, <1>5, <1>6, <1>7, <1>8 DEF CoversInv

LEMMA CoversInvNext ==
  ASSUME CoversInv, [ADNext]_ADvars
  PROVE  CoversInv'
<1>1. ASSUME NEW t \in Track, NEW p \in Image, SetThumbnails(t, p) PROVE CoversInv'
  BY <1>1, SetThumbnailsKeeps
<1>2. ASSUME NEW t \in Track, RemoveThumbnails(t) PROVE CoversInv'
  BY <1>2, RemoveThumbnailsKeeps
<1>3. ASSUME NEW t \in Track, RemoveTrack(t) PROVE CoversInv'
  BY <1>3, RemoveTrackKeeps
<1>4. ASSUME NEW t \in Track, NEW u \in Track, Duplicate(t, u) PROVE CoversInv'
  BY <1>4, DuplicateKeeps
<1>5. CASE Write
  BY <1>5, WriteKeeps
<1>6. CASE Parse
  BY <1>6, ParseKeeps
<1>7. CASE UNCHANGED ADvars
  BY <1>7 DEF ADvars, CoversInv, ADTypeOK, StoredThumbsHaveIds, EntriesInv, LinksResolve,
       StoredInv, MemoryInv, NoneRight, Shares, Holds, SlotsApart, ShowsAt
<1> QED BY <1>1, <1>2, <1>3, <1>4, <1>5, <1>6, <1>7 DEF ADNext

(* Covers stay right through all parses, changes and writes, until their   *)
(* thumbnails go astray.                                                   *)
THEOREM CoversInvariant == ADSpec => []CoversInv
<1>1. ADInit => CoversInv
  BY CoversInvInit
<1>2. CoversInv /\ [ADNext]_ADvars => CoversInv'
  BY CoversInvNext
<1> QED BY <1>1, <1>2, PTL DEF ADSpec

(* ipod_artwork_db_set_ids, ipod_artwork_mark_new_doubles and              *)
(* mhfd_associate_itunesdb_artwork: every stored track shows its cover, as *)
(* long as the entry it links to was not made from a thumbnail that had    *)
(* gone astray.                                                            *)
THEOREM StoredCoversRightCorrect == ADSpec => []StoredCoversRight
<1>1. CoversInv => StoredCoversRight
  BY StoredRight DEF CoversInv
<1> QED BY <1>1, CoversInvariant, PTL

(* The links of iTunesDB lead to entries of ArtworkDB, the ids of these    *)
(* have no gaps, and thumbnails on the iPod have ids, after any number of  *)
(* writes.                                                                 *)
THEOREM DatabaseSoundCorrect == ADSpec => []DatabaseSound
<1>1. CoversInv => DatabaseSound
  BY DEF CoversInv, EntriesInv, DatabaseSound
<1> QED BY <1>1, CoversInvariant, PTL

(* write_mhfd after ithmb_rearrange_existing_thumbnails: the file has the  *)
(* pictures of the entries and no others, shared ones once, unless an      *)
(* entry was made from a thumbnail that had gone astray.                   *)
THEOREM NoPictureWastedCorrect == ADSpec => []NoPictureWasted
<1>1. CoversInv => NoPictureWasted
  BY DEF CoversInv, EntriesInv, NoPictureWasted
<1> QED BY <1>1, CoversInvariant, PTL
==============================================================================
