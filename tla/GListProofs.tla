---------------------------- MODULE GListProofs ----------------------------
(* What the list functions return, for lists of any length.                *)
EXTENDS GList, SequenceTheorems, WellFoundedInduction, TLAPS

(* A set of natural numbers that is not empty has a least element.         *)
LEMMA LeastNatural ==
  ASSUME NEW T \in SUBSET Nat, T # {}
  PROVE  \E n \in T : \A m \in T : n <= m
<1> DEFINE R == {ss \in Nat \X Nat : ss[1] < ss[2]}
<1>1. IsWellFoundedOn(R, Nat)
  BY NatLessThanWellFounded DEF OpToRel
<1>2. \E n \in T : \A m \in T : <<m, n>> \notin R
  <2> HIDE DEF R
  <2> QED BY <1>1, WFMin
<1>3. PICK n \in T : \A m \in T : <<m, n>> \notin R
  BY <1>2
<1>4. ASSUME NEW m \in T PROVE n <= m
  <2>1. <<m, n>> \notin R /\ m \in Nat /\ n \in Nat
    BY <1>3
  <2>2. ~ (m < n)
    BY <2>1
  <2> QED BY <2>1, <2>2
<1> QED BY <1>4

(* Induction, for a set of numbers.                                        *)
LEMMA EveryNatural ==
  ASSUME NEW T \in SUBSET Nat, 0 \in T, \A n \in T : n + 1 \in T
  PROVE  \A n \in Nat : n \in T
<1> DEFINE Bad == Nat \ T
<1>1. Bad = {}
  <2> SUFFICES ASSUME Bad # {} PROVE FALSE
    OBVIOUS
  <2>1. PICK m \in Bad : \A k \in Bad : m <= k
    BY LeastNatural
  <2>2. m # 0 /\ m \in Nat
    BY <2>1
  <2>3. m - 1 \in Nat /\ ~(m <= m - 1) /\ (m - 1) + 1 = m
    BY <2>2
  <2>4. m - 1 \in T
    BY <2>1, <2>3
  <2>5. m \in T
    BY <2>3, <2>4
  <2> QED BY <2>1, <2>5
<1> QED BY <1>1

(* What InsertAt returns, place by place.                                  *)
LEMMA InsertAtPlaces ==
  ASSUME NEW S, NEW list \in Seq(S), NEW x \in S, NEW place \in Places(list)
  PROVE  LET new == InsertAt(list, place, x)
         IN /\ new \in Seq(S)
            /\ Len(new) = Len(list) + 1
            /\ \A i \in 1 .. Len(list) + 1 :
                 new[i] = IF i < place THEN list[i]
                          ELSE IF i = place THEN x ELSE list[i - 1]
<1> DEFINE before == SubSeq(list, 1, place - 1)
           after == SubSeq(list, place, Len(list))
<1>1. place \in 1 .. Len(list) + 1 /\ Len(list) \in Nat
  BY DEF Places
<1>2. /\ before \in Seq(S) /\ Len(before) = place - 1
      /\ \A i \in 1 .. place - 1 : before[i] = list[i]
  <2>1. \A i \in 1 .. place - 1 : list[i] \in S
    BY <1>1
  <2> QED BY <1>1, <2>1, SubSeqProperties
<1>3. /\ after \in Seq(S) /\ Len(after) = Len(list) - place + 1
      /\ \A i \in 1 .. Len(list) - place + 1 : after[i] = list[place + i - 1]
  <2>1. \A i \in place .. Len(list) : list[i] \in S
    BY <1>1
  <2> QED BY <1>1, <2>1, SubSeqProperties
<1>4. /\ <<x>> \in Seq(S) /\ Len(<<x>>) = 1 /\ <<x>>[1] = x
  OBVIOUS
<1> DEFINE front == before \o <<x>>
           new == front \o after
<1> HIDE DEF before, after
<1>5. /\ front \in Seq(S) /\ Len(front) = place
      /\ \A i \in 1 .. place : front[i] = IF i < place THEN list[i] ELSE x
  BY <1>1, <1>2, <1>4, ConcatProperties
<1> HIDE DEF front
<1>6. /\ new \in Seq(S)
      /\ Len(new) = Len(front) + Len(after)
      /\ \A i \in 1 .. Len(front) + Len(after) :
           new[i] = IF i <= Len(front) THEN front[i] ELSE after[i - Len(front)]
  BY <1>3, <1>5, ConcatProperties
<1> HIDE DEF new
<1>7. Len(new) = Len(list) + 1
  BY <1>1, <1>3, <1>5, <1>6
<1>8. ASSUME NEW i \in 1 .. Len(list) + 1
      PROVE  new[i] = IF i < place THEN list[i]
                      ELSE IF i = place THEN x ELSE list[i - 1]
  <2>1. CASE i <= place
    BY <1>1, <1>3, <1>5, <1>6, <2>1
  <2>2. CASE i > place
    <3>1. new[i] = after[i - place] /\ i - place \in 1 .. Len(list) - place + 1
      BY <1>1, <1>3, <1>5, <1>6, <2>2
    <3>2. place + (i - place) - 1 = i - 1
      BY <1>1, <2>2
    <3> QED BY <1>1, <1>3, <2>2, <3>1, <3>2
  <2> QED BY <1>1, <2>1, <2>2
<1>9. InsertAt(list, place, x) = new
  BY DEF InsertAt, new, front, before, after
<1> QED BY <1>6, <1>7, <1>8, <1>9

(* The element inserted is found where it was put.                         *)
LEMMA InsertAtPlace ==
  ASSUME NEW S, NEW list \in Seq(S), NEW x \in S, NEW place \in Places(list)
  PROVE  InsertAt(list, place, x)[place] = x
<1> DEFINE new == InsertAt(list, place, x)
<1>1. \A i \in 1 .. Len(list) + 1 :
        new[i] = IF i < place THEN list[i]
                 ELSE IF i = place THEN x ELSE list[i - 1]
  BY InsertAtPlaces
<1>2. place \in 1 .. Len(list) + 1 /\ ~ (place < place)
  BY DEF Places
<1> HIDE DEF new
<1>3. new[place] = x
  BY <1>1, <1>2
<1> QED BY <1>3 DEF new

(* What RemoveAt returns, place by place.                                  *)
LEMMA RemoveAtPlaces ==
  ASSUME NEW S, NEW list \in Seq(S), NEW place \in 1 .. Len(list)
  PROVE  LET new == RemoveAt(list, place)
         IN /\ new \in Seq(S)
            /\ Len(new) = Len(list) - 1
            /\ \A i \in 1 .. Len(list) - 1 :
                 new[i] = IF i < place THEN list[i] ELSE list[i + 1]
<1> DEFINE before == SubSeq(list, 1, place - 1)
           after == SubSeq(list, place + 1, Len(list))
<1>1. /\ before \in Seq(S) /\ Len(before) = place - 1
      /\ \A i \in 1 .. place - 1 : before[i] = list[i]
  <2>1. \A i \in 1 .. place - 1 : list[i] \in S
    OBVIOUS
  <2> QED BY <2>1, SubSeqProperties
<1>2. /\ after \in Seq(S) /\ Len(after) = Len(list) - place
      /\ \A i \in 1 .. Len(list) - place : after[i] = list[place + i]
  <2>1. \A i \in place + 1 .. Len(list) : list[i] \in S
    OBVIOUS
  <2> QED BY <2>1, SubSeqProperties
<1> DEFINE new == before \o after
<1> HIDE DEF before, after
<1>0. Len(list) \in Nat
  OBVIOUS
<1>3. /\ new \in Seq(S)
      /\ Len(new) = Len(before) + Len(after)
      /\ \A i \in 1 .. Len(before) + Len(after) :
           new[i] = IF i <= Len(before) THEN before[i]
                    ELSE after[i - Len(before)]
  BY <1>1, <1>2, ConcatProperties
<1> HIDE DEF new
<1>4. Len(new) = Len(list) - 1 /\ Len(before) + Len(after) = Len(list) - 1
  BY <1>0, <1>1, <1>2, <1>3
<1>5. ASSUME NEW i \in 1 .. Len(list) - 1
      PROVE  new[i] = IF i < place THEN list[i] ELSE list[i + 1]
  <2>1. CASE i < place
    BY <1>0, <1>1, <1>3, <1>4, <2>1
  <2>2. CASE i >= place
    <3>1. /\ new[i] = after[i - (place - 1)]
          /\ i - (place - 1) \in 1 .. Len(list) - place
      BY <1>0, <1>1, <1>3, <1>4, <2>2
    <3>2. place + (i - (place - 1)) = i + 1
      OBVIOUS
    <3>3. after[i - (place - 1)] = list[place + (i - (place - 1))]
      BY <1>2, <3>1
    <3>4. ~(i < place)
      BY <2>2
    <3> QED BY <3>1, <3>2, <3>3, <3>4
  <2> QED BY <2>1, <2>2
<1>6. RemoveAt(list, place) = new
  BY DEF RemoveAt, new, before, after
<1> QED BY <1>3, <1>4, <1>5, <1>6


(* g_list_remove takes out the first place that holds x.                   *)
LEMMA GListRemovePlaces ==
  ASSUME NEW S, NEW list \in Seq(S), NEW x, Listed(x, list)
  PROVE  /\ FirstPlace(x, list) \in 1 .. Len(list)
         /\ list[FirstPlace(x, list)] = x
         /\ \A j \in 1 .. FirstPlace(x, list) - 1 : list[j] # x
<1> DEFINE T == {i \in 1 .. Len(list) : list[i] = x}
<1>1. T \in SUBSET Nat /\ T # {} /\ DOMAIN list = 1 .. Len(list)
  BY DEF Listed
<1>2. PICK n \in T : \A m \in T : n <= m
  BY <1>1, LeastNatural
<1>3. ASSUME NEW j \in 1 .. n - 1 PROVE list[j] # x
  <2>1. n \in 1 .. Len(list) /\ Len(list) \in Nat
    BY <1>2
  <2>2. j \in 1 .. Len(list) /\ ~ (n <= j)
    BY <2>1
  <2> QED BY <1>2, <2>2
<1>4. n \in DOMAIN list /\ list[n] = x
  BY <1>1, <1>2
<1> QED BY <1>1, <1>3, <1>4 DEF FirstPlace

(* Inserting adds the one element to those that are listed.                *)
LEMMA InsertListed ==
  ASSUME NEW S, NEW list \in Seq(S), NEW x \in S, NEW place \in Places(list),
         NEW y
  PROVE  Listed(y, InsertAt(list, place, x)) <=> y = x \/ Listed(y, list)
<1> DEFINE new == InsertAt(list, place, x)
<1>1. /\ new \in Seq(S) /\ Len(new) = Len(list) + 1
      /\ \A i \in 1 .. Len(list) + 1 :
           new[i] = IF i < place THEN list[i]
                    ELSE IF i = place THEN x ELSE list[i - 1]
  BY InsertAtPlaces
<1>2. place \in 1 .. Len(list) + 1 /\ Len(list) \in Nat
  BY DEF Places
<1> HIDE DEF new
<1>3. DOMAIN new = 1 .. Len(list) + 1 /\ DOMAIN list = 1 .. Len(list)
  BY <1>1
<1>4. ASSUME NEW i \in 1 .. Len(list) PROVE Listed(list[i], new)
  <2>1. CASE i < place
    BY <1>1, <1>2, <1>3, <2>1 DEF Listed
  <2>2. CASE i >= place
    <3>1. i + 1 \in 1 .. Len(list) + 1 /\ i + 1 > place /\ (i + 1) - 1 = i
      BY <1>2, <2>2
    <3>2. new[i + 1] = list[i]
      BY <1>1, <1>2, <3>1
    <3> QED BY <1>3, <3>1, <3>2 DEF Listed
  <2> QED BY <1>2, <2>1, <2>2
<1>5. Listed(x, new)
  BY <1>1, <1>2, <1>3 DEF Listed
<1>6. ASSUME NEW i \in 1 .. Len(list) + 1
      PROVE  new[i] = x \/ Listed(new[i], list)
  <2>1. CASE i < place
    BY <1>1, <1>2, <1>3, <2>1 DEF Listed
  <2>2. CASE i > place
    <3>1. i - 1 \in 1 .. Len(list)
      BY <1>2, <2>2
    <3> QED BY <1>1, <1>2, <1>3, <2>2, <3>1 DEF Listed
  <2> QED BY <1>1, <1>2, <2>1, <2>2
<1>7. Listed(y, new) <=> y = x \/ Listed(y, list)
  BY <1>3, <1>4, <1>5, <1>6 DEF Listed
<1> QED BY <1>7 DEF new

(* A list without duplicates stays so when a new element is inserted.      *)
LEMMA InsertInjective ==
  ASSUME NEW S, NEW list \in Seq(S), NEW x \in S, NEW place \in Places(list),
         IsInjective(list), ~Listed(x, list)
  PROVE  IsInjective(InsertAt(list, place, x))
<1> DEFINE new == InsertAt(list, place, x)
           old(i) == IF i < place THEN i ELSE i - 1
<1>1. /\ new \in Seq(S) /\ Len(new) = Len(list) + 1
      /\ \A i \in 1 .. Len(list) + 1 :
           new[i] = IF i < place THEN list[i]
                    ELSE IF i = place THEN x ELSE list[i - 1]
  BY InsertAtPlaces
<1>2. place \in 1 .. Len(list) + 1 /\ Len(list) \in Nat
  BY DEF Places
<1> HIDE DEF new
<1>3. DOMAIN new = 1 .. Len(list) + 1 /\ DOMAIN list = 1 .. Len(list)
  BY <1>1
<1>4. new[place] = x
  BY <1>1, <1>2
<1>5. ASSUME NEW i \in 1 .. Len(list) + 1, i # place
      PROVE  old(i) \in 1 .. Len(list) /\ new[i] = list[old(i)] /\ new[i] # x
  <2>1. old(i) \in 1 .. Len(list)
    BY <1>2, <1>5
  <2>2. new[i] = list[old(i)]
    BY <1>1, <1>2, <1>5
  <2> QED BY <1>3, <2>1, <2>2 DEF Listed
<1>6. ASSUME NEW a \in 1 .. Len(list) + 1, NEW b \in 1 .. Len(list) + 1,
             new[a] = new[b]
      PROVE  a = b
  <2>1. CASE a = place \/ b = place
    BY <1>4, <1>5, <1>6, <2>1
  <2>2. CASE a # place /\ b # place
    <3>1. old(a) = old(b)
      <4>1. list[old(a)] = list[old(b)]
        BY <1>5, <1>6, <2>2
      <4>2. old(a) \in DOMAIN list /\ old(b) \in DOMAIN list
        BY <1>3, <1>5, <2>2
      <4> HIDE DEF old
      <4> QED BY <4>1, <4>2 DEF IsInjective
    <3> QED BY <1>2, <2>2, <3>1
  <2> QED BY <2>1, <2>2
<1>7. IsInjective(new)
  BY <1>3, <1>6 DEF IsInjective
<1> QED BY <1>7 DEF new

(* Removing leaves a list, whose elements were listed, and every element   *)
(* other than the one removed.                                             *)
LEMMA RemoveListed ==
  ASSUME NEW S, NEW list \in Seq(S), NEW x, NEW y
  PROVE  /\ GListRemove(list, x) \in Seq(S)
         /\ Listed(y, GListRemove(list, x)) => Listed(y, list)
         /\ y # x /\ Listed(y, list) => Listed(y, GListRemove(list, x))
<1> DEFINE new == GListRemove(list, x)
           place == FirstPlace(x, list)
<1>1. CASE ~Listed(x, list)
  BY <1>1 DEF GListRemove
<1>2. CASE Listed(x, list)
  <2>1. place \in 1 .. Len(list) /\ list[place] = x /\ Len(list) \in Nat
    BY <1>2, GListRemovePlaces
  <2>2. new = RemoveAt(list, place)
    BY <1>2 DEF GListRemove
  <2> HIDE DEF new, place
  <2>3. /\ new \in Seq(S) /\ Len(new) = Len(list) - 1
        /\ \A i \in 1 .. Len(list) - 1 :
             new[i] = IF i < place THEN list[i] ELSE list[i + 1]
    BY <2>1, <2>2, RemoveAtPlaces
  <2>4. DOMAIN new = 1 .. Len(list) - 1 /\ DOMAIN list = 1 .. Len(list)
    BY <2>3
  <2>5. ASSUME NEW i \in 1 .. Len(list) - 1 PROVE Listed(new[i], list)
    <3>1. i \in DOMAIN list /\ i + 1 \in DOMAIN list
      BY <2>1, <2>4
    <3> QED BY <2>3, <3>1 DEF Listed
  <2>6. ASSUME NEW i \in 1 .. Len(list), list[i] # x PROVE Listed(list[i], new)
    <3>1. CASE i < place
      BY <2>1, <2>3, <2>4, <3>1 DEF Listed
    <3>2. CASE i > place
      <4>1. i - 1 \in 1 .. Len(list) - 1 /\ ~(i - 1 < place) /\ (i - 1) + 1 = i
        BY <2>1, <3>2
      <4>2. new[i - 1] = list[i]
        BY <2>3, <4>1
      <4> QED BY <2>4, <4>1, <4>2 DEF Listed
    <3> QED BY <2>1, <2>6, <3>1, <3>2
  <2>7. Listed(y, new) => Listed(y, list)
    BY <2>4, <2>5 DEF Listed
  <2>8. y # x /\ Listed(y, list) => Listed(y, new)
    BY <2>4, <2>6 DEF Listed
  <2> QED BY <2>3, <2>7, <2>8 DEF new
<1> QED BY <1>1, <1>2

(* Removing takes out one place, or none.                                  *)
LEMMA RemoveLength ==
  ASSUME NEW S, NEW list \in Seq(S), NEW x
  PROVE  Len(GListRemove(list, x)) =
           IF Listed(x, list) THEN Len(list) - 1 ELSE Len(list)
<1>1. CASE Listed(x, list)
  <2>1. FirstPlace(x, list) \in 1 .. Len(list)
    BY <1>1, GListRemovePlaces
  <2> QED BY <1>1, <2>1, RemoveAtPlaces DEF GListRemove
<1>2. CASE ~Listed(x, list)
  BY <1>2 DEF GListRemove
<1> QED BY <1>1, <1>2

(* Removing from a list without duplicates leaves none of the element.     *)
LEMMA RemoveInjective ==
  ASSUME NEW S, NEW list \in Seq(S), NEW x, IsInjective(list)
  PROVE  IsInjective(GListRemove(list, x)) /\ ~Listed(x, GListRemove(list, x))
<1> DEFINE new == GListRemove(list, x)
           place == FirstPlace(x, list)
           old(i) == IF i < place THEN i ELSE i + 1
<1>1. CASE ~Listed(x, list)
  BY <1>1 DEF GListRemove
<1>2. CASE Listed(x, list)
  <2>1. place \in 1 .. Len(list) /\ list[place] = x /\ Len(list) \in Nat
    BY <1>2, GListRemovePlaces
  <2>2. new = RemoveAt(list, place)
    BY <1>2 DEF GListRemove
  <2> HIDE DEF new, place
  <2>3. /\ new \in Seq(S) /\ Len(new) = Len(list) - 1
        /\ \A i \in 1 .. Len(list) - 1 : new[i] = list[old(i)]
    BY <2>1, <2>2, RemoveAtPlaces
  <2>4. DOMAIN new = 1 .. Len(list) - 1 /\ DOMAIN list = 1 .. Len(list)
    BY <2>3
  <2>5. ASSUME NEW i \in 1 .. Len(list) - 1
        PROVE  old(i) \in DOMAIN list /\ old(i) # place
    BY <2>1, <2>4
  <2>6. place \in DOMAIN list
    BY <2>1, <2>4
  <2>7. ASSUME NEW a \in 1 .. Len(list) - 1, NEW b \in 1 .. Len(list) - 1,
               new[a] = new[b]
        PROVE  a = b
    <3>1. old(a) = old(b)
      <4>1. list[old(a)] = list[old(b)]
        BY <2>3, <2>7
      <4>2. old(a) \in DOMAIN list /\ old(b) \in DOMAIN list
        BY <2>5
      <4> HIDE DEF old
      <4> QED BY <4>1, <4>2 DEF IsInjective
    <3> QED BY <2>1, <3>1
  <2>8. ASSUME NEW i \in 1 .. Len(list) - 1 PROVE new[i] # x
    <3>1. old(i) \in DOMAIN list /\ old(i) # place /\ new[i] = list[old(i)]
      BY <2>3, <2>5
    <3> HIDE DEF old
    <3> QED BY <2>1, <2>6, <3>1 DEF IsInjective
  <2>9. IsInjective(new) /\ ~Listed(x, new)
    BY <2>4, <2>7, <2>8 DEF IsInjective, Listed
  <2> QED BY <2>9 DEF new
<1> QED BY <1>1, <1>2

(* The front of a list stays when another element is removed or when one   *)
(* is inserted behind it.                                                  *)
LEMMA RemoveKeepsFront ==
  ASSUME NEW S, NEW list \in Seq(S), NEW x, list # <<>>, list[1] # x
  PROVE  GListRemove(list, x) # <<>> /\ GListRemove(list, x)[1] = list[1]
<1>1. CASE ~Listed(x, list)
  BY <1>1 DEF GListRemove
<1>2. CASE Listed(x, list)
  <2> DEFINE place == FirstPlace(x, list)
  <2>0. place \in 1 .. Len(list) /\ place # 1 /\ Len(list) \in Nat
    BY <1>2, GListRemovePlaces
  <2>1. place \in 1 .. Len(list) /\ 1 < place /\ 1 \in 1 .. Len(list) - 1
    BY <2>0
  <2>2. GListRemove(list, x) = RemoveAt(list, place)
    BY <1>2 DEF GListRemove
  <2> HIDE DEF place
  <2>3. /\ RemoveAt(list, place) \in Seq(S)
        /\ Len(RemoveAt(list, place)) = Len(list) - 1
        /\ RemoveAt(list, place)[1] = list[1]
    BY <2>1, RemoveAtPlaces
  <2>4. Len(list) - 1 > 0
    BY <2>0, <2>1
  <2> QED BY <2>2, <2>3, <2>4
<1> QED BY <1>1, <1>2

LEMMA InsertKeepsFront ==
  ASSUME NEW S, NEW list \in Seq(S), NEW x \in S, NEW place \in Places(list),
         list # <<>>, place # 1
  PROVE  InsertAt(list, place, x) # <<>> /\ InsertAt(list, place, x)[1] = list[1]
<1>1. /\ place \in 1 .. Len(list) + 1 /\ 1 < place
      /\ 1 \in 1 .. Len(list) + 1 /\ Len(list) \in Nat
  BY DEF Places
<1>2. /\ InsertAt(list, place, x) \in Seq(S)
      /\ Len(InsertAt(list, place, x)) = Len(list) + 1
      /\ InsertAt(list, place, x)[1] = list[1]
  BY <1>1, InsertAtPlaces
<1> QED BY <1>1, <1>2

(* Only as its recursion computes it, one element after the other.         *)
LEMMA OnlySteps ==
  ASSUME NEW T, NEW list \in Seq(T), NEW S
  PROVE  \E f : /\ f = [n \in 0 .. Len(list) |->
                          IF n = 0 THEN <<>>
                          ELSE IF list[n] \in S THEN Append(f[n - 1], list[n]) ELSE f[n - 1]]
                /\ Only(list, S) = f[Len(list)]
<1> DEFINE Step(f, n) == IF n = 0 THEN <<>>
                         ELSE IF list[n] \in S THEN Append(f[n - 1], list[n]) ELSE f[n - 1]
           Upto(m) == \E f : f = [n \in 0 .. m |-> Step(f, n)]
           Good == {m \in Nat : Upto(m)}
<1>1. 0 \in Good
  <2> DEFINE f == [n \in 0 .. 0 |-> <<>>]
  <2>1. f = [n \in 0 .. 0 |-> Step(f, n)]
    OBVIOUS
  <2> HIDE DEF f, Step
  <2> QED BY <2>1
<1>2. ASSUME NEW m \in Good PROVE m + 1 \in Good
  <2>1. m \in Nat /\ m + 1 \in Nat
    OBVIOUS
  <2>2. PICK f : f = [n \in 0 .. m |-> Step(f, n)]
    <3> HIDE DEF Step
    <3> QED OBVIOUS
  <2> DEFINE g == [n \in 0 .. m + 1 |-> Step(f, n)]
  <2>3. \A n \in 0 .. m : g[n] = f[n]
    <3> HIDE DEF Step
    <3>1. \A n \in 0 .. m : f[n] = Step(f, n)
      BY <2>2
    <3> QED BY <2>1, <3>1
  <2> HIDE DEF g
  <2>4. \A n \in 0 .. m + 1 : Step(f, n) = Step(g, n)
    BY <2>1, <2>3
  <2>5. g = [n \in 0 .. m + 1 |-> Step(g, n)]
    <3> HIDE DEF Step
    <3> QED BY <2>4 DEF g
  <2> HIDE DEF Step
  <2> QED BY <2>1, <2>5
<1>3. Upto(Len(list))
  <2>1. Good \in SUBSET Nat /\ Len(list) \in Nat
    OBVIOUS
  <2> HIDE DEF Good
  <2>2. Len(list) \in Good
    BY <1>1, <1>2, <2>1, EveryNatural
  <2> HIDE DEF Upto
  <2> QED BY <2>2 DEF Good
<1>4. PICK f : f = [n \in 0 .. Len(list) |-> Step(f, n)]
  <2> HIDE DEF Step
  <2> QED BY <1>3
<1> DEFINE only == CHOOSE g : g = [n \in 0 .. Len(list) |-> Step(g, n)]
<1>5. only = [n \in 0 .. Len(list) |-> Step(only, n)]
  <2> HIDE DEF Step
  <2> QED BY <1>4
<1>6. Only(list, S) = only[Len(list)]
  BY DEF Only
<1> HIDE DEF only
<1> QED BY <1>5, <1>6

(* Only keeps the elements of the set, those and no other, each once when  *)
(* the list has it once, and in the same order: along the recursion.       *)
LEMMA OnlyElements ==
  ASSUME NEW T, NEW list \in Seq(T), NEW S
  PROVE  /\ Only(list, S) \in Seq(T)
         /\ Len(Only(list, S)) <= Len(list)
         /\ \A y : Listed(y, Only(list, S)) <=> Listed(y, list) /\ y \in S
         /\ IsInjective(list) => IsInjective(Only(list, S))
<1> DEFINE Step(f, n) == IF n = 0 THEN <<>>
                         ELSE IF list[n] \in S THEN Append(f[n - 1], list[n]) ELSE f[n - 1]
<1>1. PICK f : f = [n \in 0 .. Len(list) |-> Step(f, n)] /\ Only(list, S) = f[Len(list)]
  BY OnlySteps
<1>2. Len(list) \in Nat /\ DOMAIN list = 1 .. Len(list)
  OBVIOUS
<1>3. \A n \in 0 .. Len(list) : f[n] = Step(f, n)
  <2> HIDE DEF Step
  <2> QED BY <1>1
<1> DEFINE Prefix(n) ==
      /\ f[n] \in Seq(T) /\ Len(f[n]) <= n
      /\ \A i \in 1 .. Len(f[n]) : \E j \in 1 .. n : f[n][i] = list[j] /\ list[j] \in S
      /\ \A j \in 1 .. n : list[j] \in S => \E i \in 1 .. Len(f[n]) : f[n][i] = list[j]
      /\ IsInjective(list) => \A i, j \in 1 .. Len(f[n]) : f[n][i] = f[n][j] => i = j
    Good == {n \in Nat : n <= Len(list) => Prefix(n)}
<1>4. 0 \in Good
  <2>1. f[0] = <<>>
    BY <1>2, <1>3
  <2>2. f[0] \in Seq(T) /\ Len(f[0]) = 0 /\ 1 .. 0 = {}
    BY <2>1
  <2>3. Prefix(0)
    BY <2>2
  <2> QED BY <2>3
<1>5. ASSUME NEW m \in Good PROVE m + 1 \in Good
  <2>1. m \in Nat /\ m + 1 \in Nat
    OBVIOUS
  <2> SUFFICES ASSUME m + 1 <= Len(list) PROVE Prefix(m + 1)
    BY <2>1
  <2>2. /\ m <= Len(list) /\ m + 1 \in 1 .. Len(list) /\ m + 1 # 0 /\ (m + 1) - 1 = m
        /\ m + 1 \in 0 .. Len(list) /\ m \in 0 .. Len(list)
    BY <1>2, <2>1
  <2>3. Prefix(m)
    BY <2>2
  <2>4. list[m + 1] \in T
    BY <2>2
  <2> DEFINE x == list[m + 1]
  <2>5. CASE x \in S
    <3>1. f[m + 1] = Append(f[m], x)
      BY <1>3, <2>2, <2>5
    <3>2. /\ f[m + 1] \in Seq(T) /\ Len(f[m + 1]) = Len(f[m]) + 1 /\ Len(f[m]) \in Nat
          /\ \A i \in 1 .. Len(f[m]) : f[m + 1][i] = f[m][i]
          /\ f[m + 1][Len(f[m]) + 1] = x
      BY <2>3, <2>4, <3>1, AppendProperties
    <3>3. Len(f[m + 1]) <= m + 1
      BY <2>1, <2>3, <3>2
    <3>4. ASSUME NEW i \in 1 .. Len(f[m + 1])
          PROVE  \E j \in 1 .. m + 1 : f[m + 1][i] = list[j] /\ list[j] \in S
      <4>1. CASE i = Len(f[m]) + 1
        <5>1. m + 1 \in 1 .. m + 1 /\ f[m + 1][i] = list[m + 1]
          BY <2>1, <3>2, <4>1
        <5> QED BY <2>5, <5>1
      <4>2. CASE i # Len(f[m]) + 1
        <5>1. i \in 1 .. Len(f[m])
          BY <3>2, <4>2
        <5>2. PICK j \in 1 .. m : f[m][i] = list[j] /\ list[j] \in S
          BY <2>3, <5>1
        <5>3. j \in 1 .. m + 1
          BY <2>1
        <5> QED BY <3>2, <5>1, <5>2, <5>3
      <4> QED BY <4>1, <4>2
    <3>5. ASSUME NEW j \in 1 .. m + 1, list[j] \in S
          PROVE  \E i \in 1 .. Len(f[m + 1]) : f[m + 1][i] = list[j]
      <4>1. CASE j = m + 1
        <5>1. Len(f[m]) + 1 \in 1 .. Len(f[m + 1])
          BY <3>2
        <5> QED BY <3>2, <4>1, <5>1
      <4>2. CASE j # m + 1
        <5>1. j \in 1 .. m
          BY <2>1, <4>2
        <5>2. PICK i \in 1 .. Len(f[m]) : f[m][i] = list[j]
          BY <2>3, <3>5, <5>1
        <5>3. i \in 1 .. Len(f[m + 1])
          BY <3>2
        <5> QED BY <3>2, <5>2, <5>3
      <4> QED BY <4>1, <4>2
    <3>6. ASSUME IsInjective(list), NEW i \in 1 .. Len(f[m + 1]), NEW j \in 1 .. Len(f[m + 1]),
                 f[m + 1][i] = f[m + 1][j]
          PROVE  i = j
      <4>1. ASSUME NEW k \in 1 .. Len(f[m]) PROVE f[m + 1][k] # x
        <5>1. PICK l \in 1 .. m : f[m][k] = list[l]
          BY <2>3
        <5>2. l \in 1 .. Len(list) /\ l # m + 1
          BY <2>1, <2>2
        <5>3. list[l] # list[m + 1]
          BY <1>2, <2>2, <3>6, <5>2 DEF IsInjective
        <5> QED BY <3>2, <5>1, <5>3
      <4>2. CASE i = Len(f[m]) + 1 \/ j = Len(f[m]) + 1
        <5>1. ASSUME NEW k \in 1 .. Len(f[m + 1]), f[m + 1][k] = x PROVE k = Len(f[m]) + 1
          <6>1. k \in 1 .. Len(f[m]) \/ k = Len(f[m]) + 1
            BY <3>2
          <6> QED BY <4>1, <5>1, <6>1
        <5>2. f[m + 1][Len(f[m]) + 1] = x
          BY <3>2
        <5>3. f[m + 1][i] = x /\ f[m + 1][j] = x
          BY <3>6, <4>2, <5>2
        <5> QED BY <5>1, <5>3
      <4>3. CASE i # Len(f[m]) + 1 /\ j # Len(f[m]) + 1
        <5>1. i \in 1 .. Len(f[m]) /\ j \in 1 .. Len(f[m])
          BY <3>2, <4>3
        <5>2. f[m][i] = f[m][j]
          BY <3>2, <3>6, <5>1
        <5> QED BY <2>3, <3>6, <5>1, <5>2
      <4> QED BY <4>2, <4>3
    <3> QED BY <3>2, <3>3, <3>4, <3>5, <3>6
  <2>6. CASE x \notin S
    <3>1. f[m + 1] = f[m]
      BY <1>3, <2>2, <2>6
    <3>2. \A j \in 1 .. m : j \in 1 .. m + 1
      BY <2>1
    <3>3. \A j \in 1 .. m + 1 : list[j] \in S => j \in 1 .. m
      BY <2>1, <2>6
    <3>4. Len(f[m]) <= m + 1
      BY <2>1, <2>3
    <3> QED BY <2>3, <3>1, <3>2, <3>3, <3>4
  <2> QED BY <2>5, <2>6
<1>6. Prefix(Len(list))
  <2> HIDE DEF Prefix
  <2>1. Good \in SUBSET Nat
    OBVIOUS
  <2> HIDE DEF Good
  <2>2. Len(list) \in Good
    BY <1>2, <1>4, <1>5, <2>1, EveryNatural
  <2> QED BY <1>2, <2>2 DEF Good
<1> DEFINE only == Only(list, S)
<1>7. only = f[Len(list)] /\ only \in Seq(T) /\ DOMAIN only = 1 .. Len(only)
  BY <1>1, <1>6
<1>8. ASSUME NEW y PROVE Listed(y, only) <=> Listed(y, list) /\ y \in S
  <2> HIDE DEF only
  <2>1. ASSUME NEW i \in DOMAIN only PROVE Listed(only[i], list) /\ only[i] \in S
    BY <1>2, <1>6, <1>7 DEF Listed
  <2>2. ASSUME NEW i \in DOMAIN list, list[i] \in S PROVE Listed(list[i], only)
    BY <1>2, <1>6, <1>7, <2>2 DEF Listed
  <2>3. Listed(y, only) => Listed(y, list) /\ y \in S
    BY <2>1 DEF Listed
  <2>4. Listed(y, list) /\ y \in S => Listed(y, only)
    BY <2>2 DEF Listed
  <2> QED BY <2>3, <2>4
<1>9. IsInjective(list) => IsInjective(only)
  BY <1>6, <1>7 DEF IsInjective
<1> QED BY <1>6, <1>7, <1>8, <1>9

(* What is not in the list makes no difference to Only, and a set that has *)
(* every element keeps the list.                                           *)
LEMMA OnlySame ==
  ASSUME NEW T, NEW list \in Seq(T), NEW S, NEW R,
         \A i \in 1 .. Len(list) : list[i] \in S <=> list[i] \in R
  PROVE  Only(list, S) = Only(list, R)
<1> DEFINE Step(f, n) == IF n = 0 THEN <<>>
                         ELSE IF list[n] \in S THEN Append(f[n - 1], list[n]) ELSE f[n - 1]
           Other(f, n) == IF n = 0 THEN <<>>
                          ELSE IF list[n] \in R THEN Append(f[n - 1], list[n]) ELSE f[n - 1]
<1>1. \A f : \A n \in 0 .. Len(list) : Step(f, n) = Other(f, n)
  <2> SUFFICES ASSUME NEW f, NEW n \in 0 .. Len(list) PROVE Step(f, n) = Other(f, n)
    OBVIOUS
  <2>1. n = 0 \/ n \in 1 .. Len(list)
    OBVIOUS
  <2> QED BY <2>1
<1>2. \A f : [n \in 0 .. Len(list) |-> Step(f, n)] = [n \in 0 .. Len(list) |-> Other(f, n)]
  <2> HIDE DEF Step, Other
  <2> QED BY <1>1
<1>3. (CHOOSE f : f = [n \in 0 .. Len(list) |-> Step(f, n)])
        = (CHOOSE f : f = [n \in 0 .. Len(list) |-> Other(f, n)])
  <2> HIDE DEF Step, Other
  <2> QED BY <1>2
<1> QED BY <1>3 DEF Only

LEMMA OnlyAll ==
  ASSUME NEW T, NEW list \in Seq(T), NEW S, \A i \in 1 .. Len(list) : list[i] \in S
  PROVE  Only(list, S) = list
<1> DEFINE Step(f, n) == IF n = 0 THEN <<>>
                         ELSE IF list[n] \in S THEN Append(f[n - 1], list[n]) ELSE f[n - 1]
<1>1. PICK f : f = [n \in 0 .. Len(list) |-> Step(f, n)] /\ Only(list, S) = f[Len(list)]
  BY OnlySteps
<1>2. Len(list) \in Nat /\ DOMAIN list = 1 .. Len(list)
  OBVIOUS
<1>3. \A n \in 0 .. Len(list) : f[n] = Step(f, n)
  <2> HIDE DEF Step
  <2> QED BY <1>1
<1> DEFINE Prefix(n) == f[n] \in Seq(T) /\ Len(f[n]) = n /\ \A i \in 1 .. n : f[n][i] = list[i]
           Good == {n \in Nat : n <= Len(list) => Prefix(n)}
<1>4. 0 \in Good
  <2>1. f[0] = <<>>
    BY <1>2, <1>3
  <2>2. Prefix(0)
    BY <2>1
  <2> QED BY <2>2
<1>5. ASSUME NEW m \in Good PROVE m + 1 \in Good
  <2>1. m \in Nat /\ m + 1 \in Nat
    OBVIOUS
  <2> SUFFICES ASSUME m + 1 <= Len(list) PROVE Prefix(m + 1)
    BY <2>1
  <2>2. /\ m <= Len(list) /\ m + 1 \in 1 .. Len(list) /\ m + 1 # 0 /\ (m + 1) - 1 = m
        /\ m + 1 \in 0 .. Len(list)
    BY <1>2, <2>1
  <2>3. Prefix(m) /\ list[m + 1] \in T /\ list[m + 1] \in S
    BY <2>2
  <2>4. f[m + 1] = Append(f[m], list[m + 1])
    BY <1>3, <2>2, <2>3
  <2>5. /\ f[m + 1] \in Seq(T) /\ Len(f[m + 1]) = m + 1
        /\ \A i \in 1 .. m : f[m + 1][i] = f[m][i]
        /\ f[m + 1][m + 1] = list[m + 1]
    BY <2>3, <2>4, AppendProperties
  <2>6. \A i \in 1 .. m + 1 : i \in 1 .. m \/ i = m + 1
    BY <2>1
  <2> QED BY <2>3, <2>5, <2>6
<1>6. Prefix(Len(list))
  <2> HIDE DEF Prefix
  <2>1. Good \in SUBSET Nat
    OBVIOUS
  <2> HIDE DEF Good
  <2>2. Len(list) \in Good
    BY <1>2, <1>4, <1>5, <2>1, EveryNatural
  <2> QED BY <1>2, <2>2 DEF Good
<1>7. f[Len(list)] = list
  BY <1>6, SeqEqual
<1> QED BY <1>1, <1>7

LEMMA OnlyNone ==
  ASSUME NEW T, NEW list \in Seq(T), NEW S, \A i \in 1 .. Len(list) : list[i] \notin S
  PROVE  Only(list, S) = <<>>
<1>1. Only(list, S) \in Seq(T)
  BY OnlyElements
<1>2. \A y : ~Listed(y, Only(list, S))
  <2>1. \A y : Listed(y, list) => y \notin S
    BY DEF Listed
  <2> QED BY <2>1, OnlyElements
<1>3. Len(Only(list, S)) = 0
  <2> SUFFICES ASSUME Len(Only(list, S)) # 0 PROVE FALSE
    OBVIOUS
  <2>1. 1 \in DOMAIN Only(list, S)
    BY <1>1
  <2> QED BY <1>2, <2>1 DEF Listed
<1> QED BY <1>1, <1>3, EmptySeq

(* An element that is appended is kept if it is in the set.                *)
LEMMA OnlyAppend ==
  ASSUME NEW T, NEW list \in Seq(T), NEW x \in T, NEW S
  PROVE  Only(Append(list, x), S) = IF x \in S THEN Append(Only(list, S), x) ELSE Only(list, S)
<1> DEFINE longer == Append(list, x)
           Step(f, n) == IF n = 0 THEN <<>>
                         ELSE IF list[n] \in S THEN Append(f[n - 1], list[n]) ELSE f[n - 1]
           Other(f, n) == IF n = 0 THEN <<>>
                          ELSE IF longer[n] \in S THEN Append(f[n - 1], longer[n]) ELSE f[n - 1]
<1>1. /\ longer \in Seq(T) /\ Len(longer) = Len(list) + 1 /\ Len(list) \in Nat
      /\ \A i \in 1 .. Len(list) : longer[i] = list[i]
      /\ longer[Len(list) + 1] = x
  BY AppendProperties
<1> HIDE DEF longer
<1>2. PICK f : f = [n \in 0 .. Len(list) |-> Step(f, n)] /\ Only(list, S) = f[Len(list)]
  BY OnlySteps
<1>3. PICK g : g = [n \in 0 .. Len(longer) |-> Other(g, n)] /\ Only(longer, S) = g[Len(longer)]
  BY <1>1, OnlySteps
<1>4. \A n \in 0 .. Len(list) : f[n] = Step(f, n)
  <2> HIDE DEF Step
  <2> QED BY <1>2
<1>5. \A n \in 0 .. Len(list) + 1 : g[n] = Other(g, n)
  <2> HIDE DEF Other
  <2> QED BY <1>1, <1>3
<1> DEFINE Good == {n \in Nat : n <= Len(list) => g[n] = f[n]}
<1>6. 0 \in Good
  BY <1>1, <1>4, <1>5
<1>7. ASSUME NEW m \in Good PROVE m + 1 \in Good
  <2>1. m \in Nat /\ m + 1 \in Nat
    OBVIOUS
  <2> SUFFICES ASSUME m + 1 <= Len(list) PROVE g[m + 1] = f[m + 1]
    BY <2>1
  <2>2. /\ m <= Len(list) /\ m + 1 \in 1 .. Len(list) /\ m + 1 # 0 /\ (m + 1) - 1 = m
        /\ m + 1 \in 0 .. Len(list) /\ m + 1 \in 0 .. Len(list) + 1
    BY <1>1, <2>1
  <2>3. g[m] = f[m] /\ longer[m + 1] = list[m + 1]
    BY <1>1, <2>2
  <2>4. f[m + 1] = Step(f, m + 1) /\ g[m + 1] = Other(g, m + 1)
    BY <1>4, <1>5, <2>2
  <2> QED BY <2>2, <2>3, <2>4
<1>8. g[Len(list)] = f[Len(list)]
  <2>1. Good \in SUBSET Nat
    OBVIOUS
  <2> HIDE DEF Good
  <2>2. Len(list) \in Good
    BY <1>1, <1>6, <1>7, <2>1, EveryNatural
  <2> QED BY <1>1, <2>2 DEF Good
<1>9. g[Len(list) + 1] = IF x \in S THEN Append(g[Len(list)], x) ELSE g[Len(list)]
  <2>1. /\ Len(list) + 1 \in 0 .. Len(list) + 1 /\ Len(list) + 1 # 0
        /\ (Len(list) + 1) - 1 = Len(list)
    BY <1>1
  <2>2. g[Len(list) + 1] = Other(g, Len(list) + 1)
    BY <1>5, <2>1
  <2> QED BY <1>1, <2>1, <2>2
<1> QED BY <1>1, <1>2, <1>3, <1>8, <1>9 DEF longer

(* Keeping the elements of one set and then those of another.              *)
LEMMA OnlyOnly ==
  ASSUME NEW T, NEW list \in Seq(T), NEW S, NEW R
  PROVE  Only(Only(list, S), R) = Only(list, S \cap R)
<1> DEFINE Step(f, n) == IF n = 0 THEN <<>>
                         ELSE IF list[n] \in S THEN Append(f[n - 1], list[n]) ELSE f[n - 1]
           Other(f, n) == IF n = 0 THEN <<>>
                          ELSE IF list[n] \in S \cap R THEN Append(f[n - 1], list[n])
                          ELSE f[n - 1]
<1>1. PICK f : f = [n \in 0 .. Len(list) |-> Step(f, n)] /\ Only(list, S) = f[Len(list)]
  BY OnlySteps
<1>2. PICK g : /\ g = [n \in 0 .. Len(list) |-> Other(g, n)]
               /\ Only(list, S \cap R) = g[Len(list)]
  BY OnlySteps
<1>3. Len(list) \in Nat
  OBVIOUS
<1>4. \A n \in 0 .. Len(list) : f[n] = Step(f, n) /\ g[n] = Other(g, n)
  <2> HIDE DEF Step, Other
  <2> QED BY <1>1, <1>2
<1> DEFINE Prefix(n) == f[n] \in Seq(T) /\ Only(f[n], R) = g[n]
           Good == {n \in Nat : n <= Len(list) => Prefix(n)}
<1>5. 0 \in Good
  <2>1. f[0] = <<>> /\ g[0] = <<>> /\ f[0] \in Seq(T) /\ Len(f[0]) = 0
    <3>1. f[0] = Step(f, 0) /\ g[0] = Other(g, 0)
      BY <1>3, <1>4
    <3>2. f[0] = <<>> /\ g[0] = <<>>
      BY <3>1
    <3> QED BY <3>2
  <2>2. Only(f[0], R) = f[0]
    <3>1. \A i \in 1 .. Len(f[0]) : f[0][i] \in R
      BY <2>1
    <3> QED BY <2>1, <3>1, OnlyAll
  <2> QED BY <2>1, <2>2
<1>6. ASSUME NEW m \in Good PROVE m + 1 \in Good
  <2>1. m \in Nat /\ m + 1 \in Nat
    OBVIOUS
  <2> SUFFICES ASSUME m + 1 <= Len(list) PROVE Prefix(m + 1)
    BY <2>1
  <2>2. /\ m <= Len(list) /\ m + 1 \in 1 .. Len(list) /\ m + 1 # 0 /\ (m + 1) - 1 = m
        /\ m + 1 \in 0 .. Len(list)
    BY <1>3, <2>1
  <2>3. Prefix(m) /\ list[m + 1] \in T
    BY <2>2
  <2>4. f[m + 1] = Step(f, m + 1) /\ g[m + 1] = Other(g, m + 1)
    BY <1>4, <2>2
  <2>5. CASE list[m + 1] \in S
    <3>1. f[m + 1] = Append(f[m], list[m + 1])
      BY <2>2, <2>4, <2>5
    <3>2. f[m + 1] \in Seq(T)
      BY <2>3, <3>1, AppendProperties
    <3>3. Only(f[m + 1], R) = IF list[m + 1] \in R THEN Append(Only(f[m], R), list[m + 1])
                              ELSE Only(f[m], R)
      <4> SUFFICES ASSUME NEW h \in Seq(T), NEW x \in T
                   PROVE  Only(Append(h, x), R) = IF x \in R THEN Append(Only(h, R), x)
                                                  ELSE Only(h, R)
        BY <2>3, <3>1
      <4> QED BY OnlyAppend
    <3>4. g[m + 1] = IF list[m + 1] \in R THEN Append(g[m], list[m + 1]) ELSE g[m]
      BY <2>2, <2>4, <2>5
    <3> QED BY <2>3, <3>2, <3>3, <3>4
  <2>6. CASE list[m + 1] \notin S
    <3>1. f[m + 1] = f[m] /\ g[m + 1] = g[m]
      BY <2>2, <2>4, <2>6
    <3> QED BY <2>3, <3>1
  <2> QED BY <2>5, <2>6
<1>7. Prefix(Len(list))
  <2> HIDE DEF Prefix
  <2>1. Good \in SUBSET Nat
    OBVIOUS
  <2> HIDE DEF Good
  <2>2. Len(list) \in Good
    BY <1>3, <1>5, <1>6, <2>1, EveryNatural
  <2> QED BY <1>3, <2>2 DEF Good
<1> QED BY <1>1, <1>2, <1>7

(* A set of numbers up to a bound has a greatest one.                      *)
LEMMA GreatestNatural ==
  ASSUME NEW b \in Nat, NEW T \in SUBSET (0 .. b), T # {}
  PROVE  \E n \in T : \A k \in T : k <= n
<1> DEFINE Rest == {b - n : n \in T}
<1>1. Rest \in SUBSET Nat /\ Rest # {}
  <2>1. ASSUME NEW n \in T PROVE b - n \in Nat
    <3>1. n \in 0 .. b
      OBVIOUS
    <3> QED BY <3>1
  <2> QED BY <2>1
<1> HIDE DEF Rest
<1>2. PICK m \in Rest : \A k \in Rest : m <= k
  BY <1>1, LeastNatural
<1>3. PICK n \in T : m = b - n
  BY DEF Rest
<1>4. ASSUME NEW k \in T PROVE k <= n
  <2>1. b - k \in Rest /\ k \in 0 .. b /\ n \in 0 .. b
    BY DEF Rest
  <2>2. b - n <= b - k
    BY <1>2, <1>3, <2>1
  <2> QED BY <2>1, <2>2
<1> QED BY <1>4
=============================================================================
