---------------------------- MODULE SequenceLemmas ----------------------------
(***************************************************************************)
(* Facts about the operations on sequences that the controllers' arrays    *)
(* and the client's queues are modelled with.                              *)
(***************************************************************************)
EXTENDS Integers, SequencesExt, SequenceTheorems, FiniteSetTheorems,
        WellFoundedInduction, TLAPS

\* A set of numbers has a least one.
LEMMA LeastOf ==
  ASSUME NEW S \in SUBSET Nat, S # {}
  PROVE  \E n \in S : \A m \in S : n <= m
<1>1. IsWellFoundedOn(OpToRel(<, Nat), Nat)
  BY NatLessThanWellFounded
<1>2. PICK R : R = OpToRel(<, Nat)
  OBVIOUS
<1>3. \E n \in S : \A m \in S : <<m, n>> \notin R
  BY <1>1, <1>2, WFMin
<1>4. R = {pair \in Nat \X Nat : pair[1] < pair[2]}
  BY <1>2 DEF OpToRel
<1>5. ASSUME NEW n \in S, NEW m \in S, <<m, n>> \notin R
      PROVE  n <= m
  BY <1>4, <1>5
<1> QED
  BY <1>3, <1>5

\* Nothing is waiting in an empty queue.
LEMMA EmptyElements ==
  ASSUME NEW S
  PROVE  <<>> \in Seq(S) /\ Len(<<>>) = 0 /\ DOMAIN <<>> = {}
  OBVIOUS

\* An element appended comes last and moves no other.
LEMMA AppendElements ==
  ASSUME NEW S, NEW s \in Seq(S), NEW e \in S
  PROVE  /\ Append(s, e) \in Seq(S)
         /\ Len(Append(s, e)) = Len(s) + 1
         /\ DOMAIN Append(s, e) = 1 .. Len(s) + 1
         /\ \A i \in 1 .. Len(s) : Append(s, e)[i] = s[i]
         /\ Append(s, e)[Len(s) + 1] = e
         /\ Append(s, e) # <<>>
  BY AppendProperties, LenProperties

\* What is behind the head moves up by one.
LEMMA TailElements ==
  ASSUME NEW S, NEW s \in Seq(S), s # <<>>
  PROVE  /\ Tail(s) \in Seq(S)
         /\ Len(Tail(s)) = Len(s) - 1
         /\ Len(s) >= 1
         /\ Head(s) \in S
         /\ Head(s) = s[1]
         /\ 1 \in DOMAIN s
         /\ \A i \in 1 .. Len(s) - 1 : Tail(s)[i] = s[i + 1]
  BY HeadTailProperties, LenProperties, ElementOfSeq

\* remove(at:) leaves a hole that is closed at once.
LEMMA RemoveAtElements ==
  ASSUME NEW S, NEW s \in Seq(S), NEW i \in 1 .. Len(s)
  PROVE  /\ RemoveAt(s, i) \in Seq(S)
         /\ Len(RemoveAt(s, i)) = Len(s) - 1
         /\ \A j \in 1 .. Len(s) - 1 : RemoveAt(s, i)[j] = IF j < i THEN s[j] ELSE s[j + 1]
<1> DEFINE a == SubSeq(s, 1, i - 1)
           b == SubSeq(s, i + 1, Len(s))
<1>1. Len(s) \in Nat
  BY LenProperties
<1>2. /\ a \in Seq(S)
      /\ Len(a) = i - 1
      /\ \A j \in 1 .. i - 1 : a[j] = s[j]
  BY <1>1, SubSeqProperties
<1>3. /\ b \in Seq(S)
      /\ Len(b) = Len(s) - i
      /\ \A j \in 1 .. Len(s) - i : b[j] = s[i + j]
  BY <1>1, SubSeqProperties
<1> HIDE DEF a, b
<1>4. RemoveAt(s, i) = a \o b
  BY DEF RemoveAt, a, b
<1>5. /\ a \o b \in Seq(S)
      /\ Len(a \o b) = Len(s) - 1
      /\ \A j \in 1 .. Len(s) - 1 : (a \o b)[j] = IF j < i THEN a[j] ELSE b[j - i + 1]
  <2>1. /\ a \o b \in Seq(S)
        /\ Len(a \o b) = Len(a) + Len(b)
        /\ \A j \in 1 .. Len(a) + Len(b) :
             (a \o b)[j] = IF j <= Len(a) THEN a[j] ELSE b[j - Len(a)]
    BY <1>2, <1>3, ConcatProperties
  <2>2. Len(a) + Len(b) = Len(s) - 1
    BY <1>1, <1>2, <1>3
  <2>3. \A j \in 1 .. Len(s) - 1 : /\ j <= Len(a) <=> j < i
                                  /\ j - Len(a) = j - i + 1
    BY <1>1, <1>2
  <2> QED
    BY <2>1, <2>2, <2>3
<1>6. ASSUME NEW j \in 1 .. Len(s) - 1
      PROVE  (a \o b)[j] = IF j < i THEN s[j] ELSE s[j + 1]
  <2>1. CASE j < i
    BY <1>1, <1>2, <1>5, <2>1
  <2>2. CASE ~(j < i)
    <3>1. j - i + 1 \in 1 .. Len(s) - i /\ i + (j - i + 1) = j + 1
      BY <1>1, <2>2
    <3> QED
      BY <1>3, <1>5, <2>2, <3>1
  <2> QED
    BY <2>1, <2>2
<1> QED
  BY <1>4, <1>5, <1>6

\* insert(_:at:) moves what was at the place, and behind, down by one.
LEMMA InsertAtElements ==
  ASSUME NEW S, NEW s \in Seq(S), NEW e \in S, NEW i \in 1 .. Len(s) + 1
  PROVE  /\ InsertAt(s, i, e) \in Seq(S)
         /\ Len(InsertAt(s, i, e)) = Len(s) + 1
         /\ \A j \in 1 .. Len(s) + 1 :
              InsertAt(s, i, e)[j] = IF j < i THEN s[j] ELSE IF j = i THEN e ELSE s[j - 1]
<1> DEFINE a == SubSeq(s, 1, i - 1)
           b == SubSeq(s, i, Len(s))
           ae == Append(a, e)
<1>1. Len(s) \in Nat
  BY LenProperties
<1>2. /\ a \in Seq(S)
      /\ Len(a) = i - 1
      /\ \A j \in 1 .. i - 1 : a[j] = s[j]
  BY <1>1, SubSeqProperties
<1>3. /\ b \in Seq(S)
      /\ Len(b) = Len(s) - i + 1
      /\ \A j \in 1 .. Len(s) - i + 1 : b[j] = s[i + j - 1]
  <2>1. CASE i <= Len(s)
    BY <1>1, <2>1, SubSeqProperties
  <2>2. CASE i = Len(s) + 1
    BY <1>1, <2>2, SubSeqEmpty, SubSeqProperties
  <2> QED
    BY <1>1, <2>1, <2>2
<1> HIDE DEF a, b
<1>4. /\ ae \in Seq(S)
      /\ Len(ae) = i
      /\ \A j \in 1 .. i - 1 : ae[j] = s[j]
      /\ ae[i] = e
  BY <1>2, AppendProperties
<1>5. InsertAt(s, i, e) = ae \o b
  BY <1>2, AppendIsConcat DEF InsertAt, a, b
<1> HIDE DEF ae
<1>6. /\ ae \o b \in Seq(S)
      /\ Len(ae \o b) = Len(s) + 1
      /\ \A j \in 1 .. Len(s) + 1 : (ae \o b)[j] = IF j <= i THEN ae[j] ELSE b[j - i]
  <2>1. /\ ae \o b \in Seq(S)
        /\ Len(ae \o b) = Len(ae) + Len(b)
        /\ \A j \in 1 .. Len(ae) + Len(b) :
             (ae \o b)[j] = IF j <= Len(ae) THEN ae[j] ELSE b[j - Len(ae)]
    BY <1>3, <1>4, ConcatProperties
  <2>2. Len(ae) = i /\ Len(ae) + Len(b) = Len(s) + 1
    BY <1>1, <1>3, <1>4
  <2> QED
    BY <2>1, <2>2
<1>7. ASSUME NEW j \in 1 .. Len(s) + 1
      PROVE  (ae \o b)[j] = IF j < i THEN s[j] ELSE IF j = i THEN e ELSE s[j - 1]
  <2>1. CASE j < i
    BY <1>1, <1>4, <1>6, <2>1
  <2>2. CASE j = i
    BY <1>1, <1>4, <1>6, <2>2
  <2>3. CASE j > i
    <3>1. j - i \in 1 .. Len(s) - i + 1 /\ i + (j - i) - 1 = j - 1
      BY <1>1, <2>3
    <3>2. (ae \o b)[j] = b[j - i] /\ b[j - i] = s[j - 1]
      BY <1>1, <1>3, <1>6, <2>3, <3>1
    <3> QED
      BY <1>1, <2>3, <3>2
  <2>4. j < i \/ j = i \/ j > i
    BY <1>1
  <2> QED
    BY <2>1, <2>2, <2>3, <2>4
<1> QED
  BY <1>5, <1>6, <1>7

\* The same, element by element.
LEMMA InsertAtMoves ==
  ASSUME NEW S, NEW s \in Seq(S), NEW e \in S, NEW i \in 1 .. Len(s) + 1,
         NEW j \in 1 .. Len(s) + 1
  PROVE  /\ j < i => InsertAt(s, i, e)[j] = s[j]
         /\ j = i => InsertAt(s, i, e)[j] = e
         /\ j > i => InsertAt(s, i, e)[j] = s[j - 1]
<1>1. Len(s) \in Nat
  BY LenProperties
<1>2. InsertAt(s, i, e)[j] = IF j < i THEN s[j] ELSE IF j = i THEN e ELSE s[j - 1]
  BY InsertAtElements
<1> QED
  BY <1>1, <1>2

\* Something put before the last element leaves that last.
LEMMA InsertBeforeLast ==
  ASSUME NEW S, NEW list \in Seq(S), NEW name \in S, NEW last \in S
  PROVE  InsertAt(Append(list, last), Len(list) + 1, name) = Append(Append(list, name), last)
<1> DEFINE cells == Append(list, last)
           left == InsertAt(cells, Len(list) + 1, name)
           longer == Append(list, name)
           right == Append(longer, last)
<1>0. Len(list) \in Nat
  BY LenProperties
<1>1. ASSUME NEW s \in Seq(S), NEW i \in 1 .. Len(s) + 1
      PROVE  /\ InsertAt(s, i, name) \in Seq(S)
             /\ Len(InsertAt(s, i, name)) = Len(s) + 1
             /\ \A j \in 1 .. Len(s) + 1 :
                  InsertAt(s, i, name)[j] = IF j < i THEN s[j] ELSE IF j = i THEN name ELSE s[j - 1]
  BY InsertAtElements
<1>2. /\ cells \in Seq(S)
      /\ Len(cells) = Len(list) + 1
      /\ \A i \in 1 .. Len(list) : cells[i] = list[i]
      /\ cells[Len(list) + 1] = last
  BY AppendElements
<1>3. /\ longer \in Seq(S)
      /\ Len(longer) = Len(list) + 1
      /\ \A i \in 1 .. Len(list) : longer[i] = list[i]
      /\ longer[Len(list) + 1] = name
  BY AppendElements
<1> HIDE DEF cells, longer
<1>4. /\ left \in Seq(S)
      /\ Len(left) = Len(list) + 2
      /\ \A j \in 1 .. Len(list) + 2 :
           left[j] = IF j < Len(list) + 1 THEN cells[j]
                     ELSE IF j = Len(list) + 1 THEN name ELSE cells[j - 1]
  <2>1. Len(list) + 1 \in 1 .. Len(cells) + 1 /\ Len(cells) + 1 = Len(list) + 2
    BY <1>0, <1>2
  <2>2. /\ left \in Seq(S)
        /\ Len(left) = Len(cells) + 1
        /\ \A j \in 1 .. Len(cells) + 1 :
             left[j] = IF j < Len(list) + 1 THEN cells[j]
                       ELSE IF j = Len(list) + 1 THEN name ELSE cells[j - 1]
    BY <1>2, <1>1, <2>1
  <2> QED
    BY <2>1, <2>2
<1>5. /\ right \in Seq(S)
      /\ Len(right) = Len(list) + 2
      /\ \A i \in 1 .. Len(list) + 1 : right[i] = longer[i]
      /\ right[Len(list) + 2] = last
  <2>1. /\ right \in Seq(S)
        /\ Len(right) = Len(longer) + 1
        /\ \A i \in 1 .. Len(longer) : right[i] = longer[i]
        /\ right[Len(longer) + 1] = last
    BY <1>3, AppendElements
  <2>2. Len(longer) + 1 = Len(list) + 2
    BY <1>0, <1>3
  <2> QED
    BY <1>0, <1>3, <2>1, <2>2
<1> HIDE DEF left, right
<1>6. ASSUME NEW j \in 1 .. Len(list) + 2
      PROVE  left[j] = right[j]
  <2>1. CASE j \in 1 .. Len(list)
    BY <1>0, <1>2, <1>3, <1>4, <1>5, <2>1
  <2>2. CASE j = Len(list) + 1
    BY <1>0, <1>3, <1>4, <1>5, <2>2
  <2>3. CASE j = Len(list) + 2
    <3>1. left[j] = cells[j - 1] /\ j - 1 = Len(list) + 1
      BY <1>0, <1>4, <2>3
    <3> QED
      BY <1>2, <1>5, <2>3, <3>1
  <2> QED
    BY <1>0, <2>1, <2>2, <2>3
<1>7. left = right
  BY <1>4, <1>5, <1>6, SeqEqual
<1> QED
  BY <1>7 DEF left, right, cells, longer

\* So does the removal of something before it.
LEMMA RemoveBeforeLast ==
  ASSUME NEW S, NEW list \in Seq(S), NEW last \in S, NEW i \in 1 .. Len(list)
  PROVE  RemoveAt(Append(list, last), i) = Append(RemoveAt(list, i), last)
<1> DEFINE cells == Append(list, last)
           left == RemoveAt(cells, i)
           shorter == RemoveAt(list, i)
           right == Append(shorter, last)
<1>0. Len(list) \in Nat
  BY LenProperties
<1>1. /\ cells \in Seq(S)
      /\ Len(cells) = Len(list) + 1
      /\ \A j \in 1 .. Len(list) : cells[j] = list[j]
      /\ cells[Len(list) + 1] = last
  BY AppendElements
<1>2. /\ shorter \in Seq(S)
      /\ Len(shorter) = Len(list) - 1
      /\ \A j \in 1 .. Len(list) - 1 : shorter[j] = IF j < i THEN list[j] ELSE list[j + 1]
  BY RemoveAtElements
<1> HIDE DEF cells, shorter
<1>3. /\ left \in Seq(S)
      /\ Len(left) = Len(list)
      /\ \A j \in 1 .. Len(list) : left[j] = IF j < i THEN cells[j] ELSE cells[j + 1]
  <2>1. i \in 1 .. Len(cells) /\ Len(cells) - 1 = Len(list)
    BY <1>0, <1>1
  <2> QED
    BY <1>1, <2>1, RemoveAtElements
<1>4. /\ right \in Seq(S)
      /\ Len(right) = Len(list)
      /\ \A j \in 1 .. Len(list) - 1 : right[j] = shorter[j]
      /\ right[Len(list)] = last
  <2>1. /\ right \in Seq(S)
        /\ Len(right) = Len(shorter) + 1
        /\ \A j \in 1 .. Len(shorter) : right[j] = shorter[j]
        /\ right[Len(shorter) + 1] = last
    BY <1>2, AppendElements
  <2>2. Len(shorter) + 1 = Len(list)
    BY <1>0, <1>2
  <2> QED
    BY <1>0, <1>2, <2>1, <2>2
<1> HIDE DEF left, right
<1>5. ASSUME NEW j \in 1 .. Len(list)
      PROVE  left[j] = right[j]
  <2>1. CASE j \in 1 .. Len(list) - 1
    <3>1. right[j] = IF j < i THEN list[j] ELSE list[j + 1]
      BY <1>2, <1>4, <2>1
    <3>2. j + 1 \in 1 .. Len(list)
      BY <1>0, <2>1
    <3>3. cells[j] = list[j] /\ cells[j + 1] = list[j + 1]
      BY <1>1, <3>2
    <3> QED
      BY <1>3, <3>1, <3>3
  <2>2. CASE j = Len(list)
    BY <1>0, <1>1, <1>3, <1>4, <2>2
  <2> QED
    BY <1>0, <2>1, <2>2
<1>6. left = right
  BY <1>3, <1>4, <1>5, SeqEqual
<1> QED
  BY <1>6 DEF left, right, cells, shorter
=============================================================================
