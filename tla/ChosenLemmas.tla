---------------------------- MODULE ChosenLemmas ----------------------------
(* What chosen leaves of a sequence, for one test at a time.                *)
EXTENDS Selection, DataInduction, SequenceTheorems, FiniteSetTheorems

CONSTANT keep(_)

picked(kept, value) == IF keep(value) THEN Append(kept, value) ELSE kept

Folding == INSTANCE FoldLemmas WITH op <- picked, base <- <<>>

Chosen(values) == chosen(values, keep)

LEMMA ChosenIsFold ==
  ASSUME NEW s
  PROVE  Chosen(s) = Folding!FoldLeft(picked, <<>>, s)
BY Zenon
   DEF Chosen, chosen, picked, FoldLeft, Folding!FoldLeft, MapThenFoldSet,
       Folding!MapThenFoldSet, Max, Folding!Max

LEMMA ChosenEmpty == Chosen(<<>>) = <<>>
BY ChosenIsFold, Folding!FoldEmpty, Zenon

LEMMA ChosenAppend ==
  ASSUME NEW S, NEW s \in Seq(S), NEW e \in S
  PROVE  Chosen(Append(s, e)) = IF keep(e) THEN Append(Chosen(s), e) ELSE Chosen(s)
<1>1. Chosen(Append(s, e)) = picked(Chosen(s), e)
  BY ChosenIsFold, Folding!FoldAppend, Zenon
<1> QED
  BY <1>1, Zenon DEF picked

LEMMA ChosenOfPrefix ==
  ASSUME NEW S, NEW s \in Seq(S), NEW k \in 0..(Len(s) - 1)
  PROVE  Chosen(SubSeq(s, 1, k + 1)) =
           IF keep(s[k + 1]) THEN Append(Chosen(SubSeq(s, 1, k)), s[k + 1])
           ELSE Chosen(SubSeq(s, 1, k))
<1>1. SubSeq(s, 1, k) \in Seq(S) /\ s[k + 1] \in S
  OBVIOUS
<1>2. SubSeq(s, 1, k + 1) = Append(SubSeq(s, 1, k), s[k + 1])
  OBVIOUS
<1> QED
  BY <1>1, <1>2, ChosenAppend, Zenon

(* What is true of the whole sequence is true of each of its prefixes.      *)
LEMMA PrefixInduction ==
  ASSUME NEW S, NEW s \in Seq(S), NEW T, 0 \in T,
         \A k \in 0..(Len(s) - 1) : k \in T => k + 1 \in T
  PROVE  Len(s) \in T
<1> DEFINE N == {k \in Nat : k <= Len(s) => k \in T}
<1>1. 0 \in N
  OBVIOUS
<1>2. ASSUME NEW k \in Nat, k \in N
      PROVE  k + 1 \in N
  <2>1. SUFFICES ASSUME k + 1 <= Len(s) PROVE k + 1 \in T
    OBVIOUS
  <2>2. k \in 0..(Len(s) - 1) /\ k <= Len(s)
    BY <2>1
  <2> QED
    BY <1>2, <2>2
<1> HIDE DEF N
<1>3. Len(s) \in Nat
  OBVIOUS
<1>4. Len(s) \in N
  BY <1>1, <1>2, <1>3, SetInduction, Zenon
<1> QED
  BY <1>3, <1>4 DEF N

(* The chosen elements are elements that pass the test.                     *)
LEMMA ChosenType ==
  ASSUME NEW S, NEW s \in Seq(S)
  PROVE  Chosen(s) \in Seq({x \in S : keep(x)})
<1> DEFINE K == {x \in S : keep(x)}
           T == {k \in 0..Len(s) : Chosen(SubSeq(s, 1, k)) \in Seq(K)}
<1>1. 0 \in T
  <2>1. SubSeq(s, 1, 0) = <<>> /\ <<>> \in Seq(K) /\ 0 \in 0..Len(s)
    OBVIOUS
  <2> QED
    BY <2>1, ChosenEmpty, Zenon
<1>2. ASSUME NEW k \in 0..(Len(s) - 1), k \in T
      PROVE  k + 1 \in T
  <2>1. k + 1 \in 0..Len(s) /\ s[k + 1] \in S
    OBVIOUS
  <2>2. keep(s[k + 1]) => s[k + 1] \in K
    BY <2>1
  <2> HIDE DEF K
  <2>3. keep(s[k + 1]) => Append(Chosen(SubSeq(s, 1, k)), s[k + 1]) \in Seq(K)
    BY <1>2, <2>2
  <2>4. Chosen(SubSeq(s, 1, k + 1)) \in Seq(K)
    BY <1>2, <2>3, ChosenOfPrefix, Zenon
  <2> QED
    BY <2>1, <2>4
<1> HIDE DEF T, K
<1>3. Len(s) \in T
  BY <1>1, <1>2, PrefixInduction, Zenon
<1>4. SubSeq(s, 1, Len(s)) = s
  OBVIOUS
<1> QED
  BY <1>3, <1>4, Zenon DEF T, K

(* As many are chosen as pass the test.                                     *)
Passing(s, k) == {i \in 1..k : keep(s[i])}

LEMMA ChosenCount ==
  ASSUME NEW S, NEW s \in Seq(S)
  PROVE  /\ Passing(s, Len(s)) \in SUBSET (1..Len(s))
         /\ IsFiniteSet(Passing(s, Len(s)))
         /\ Len(Chosen(s)) = Cardinality(Passing(s, Len(s)))
<1> DEFINE T == {k \in 0..Len(s) :
                   /\ IsFiniteSet(Passing(s, k))
                   /\ Len(Chosen(SubSeq(s, 1, k))) = Cardinality(Passing(s, k))}
<1>1. 0 \in T
  <2>1. SubSeq(s, 1, 0) = <<>> /\ Len(<<>>) = 0 /\ 0 \in 0..Len(s)
    OBVIOUS
  <2>2. Passing(s, 0) = {}
    BY DEF Passing
  <2> QED
    BY <2>1, <2>2, ChosenEmpty, FS_EmptySet, Zenon
<1>2. ASSUME NEW k \in 0..(Len(s) - 1), k \in T
      PROVE  k + 1 \in T
  <2> DEFINE c == Chosen(SubSeq(s, 1, k))
             e == s[k + 1]
  <2>1. k + 1 \in 0..Len(s) /\ e \in S /\ SubSeq(s, 1, k) \in Seq(S)
    OBVIOUS
  <2>2. c \in Seq({x \in S : keep(x)})
    BY <2>1, ChosenType, Zenon
  <2>3. IsFiniteSet(Passing(s, k)) /\ Len(c) = Cardinality(Passing(s, k))
    BY <1>2
  <2>4. CASE keep(e)
    <3>1. Chosen(SubSeq(s, 1, k + 1)) = Append(c, e)
      BY <2>4, ChosenOfPrefix, Zenon
    <3>2. Passing(s, k + 1) = Passing(s, k) \cup {k + 1} /\ k + 1 \notin Passing(s, k)
      BY <2>4 DEF Passing
    <3>3. /\ IsFiniteSet(Passing(s, k + 1))
          /\ Cardinality(Passing(s, k + 1)) = Cardinality(Passing(s, k)) + 1
      BY <2>3, <3>2, FS_AddElement
    <3>4. Len(Append(c, e)) = Len(c) + 1
      <4> HIDE DEF c, e
      <4> QED
        BY <2>2
    <3> QED
      BY <2>1, <2>3, <3>1, <3>3, <3>4
  <2>5. CASE ~keep(e)
    <3>1. Chosen(SubSeq(s, 1, k + 1)) = c
      BY <2>5, ChosenOfPrefix, Zenon
    <3>2. Passing(s, k + 1) = Passing(s, k)
      BY <2>5 DEF Passing
    <3> QED
      BY <2>1, <2>3, <3>1, <3>2
  <2> QED
    BY <2>4, <2>5
<1> HIDE DEF T
<1>3. Len(s) \in T
  BY <1>1, <1>2, PrefixInduction, Zenon
<1>4. SubSeq(s, 1, Len(s)) = s
  OBVIOUS
<1>5. Passing(s, Len(s)) \in SUBSET (1..Len(s))
  BY DEF Passing
<1> QED
  BY <1>3, <1>4, <1>5, Zenon DEF T

(* Nothing is chosen exactly when nothing passes.                           *)
LEMMA ChosenNone ==
  ASSUME NEW S, NEW s \in Seq(S)
  PROVE  (Chosen(s) = <<>>) <=> \A i \in 1..Len(s) : ~keep(s[i])
<1>1. Chosen(s) \in Seq({x \in S : keep(x)})
  BY ChosenType, Zenon
<1>2. IsFiniteSet(Passing(s, Len(s))) /\ Len(Chosen(s)) = Cardinality(Passing(s, Len(s)))
  BY ChosenCount, Zenon
<1>3. Chosen(s) = <<>> <=> Len(Chosen(s)) = 0
  BY <1>1
<1>4. Cardinality(Passing(s, Len(s))) = 0 <=> Passing(s, Len(s)) = {}
  BY <1>2, FS_EmptySet
<1>5. Passing(s, Len(s)) = {} <=> \A i \in 1..Len(s) : ~keep(s[i])
  BY DEF Passing
<1> QED
  BY <1>2, <1>3, <1>4, <1>5

(* When all pass, all are chosen.                                           *)
LEMMA ChosenAll ==
  ASSUME NEW S, NEW s \in Seq(S), \A i \in 1..Len(s) : keep(s[i])
  PROVE  Chosen(s) = s
<1> DEFINE T == {k \in 0..Len(s) : Chosen(SubSeq(s, 1, k)) = SubSeq(s, 1, k)}
<1>1. 0 \in T
  <2>1. SubSeq(s, 1, 0) = <<>> /\ 0 \in 0..Len(s)
    OBVIOUS
  <2> QED
    BY <2>1, ChosenEmpty, Zenon
<1>2. ASSUME NEW k \in 0..(Len(s) - 1), k \in T
      PROVE  k + 1 \in T
  <2>1. k + 1 \in 0..Len(s) /\ keep(s[k + 1])
    OBVIOUS
  <2>2. SubSeq(s, 1, k + 1) = Append(SubSeq(s, 1, k), s[k + 1])
    OBVIOUS
  <2>3. Chosen(SubSeq(s, 1, k)) = SubSeq(s, 1, k)
    BY <1>2
  <2>4. Chosen(SubSeq(s, 1, k + 1)) = SubSeq(s, 1, k + 1)
    BY <2>1, <2>2, <2>3, ChosenOfPrefix, Zenon
  <2> QED
    BY <2>1, <2>4
<1> HIDE DEF T
<1>3. Len(s) \in T
  BY <1>1, <1>2, PrefixInduction, Zenon
<1>4. SubSeq(s, 1, Len(s)) = s
  OBVIOUS
<1> QED
  BY <1>3, <1>4, Zenon DEF T
=============================================================================
