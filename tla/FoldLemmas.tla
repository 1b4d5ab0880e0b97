----------------------------- MODULE FoldLemmas -----------------------------
(* What FoldLeft computes, for one operator and one base at a time.  The    *)
(* provers cannot instantiate a fact that has an operator for a parameter;  *)
(* a module of such facts is instantiated before they see it.               *)
EXTENDS SequencesExt, DataInduction, SequenceTheorems

CONSTANTS op(_, _), base

(* The table FoldLeft builds: the folds over the sets of positions in D.    *)
Table(s, D) ==
  CHOOSE iter : iter = [P \in SUBSET D |->
    IF P = {} THEN base ELSE op(iter[P \ {Max(P)}], s[Max(P)])]

IsTable(s, D, f) ==
  f = [P \in SUBSET D |-> IF P = {} THEN base ELSE op(f[P \ {Max(P)}], s[Max(P)])]

LEMMA FoldLeftIsTable ==
  ASSUME NEW s
  PROVE  FoldLeft(op, base, s) = Table(s, DOMAIN s)[DOMAIN s]
  BY Zenon DEF FoldLeft, MapThenFoldSet, Table

(* The greatest of the positions up to n.                                   *)
LEMMA MaxOfPositions ==
  ASSUME NEW n \in Nat, NEW P \in SUBSET (1..n), P # {}
  PROVE  Max(P) \in P /\ \A y \in P : Max(P) >= y
<1>1. P \in SUBSET (0..n)
  OBVIOUS
<1>2. \E x \in P : \A y \in P : x >= y
  BY <1>1, GreatestElement, Zenon
<1> QED
  BY <1>2 DEF Max

LEMMA MaxIs ==
  ASSUME NEW n \in Nat, NEW P \in SUBSET (1..n), NEW m \in P, \A y \in P : m >= y
  PROVE  Max(P) = m
<1>1. Max(P) \in P /\ \A y \in P : Max(P) >= y
  BY MaxOfPositions, P # {}, Zenon
<1>2. Max(P) \in 1..n /\ m \in 1..n
  BY <1>1
<1>3. Max(P) >= m /\ m >= Max(P)
  BY <1>1
<1> QED
  BY <1>2, <1>3

LEMMA TableGrows ==
  ASSUME NEW s, NEW n \in Nat, \E f : IsTable(s, 1..n, f)
  PROVE  \E f : IsTable(s, 1..(n + 1), f)
<1>1. PICK f : IsTable(s, 1..n, f)
  OBVIOUS
<1> DEFINE g == [P \in SUBSET (1..(n + 1)) |->
                   IF n + 1 \in P THEN op(f[P \ {n + 1}], s[n + 1]) ELSE f[P]]
<1>2. ASSUME NEW P \in SUBSET (1..(n + 1))
      PROVE  g[P] = IF P = {} THEN base ELSE op(g[P \ {Max(P)}], s[Max(P)])
  <2>1. CASE n + 1 \in P
    <3>1. Max(P) = n + 1
      <4>1. n + 1 \in Nat /\ \A y \in P : n + 1 >= y
        OBVIOUS
      <4> QED
        BY <2>1, <4>1, MaxIs, Zenon
    <3>2. g[P \ {n + 1}] = f[P \ {n + 1}]
      OBVIOUS
    <3>3. g[P] = op(f[P \ {n + 1}], s[n + 1])
      BY <2>1
    <3> QED
      BY <2>1, <3>1, <3>2, <3>3
  <2>2. CASE n + 1 \notin P
    <3>1. P \in SUBSET (1..n) /\ g[P] = f[P]
      BY <2>2
    <3>2. f[P] = IF P = {} THEN base ELSE op(f[P \ {Max(P)}], s[Max(P)])
      BY <1>1, <3>1, Zenon DEF IsTable
    <3>3. g[P \ {Max(P)}] = f[P \ {Max(P)}]
      BY <2>2
    <3> QED
      BY <3>1, <3>2, <3>3, Zenon
  <2> QED
    BY <2>1, <2>2
<1>3. g = [P \in SUBSET (1..(n + 1)) |->
             IF P = {} THEN base ELSE op(g[P \ {Max(P)}], s[Max(P)])]
  BY <1>2, Zenon
<1> QED
  BY <1>3, Zenon DEF IsTable

LEMMA TableExists ==
  ASSUME NEW s, NEW n \in Nat
  PROVE  IsTable(s, 1..n, Table(s, 1..n))
<1> DEFINE S == {m \in Nat : \E f : IsTable(s, 1..m, f)}
<1>1. 0 \in S
  <2> DEFINE f == [P \in SUBSET (1..0) |-> base]
  <2>1. \A P \in SUBSET (1..0) : P = {}
    OBVIOUS
  <2>2. f = [P \in SUBSET (1..0) |->
               IF P = {} THEN base ELSE op(f[P \ {Max(P)}], s[Max(P)])]
    BY <2>1, Zenon
  <2>3. IsTable(s, 1..0, f)
    BY <2>2, Zenon DEF IsTable
  <2> QED
    BY <2>3, 0 \in Nat, Zenon
<1>2. ASSUME NEW m \in Nat, m \in S
      PROVE  m + 1 \in S
  <2>1. \E f : IsTable(s, 1..(m + 1), f)
    BY <1>2, TableGrows, Zenon
  <2> QED
    BY <2>1
<1> HIDE DEF S
<1>3. n \in S
  BY <1>1, <1>2, SetInduction, Zenon
<1>4. \E f : IsTable(s, 1..n, f)
  BY <1>3 DEF S
<1> QED
  BY <1>4, Zenon DEF IsTable, Table

(* The fold over the first k positions, as the table of n positions has it. *)
LEMMA TableRecursion ==
  ASSUME NEW s, NEW n \in Nat
  PROVE  /\ Table(s, 1..n)[1..0] = base
         /\ \A k \in 0..(n - 1) :
              Table(s, 1..n)[1..(k + 1)] = op(Table(s, 1..n)[1..k], s[k + 1])
<1> DEFINE f == Table(s, 1..n)
<1>1. f = [P \in SUBSET (1..n) |->
             IF P = {} THEN base ELSE op(f[P \ {Max(P)}], s[Max(P)])]
  BY TableExists, Zenon DEF IsTable
<1> HIDE DEF f
<1>2. f[1..0] = base
  <2>1. 1..0 = {}
    OBVIOUS
  <2> QED
    BY <1>1, <2>1, Zenon
<1>3. ASSUME NEW k \in 0..(n - 1)
      PROVE  f[1..(k + 1)] = op(f[1..k], s[k + 1])
  <2>1. 1..(k + 1) \in SUBSET (1..n) /\ 1..(k + 1) # {} /\ k + 1 \in 1..(k + 1)
    OBVIOUS
  <2>2. \A y \in 1..(k + 1) : k + 1 >= y
    OBVIOUS
  <2>3. Max(1..(k + 1)) = k + 1
    BY <2>1, <2>2, MaxIs, Zenon
  <2>4. (1..(k + 1)) \ {k + 1} = 1..k
    OBVIOUS
  <2> QED
    BY <1>1, <2>1, <2>3, <2>4, Zenon
<1> QED
  BY <1>2, <1>3 DEF f

(* Two sequences with the same first k elements have the same fold of them. *)
LEMMA TablesAgree ==
  ASSUME NEW s, NEW t, NEW m \in Nat, NEW n \in Nat, NEW k \in 0..m,
         k \in 0..n, \A i \in 1..k : s[i] = t[i]
  PROVE  Table(s, 1..m)[1..k] = Table(t, 1..n)[1..k]
<1> DEFINE f == Table(s, 1..m)
           g == Table(t, 1..n)
           S == {i \in Nat : i <= k => f[1..i] = g[1..i]}
<1>0. /\ f[1..0] = base /\ g[1..0] = base
      /\ \A i \in 0..(m - 1) : f[1..(i + 1)] = op(f[1..i], s[i + 1])
      /\ \A i \in 0..(n - 1) : g[1..(i + 1)] = op(g[1..i], t[i + 1])
  BY TableRecursion, Zenon
<1> HIDE DEF f, g
<1>1. 0 \in S
  BY <1>0
<1>2. ASSUME NEW i \in Nat, i \in S
      PROVE  i + 1 \in S
  <2>1. SUFFICES ASSUME i + 1 <= k PROVE f[1..(i + 1)] = g[1..(i + 1)]
    OBVIOUS
  <2>2. f[1..i] = g[1..i]
    BY <1>2, <2>1
  <2>3. i \in 0..(m - 1) /\ i \in 0..(n - 1) /\ i + 1 \in 1..k
    BY <2>1
  <2>4. s[i + 1] = t[i + 1]
    BY <2>3
  <2> QED
    BY <1>0, <2>2, <2>3, <2>4, Zenon
<1> HIDE DEF S
<1>3. k \in S
  BY <1>1, <1>2, SetInduction, k \in Nat
<1>4. f[1..k] = g[1..k]
  BY <1>3 DEF S
<1> QED
  BY <1>4 DEF f, g
-----------------------------------------------------------------------------
(* The empty fold is the base.                                              *)
LEMMA FoldEmpty == FoldLeft(op, base, <<>>) = base
<1>1. DOMAIN <<>> = 1..0
  OBVIOUS
<1>2. FoldLeft(op, base, <<>>) = Table(<<>>, 1..0)[1..0]
  BY <1>1, FoldLeftIsTable
<1> QED
  BY <1>2, TableRecursion, 0 \in Nat

(* The fold of one element more.                                            *)
LEMMA FoldAppend ==
  ASSUME NEW S, NEW s \in Seq(S), NEW e \in S
  PROVE  FoldLeft(op, base, Append(s, e)) = op(FoldLeft(op, base, s), e)
<1> DEFINE n == Len(s)
           t == Append(s, e)
<1>1. /\ n \in Nat /\ DOMAIN s = 1..n /\ DOMAIN t = 1..(n + 1)
      /\ t[n + 1] = e /\ \A i \in 1..n : t[i] = s[i]
  OBVIOUS
<1> HIDE DEF t, n
<1>2. /\ FoldLeft(op, base, s) = Table(s, 1..n)[1..n]
      /\ FoldLeft(op, base, t) = Table(t, 1..(n + 1))[1..(n + 1)]
  BY <1>1, FoldLeftIsTable
<1>3. n \in 0..((n + 1) - 1) /\ n + 1 \in Nat /\ n <= n /\ n <= n + 1
  BY <1>1
<1>4. Table(t, 1..(n + 1))[1..(n + 1)] = op(Table(t, 1..(n + 1))[1..n], t[n + 1])
  BY <1>3, TableRecursion, Zenon
<1>5. Table(t, 1..(n + 1))[1..n] = Table(s, 1..n)[1..n]
  <2>1. ASSUME NEW k \in Nat, k = n
        PROVE  Table(t, 1..(k + 1))[1..k] = Table(s, 1..k)[1..k]
    <3>1. k + 1 \in Nat /\ k \in 0..k /\ k \in 0..(k + 1) /\ \A i \in 1..k : t[i] = s[i]
      BY <1>1, <2>1
    <3> QED
      BY <3>1, TablesAgree
  <2> QED
    BY <1>1, <2>1, Zenon
<1> QED
  BY <1>1, <1>2, <1>4, <1>5, Zenon DEF t

(* The fold of one element more of a sequence than of its first k.          *)
LEMMA FoldOfPrefix ==
  ASSUME NEW S, NEW s \in Seq(S), NEW k \in 0..(Len(s) - 1)
  PROVE  FoldLeft(op, base, SubSeq(s, 1, k + 1))
           = op(FoldLeft(op, base, SubSeq(s, 1, k)), s[k + 1])
<1>1. SubSeq(s, 1, k) \in Seq(S) /\ s[k + 1] \in S
  OBVIOUS
<1>2. SubSeq(s, 1, k + 1) = Append(SubSeq(s, 1, k), s[k + 1])
  OBVIOUS
<1> QED
  BY <1>1, <1>2, FoldAppend, Zenon

(* What op keeps and the base belongs to, the fold belongs to.              *)
LEMMA FoldType ==
  ASSUME NEW S, NEW T, base \in T, \A x \in T, e \in S : op(x, e) \in T,
         NEW s \in Seq(S)
  PROVE  FoldLeft(op, base, s) \in T
<1> DEFINE N == {k \in Nat : k <= Len(s) => FoldLeft(op, base, SubSeq(s, 1, k)) \in T}
<1>1. 0 \in N
  <2>1. SubSeq(s, 1, 0) = <<>>
    OBVIOUS
  <2> QED
    BY <2>1, FoldEmpty
<1>2. ASSUME NEW k \in Nat, k \in N
      PROVE  k + 1 \in N
  <2>1. SUFFICES ASSUME k + 1 <= Len(s)
                 PROVE FoldLeft(op, base, SubSeq(s, 1, k + 1)) \in T
    OBVIOUS
  <2>2. k \in 0..(Len(s) - 1) /\ s[k + 1] \in S
    BY <2>1
  <2>3. FoldLeft(op, base, SubSeq(s, 1, k)) \in T
    BY <1>2, <2>1
  <2>4. FoldLeft(op, base, SubSeq(s, 1, k + 1))
          = op(FoldLeft(op, base, SubSeq(s, 1, k)), s[k + 1])
    BY <2>2, FoldOfPrefix, Zenon
  <2> QED
    BY <2>2, <2>3, <2>4, Zenon
<1> HIDE DEF N
<1>3. Len(s) \in N
  BY <1>1, <1>2, SetInduction, Len(s) \in Nat, Zenon
<1>4. SubSeq(s, 1, Len(s)) = s /\ Len(s) <= Len(s)
  OBVIOUS
<1>5. FoldLeft(op, base, SubSeq(s, 1, Len(s))) \in T
  BY <1>3, <1>4, Zenon DEF N
<1> QED
  BY <1>4, <1>5, Zenon
=============================================================================

