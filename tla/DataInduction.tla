---------------------------- MODULE DataInduction ----------------------------
(* Induction over the data the models compute with, in first-order form: a  *)
(* non-empty set of naturals has a least element, so that a claim about     *)
(* every n is shown by looking at the least n it fails for.                 *)
EXTENDS Integers, WellFoundedInduction, TLAPS

(* Every non-empty set of natural numbers has a least element.              *)
LEMMA LeastElement ==
  ASSUME NEW T \in SUBSET Nat, T # {}
  PROVE  \E x \in T : \A y \in T : x <= y
<1>1. IsWellFoundedOn(OpToRel(<, Nat), Nat)
  BY NatLessThanWellFounded, Zenon
<1>2. \E x \in T : \A y \in T : <<y, x>> \notin OpToRel(<, Nat)
  BY <1>1, WFMin, Zenon
<1>3. PICK x \in T : \A y \in T : <<y, x>> \notin OpToRel(<, Nat)
  BY <1>2, Zenon
<1>4. \A y \in T : ~(y < x)
  BY <1>3 DEF OpToRel
<1> QED
  BY <1>4

(* What holds of 0, and of n + 1 when it holds of n, holds of every number. *)
LEMMA SetInduction ==
  ASSUME NEW S, 0 \in S, \A n \in Nat : n \in S => n + 1 \in S
  PROVE  Nat \subseteq S
<1>1. SUFFICES ASSUME {n \in Nat : n \notin S} # {} PROVE FALSE
  OBVIOUS
<1>2. PICK x \in {n \in Nat : n \notin S} : \A y \in {n \in Nat : n \notin S} : x <= y
  BY <1>1, LeastElement, Zenon
<1>3. x # 0 /\ x - 1 \in Nat
  BY <1>2
<1>4. x - 1 \in S
  BY <1>2, <1>3
<1>5. x \in S
  BY <1>2, <1>3, <1>4
<1> QED
  BY <1>2, <1>5

(* A non-empty set of numbers up to n has a greatest element.               *)
LEMMA GreatestElement ==
  ASSUME NEW n \in Nat, NEW T \in SUBSET (0..n), T # {}
  PROVE  \E x \in T : \A y \in T : x >= y
<1> DEFINE Above == {m \in Nat : \A y \in T : m >= y}
<1>1. n \in Above
  OBVIOUS
<1>2. PICK m \in Above : \A k \in Above : m <= k
  BY <1>1, LeastElement, Zenon
<1>3. m \in T
  <2>1. SUFFICES ASSUME m \notin T PROVE FALSE
    OBVIOUS
  <2>2. \A y \in T : m > y
    BY <2>1
  <2>3. PICK t \in T : TRUE
    OBVIOUS
  <2>4. m - 1 \in Nat /\ \A y \in T : m - 1 >= y
    BY <2>2, <2>3
  <2> QED
    BY <1>2, <2>4
<1> QED
  BY <1>3


(* f is defined on 0..N by its value at 0 and by what step n, G, makes of   *)
(* the value before it.                                                     *)
Maps(G, N, T) == \A n \in 1..N : \A x \in T : G[<<n, x>>] \in T

Recursive(f, T, first, N, G) ==
  /\ f \in [0..N -> T] /\ f[0] = first
  /\ \A n \in 1..N : f[n] = G[<<n, f[n - 1]>>]

(* Such a function exists.                                                  *)
LEMMA RecursionExists ==
  ASSUME NEW T, NEW first \in T, NEW N \in Nat, NEW G, Maps(G, N, T)
  PROVE  \E f : Recursive(f, T, first, N, G)
<1>0. \A n \in 1..N : \A x \in T : G[<<n, x>>] \in T
  BY DEF Maps
<1> DEFINE Upto(m, f) == f[0] = first /\ \A n \in 1..m : f[n] = G[<<n, f[n - 1]>>]
           S == {m \in Nat : m <= N => \E f \in [0..m -> T] : Upto(m, f)}
<1>1. 0 \in S
  <2> DEFINE f == [n \in 0..0 |-> first]
  <2>1. f \in [0..0 -> T] /\ Upto(0, f)
    OBVIOUS
  <2> QED
    BY <2>1
<1>2. ASSUME NEW m \in Nat, m \in S
      PROVE  m + 1 \in S
  <2>1. SUFFICES ASSUME m + 1 <= N PROVE \E g \in [0..(m + 1) -> T] : Upto(m + 1, g)
    OBVIOUS
  <2>2. PICK f \in [0..m -> T] : Upto(m, f)
    BY <1>2, <2>1
  <2> DEFINE g == [n \in 0..(m + 1) |-> IF n = m + 1 THEN G[<<m + 1, f[m]>>] ELSE f[n]]
  <2>3. G[<<m + 1, f[m]>>] \in T
    <3>1. m + 1 \in 1..N /\ f[m] \in T
      BY <2>1, <2>2
    <3> QED
      BY <1>0, <3>1
  <2>4. g \in [0..(m + 1) -> T]
    BY <2>2, <2>3
  <2>5. g[0] = first
    BY <2>2
  <2>6. ASSUME NEW n \in 1..(m + 1) PROVE g[n] = G[<<n, g[n - 1]>>]
    <3>1. CASE n = m + 1
      <4>1. g[n - 1] = f[m] /\ g[n] = G[<<m + 1, f[m]>>]
        BY <3>1
      <4> QED
        BY <3>1, <4>1
    <3>2. CASE n # m + 1
      <4>1. n \in 1..m /\ g[n] = f[n] /\ g[n - 1] = f[n - 1]
        BY <3>2
      <4> QED
        BY <2>2, <4>1
    <3> QED
      BY <3>1, <3>2
  <2> QED
    BY <2>4, <2>5, <2>6
<1> HIDE DEF S
<1>3. N \in S
  BY <1>1, <1>2, SetInduction, Zenon
<1> QED
  BY <1>3 DEF S, Recursive
=============================================================================
