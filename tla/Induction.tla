------------------------------ MODULE Induction ------------------------------
(***************************************************************************)
(* Induction over the natural numbers, with sets in place of predicates,   *)
(* and what it gives: functions defined by recursion over an interval      *)
(* exist and have the type of their steps.  The loops of the code over     *)
(* router groups, records, interfaces and upstreams are such functions.    *)
(***************************************************************************)
EXTENDS Integers, FiniteSets, FiniteSetTheorems, WellFoundedInduction, TLAPS

(* Every set of natural numbers that is not empty has a least element.     *)
LEMMA LeastNumber ==
    ASSUME NEW T \in SUBSET Nat, T # {}
    PROVE  \E n \in T : \A m \in T : n <= m
<1>1. IsWellFoundedOn(OpToRel(<, Nat), Nat)
  BY NatLessThanWellFounded
<1>2. PICK n \in T : \A m \in T : ~(<<m, n>> \in OpToRel(<, Nat))
  BY <1>1, WFMin
<1>3. \A m \in T : ~(m < n)
  BY <1>2 DEF OpToRel
<1>4. QED
  BY <1>3

(* A set that holds 0 and with each number the next one holds all numbers. *)
LEMMA SetInduction ==
    ASSUME NEW P \in SUBSET Nat, 0 \in P, \A n \in P : n + 1 \in P
    PROVE  \A n \in Nat : n \in P
<1>1. SUFFICES ASSUME Nat \ P # {} PROVE FALSE
  OBVIOUS
<1>2. PICK n \in Nat \ P : \A m \in Nat \ P : n <= m
  BY <1>1, LeastNumber
<1>3. n # 0 /\ n - 1 \in Nat /\ n - 1 \in P
  BY <1>2
<1>4. QED
  BY <1>2, <1>3

(* The same up to a bound N.                                               *)
LEMMA IntervalInduction ==
    ASSUME NEW N \in Nat, NEW P, 0 \in P,
           \A n \in 0 .. N - 1 : n \in P => n + 1 \in P
    PROVE  \A n \in 0 .. N : n \in P
<1> DEFINE Q == {n \in Nat : n <= N => n \in P}
<1>1. 0 \in Q
  OBVIOUS
<1>2. ASSUME NEW n \in Q PROVE n + 1 \in Q
  OBVIOUS
<1>3. \A n \in Nat : n \in Q
  <2> HIDE DEF Q
  <2>1. Q \in SUBSET Nat
    BY DEF Q
  <2>2. QED
    BY <1>1, <1>2, <2>1, SetInduction
<1>4. QED
  BY <1>3

(* f is a at 0 and what G makes of its last value at every later number.   *)
DefinedBy(f, a, G, N) ==
    /\ f = [k \in 0 .. N |-> f[k]] /\ f[0] = a
    /\ \A n \in 1 .. N : f[n] = G[<<n, f[n - 1]>>]

(* Such a function exists.                                                 *)
LEMMA RecursionExists ==
    ASSUME NEW a, NEW G, NEW N \in Nat
    PROVE  \E f : DefinedBy(f, a, G, N)
<1> DEFINE Good(f, n) == f = [k \in 0 .. n |-> IF k = 0 THEN a ELSE G[<<k, f[k - 1]>>]]
           P == {n \in Nat : \E f : Good(f, n)}
<1>1. 0 \in P
  <2>1. Good([k \in 0 .. 0 |-> a], 0)
    OBVIOUS
  <2>2. QED
    BY <2>1
<1>2. ASSUME NEW n \in P PROVE n + 1 \in P
  <2>1. PICK f : Good(f, n)
    BY <1>2
  <2> DEFINE h == [k \in 0 .. n + 1 |-> IF k = n + 1 THEN G[<<n + 1, f[n]>>] ELSE f[k]]
  <2>2. \A k \in 0 .. n + 1 : h[k] = IF k = 0 THEN a ELSE G[<<k, h[k - 1]>>]
    <3> TAKE k \in 0 .. n + 1
    <3>1. CASE k = n + 1
      <4>1. n \in 0 .. n + 1 /\ n # n + 1 /\ k # 0 /\ k - 1 = n
        BY <3>1
      <4>2. h[k] = G[<<n + 1, f[n]>>] /\ h[n] = f[n]
        BY <3>1, <4>1
      <4>3. QED
        BY <3>1, <4>1, <4>2
    <3>2. CASE k # n + 1
      <4>1. k \in 0 .. n /\ h[k] = f[k]
        BY <3>2
      <4>2. f[k] = IF k = 0 THEN a ELSE G[<<k, f[k - 1]>>]
        BY <2>1, <4>1
      <4>3. k # 0 => h[k - 1] = f[k - 1]
        BY <4>1
      <4>4. QED
        BY <4>1, <4>2, <4>3
    <3>3. QED
      BY <3>1, <3>2
  <2>3. Good(h, n + 1)
    <3>1. h = [k \in 0 .. n + 1 |-> h[k]]
      OBVIOUS
    <3> HIDE DEF h
    <3>2. QED
      BY <2>2, <3>1
  <2>4. \E q : Good(q, n + 1)
    <3> HIDE DEF h, Good
    <3>1. QED
      BY <2>3
  <2>5. QED
    <3> HIDE DEF h, Good
    <3>1. QED
      BY <2>4
<1>3. \A n \in Nat : n \in P
  <2> HIDE DEF P
  <2>1. P \in SUBSET Nat
    BY DEF P
  <2>2. QED
    BY <1>1, <1>2, <2>1, SetInduction
<1>4. PICK f : Good(f, N)
  <2> HIDE DEF Good
  <2>1. QED
    BY <1>3
<1>5. f = [k \in 0 .. N |-> f[k]] /\ f[0] = a
  BY <1>4
<1>6. \A n \in 1 .. N : f[n] = G[<<n, f[n - 1]>>]
  BY <1>4
<1>7. DefinedBy(f, a, G, N)
  BY <1>5, <1>6 DEF DefinedBy
<1>8. QED
  BY <1>7

(* A function that starts in S and whose steps stay in S has its values in S. *)
LEMMA RecursionType ==
    ASSUME NEW S, NEW N \in Nat, NEW f, f[0] \in S,
           \A n \in 0 .. N - 1 : f[n] \in S => f[n + 1] \in S
    PROVE  \A n \in 0 .. N : f[n] \in S
<1> DEFINE P == {n \in 0 .. N : f[n] \in S}
<1>1. 0 \in P
  OBVIOUS
<1>2. \A n \in 0 .. N - 1 : n \in P => n + 1 \in P
  OBVIOUS
<1>3. \A n \in 0 .. N : n \in P
  <2> HIDE DEF P
  <2>1. QED
    BY <1>1, <1>2, IntervalInduction
<1>4. QED
  BY <1>3

(* Recursion with steps of a given type.                                   *)
LEMMA TypedRecursion ==
    ASSUME NEW S, NEW a \in S, NEW N \in Nat, NEW G \in [(1 .. N) \X S -> S]
    PROVE  \E f \in [0 .. N -> S] : DefinedBy(f, a, G, N)
<1>1. PICK f : DefinedBy(f, a, G, N)
  BY RecursionExists
<1>2. f[0] = a
  BY <1>1 DEF DefinedBy
<1>3. \A n \in 1 .. N : f[n] = G[<<n, f[n - 1]>>]
  BY <1>1 DEF DefinedBy
<1>4. \A n \in 0 .. N - 1 : f[n] \in S => f[n + 1] \in S
  <2> TAKE n \in 0 .. N - 1
  <2>1. n + 1 \in 1 .. N /\ (n + 1) - 1 = n
    OBVIOUS
  <2>2. QED
    BY <2>1, <1>3
<1>5. \A n \in 0 .. N : f[n] \in S
  BY <1>2, <1>4, RecursionType
<1>6. f \in [0 .. N -> S]
  BY <1>1, <1>5 DEF DefinedBy
<1>7. QED
  BY <1>1, <1>6

(* Induction over the subsets of a finite set, one element at a time.      *)
LEMMA SubsetInduction ==
    ASSUME NEW S, IsFiniteSet(S), NEW P, {} \in P,
           \A T \in SUBSET S : T # {} /\ (\A x \in T : T \ {x} \in P) => T \in P
    PROVE  \A T \in SUBSET S : T \in P
<1> DEFINE Q == {n \in Nat : \A T \in SUBSET S : Cardinality(T) <= n => T \in P}
<1>1. \A T \in SUBSET S : IsFiniteSet(T) /\ Cardinality(T) \in Nat
  BY FS_Subset, FS_CardinalityType
<1>2. 0 \in Q
  <2> SUFFICES ASSUME NEW T \in SUBSET S, Cardinality(T) <= 0 PROVE T \in P
    OBVIOUS
  <2>1. Cardinality(T) = 0
    BY <1>1
  <2>2. QED
    BY <1>1, <2>1, FS_EmptySet
<1>3. ASSUME NEW n \in Q PROVE n + 1 \in Q
  <2> SUFFICES ASSUME NEW T \in SUBSET S, Cardinality(T) <= n + 1 PROVE T \in P
    OBVIOUS
  <2>1. CASE T = {}
    BY <2>1
  <2>2. CASE T # {}
    <3>1. ASSUME NEW x \in T PROVE T \ {x} \in P
      <4>1. Cardinality(T \ {x}) = Cardinality(T) - 1
        BY <1>1, FS_RemoveElement
      <4>2. Cardinality(T \ {x}) <= n
        BY <1>1, <4>1
      <4>3. QED
        BY <1>3, <4>2
    <3>2. QED
      BY <2>2, <3>1
  <2>3. QED
    BY <2>1, <2>2
<1>4. \A n \in Nat : n \in Q
  <2> HIDE DEF Q
  <2>1. Q \in SUBSET Nat
    BY DEF Q
  <2>2. QED
    BY <1>2, <1>3, <2>1, SetInduction
<1>5. QED
  <2> TAKE T \in SUBSET S
  <2>1. Cardinality(T) \in Nat /\ Cardinality(T) <= Cardinality(T)
    BY <1>1
  <2>2. Cardinality(T) \in Q
    BY <1>4, <2>1
  <2>3. QED
    BY <2>1, <2>2

(* c picks an element of every subset of S but the empty one.              *)
Picks(c, S) == \A T \in SUBSET S : T # {} => c[T] \in T

(* h is a for the empty set, and for any other one what G makes of the value
   for the set without the element that c picks.                           *)
FoldedBy(h, a, c, G, S) ==
    \A T \in SUBSET S : h[T] = IF T = {} THEN a ELSE G[<<T, h[T \ {c[T]}]>>]

(* Such a function exists on the subsets of a finite set.                  *)
LEMMA SubsetRecursion ==
    ASSUME NEW S, IsFiniteSet(S), NEW V, NEW a \in V,
           NEW c, Picks(c, S),
           NEW G \in [(SUBSET S) \X V -> V]
    PROVE  \E h \in [SUBSET S -> V] : FoldedBy(h, a, c, G, S)
<1> DEFINE N == Cardinality(S)
           H == [SUBSET S -> V]
           h0 == [T \in SUBSET S |-> a]
           Up(h) == [T \in SUBSET S |-> IF T = {} THEN a ELSE G[<<T, h[T \ {c[T]}]>>]]
           R == [p \in (1 .. N) \X H |-> Up(p[2])]
<1>1. N \in Nat /\ \A T \in SUBSET S : IsFiniteSet(T) /\ Cardinality(T) \in Nat
                                       /\ Cardinality(T) <= N
  BY FS_Subset, FS_CardinalityType
<1>2. \A h \in H : Up(h) \in H
  <2> TAKE h \in H
  <2>1. ASSUME NEW T \in SUBSET S, T # {} PROVE G[<<T, h[T \ {c[T]}]>>] \in V
    <3>1. T \ {c[T]} \in SUBSET S
      OBVIOUS
    <3>2. h[T \ {c[T]}] \in V
      BY <3>1
    <3>3. QED
      BY <3>2
  <2>2. QED
    BY <2>1
<1>3. h0 \in H /\ R \in [(1 .. N) \X H -> H]
  BY <1>2
<1>4. PICK f \in [0 .. N -> H] : DefinedBy(f, h0, R, N)
  <2> HIDE DEF N, H, h0, R
  <2>1. QED
    BY <1>1, <1>3, TypedRecursion
<1>5. f[0] = h0 /\ \A n \in 1 .. N : f[n] = Up(f[n - 1])
  <2>1. f[0] = h0 /\ \A n \in 1 .. N : f[n] = R[<<n, f[n - 1]>>]
    <3> HIDE DEF R, h0, H
    <3>1. QED
      BY <1>4 DEF DefinedBy
  <2>2. \A n \in 1 .. N : f[n - 1] \in H
    <3> HIDE DEF H
    <3>1. QED
      BY <1>1
  <2> HIDE DEF H, Up
  <2>3. QED
    BY <2>1, <2>2
<1> HIDE DEF N, R, h0
<1> DEFINE Settled(n) == \A T \in SUBSET S : Cardinality(T) <= n =>
                            f[n][T] = IF T = {} THEN a ELSE G[<<T, f[n][T \ {c[T]}]>>]
           P == {n \in 0 .. N : Settled(n)}
<1>6. 0 \in P
  <2> SUFFICES ASSUME NEW T \in SUBSET S, Cardinality(T) <= 0
               PROVE  T = {} /\ f[0][T] = a
    BY <1>1
  <2>1. T = {}
    BY <1>1, FS_EmptySet
  <2>2. QED
    BY <1>5, <2>1 DEF h0
<1>7. ASSUME NEW n \in 0 .. N - 1, n \in P PROVE n + 1 \in P
  <2>1. n + 1 \in 1 .. N /\ (n + 1) - 1 = n /\ n + 1 \in 0 .. N /\ n \in 0 .. N
    BY <1>1
  <2>2. f[n + 1] = Up(f[n])
    BY <1>5, <2>1
  <2>3. \A T \in SUBSET S : f[n + 1][T] = IF T = {} THEN a ELSE G[<<T, f[n][T \ {c[T]}]>>]
    BY <2>2
  <2>4. \A T \in SUBSET S : Cardinality(T) <= n => f[n + 1][T] = f[n][T]
    <3>1. Settled(n)
      BY <1>7
    <3>2. QED
      BY <2>3, <3>1
  <2>5. Settled(n + 1)
    <3> SUFFICES ASSUME NEW T \in SUBSET S, Cardinality(T) <= n + 1, T # {}
                 PROVE  f[n][T \ {c[T]}] = f[n + 1][T \ {c[T]}]
      BY <2>3
    <3>1. T \ {c[T]} \in SUBSET S /\ Cardinality(T \ {c[T]}) = Cardinality(T) - 1
      BY <1>1, FS_RemoveElement DEF Picks
    <3>2. Cardinality(T \ {c[T]}) <= n
      BY <1>1, <3>1
    <3>3. QED
      BY <2>4, <3>1, <3>2
  <2>6. QED
    <3> HIDE DEF Settled
    <3>1. QED
      BY <2>1, <2>5
<1>8. \A n \in 0 .. N : n \in P
  <2> HIDE DEF P
  <2>1. QED
    BY <1>1, <1>6, <1>7, IntervalInduction
<1>9. Settled(N)
  <2> HIDE DEF Settled
  <2>1. N \in 0 .. N
    BY <1>1
  <2>2. QED
    BY <1>8, <2>1
<1>10. FoldedBy(f[N], a, c, G, S)
  BY <1>1, <1>9 DEF FoldedBy
<1>11. f[N] \in H
  <2> HIDE DEF H
  <2>1. QED
    BY <1>1
<1>12. QED
  BY <1>10, <1>11
=============================================================================
