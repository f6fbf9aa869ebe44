----------------------------- MODULE SumLemmas -----------------------------
(***************************************************************************)
(* What SumFunctionOnSet and SumFunction of the community modules compute  *)
(* over a finite set of any size: the merchant-wide balances of the ledger *)
(* and the checksum of a card number are such sums.                        *)
(*                                                                         *)
(* The library states induction for an operator P(_), which the provers    *)
(* cannot instantiate.  Here it is stated for a set of numbers, from the   *)
(* fact that every set of numbers that is not empty has a least one.       *)
(***************************************************************************)
EXTENDS Integers, FiniteSetsExt, FiniteSetTheorems, WellFoundedInduction, TLAPS

LEMMA LeastNumber ==
    ASSUME NEW T \in SUBSET Nat, T # {}
    PROVE  \E n \in T : \A m \in T : n <= m
  <1> DEFINE R == OpToRel(<, Nat)
  <1>1. ASSUME NEW m \in Nat, NEW n \in Nat, m < n PROVE <<m, n>> \in R
    <2>1. <<m, n>> \in Nat \X Nat /\ <<m, n>>[1] < <<m, n>>[2]
      BY <1>1
    <2>2. QED
      BY <2>1, Zenon DEF OpToRel
  <1>2. IsWellFoundedOn(R, Nat)
    BY NatLessThanWellFounded
  <1> HIDE DEF R
  <1>3. PICK n \in T : \A m \in T : <<m, n>> \notin R
    BY <1>2, WFMin
  <1>4. ASSUME NEW m \in T PROVE n <= m
    <2>1. m \in Nat /\ n \in Nat /\ ~(m < n)
      BY <1>1, <1>3
    <2>2. QED
      BY <2>1
  <1>5. QED
    BY <1>4

(* Mathematical induction, for the set of numbers that have a property. *)
LEMMA Induction ==
    ASSUME NEW N \in SUBSET Nat, 0 \in N, \A n \in N : n + 1 \in N
    PROVE  N = Nat
  <1> SUFFICES ASSUME Nat \ N # {} PROVE FALSE
    OBVIOUS
  <1>1. PICK n \in Nat \ N : \A m \in Nat \ N : n <= m
    BY LeastNumber
  <1>2. n # 0 /\ n - 1 \in Nat
    BY <1>1
  <1>3. n - 1 \in N
    BY <1>1, <1>2
  <1>4. QED
    BY <1>1, <1>2, <1>3
-----------------------------------------------------------------------------
(* The element that the fold takes from a set first. *)
First(T) == CHOOSE x \in T : TRUE

(* g is the recursive function by which the fold sums f over subsets of S. *)
Sums(g, f, S) ==
    g = [T \in SUBSET S |->
            IF T = {} THEN 0 ELSE f[First(T)] + g[T \ {First(T)}]]

LEMMA FirstIn == ASSUME NEW T, T # {} PROVE First(T) \in T
  BY DEF First

LEMMA SmallerSet ==
    ASSUME NEW T, IsFiniteSet(T), NEW x \in T
    PROVE  /\ IsFiniteSet(T \ {x}) /\ Cardinality(T) \in Nat \ {0}
           /\ Cardinality(T \ {x}) = Cardinality(T) - 1
  <1>1. Cardinality(T) \in Nat /\ Cardinality(T) # 0
    BY FS_CardinalityType, FS_EmptySet
  <1>2. QED
    BY <1>1, FS_RemoveElement

LEMMA FoldIsSum ==
    ASSUME NEW S, NEW f, NEW h, Sums(h, f, S)
    PROVE  \E g : Sums(g, f, S) /\ SumFunctionOnSet(f, S) = g[S]
  <1> DEFINE P(g) == Sums(g, f, S)
  <1>1. \E g : P(g)
    OBVIOUS
  <1> HIDE DEF P
  <1>2. P(CHOOSE g : P(g))
    BY <1>1, Zenon
  <1>3. SumFunctionOnSet(f, S) = (CHOOSE g : P(g))[S]
    BY DEF SumFunctionOnSet, FoldFunctionOnSet, MapThenFoldSet, P, Sums, First
  <1>4. QED
    BY <1>2, <1>3 DEF P

(* Such a function exists for every finite set: built by size of subsets. *)
LEMMA SumsExist ==
    ASSUME NEW S, IsFiniteSet(S), NEW f, \A x \in S : f[x] \in Int
    PROVE  \E g \in [SUBSET S -> Int] : Sums(g, f, S)
  <1> DEFINE Upto(n) == {T \in SUBSET S : Cardinality(T) <= n}
             Next(g, T) == IF T = {} THEN 0 ELSE f[First(T)] + g[T \ {First(T)}]
             Good(g, n) == /\ g \in [Upto(n) -> Int]
                           /\ \A T \in Upto(n) : g[T] = Next(g, T)
             N == {n \in Nat : \E g : Good(g, n)}
  <1>1. \A T \in SUBSET S : IsFiniteSet(T) /\ Cardinality(T) \in Nat
    BY FS_Subset, FS_CardinalityType
  <1>2. \A T \in SUBSET S : T # {} => /\ First(T) \in T /\ First(T) \in S
                                     /\ T \ {First(T)} \in SUBSET S
                                     /\ Cardinality(T \ {First(T)}) = Cardinality(T) - 1
    BY <1>1, FirstIn, SmallerSet
  <1>3. 0 \in N
    <2>1. \A T \in Upto(0) : T = {}
      BY <1>1, FS_EmptySet
    <2>2. Good([T \in Upto(0) |-> 0], 0)
      BY <2>1
    <2>3. QED
      BY <2>2
  <1>4. ASSUME NEW n \in N PROVE n + 1 \in N
    <2>1. PICK g : Good(g, n)
      OBVIOUS
    <2>2. n \in Nat /\ Upto(n) \subseteq Upto(n + 1)
      BY <1>1
    <2> DEFINE h == [T \in Upto(n + 1) |-> Next(g, T)]
    <2>3. \A T \in Upto(n + 1) : T # {} => T \ {First(T)} \in Upto(n)
      BY <1>1, <1>2, <2>2
    <2>4. \A T \in Upto(n + 1) : Next(g, T) \in Int
      BY <1>2, <2>1, <2>3
    <2>5. \A T \in Upto(n) : h[T] = g[T]
      BY <2>1, <2>2
    <2>6. \A T \in Upto(n + 1) : h[T] = Next(h, T)
      BY <2>3, <2>5
    <2>7. Good(h, n + 1)
      BY <2>4, <2>6
    <2> HIDE DEF Good, h
    <2>8. \E k : Good(k, n + 1)
      BY <2>7
    <2>9. QED
      BY <2>2, <2>8
  <1>5. Cardinality(S) \in N
    <2> HIDE DEF N
    <2>1. N \in SUBSET Nat
      BY DEF N
    <2>2. QED
      BY <1>1, <1>3, <1>4, <2>1, Induction
  <1>6. PICK g : Good(g, Cardinality(S))
    BY <1>5
  <1>7. Upto(Cardinality(S)) = SUBSET S
    BY FS_Subset
  <1>8. QED
    BY <1>6, <1>7 DEF Sums

(* Two such functions agree where they sum the same values. *)
LEMMA SumsAgree ==
    ASSUME NEW S, NEW R, NEW f, NEW e, NEW g, NEW h,
           Sums(g, f, S), Sums(h, e, R),
           NEW U, IsFiniteSet(U), U \subseteq S, U \subseteq R,
           \A x \in U : f[x] = e[x]
    PROVE  g[U] = h[U]
  <1> DEFINE N == {n \in Nat : \A T \in SUBSET U : Cardinality(T) = n => g[T] = h[T]}
  <1>1. \A T \in SUBSET U : IsFiniteSet(T) /\ Cardinality(T) \in Nat
    BY FS_Subset, FS_CardinalityType
  <1>2. \A T \in SUBSET U :
          /\ g[T] = IF T = {} THEN 0 ELSE f[First(T)] + g[T \ {First(T)}]
          /\ h[T] = IF T = {} THEN 0 ELSE e[First(T)] + h[T \ {First(T)}]
    BY DEF Sums
  <1>3. 0 \in N
    BY <1>1, <1>2, FS_EmptySet
  <1>4. ASSUME NEW n \in N PROVE n + 1 \in N
    <2>1. ASSUME NEW T \in SUBSET U, Cardinality(T) = n + 1 PROVE g[T] = h[T]
      <3>1. T # {}
        <4>1. n \in Nat /\ n + 1 # 0
          OBVIOUS
        <4>2. Cardinality(T) # 0 /\ IsFiniteSet(T)
          BY <1>1, <2>1, <4>1
        <4>3. QED
          BY <4>2, FS_EmptySet
      <3>2. /\ First(T) \in U /\ T \ {First(T)} \in SUBSET U
            /\ Cardinality(T \ {First(T)}) = n
        BY <1>1, <2>1, <3>1, FirstIn, SmallerSet
      <3>3. QED
        BY <1>2, <3>1, <3>2
    <2>2. QED
      BY <2>1
  <1>5. Cardinality(U) \in N
    <2> HIDE DEF N
    <2>1. N \in SUBSET Nat
      BY DEF N
    <2>2. QED
      BY <1>1, <1>3, <1>4, <2>1, Induction
  <1>6. QED
    BY <1>5
-----------------------------------------------------------------------------
(* A sum, taken element by element in the order of the fold. *)
LEMMA SumEmpty == ASSUME NEW f PROVE SumFunctionOnSet(f, {}) = 0
  <1>1. PICK g \in [SUBSET {} -> Int] : Sums(g, f, {})
    BY SumsExist, FS_EmptySet
  <1>2. PICK k : Sums(k, f, {}) /\ SumFunctionOnSet(f, {}) = k[{}]
    BY <1>1, FoldIsSum
  <1>3. QED
    BY <1>2 DEF Sums

LEMMA SumFirst ==
    ASSUME NEW S, IsFiniteSet(S), S # {}, NEW f, \A x \in S : f[x] \in Int
    PROVE  /\ First(S) \in S
           /\ SumFunctionOnSet(f, S)
                  = f[First(S)] + SumFunctionOnSet(f, S \ {First(S)})
  <1> DEFINE R == S \ {First(S)}
  <1>1. First(S) \in S /\ R \subseteq S /\ IsFiniteSet(R)
    BY FirstIn, FS_Subset
  <1>2. PICK g : Sums(g, f, S) /\ SumFunctionOnSet(f, S) = g[S]
    BY SumsExist, FoldIsSum
  <1>3. PICK h : Sums(h, f, R) /\ SumFunctionOnSet(f, R) = h[R]
    <2>1. \A x \in R : f[x] \in Int
      BY <1>1
    <2>2. PICK k : Sums(k, f, R)
      BY <1>1, <2>1, SumsExist
    <2>3. QED
      BY <2>2, FoldIsSum
  <1> HIDE DEF R
  <1>4. g[R] = h[R]
    BY <1>1, <1>2, <1>3, SumsAgree
  <1>5. g[S] = f[First(S)] + g[R]
    BY <1>2 DEF Sums, R
  <1>6. QED
    BY <1>1, <1>2, <1>3, <1>4, <1>5 DEF R

LEMMA SumInt ==
    ASSUME NEW S, IsFiniteSet(S), NEW f, \A x \in S : f[x] \in Int
    PROVE  SumFunctionOnSet(f, S) \in Int
  <1>1. PICK g \in [SUBSET S -> Int] : Sums(g, f, S)
    BY SumsExist
  <1>2. PICK k : Sums(k, f, S) /\ SumFunctionOnSet(f, S) = k[S]
    BY <1>1, FoldIsSum
  <1>3. g[S] = k[S]
    BY <1>1, <1>2, SumsAgree
  <1>4. QED
    BY <1>1, <1>2, <1>3

LEMMA SumSame ==
    ASSUME NEW S, IsFiniteSet(S), NEW f, NEW e,
           \A x \in S : f[x] \in Int, \A x \in S : f[x] = e[x]
    PROVE  SumFunctionOnSet(f, S) = SumFunctionOnSet(e, S)
  <1>1. PICK g : Sums(g, f, S) /\ SumFunctionOnSet(f, S) = g[S]
    BY SumsExist, FoldIsSum
  <1>2. \A x \in S : e[x] \in Int
    OBVIOUS
  <1>3. PICK h : Sums(h, e, S) /\ SumFunctionOnSet(e, S) = h[S]
    BY <1>2, SumsExist, FoldIsSum
  <1>4. QED
    BY <1>1, <1>3, SumsAgree

(***************************************************************************)
(* The order does not matter: any element can be taken out of a sum.       *)
(***************************************************************************)
LEMMA SumRemove ==
    ASSUME NEW S, IsFiniteSet(S), NEW f, \A x \in S : f[x] \in Int, NEW x \in S
    PROVE  SumFunctionOnSet(f, S) = f[x] + SumFunctionOnSet(f, S \ {x})
  <1> DEFINE Splits(T) == \A y \in T :
                 SumFunctionOnSet(f, T) = f[y] + SumFunctionOnSet(f, T \ {y})
             N == {n \in Nat : \A T \in SUBSET S : Cardinality(T) = n => Splits(T)}
  <1>1. \A T \in SUBSET S : /\ IsFiniteSet(T) /\ Cardinality(T) \in Nat
                            /\ \A y \in T : f[y] \in Int
    BY FS_Subset, FS_CardinalityType
  <1>2. 0 \in N
    BY <1>1, FS_EmptySet
  <1>3. ASSUME NEW n \in N PROVE n + 1 \in N
    <2>1. n \in Nat /\ \A T \in SUBSET S : Cardinality(T) = n => Splits(T)
      OBVIOUS
    <2>2. ASSUME NEW T \in SUBSET S, Cardinality(T) = n + 1, NEW y \in T
          PROVE  SumFunctionOnSet(f, T) = f[y] + SumFunctionOnSet(f, T \ {y})
      <3>1. /\ First(T) \in T
            /\ SumFunctionOnSet(f, T)
                  = f[First(T)] + SumFunctionOnSet(f, T \ {First(T)})
        BY <1>1, <2>2, SumFirst
      <3>2. CASE y = First(T)
        BY <3>1, <3>2
      <3>3. CASE y # First(T)
        <4> DEFINE z == First(T)
                   A == T \ {z}
                   B == T \ {y}
                   C == T \ {y, z}
        <4>1. A \in SUBSET S /\ B \in SUBSET S /\ C \in SUBSET S /\ y \in A /\ z \in B
          BY <3>1, <3>3
        <4>2. A \ {y} = C /\ B \ {z} = C
          OBVIOUS
        <4>3. Cardinality(A) = n /\ Cardinality(B) = n
          BY <1>1, <2>1, <2>2, <3>1, SmallerSet
        <4>4. f[y] \in Int /\ f[z] \in Int /\ SumFunctionOnSet(f, C) \in Int
          BY <1>1, <2>2, <3>1, <4>1, SumInt
        <4> HIDE DEF z, A, B, C
        <4>5. Splits(A) /\ Splits(B)
          BY <2>1, <4>1, <4>3
        <4>6. /\ SumFunctionOnSet(f, A) = f[y] + SumFunctionOnSet(f, C)
              /\ SumFunctionOnSet(f, B) = f[z] + SumFunctionOnSet(f, C)
          BY <4>1, <4>2, <4>5
        <4>7. SumFunctionOnSet(f, T) = f[z] + SumFunctionOnSet(f, A)
          BY <3>1 DEF z, A
        <4>8. SumFunctionOnSet(f, T) = f[y] + SumFunctionOnSet(f, B)
          BY <4>4, <4>6, <4>7
        <4>9. QED
          BY <4>8 DEF B
      <3>4. QED
        BY <3>2, <3>3
    <2>3. \A T \in SUBSET S : Cardinality(T) = n + 1 => Splits(T)
      BY <2>2
    <2> HIDE DEF Splits
    <2>4. QED
      BY <2>1, <2>3
  <1>4. Cardinality(S) \in N
    <2> HIDE DEF N
    <2>1. N \in SUBSET Nat
      BY DEF N
    <2>2. QED
      BY <1>1, <1>2, <1>3, <2>1, Induction
  <1>5. QED
    BY <1>4

(* Two functions that differ at one element have sums that differ as much. *)
LEMMA SumChange ==
    ASSUME NEW S, IsFiniteSet(S), NEW f, NEW e, NEW x \in S,
           \A y \in S : f[y] \in Int, e[x] \in Int,
           \A y \in S \ {x} : f[y] = e[y]
    PROVE  SumFunctionOnSet(e, S) = SumFunctionOnSet(f, S) - f[x] + e[x]
  <1> DEFINE R == S \ {x}
  <1>1. IsFiniteSet(R) /\ \A y \in R : f[y] \in Int
    BY FS_Subset
  <1>2. SumFunctionOnSet(f, R) = SumFunctionOnSet(e, R)
    <2> HIDE DEF R
    <2>1. \A y \in R : f[y] = e[y]
      BY DEF R
    <2>2. QED
      BY <1>1, <2>1, SumSame
  <1>3. SumFunctionOnSet(f, R) \in Int
    BY <1>1, SumInt
  <1>4. SumFunctionOnSet(f, S) = f[x] + SumFunctionOnSet(f, R)
    BY SumRemove
  <1>5. SumFunctionOnSet(e, S) = e[x] + SumFunctionOnSet(e, R)
    <2>1. \A y \in S : e[y] \in Int
      OBVIOUS
    <2>2. QED
      BY <2>1, SumRemove
  <1> HIDE DEF R
  <1>6. f[x] \in Int
    OBVIOUS
  <1>7. QED
    BY <1>2, <1>3, <1>4, <1>5, <1>6

LEMMA SumNonneg ==
    ASSUME NEW S, IsFiniteSet(S), NEW f, \A x \in S : f[x] \in Nat
    PROVE  SumFunctionOnSet(f, S) \in Nat
  <1> DEFINE N == {n \in Nat : \A T \in SUBSET S :
                      Cardinality(T) = n => SumFunctionOnSet(f, T) \in Nat}
  <1>1. \A T \in SUBSET S : /\ IsFiniteSet(T) /\ Cardinality(T) \in Nat
                            /\ \A y \in T : f[y] \in Nat
    BY FS_Subset, FS_CardinalityType
  <1>2. 0 \in N
    BY <1>1, FS_EmptySet, SumEmpty
  <1>3. ASSUME NEW n \in N PROVE n + 1 \in N
    <2>1. n \in Nat /\ n + 1 # 0
      OBVIOUS
    <2>2. ASSUME NEW T \in SUBSET S, Cardinality(T) = n + 1
          PROVE  SumFunctionOnSet(f, T) \in Nat
      <3>1. T # {} /\ \A y \in T : f[y] \in Int
        BY <1>1, <2>1, <2>2, FS_EmptySet
      <3>2. /\ First(T) \in T
            /\ SumFunctionOnSet(f, T)
                  = f[First(T)] + SumFunctionOnSet(f, T \ {First(T)})
        BY <1>1, <3>1, SumFirst
      <3>3. Cardinality(T \ {First(T)}) = n
        BY <1>1, <2>1, <2>2, <3>2, SmallerSet
      <3>4. SumFunctionOnSet(f, T \ {First(T)}) \in Nat
        BY <3>3
      <3>5. QED
        BY <1>1, <3>2, <3>4
    <2>3. QED
      BY <2>1, <2>2
  <1>4. Cardinality(S) \in N
    <2> HIDE DEF N
    <2>1. N \in SUBSET Nat
      BY DEF N
    <2>2. QED
      BY <1>1, <1>2, <1>3, <2>1, Induction
  <1>5. QED
    BY <1>4

(* A sum over S and a sum over part of it, where the rest counts for none. *)
LEMMA SumPart ==
    ASSUME NEW S, IsFiniteSet(S), NEW f, NEW e, NEW U \in SUBSET S,
           \A x \in U : f[x] \in Int /\ e[x] = f[x],
           \A x \in S \ U : f[x] = 0
    PROVE  SumFunctionOnSet(f, S) = SumFunctionOnSet(e, U)
  <1> DEFINE N == {n \in Nat : \A T \in SUBSET S :
                      Cardinality(T) = n =>
                          SumFunctionOnSet(f, T) = SumFunctionOnSet(e, T \cap U)}
  <1>1. \A T \in SUBSET S : /\ IsFiniteSet(T) /\ Cardinality(T) \in Nat
                            /\ \A y \in T : f[y] \in Int
    BY FS_Subset, FS_CardinalityType
  <1>2. 0 \in N
    <2>1. {} \cap U = {}
      OBVIOUS
    <2>2. QED
      BY <1>1, <2>1, FS_EmptySet, SumEmpty
  <1>3. ASSUME NEW n \in N PROVE n + 1 \in N
    <2>1. n \in Nat /\ n + 1 # 0
      OBVIOUS
    <2>2. ASSUME NEW T \in SUBSET S, Cardinality(T) = n + 1
          PROVE  SumFunctionOnSet(f, T) = SumFunctionOnSet(e, T \cap U)
      <3>1. T # {}
        BY <1>1, <2>1, <2>2, FS_EmptySet
      <3>2. PICK x : x \in T
        BY <3>1
      <3> DEFINE R == T \ {x}
      <3>3. R \in SUBSET S /\ Cardinality(R) = n
        BY <1>1, <2>1, <2>2, <3>2, SmallerSet
      <3>4. SumFunctionOnSet(f, R) = SumFunctionOnSet(e, R \cap U)
        BY <3>3
      <3>5. SumFunctionOnSet(f, T) = f[x] + SumFunctionOnSet(f, R)
        BY <1>1, <3>2, SumRemove
      <3>6. SumFunctionOnSet(f, R) \in Int
        BY <1>1, <3>3, SumInt
      <3>7. CASE x \in U
        <4>1. x \in T \cap U /\ (T \cap U) \ {x} = R \cap U
          BY <3>2, <3>7
        <4>2. IsFiniteSet(T \cap U) /\ \A y \in T \cap U : e[y] \in Int
          BY <1>1, FS_Subset
        <4>3. SumFunctionOnSet(e, T \cap U)
                 = e[x] + SumFunctionOnSet(e, R \cap U)
          <5> HIDE DEF R
          <5>1. SumFunctionOnSet(e, T \cap U)
                   = e[x] + SumFunctionOnSet(e, (T \cap U) \ {x})
            BY <4>1, <4>2, SumRemove
          <5>2. QED
            BY <4>1, <5>1
        <4>4. e[x] = f[x]
          BY <3>7
        <4> HIDE DEF R
        <4>5. QED
          BY <3>4, <3>5, <4>3, <4>4
      <3>8. CASE x \notin U
        <4>1. T \cap U = R \cap U
          BY <3>2, <3>8
        <4>2. f[x] = 0
          BY <3>2, <3>8
        <4> HIDE DEF R
        <4>3. SumFunctionOnSet(f, T) = SumFunctionOnSet(f, R)
          BY <3>5, <3>6, <4>2
        <4>4. QED
          BY <3>4, <4>1, <4>3, Zenon
      <3>9. QED
        BY <3>7, <3>8
    <2>3. QED
      BY <2>1, <2>2
  <1>4. Cardinality(S) \in N
    <2> HIDE DEF N
    <2>1. N \in SUBSET Nat
      BY DEF N
    <2>2. QED
      BY <1>1, <1>2, <1>3, <2>1, Induction
  <1>5. S \cap U = U
    OBVIOUS
  <1>6. QED
    BY <1>4, <1>5

(* The sum of two functions, element by element. *)
LEMMA SumAdd ==
    ASSUME NEW S, IsFiniteSet(S), NEW f, NEW e, NEW h,
           \A x \in S : f[x] \in Int /\ e[x] \in Int /\ h[x] = f[x] + e[x]
    PROVE  SumFunctionOnSet(h, S) = SumFunctionOnSet(f, S) + SumFunctionOnSet(e, S)
  <1> DEFINE Adds(T) == SumFunctionOnSet(h, T)
                          = SumFunctionOnSet(f, T) + SumFunctionOnSet(e, T)
             N == {n \in Nat : \A T \in SUBSET S : Cardinality(T) = n => Adds(T)}
  <1>1. \A T \in SUBSET S : /\ IsFiniteSet(T) /\ Cardinality(T) \in Nat
                            /\ \A y \in T : f[y] \in Int
                            /\ \A y \in T : e[y] \in Int
                            /\ \A y \in T : h[y] \in Int
    BY FS_Subset, FS_CardinalityType
  <1>2. 0 \in N
    <2>1. Adds({})
      BY SumEmpty
    <2>2. QED
      BY <1>1, <2>1, FS_EmptySet
  <1>3. ASSUME NEW n \in N PROVE n + 1 \in N
    <2>1. n \in Nat /\ n + 1 # 0
      OBVIOUS
    <2>2. ASSUME NEW T \in SUBSET S, Cardinality(T) = n + 1
          PROVE  Adds(T)
      <3>1. T # {}
        BY <1>1, <2>1, <2>2, FS_EmptySet
      <3>2. PICK x : x \in T
        BY <3>1
      <3> DEFINE R == T \ {x}
      <3>3. R \in SUBSET S /\ Cardinality(R) = n
        <4>1. IsFiniteSet(T) /\ n \in Nat
          BY <1>1, <2>1
        <4>2. Cardinality(R) = Cardinality(T) - 1
          BY <3>2, <4>1, SmallerSet
        <4>3. QED
          BY <2>2, <4>1, <4>2
      <3>4. Adds(R)
        BY <3>3
      <3>5. /\ SumFunctionOnSet(f, T) = f[x] + SumFunctionOnSet(f, R)
            /\ SumFunctionOnSet(e, T) = e[x] + SumFunctionOnSet(e, R)
            /\ SumFunctionOnSet(h, T) = h[x] + SumFunctionOnSet(h, R)
        BY <1>1, <3>2, SumRemove
      <3>6. SumFunctionOnSet(f, R) \in Int /\ SumFunctionOnSet(e, R) \in Int
        BY <1>1, <3>3, SumInt
      <3>7. f[x] \in Int /\ e[x] \in Int /\ h[x] = f[x] + e[x]
        BY <3>2
      <3> HIDE DEF R
      <3>8. QED
        BY <3>4, <3>5, <3>6, <3>7
    <2>3. QED
      BY <2>1, <2>2
  <1>4. Cardinality(S) \in N
    <2> HIDE DEF N
    <2>1. N \in SUBSET Nat
      BY DEF N
    <2>2. QED
      BY <1>1, <1>2, <1>3, <2>1, Induction
  <1>5. QED
    BY <1>4

(* The sum over 1..n, one number at a time. *)
LEMMA SumInterval ==
    ASSUME NEW n \in Nat, NEW f, \A x \in 1..(n + 1) : f[x] \in Int
    PROVE  SumFunctionOnSet(f, 1..(n + 1)) = f[n + 1] + SumFunctionOnSet(f, 1..n)
  <1>1. n + 1 \in 1..(n + 1) /\ 1..(n + 1) \ {n + 1} = 1..n
    OBVIOUS
  <1>2. IsFiniteSet(1..(n + 1))
    BY FS_Interval
  <1>3. QED
    BY <1>1, <1>2, SumRemove

(* P adds up f from 1 to n. *)
AddsUp(P, f, n) ==
    P[0] = 0 /\ \A k \in 1..n : f[k] \in Int /\ P[k] = P[k - 1] + f[k]

LEMMA SumPrefix ==
    ASSUME NEW n \in Nat, NEW f, NEW P, AddsUp(P, f, n)
    PROVE  SumFunctionOnSet(f, 1..n) = P[n]
  <1> USE DEF AddsUp
  <1> DEFINE N == {m \in Nat : m <= n => SumFunctionOnSet(f, 1..m) = P[m]}
  <1>1. 0 \in N
    <2>1. 1..0 = {}
      OBVIOUS
    <2>2. QED
      BY <2>1, SumEmpty
  <1>2. ASSUME NEW m \in N PROVE m + 1 \in N
    <2>1. m \in Nat
      OBVIOUS
    <2>2. ASSUME m + 1 <= n PROVE SumFunctionOnSet(f, 1..(m + 1)) = P[m + 1]
      <3>1. m <= n /\ m + 1 \in 1..n /\ \A k \in 1..(m + 1) : f[k] \in Int
        BY <2>1, <2>2
      <3>2. SumFunctionOnSet(f, 1..m) = P[m]
        BY <3>1
      <3>3. SumFunctionOnSet(f, 1..m) \in Int
        <4>1. IsFiniteSet(1..m) /\ \A k \in 1..m : f[k] \in Int
          BY <2>1, <3>1, FS_Interval
        <4>2. QED
          BY <4>1, SumInt
      <3>4. SumFunctionOnSet(f, 1..(m + 1))
               = f[m + 1] + SumFunctionOnSet(f, 1..m)
        BY <2>1, <3>1, SumInterval
      <3>5. P[m + 1] = P[m] + f[m + 1]
        <4>1. (m + 1) - 1 = m
          BY <2>1
        <4>2. P[m + 1] = P[(m + 1) - 1] + f[m + 1]
          BY <3>1
        <4>3. QED
          BY <4>1, <4>2
      <3>6. f[m + 1] \in Int
        BY <3>1
      <3>7. QED
        BY <3>2, <3>3, <3>4, <3>5, <3>6
    <2>3. QED
      BY <2>1, <2>2
  <1>3. n \in N
    <2> HIDE DEF N
    <2>1. N \in SUBSET Nat
      BY DEF N
    <2>2. QED
      BY <1>1, <1>2, <2>1, Induction
  <1>4. QED
    BY <1>3
=============================================================================
