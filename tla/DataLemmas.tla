----------------------------- MODULE DataLemmas -----------------------------
(***************************************************************************)
(* Facts about numbers, finite sets and sums that the proofs about data    *)
(* need and the library does not state in a form the provers can use: its  *)
(* induction theorems take an operator, these take a set.  All of them     *)
(* follow from one theorem of the library, that the finite sets are well   *)
(* founded under strict inclusion.                                         *)
(***************************************************************************)
EXTENDS Integers, FiniteSets, FiniteSetsExt, FiniteSetTheorems, WellFoundedInduction, TLAPS

----------------------------------------------------------------------------
(* Least elements and induction.                                           *)

\* A set of natural numbers that is not empty has a least element.
LEMMA LeastNatural ==
  ASSUME NEW T \in SUBSET Nat, T # {}
  PROVE  \E m \in T : \A n \in T : m <= n
<1> DEFINE below == {0..n - 1 : n \in T}
<1>1. below \subseteq FiniteSubsetsOf(Nat) /\ below # {}
  <2>1. \A n \in T : IsFiniteSet(0..n - 1) /\ 0..n - 1 \subseteq Nat
    BY FS_Interval
  <2> QED  BY <2>1 DEF FiniteSubsetsOf
<1> HIDE DEF below
<1>2. PICK b \in below : \A c \in below : ~ (<<c, b>> \in StrictSubsetOrdering(Nat))
  BY <1>1, FS_StrictSubsetOrderingWellFounded, WFMin
<1>3. PICK m \in T : b = 0..m - 1
  BY DEF below
<1>4. ASSUME NEW n \in T PROVE m <= n
  <2>1. SUFFICES ASSUME n < m PROVE FALSE
    OBVIOUS
  <2>2. 0..n - 1 \subseteq 0..m - 1 /\ n \in 0..m - 1 /\ n \notin 0..n - 1
    BY <2>1
  <2>3. <<0..n - 1, 0..m - 1>> \in StrictSubsetOrdering(Nat)
    BY <2>2 DEF StrictSubsetOrdering
  <2>4. 0..n - 1 \in below
    BY DEF below
  <2> QED  BY <1>2, <1>3, <2>3, <2>4
<1> QED  BY <1>4

\* Min chooses it.
LEMMA MinIsLeast ==
  ASSUME NEW T \in SUBSET Nat, T # {}
  PROVE  Min(T) \in T /\ \A n \in T : Min(T) <= n
BY LeastNatural DEF Min

\* Induction over the natural numbers, for a property given as a set.
LEMMA SetInduction ==
  ASSUME NEW S, 0 \in S, \A n \in Nat : n \in S => n + 1 \in S
  PROVE  Nat \subseteq S
<1> DEFINE T == Nat \ S
<1> SUFFICES ASSUME T # {} PROVE FALSE
  OBVIOUS
<1>1. PICK m \in T : \A n \in T : m <= n
  BY LeastNatural
<1>2. m # 0 /\ m - 1 \in Nat /\ m - 1 \notin T
  BY <1>1
<1> QED  BY <1>1, <1>2

\* Among the subsets of a finite set that have some property, given as a set of
\* sets, one has no smaller one.
LEMMA SmallestSubset ==
  ASSUME NEW S, IsFiniteSet(S), NEW F \in SUBSET (SUBSET S), F # {}
  PROVE  \E T \in F : \A U \in F : Cardinality(T) <= Cardinality(U)
<1> DEFINE sizes == {Cardinality(T) : T \in F}
<1>1. sizes \in SUBSET Nat /\ sizes # {}
  BY FS_Subset, FS_CardinalityType
<1>2. PICK m \in sizes : \A n \in sizes : m <= n
  BY <1>1, LeastNatural
<1> QED  BY <1>2

\* Induction over the finite subsets of a set, one element at a time.
LEMMA FiniteInduction ==
  ASSUME NEW S, IsFiniteSet(S), NEW F, {} \in F,
         \A T \in SUBSET S : \A x \in S \ T : T \in F => T \union {x} \in F
  PROVE  S \in F
<1> DEFINE out == {T \in SUBSET S : T \notin F}
<1> SUFFICES ASSUME out # {} PROVE FALSE
  OBVIOUS
<1>1. PICK T \in out : \A U \in out : Cardinality(T) <= Cardinality(U)
  <2>1. out \in SUBSET (SUBSET S)
    OBVIOUS
  <2> HIDE DEF out
  <2> QED  BY <2>1, SmallestSubset
<1>2. T \in SUBSET S /\ T \notin F /\ T # {} /\ IsFiniteSet(T)
  BY <1>1, FS_Subset
<1>3. PICK x \in T : TRUE
  BY <1>2
<1>4. /\ T \ {x} \in SUBSET S /\ x \in S \ (T \ {x}) /\ (T \ {x}) \union {x} = T
  BY <1>2
<1>5. Cardinality(T \ {x}) = Cardinality(T) - 1 /\ Cardinality(T) \in Nat
  BY <1>2, FS_RemoveElement, FS_CardinalityType
<1>6. T \ {x} \in F
  BY <1>1, <1>4, <1>5
<1> HIDE DEF out
<1>7. (T \ {x}) \union {x} \in F
  BY <1>4, <1>6
<1> QED  BY <1>2, <1>4, <1>7

----------------------------------------------------------------------------
(* Sums over finite sets, as the folds of the community modules compute    *)
(* them: one element after another, whichever is chosen first.             *)

AnyOf(s) == CHOOSE x \in s : TRUE

\* g is the function that a fold over S is the last value of.
IsSum(g, w, S) ==
  g = [s \in SUBSET S |-> IF s = {} THEN 0 ELSE w[AnyOf(s)] + g[s \ {AnyOf(s)}]]

SumOver(w, S) == (CHOOSE g : IsSum(g, w, S))[S]

LEMMA SumUnique ==
  ASSUME NEW S, IsFiniteSet(S), NEW w, NEW g, NEW h, IsSum(g, w, S), IsSum(h, w, S)
  PROVE  g = h
<1> DEFINE out == {T \in SUBSET S : g[T] # h[T]}
<1>1. CASE out = {}
  BY <1>1 DEF IsSum
<1>2. CASE out # {}
  <2>1. PICK T \in out : \A U \in out : Cardinality(T) <= Cardinality(U)
    <3>1. out \in SUBSET (SUBSET S)
      OBVIOUS
    <3> HIDE DEF out
    <3> QED  BY <1>2, <3>1, SmallestSubset
  <2>2. /\ g[T] = IF T = {} THEN 0 ELSE w[AnyOf(T)] + g[T \ {AnyOf(T)}]
        /\ h[T] = IF T = {} THEN 0 ELSE w[AnyOf(T)] + h[T \ {AnyOf(T)}]
    BY <2>1 DEF IsSum
  <2>3. T # {} /\ AnyOf(T) \in T
    BY <2>1, <2>2 DEF AnyOf
  <2>4. /\ T \ {AnyOf(T)} \in SUBSET S /\ Cardinality(T) \in Nat
        /\ Cardinality(T \ {AnyOf(T)}) = Cardinality(T) - 1
    BY <2>1, <2>3, FS_Subset, FS_RemoveElement, FS_CardinalityType
  <2>5. T \ {AnyOf(T)} \notin out
    BY <2>1, <2>4
  <2> QED  BY <2>1, <2>2, <2>3, <2>4, <2>5
<1> QED  BY <1>1, <1>2

LEMMA SumExists ==
  ASSUME NEW S, IsFiniteSet(S), NEW w
  PROVE  \E g : IsSum(g, w, S)
<1> DEFINE upto(n) == {s \in SUBSET S : Cardinality(s) <= n}
           step(g, s) == IF s = {} THEN 0 ELSE w[AnyOf(s)] + g[s \ {AnyOf(s)}]
           good == {n \in Nat : \E g : g = [s \in upto(n) |-> step(g, s)]}
<1>0. \A s \in SUBSET S : IsFiniteSet(s) /\ Cardinality(s) \in Nat /\ (Cardinality(s) = 0 <=> s = {})
  BY FS_Subset, FS_CardinalityType, FS_EmptySet
<1>1. 0 \in good
  <2> DEFINE g == [s \in upto(0) |-> 0]
  <2>1. \A s \in upto(0) : s = {}
    BY <1>0
  <2>2. g = [s \in upto(0) |-> step(g, s)]
    BY <2>1
  <2> QED  BY <2>2
<1>2. ASSUME NEW n \in Nat, n \in good PROVE n + 1 \in good
  <2>1. PICK g : g = [s \in upto(n) |-> step(g, s)]
    BY <1>2
  <2> DEFINE h == [s \in upto(n + 1) |-> step(g, s)]
  <2>2. ASSUME NEW s \in upto(n + 1), s # {}
        PROVE  s \ {AnyOf(s)} \in upto(n)
    <3>1. AnyOf(s) \in s
      BY <2>2 DEF AnyOf
    <3>2. Cardinality(s \ {AnyOf(s)}) = Cardinality(s) - 1
      BY <1>0, <3>1, FS_RemoveElement
    <3> QED  BY <1>0, <3>2
  <2>3. upto(n) \subseteq upto(n + 1)
    BY <1>0
  <2>4. ASSUME NEW s \in upto(n) PROVE h[s] = g[s]
    <3>1. g[s] = step(g, s)
      BY <2>1
    <3> QED  BY <2>3, <3>1
  <2>5. ASSUME NEW s \in upto(n + 1) PROVE step(g, s) = step(h, s)
    BY <2>2, <2>4
  <2>6. h = [s \in upto(n + 1) |-> step(h, s)]
    BY <2>5
  <2> HIDE DEF h, step
  <2>7. \E f : f = [s \in upto(n + 1) |-> step(f, s)]
    BY <2>6
  <2> QED  BY <2>7
<1> HIDE DEF good
<1>3. Cardinality(S) \in good
  BY <1>1, <1>2, SetInduction, FS_CardinalityType
<1> USE DEF good
<1>4. upto(Cardinality(S)) = SUBSET S
  BY FS_Subset
<1> QED  BY <1>3, <1>4 DEF IsSum

\* The value that a fold computes is the sum.
LEMMA SumIsFold ==
  ASSUME NEW S, IsFiniteSet(S), NEW w, NEW g, IsSum(g, w, S)
  PROVE  SumOver(w, S) = g[S]
BY SumUnique DEF SumOver

\* It is the sum of every subset, too.
LEMMA SumOfSubset ==
  ASSUME NEW S, IsFiniteSet(S), NEW w, NEW g, IsSum(g, w, S), NEW T \in SUBSET S
  PROVE  SumOver(w, T) = g[T]
<1> DEFINE h == [s \in SUBSET T |-> g[s]]
<1>1. ASSUME NEW s \in SUBSET T
      PROVE  h[s] = IF s = {} THEN 0 ELSE w[AnyOf(s)] + h[s \ {AnyOf(s)}]
  <2>1. g[s] = IF s = {} THEN 0 ELSE w[AnyOf(s)] + g[s \ {AnyOf(s)}]
    BY DEF IsSum
  <2> QED  BY <2>1
<1>2. IsSum(h, w, T)
  BY <1>1 DEF IsSum
<1>3. SumOver(w, T) = h[T]
  BY <1>2, FS_Subset, SumIsFold
<1> QED  BY <1>3

\* A sum is a number, and any one element can be taken out of it.
LEMMA SumRemove ==
  ASSUME NEW S, IsFiniteSet(S), NEW w, \A x \in S : w[x] \in Nat
  PROVE  /\ SumOver(w, S) \in Nat
         /\ \A x \in S : SumOver(w, S) = w[x] + SumOver(w, S \ {x})
<1>1. PICK g : IsSum(g, w, S)
  BY SumExists
<1> DEFINE good(T) == g[T] \in Nat /\ \A x \in T : g[T] = w[x] + g[T \ {x}]
           out == {T \in SUBSET S : ~good(T)}
<1>2. CASE out = {}
  <2>1. good(S)
    BY <1>2
  <2>2. \A x \in S : S \ {x} \in SUBSET S
    OBVIOUS
  <2> QED  BY <1>1, <2>1, <2>2, SumOfSubset
<1>3. CASE out # {}
  <2>1. PICK T \in out : \A U \in out : Cardinality(T) <= Cardinality(U)
    <3>1. out \in SUBSET (SUBSET S)
      OBVIOUS
    <3> HIDE DEF out
    <3> QED  BY <1>3, <3>1, SmallestSubset
  <2> DEFINE c == AnyOf(T)
  <2>2. \A U \in SUBSET T : U # T => good(U)
    <3>1. ASSUME NEW U \in SUBSET T, U # T PROVE Cardinality(U) < Cardinality(T)
      <4>1. IsFiniteSet(T)
        BY <2>1, FS_Subset
      <4> QED  BY <3>1, <4>1, FS_Subset, FS_CardinalityType
    <3>2. \A U \in SUBSET T : Cardinality(U) \in Nat /\ Cardinality(T) \in Nat
      BY <2>1, FS_Subset, FS_CardinalityType
    <3>3. ASSUME NEW U \in SUBSET T, U # T PROVE U \notin out /\ U \in SUBSET S
      BY <2>1, <3>1, <3>2, <3>3
    <3> QED  BY <3>3
  <2>3. g[T] = IF T = {} THEN 0 ELSE w[c] + g[T \ {c}]
    BY <1>1, <2>1 DEF IsSum
  <2>4. T # {}
    BY <2>1, <2>3
  <2>5. c \in T
    BY <2>4 DEF AnyOf
  <2>6. g[T \ {c}] \in Nat /\ w[c] \in Nat /\ g[T] = w[c] + g[T \ {c}] /\ g[T] \in Nat
    BY <2>1, <2>2, <2>3, <2>4, <2>5
  <2>7. ASSUME NEW x \in T PROVE g[T] = w[x] + g[T \ {x}]
    <3>1. CASE x = c
      BY <2>6, <3>1
    <3>2. CASE x # c
      <4>1. /\ T \ {c} \in SUBSET T /\ T \ {c} # T /\ x \in T \ {c}
            /\ T \ {x} \in SUBSET T /\ T \ {x} # T /\ c \in T \ {x}
            /\ (T \ {c}) \ {x} = (T \ {x}) \ {c}
        BY <2>5, <3>2
      <4>2. /\ g[T \ {c}] = w[x] + g[(T \ {c}) \ {x}]
            /\ g[T \ {x}] = w[c] + g[(T \ {x}) \ {c}]
            /\ g[T \ {x}] \in Nat
        BY <2>2, <4>1
      <4>3. (T \ {c}) \ {x} \in SUBSET T /\ (T \ {c}) \ {x} # T
        BY <2>5
      <4>4. g[(T \ {c}) \ {x}] \in Nat
        BY <2>2, <4>3
      <4>5. w[x] \in Nat
        BY <2>1
      <4> HIDE DEF c, good, out
      <4> QED  BY <2>6, <4>1, <4>2, <4>4, <4>5
    <3> QED  BY <3>1, <3>2
  <2> QED  BY <2>1, <2>6, <2>7
<1> QED  BY <1>2, <1>3

\* The elements before which fewer than k come.
Foremost(A, ord, k) ==
  {i \in A : Cardinality({j \in A : ord[j] < ord[i]}) < k}

\* Of elements in some order, the first k are k elements.
LEMMA FirstOnes ==
  ASSUME NEW A, IsFiniteSet(A), NEW ord \in [A -> Nat],
         \A i, j \in A : ord[i] = ord[j] => i = j, NEW k \in 0..Cardinality(A)
  PROVE  Cardinality(Foremost(A, ord, k)) = k
<1> DEFINE n == Cardinality(A)
           below(i) == {j \in A : ord[j] < ord[i]}
           rank == [i \in A |-> Cardinality(below(i))]
           first == {i \in A : Cardinality(below(i)) < k}
           f == [i \in first |-> rank[i]]
<1>0. n \in Nat /\ k \in Nat /\ k <= n
  BY FS_CardinalityType
<1>1. ASSUME NEW i \in A PROVE IsFiniteSet(below(i)) /\ rank[i] \in 0..n - 1
  <2>1. below(i) \in SUBSET (A \ {i})
    OBVIOUS
  <2>2. IsFiniteSet(A \ {i}) /\ Cardinality(A \ {i}) = n - 1
    BY FS_RemoveElement
  <2>3. IsFiniteSet(below(i)) /\ Cardinality(below(i)) <= n - 1 /\ Cardinality(below(i)) \in Nat
    BY <2>1, <2>2, FS_Subset, FS_CardinalityType
  <2> QED  BY <1>0, <2>3
<1>2. ASSUME NEW i \in A, NEW j \in A, ord[i] < ord[j] PROVE rank[i] < rank[j]
  <2>1. below(i) \union {i} \in SUBSET below(j) /\ i \notin below(i)
    BY <1>2
  <2>2. Cardinality(below(i) \union {i}) = Cardinality(below(i)) + 1
    BY <1>1, <2>1, FS_AddElement
  <2>3. Cardinality(below(i) \union {i}) <= Cardinality(below(j))
    BY <1>1, <2>1, FS_Subset
  <2>4. rank[i] = Cardinality(below(i)) /\ rank[j] = Cardinality(below(j))
    OBVIOUS
  <2> HIDE DEF rank, below
  <2> QED  BY <1>1, <2>2, <2>3, <2>4
<1>3. \A i, j \in A : rank[i] = rank[j] => i = j
  <2> SUFFICES ASSUME NEW i \in A, NEW j \in A, i # j PROVE rank[i] # rank[j]
    OBVIOUS
  <2>1. ord[i] < ord[j] \/ ord[j] < ord[i]
    OBVIOUS
  <2>2. rank[i] \in 0..n - 1 /\ rank[j] \in 0..n - 1
    BY <1>1
  <2>3. rank[i] < rank[j] \/ rank[j] < rank[i]
    <3> HIDE DEF rank
    <3> QED  BY <1>2, <2>1
  <2> HIDE DEF rank
  <2> QED  BY <1>0, <2>2, <2>3
<1>4. rank \in Injection(A, 0..n - 1)
  BY <1>1, <1>3 DEF Injection, IsInjective
<1>5. IsFiniteSet(0..n - 1) /\ Cardinality(0..n - 1) = n
  <2> HIDE DEF n
  <2>1. 0 \in Int /\ n - 1 \in Int /\ (0 > n - 1 <=> n = 0)
    BY <1>0
  <2>2. IsFiniteSet(0..n - 1) /\ Cardinality(0..n - 1) = IF 0 > n - 1 THEN 0 ELSE n - 1 - 0 + 1
    BY <2>1, FS_Interval
  <2> QED  BY <1>0, <2>1, <2>2
<1>6. rank \in Surjection(A, 0..n - 1)
  <2> HIDE DEF rank
  <2> QED  BY <1>4, <1>5, FS_Injection
<1>7. IsFiniteSet(first)
  BY FS_Subset
<1>8. f \in Injection(first, 0..k - 1)
  <2>1. \A i \in first : f[i] = rank[i] /\ rank[i] < k /\ i \in A
    OBVIOUS
  <2>2. ASSUME NEW i \in first PROVE rank[i] \in 0..k - 1
    <3>1. rank[i] \in 0..n - 1 /\ rank[i] < k
      BY <1>1, <2>1
    <3> HIDE DEF rank, n
    <3> QED  BY <1>0, <3>1
  <2>3. f \in [first -> 0..k - 1]
    <3> HIDE DEF rank, first
    <3> QED  BY <2>2
  <2> HIDE DEF f, rank, first
  <2> QED  BY <1>3, <2>1, <2>3 DEF Injection, IsInjective
<1>9. f \in Surjection(first, 0..k - 1)
  <2>1. ASSUME NEW m \in 0..k - 1 PROVE \E i \in first : f[i] = m
    <3>1. m \in 0..n - 1 /\ m < k
      <4> HIDE DEF n
      <4> QED  BY <1>0
    <3>2. PICK i \in A : rank[i] = m
      <4> HIDE DEF rank
      <4> QED  BY <1>6, <3>1 DEF Surjection
    <3>3. i \in first
      BY <3>1, <3>2
    <3> QED  BY <3>2, <3>3
  <2>2. f \in [first -> 0..k - 1]
    BY <1>8 DEF Injection
  <2> HIDE DEF f, rank, first
  <2> QED  BY <2>1, <2>2 DEF Surjection
<1>10. Cardinality(first) = Cardinality(0..k - 1)
  <2> HIDE DEF f, first
  <2> QED  BY <1>7, <1>8, <1>9, FS_Surjection
<1>11. Foremost(A, ord, k) = first
  BY DEF Foremost
<1> HIDE DEF first
<1> QED  BY <1>0, <1>10, <1>11, FS_Interval

=============================================================================
