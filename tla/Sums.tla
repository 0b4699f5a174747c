-------------------------------- MODULE Sums --------------------------------
(***************************************************************************)
(* What the proofs need of SumFunctionOnSet, the sum of the values of a    *)
(* function over a finite set, and of the folds it is built from: the      *)
(* recursive function behind it exists, and the order in which it picks    *)
(* the elements does not matter.                                           *)
(*                                                                         *)
(* Induction is stated with sets of numbers instead of predicates, so that *)
(* the statements are first-order: the least element of a set of numbers   *)
(* comes from the well-foundedness of "less than".                         *)
(***************************************************************************)
EXTENDS Functions, Integers, FiniteSetTheorems, WellFoundedInduction, TLAPS

-----------------------------------------------------------------------------
\* A set of numbers that is not empty has a least element.
LEMMA LeastNumber ==
    ASSUME NEW T, T \subseteq Nat, T # {}
    PROVE  \E m \in T : \A n \in T : m <= n
  <1>1. \E x \in T : \A y \in T : ~ (<<y, x>> \in OpToRel(<, Nat))
    BY WFMin, NatLessThanWellFounded
  <1>2. PICK x \in T : \A y \in T : ~ (<<y, x>> \in OpToRel(<, Nat))
    BY <1>1
  <1>3. \A y \in T : ~ (y < x)
    BY <1>2 DEF OpToRel
  <1>. QED
    BY <1>3

\* A set that has zero and with each number its successor has all numbers.
LEMMA AllNumbers ==
    ASSUME NEW T, 0 \in T, \A n \in Nat : n \in T => n + 1 \in T
    PROVE  Nat \subseteq T
  <1>1. SUFFICES ASSUME Nat \ T # {} PROVE FALSE
    OBVIOUS
  <1>2. PICK m \in Nat \ T : \A n \in Nat \ T : m <= n
    BY <1>1, LeastNumber
  <1>3. m # 0 /\ m - 1 \in Nat
    BY <1>2
  <1>4. m - 1 \in T
    BY <1>2, <1>3
  <1>5. (m - 1) + 1 \in T
    BY <1>3, <1>4
  <1>. QED
    BY <1>2, <1>5

-----------------------------------------------------------------------------
\* The element of a set that the sum takes first.
First(s) == CHOOSE x \in s : TRUE

\* One step of the recursion, with the values g of the smaller sets.
SumOf(f, g, s) == IF s = {} THEN 0 ELSE f[First(s)] + g[s \ {First(s)}]

\* A solution of the recursion over the subsets of S.
Solves(f, S, g) == g = [s \in SUBSET S |-> SumOf(f, g, s)]

\* It is an element.
LEMMA FirstIsElement == \A s : s # {} => First(s) \in s
  BY DEF First

\* Subsets of a finite set, and what is left of one without an element.
LEMMA SubsetsAreFinite ==
    ASSUME NEW S, IsFiniteSet(S), NEW s \in SUBSET S
    PROVE  /\ IsFiniteSet(s) /\ Cardinality(s) \in Nat
           /\ Cardinality(s) = 0 <=> s = {}
           /\ \A x \in s : /\ s \ {x} \in SUBSET S
                           /\ Cardinality(s \ {x}) = Cardinality(s) - 1
                           /\ Cardinality(s) \in Nat \ {0}
  <1>1. IsFiniteSet(s)
    BY FS_Subset
  <1>2. Cardinality(s) \in Nat /\ (Cardinality(s) = 0 <=> s = {})
    BY <1>1, FS_CardinalityType, FS_EmptySet
  <1>3. \A x \in s : Cardinality(s \ {x}) = Cardinality(s) - 1
    BY <1>1, FS_RemoveElement
  <1>. QED
    BY <1>1, <1>2, <1>3

\* The recursion has a solution over the subsets of a finite set.
LEMMA SolutionExists ==
    ASSUME NEW S, IsFiniteSet(S), NEW f, \A x \in S : f[x] \in Int
    PROVE  \E g \in [SUBSET S -> Int] : Solves(f, S, g)
  <1>. DEFINE Upto(n, g) == \A s \in SUBSET S : Cardinality(s) <= n => g[s] = SumOf(f, g, s)
              T == {n \in Nat : \E g \in [SUBSET S -> Int] : Upto(n, g)}
  <1>1. 0 \in T
    <2>. DEFINE zero == [s \in SUBSET S |-> 0]
    <2>1. zero \in [SUBSET S -> Int]
      OBVIOUS
    <2>2. ASSUME NEW s \in SUBSET S, Cardinality(s) <= 0 PROVE zero[s] = SumOf(f, zero, s)
      <3>1. s = {}
        BY <2>2, SubsetsAreFinite
      <3>. QED
        BY <3>1 DEF SumOf
    <2>3. Upto(0, zero)
      BY <2>2
    <2>. QED
      BY <2>1, <2>3
  <1>2. ASSUME NEW n \in Nat, n \in T PROVE n + 1 \in T
    <2>1. PICK g \in [SUBSET S -> Int] : Upto(n, g)
      BY <1>2
    <2>. DEFINE h == [s \in SUBSET S |-> IF Cardinality(s) <= n THEN g[s] ELSE SumOf(f, g, s)]
    <2>2. ASSUME NEW s \in SUBSET S PROVE SumOf(f, g, s) \in Int
      <3>1. CASE s = {}
        BY <3>1 DEF SumOf
      <3>2. CASE s # {}
        <4>1. First(s) \in s
          BY <3>2, FirstIsElement
        <4>2. f[First(s)] \in Int /\ g[s \ {First(s)}] \in Int
          BY <4>1
        <4>. QED
          BY <3>2, <4>2 DEF SumOf
      <3>. QED
        BY <3>1, <3>2
    <2>3. h \in [SUBSET S -> Int]
      BY <2>2
    <2>4. ASSUME NEW s \in SUBSET S, Cardinality(s) <= n + 1 PROVE h[s] = SumOf(f, h, s)
      <3>1. CASE s = {}
        <4>1. Cardinality(s) <= n
          BY <3>1, SubsetsAreFinite
        <4>2. h[s] = g[s] /\ g[s] = SumOf(f, g, s)
          BY <4>1, <2>1
        <4>. QED
          BY <3>1, <4>2 DEF SumOf
      <3>2. CASE s # {}
        <4>1. First(s) \in s
          BY <3>2, FirstIsElement
        <4>. DEFINE r == s \ {First(s)}
        <4>2. r \in SUBSET S /\ Cardinality(r) <= n
          BY <4>1, <2>4, SubsetsAreFinite
        <4>3. h[r] = g[r]
          BY <4>2
        <4>4. SumOf(f, h, s) = SumOf(f, g, s)
          BY <4>3 DEF SumOf
        <4>5. h[s] = SumOf(f, g, s)
          BY <2>1
        <4>. QED
          BY <4>4, <4>5
      <3>. QED
        BY <3>1, <3>2
    <2>5. Upto(n + 1, h)
      BY <2>4
    <2>. HIDE DEF h
    <2>6. \E e \in [SUBSET S -> Int] : Upto(n + 1, e)
      BY <2>3, <2>5
    <2>. QED
      BY <2>6
  <1>. HIDE DEF T
  <1>3. Nat \subseteq T
    BY <1>1, <1>2, AllNumbers
  <1>4. Cardinality(S) \in Nat
    BY FS_CardinalityType
  <1>5. Cardinality(S) \in T
    BY <1>3, <1>4
  <1>6. PICK g \in [SUBSET S -> Int] : Upto(Cardinality(S), g)
    BY <1>5 DEF T
  <1>7. \A s \in SUBSET S : Cardinality(s) <= Cardinality(S)
    BY FS_Subset
  <1>8. \A s \in SUBSET S : g[s] = SumOf(f, g, s)
    BY <1>6, <1>7
  <1>. QED
    BY <1>8 DEF Solves

\* Two solutions agree on the subsets that both know.
LEMMA SolutionsAgree ==
    ASSUME NEW S, IsFiniteSet(S), NEW R \in SUBSET S, NEW f, NEW e,
           \A x \in R : f[x] = e[x],
           NEW g, Solves(f, S, g), NEW h, Solves(e, R, h)
    PROVE  \A s \in SUBSET R : g[s] = h[s]
  <1>. DEFINE T == {n \in Nat : \A s \in SUBSET R : Cardinality(s) = n => g[s] = h[s]}
  <1>1. ASSUME NEW s \in SUBSET R PROVE g[s] = SumOf(f, g, s) /\ h[s] = SumOf(e, h, s)
    BY DEF Solves
  <1>2. 0 \in T
    <2>1. ASSUME NEW s \in SUBSET R, Cardinality(s) = 0 PROVE g[s] = h[s]
      <3>1. s = {}
        BY <2>1, SubsetsAreFinite
      <3>. QED
        BY <3>1, <1>1 DEF SumOf
    <2>. QED
      BY <2>1
  <1>3. ASSUME NEW n \in Nat, n \in T PROVE n + 1 \in T
    <2>1. ASSUME NEW s \in SUBSET R, Cardinality(s) = n + 1 PROVE g[s] = h[s]
      <3>1. s # {}
        BY <2>1, SubsetsAreFinite
      <3>2. First(s) \in s
        BY <3>1, FirstIsElement
      <3>3. s \ {First(s)} \in SUBSET R /\ Cardinality(s \ {First(s)}) = n
        BY <2>1, <3>2, SubsetsAreFinite
      <3>4. g[s \ {First(s)}] = h[s \ {First(s)}]
        BY <1>3, <3>3
      <3>5. f[First(s)] = e[First(s)]
        BY <3>2
      <3>. QED
        BY <1>1, <3>1, <3>4, <3>5 DEF SumOf
    <2>. QED
      BY <2>1
  <1>. HIDE DEF T
  <1>4. Nat \subseteq T
    BY <1>2, <1>3, AllNumbers
  <1>. QED
    <2>1. ASSUME NEW s \in SUBSET R PROVE g[s] = h[s]
      <3>1. Cardinality(s) \in Nat
        BY SubsetsAreFinite
      <3>2. Cardinality(s) \in T
        BY <1>4, <3>1
      <3>. QED
        BY <3>2 DEF T
    <2>. QED
      BY <2>1

\* The sum is the value of a solution.
LEMMA SumIsSolution ==
    ASSUME NEW S, IsFiniteSet(S), NEW f, \A x \in S : f[x] \in Int
    PROVE  \E g \in [SUBSET S -> Int] : Solves(f, S, g) /\ SumFunctionOnSet(f, S) = g[S]
  <1>. DEFINE iter == CHOOSE g : g = [s \in SUBSET S |->
                          IF s = {} THEN 0
                          ELSE f[CHOOSE x \in s : TRUE] + g[s \ {CHOOSE x \in s : TRUE}]]
  <1>1. SumFunctionOnSet(f, S) = iter[S]
    BY DEF SumFunctionOnSet, FoldFunctionOnSet, MapThenFoldSet
  <1>2. PICK g \in [SUBSET S -> Int] : Solves(f, S, g)
    BY SolutionExists
  <1>3. g = [s \in SUBSET S |->
                IF s = {} THEN 0
                ELSE f[CHOOSE x \in s : TRUE] + g[s \ {CHOOSE x \in s : TRUE}]]
    BY <1>2 DEF Solves, SumOf, First
  <1>4. iter = [s \in SUBSET S |->
                   IF s = {} THEN 0
                   ELSE f[CHOOSE x \in s : TRUE] + iter[s \ {CHOOSE x \in s : TRUE}]]
    BY <1>3
  <1>5. Solves(f, S, iter)
    BY <1>4 DEF Solves, SumOf, First
  <1>. HIDE DEF iter
  <1>6. \A s \in SUBSET S : iter[s] = g[s]
    BY <1>2, <1>5, SolutionsAgree
  <1>7. iter \in [SUBSET S -> Int]
    BY <1>5, <1>6 DEF Solves
  <1>. QED
    BY <1>1, <1>5, <1>7

\* Every solution has the sum as its value.
LEMMA SolutionIsSum ==
    ASSUME NEW S, IsFiniteSet(S), NEW f, \A x \in S : f[x] \in Int, NEW g, Solves(f, S, g)
    PROVE  g[S] = SumFunctionOnSet(f, S)
  <1>1. PICK h \in [SUBSET S -> Int] : Solves(f, S, h) /\ SumFunctionOnSet(f, S) = h[S]
    BY SumIsSolution
  <1>2. S \in SUBSET S
    OBVIOUS
  <1>. QED
    BY <1>1, <1>2, SolutionsAgree

-----------------------------------------------------------------------------
\* The sum over no element.
LEMMA SumEmpty == ASSUME NEW f PROVE SumFunctionOnSet(f, {}) = 0
  <1>1. IsFiniteSet({}) /\ \A x \in {} : f[x] \in Int
    BY FS_EmptySet
  <1>2. PICK g \in [SUBSET {} -> Int] : Solves(f, {}, g) /\ SumFunctionOnSet(f, {}) = g[{}]
    BY <1>1, SumIsSolution
  <1>. QED
    BY <1>2 DEF Solves, SumOf

\* A sum of integers is an integer.
LEMMA SumType ==
    ASSUME NEW S, IsFiniteSet(S), NEW f, \A x \in S : f[x] \in Int
    PROVE  SumFunctionOnSet(f, S) \in Int
  <1>1. PICK g \in [SUBSET S -> Int] : SumFunctionOnSet(f, S) = g[S]
    BY SumIsSolution
  <1>. QED
    BY <1>1

\* The sum depends only on the values that are summed.
LEMMA SumSame ==
    ASSUME NEW S, IsFiniteSet(S), NEW f, NEW e,
           \A x \in S : f[x] \in Int, \A x \in S : f[x] = e[x]
    PROVE  SumFunctionOnSet(f, S) = SumFunctionOnSet(e, S)
  <1>1. \A x \in S : e[x] \in Int
    OBVIOUS
  <1>2. PICK g \in [SUBSET S -> Int] : Solves(f, S, g) /\ SumFunctionOnSet(f, S) = g[S]
    BY SumIsSolution
  <1>3. PICK h \in [SUBSET S -> Int] : Solves(e, S, h) /\ SumFunctionOnSet(e, S) = h[S]
    BY <1>1, SumIsSolution
  <1>4. g[S] = h[S]
    BY <1>2, <1>3, SolutionsAgree
  <1>. QED
    BY <1>2, <1>3, <1>4

\* What the recursion says of the sum.
LEMMA SumFirst ==
    ASSUME NEW S, IsFiniteSet(S), S # {}, NEW f, \A x \in S : f[x] \in Int
    PROVE  SumFunctionOnSet(f, S) = f[First(S)] + SumFunctionOnSet(f, S \ {First(S)})
  <1>. DEFINE R == S \ {First(S)}
  <1>1. R \in SUBSET S /\ IsFiniteSet(R) /\ \A x \in R : f[x] \in Int
    BY FS_Subset
  <1>2. PICK g \in [SUBSET S -> Int] : Solves(f, S, g) /\ SumFunctionOnSet(f, S) = g[S]
    BY SumIsSolution
  <1>3. PICK h \in [SUBSET R -> Int] : Solves(f, R, h) /\ SumFunctionOnSet(f, R) = h[R]
    BY <1>1, SumIsSolution
  <1>4. g[R] = h[R]
    BY <1>1, <1>2, <1>3, SolutionsAgree
  <1>5. g[S] = f[First(S)] + g[R]
    BY <1>2 DEF Solves, SumOf
  <1>. QED
    BY <1>2, <1>3, <1>4, <1>5

\* Any element may be taken first.
LEMMA SumTake ==
    ASSUME NEW S, IsFiniteSet(S), NEW f, \A x \in S : f[x] \in Int
    PROVE  \A x \in S : SumFunctionOnSet(f, S) = f[x] + SumFunctionOnSet(f, S \ {x})
  <1>. DEFINE Sum(s) == SumFunctionOnSet(f, s)
              T == {n \in Nat : \A s \in SUBSET S : Cardinality(s) = n =>
                                   \A x \in s : Sum(s) = f[x] + Sum(s \ {x})}
  <1>1. ASSUME NEW s \in SUBSET S
        PROVE  /\ IsFiniteSet(s) /\ Sum(s) \in Int
               /\ s # {} => First(s) \in s /\ Sum(s) = f[First(s)] + Sum(s \ {First(s)})
    <2>1. IsFiniteSet(s) /\ \A x \in s : f[x] \in Int
      BY FS_Subset
    <2>. QED
      BY <2>1, SumType, SumFirst, FirstIsElement
  <1>. HIDE DEF Sum
  <1>2. 0 \in T
    BY SubsetsAreFinite
  <1>3. ASSUME NEW n \in Nat, n \in T PROVE n + 1 \in T
    <2>1. ASSUME NEW s \in SUBSET S, Cardinality(s) = n + 1, NEW x \in s
          PROVE  Sum(s) = f[x] + Sum(s \ {x})
      <3>. DEFINE y == First(s)
      <3>1. y \in s /\ Sum(s) = f[y] + Sum(s \ {y})
        BY <1>1
      <3>2. CASE x = y
        BY <3>1, <3>2
      <3>3. CASE x # y
        <4>. HIDE DEF y
        <4>1. s \ {x} \in SUBSET S /\ Cardinality(s \ {x}) = n
          BY <2>1, SubsetsAreFinite
        <4>2. s \ {y} \in SUBSET S /\ Cardinality(s \ {y}) = n
          BY <2>1, <3>1, SubsetsAreFinite
        <4>3. Sum(s \ {y}) = f[x] + Sum((s \ {y}) \ {x})
          BY <1>3, <3>3, <4>2
        <4>4. Sum(s \ {x}) = f[y] + Sum((s \ {x}) \ {y})
          BY <1>3, <3>1, <3>3, <4>1
        <4>. DEFINE rest == (s \ {x}) \ {y}
        <4>5. (s \ {y}) \ {x} = rest /\ rest \in SUBSET S
          OBVIOUS
        <4>6. f[x] \in Int /\ f[y] \in Int /\ Sum(rest) \in Int
          BY <1>1, <3>1, <4>5
        <4>7. Sum(s) = f[y] + (f[x] + Sum(rest)) /\ Sum(s \ {x}) = f[y] + Sum(rest)
          BY <3>1, <4>3, <4>4, <4>5
        <4>. HIDE DEF rest
        <4>. QED
          BY <4>6, <4>7
      <3>. QED
        BY <3>2, <3>3
    <2>. QED
      BY <2>1
  <1>. HIDE DEF T
  <1>4. Nat \subseteq T
    BY <1>2, <1>3, AllNumbers
  <1>5. Cardinality(S) \in T
    BY <1>4, FS_CardinalityType
  <1>6. \A x \in S : Sum(S) = f[x] + Sum(S \ {x})
    BY <1>5 DEF T
  <1>. QED
    BY <1>6 DEF Sum

\* One more element.
LEMMA SumAdd ==
    ASSUME NEW S, IsFiniteSet(S), NEW f, NEW x, x \notin S, \A y \in S \union {x} : f[y] \in Int
    PROVE  SumFunctionOnSet(f, S \union {x}) = f[x] + SumFunctionOnSet(f, S)
  <1>1. IsFiniteSet(S \union {x}) /\ (S \union {x}) \ {x} = S
    BY FS_AddElement
  <1>. QED
    BY <1>1, SumTake

\* One value changes.
LEMMA SumChange ==
    ASSUME NEW S, IsFiniteSet(S), NEW x \in S, NEW f, NEW e,
           \A y \in S : f[y] \in Int /\ e[y] \in Int, \A y \in S \ {x} : f[y] = e[y]
    PROVE  SumFunctionOnSet(e, S) = SumFunctionOnSet(f, S) - f[x] + e[x]
  <1>1. IsFiniteSet(S \ {x})
    BY FS_Subset
  <1>2. SumFunctionOnSet(f, S) = f[x] + SumFunctionOnSet(f, S \ {x})
    BY SumTake
  <1>3. SumFunctionOnSet(e, S) = e[x] + SumFunctionOnSet(e, S \ {x})
    BY SumTake
  <1>4. SumFunctionOnSet(f, S \ {x}) = SumFunctionOnSet(e, S \ {x})
    BY <1>1, SumSame
  <1>5. SumFunctionOnSet(f, S \ {x}) \in Int
    BY <1>1, SumType
  <1>. QED
    BY <1>2, <1>3, <1>4, <1>5

\* A sum over a set is the sum over a part of it and over the rest.
LEMMA SumSplit ==
    ASSUME NEW S, IsFiniteSet(S), NEW f, \A y \in S : f[y] \in Int, NEW R \in SUBSET S
    PROVE  SumFunctionOnSet(f, S) = SumFunctionOnSet(f, R) + SumFunctionOnSet(f, S \ R)
  <1>. DEFINE Sum(s) == SumFunctionOnSet(f, s)
              T == {n \in Nat : \A s \in SUBSET S : Cardinality(s) = n =>
                                   Sum(S) = Sum(s) + Sum(S \ s)}
  <1>1. \A s \in SUBSET S : IsFiniteSet(s) /\ Sum(s) \in Int
    BY SubsetsAreFinite, SumType
  <1>2. \A s \in SUBSET S : \A x \in s : Sum(s) = f[x] + Sum(s \ {x})
    BY <1>1, SumTake
  <1>3. Sum({}) = 0
    BY SumEmpty
  <1>. HIDE DEF Sum
  <1>4. 0 \in T
    <2>1. ASSUME NEW s \in SUBSET S, Cardinality(s) = 0 PROVE Sum(S) = Sum(s) + Sum(S \ s)
      <3>1. s = {}
        BY <2>1, SubsetsAreFinite
      <3>2. Sum(S) \in Int
        BY <1>1
      <3>. QED
        BY <1>3, <3>1, <3>2
    <2>. QED
      BY <2>1
  <1>5. ASSUME NEW n \in Nat, n \in T PROVE n + 1 \in T
    <2>1. ASSUME NEW s \in SUBSET S, Cardinality(s) = n + 1 PROVE Sum(S) = Sum(s) + Sum(S \ s)
      <3>1. s # {}
        BY <2>1, SubsetsAreFinite
      <3>2. PICK x \in s : TRUE
        BY <3>1
      <3>. DEFINE r == s \ {x}
      <3>3. r \in SUBSET S /\ Cardinality(r) = n
        BY <2>1, SubsetsAreFinite
      <3>4. Sum(S) = Sum(r) + Sum(S \ r)
        BY <1>5, <3>3
      <3>5. Sum(s) = f[x] + Sum(r)
        BY <1>2
      <3>6. Sum(S \ r) = f[x] + Sum(S \ s)
        <4>1. x \in S \ r /\ (S \ r) \ {x} = S \ s
          BY <3>2
        <4>. QED
          BY <1>2, <4>1
      <3>7. Sum(r) \in Int /\ Sum(S \ s) \in Int /\ f[x] \in Int
        BY <1>1, <3>3
      <3>. HIDE DEF r
      <3>. QED
        BY <3>4, <3>5, <3>6, <3>7
    <2>. QED
      BY <2>1
  <1>. HIDE DEF T
  <1>6. Nat \subseteq T
    BY <1>4, <1>5, AllNumbers
  <1>7. Cardinality(R) \in T
    BY <1>6, SubsetsAreFinite
  <1>8. Sum(S) = Sum(R) + Sum(S \ R)
    BY <1>7 DEF T
  <1>. QED
    BY <1>8 DEF Sum

\* A sum of values of which none is negative is not, and is zero if they are.
LEMMA SumNat ==
    ASSUME NEW S, IsFiniteSet(S), NEW f, \A y \in S : f[y] \in Nat
    PROVE  /\ SumFunctionOnSet(f, S) \in Nat
           /\ (\A y \in S : f[y] = 0) => SumFunctionOnSet(f, S) = 0
  <1>. DEFINE Sum(s) == SumFunctionOnSet(f, s)
              Fine(s) == Sum(s) \in Nat /\ ((\A y \in s : f[y] = 0) => Sum(s) = 0)
              T == {n \in Nat : \A s \in SUBSET S : Cardinality(s) = n => Fine(s)}
  <1>1. ASSUME NEW s \in SUBSET S PROVE \A x \in s : Sum(s) = f[x] + Sum(s \ {x})
    <2>1. IsFiniteSet(s) /\ \A y \in s : f[y] \in Int
      BY SubsetsAreFinite
    <2>. QED
      BY <2>1, SumTake
  <1>2. Sum({}) = 0
    BY SumEmpty
  <1>. HIDE DEF Sum
  <1>3. 0 \in T
    BY <1>2, SubsetsAreFinite
  <1>4. ASSUME NEW n \in Nat, n \in T PROVE n + 1 \in T
    <2>1. ASSUME NEW s \in SUBSET S, Cardinality(s) = n + 1 PROVE Fine(s)
      <3>1. PICK x \in s : TRUE
        BY <2>1, SubsetsAreFinite
      <3>2. s \ {x} \in SUBSET S /\ Cardinality(s \ {x}) = n
        BY <2>1, SubsetsAreFinite
      <3>3. Fine(s \ {x})
        BY <1>4, <3>2
      <3>4. Sum(s) = f[x] + Sum(s \ {x}) /\ f[x] \in Nat
        BY <1>1
      <3>. QED
        BY <3>3, <3>4
    <2>. QED
      BY <2>1
  <1>. HIDE DEF T
  <1>5. Nat \subseteq T
    BY <1>3, <1>4, AllNumbers
  <1>6. Cardinality(S) \in T
    BY <1>5, FS_CardinalityType
  <1>7. Fine(S)
    BY <1>6 DEF T
  <1>. QED
    BY <1>7 DEF Sum

\* A part of a set has no larger sum, if no value is negative.
LEMMA SumOfPart ==
    ASSUME NEW S, IsFiniteSet(S), NEW f, \A y \in S : f[y] \in Nat, NEW R \in SUBSET S
    PROVE  SumFunctionOnSet(f, R) <= SumFunctionOnSet(f, S)
  <1>1. SumFunctionOnSet(f, S) = SumFunctionOnSet(f, R) + SumFunctionOnSet(f, S \ R)
    BY SumSplit
  <1>2. SumFunctionOnSet(f, R) \in Nat /\ SumFunctionOnSet(f, S \ R) \in Nat
    BY SubsetsAreFinite, SumNat
  <1>. QED
    BY <1>1, <1>2

\* The values of a part become zero: the sum loses what the part had.
LEMMA SumCleared ==
    ASSUME NEW S, IsFiniteSet(S), NEW R \in SUBSET S, NEW f, \A y \in S : f[y] \in Int,
           NEW e, \A y \in S : e[y] = IF y \in R THEN 0 ELSE f[y]
    PROVE  SumFunctionOnSet(e, S) = SumFunctionOnSet(f, S) - SumFunctionOnSet(f, R)
  <1>1. \A y \in S : e[y] \in Int
    OBVIOUS
  <1>2. IsFiniteSet(R) /\ IsFiniteSet(S \ R)
    BY SubsetsAreFinite
  <1>3. SumFunctionOnSet(e, S) = SumFunctionOnSet(e, R) + SumFunctionOnSet(e, S \ R)
    BY <1>1, SumSplit
  <1>4. SumFunctionOnSet(f, S) = SumFunctionOnSet(f, R) + SumFunctionOnSet(f, S \ R)
    BY SumSplit
  <1>5. SumFunctionOnSet(e, R) = 0
    BY <1>2, SumNat
  <1>6. SumFunctionOnSet(f, S \ R) = SumFunctionOnSet(e, S \ R)
    <2>1. \A y \in S \ R : f[y] \in Int /\ f[y] = e[y]
      OBVIOUS
    <2>. QED
      BY <1>2, <2>1, SumSame
  <1>7. SumFunctionOnSet(f, R) \in Int /\ SumFunctionOnSet(f, S \ R) \in Int
    BY <1>2, SumType
  <1>. QED
    BY <1>3, <1>4, <1>5, <1>6, <1>7

\* What bounds the values of f by those of e bounds the sum of f by that of e.
LEMMA SumBound ==
    ASSUME NEW S, IsFiniteSet(S), NEW f, NEW e, \A y \in S : f[y] \in Int /\ e[y] \in Int,
           NEW a \in Int, NEW b \in Int, NEW c \in Int,
           \A y \in S : a * f[y] <= b * e[y] + c
    PROVE  a * SumFunctionOnSet(f, S) <= b * SumFunctionOnSet(e, S) + c * Cardinality(S)
  <1>. DEFINE F(s) == SumFunctionOnSet(f, s)
              E(s) == SumFunctionOnSet(e, s)
              T == {n \in Nat : \A s \in SUBSET S :
                                   Cardinality(s) = n => a * F(s) <= b * E(s) + c * n}
  <1>1. ASSUME NEW s \in SUBSET S
        PROVE  /\ F(s) \in Int /\ E(s) \in Int
               /\ \A x \in s : F(s) = f[x] + F(s \ {x}) /\ E(s) = e[x] + E(s \ {x})
    <2>1. IsFiniteSet(s) /\ \A y \in s : f[y] \in Int /\ e[y] \in Int
      BY SubsetsAreFinite
    <2>. QED
      BY <2>1, SumType, SumTake
  <1>2. F({}) = 0 /\ E({}) = 0
    BY SumEmpty
  <1>. HIDE DEF F, E
  <1>3. 0 \in T
    <2>1. \A s \in SUBSET S : Cardinality(s) = 0 => s = {}
      BY SubsetsAreFinite
    <2>2. a * 0 <= b * 0 + c * 0
      OBVIOUS
    <2>. QED
      BY <1>2, <2>1, <2>2
  <1>4. ASSUME NEW n \in Nat, n \in T PROVE n + 1 \in T
    <2>1. ASSUME NEW s \in SUBSET S, Cardinality(s) = n + 1
          PROVE  a * F(s) <= b * E(s) + c * (n + 1)
      <3>1. s # {}
        BY <2>1, SubsetsAreFinite
      <3>2. PICK x \in s : TRUE
        BY <3>1
      <3>. DEFINE r == s \ {x}
      <3>3. r \in SUBSET S /\ Cardinality(r) = n
        BY <2>1, SubsetsAreFinite
      <3>4. a * F(r) <= b * E(r) + c * n
        BY <1>4, <3>3
      <3>5. /\ F(s) = f[x] + F(r) /\ E(s) = e[x] + E(r)
            /\ F(r) \in Int /\ E(r) \in Int /\ f[x] \in Int /\ e[x] \in Int
            /\ a * f[x] <= b * e[x] + c
        BY <1>1, <3>3
      <3>. HIDE DEF r
      <3>6. /\ a * F(s) = a * f[x] + a * F(r)
            /\ b * E(s) = b * e[x] + b * E(r)
            /\ c * (n + 1) = c * n + c
        BY <3>5
      <3>7. /\ a * f[x] \in Int /\ a * F(r) \in Int /\ b * e[x] \in Int /\ b * E(r) \in Int
            /\ c * n \in Int
        BY <3>5
      <3>. QED
        BY <3>4, <3>5, <3>6, <3>7
    <2>. QED
      BY <2>1
  <1>. HIDE DEF T
  <1>5. Nat \subseteq T
    BY <1>3, <1>4, AllNumbers
  <1>6. Cardinality(S) \in Nat /\ S \in SUBSET S
    BY FS_CardinalityType
  <1>. QED
    BY <1>5, <1>6 DEF T, F, E
=============================================================================
