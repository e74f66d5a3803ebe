---------------------------- MODULE Sums_lemmas ----------------------------
(***************************************************************************)
(* Lemmas about SumFunctionOnSet, with which the models add up balances    *)
(* and gas: the sum of a finite function is a number, one term can be      *)
(* taken out of it, and it follows a change of one value.  They need       *)
(* induction over finite sets, which is stated here with the set of the    *)
(* numbers, or of the subsets, for which a claim holds.                    *)
(***************************************************************************)
EXTENDS Integers, FiniteSets, Functions, FiniteSetTheorems, WellFoundedInduction, TLAPS

Pick(T) == CHOOSE x \in T : TRUE

\* The sum over T, from the sums over smaller sets.
SumStep(f, sum, T) == IF T = {} THEN 0 ELSE f[Pick(T)] + sum[T \ {Pick(T)}]

\* The sums of f over the subsets of S.
PartialSums(f, S) ==
    LET sum[T \in SUBSET S] == SumStep(f, sum, T)
    IN  sum

\* sum[T] loses the term of any element that is taken out of T.
Splits(f, S, sum) == \A T \in SUBSET S : \A x \in T : sum[T] = f[x] + sum[T \ {x}]

LEMMA SumIs ==
    ASSUME NEW f, NEW S
    PROVE  SumFunctionOnSet(f, S) = PartialSums(f, S)[S]
BY DEF SumFunctionOnSet, FoldFunctionOnSet, MapThenFoldSet, PartialSums, SumStep, Pick

-----------------------------------------------------------------------------
\* A set of natural numbers has a least element.
LEMMA LeastNatural ==
    ASSUME NEW T, T \subseteq Nat, T # {}
    PROVE  \E n \in T : \A m \in T : n <= m
<1>1. PICK n \in T : \A m \in T : ~(<<m, n>> \in OpToRel(<, Nat))
  BY WFMin, NatLessThanWellFounded
<1>2. \A m \in T : ~(m < n)
  BY <1>1 DEF OpToRel
<1> QED
  BY <1>2

\* Induction: a set with 0 that is closed under successors holds every natural number.
LEMMA NaturalsIn ==
    ASSUME NEW G, 0 \in G, \A n \in Nat : n \in G => n + 1 \in G
    PROVE  Nat \subseteq G
<1> SUFFICES ASSUME Nat \ G # {} PROVE FALSE
  OBVIOUS
<1>1. PICK n \in Nat \ G : \A m \in Nat \ G : n <= m
  BY LeastNatural
<1>2. n - 1 \in Nat /\ n - 1 \notin Nat \ G
  BY <1>1
<1> QED
  BY <1>1, <1>2

\* Induction over the subsets of a finite set.
LEMMA SubsetsIn ==
    ASSUME NEW S, IsFiniteSet(S), NEW G,
           \A T \in SUBSET S : (\A x \in T : T \ {x} \in G) => T \in G
    PROVE  \A T \in SUBSET S : T \in G
<1> DEFINE H == {n \in Nat : \A T \in SUBSET S : Cardinality(T) = n => T \in G}
<1>1. \A T \in SUBSET S : IsFiniteSet(T) /\ Cardinality(T) \in Nat
  BY FS_Subset, FS_CardinalityType
<1>2. 0 \in H
  BY <1>1, FS_EmptySet
<1>3. ASSUME NEW n \in Nat, n \in H PROVE n + 1 \in H
  <2>1. ASSUME NEW T \in SUBSET S, Cardinality(T) = n + 1 PROVE T \in G
    <3>0. (n + 1) - 1 = n
      OBVIOUS
    <3>1. ASSUME NEW x \in T PROVE T \ {x} \in G
      <4>1. Cardinality(T \ {x}) = Cardinality(T) - 1
        BY <1>1, FS_RemoveElement, Zenon
      <4>2. Cardinality(T \ {x}) = n
        BY <2>1, <3>0, <4>1, Zenon
      <4> QED
        BY <1>3, <4>2
    <3> QED
      BY <3>1
  <2> QED
    BY <2>1
<1> HIDE DEF H
<1>4. Nat \subseteq H
  BY <1>2, <1>3, NaturalsIn
<1> QED
  BY <1>1, <1>4 DEF H

-----------------------------------------------------------------------------
\* PartialSums is what its recursive definition says.
LEMMA SumsExist ==
    ASSUME NEW S, IsFiniteSet(S), NEW f \in [S -> Int]
    PROVE  \E g \in [SUBSET S -> Int] : \A T \in SUBSET S : g[T] = SumStep(f, g, T)
<1> DEFINE L(n) == {T \in SUBSET S : Cardinality(T) <= n}
           ok(g, n) == \A T \in L(n) : g[T] = SumStep(f, g, T)
           G == {n \in Nat : \E g \in [L(n) -> Int] : ok(g, n)}
<1>1. \A T \in SUBSET S : IsFiniteSet(T) /\ Cardinality(T) \in Nat
  BY FS_Subset, FS_CardinalityType
<1>2. 0 \in G
  <2>1. \A T \in L(0) : T = {}
    BY <1>1, FS_EmptySet
  <2>2. [T \in L(0) |-> 0] \in [L(0) -> Int] /\ ok([T \in L(0) |-> 0], 0)
    BY <2>1 DEF SumStep
  <2> QED
    BY <2>2
<1>3. ASSUME NEW n \in Nat, n \in G PROVE n + 1 \in G
  <2>1. PICK h \in [L(n) -> Int] : ok(h, n)
    BY <1>3
  <2> DEFINE g == [T \in L(n + 1) |-> SumStep(f, h, T)]
  <2>2. L(n) \subseteq L(n + 1)
    BY <1>1
  <2>3. ASSUME NEW T \in L(n + 1), T # {}
        PROVE  Pick(T) \in S /\ T \ {Pick(T)} \in L(n)
    <3>1. Pick(T) \in T
      BY <2>3 DEF Pick
    <3>2. Cardinality(T \ {Pick(T)}) = Cardinality(T) - 1
      BY <1>1, <3>1, FS_RemoveElement, Zenon
    <3>3. Cardinality(T) \in Nat /\ Cardinality(T) <= n + 1
      BY <1>1
    <3> QED
      BY <3>1, <3>2, <3>3
  <2>4. \A T \in L(n + 1) : SumStep(f, h, T) \in Int
    BY <2>1, <2>3 DEF SumStep
  <2>5. g \in [L(n + 1) -> Int]
    BY <2>4
  <2>6. \A T \in L(n) : g[T] = h[T]
    BY <2>1, <2>2
  <2>7. ok(g, n + 1)
    BY <2>3, <2>6 DEF SumStep
  <2>8. n + 1 \in Nat
    OBVIOUS
  <2> HIDE DEF g
  <2> QED
    BY <2>5, <2>7, <2>8, Zenon
<1> HIDE DEF G
<1>4. Nat \subseteq G
  BY <1>2, <1>3, NaturalsIn
<1>5. L(Cardinality(S)) = SUBSET S
  BY <1>1, FS_Subset
<1> QED
  BY <1>1, <1>4, <1>5 DEF G

LEMMA SumsAre ==
    ASSUME NEW S, IsFiniteSet(S), NEW f \in [S -> Int]
    PROVE  LET sum == PartialSums(f, S)
           IN  /\ sum \in [SUBSET S -> Int] /\ sum[{}] = 0
               /\ \A T \in SUBSET S : T # {} => sum[T] = f[Pick(T)] + sum[T \ {Pick(T)}]
<1> DEFINE sum == CHOOSE g : g = [T \in SUBSET S |-> SumStep(f, g, T)]
<1>1. PICK g \in [SUBSET S -> Int] : \A T \in SUBSET S : g[T] = SumStep(f, g, T)
  BY SumsExist, Zenon
<1>2. g = [T \in SUBSET S |-> SumStep(f, g, T)]
  BY <1>1
<1>3. sum = [T \in SUBSET S |-> SumStep(f, sum, T)]
  BY <1>2
<1>4. PartialSums(f, S) = sum
  BY DEF PartialSums
<1> HIDE DEF sum
<1>5. \A T \in SUBSET S : sum[T] = SumStep(f, sum, T)
  BY <1>3
<1>6. sum[{}] = 0
  BY <1>5, Zenon DEF SumStep
<1>7. ASSUME NEW T \in SUBSET S, T # {}
      PROVE  sum[T] = f[Pick(T)] + sum[T \ {Pick(T)}] /\ Pick(T) \in T
  BY <1>5, <1>7 DEF Pick, SumStep
<1> DEFINE G == {T \in SUBSET S : sum[T] \in Int}
<1>8. ASSUME NEW T \in SUBSET S, \A x \in T : T \ {x} \in G PROVE T \in G
  <2>1. CASE T = {}
    BY <1>6, <2>1
  <2>2. CASE T # {}
    <3>1. Pick(T) \in T /\ sum[T] = f[Pick(T)] + sum[T \ {Pick(T)}]
      BY <1>7, <2>2
    <3>2. sum[T \ {Pick(T)}] \in Int /\ f[Pick(T)] \in Int
      BY <1>8, <3>1
    <3> QED
      BY <3>1, <3>2
  <2> QED
    BY <2>1, <2>2
<1> HIDE DEF G
<1>9. \A T \in SUBSET S : T \in G
  <2>1. \A T \in SUBSET S : (\A x \in T : T \ {x} \in G) => T \in G
    BY <1>8, Zenon
  <2> QED
    BY <2>1, SubsetsIn, Zenon
<1>10. sum \in [SUBSET S -> Int]
  BY <1>3, <1>9 DEF G
<1> QED
  BY <1>4, <1>6, <1>7, <1>10

\* The order in which the elements are taken out makes no difference.
LEMMA SumRemove ==
    ASSUME NEW S, IsFiniteSet(S), NEW f \in [S -> Int]
    PROVE  Splits(f, S, PartialSums(f, S))
<1> DEFINE sum == PartialSums(f, S)
           G == {T \in SUBSET S : \A x \in T : sum[T] = f[x] + sum[T \ {x}]}
<1>1. /\ sum \in [SUBSET S -> Int]
      /\ \A T \in SUBSET S : T # {} => sum[T] = f[Pick(T)] + sum[T \ {Pick(T)}]
  BY SumsAre, Zenon
<1> HIDE DEF sum
<1>2. ASSUME NEW T \in SUBSET S, \A x \in T : T \ {x} \in G PROVE T \in G
  <2>1. ASSUME NEW x \in T PROVE sum[T] = f[x] + sum[T \ {x}]
    <3> DEFINE y == Pick(T)
    <3>1. y \in T /\ sum[T] = f[y] + sum[T \ {y}]
      BY <1>1 DEF Pick
    <3> HIDE DEF y
    <3>2. CASE y = x
      BY <3>1, <3>2
    <3>3. CASE y # x
      <4>1. /\ x \in T \ {y} /\ y \in T \ {x} /\ T \ {x} \in G /\ T \ {y} \in G
            /\ (T \ {y}) \ {x} = (T \ {x}) \ {y}
        BY <1>2, <3>1, <3>3
      <4>2. /\ sum[T \ {y}] = f[x] + sum[(T \ {y}) \ {x}]
            /\ sum[T \ {x}] = f[y] + sum[(T \ {x}) \ {y}]
        BY <4>1
      <4>3. sum[(T \ {x}) \ {y}] \in Int /\ f[x] \in Int /\ f[y] \in Int
        BY <1>1, <3>1
      <4> DEFINE fx == f[x]
                 fy == f[y]
                 rest == sum[(T \ {x}) \ {y}]
      <4>4. /\ sum[T] = fy + (fx + rest) /\ sum[T \ {x}] = fy + rest
            /\ fx \in Int /\ fy \in Int /\ rest \in Int
        BY <3>1, <4>1, <4>2, <4>3, Zenon
      <4> HIDE DEF fx, fy, rest
      <4>5. fy + (fx + rest) = fx + (fy + rest)
        BY <4>4
      <4> QED
        BY <4>4, <4>5, Zenon DEF fx
    <3> QED
      BY <3>2, <3>3
  <2> QED
    BY <2>1
<1> HIDE DEF G
<1>3. \A T \in SUBSET S : T \in G
  BY <1>2, SubsetsIn
<1> QED
  BY <1>3 DEF G, sum, Splits

\* Functions that agree on a set have the same sum over it.
LEMMA SumSame ==
    ASSUME NEW S, IsFiniteSet(S), NEW f \in [S -> Int], NEW R, IsFiniteSet(R), NEW g \in [R -> Int],
           NEW U, U \subseteq S, U \subseteq R, \A x \in U : f[x] = g[x]
    PROVE  PartialSums(f, S)[U] = PartialSums(g, R)[U]
<1> DEFINE a == PartialSums(f, S)
           b == PartialSums(g, R)
           G == {T \in SUBSET U : a[T] = b[T]}
<1>1. a[{}] = 0 /\ b[{}] = 0 /\ IsFiniteSet(U)
  BY SumsAre, FS_Subset, Zenon
<1>2. Splits(f, S, a) /\ Splits(g, R, b)
  BY SumRemove, Zenon
<1> HIDE DEF a, b
<1>3. ASSUME NEW T \in SUBSET U, \A x \in T : T \ {x} \in G PROVE T \in G
  <2>1. CASE T = {}
    BY <1>1, <2>1
  <2>2. ASSUME NEW x \in T PROVE a[T] = b[T]
    <3>1. a[T \ {x}] = b[T \ {x}] /\ f[x] = g[x]
      BY <1>3
    <3>2. a[T] = f[x] + a[T \ {x}] /\ b[T] = g[x] + b[T \ {x}]
      BY <1>2 DEF Splits
    <3> QED
      BY <3>1, <3>2, Zenon
  <2> QED
    BY <2>1, <2>2
<1> HIDE DEF G
<1>4. \A T \in SUBSET U : T \in G
  BY <1>1, <1>3, SubsetsIn
<1> QED
  BY <1>4 DEF G, a, b

\* A sum is a number.
LEMMA SumType ==
    ASSUME NEW S, IsFiniteSet(S), NEW f \in [S -> Int]
    PROVE  SumFunctionOnSet(f, S) \in Int
<1>1. PartialSums(f, S) \in [SUBSET S -> Int]
  BY SumsAre, Zenon
<1> QED
  BY <1>1, SumIs

\* The sum after one term is taken out.
LEMMA SumDrop ==
    ASSUME NEW S, IsFiniteSet(S), NEW f \in [S -> Int], NEW x \in S, NEW g \in [S \ {x} -> Int],
           \A y \in S \ {x} : f[y] = g[y]
    PROVE  SumFunctionOnSet(f, S) = f[x] + SumFunctionOnSet(g, S \ {x})
<1>1. IsFiniteSet(S \ {x}) /\ S \in SUBSET S
  BY FS_RemoveElement
<1>2. PartialSums(f, S)[S] = f[x] + PartialSums(f, S)[S \ {x}]
  <2>1. Splits(f, S, PartialSums(f, S))
    BY SumRemove, Zenon
  <2> QED
    BY <1>1, <2>1 DEF Splits
<1>3. PartialSums(f, S)[S \ {x}] = PartialSums(g, S \ {x})[S \ {x}]
  BY <1>1, SumSame
<1> QED
  BY <1>2, <1>3, SumIs, Zenon

\* The sum after one value has changed.
LEMMA SumExcept ==
    ASSUME NEW S, IsFiniteSet(S), NEW f \in [S -> Int], NEW g \in [S -> Int], NEW x \in S,
           \A y \in S \ {x} : f[y] = g[y]
    PROVE  SumFunctionOnSet(g, S) = SumFunctionOnSet(f, S) - f[x] + g[x]
<1> DEFINE h == [y \in S \ {x} |-> f[y]]
           r == SumFunctionOnSet(h, S \ {x})
<1>1. /\ h \in [S \ {x} -> Int] /\ IsFiniteSet(S \ {x}) /\ f[x] \in Int /\ g[x] \in Int
      /\ \A y \in S \ {x} : f[y] = h[y] /\ g[y] = h[y]
  BY FS_RemoveElement
<1> HIDE DEF h
<1>2. SumFunctionOnSet(f, S) = f[x] + r
  BY <1>1, SumDrop
<1>3. SumFunctionOnSet(g, S) = g[x] + r
  BY <1>1, SumDrop
<1>4. r \in Int
  BY <1>1, SumType
<1> HIDE DEF r
<1> QED
  BY <1>1, <1>2, <1>3, <1>4
=============================================================================
