--------------------------- MODULE InductionLemmas ---------------------------
(***************************************************************************)
(* What the proofs about several components take from the well-foundedness *)
(* of the natural numbers: least and greatest numbers, and the folds of    *)
(* the community modules, which the models use for loops.                  *)
(*                                                                         *)
(* Induction takes the form of a least counterexample: the principle with  *)
(* a predicate as its parameter cannot be instantiated by the provers, a   *)
(* set of numbers can.                                                     *)
(***************************************************************************)
EXTENDS Integers, FiniteSetsExt, FiniteSetTheorems, WellFoundedInduction, TLAPS

\* Every set of numbers that is not empty has a least element.
LEMMA LeastNumber ==
    ASSUME NEW T, T \subseteq Nat, T # {}
    PROVE  \E n \in T : \A m \in T : n <= m
<1>1. PICK R : IsWellFoundedOn(R, Nat) /\ R = OpToRel(<, Nat)
  BY NatLessThanWellFounded, Zenon
<1>2. \A m, n \in Nat : m < n => <<m, n>> \in R
  BY <1>1 DEF OpToRel
<1>3. PICK n \in T : \A m \in T : ~(<<m, n>> \in R)
  BY <1>1, WFMin, Zenon
<1>4. ASSUME NEW m \in T PROVE n <= m
  <2>1. m \in Nat /\ n \in Nat
    OBVIOUS
  <2>2. ~(<<m, n>> \in R)
    BY <1>3
  <2>3. ~(m < n)
    BY <1>2, <2>1, <2>2
  <2> QED
    BY <2>1, <2>3
<1> QED
  BY <1>4

\* Induction over a set of numbers: what holds of 0 and goes from each number to the next
\* holds of all of them.
LEMMA NumberInduction ==
    ASSUME NEW T, T \subseteq Nat, 0 \in T, \A n \in T : n + 1 \in T
    PROVE  T = Nat
<1> SUFFICES ASSUME Nat \ T # {} PROVE FALSE
  OBVIOUS
<1>1. PICK n \in Nat \ T : \A m \in Nat \ T : n <= m
  BY LeastNumber
<1>2. n # 0 /\ n - 1 \in Nat
  BY <1>1
<1>3. n - 1 \in T
  BY <1>1, <1>2
<1>4. (n - 1) + 1 \in T
  BY <1>3
<1> QED
  BY <1>1, <1>2, <1>4

\* A set of numbers with a bound has a greatest element.
LEMMA GreatestNumber ==
    ASSUME NEW S, S \subseteq Nat, S # {}, NEW bound \in Nat, \A n \in S : n <= bound
    PROVE  \E n \in S : \A m \in S : m <= n
<1> DEFINE T == {bound - n : n \in S}
<1>0. \A n \in S : bound - n \in Nat
  OBVIOUS
<1>1. T \subseteq Nat
  BY <1>0
<1>2. \A n \in S : bound - n \in T
  OBVIOUS
<1>3. \A k \in T : \E n \in S : k = bound - n
  OBVIOUS
<1> HIDE DEF T
<1>4. PICK k \in T : \A m \in T : k <= m
  BY <1>1, <1>2, LeastNumber
<1>5. PICK n \in S : k = bound - n
  BY <1>3
<1>6. \A m \in S : m <= n
  BY <1>2, <1>4, <1>5
<1> QED
  BY <1>6

\* Max is the greatest element of a set of numbers with a bound.
LEMMA MaxIsGreatest ==
    ASSUME NEW S, S \subseteq Nat, S # {}, NEW bound \in Nat, \A n \in S : n <= bound
    PROVE  Max(S) \in S /\ \A n \in S : n <= Max(S)
<1>1. PICK n \in S : \A m \in S : m <= n
  BY GreatestNumber
<1>2. \A m \in S : n >= m
  BY <1>1
<1>3. Max(S) \in S /\ \A m \in S : Max(S) >= m
  BY <1>2 DEF Max
<1> QED
  BY <1>3

\* The greatest element of a set that holds its bound.
LEMMA MaxOfBound ==
    ASSUME NEW n \in Nat, NEW S \in SUBSET (1 .. n), n \in S
    PROVE  Max(S) = n
<1>1. Max(S) \in S /\ \A m \in S : m <= Max(S)
  <2>1. S \subseteq Nat /\ S # {} /\ \A m \in S : m <= n
    OBVIOUS
  <2> QED
    BY <2>1, MaxIsGreatest
<1>2. PICK m : m = Max(S)
  OBVIOUS
<1>3. m \in 1 .. n /\ n <= m
  BY <1>1, <1>2
<1> QED
  BY <1>2, <1>3

-----------------------------------------------------------------------------
(***************************************************************************)
(* The folds.  MapThenFoldSet takes the greatest index of what is left of  *)
(* 1 .. n each time, so the function it chooses is defined on the subsets  *)
(* of 1 .. n.  A fold runs within a set A when base is in A and each step  *)
(* stays in A; step is the loop's body as a function on A and the index.   *)
(***************************************************************************)
Folds(g, n, base, step) ==
    g = [s \in SUBSET (1 .. n) |->
           IF s = {} THEN base ELSE step[<<g[s \ {Max(s)}], Max(s)>>]]

\* What is left when the greatest index is taken away.
LEMMA MaxTaken ==
    ASSUME NEW n \in Nat, NEW s \in SUBSET (1 .. n), s # {}
    PROVE  Max(s) \in s /\ Max(s) \in 1 .. n /\ s \ {Max(s)} \in SUBSET (1 .. n)
<1>1. s \subseteq Nat /\ \A m \in s : m <= n
  OBVIOUS
<1>2. Max(s) \in s
  BY <1>1, MaxIsGreatest
<1> QED
  BY <1>2

\* One more index.
LEMMA FoldExtends ==
    ASSUME NEW n \in Nat, NEW A, NEW base \in A, NEW step, 
           \A x \in A : step[<<x, n + 1>>] \in A,
           NEW g, Folds(g, n, base, step), \A s \in SUBSET (1 .. n) : g[s] \in A
    PROVE  \E h : Folds(h, n + 1, base, step) /\ \A s \in SUBSET (1 .. n + 1) : h[s] \in A
<1> DEFINE h == [s \in SUBSET (1 .. n + 1) |->
                   IF n + 1 \in s THEN step[<<g[s \ {n + 1}], n + 1>>] ELSE g[s]]
<1>1. \A s \in SUBSET (1 .. n + 1) : /\ s \ {n + 1} \in SUBSET (1 .. n)
                                     /\ n + 1 \notin s => s \in SUBSET (1 .. n)
  OBVIOUS
<1>2. \A s \in SUBSET (1 .. n) : s \in SUBSET (1 .. n + 1) /\ n + 1 \notin s
  OBVIOUS
<1>3. \A s \in SUBSET (1 .. n) : h[s] = g[s]
  BY <1>2
<1>4. ASSUME NEW s \in SUBSET (1 .. n + 1)
      PROVE  h[s] \in A
  BY <1>1
<1>5. ASSUME NEW s \in SUBSET (1 .. n + 1)
      PROVE  h[s] = IF s = {} THEN base ELSE step[<<h[s \ {Max(s)}], Max(s)>>]
  <2>1. CASE n + 1 \in s
    <3>1. Max(s) = n + 1
      BY <2>1, MaxOfBound
    <3>2. h[s \ {n + 1}] = g[s \ {n + 1}]
      BY <1>1, <1>3
    <3>3. h[s] = step[<<g[s \ {n + 1}], n + 1>>]
      BY <2>1
    <3> HIDE DEF h
    <3> QED
      BY <2>1, <3>1, <3>2, <3>3
  <2>2. CASE n + 1 \notin s
    <3>1. s \in SUBSET (1 .. n) /\ h[s] = g[s]
      BY <1>1, <1>3, <2>2
    <3>2. g[s] = IF s = {} THEN base ELSE step[<<g[s \ {Max(s)}], Max(s)>>]
      BY <3>1 DEF Folds
    <3>3. s \ {Max(s)} \in SUBSET (1 .. n)
      BY <3>1
    <3>4. h[s \ {Max(s)}] = g[s \ {Max(s)}]
      BY <1>3, <3>3
    <3> HIDE DEF h
    <3> QED
      BY <3>1, <3>2, <3>4
  <2> QED
    BY <2>1, <2>2
<1>6. h = [s \in SUBSET (1 .. n + 1) |-> h[s]]
  OBVIOUS
<1> HIDE DEF h
<1>7. Folds(h, n + 1, base, step)
  BY <1>5, <1>6 DEF Folds
<1> QED
  BY <1>4, <1>7

\* A fold that runs within A exists, and all that it passes is in A.
LEMMA FoldExists ==
    ASSUME NEW n \in Nat, NEW A, NEW base \in A, NEW step,
           \A x \in A, i \in 1 .. n : step[<<x, i>>] \in A
    PROVE  \E g : Folds(g, n, base, step) /\ \A s \in SUBSET (1 .. n) : g[s] \in A
<1> DEFINE Runs(k) == \E g : Folds(g, k, base, step) /\ \A s \in SUBSET (1 .. k) : g[s] \in A
           T == {k \in Nat : k <= n => Runs(k)}
<1>1. Runs(0)
  <2>1. PICK g : g = [s \in SUBSET (1 .. 0) |-> base]
    OBVIOUS
  <2>2. \A s \in SUBSET (1 .. 0) : s = {}
    OBVIOUS
  <2>3. Folds(g, 0, base, step)
    BY <2>1, <2>2 DEF Folds
  <2>4. \A s \in SUBSET (1 .. 0) : g[s] \in A
    BY <2>1
  <2> QED
    BY <2>3, <2>4
<1>2. ASSUME NEW k \in Nat, k + 1 <= n, Runs(k)
      PROVE  Runs(k + 1)
  <2>1. PICK g : Folds(g, k, base, step) /\ \A s \in SUBSET (1 .. k) : g[s] \in A
    BY <1>2
  <2>2. \A x \in A : step[<<x, k + 1>>] \in A
    BY <1>2
  <2> QED
    BY <2>1, <2>2, FoldExtends
<1> HIDE DEF Runs
<1>3. 0 \in T /\ T \subseteq Nat
  BY <1>1
<1>4. ASSUME NEW k \in T PROVE k + 1 \in T
  <2>1. k \in Nat /\ k + 1 \in Nat /\ (k <= n => Runs(k))
    OBVIOUS
  <2>2. k + 1 <= n => k <= n
    BY <2>1
  <2>3. k + 1 <= n => Runs(k + 1)
    BY <1>2, <2>1, <2>2
  <2> QED
    BY <2>1, <2>3
<1>5. \A k \in T : k + 1 \in T
  BY <1>4
<1> HIDE DEF T
<1>6. T = Nat
  BY <1>3, <1>5, NumberInduction
<1>7. Runs(n)
  BY <1>6 DEF T
<1> QED
  BY <1>7 DEF Runs

\* The loop goes through the prefixes of 1 .. n.
LEMMA PrefixTaken ==
    ASSUME NEW n \in Nat, NEW k \in 1 .. n
    PROVE  /\ 1 .. k \in SUBSET (1 .. n) /\ 1 .. k # {}
           /\ Max(1 .. k) = k /\ (1 .. k) \ {Max(1 .. k)} = 1 .. k - 1
<1>1. k \in Nat /\ k \in 1 .. k /\ 1 .. k \in SUBSET (1 .. k)
  OBVIOUS
<1>2. Max(1 .. k) = k
  BY <1>1, MaxOfBound
<1>3. (1 .. k) \ {k} = 1 .. k - 1
  OBVIOUS
<1> QED
  BY <1>1, <1>2, <1>3

\* A set that holds the start of a loop and is kept by its body holds every value on its way.
LEMMA LoopRuns ==
    ASSUME NEW n \in Nat, NEW A, NEW h, h[1 .. 0] \in A,
           \A k \in 1 .. n : h[1 .. k - 1] \in A => h[1 .. k] \in A
    PROVE  \A k \in 0 .. n : h[1 .. k] \in A
<1> DEFINE T == {k \in Nat : k <= n => h[1 .. k] \in A}
<1>1. 0 \in T /\ T \subseteq Nat
  OBVIOUS
<1>2. ASSUME NEW k \in T PROVE k + 1 \in T
  <2>1. k \in Nat /\ k + 1 \in Nat /\ (k <= n => h[1 .. k] \in A)
    OBVIOUS
  <2>2. ASSUME k + 1 <= n PROVE h[1 .. k + 1] \in A
    <3>1. k <= n /\ k + 1 \in 1 .. n /\ (k + 1) - 1 = k
      BY <2>1, <2>2
    <3> QED
      BY <2>1, <3>1
  <2> QED
    BY <2>1, <2>2
<1>3. \A k \in T : k + 1 \in T
  BY <1>2
<1> HIDE DEF T
<1>4. T = Nat
  BY <1>1, <1>3, NumberInduction
<1>5. \A k \in 0 .. n : k \in T /\ k <= n
  BY <1>4
<1> QED
  BY <1>5 DEF T

-----------------------------------------------------------------------------
(***************************************************************************)
(* Sums over finite sets: MapThenSumSet takes an arbitrary element of what *)
(* is left each time, and the sum does not depend on which.                *)
(***************************************************************************)
SumOver(f, S) == MapThenSumSet(LAMBDA k : f[k], S)

Taken(s) == CHOOSE x \in s : TRUE
Added(f, g, s) == IF s = {} THEN 0 ELSE f[Taken(s)] + g[s \ {Taken(s)}]

\* g is the sum of f over each subset of K.
Totals(g, K, f) == g \in [SUBSET K -> Nat] /\ \A s \in SUBSET K : g[s] = Added(f, g, s)

\* The element taken is one of the set, and the rest has one less.
LEMMA TakenFirst ==
    ASSUME NEW K, IsFiniteSet(K), NEW s \in SUBSET K, s # {}
    PROVE  /\ Taken(s) \in s /\ s \ {Taken(s)} \in SUBSET K
           /\ Cardinality(s) \in Nat /\ Cardinality(s \ {Taken(s)}) = Cardinality(s) - 1
<1>1. Taken(s) \in s
  BY DEF Taken
<1>2. IsFiniteSet(s)
  BY FS_Subset
<1>3. PICK x : x = Taken(s)
  OBVIOUS
<1>4. Cardinality(s) \in Nat /\ Cardinality(s \ {x}) = Cardinality(s) - 1
  BY <1>1, <1>2, <1>3, FS_CardinalityType, FS_RemoveElement
<1> QED
  BY <1>1, <1>3, <1>4

\* The sums of a function on a finite set exist.
LEMMA TotalsExist ==
    ASSUME NEW K, IsFiniteSet(K), NEW f \in [K -> Nat]
    PROVE  \E g : Totals(g, K, f)
<1> DEFINE Upto(g, n) == /\ g \in [SUBSET K -> Nat]
                         /\ \A s \in SUBSET K : Cardinality(s) <= n => g[s] = Added(f, g, s)
           T == {n \in Nat : \E g : Upto(g, n)}
<1>1. \A s \in SUBSET K : IsFiniteSet(s) /\ Cardinality(s) \in Nat /\ Cardinality(s) <= Cardinality(K)
  BY FS_Subset, FS_CardinalityType
<1>2. 0 \in T
  <2>1. PICK g : g = [s \in SUBSET K |-> 0]
    OBVIOUS
  <2>2. ASSUME NEW s \in SUBSET K, Cardinality(s) <= 0 PROVE g[s] = Added(f, g, s)
    <3>1. s = {}
      BY <1>1, <2>2, FS_EmptySet
    <3> QED
      BY <2>1, <3>1 DEF Added
  <2>3. Upto(g, 0)
    BY <2>1, <2>2
  <2> QED
    BY <2>3
<1>3. ASSUME NEW n \in T PROVE n + 1 \in T
  <2>1. PICK g : Upto(g, n)
    OBVIOUS
  <2>2. PICK h : h = [s \in SUBSET K |-> Added(f, g, s)]
    OBVIOUS
  <2>3. ASSUME NEW s \in SUBSET K PROVE Added(f, g, s) \in Nat
    <3>1. CASE s = {}
      BY <3>1 DEF Added
    <3>2. CASE s # {}
      <4>1. Taken(s) \in K /\ s \ {Taken(s)} \in SUBSET K
        BY <3>2, TakenFirst
      <4>2. f[Taken(s)] \in Nat /\ g[s \ {Taken(s)}] \in Nat
        BY <2>1, <4>1
      <4> QED
        BY <3>2, <4>2 DEF Added
    <3> QED
      BY <3>1, <3>2
  <2>4. ASSUME NEW s \in SUBSET K, Cardinality(s) <= n + 1 PROVE h[s] = Added(f, h, s)
    <3>1. CASE s = {}
      BY <2>2, <3>1 DEF Added
    <3>2. CASE s # {}
      <4>1. PICK r \in SUBSET K : r = s \ {Taken(s)}
        BY <3>2, TakenFirst
      <4>2. Cardinality(r) \in Nat /\ Cardinality(s) \in Nat /\ Cardinality(r) = Cardinality(s) - 1
        BY <1>1, <3>2, <4>1, TakenFirst
      <4>3. Cardinality(r) <= n
        BY <2>4, <4>2
      <4>4. g[r] = Added(f, g, r) /\ h[r] = Added(f, g, r)
        BY <2>1, <2>2, <4>3
      <4>5. h[s] = f[Taken(s)] + g[r]
        BY <2>2, <3>2, <4>1 DEF Added
      <4> QED
        BY <3>2, <4>1, <4>4, <4>5 DEF Added
    <3> QED
      BY <3>1, <3>2
  <2>5. Upto(h, n + 1)
    BY <2>2, <2>3, <2>4
  <2> QED
    BY <2>5
<1>4. T \subseteq Nat /\ \A n \in T : n + 1 \in T
  BY <1>3
<1>5. \A n \in T : \E g : Upto(g, n)
  OBVIOUS
<1> HIDE DEF T
<1>6. T = Nat
  BY <1>2, <1>4, NumberInduction
<1>7. Cardinality(K) \in T
  BY <1>6, FS_CardinalityType
<1>8. PICK g : Upto(g, Cardinality(K))
  BY <1>5, <1>7
<1>9. Totals(g, K, f)
  BY <1>1, <1>8 DEF Totals
<1> QED
  BY <1>9

\* What MapThenSumSet computes is that sum.
LEMMA SumIsTotal ==
    ASSUME NEW K, IsFiniteSet(K), NEW f \in [K -> Nat], NEW g, Totals(g, K, f), NEW S \in SUBSET K
    PROVE  SumOver(f, S) = g[S]
<1>1. PICK e : e = [s \in SUBSET S |-> g[s]]
  OBVIOUS
<1>2. ASSUME NEW s \in SUBSET S PROVE e[s] = Added(f, e, s)
  <2>1. s \in SUBSET K /\ e[s] = g[s] /\ g[s] = Added(f, g, s)
    BY <1>1 DEF Totals
  <2>2. s \ {Taken(s)} \in SUBSET S
    OBVIOUS
  <2>3. e[s \ {Taken(s)}] = g[s \ {Taken(s)}]
    BY <1>1, <2>2
  <2> QED
    BY <2>1, <2>3 DEF Added
<1>3. e = [s \in SUBSET S |-> IF s = {} THEN 0
                             ELSE f[CHOOSE x \in s : TRUE] + e[s \ {CHOOSE x \in s : TRUE}]]
  BY <1>1, <1>2 DEF Added, Taken
<1>4. PICK h : /\ h = [s \in SUBSET S |-> IF s = {} THEN 0
                         ELSE f[CHOOSE x \in s : TRUE] + h[s \ {CHOOSE x \in s : TRUE}]]
               /\ SumOver(f, S) = h[S]
  BY <1>3, Zenon DEF SumOver, MapThenSumSet, MapThenFoldSet
<1>5. \A s \in SUBSET S : h[s] = Added(f, h, s)
  BY <1>4, Zenon DEF Added, Taken
<1> DEFINE T == {n \in Nat : \A s \in SUBSET S : Cardinality(s) = n => h[s] = g[s]}
<1>6. \A s \in SUBSET S : s \in SUBSET K /\ IsFiniteSet(s) /\ Cardinality(s) \in Nat
  BY FS_Subset, FS_CardinalityType
<1>7. 0 \in T
  <2>1. ASSUME NEW s \in SUBSET S, Cardinality(s) = 0 PROVE h[s] = g[s]
    <3>1. s = {}
      BY <1>6, <2>1, FS_EmptySet
    <3> QED
      BY <1>5, <1>6, <3>1 DEF Added, Totals
  <2> QED
    BY <2>1
<1>8. ASSUME NEW n \in T PROVE n + 1 \in T
  <2>1. ASSUME NEW s \in SUBSET S, Cardinality(s) = n + 1 PROVE h[s] = g[s]
    <3>1. s # {}
      <4>1. n \in Nat /\ n + 1 # 0
        OBVIOUS
      <4> QED
        BY <2>1, <4>1, FS_EmptySet
    <3>2. PICK r \in SUBSET S : r = s \ {Taken(s)}
      OBVIOUS
    <3>3. Cardinality(r) = n
      <4>1. Cardinality(r) = Cardinality(s) - 1
        BY <1>6, <3>1, <3>2, TakenFirst
      <4> QED
        BY <2>1, <4>1
    <3>4. h[r] = g[r]
      BY <3>3
    <3>5. h[s] = f[Taken(s)] + h[r] /\ g[s] = f[Taken(s)] + g[r]
      BY <1>5, <1>6, <3>1, <3>2 DEF Added, Totals
    <3> QED
      BY <3>4, <3>5
  <2> QED
    BY <2>1
<1>9. T \subseteq Nat /\ \A n \in T : n + 1 \in T
  BY <1>8
<1>10. \A s \in SUBSET S : Cardinality(s) \in T => h[s] = g[s]
  OBVIOUS
<1> HIDE DEF T
<1>11. T = Nat
  BY <1>7, <1>9, NumberInduction
<1> QED
  BY <1>4, <1>6, <1>10, <1>11

\* Any element may be taken first.
LEMMA AnyTaken ==
    ASSUME NEW K, IsFiniteSet(K), NEW f \in [K -> Nat], NEW g, Totals(g, K, f),
           NEW S \in SUBSET K, NEW e \in S
    PROVE  g[S] = f[e] + g[S \ {e}]
<1> DEFINE Free(s) == \A k \in s : g[s] = f[k] + g[s \ {k}]
           T == {n \in Nat : \A s \in SUBSET K : Cardinality(s) = n => Free(s)}
<1>1. \A s \in SUBSET K : IsFiniteSet(s) /\ Cardinality(s) \in Nat
  BY FS_Subset, FS_CardinalityType
<1>2. 0 \in T
  <2>1. ASSUME NEW s \in SUBSET K, Cardinality(s) = 0 PROVE Free(s)
    <3>1. s = {}
      BY <1>1, <2>1, FS_EmptySet
    <3> QED
      BY <3>1
  <2> QED
    BY <2>1
<1>3. ASSUME NEW n \in T PROVE n + 1 \in T
  <2>1. ASSUME NEW s \in SUBSET K, Cardinality(s) = n + 1, NEW k \in s PROVE g[s] = f[k] + g[s \ {k}]
    <3>1. s # {} /\ k \in K
      OBVIOUS
    <3>2. PICK x \in s : x = Taken(s)
      BY <3>1, TakenFirst
    <3>3. PICK r \in SUBSET K : r = s \ {x}
      OBVIOUS
    <3>4. PICK t \in SUBSET K : t = s \ {k}
      OBVIOUS
    <3>5. g[s] = f[x] + g[r]
      BY <3>1, <3>2, <3>3 DEF Added, Totals
    <3>6. CASE k = x
      BY <3>3, <3>5, <3>6
    <3>7. CASE k # x
      <4>1. k \in r /\ x \in t
        BY <3>3, <3>4, <3>7
      <4>2. Cardinality(r) = n /\ Cardinality(t) = n
        <5>1. n \in Nat /\ (n + 1) - 1 = n
          OBVIOUS
        <5>2. IsFiniteSet(s)
          BY <1>1
        <5>3. Cardinality(r) = Cardinality(s) - 1 /\ Cardinality(t) = Cardinality(s) - 1
          BY <3>3, <3>4, <5>2, FS_RemoveElement
        <5> QED
          BY <2>1, <5>1, <5>3
      <4>3. Free(r) /\ Free(t)
        BY <4>2
      <4>4. PICK u \in SUBSET K : u = r \ {k}
        OBVIOUS
      <4>5. u = t \ {x}
        BY <3>3, <3>4, <4>4
      <4>6. g[r] = f[k] + g[u] /\ g[t] = f[x] + g[u]
        BY <4>1, <4>3, <4>4, <4>5
      <4>7. f[k] \in Nat /\ f[x] \in Nat /\ g[u] \in Nat
        BY <3>1 DEF Totals
      <4>8. g[s] = f[k] + g[t]
        BY <3>5, <4>6, <4>7
      <4> QED
        BY <3>4, <4>8
    <3> QED
      BY <3>6, <3>7
  <2> QED
    BY <2>1
<1>4. T \subseteq Nat /\ \A n \in T : n + 1 \in T
  BY <1>3
<1>5. \A s \in SUBSET K : Cardinality(s) \in T => Free(s)
  OBVIOUS
<1> HIDE DEF T
<1>6. T = Nat
  BY <1>2, <1>4, NumberInduction
<1> QED
  BY <1>1, <1>5, <1>6

\* Sums of numbers are numbers, and the empty sum is 0.
LEMMA SumOfNone ==
    ASSUME NEW K, IsFiniteSet(K), NEW f \in [K -> Nat]
    PROVE  SumOver(f, {}) = 0 /\ \A S \in SUBSET K : SumOver(f, S) \in Nat
<1>1. PICK g : Totals(g, K, f)
  BY TotalsExist
<1>2. \A S \in SUBSET K : SumOver(f, S) = g[S]
  BY <1>1, SumIsTotal
<1>3. {} \in SUBSET K /\ g[{}] = 0
  BY <1>1 DEF Totals, Added
<1>4. \A S \in SUBSET K : g[S] \in Nat
  BY <1>1 DEF Totals
<1>5. SumOver(f, {}) = 0
  BY <1>2, <1>3
<1> QED
  BY <1>2, <1>4, <1>5

\* One more element adds its own value.
LEMMA SumOfMore ==
    ASSUME NEW K, IsFiniteSet(K), NEW f \in [K -> Nat], NEW S \in SUBSET K, NEW k \in K, k \notin S
    PROVE  SumOver(f, S \cup {k}) = SumOver(f, S) + f[k]
<1>1. PICK g : Totals(g, K, f)
  BY TotalsExist
<1>2. \A s \in SUBSET K : SumOver(f, s) = g[s]
  BY <1>1, SumIsTotal
<1>3. PICK s \in SUBSET K : s = S \cup {k}
  OBVIOUS
<1>4. k \in s /\ s \ {k} = S
  BY <1>3
<1>5. g[s] = f[k] + g[S]
  <2>1. g[s] = f[k] + g[s \ {k}]
    BY <1>1, <1>4, AnyTaken
  <2> QED
    BY <1>4, <2>1
<1>6. g[S] \in Nat /\ f[k] \in Nat
  BY <1>1 DEF Totals
<1> QED
  BY <1>2, <1>3, <1>5, <1>6

\* The sum over two sets without a common element.
LEMMA SumOfBoth ==
    ASSUME NEW K, IsFiniteSet(K), NEW f \in [K -> Nat], NEW S \in SUBSET K
    PROVE  \A U \in SUBSET K : S \cap U = {} => SumOver(f, S \cup U) = SumOver(f, S) + SumOver(f, U)
<1> DEFINE Sum(s) == SumOver(f, s)
           Splits(U) == S \cap U = {} => Sum(S \cup U) = Sum(S) + Sum(U)
           T == {n \in Nat : \A U \in SUBSET K : Cardinality(U) = n => Splits(U)}
<1>1. \A s \in SUBSET K : IsFiniteSet(s) /\ Cardinality(s) \in Nat
  BY FS_Subset, FS_CardinalityType
<1>2. Sum({}) = 0 /\ \A s \in SUBSET K : Sum(s) \in Nat
  BY SumOfNone
<1>3. \A s \in SUBSET K, k \in K : k \notin s => Sum(s \cup {k}) = Sum(s) + f[k]
  BY SumOfMore
<1> HIDE DEF Sum
<1>4. 0 \in T
  <2>1. ASSUME NEW U \in SUBSET K, Cardinality(U) = 0 PROVE Splits(U)
    <3>1. U = {} /\ S \cup U = S
      BY <1>1, <2>1, FS_EmptySet
    <3> QED
      BY <1>2, <3>1
  <2> QED
    BY <2>1
<1>5. ASSUME NEW n \in T PROVE n + 1 \in T
  <2>1. ASSUME NEW U \in SUBSET K, Cardinality(U) = n + 1, S \cap U = {}
        PROVE  Sum(S \cup U) = Sum(S) + Sum(U)
    <3>1. n \in Nat /\ n + 1 # 0 /\ (n + 1) - 1 = n
      OBVIOUS
    <3>2. U # {}
      BY <2>1, <3>1, FS_EmptySet
    <3>3. PICK k \in U : TRUE
      BY <3>2
    <3>4. PICK V \in SUBSET K : V = U \ {k}
      OBVIOUS
    <3>5. Cardinality(V) = n
      <4>1. IsFiniteSet(U)
        BY <1>1
      <4>2. Cardinality(V) = Cardinality(U) - 1
        BY <3>4, <4>1, FS_RemoveElement
      <4> QED
        BY <2>1, <3>1, <4>2
    <3>6. S \cap V = {} /\ k \in K /\ k \notin V /\ k \notin S
      BY <2>1, <3>4
    <3>7. Sum(S \cup V) = Sum(S) + Sum(V)
      BY <3>5, <3>6
    <3>8. PICK W \in SUBSET K : W = S \cup V
      OBVIOUS
    <3>9. k \notin W /\ W \cup {k} = S \cup U /\ V \cup {k} = U
      BY <3>4, <3>6, <3>8
    <3>10. Sum(W \cup {k}) = Sum(W) + f[k] /\ Sum(V \cup {k}) = Sum(V) + f[k]
      BY <1>3, <3>6, <3>9
    <3>11. Sum(S) \in Nat /\ Sum(V) \in Nat /\ f[k] \in Nat
      BY <1>2, <3>6
    <3> QED
      BY <3>7, <3>8, <3>9, <3>10, <3>11
  <2> QED
    BY <2>1
<1>6. T \subseteq Nat /\ \A n \in T : n + 1 \in T
  BY <1>5
<1>7. \A U \in SUBSET K : Cardinality(U) \in T => Splits(U)
  OBVIOUS
<1> HIDE DEF T
<1>8. T = Nat
  BY <1>4, <1>6, NumberInduction
<1> QED
  BY <1>1, <1>7, <1>8 DEF Sum

\* A part sums to no more than the whole.
LEMMA SumOfPart ==
    ASSUME NEW K, IsFiniteSet(K), NEW f \in [K -> Nat], NEW U \in SUBSET K, NEW S \in SUBSET U
    PROVE  SumOver(f, S) <= SumOver(f, U)
<1>1. PICK V \in SUBSET K : V = U \ S
  OBVIOUS
<1>2. S \in SUBSET K /\ S \cap V = {} /\ S \cup V = U
  BY <1>1
<1>3. SumOver(f, S \cup V) = SumOver(f, S) + SumOver(f, V)
  BY <1>2, SumOfBoth
<1>4. SumOver(f, S) \in Nat /\ SumOver(f, V) \in Nat
  BY <1>2, SumOfNone
<1>5. PICK a \in Nat, b \in Nat : a = SumOver(f, S) /\ b = SumOver(f, V)
  BY <1>4
<1>6. a <= a + b
  OBVIOUS
<1> QED
  BY <1>2, <1>3, <1>5, <1>6

=============================================================================
