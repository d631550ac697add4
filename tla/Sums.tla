-------------------------------- MODULE Sums --------------------------------
(***************************************************************************)
(* What SumFunction of the community modules computes, for every function  *)
(* to the integers with a finite domain: the module defines it by a        *)
(* recursion over the subsets of the domain in an order of its own choice. *)
(*                                                                         *)
(* The theorems for induction take the predicate as a parameter.  Each     *)
(* induction here is on a set instead: a set of numbers, or of subsets of  *)
(* a finite set, has a least element, and the least counterexample is none.*)
(***************************************************************************)
EXTENDS Integers, Functions, FiniteSets, FiniteSetTheorems, WellFoundedInduction, TLAPS

\* A set of subsets of a finite set has a smallest one among them.
LEMMA SmallestSubset ==
    ASSUME NEW S, IsFiniteSet(S), NEW T \in SUBSET (SUBSET S), T # {}
    PROVE  \E s \in T : \A r \in T : r \subseteq s => r = s
<1>1. T \subseteq FiniteSubsetsOf(S)
    BY FS_FiniteSubsetsOfFinite
<1>2. \E s \in T : \A r \in T : ~ (<<r, s>> \in StrictSubsetOrdering(S))
    BY <1>1, FS_StrictSubsetOrderingWellFounded, WFMin, Zenon
<1> QED
    BY <1>2 DEF StrictSubsetOrdering

\* A set of natural numbers has a least one.
LEMMA LeastNumber ==
    ASSUME NEW T \in SUBSET Nat, T # {}
    PROVE  \E n \in T : \A m \in T : n <= m
<1>1. PICK k \in T : TRUE
    OBVIOUS
<1> DEFINE U == {0..n : n \in {m \in T : m <= k}}
<1>2. U \in SUBSET (SUBSET (0..k)) /\ 0..k \in U
    <2>1. \A n \in T : n <= k => 0..n \subseteq 0..k
        BY <1>1
    <2> QED
        BY <2>1, <1>1
<1>3. IsFiniteSet(0..k)
    BY <1>1, FS_Interval
<1>4. \E s \in U : \A r \in U : r \subseteq s => r = s
    <2> HIDE DEF U
    <2> DEFINE K == 0..k
    <2>1. U \in SUBSET (SUBSET K) /\ U # {} /\ IsFiniteSet(K)
        BY <1>2, <1>3
    <2> HIDE DEF K
    <2> QED
        BY <2>1, SmallestSubset
<1>5. PICK n \in T : n <= k /\ \A m \in T : m <= k /\ 0..m \subseteq 0..n => 0..m = 0..n
    <2>1. PICK s \in U : \A r \in U : r \subseteq s => r = s
        BY <1>4
    <2>2. PICK n \in T : n <= k /\ s = 0..n
        BY <2>1
    <2>3. \A m \in T : m <= k => 0..m \in U
        OBVIOUS
    <2> HIDE DEF U
    <2> QED
        BY <2>1, <2>2, <2>3
<1>6. ASSUME NEW m \in T, m < n PROVE FALSE
    <2>1. n \in 0..n /\ n \notin 0..m /\ 0..m \subseteq 0..n
        BY <1>6
    <2> QED
        BY <2>1, <1>5, <1>6
<1> QED
    BY <1>5, <1>6

-----------------------------------------------------------------------------
(* The recursion *)

Some(s) == CHOOSE x \in s : TRUE
SumOf(g, f, s) == IF s = {} THEN 0 ELSE f[Some(s)] + g[s \ {Some(s)}]
Solves(g, f, S) == g = [s \in SUBSET S |-> SumOf(g, f, s)]

LEMMA SomeIsElement ==
    ASSUME NEW s, s # {}
    PROVE  Some(s) \in s
BY DEF Some

\* The recursion has a solution.
LEMMA SolutionExists ==
    ASSUME NEW S, IsFiniteSet(S), NEW f
    PROVE  \E g : Solves(g, f, S)
<1> DEFINE Up(g, n) == \A s \in SUBSET S : Cardinality(s) <= n => g[s] = SumOf(g, f, s)
           Bad == {n \in Nat : ~ \E g : g = [s \in SUBSET S |-> g[s]] /\ Up(g, n)}
<1>1. \A s \in SUBSET S : IsFiniteSet(s) /\ Cardinality(s) \in Nat
    BY FS_Subset, FS_CardinalityType
<1>2. \A s \in SUBSET S : s # {} => /\ s \ {Some(s)} \in SUBSET S
                                  /\ Cardinality(s \ {Some(s)}) = Cardinality(s) - 1
    BY <1>1, SomeIsElement, FS_RemoveElement
<1>3. ASSUME Bad # {} PROVE FALSE
    <2>1. PICK n \in Bad : \A m \in Bad : n <= m
        <3> HIDE DEF Bad
        <3>1. Bad \in SUBSET Nat
            BY DEF Bad
        <3> QED
            BY <1>3, <3>1, LeastNumber
    <2>2. CASE n = 0
        <3> DEFINE g == [s \in SUBSET S |-> 0]
        <3>1. \A s \in SUBSET S : Cardinality(s) <= 0 => s = {}
            BY <1>1, FS_EmptySet
        <3>2. Up(g, 0)
            BY <3>1 DEF SumOf
        <3>3. g = [s \in SUBSET S |-> g[s]]
            OBVIOUS
        <3> HIDE DEF g
        <3> QED
            BY <2>1, <2>2, <3>2, <3>3
    <2>3. CASE n # 0
        <3>1. n - 1 \in Nat /\ n - 1 \notin Bad
            <4>1. n \in Nat
                BY <2>1
            <4> HIDE DEF Bad
            <4> QED
                BY <2>1, <2>3, <4>1
        <3>2. PICK g : Up(g, n - 1)
            BY <3>1
        <3> DEFINE h == [s \in SUBSET S |-> IF Cardinality(s) <= n - 1
                     THEN g[s] ELSE SumOf(g, f, s)]
        <3>3. ASSUME NEW s \in SUBSET S, Cardinality(s) <= n PROVE h[s] = SumOf(h, f, s)
            <4>1. h[s] = SumOf(g, f, s)
                BY <3>2
            <4>2. CASE s = {}
                BY <4>1, <4>2 DEF SumOf
            <4>3. CASE s # {}
                <5>1. h[s \ {Some(s)}] = g[s \ {Some(s)}]
                    BY <1>1, <1>2, <3>3, <4>3, <2>1
                <5> QED
                    BY <4>1, <4>3, <5>1 DEF SumOf
            <4> QED
                BY <4>2, <4>3
        <3>4. Up(h, n)
            BY <3>3
        <3>5. h = [s \in SUBSET S |-> h[s]]
            OBVIOUS
        <3> HIDE DEF h
        <3> QED
            BY <2>1, <3>4, <3>5
    <2> QED
        BY <2>2, <2>3
<1>4. Cardinality(S) \in Nat /\ Cardinality(S) \notin Bad
    BY <1>1, <1>3
<1>5. PICK g : g = [s \in SUBSET S |-> g[s]] /\ Up(g, Cardinality(S))
    BY <1>4
<1>6. \A s \in SUBSET S : Cardinality(s) <= Cardinality(S)
    BY FS_Subset
<1>7. Solves(g, f, S)
    BY <1>5, <1>6 DEF Solves
<1> QED
    BY <1>7

\* Two solutions agree where both are one.
LEMMA SolutionsAgree ==
    ASSUME NEW S, IsFiniteSet(S), NEW T, S \subseteq T,
           NEW f, NEW h, \A x \in S : f[x] = h[x],
           NEW g, Solves(g, f, S), NEW k, Solves(k, h, T)
    PROVE  g[S] = k[S]
<1> DEFINE Bad == {s \in SUBSET S : g[s] # k[s]}
<1>1. ASSUME Bad # {} PROVE FALSE
    <2>1. PICK s \in Bad : \A r \in Bad : r \subseteq s => r = s
        <3> HIDE DEF Bad
        <3>1. Bad \in SUBSET (SUBSET S)
            BY DEF Bad
        <3> QED
            BY <1>1, <3>1, SmallestSubset
    <2>2. g[s] = SumOf(g, f, s) /\ k[s] = SumOf(k, h, s)
        BY <2>1 DEF Solves
    <2>3. s # {}
        BY <2>1, <2>2 DEF SumOf
    <2>4. Some(s) \in s
        BY <2>3, SomeIsElement
    <2>5. s \ {Some(s)} \in SUBSET S /\ s \ {Some(s)} \notin Bad
        BY <2>1, <2>4
    <2> QED
        BY <2>1, <2>2, <2>4, <2>5 DEF SumOf
<1> QED
    BY <1>1

\* A solution is a sum: an integer, and any element can be taken from it first.
LEMMA SolutionTakes ==
    ASSUME NEW S, IsFiniteSet(S), NEW f, \A x \in S : f[x] \in Int, NEW g, Solves(g, f, S)
    PROVE  /\ g[S] \in Int
           /\ \A x \in S : g[S \ {x}] \in Int /\ g[S] = f[x] + g[S \ {x}]
<1> DEFINE Takes(s) == \A x \in s : g[s] = f[x] + g[s \ {x}]
           NoInts == {s \in SUBSET S : g[s] \notin Int}
           Bad == {s \in SUBSET S : ~ Takes(s)}
<1>1. \A s \in SUBSET S : g[s] = SumOf(g, f, s)
    BY DEF Solves
<1>2. ASSUME NoInts # {} PROVE FALSE
    <2>1. PICK s \in NoInts : \A r \in NoInts : r \subseteq s => r = s
        <3> HIDE DEF NoInts
        <3>1. NoInts \in SUBSET (SUBSET S)
            BY DEF NoInts
        <3> QED
            BY <1>2, <3>1, SmallestSubset
    <2>2. s # {}
        <3>1. g[{}] = 0
            BY <1>1 DEF SumOf
        <3>2. g[s] \notin Int
            BY <2>1
        <3>3. 0 \in Int
            OBVIOUS
        <3> HIDE DEF NoInts, Takes, Bad
        <3> QED
            BY <3>1, <3>2, <3>3, Zenon
    <2>3. Some(s) \in s
        BY <2>2, SomeIsElement
    <2>4. s \ {Some(s)} \in SUBSET S /\ s \ {Some(s)} \notin NoInts
        BY <2>1, <2>3
    <2>5. g[s] = f[Some(s)] + g[s \ {Some(s)}]
        BY <1>1, <2>1, <2>2 DEF SumOf
    <2>6. f[Some(s)] \in Int /\ g[s \ {Some(s)}] \in Int
        BY <2>1, <2>3, <2>4
    <2>7. g[s] \notin Int
        BY <2>1
    <2> HIDE DEF NoInts, Takes, Bad
    <2> QED
        BY <2>5, <2>6, <2>7
<1>3. \A s \in SUBSET S : g[s] \in Int
    BY <1>2
<1>4. ASSUME Bad # {} PROVE FALSE
    <2>1. PICK s \in Bad : \A r \in Bad : r \subseteq s => r = s
        <3> HIDE DEF Bad
        <3>1. Bad \in SUBSET (SUBSET S)
            BY DEF Bad
        <3> QED
            BY <1>4, <3>1, SmallestSubset
    <2>2. PICK x \in s : g[s] # f[x] + g[s \ {x}]
        BY <2>1
    <2> DEFINE c == Some(s)
    <2>3. c \in s
        BY <2>2, SomeIsElement
    <2>4. g[s] = f[c] + g[s \ {c}]
        BY <1>1, <2>1, <2>2 DEF SumOf
    <2>5. c # x
        BY <2>2, <2>4
    <2> HIDE DEF c
    <2>6. Takes(s \ {c}) /\ Takes(s \ {x})
        BY <2>1, <2>2, <2>3
    <2>7. g[s \ {c}] = f[x] + g[(s \ {c}) \ {x}]
        BY <2>2, <2>5, <2>6
    <2>8. g[s \ {x}] = f[c] + g[(s \ {x}) \ {c}]
        BY <2>3, <2>5, <2>6
    <2>9. (s \ {x}) \ {c} = (s \ {c}) \ {x}
        OBVIOUS
    <2>10. f[x] \in Int /\ f[c] \in Int /\ g[(s \ {x}) \ {c}] \in Int
        BY <1>3, <2>1, <2>2, <2>3
    <2>11. g[s] = f[x] + g[s \ {x}]
        <3> HIDE DEF NoInts, Takes, Bad
        <3>1. g[s] = f[c] + (f[x] + g[(s \ {x}) \ {c}])
            BY <2>4, <2>7, <2>9
        <3> QED
            BY <2>8, <2>10, <3>1
    <2> QED
        BY <2>2, <2>11
<1>5. Takes(S)
    BY <1>4
<1> QED
    BY <1>3, <1>5

LEMMA SumIsSolution ==
    ASSUME NEW f, NEW S, IsFiniteSet(S)
    PROVE  \E g : Solves(g, f, S) /\ SumFunctionOnSet(f, S) = g[S]
<1>1. SumFunctionOnSet(f, S) = (CHOOSE g : Solves(g, f, S))[S]
    BY DEF SumFunctionOnSet, FoldFunctionOnSet, MapThenFoldSet, Solves, SumOf, Some
<1> QED
    BY <1>1, SolutionExists

-----------------------------------------------------------------------------
(* What a proof needs to know of a sum *)

LEMMA SumEmpty ==
    ASSUME NEW f
    PROVE  SumFunctionOnSet(f, {}) = 0
<1>1. PICK g : Solves(g, f, {}) /\ SumFunctionOnSet(f, {}) = g[{}]
    BY SumIsSolution, FS_EmptySet
<1> QED
    BY <1>1 DEF Solves, SumOf

\* Only the values on the set matter.
LEMMA SumSame ==
    ASSUME NEW S, IsFiniteSet(S), NEW f, NEW h, \A x \in S : f[x] = h[x]
    PROVE  SumFunctionOnSet(f, S) = SumFunctionOnSet(h, S)
<1>1. PICK g : Solves(g, f, S) /\ SumFunctionOnSet(f, S) = g[S]
    BY SumIsSolution
<1>2. PICK k : Solves(k, h, S) /\ SumFunctionOnSet(h, S) = k[S]
    BY SumIsSolution
<1> QED
    BY <1>1, <1>2, SolutionsAgree

LEMMA SumTakes ==
    ASSUME NEW S, IsFiniteSet(S), NEW f, \A x \in S : f[x] \in Int
    PROVE  /\ SumFunctionOnSet(f, S) \in Int
           /\ \A x \in S : /\ SumFunctionOnSet(f, S \ {x}) \in Int
                         /\ SumFunctionOnSet(f, S) = f[x] + SumFunctionOnSet(f, S \ {x})
<1>1. PICK g : Solves(g, f, S) /\ SumFunctionOnSet(f, S) = g[S]
    BY SumIsSolution
<1>2. /\ g[S] \in Int
      /\ \A x \in S : g[S \ {x}] \in Int /\ g[S] = f[x] + g[S \ {x}]
    BY <1>1, SolutionTakes
<1>3. ASSUME NEW x \in S PROVE SumFunctionOnSet(f, S \ {x}) = g[S \ {x}]
    <2>1. IsFiniteSet(S \ {x})
        BY FS_RemoveElement
    <2>2. PICK k : Solves(k, f, S \ {x}) /\ SumFunctionOnSet(f, S \ {x}) = k[S \ {x}]
        BY <2>1, SumIsSolution
    <2> QED
        BY <1>1, <2>1, <2>2, SolutionsAgree
<1> QED
    BY <1>1, <1>2, <1>3

-----------------------------------------------------------------------------
(* The same for all of a function *)

\* The sum of integers is an integer.
LEMMA SumIsInt ==
    ASSUME NEW S, IsFiniteSet(S), NEW f \in [S -> Int]
    PROVE  SumFunction(f) \in Int
BY SumTakes DEF SumFunction

\* Two functions that differ at one place have sums that differ as much.
LEMMA SumUpdate ==
    ASSUME NEW S, IsFiniteSet(S), NEW f \in [S -> Int], NEW h \in [S -> Int],
           NEW x \in S, \A y \in S : y # x => h[y] = f[y]
    PROVE  /\ SumFunction(f) \in Int /\ SumFunction(h) \in Int
           /\ SumFunction(h) = SumFunction(f) + (h[x] - f[x])
<1> DEFINE F == SumFunctionOnSet(f, S \ {x})
           H == SumFunctionOnSet(h, S \ {x})
<1>1. F \in Int /\ SumFunction(f) = f[x] + F
    BY SumTakes DEF SumFunction
<1>2. H \in Int /\ SumFunction(h) = h[x] + H
    BY SumTakes DEF SumFunction
<1>3. F = H
    <2>1. IsFiniteSet(S \ {x})
        BY FS_RemoveElement
    <2> QED
        BY <2>1, SumSame
<1>4. f[x] \in Int /\ h[x] \in Int
    OBVIOUS
<1> HIDE DEF F, H
<1> QED
    BY <1>1, <1>2, <1>3, <1>4

\* Nothing, as often as there are elements, is nothing.
LEMMA SumOfZeros ==
    ASSUME NEW S, IsFiniteSet(S)
    PROVE  SumFunction([x \in S |-> 0]) = 0
<1> DEFINE f == [x \in S |-> 0]
           Bad == {s \in SUBSET S : SumFunctionOnSet(f, s) # 0}
<1>1. ASSUME Bad # {} PROVE FALSE
    <2>1. Bad \in SUBSET (SUBSET S)
        OBVIOUS
    <2>2. PICK s \in Bad : \A r \in Bad : r \subseteq s => r = s
        <3> HIDE DEF Bad
        <3> QED
            BY <1>1, <2>1, SmallestSubset
    <2>3. s # {}
        BY <2>2, SumEmpty
    <2>4. PICK x \in s : TRUE
        BY <2>3
    <2>5. s \in SUBSET S /\ IsFiniteSet(s) /\ SumFunctionOnSet(f, s) # 0
        BY <2>2, FS_Subset
    <2>6. \A y \in s : f[y] \in Int
        BY <2>5
    <2>7. f[x] = 0
        BY <2>5
    <2> HIDE DEF f
    <2>8. SumFunctionOnSet(f, s) = f[x] + SumFunctionOnSet(f, s \ {x})
          /\ SumFunctionOnSet(f, s \ {x}) \in Int
        BY <2>5, <2>6, SumTakes
    <2>9. SumFunctionOnSet(f, s \ {x}) = 0
        BY <2>2, <2>4, <2>5
    <2> QED
        BY <2>5, <2>7, <2>8, <2>9
<1>2. SumFunctionOnSet(f, S) = 0
    BY <1>1
<1> QED
    BY <1>2 DEF SumFunction

\* If every x of S has at most what a y of its own has in T, or nothing, and no
\* y has less than nothing, the sum over S is at most the sum over T.
LEMMA SumsCompare ==
    ASSUME NEW S, IsFiniteSet(S), NEW f \in [S -> Int],
           NEW T, IsFiniteSet(T), NEW h \in [T -> Nat], NEW m,
           \A x \in S : f[x] <= 0 \/ (m[x] \in T /\ f[x] <= h[m[x]]),
           \A x, y \in S : m[x] = m[y] /\ m[x] \in T => x = y
    PROVE  SumFunction(f) <= SumFunction(h)
<1> DEFINE F(s) == SumFunctionOnSet(f, s)
           H(r) == SumFunctionOnSet(h, r)
           Image(s) == {y \in T : \E x \in s : m[x] = y}
           Bad == {s \in SUBSET S : \E r \in SUBSET T : Image(s) \subseteq r /\ ~(F(s) <= H(r))}
<1>a. \A s \in SUBSET S : IsFiniteSet(s) /\ F(s) \in Int
    <2> TAKE s \in SUBSET S
    <2>1. IsFiniteSet(s) /\ \A x \in s : f[x] \in Int
        BY FS_Subset
    <2> QED
        BY <2>1, SumTakes
<1>b. \A r \in SUBSET T : IsFiniteSet(r) /\ H(r) \in Int
    <2> TAKE r \in SUBSET T
    <2>1. IsFiniteSet(r) /\ \A x \in r : h[x] \in Int
        BY FS_Subset
    <2> QED
        BY <2>1, SumTakes
<1>c. \A s \in SUBSET S : \A x \in s : F(s) = f[x] + F(s \ {x})
    <2> TAKE s \in SUBSET S
    <2>1. \A x \in s : f[x] \in Int
        OBVIOUS
    <2> QED
        BY <1>a, <2>1, SumTakes
<1>d. \A r \in SUBSET T : \A x \in r : H(r) = h[x] + H(r \ {x})
    <2> TAKE r \in SUBSET T
    <2>1. \A x \in r : h[x] \in Int
        OBVIOUS
    <2> QED
        BY <1>b, <2>1, SumTakes
<1>e. F({}) = 0 /\ H({}) = 0
    BY SumEmpty
<1> HIDE DEF F, H
<1>1. \A r \in SUBSET T : 0 <= H(r)
    <2> DEFINE Less == {r \in SUBSET T : ~(0 <= H(r))}
    <2>1. ASSUME Less # {} PROVE FALSE
        <3>1. PICK r \in Less : \A s \in Less : s \subseteq r => s = r
            <4>1. Less \in SUBSET (SUBSET T)
                OBVIOUS
            <4> HIDE DEF Less
            <4> QED
                BY <2>1, <4>1, SmallestSubset
        <3>2. r # {}
            <4>1. ~(0 <= H(r))
                BY <3>1
            <4> HIDE DEF Less, Image, Bad
            <4> QED
                BY <1>e, <4>1
        <3>3. PICK x \in r : TRUE
            BY <3>2
        <3>4. h[x] \in Nat /\ r \ {x} \in SUBSET T /\ r \ {x} \notin Less
            BY <3>1
        <3>5. 0 <= H(r \ {x}) /\ H(r \ {x}) \in Int /\ H(r) = h[x] + H(r \ {x})
            BY <1>b, <1>d, <3>1, <3>4
        <3>6. ~(0 <= H(r))
            BY <3>1
        <3> HIDE DEF Less
        <3> QED
            BY <3>4, <3>5, <3>6
    <2> QED
        BY <2>1
<1>2. ASSUME Bad # {} PROVE FALSE
    <2>1. PICK s \in Bad : \A q \in Bad : q \subseteq s => q = s
        <3>1. Bad \in SUBSET (SUBSET S)
            OBVIOUS
        <3> HIDE DEF Bad
        <3> QED
            BY <1>2, <3>1, SmallestSubset
    <2>2. PICK r \in SUBSET T : Image(s) \subseteq r /\ ~(F(s) <= H(r))
        BY <2>1
    <2>3. s # {}
        BY <1>1, <1>e, <2>2
    <2>4. PICK x \in s : TRUE
        BY <2>3
    <2>5. x \in S /\ s \ {x} \in SUBSET S /\ s \ {x} \notin Bad
        BY <2>1
    <2>6. /\ F(s) = f[x] + F(s \ {x}) /\ F(s \ {x}) \in Int /\ F(s) \in Int
          /\ f[x] \in Int /\ H(r) \in Int
        BY <1>a, <1>b, <1>c, <2>1, <2>5
    <2>7. \A q \in SUBSET T : Image(s \ {x}) \subseteq q => F(s \ {x}) <= H(q)
        BY <2>5
    <2>8. CASE f[x] <= 0
        <3>1. F(s \ {x}) <= H(r)
            BY <2>2, <2>7
        <3> HIDE DEF Image, Bad
        <3> QED
            BY <2>2, <2>6, <2>8, <3>1
    <2>9. CASE m[x] \in T /\ f[x] <= h[m[x]]
        <3> DEFINE y == m[x]
        <3>1. y \in r /\ h[y] \in Nat
            BY <2>2, <2>9
        <3>2. Image(s \ {x}) \subseteq r \ {y}
            BY <2>1, <2>2, <2>5, <2>9
        <3>3. r \ {y} \in SUBSET T
            OBVIOUS
        <3>4. F(s \ {x}) <= H(r \ {y})
            BY <2>7, <3>2, <3>3
        <3>5. H(r) = h[y] + H(r \ {y}) /\ H(r \ {y}) \in Int
            BY <1>b, <1>d, <3>1, <3>3
        <3> HIDE DEF Image, Bad, y
        <3>6. f[x] <= h[y]
            BY <2>9 DEF y
        <3> QED
            BY <2>2, <2>6, <3>1, <3>4, <3>5, <3>6
    <2> QED
        BY <2>5, <2>8, <2>9
<1>3. S \notin Bad
    BY <1>2
<1>4. Image(S) \subseteq T
    OBVIOUS
<1>5. F(S) <= H(T)
    BY <1>3, <1>4
<1> QED
    BY <1>5 DEF F, H, SumFunction

-----------------------------------------------------------------------------
(* Sums of natural numbers *)

LEMMA SumOfNaturals ==
    ASSUME NEW S, IsFiniteSet(S), NEW f \in [S -> Nat]
    PROVE  SumFunction(f) \in Nat /\ \A x \in S : f[x] <= SumFunction(f)
<1> DEFINE Z == [x \in S |-> 0]
<1>1. \A h \in [S -> Nat] : SumFunction(h) \in Nat
    <2> SUFFICES ASSUME NEW h \in [S -> Nat] PROVE SumFunction(h) \in Nat
        OBVIOUS
    <2> DEFINE m == [x \in S |-> x]
    <2>1. Z \in [S -> Int] /\ \A x \in S : Z[x] <= 0
        OBVIOUS
    <2>2. SumFunction(Z) = 0
        BY SumOfZeros
    <2>3. \A x, y \in S : m[x] = m[y] /\ m[x] \in S => x = y
        OBVIOUS
    <2> HIDE DEF Z, m
    <2>4. SumFunction(Z) <= SumFunction(h)
        BY <2>1, <2>3, SumsCompare
    <2>5. SumFunction(h) \in Int
        BY SumIsInt
    <2> QED
        BY <2>2, <2>4, <2>5
<1>2. ASSUME NEW x \in S PROVE f[x] <= SumFunction(f)
    <2> DEFINE h == [f EXCEPT ![x] = 0]
    <2>1. h \in [S -> Nat] /\ h \in [S -> Int] /\ f \in [S -> Int] /\ h[x] = 0
          /\ \A y \in S : y # x => h[y] = f[y]
        OBVIOUS
    <2> HIDE DEF h
    <2>2. SumFunction(f) \in Int /\ SumFunction(h) = SumFunction(f) + (h[x] - f[x])
        BY <2>1, SumUpdate
    <2>3. SumFunction(h) \in Nat
        BY <2>1, <1>1
    <2> QED
        BY <2>1, <2>2, <2>3
<1> QED
    BY <1>1, <1>2

LEMMA SumOnNaturals ==
    ASSUME NEW S, IsFiniteSet(S), NEW f, \A x \in S : f[x] \in Nat
    PROVE  SumFunctionOnSet(f, S) \in Nat
<1> DEFINE h == [x \in S |-> f[x]]
<1>1. h \in [S -> Nat] /\ DOMAIN h = S /\ \A x \in S : f[x] = h[x]
    OBVIOUS
<1> HIDE DEF h
<1>2. SumFunctionOnSet(f, S) = SumFunctionOnSet(h, S)
    BY <1>1, SumSame
<1>3. SumFunction(h) \in Nat
    BY <1>1, SumOfNaturals
<1> QED
    BY <1>1, <1>2, <1>3 DEF SumFunction

LEMMA SumWith ==
    ASSUME NEW S, IsFiniteSet(S), NEW f, NEW b, \A x \in S \cup {b} : f[x] \in Nat
    PROVE  /\ SumFunctionOnSet(f, S) \in Nat /\ SumFunctionOnSet(f, S \cup {b}) \in Nat
           /\ SumFunctionOnSet(f, S \cup {b}) <= SumFunctionOnSet(f, S) + f[b]
<1>0. f[b] \in Nat
    OBVIOUS
<1>1. IsFiniteSet(S \cup {b})
    BY FS_AddElement
<1>2. SumFunctionOnSet(f, S) \in Nat /\ SumFunctionOnSet(f, S \cup {b}) \in Nat
    BY <1>1, SumOnNaturals
<1>3. CASE b \in S
    <2>1. S \cup {b} = S
        BY <1>3
    <2> QED
        BY <2>1, <1>0, <1>2
<1>4. CASE b \notin S
    <2>1. (S \cup {b}) \ {b} = S
        BY <1>4
    <2>2. SumFunctionOnSet(f, S \cup {b}) = f[b] + SumFunctionOnSet(f, (S \cup {b}) \ {b})
        BY <1>1, SumTakes
    <2>3. SumFunctionOnSet(f, S \cup {b}) = f[b] + SumFunctionOnSet(f, S)
        BY <2>1, <2>2, Zenon
    <2> QED
        BY <2>3, <1>0, <1>2
<1> QED
    BY <1>3, <1>4

\* A sum without what is zero.
LEMMA SumWithoutZeros ==
    ASSUME NEW B, IsFiniteSet(B), NEW f, \A x \in B : f[x] \in Nat,
           NEW A \in SUBSET B, \A x \in B \ A : f[x] = 0
    PROVE  SumFunctionOnSet(f, A) = SumFunctionOnSet(f, B)
<1> DEFINE g == [x \in A |-> f[x]]  h == [x \in B |-> f[x]]  m == [x \in B |-> x]
<1>1. IsFiniteSet(A)
    BY FS_Subset
<1>2. /\ g \in [A -> Nat] /\ g \in [A -> Int] /\ DOMAIN g = A /\ \A x \in A : f[x] = g[x]
      /\ h \in [B -> Nat] /\ h \in [B -> Int] /\ DOMAIN h = B /\ \A x \in B : f[x] = h[x]
    OBVIOUS
<1>3. /\ \A x \in A : g[x] <= 0 \/ (m[x] \in B /\ g[x] <= h[m[x]])
      /\ \A x, y \in A : m[x] = m[y] /\ m[x] \in B => x = y
      /\ \A x \in B : h[x] <= 0 \/ (m[x] \in A /\ h[x] <= g[m[x]])
      /\ \A x, y \in B : m[x] = m[y] /\ m[x] \in A => x = y
    OBVIOUS
<1> HIDE DEF g, h, m
<1>4. SumFunction(g) <= SumFunction(h) /\ SumFunction(h) <= SumFunction(g)
    BY <1>1, <1>2, <1>3, SumsCompare
<1>5. SumFunction(g) \in Nat /\ SumFunction(h) \in Nat
    BY <1>1, <1>2, SumOfNaturals
<1>6. SumFunctionOnSet(f, A) = SumFunctionOnSet(g, A) /\ SumFunctionOnSet(f, B) = SumFunctionOnSet(h, B)
    BY <1>1, <1>2, SumSame
<1> QED
    BY <1>2, <1>4, <1>5, <1>6 DEF SumFunction
=============================================================================
