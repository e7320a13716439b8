----------------------------- MODULE FiniteSums -----------------------------
(***************************************************************************)
(* Facts about SumFunctionOnSet and SumFunction of the module Functions,   *)
(* for sums over any finite set.  SumFunctionOnSet is a fold, a recursive  *)
(* function that is chosen for every set it is applied to.  The lemmas go  *)
(* by minimal counterexamples: of the subsets of a finite set for which a  *)
(* fact fails one is minimal, and the fact holds for the set without one   *)
(* of its elements.                                                        *)
(***************************************************************************)
EXTENDS Integers, FiniteSets, Functions, FiniteSetTheorems, TLAPS

\* The library's induction theorems take a predicate; minimal counterexamples
\* need only a set of subsets.  Every such set has a minimal element.
LEMMA MinimalSubset ==
  ASSUME NEW S, IsFiniteSet(S), NEW T \in SUBSET (SUBSET S), T # {}
  PROVE  \E u \in T : \A v \in T : v \subseteq u => v = u
<1>1. IsWellFoundedOn(StrictSubsetOrdering(S), SUBSET S)
  BY FS_StrictSubsetOrderingWellFounded, FS_FiniteSubsetsOfFinite
<1>2. \E u \in T : \A v \in T : ~ (<<v, u>> \in StrictSubsetOrdering(S))
  BY <1>1, WFMin
<1> QED BY <1>2 DEF StrictSubsetOrdering

\* The function by which SumFunctionOnSet adds up.
Pick(s) == CHOOSE x \in s : TRUE
IsSum(f, S, g) == g = [s \in SUBSET S |-> IF s = {} THEN 0 ELSE f[Pick(s)] + g[s \ {Pick(s)}]]

\* An element is picked from every set that has one.
LEMMA PickIn == ASSUME NEW s, s # {} PROVE Pick(s) \in s
  BY DEF Pick

\* What such a function satisfies.
LEMMA SumEquation ==
  ASSUME NEW f, NEW S, NEW g, IsSum(f, S, g), NEW s \in SUBSET S
  PROVE  g[s] = IF s = {} THEN 0 ELSE f[Pick(s)] + g[s \ {Pick(s)}]
  BY Zenon DEF IsSum

\* Two such functions agree where both are defined.
LEMMA SumUnique ==
  ASSUME NEW f, NEW S, NEW T, IsFiniteSet(S), NEW g, NEW h, IsSum(f, S, g), IsSum(f, T, h),
         NEW s \in SUBSET S, s \in SUBSET T
  PROVE  g[s] = h[s]
<1> DEFINE Bad == {u \in SUBSET s : g[u] # h[u]}
<1> SUFFICES ASSUME Bad # {} PROVE FALSE
  OBVIOUS
<1>1. IsFiniteSet(s)
  BY FS_Subset
<1>2. PICK u \in Bad : \A v \in Bad : v \subseteq u => v = u
  <2>1. Bad \in SUBSET (SUBSET s)
    OBVIOUS
  <2> HIDE DEF Bad
  <2> QED BY <1>1, <2>1, MinimalSubset
<1>3. u \in SUBSET S /\ u \in SUBSET T /\ g[u] # h[u]
  OBVIOUS
<1>4. u # {}
  BY <1>3, SumEquation
<1>5. Pick(u) \in u /\ u \ {Pick(u)} \in SUBSET s /\ u \ {Pick(u)} # u
  BY <1>4, PickIn
<1>6. g[u \ {Pick(u)}] = h[u \ {Pick(u)}]
  BY <1>2, <1>5
<1>7. g[u] = f[Pick(u)] + g[u \ {Pick(u)}] /\ h[u] = f[Pick(u)] + h[u \ {Pick(u)}]
  BY <1>3, <1>4, SumEquation
<1> QED BY <1>3, <1>6, <1>7

\* There is such a function for every finite set.
LEMMA SumExists ==
  ASSUME NEW f, NEW S, IsFiniteSet(S)
  PROVE  \E g : IsSum(f, S, g)
<1> DEFINE Bad == {u \in SUBSET S : ~ \E g : IsSum(f, u, g)}
<1> SUFFICES ASSUME Bad # {} PROVE FALSE
  OBVIOUS
<1>1. PICK u \in Bad : \A v \in Bad : v \subseteq u => v = u
  <2>1. Bad \in SUBSET (SUBSET S)
    OBVIOUS
  <2> HIDE DEF Bad
  <2> QED BY <2>1, MinimalSubset
<1> DEFINE H(v) == CHOOSE h : IsSum(f, v, h)
<1>2. ASSUME NEW v \in SUBSET u, v # u PROVE IsSum(f, v, H(v))
  <2>1. \E h : IsSum(f, v, h)
    BY <1>1, <1>2
  <2> QED BY <2>1, Zenon
<1> DEFINE g == [s \in SUBSET u |-> IF s = {} THEN 0 ELSE f[Pick(s)] + H(s \ {Pick(s)})[s \ {Pick(s)}]]
<1> HIDE DEF H
<1>3. ASSUME NEW v \in SUBSET u, v # u PROVE g[v] = H(v)[v]
  <2>1. H(v)[v] = IF v = {} THEN 0 ELSE f[Pick(v)] + H(v)[v \ {Pick(v)}]
    BY <1>2, <1>3, SumEquation
  <2>2. ASSUME v # {} PROVE H(v)[v \ {Pick(v)}] = H(v \ {Pick(v)})[v \ {Pick(v)}]
    <3> DEFINE w == v \ {Pick(v)}
    <3>1. Pick(v) \in v /\ w \in SUBSET u /\ w # u /\ w \in SUBSET v /\ w \in SUBSET w
      BY <2>2, PickIn
    <3>2. IsFiniteSet(v)
      BY FS_Subset
    <3>3. IsSum(f, v, H(v)) /\ IsSum(f, w, H(w))
      BY <1>2, <1>3, <3>1
    <3> HIDE DEF w
    <3>4. H(v)[w] = H(w)[w]
      BY <3>1, <3>2, <3>3, SumUnique
    <3> QED BY <3>4 DEF w
  <2>3. g[v] = IF v = {} THEN 0 ELSE f[Pick(v)] + H(v \ {Pick(v)})[v \ {Pick(v)}]
    OBVIOUS
  <2> QED BY <2>1, <2>2, <2>3
<1>4. ASSUME NEW s \in SUBSET u, s # {}
      PROVE  H(s \ {Pick(s)})[s \ {Pick(s)}] = g[s \ {Pick(s)}]
  <2>1. Pick(s) \in s
    BY <1>4, PickIn
  <2>2. s \ {Pick(s)} \in SUBSET u /\ s \ {Pick(s)} # u
    BY <2>1
  <2> QED BY <1>3, <2>2
<1>5. IsSum(f, u, g)
  <2>1. g = [s \in SUBSET u |-> IF s = {} THEN 0 ELSE f[Pick(s)] + g[s \ {Pick(s)}]]
    BY <1>4
  <2> HIDE DEF g
  <2> QED BY <2>1 DEF IsSum
<1> QED BY <1>1, <1>5, Zenon

\* SumFunctionOnSet is the value of that function at the whole set.
LEMMA SumIs ==
  ASSUME NEW f, NEW S, IsFiniteSet(S), NEW T \in SUBSET S
  PROVE  \E g : IsSum(f, S, g) /\ SumFunctionOnSet(f, T) = g[T]
<1> DEFINE H(s) == CHOOSE g : IsSum(f, s, g)
<1>1. IsFiniteSet(T)
  BY FS_Subset
<1>2. SumFunctionOnSet(f, T) = H(T)[T]
  BY Zenon DEF SumFunctionOnSet, FoldFunctionOnSet, MapThenFoldSet, IsSum, Pick
<1>3. IsSum(f, T, H(T)) /\ IsSum(f, S, H(S))
  <2>1. (\E g : IsSum(f, T, g)) /\ (\E g : IsSum(f, S, g))
    BY <1>1, SumExists
  <2> QED BY <2>1, Zenon
<1> HIDE DEF H
<1>4. H(T)[T] = H(S)[T]
  <2> DEFINE g == H(T)
  <2> DEFINE h == H(S)
  <2>1. IsSum(f, T, g) /\ IsSum(f, S, h) /\ T \in SUBSET T
    BY <1>3
  <2> HIDE DEF g, h
  <2>2. g[T] = h[T]
    BY <1>1, <2>1, SumUnique
  <2> QED BY <2>2 DEF g, h
<1> QED BY <1>2, <1>3, <1>4

\* The empty sum, and the element that is added first.
LEMMA SumFirst ==
  ASSUME NEW f, NEW S, IsFiniteSet(S)
  PROVE  SumFunctionOnSet(f, S) =
           IF S = {} THEN 0 ELSE f[Pick(S)] + SumFunctionOnSet(f, S \ {Pick(S)})
<1>1. PICK g : IsSum(f, S, g) /\ SumFunctionOnSet(f, S) = g[S]
  BY SumIs
<1> DEFINE T == S \ {Pick(S)}
<1>2. PICK h : IsSum(f, S, h) /\ SumFunctionOnSet(f, T) = h[T]
  <2>1. T \in SUBSET S
    OBVIOUS
  <2> HIDE DEF T
  <2> QED BY <2>1, SumIs
<1>3. g[T] = h[T]
  BY <1>1, <1>2, SumUnique
<1>4. g[S] = IF S = {} THEN 0 ELSE f[Pick(S)] + g[T]
  <2>1. S \in SUBSET S
    OBVIOUS
  <2>2. \A s \in SUBSET S : g[s] = IF s = {} THEN 0 ELSE f[Pick(s)] + g[s \ {Pick(s)}]
    BY <1>1, SumEquation
  <2> QED BY <2>1, <2>2, Zenon
<1> QED BY <1>1, <1>2, <1>3, <1>4

\* Any element may be added first.
LEMMA SumRemove ==
  ASSUME NEW f, NEW S, IsFiniteSet(S), \A x \in S : f[x] \in Int
  PROVE  /\ SumFunctionOnSet(f, S) \in Int
         /\ \A x \in S : SumFunctionOnSet(f, S) = f[x] + SumFunctionOnSet(f, S \ {x})
<1> DEFINE Sum(s) == SumFunctionOnSet(f, s)
<1> DEFINE Good(s) == Sum(s) \in Int /\ \A x \in s : Sum(s) = f[x] + Sum(s \ {x})
<1> DEFINE Bad == {u \in SUBSET S : ~ Good(u)}
<1> SUFFICES ASSUME Bad # {} PROVE FALSE
  OBVIOUS
<1>1. PICK u \in Bad : \A v \in Bad : v \subseteq u => v = u
  <2>1. Bad \in SUBSET (SUBSET S)
    OBVIOUS
  <2> HIDE DEF Bad
  <2> QED BY <2>1, MinimalSubset
<1>2. u \in SUBSET S /\ ~ Good(u) /\ \A v \in SUBSET u : v # u => Good(v)
  BY <1>1
<1>3. \A s \in SUBSET S : Sum(s) = IF s = {} THEN 0 ELSE f[Pick(s)] + Sum(s \ {Pick(s)})
  BY FS_Subset, SumFirst
<1> HIDE DEF Sum, Bad
<1>4. u # {}
  <2>1. Sum({}) = 0
    BY <1>3
  <2>2. Good({})
    BY <2>1
  <2> HIDE DEF Good
  <2> QED BY <1>2, <2>2
<1> DEFINE c == Pick(u)
<1>5. c \in u /\ Good(u \ {c}) /\ f[c] \in Int
  BY <1>2, <1>4, PickIn
<1>6. Sum(u) = f[c] + Sum(u \ {c})
  BY <1>2, <1>3, <1>4
<1>7. Sum(u) \in Int
  BY <1>5, <1>6
<1> HIDE DEF c
<1>8. ASSUME NEW x \in u PROVE Sum(u) = f[x] + Sum(u \ {x})
  <2>1. CASE x = c
    BY <1>6, <2>1
  <2>2. CASE x # c
    <3>1. Good(u \ {x}) /\ f[x] \in Int
      BY <1>2
    <3>2. Sum(u \ {c}) = f[x] + Sum((u \ {c}) \ {x}) /\ Sum(u \ {x}) = f[c] + Sum((u \ {x}) \ {c})
      BY <1>5, <2>2, <3>1
    <3>3. (u \ {c}) \ {x} = (u \ {x}) \ {c}
      OBVIOUS
    <3>4. Good((u \ {c}) \ {x})
      BY <1>2, <1>5
    <3> DEFINE r == Sum((u \ {c}) \ {x})
    <3>5. r \in Int /\ Sum(u \ {c}) = f[x] + r /\ Sum(u \ {x}) = f[c] + r
      BY <3>2, <3>3, <3>4
    <3> HIDE DEF r
    <3> QED BY <1>5, <1>6, <3>1, <3>5
  <2> QED BY <2>1, <2>2
<1> QED BY <1>2, <1>7, <1>8

\* Adding an element.
LEMMA SumAdd ==
  ASSUME NEW f, NEW S, IsFiniteSet(S), NEW x, x \notin S, \A y \in S \cup {x} : f[y] \in Int
  PROVE  SumFunctionOnSet(f, S \cup {x}) = f[x] + SumFunctionOnSet(f, S)
<1>1. IsFiniteSet(S \cup {x})
  BY FS_AddElement
<1>2. (S \cup {x}) \ {x} = S
  OBVIOUS
<1> QED BY <1>1, <1>2, SumRemove

\* Smaller summands give a smaller sum.
LEMMA SumMonotone ==
  ASSUME NEW f, NEW g, NEW S, IsFiniteSet(S),
         \A x \in S : f[x] \in Int /\ g[x] \in Int /\ f[x] <= g[x]
  PROVE  SumFunctionOnSet(f, S) <= SumFunctionOnSet(g, S)
<1> DEFINE F(s) == SumFunctionOnSet(f, s)
<1> DEFINE G(s) == SumFunctionOnSet(g, s)
<1> DEFINE Bad == {u \in SUBSET S : ~ (F(u) <= G(u))}
<1> SUFFICES ASSUME Bad # {} PROVE FALSE
  OBVIOUS
<1>1. PICK u \in Bad : \A v \in Bad : v \subseteq u => v = u
  <2>1. Bad \in SUBSET (SUBSET S)
    OBVIOUS
  <2> HIDE DEF Bad
  <2> QED BY <2>1, MinimalSubset
<1>2. u \in SUBSET S /\ ~ (F(u) <= G(u)) /\ \A v \in SUBSET u : v # u => F(v) <= G(v)
  BY <1>1
<1>3. \A s \in SUBSET S : /\ F(s) = IF s = {} THEN 0 ELSE f[Pick(s)] + F(s \ {Pick(s)})
                          /\ G(s) = IF s = {} THEN 0 ELSE g[Pick(s)] + G(s \ {Pick(s)})
                          /\ F(s) \in Int /\ G(s) \in Int
  BY FS_Subset, SumFirst, SumRemove
<1> HIDE DEF F, G, Bad
<1>4. u # {}
  <2>1. F({}) = 0 /\ G({}) = 0
    BY <1>3
  <2> SUFFICES ASSUME u = {} PROVE FALSE
    OBVIOUS
  <2>2. F(u) = 0 /\ G(u) = 0
    BY <2>1, Zenon
  <2> QED BY <1>2, <2>2
<1> DEFINE c == Pick(u)
<1> DEFINE w == u \ {c}
<1>5. c \in u /\ w \in SUBSET u /\ w # u
  BY <1>4, PickIn
<1>6. F(u) = f[c] + F(w) /\ G(u) = g[c] + G(w)
  BY <1>2, <1>3, <1>4
<1> HIDE DEF c, w
<1>7. F(w) \in Int /\ G(w) \in Int /\ F(w) <= G(w)
  BY <1>2, <1>3, <1>5
<1>8. f[c] \in Int /\ g[c] \in Int /\ f[c] <= g[c]
  BY <1>2, <1>5
<1> QED BY <1>2, <1>6, <1>7, <1>8

\* Only the values on the set matter.
LEMMA SumSame ==
  ASSUME NEW f, NEW g, NEW S, IsFiniteSet(S), \A x \in S : f[x] \in Int /\ f[x] = g[x]
  PROVE  SumFunctionOnSet(f, S) = SumFunctionOnSet(g, S)
<1>1. SumFunctionOnSet(f, S) <= SumFunctionOnSet(g, S) /\ SumFunctionOnSet(g, S) <= SumFunctionOnSet(f, S)
  BY SumMonotone
<1>2. SumFunctionOnSet(f, S) \in Int /\ SumFunctionOnSet(g, S) \in Int
  BY SumRemove
<1> QED BY <1>1, <1>2

\* A sum of bounded numbers is bounded by their count.
LEMMA SumBounded ==
  ASSUME NEW f, NEW S, IsFiniteSet(S), NEW b \in Nat,
         \A x \in S : f[x] \in Int /\ 0 <= f[x] /\ f[x] <= b
  PROVE  0 <= SumFunctionOnSet(f, S) /\ SumFunctionOnSet(f, S) <= b * Cardinality(S)
<1> DEFINE F(s) == SumFunctionOnSet(f, s)
<1> DEFINE Good(s) == 0 <= F(s) /\ F(s) <= b * Cardinality(s)
<1> DEFINE Bad == {u \in SUBSET S : ~ Good(u)}
<1> SUFFICES ASSUME Bad # {} PROVE FALSE
  OBVIOUS
<1>1. PICK u \in Bad : \A v \in Bad : v \subseteq u => v = u
  <2>1. Bad \in SUBSET (SUBSET S)
    OBVIOUS
  <2> HIDE DEF Bad
  <2> QED BY <2>1, MinimalSubset
<1>2. u \in SUBSET S /\ ~ Good(u) /\ \A v \in SUBSET u : v # u => Good(v)
  BY <1>1
<1>3. \A s \in SUBSET S : /\ F(s) = IF s = {} THEN 0 ELSE f[Pick(s)] + F(s \ {Pick(s)})
                          /\ F(s) \in Int /\ IsFiniteSet(s) /\ Cardinality(s) \in Nat
  BY FS_Subset, FS_CardinalityType, SumFirst, SumRemove
<1> HIDE DEF F, Bad
<1>4. u # {}
  <2>1. Cardinality({}) = 0
    BY FS_EmptySet
  <2> QED BY <1>2, <1>3, <2>1
<1> DEFINE c == Pick(u)
<1> DEFINE w == u \ {c}
<1>5. c \in u /\ w \in SUBSET u /\ w # u
  BY <1>4, PickIn
<1>6. F(u) = f[c] + F(w)
  BY <1>2, <1>3, <1>4
<1>7. Cardinality(w) = Cardinality(u) - 1
  BY <1>2, <1>3, <1>5, FS_RemoveElement
<1> HIDE DEF c, w
<1>8. Cardinality(w) \in Nat /\ F(w) \in Int /\ Good(w) /\ Cardinality(u) = Cardinality(w) + 1
  <2>1. Good(w)
    BY <1>2, <1>5
  <2>2. w \in SUBSET S /\ u \in SUBSET S
    BY <1>2, <1>5
  <2>3. Cardinality(w) \in Nat /\ F(w) \in Int /\ Cardinality(u) \in Nat
    BY <1>3, <2>2
  <2> QED BY <1>7, <2>1, <2>3
<1>9. \A n \in Nat : b * (n + 1) = b * n + b
  OBVIOUS
<1>10. f[c] \in Int /\ 0 <= f[c] /\ f[c] <= b
  BY <1>2, <1>5
<1> DEFINE n == Cardinality(w)
<1> DEFINE t == b * n
<1>11. t \in Int /\ b * Cardinality(u) = t + b
  BY <1>8, <1>9
<1>12. F(w) <= t /\ 0 <= F(w)
  BY <1>8
<1> HIDE DEF t
<1>13. 0 <= F(u) /\ F(u) <= b * Cardinality(u)
  BY <1>6, <1>8, <1>10, <1>11, <1>12
<1> QED BY <1>2, <1>13

\* A change of one summand.
LEMMA SumChange ==
  ASSUME NEW S, IsFiniteSet(S), NEW f \in [S -> Int], NEW g \in [S -> Int], NEW x \in S,
         \A y \in S : y # x => f[y] = g[y]
  PROVE  /\ SumFunction(f) \in Int /\ SumFunction(g) \in Int
         /\ SumFunction(g) = SumFunction(f) - f[x] + g[x]
<1>1. SumFunction(f) = SumFunctionOnSet(f, S) /\ SumFunction(g) = SumFunctionOnSet(g, S)
  BY DEF SumFunction
<1> DEFINE T == S \ {x}
<1>2. IsFiniteSet(T) /\ \A y \in T : f[y] \in Int /\ g[y] \in Int /\ f[y] = g[y]
  BY FS_Subset
<1>3. \A y \in S : f[y] \in Int /\ g[y] \in Int
  OBVIOUS
<1>4. /\ SumFunctionOnSet(f, S) \in Int /\ SumFunctionOnSet(f, S) = f[x] + SumFunctionOnSet(f, T)
      /\ SumFunctionOnSet(g, S) \in Int /\ SumFunctionOnSet(g, S) = g[x] + SumFunctionOnSet(g, T)
  BY <1>3, SumRemove
<1> HIDE DEF T
<1>5. SumFunctionOnSet(f, T) = SumFunctionOnSet(g, T) /\ SumFunctionOnSet(f, T) \in Int
  BY <1>2, SumSame, SumRemove
<1> QED BY <1>1, <1>3, <1>4, <1>5
=============================================================================
