----------------------------- MODULE SumLemmas -----------------------------
(***************************************************************************)
(* What SumFunctionOnSet(f, X) is for every finite X: the sum does not     *)
(* depend on the order in which its elements are picked.  The inductions   *)
(* are by the smallest counterexample.                                     *)
(***************************************************************************)
EXTENDS Integers, FiniteSets, Functions, TLAPS, FiniteSetTheorems,
        WellFoundedInduction

(* A set of naturals that is not empty has a smallest element. *)
LEMMA SmallestOf ==
  ASSUME NEW X, X \subseteq Nat, X # {}
  PROVE  \E n \in X : \A m \in X : n <= m
<1>1. PICK x \in X : \A y \in X : ~ (<<y, x>> \in OpToRel(<, Nat))
  BY WFMin, NatLessThanWellFounded, Zenon
<1>2. \A y \in X : ~ (y < x)
  BY <1>1 DEF OpToRel
<1> QED BY <1>2

(* So a set of sizes of finite sets that lacks 0, and any size whose       *)
(* predecessor it lacks, is empty.                                         *)
LEMMA NoSmallest ==
  ASSUME NEW X, X \subseteq Nat, 0 \notin X, \A n \in Nat : n + 1 \in X => \E m \in X : m <= n
  PROVE  X = {}
<1> SUFFICES ASSUME X # {} PROVE FALSE
  OBVIOUS
<1>1. PICK n \in X : \A m \in X : n <= m
  BY SmallestOf
<1>2. n - 1 \in Nat /\ (n - 1) + 1 = n
  BY <1>1
<1>3. PICK m \in X : m <= n - 1
  BY <1>1, <1>2
<1> QED BY <1>1, <1>3

(* The element that a sum takes first, and the function it is computed by. *)
First(s) == CHOOSE x \in s : TRUE
Sums(f, X, g) ==
  g = [s \in SUBSET X |-> IF s = {} THEN 0 ELSE f[First(s)] + g[s \ {First(s)}]]

LEMMA SumIsChosen ==
  ASSUME NEW f, NEW X
  PROVE  SumFunctionOnSet(f, X) = (CHOOSE g : Sums(f, X, g))[X]
BY DEF SumFunctionOnSet, FoldFunctionOnSet, MapThenFoldSet, Sums, First

LEMMA FirstIsElement ==
  ASSUME NEW s, s # {}
  PROVE  First(s) \in s
BY DEF First

(* A set loses one of its number with an element. *)
LEMMA OneLess ==
  ASSUME NEW s, IsFiniteSet(s), NEW x \in s
  PROVE  /\ IsFiniteSet(s \ {x})
         /\ Cardinality(s) \in Nat /\ Cardinality(s) # 0
         /\ Cardinality(s \ {x}) = Cardinality(s) - 1
         /\ Cardinality(s \ {x}) \in Nat
<1>1. IsFiniteSet(s \ {x}) /\ Cardinality(s \ {x}) = Cardinality(s) - 1
  BY FS_RemoveElement
<1>2. Cardinality(s) \in Nat /\ Cardinality(s \ {x}) \in Nat
  BY <1>1, FS_CardinalityType
<1>3. Cardinality(s) # 0
  BY FS_EmptySet
<1> QED BY <1>1, <1>2, <1>3

(* A function computes the sums of the subsets of at most n elements. *)
SumsTo(f, X, n, g) ==
  /\ g = [s \in SUBSET X |-> g[s]]
  /\ \A s \in SUBSET X : Cardinality(s) <= n =>
       g[s] = IF s = {} THEN 0 ELSE f[First(s)] + g[s \ {First(s)}]

LEMMA SumsToAll ==
  ASSUME NEW f, NEW X, IsFiniteSet(X), NEW n \in Nat
  PROVE  \E g : SumsTo(f, X, n, g)
<1> DEFINE bad == {k \in Nat : ~ \E g : SumsTo(f, X, k, g)}
<1>0. ASSUME NEW s \in SUBSET X
      PROVE  IsFiniteSet(s) /\ Cardinality(s) \in Nat
  BY FS_Subset, FS_CardinalityType
<1>1. 0 \notin bad
  <2> DEFINE z == [s \in SUBSET X |-> 0]
  <2>1. \A s \in SUBSET X : Cardinality(s) <= 0 => s = {}
    BY <1>0, FS_EmptySet
  <2>2. SumsTo(f, X, 0, z)
    BY <2>1 DEF SumsTo
  <2> QED BY <2>2
<1>2. ASSUME NEW k \in Nat, k + 1 \in bad
      PROVE  \E m \in bad : m <= k
  <2> SUFFICES ASSUME NEW g, SumsTo(f, X, k, g) PROVE FALSE
    OBVIOUS
  <2> DEFINE Next(s) == IF s = {} THEN 0 ELSE f[First(s)] + g[s \ {First(s)}]
             h == [s \in SUBSET X |-> IF Cardinality(s) <= k THEN g[s] ELSE Next(s)]
  <2>1. ASSUME NEW s \in SUBSET X, Cardinality(s) <= k + 1
        PROVE  h[s] = IF s = {} THEN 0 ELSE f[First(s)] + h[s \ {First(s)}]
    <3>1. h[s] = Next(s)
      BY <2>1 DEF SumsTo
    <3>2. CASE s = {}
      BY <3>1, <3>2
    <3>3. CASE s # {}
      <4>1. First(s) \in s /\ s \ {First(s)} \in SUBSET X
        BY <3>3, FirstIsElement
      <4>2. Cardinality(s \ {First(s)}) <= k
        BY <1>0, <2>1, <4>1, OneLess
      <4>3. h[s \ {First(s)}] = g[s \ {First(s)}]
        BY <4>1, <4>2
      <4> QED BY <3>1, <3>3, <4>3
    <3> QED BY <3>2, <3>3
  <2>2. h = [s \in SUBSET X |-> h[s]]
    OBVIOUS
  <2> HIDE DEF h
  <2>3. SumsTo(f, X, k + 1, h)
    BY <2>1, <2>2 DEF SumsTo
  <2> QED BY <1>2, <2>3
<1>3. bad = {}
  <2> HIDE DEF bad
  <2>1. bad \subseteq Nat
    BY DEF bad
  <2> QED BY <1>1, <1>2, <2>1, NoSmallest
<1> QED BY <1>3

(* The function a sum is computed by exists, so it is what it says. *)
LEMMA SumsExist ==
  ASSUME NEW f, NEW X, IsFiniteSet(X)
  PROVE  Sums(f, X, CHOOSE g : Sums(f, X, g))
<1>1. Cardinality(X) \in Nat /\ \A s \in SUBSET X : Cardinality(s) <= Cardinality(X)
  BY FS_Subset, FS_CardinalityType
<1>2. PICK g : SumsTo(f, X, Cardinality(X), g)
  BY <1>1, SumsToAll
<1>3. Sums(f, X, g)
  BY <1>1, <1>2, Zenon DEF SumsTo, Sums
<1> QED BY <1>3

(* Two such functions agree on the sets that both know. *)
LEMMA SumsAgree ==
  ASSUME NEW f, NEW X, NEW g, Sums(f, X, g), NEW Y, NEW h, Sums(f, Y, h),
         NEW s \in SUBSET (X \cap Y), IsFiniteSet(X)
  PROVE  g[s] = h[s]
<1> DEFINE bad == {k \in Nat : \E t \in SUBSET (X \cap Y) : Cardinality(t) = k /\ g[t] # h[t]}
<1>0. ASSUME NEW t \in SUBSET (X \cap Y)
      PROVE  /\ IsFiniteSet(t) /\ Cardinality(t) \in Nat
             /\ g[t] = IF t = {} THEN 0 ELSE f[First(t)] + g[t \ {First(t)}]
             /\ h[t] = IF t = {} THEN 0 ELSE f[First(t)] + h[t \ {First(t)}]
  <2>1. IsFiniteSet(t) /\ Cardinality(t) \in Nat
    BY FS_Subset, FS_CardinalityType
  <2>2. t \in SUBSET X /\ t \in SUBSET Y
    OBVIOUS
  <2>3. g[t] = IF t = {} THEN 0 ELSE f[First(t)] + g[t \ {First(t)}]
    BY <2>2 DEF Sums
  <2>4. h[t] = IF t = {} THEN 0 ELSE f[First(t)] + h[t \ {First(t)}]
    BY <2>2 DEF Sums
  <2> QED BY <2>1, <2>3, <2>4
<1>1. 0 \notin bad
  <2> SUFFICES ASSUME NEW t \in SUBSET (X \cap Y), Cardinality(t) = 0 PROVE g[t] = h[t]
    OBVIOUS
  <2>1. t = {}
    BY <1>0, FS_EmptySet
  <2> QED BY <1>0, <2>1
<1>2. ASSUME NEW k \in Nat, k + 1 \in bad
      PROVE  \E m \in bad : m <= k
  <2>1. PICK t \in SUBSET (X \cap Y) : Cardinality(t) = k + 1 /\ g[t] # h[t]
    BY <1>2
  <2>2. t # {}
    BY <1>0, <2>1
  <2> DEFINE r == t \ {First(t)}
  <2>3. r \in SUBSET (X \cap Y) /\ Cardinality(r) = k
    <3>1. First(t) \in t /\ r \in SUBSET (X \cap Y)
      BY <2>2, FirstIsElement
    <3>2. Cardinality(r) = Cardinality(t) - 1
      BY <1>0, <3>1, OneLess
    <3> QED BY <2>1, <3>1, <3>2
  <2>4. g[r] # h[r]
    BY <1>0, <2>1, <2>2
  <2> QED BY <2>3, <2>4
<1>3. bad = {}
  <2> HIDE DEF bad
  <2>1. bad \subseteq Nat
    BY DEF bad
  <2> QED BY <1>1, <1>2, <2>1, NoSmallest
<1> QED BY <1>0, <1>3

(* The sum over no element, and over the first and the rest. *)
LEMMA SumUnfolds ==
  ASSUME NEW f, NEW X, IsFiniteSet(X)
  PROVE  SumFunctionOnSet(f, X) =
           IF X = {} THEN 0 ELSE f[First(X)] + SumFunctionOnSet(f, X \ {First(X)})
<1> DEFINE Y == X \ {First(X)}
           g == CHOOSE i : Sums(f, X, i)
           h == CHOOSE i : Sums(f, Y, i)
<1>1. IsFiniteSet(Y)
  BY FS_Subset
<1>2. Sums(f, X, g) /\ Sums(f, Y, h)
  BY <1>1, SumsExist
<1>3. SumFunctionOnSet(f, X) = g[X] /\ SumFunctionOnSet(f, Y) = h[Y]
  BY SumIsChosen
<1> HIDE DEF g, h
<1>4. g[Y] = h[Y]
  BY <1>2, SumsAgree
<1>5. g[X] = IF X = {} THEN 0 ELSE f[First(X)] + g[Y]
  BY <1>2 DEF Sums
<1> QED BY <1>3, <1>4, <1>5

(* The sum over a set that is not empty takes any of its elements first,   *)
(* and is a number.                                                        *)
Summable(f, s) ==
  /\ SumFunctionOnSet(f, s) \in Int
  /\ \A x \in s : SumFunctionOnSet(f, s) = f[x] + SumFunctionOnSet(f, s \ {x})

LEMMA AllSummable ==
  ASSUME NEW f, NEW X, IsFiniteSet(X), \A x \in X : f[x] \in Int
  PROVE  Summable(f, X)
<1> DEFINE Sum(s) == SumFunctionOnSet(f, s)
           bad == {k \in Nat : \E t \in SUBSET X : Cardinality(t) = k /\ ~ Summable(f, t)}
<1>0. ASSUME NEW t \in SUBSET X
      PROVE  /\ IsFiniteSet(t) /\ Cardinality(t) \in Nat
             /\ t = {} => Sum(t) = 0
             /\ t # {} => Sum(t) = f[First(t)] + Sum(t \ {First(t)})
  <2>1. IsFiniteSet(t) /\ Cardinality(t) \in Nat
    BY FS_Subset, FS_CardinalityType
  <2> QED BY <2>1, SumUnfolds
<1> HIDE DEF Sum
<1>1. 0 \notin bad
  <2> SUFFICES ASSUME NEW t \in SUBSET X, Cardinality(t) = 0 PROVE Summable(f, t)
    OBVIOUS
  <2>1. t = {}
    BY <1>0, FS_EmptySet
  <2>2. SumFunctionOnSet(f, t) = 0
    BY <1>0, <2>1 DEF Sum
  <2> QED BY <2>1, <2>2 DEF Summable
<1>2. ASSUME NEW k \in Nat, k + 1 \in bad
      PROVE  \E m \in bad : m <= k
  <2> SUFFICES ASSUME \A m \in bad : ~ (m <= k) PROVE FALSE
    OBVIOUS
  <2>1. PICK t \in SUBSET X : Cardinality(t) = k + 1 /\ ~ Summable(f, t)
    BY <1>2
  <2>2. ASSUME NEW r \in SUBSET X, Cardinality(r) <= k
        PROVE  Sum(r) \in Int /\ \A x \in r : Sum(r) = f[x] + Sum(r \ {x})
    <3>1. Cardinality(r) \in Nat
      BY <1>0
    <3>2. Cardinality(r) \notin bad
      BY <2>2
    <3>3. Summable(f, r)
      BY <3>1, <3>2
    <3> QED BY <3>3 DEF Summable, Sum
  <2> DEFINE y == First(t)
  <2>3. t # {} /\ y \in t /\ IsFiniteSet(t)
    <3>1. Cardinality({}) # k + 1
      BY FS_EmptySet
    <3> QED BY <1>0, <2>1, <3>1, FirstIsElement
  <2>4. Sum(t) = f[y] + Sum(t \ {y})
    BY <1>0, <2>3
  <2>5. ASSUME NEW x \in t
        PROVE  t \ {x} \in SUBSET X /\ Cardinality(t \ {x}) <= k /\ f[x] \in Int
    <3>1. Cardinality(t \ {x}) = Cardinality(t) - 1
      BY <2>3, OneLess
    <3> QED BY <2>1, <3>1
  <2> HIDE DEF y
  <2>6. Sum(t) \in Int
    BY <2>2, <2>3, <2>4, <2>5
  <2>7. ASSUME NEW x \in t
        PROVE  Sum(t) = f[x] + Sum(t \ {x})
    <3>1. CASE x = y
      BY <2>4, <3>1
    <3>2. CASE x # y
      <4> DEFINE r == t \ {x, y}
      <4>1. x \in t \ {y} /\ y \in t \ {x}
        BY <2>3, <3>2
      <4>2. Sum(t \ {y}) = f[x] + Sum((t \ {y}) \ {x})
        BY <2>2, <2>3, <2>5, <4>1
      <4>3. Sum(t \ {x}) = f[y] + Sum((t \ {x}) \ {y})
        BY <2>2, <2>5, <4>1
      <4>4. (t \ {y}) \ {x} = r /\ (t \ {x}) \ {y} = r
        OBVIOUS
      <4>5. Cardinality(r) <= k /\ r \in SUBSET X
        <5>1. Cardinality(r) = Cardinality(t \ {y}) - 1
          BY <1>0, <2>3, <2>5, <4>1, <4>4, OneLess
        <5>2. Cardinality(t \ {y}) \in Nat /\ Cardinality(t \ {y}) <= k
          BY <1>0, <2>3, <2>5
        <5> QED BY <5>1, <5>2
      <4>6. Sum(r) \in Int /\ f[x] \in Int /\ f[y] \in Int
        BY <2>2, <2>3, <2>5, <4>5
      <4> HIDE DEF r
      <4>7. Sum(t \ {y}) = f[x] + Sum(r) /\ Sum(t \ {x}) = f[y] + Sum(r)
        BY <4>2, <4>3, <4>4
      <4> HIDE DEF Sum
      <4> QED BY <2>4, <4>6, <4>7
    <3> QED BY <3>1, <3>2
  <2> QED BY <2>1, <2>6, <2>7 DEF Summable, Sum
<1>3. bad = {}
  <2> HIDE DEF bad
  <2>1. bad \subseteq Nat
    BY DEF bad
  <2> QED BY <1>1, <1>2, <2>1, NoSmallest
<1>4. Cardinality(X) \in Nat
  BY FS_CardinalityType
<1> QED BY <1>3, <1>4

-----------------------------------------------------------------------------
(* The sum of nothing. *)
LEMMA SumOfNone == ASSUME NEW f PROVE SumFunctionOnSet(f, {}) = 0
BY SumUnfolds, FS_EmptySet

(* A sum of integers is one, and any of them may be taken out of it. *)
LEMMA SumWithout ==
  ASSUME NEW f, NEW X, IsFiniteSet(X), \A x \in X : f[x] \in Int, NEW x \in X
  PROVE  /\ SumFunctionOnSet(f, X) \in Int /\ SumFunctionOnSet(f, X \ {x}) \in Int
         /\ SumFunctionOnSet(f, X) = f[x] + SumFunctionOnSet(f, X \ {x})
<1>1. IsFiniteSet(X \ {x})
  BY FS_Subset
<1> QED BY <1>1, AllSummable DEF Summable

(* Sums of integers are integers. *)
LEMMA SumType ==
  ASSUME NEW f, NEW X, IsFiniteSet(X), \A x \in X : f[x] \in Int
  PROVE  SumFunctionOnSet(f, X) \in Int
BY AllSummable DEF Summable

(* Functions that agree on a set have the same sum over it. *)
LEMMA SumSame ==
  ASSUME NEW f, NEW g, NEW X, IsFiniteSet(X), \A x \in X : f[x] = g[x]
  PROVE  SumFunctionOnSet(f, X) = SumFunctionOnSet(g, X)
<1> DEFINE Sum(h, s) == SumFunctionOnSet(h, s)
           bad == {k \in Nat : \E t \in SUBSET X : Cardinality(t) = k /\ Sum(f, t) # Sum(g, t)}
<1>0. ASSUME NEW t \in SUBSET X
      PROVE  /\ IsFiniteSet(t) /\ Cardinality(t) \in Nat
             /\ t = {} => Sum(f, t) = 0 /\ Sum(g, t) = 0
             /\ t # {} => /\ Sum(f, t) = f[First(t)] + Sum(f, t \ {First(t)})
                          /\ Sum(g, t) = g[First(t)] + Sum(g, t \ {First(t)})
  <2>1. IsFiniteSet(t) /\ Cardinality(t) \in Nat
    BY FS_Subset, FS_CardinalityType
  <2> QED BY <2>1, SumUnfolds
<1> HIDE DEF Sum
<1>1. 0 \notin bad
  <2> SUFFICES ASSUME NEW t \in SUBSET X, Cardinality(t) = 0 PROVE Sum(f, t) = Sum(g, t)
    OBVIOUS
  <2>1. t = {}
    BY <1>0, FS_EmptySet
  <2> QED BY <1>0, <2>1
<1>2. ASSUME NEW k \in Nat, k + 1 \in bad
      PROVE  \E m \in bad : m <= k
  <2>1. PICK t \in SUBSET X : Cardinality(t) = k + 1 /\ Sum(f, t) # Sum(g, t)
    BY <1>2
  <2> DEFINE y == First(t)  r == t \ {y}
  <2>2. t # {}
    BY <1>0, <2>1
  <2>3. y \in t /\ r \in SUBSET X
    BY <2>2, FirstIsElement
  <2>4. Cardinality(r) = Cardinality(t) - 1
    BY <1>0, <2>3, OneLess
  <2>5. Sum(f, r) # Sum(g, r)
    BY <1>0, <2>1, <2>2, <2>3
  <2> HIDE DEF r
  <2> QED BY <2>1, <2>3, <2>4, <2>5
<1>3. bad = {}
  <2> HIDE DEF bad
  <2>1. bad \subseteq Nat
    BY DEF bad
  <2> QED BY <1>1, <1>2, <2>1, NoSmallest
<1>4. Cardinality(X) \in Nat
  BY FS_CardinalityType
<1>5. Sum(f, X) = Sum(g, X)
  BY <1>3, <1>4
<1> QED BY <1>5 DEF Sum

(* When one value changes, the sum changes by as much. *)
LEMMA SumChange ==
  ASSUME NEW f, NEW g, NEW X, IsFiniteSet(X), NEW x \in X,
         \A y \in X : f[y] \in Int /\ g[y] \in Int, \A y \in X \ {x} : g[y] = f[y]
  PROVE  SumFunctionOnSet(g, X) = SumFunctionOnSet(f, X) - f[x] + g[x]
<1>1. /\ IsFiniteSet(X \ {x})
      /\ \A y \in X : f[y] \in Int
      /\ \A y \in X : g[y] \in Int
  BY FS_Subset
<1>2. SumFunctionOnSet(g, X \ {x}) = SumFunctionOnSet(f, X \ {x})
  BY <1>1, SumSame
<1>a. ASSUME NEW h, \A y \in X : h[y] \in Int
      PROVE  /\ SumFunctionOnSet(h, X) = h[x] + SumFunctionOnSet(h, X \ {x})
             /\ SumFunctionOnSet(h, X \ {x}) \in Int
  BY <1>a, SumWithout
<1>3. /\ SumFunctionOnSet(f, X) = f[x] + SumFunctionOnSet(f, X \ {x})
      /\ SumFunctionOnSet(f, X \ {x}) \in Int
  BY <1>1, <1>a, Zenon
<1>4. SumFunctionOnSet(g, X) = g[x] + SumFunctionOnSet(g, X \ {x})
  BY <1>1, <1>a, Zenon
<1> QED BY <1>2, <1>3, <1>4

(* Sums of naturals are naturals, and no less than each of them. *)
LEMMA SumOfNats ==
  ASSUME NEW f, NEW X, IsFiniteSet(X), \A x \in X : f[x] \in Nat
  PROVE  /\ SumFunctionOnSet(f, X) \in Nat
         /\ \A x \in X : f[x] <= SumFunctionOnSet(f, X)
<1> DEFINE Sum(s) == SumFunctionOnSet(f, s)
           bad == {k \in Nat : \E t \in SUBSET X : Cardinality(t) = k /\ Sum(t) \notin Nat}
<1>0. ASSUME NEW t \in SUBSET X
      PROVE  /\ IsFiniteSet(t) /\ Cardinality(t) \in Nat
             /\ t = {} => Sum(t) = 0
             /\ t # {} => Sum(t) = f[First(t)] + Sum(t \ {First(t)})
  <2>1. IsFiniteSet(t) /\ Cardinality(t) \in Nat
    BY FS_Subset, FS_CardinalityType
  <2> QED BY <2>1, SumUnfolds
<1> HIDE DEF Sum
<1>1. 0 \notin bad
  <2> SUFFICES ASSUME NEW t \in SUBSET X, Cardinality(t) = 0 PROVE Sum(t) \in Nat
    OBVIOUS
  <2>1. t = {}
    BY <1>0, FS_EmptySet
  <2> QED BY <1>0, <2>1
<1>2. ASSUME NEW k \in Nat, k + 1 \in bad
      PROVE  \E m \in bad : m <= k
  <2>1. PICK t \in SUBSET X : Cardinality(t) = k + 1 /\ Sum(t) \notin Nat
    BY <1>2
  <2> DEFINE y == First(t)  r == t \ {y}
  <2>2. t # {}
    <3>1. t = {} => Sum(t) = 0
      BY <1>0
    <3> QED BY <2>1, <3>1
  <2>3. y \in t /\ r \in SUBSET X
    BY <2>2, FirstIsElement
  <2>4. Cardinality(r) = Cardinality(t) - 1
    BY <1>0, <2>3, OneLess
  <2>5. Sum(r) \notin Nat
    BY <1>0, <2>1, <2>2, <2>3
  <2> HIDE DEF r
  <2> QED BY <2>1, <2>3, <2>4, <2>5
<1>3. bad = {}
  <2> HIDE DEF bad
  <2>1. bad \subseteq Nat
    BY DEF bad
  <2> QED BY <1>1, <1>2, <2>1, NoSmallest
<1>4. ASSUME NEW t \in SUBSET X PROVE Sum(t) \in Nat
  BY <1>0, <1>3
<1>5. ASSUME NEW x \in X PROVE f[x] <= Sum(X)
  <2>1. Sum(X) = f[x] + Sum(X \ {x})
    BY SumWithout DEF Sum
  <2>2. Sum(X \ {x}) \in Nat
    BY <1>4
  <2> QED BY <2>1, <2>2
<1> QED BY <1>4, <1>5 DEF Sum

(* A sum of combinations is the combination of the sums. *)
Combines(h, a, f, b, g, X) ==
  \A x \in X : f[x] \in Int /\ g[x] \in Int /\ h[x] = a * f[x] + b * g[x]

LEMMA SumLinear ==
  ASSUME NEW f, NEW g, NEW h, NEW X, IsFiniteSet(X), NEW a \in Int, NEW b \in Int,
         Combines(h, a, f, b, g, X)
  PROVE  SumFunctionOnSet(h, X) = a * SumFunctionOnSet(f, X) + b * SumFunctionOnSet(g, X)
<1> DEFINE Sum(e, s) == SumFunctionOnSet(e, s)
           Same(t) == Sum(h, t) = a * Sum(f, t) + b * Sum(g, t)
           bad == {k \in Nat : \E t \in SUBSET X : Cardinality(t) = k /\ ~ Same(t)}
<1>0. ASSUME NEW t \in SUBSET X
      PROVE  /\ IsFiniteSet(t) /\ Cardinality(t) \in Nat
             /\ t = {} => Sum(f, t) = 0 /\ Sum(g, t) = 0 /\ Sum(h, t) = 0
             /\ t # {} => /\ Sum(f, t) = f[First(t)] + Sum(f, t \ {First(t)})
                          /\ Sum(g, t) = g[First(t)] + Sum(g, t \ {First(t)})
                          /\ Sum(h, t) = h[First(t)] + Sum(h, t \ {First(t)})
  <2>1. IsFiniteSet(t) /\ Cardinality(t) \in Nat
    BY FS_Subset, FS_CardinalityType
  <2> QED BY <2>1, SumUnfolds
<1>1. ASSUME NEW t \in SUBSET X PROVE Sum(f, t) \in Int /\ Sum(g, t) \in Int
  <2>1. IsFiniteSet(t) /\ (\A x \in t : f[x] \in Int) /\ \A x \in t : g[x] \in Int
    BY <1>0 DEF Combines
  <2> QED BY <2>1, SumType
<1> HIDE DEF Sum
<1>2. 0 \notin bad
  <2> SUFFICES ASSUME NEW t \in SUBSET X, Cardinality(t) = 0 PROVE Same(t)
    OBVIOUS
  <2>1. t = {}
    BY <1>0, FS_EmptySet
  <2>2. Sum(f, t) = 0 /\ Sum(g, t) = 0 /\ Sum(h, t) = 0
    BY <1>0, <2>1
  <2>3. a * 0 + b * 0 = 0
    OBVIOUS
  <2> QED BY <2>2, <2>3
<1>3. ASSUME NEW k \in Nat, k + 1 \in bad
      PROVE  \E m \in bad : m <= k
  <2>1. PICK t \in SUBSET X : Cardinality(t) = k + 1 /\ ~ Same(t)
    BY <1>3
  <2> DEFINE y == First(t)  r == t \ {y}
  <2>2. t # {}
    <3>1. t = {} => Cardinality(t) = 0
      BY FS_EmptySet
    <3> QED BY <2>1, <3>1
  <2>3. y \in t /\ r \in SUBSET X
    BY <2>2, FirstIsElement
  <2>4. Cardinality(r) = Cardinality(t) - 1
    BY <1>0, <2>3, OneLess
  <2>5. ~ Same(r)
    <3>1. /\ Sum(f, t) = f[y] + Sum(f, r) /\ Sum(g, t) = g[y] + Sum(g, r)
          /\ Sum(h, t) = h[y] + Sum(h, r)
      BY <1>0, <2>2
    <3>2. /\ f[y] \in Int /\ g[y] \in Int /\ h[y] = a * f[y] + b * g[y]
          /\ Sum(f, r) \in Int /\ Sum(g, r) \in Int
      BY <1>1, <2>3 DEF Combines
    <3> HIDE DEF y, r
    <3>3. /\ a * (f[y] + Sum(f, r)) = a * f[y] + a * Sum(f, r)
          /\ b * (g[y] + Sum(g, r)) = b * g[y] + b * Sum(g, r)
      BY <3>2
    <3>4. /\ a * f[y] \in Int /\ a * Sum(f, r) \in Int
          /\ b * g[y] \in Int /\ b * Sum(g, r) \in Int
      BY <3>2
    <3> QED BY <2>1, <3>1, <3>2, <3>3, <3>4
  <2> HIDE DEF r, Same
  <2> QED BY <2>1, <2>3, <2>4, <2>5
<1>4. bad = {}
  <2> HIDE DEF bad
  <2>1. bad \subseteq Nat
    BY DEF bad
  <2> QED BY <1>2, <1>3, <2>1, NoSmallest
<1>5. Same(X)
  <2>1. X \in SUBSET X /\ Cardinality(X) \in Nat
    BY FS_CardinalityType
  <2> HIDE DEF Same
  <2> QED BY <1>4, <2>1
<1> QED BY <1>5 DEF Sum

(* The sum of zeros. *)
LEMMA SumOfZeros ==
  ASSUME NEW X, IsFiniteSet(X)
  PROVE  SumFunctionOnSet([x \in X |-> 0], X) = 0
<1> DEFINE f == [x \in X |-> 0]
           Sum(s) == SumFunctionOnSet(f, s)
           bad == {k \in Nat : \E t \in SUBSET X : Cardinality(t) = k /\ Sum(t) # 0}
<1>0. ASSUME NEW t \in SUBSET X
      PROVE  /\ IsFiniteSet(t) /\ Cardinality(t) \in Nat
             /\ t = {} => Sum(t) = 0
             /\ t # {} => Sum(t) = 0 + Sum(t \ {First(t)})
  <2>1. IsFiniteSet(t) /\ Cardinality(t) \in Nat
    BY FS_Subset, FS_CardinalityType
  <2>2. t # {} => f[First(t)] = 0
    BY FirstIsElement
  <2> HIDE DEF f
  <2> QED BY <2>1, <2>2, SumUnfolds
<1> HIDE DEF Sum
<1>1. 0 \notin bad
  <2> SUFFICES ASSUME NEW t \in SUBSET X, Cardinality(t) = 0 PROVE Sum(t) = 0
    OBVIOUS
  <2>1. t = {}
    BY <1>0, FS_EmptySet
  <2> QED BY <1>0, <2>1
<1>2. ASSUME NEW k \in Nat, k + 1 \in bad
      PROVE  \E m \in bad : m <= k
  <2>1. PICK t \in SUBSET X : Cardinality(t) = k + 1 /\ Sum(t) # 0
    BY <1>2
  <2> DEFINE y == First(t)  r == t \ {y}
  <2>2. t # {}
    BY <1>0, <2>1
  <2>3. y \in t /\ r \in SUBSET X
    BY <2>2, FirstIsElement
  <2>4. Cardinality(r) = Cardinality(t) - 1
    BY <1>0, <2>3, OneLess
  <2>5. Sum(r) # 0
    BY <1>0, <2>1, <2>2
  <2> HIDE DEF r
  <2> QED BY <2>1, <2>3, <2>4, <2>5
<1>3. bad = {}
  <2> HIDE DEF bad
  <2>1. bad \subseteq Nat
    BY DEF bad
  <2> QED BY <1>1, <1>2, <2>1, NoSmallest
<1>4. Sum(X) = 0
  BY <1>0, <1>3
<1> QED BY <1>4 DEF Sum
=============================================================================
