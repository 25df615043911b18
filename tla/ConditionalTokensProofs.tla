----------------------- MODULE ConditionalTokensProofs -----------------------
(***************************************************************************)
(* Theorems about ConditionalTokens, for any finite sets of accounts,      *)
(* conditions and outcomes: what the contract owes never exceeds what it   *)
(* holds.  The first part is about sums and products over finite sets.     *)
(***************************************************************************)
EXTENDS ConditionalTokens, FiniteSetTheorems, WellFoundedInduction, TLAPS

(* Induction over the naturals and over the subsets of a finite set, for a  *)
(* set of what is good rather than a predicate.                             *)
LEMMA NatSteps ==
  ASSUME NEW B, 0 \in B, \A n \in Nat : n \in B => n + 1 \in B
  PROVE  \A n \in Nat : n \in B
<1> SUFFICES ASSUME NEW k \in Nat, k \notin B PROVE FALSE
  OBVIOUS
<1> DEFINE Bad == {n \in Nat : n \notin B}
           R == OpToRel(<, Nat)
<1>1. Bad \subseteq Nat /\ Bad # {}
  OBVIOUS
<1>2. \E x \in Bad : \A y \in Bad : ~(<<y, x>> \in R)
  BY <1>1, NatLessThanWellFounded, WFMin
<1>3. \A x, y \in Nat : <<y, x>> \in R <=> y < x
  BY DEF OpToRel
<1>4. PICK m \in Bad : \A y \in Bad : ~(y < m)
  BY <1>1, <1>2, <1>3
<1>5. m # 0 /\ m \in Nat /\ m \notin B
  BY <1>4
<1>6. m - 1 \in Nat /\ m - 1 \in B
  BY <1>4, <1>5
<1>7. QED
  BY <1>5, <1>6

LEMMA SetSteps ==
  ASSUME NEW S, IsFiniteSet(S), NEW B, {} \in B,
         \A T \in SUBSET S : \A x \in S \ T : T \in B => T \union {x} \in B
  PROVE  S \in B
<1> SUFFICES ASSUME S \notin B PROVE FALSE
  OBVIOUS
<1> DEFINE Bad == {T \in SUBSET S : T \notin B}
           R == StrictSubsetOrdering(S)
<1>1. Bad \subseteq FiniteSubsetsOf(S) /\ Bad # {}
  BY FS_FiniteSubsetsOfFinite
<1>2. \E x \in Bad : \A y \in Bad : ~(<<y, x>> \in R)
  BY <1>1, FS_StrictSubsetOrderingWellFounded, WFMin
<1>3. PICK T \in Bad : \A U \in Bad : <<U, T>> \notin R
  BY <1>2
<1>4. PICK x \in T : TRUE
  BY <1>3
<1>5. T \ {x} \in SUBSET S /\ x \in S \ (T \ {x}) /\ (T \ {x}) \union {x} = T
  BY <1>3, <1>4
<1>6. <<T \ {x}, T>> \in R
  BY <1>3, <1>4 DEF StrictSubsetOrdering
<1>7. T \ {x} \in B
  BY <1>3, <1>5, <1>6
<1>8. QED
  BY <1>3, <1>5, <1>7

-----------------------------------------------------------------------------
(* Sums.  The library's sum takes one element at a time out of a set, in an  *)
(* order nobody knows.                                                       *)
Pick(T) == CHOOSE x \in T : TRUE

Sum(f, S) == SumFunctionOnSet(f, S)

SumStep(f, g, T) == IF T = {} THEN 0 ELSE f[Pick(T)] + g[T \ {Pick(T)}]
IsSum(f, S, g) == g = [T \in SUBSET S |-> SumStep(f, g, T)]
SumTable(f, S) == CHOOSE g : IsSum(f, S, g)

LEMMA SumIs ==
  ASSUME NEW f, NEW S
  PROVE  Sum(f, S) = SumTable(f, S)[S]
BY DEF Sum, SumFunctionOnSet, FoldFunctionOnSet, MapThenFoldSet, SumTable, IsSum, SumStep,
       Pick

LEMMA SmallerSets ==
  ASSUME NEW S, IsFiniteSet(S), NEW T \in SUBSET S
  PROVE  /\ IsFiniteSet(T) /\ Cardinality(T) \in Nat /\ Cardinality(T) <= Cardinality(S)
         /\ Cardinality(T) = 0 <=> T = {}
         /\ T # {} => /\ Pick(T) \in T
                      /\ T \ {Pick(T)} \in SUBSET S
         /\ \A x \in T : Cardinality(T \ {x}) = Cardinality(T) - 1
<1>1. IsFiniteSet(T) /\ Cardinality(T) \in Nat /\ Cardinality(T) <= Cardinality(S)
  BY FS_Subset, FS_CardinalityType
<1>2. Cardinality(T) = 0 <=> T = {}
  BY <1>1, FS_EmptySet
<1>3. \A x \in T : Cardinality(T \ {x}) = Cardinality(T) - 1
  BY <1>1, FS_RemoveElement
<1>4. QED
  BY <1>1, <1>2, <1>3 DEF Pick

LEMMA SumExists ==
  ASSUME NEW f, NEW S, IsFiniteSet(S)
  PROVE  IsSum(f, S, SumTable(f, S))
<1> DEFINE Small(n) == {T \in SUBSET S : Cardinality(T) <= n}
           Good == {n \in Nat : \E g : g = [T \in Small(n) |-> SumStep(f, g, T)]}
<1>1. 0 \in Good
  <2> DEFINE g == [T \in Small(0) |-> 0]
  <2>1. \A T \in Small(0) : T = {}
    BY SmallerSets
  <2>2. g = [T \in Small(0) |-> SumStep(f, g, T)]
    BY <2>1 DEF SumStep
  <2>3. QED
    BY <2>2
<1>2. ASSUME NEW n \in Nat, n \in Good
      PROVE  n + 1 \in Good
  <2>1. PICK g : g = [T \in Small(n) |-> SumStep(f, g, T)]
    BY <1>2
  <2> DEFINE h == [T \in Small(n + 1) |-> SumStep(f, g, T)]
  <2>2. ASSUME NEW T \in Small(n + 1)
        PROVE  h[T] = SumStep(f, h, T)
    <3>1. CASE T = {}
      BY <3>1 DEF SumStep
    <3>2. CASE T # {}
      <4> DEFINE U == T \ {Pick(T)}
      <4>1. U \in Small(n) /\ U \in Small(n + 1)
        BY <3>2, SmallerSets
      <4>2. h[U] = g[U]
        BY <2>1, <4>1
      <4>3. QED
        BY <4>2 DEF SumStep
    <3>3. QED
      BY <3>1, <3>2
  <2> HIDE DEF h
  <2>3. h = [T \in Small(n + 1) |-> SumStep(f, h, T)]
    <3>1. h = [T \in Small(n + 1) |-> h[T]]
      BY DEF h
    <3>2. QED
      BY <2>2, <3>1
  <2>4. QED
    BY <2>3
<1> HIDE DEF Good
<1>3. Cardinality(S) \in Nat /\ Cardinality(S) \in Good
  BY <1>1, <1>2, NatSteps, FS_CardinalityType
<1>4. Small(Cardinality(S)) = SUBSET S
  BY SmallerSets
<1>5. \E g : IsSum(f, S, g)
  BY <1>3, <1>4 DEF IsSum, Good
<1>6. QED
  BY <1>5 DEF SumTable

LEMMA SumInside ==
  ASSUME NEW f, NEW S, IsFiniteSet(S)
  PROVE  \A V \in SUBSET S : \A U \in SUBSET V : SumTable(f, V)[U] = Sum(f, U)
<1> DEFINE Good == {n \in Nat : \A V \in SUBSET S : \A U \in SUBSET V :
                      Cardinality(U) <= n => SumTable(f, V)[U] = Sum(f, U)}
<1>0. \A V \in SUBSET S : \A U \in SUBSET V :
        /\ SumTable(f, V)[U] = SumStep(f, SumTable(f, V), U)
        /\ Sum(f, U) = SumStep(f, SumTable(f, U), U)
  <2> TAKE V \in SUBSET S
  <2> TAKE U \in SUBSET V
  <2>1. IsSum(f, V, SumTable(f, V)) /\ IsSum(f, U, SumTable(f, U))
    BY SumExists, SmallerSets
  <2>2. \A W, g : IsSum(f, W, g) => \A X \in SUBSET W : g[X] = SumStep(f, g, X)
    BY DEF IsSum
  <2>3. QED
    BY <2>1, <2>2, SumIs
<1>1. 0 \in Good
  <2>1. \A U \in SUBSET S : Cardinality(U) <= 0 => U = {}
    BY SmallerSets
  <2>2. QED
    BY <1>0, <2>1 DEF SumStep
<1>2. ASSUME NEW n \in Nat, n \in Good
      PROVE  n + 1 \in Good
  <2> SUFFICES ASSUME NEW V \in SUBSET S, NEW U \in SUBSET V, Cardinality(U) <= n + 1
               PROVE  SumTable(f, V)[U] = Sum(f, U)
    OBVIOUS
  <2>1. CASE U = {}
    BY <1>0, <2>1 DEF SumStep
  <2>2. CASE U # {}
    <3> DEFINE W == U \ {Pick(U)}
    <3>1. W \in SUBSET V /\ W \in SUBSET U /\ U \in SUBSET S /\ Cardinality(W) <= n
      BY <2>2, SmallerSets
    <3>2. SumTable(f, V)[W] = Sum(f, W) /\ SumTable(f, U)[W] = Sum(f, W)
      BY <1>2, <3>1
    <3>3. QED
      BY <1>0, <2>2, <3>2 DEF SumStep
  <2>3. QED
    BY <2>1, <2>2
<1> HIDE DEF Good
<1>3. \A n \in Nat : n \in Good
  BY <1>1, <1>2, NatSteps
<1>4. QED
  <2> SUFFICES ASSUME NEW V \in SUBSET S, NEW U \in SUBSET V
               PROVE  SumTable(f, V)[U] = Sum(f, U)
    OBVIOUS
  <2>1. Cardinality(U) \in Nat
    BY SmallerSets
  <2>2. QED
    BY <1>3, <2>1 DEF Good

LEMMA SumEmpty == \A f : Sum(f, {}) = 0
<1> TAKE f
<1>1. IsSum(f, {}, SumTable(f, {})) /\ {} \in SUBSET {}
  BY SumExists, FS_EmptySet
<1>2. QED
  BY <1>1, SumIs DEF IsSum, SumStep

LEMMA SumPick ==
  ASSUME NEW f, NEW S, IsFiniteSet(S), S # {}
  PROVE  Sum(f, S) = f[Pick(S)] + Sum(f, S \ {Pick(S)})
<1>1. S \in SUBSET S /\ S \ {Pick(S)} \in SUBSET S
  OBVIOUS
<1>2. IsSum(f, S, SumTable(f, S))
  BY SumExists
<1>3. SumTable(f, S)[S] = SumStep(f, SumTable(f, S), S)
  BY <1>1, <1>2 DEF IsSum
<1>4. SumTable(f, S)[S \ {Pick(S)}] = Sum(f, S \ {Pick(S)})
  BY <1>1, SumInside
<1>5. QED
  BY <1>3, <1>4, SumIs DEF SumStep

LEMMA SumInt ==
  ASSUME NEW f, NEW S, IsFiniteSet(S), \A x \in S : f[x] \in Int
  PROVE  Sum(f, S) \in Int
<1> DEFINE Good == {n \in Nat : \A U \in SUBSET S : Cardinality(U) = n => Sum(f, U) \in Int}
<1>1. 0 \in Good
  BY SumEmpty, SmallerSets
<1>2. ASSUME NEW n \in Nat, n \in Good
      PROVE  n + 1 \in Good
  <2> SUFFICES ASSUME NEW U \in SUBSET S, Cardinality(U) = n + 1
               PROVE  Sum(f, U) \in Int
    OBVIOUS
  <2>1. U # {} /\ Pick(U) \in U /\ U \ {Pick(U)} \in SUBSET S
    BY SmallerSets
  <2>2. Cardinality(U \ {Pick(U)}) = n
    BY <2>1, SmallerSets
  <2>3. Sum(f, U \ {Pick(U)}) \in Int /\ f[Pick(U)] \in Int
    BY <1>2, <2>1, <2>2
  <2>4. Sum(f, U) = f[Pick(U)] + Sum(f, U \ {Pick(U)})
    BY <2>1, SumPick, SmallerSets
  <2>5. QED
    BY <2>3, <2>4
<1> HIDE DEF Good
<1>3. Cardinality(S) \in Good
  BY <1>1, <1>2, NatSteps, FS_CardinalityType
<1>4. QED
  BY <1>3 DEF Good

(* The order does not matter.                                               *)
LEMMA SumRemove ==
  ASSUME NEW f, NEW S, IsFiniteSet(S), \A x \in S : f[x] \in Int, NEW x \in S
  PROVE  Sum(f, S) = f[x] + Sum(f, S \ {x})
<1> DEFINE Good == {n \in Nat : \A U \in SUBSET S : Cardinality(U) = n =>
                      \A y \in U : Sum(f, U) = f[y] + Sum(f, U \ {y})}
<1>1. 0 \in Good
  BY SmallerSets
<1>2. ASSUME NEW n \in Nat, n \in Good
      PROVE  n + 1 \in Good
  <2> SUFFICES ASSUME NEW U \in SUBSET S, Cardinality(U) = n + 1, NEW y \in U
               PROVE  Sum(f, U) = f[y] + Sum(f, U \ {y})
    OBVIOUS
  <2> DEFINE z == Pick(U)
             V == U \ {y}
             W == U \ {z}
             X == (U \ {y}) \ {z}
  <2>1. z \in U /\ IsFiniteSet(U)
    BY SmallerSets DEF Pick
  <2> HIDE DEF z
  <2>2. Sum(f, U) = f[z] + Sum(f, W)
    BY <2>1, SumPick DEF z
  <2>3. CASE y = z
    BY <2>2, <2>3
  <2>4. CASE y # z
    <3>1. /\ V \in SUBSET S /\ W \in SUBSET S /\ X \in SUBSET S /\ z \in V /\ y \in W
          /\ X = V \ {z} /\ X = W \ {y}
      BY <2>1, <2>4
    <3>2. Cardinality(V) = n /\ Cardinality(W) = n
      BY <2>1, SmallerSets
    <3>3. Sum(f, V) = f[z] + Sum(f, X) /\ Sum(f, W) = f[y] + Sum(f, X)
      BY <1>2, <3>1, <3>2
    <3>4. Sum(f, X) \in Int /\ f[y] \in Int /\ f[z] \in Int
      BY <2>1, <3>1, SumInt, SmallerSets
    <3> HIDE DEF V, W, X
    <3>5. QED
      BY <2>2, <3>3, <3>4 DEF V
  <2>5. QED
    BY <2>3, <2>4
<1> HIDE DEF Good
<1>3. Cardinality(S) \in Good
  BY <1>1, <1>2, NatSteps, FS_CardinalityType
<1>4. QED
  BY <1>3 DEF Good

LEMMA SumAdd ==
  ASSUME NEW f, NEW S, IsFiniteSet(S), \A x \in S : f[x] \in Int,
         NEW T \in SUBSET S, NEW x \in S \ T
  PROVE  /\ Sum(f, T \union {x}) = f[x] + Sum(f, T)
         /\ Sum(f, T) \in Int /\ f[x] \in Int
<1>1. T \union {x} \in SUBSET S /\ (T \union {x}) \ {x} = T
  OBVIOUS
<1>2. Sum(f, T \union {x}) = f[x] + Sum(f, (T \union {x}) \ {x})
  BY <1>1, SumRemove, SmallerSets
<1>3. QED
  BY <1>1, <1>2, SumInt, SmallerSets

LEMMA Distributes == \A k, a, b \in Int : k * (a + b) = k * a + k * b
OBVIOUS

LEMMA SumLinear ==
  ASSUME NEW f, NEW g, NEW h, NEW k \in Int, NEW S, IsFiniteSet(S),
         \A x \in S : f[x] \in Int /\ g[x] \in Int /\ h[x] = f[x] + k * g[x]
  PROVE  Sum(h, S) = Sum(f, S) + k * Sum(g, S)
<1> DEFINE B == {T \in SUBSET S : Sum(h, T) = Sum(f, T) + k * Sum(g, T)}
<1>0. \A x \in S : h[x] \in Int
  OBVIOUS
<1>1. {} \in B
  BY SumEmpty
<1>2. ASSUME NEW T \in SUBSET S, NEW x \in S \ T, T \in B
      PROVE  T \union {x} \in B
  <2>1. /\ Sum(f, T \union {x}) = f[x] + Sum(f, T) /\ Sum(f, T) \in Int /\ f[x] \in Int
        /\ Sum(g, T \union {x}) = g[x] + Sum(g, T) /\ Sum(g, T) \in Int /\ g[x] \in Int
        /\ Sum(h, T \union {x}) = h[x] + Sum(h, T)
    BY <1>0, SumAdd
  <2>2. k * (g[x] + Sum(g, T)) = k * g[x] + k * Sum(g, T)
    BY <2>1, Distributes
  <2>3. h[x] = f[x] + k * g[x] /\ Sum(h, T) = Sum(f, T) + k * Sum(g, T)
    BY <1>2
  <2>4. k * g[x] \in Int /\ k * Sum(g, T) \in Int
    BY <2>1
  <2>5. Sum(h, T \union {x}) = Sum(f, T \union {x}) + k * Sum(g, T \union {x})
    BY <2>1, <2>2, <2>3, <2>4
  <2>6. QED
    BY <2>5
<1> HIDE DEF B
<1>3. S \in B
  BY <1>1, <1>2, SetSteps
<1>4. QED
  BY <1>3 DEF B

LEMMA SumMono ==
  ASSUME NEW f, NEW g, NEW S, IsFiniteSet(S),
         \A x \in S : f[x] \in Int /\ g[x] \in Int /\ f[x] <= g[x]
  PROVE  Sum(f, S) <= Sum(g, S)
<1> DEFINE B == {T \in SUBSET S : Sum(f, T) <= Sum(g, T)}
<1>1. {} \in B
  BY SumEmpty
<1>2. ASSUME NEW T \in SUBSET S, NEW x \in S \ T, T \in B
      PROVE  T \union {x} \in B
  <2>1. /\ Sum(f, T \union {x}) = f[x] + Sum(f, T) /\ Sum(f, T) \in Int /\ f[x] \in Int
        /\ Sum(g, T \union {x}) = g[x] + Sum(g, T) /\ Sum(g, T) \in Int /\ g[x] \in Int
    BY SumAdd
  <2>2. QED
    BY <1>2, <2>1
<1> HIDE DEF B
<1>3. S \in B
  BY <1>1, <1>2, SetSteps
<1>4. QED
  BY <1>3 DEF B

LEMMA SumZero ==
  ASSUME NEW f, NEW S, IsFiniteSet(S), \A x \in S : f[x] = 0
  PROVE  Sum(f, S) = 0
<1> DEFINE B == {T \in SUBSET S : Sum(f, T) = 0}
<1>1. {} \in B
  BY SumEmpty
<1>2. ASSUME NEW T \in SUBSET S, NEW x \in S \ T, T \in B
      PROVE  T \union {x} \in B
  <2>1. /\ Sum(f, T \union {x}) = f[x] + Sum(f, T)
    BY SumAdd
  <2>2. QED
    BY <1>2, <2>1
<1> HIDE DEF B
<1>3. S \in B
  BY <1>1, <1>2, SetSteps
<1>4. QED
  BY <1>3 DEF B

LEMMA SumNat ==
  ASSUME NEW f, NEW S, IsFiniteSet(S), \A x \in S : f[x] \in Nat
  PROVE  Sum(f, S) \in Nat
<1> DEFINE z == [x \in S |-> 0]
<1>1. Sum(z, S) = 0
  BY SumZero
<1>2. Sum(z, S) <= Sum(f, S)
  BY SumMono
<1>3. Sum(f, S) \in Int
  BY SumInt
<1>4. QED
  BY <1>1, <1>2, <1>3

LEMMA SumEqual ==
  ASSUME NEW f, NEW g, NEW S, IsFiniteSet(S), \A x \in S : f[x] \in Int /\ g[x] = f[x]
  PROVE  Sum(g, S) = Sum(f, S)
<1>1. \A x \in S : f[x] \in Int /\ f[x] \in Int /\ g[x] = f[x] + 0 * f[x]
  OBVIOUS
<1>2. Sum(g, S) = Sum(f, S) + 0 * Sum(f, S)
  BY <1>1, SumLinear
<1>3. QED
  BY <1>2, SumInt

LEMMA SumUnion ==
  ASSUME NEW f, NEW All, IsFiniteSet(All), \A x \in All : f[x] \in Int,
         NEW S \in SUBSET All, NEW T \in SUBSET All, S \intersect T = {}
  PROVE  Sum(f, S \union T) = Sum(f, S) + Sum(f, T)
<1> DEFINE B == {U \in SUBSET T : Sum(f, S \union U) = Sum(f, S) + Sum(f, U)}
<1>1. Sum(f, S) \in Int
  BY SumInt, SmallerSets
<1>2. {} \in B
  <2>1. S \union {} = S
    OBVIOUS
  <2>2. QED
    BY <1>1, <2>1, SumEmpty
<1>3. ASSUME NEW U \in SUBSET T, NEW x \in T \ U, U \in B
      PROVE  U \union {x} \in B
  <2> DEFINE V == S \union U
             W == U \union {x}
  <2>1. /\ V \in SUBSET All /\ x \in All \ V /\ U \in SUBSET All /\ x \in All \ U
        /\ S \union W = V \union {x}
    OBVIOUS
  <2>2. Sum(f, V) = Sum(f, S) + Sum(f, U)
    BY <1>3
  <2> HIDE DEF V, B
  <2>3. Sum(f, V \union {x}) = f[x] + Sum(f, V)
    BY <2>1, SumAdd
  <2>4. Sum(f, W) = f[x] + Sum(f, U) /\ Sum(f, U) \in Int /\ f[x] \in Int
    BY <2>1, SumAdd
  <2>5. Sum(f, S \union W) = Sum(f, V \union {x})
    BY <2>1
  <2>6. Sum(f, S \union W) = Sum(f, S) + Sum(f, W)
    BY <1>1, <2>2, <2>3, <2>4, <2>5
  <2>7. QED
    BY <2>6 DEF B
<1> HIDE DEF B
<1>4. T \in B
  BY <1>2, <1>3, SetSteps, SmallerSets
<1>5. QED
  BY <1>4 DEF B

(* Of what is summed nothing counts outside of T.                           *)
LEMMA SumWithin ==
  ASSUME NEW f, NEW g, NEW S, IsFiniteSet(S), NEW T \in SUBSET S,
         \A x \in T : f[x] \in Int,
         \A x \in S : g[x] = IF x \in T THEN f[x] ELSE 0
  PROVE  Sum(g, S) = Sum(f, T)
<1> DEFINE B == {U \in SUBSET S : Sum(g, U) = Sum(f, U \intersect T)}
<1>0. \A x \in S : g[x] \in Int
  OBVIOUS
<1>1. {} \in B
  BY SumEmpty
<1>2. ASSUME NEW U \in SUBSET S, NEW x \in S \ U, U \in B
      PROVE  U \union {x} \in B
  <2>1. /\ Sum(g, U \union {x}) = g[x] + Sum(g, U) /\ Sum(g, U) \in Int
    BY <1>0, SumAdd
  <2>2. CASE x \in T
    <3>1. (U \union {x}) \intersect T = (U \intersect T) \union {x} /\ x \in T \ (U \intersect T)
      BY <2>2
    <3>2. IsFiniteSet(T) /\ U \intersect T \in SUBSET T
      BY SmallerSets
    <3>3. Sum(f, (U \intersect T) \union {x}) = f[x] + Sum(f, U \intersect T)
      BY <3>1, <3>2, SumAdd
    <3>4. QED
      BY <1>2, <2>1, <2>2, <3>1, <3>3
  <2>3. CASE x \notin T
    <3>1. (U \union {x}) \intersect T = U \intersect T /\ g[x] = 0
      BY <2>3
    <3>2. Sum(g, U \union {x}) = Sum(g, U) /\ Sum(g, U) = Sum(f, U \intersect T)
      BY <1>2, <2>1, <3>1
    <3>3. QED
      BY <3>1, <3>2
  <2>4. QED
    BY <2>2, <2>3
<1> HIDE DEF B
<1>3. S \in B
  BY <1>1, <1>2, SetSteps
<1>4. S \intersect T = T
  OBVIOUS
<1>5. QED
  BY <1>3, <1>4 DEF B

(* The sum over an image.                                                   *)
LEMMA SumImage ==
  ASSUME NEW f, NEW g, NEW e, NEW S, IsFiniteSet(S),
         \A x \in S : f[e[x]] \in Int /\ g[x] = f[e[x]],
         \A x, y \in S : e[x] = e[y] => x = y
  PROVE  /\ IsFiniteSet({e[x] : x \in S})
         /\ Sum(f, {e[x] : x \in S}) = Sum(g, S)
<1> DEFINE I(T) == {e[x] : x \in T}
           B == {T \in SUBSET S : IsFiniteSet(I(T)) /\ Sum(f, I(T)) = Sum(g, T)}
<1>1. {} \in B
  <2>1. I({}) = {}
    OBVIOUS
  <2>2. QED
    BY <2>1, SumEmpty, FS_EmptySet
<1>2. ASSUME NEW T \in SUBSET S, NEW x \in S \ T, T \in B
      PROVE  T \union {x} \in B
  <2>1. Sum(g, T \union {x}) = g[x] + Sum(g, T)
    BY SumAdd
  <2>2. I(T \union {x}) = I(T) \union {e[x]} /\ e[x] \notin I(T)
    OBVIOUS
  <2>3. IsFiniteSet(I(T)) /\ Sum(f, I(T)) = Sum(g, T)
    BY <1>2
  <2>4. \A y \in I(T \union {x}) : f[y] \in Int
    OBVIOUS
  <2> DEFINE J == I(T)
             K == I(T \union {x})
             y == e[x]
  <2>5. K = J \union {y} /\ y \notin J /\ IsFiniteSet(J) /\ \A z \in K : f[z] \in Int
    BY <2>2, <2>3, <2>4
  <2>6. IsFiniteSet(K) /\ Sum(f, J \union {y}) = f[y] + Sum(f, J)
    <3> HIDE DEF I, J, K, y
    <3>1. IsFiniteSet(K)
      BY <2>5, FS_AddElement
    <3>2. J \in SUBSET K /\ y \in K \ J
      BY <2>5
    <3>3. QED
      BY <2>5, <3>1, <3>2, SumAdd
  <2>7. QED
    BY <1>2, <2>1, <2>2, <2>3, <2>6
<1>3. S \in B
  <2> HIDE DEF B
  <2>1. QED
    BY <1>1, <1>2, SetSteps
<1>4. QED
  BY <1>3

-----------------------------------------------------------------------------
(* Products, in the same way.                                               *)
Prod(f, S) == FoldFunctionOnSet(LAMBDA x, y : x * y, 1, f, S)

ProdStep(f, g, T) == IF T = {} THEN 1 ELSE f[Pick(T)] * g[T \ {Pick(T)}]
IsProd(f, S, g) == g = [T \in SUBSET S |-> ProdStep(f, g, T)]
ProdTable(f, S) == CHOOSE g : IsProd(f, S, g)

LEMMA ProdIs ==
  ASSUME NEW f, NEW S
  PROVE  Prod(f, S) = ProdTable(f, S)[S]
BY DEF Prod, FoldFunctionOnSet, MapThenFoldSet, ProdTable, IsProd, ProdStep, Pick

LEMMA MulSwaps ==
  /\ \A a, b, c \in Int : a * (b * c) = b * (a * c)
  /\ \A a, b \in Int : a * b \in Int
OBVIOUS

LEMMA ProdExists ==
  ASSUME NEW f, NEW S, IsFiniteSet(S)
  PROVE  IsProd(f, S, ProdTable(f, S))
<1> DEFINE Small(n) == {T \in SUBSET S : Cardinality(T) <= n}
           Good == {n \in Nat : \E g : g = [T \in Small(n) |-> ProdStep(f, g, T)]}
<1>1. 0 \in Good
  <2> DEFINE g == [T \in Small(0) |-> 1]
  <2>1. \A T \in Small(0) : T = {}
    BY SmallerSets
  <2>2. g = [T \in Small(0) |-> ProdStep(f, g, T)]
    BY <2>1 DEF ProdStep
  <2>3. QED
    BY <2>2
<1>2. ASSUME NEW n \in Nat, n \in Good
      PROVE  n + 1 \in Good
  <2>1. PICK g : g = [T \in Small(n) |-> ProdStep(f, g, T)]
    BY <1>2
  <2> DEFINE h == [T \in Small(n + 1) |-> ProdStep(f, g, T)]
  <2>2. ASSUME NEW T \in Small(n + 1)
        PROVE  h[T] = ProdStep(f, h, T)
    <3>1. CASE T = {}
      BY <3>1 DEF ProdStep
    <3>2. CASE T # {}
      <4> DEFINE U == T \ {Pick(T)}
      <4>1. U \in Small(n) /\ U \in Small(n + 1)
        BY <3>2, SmallerSets
      <4>2. h[U] = g[U]
        BY <2>1, <4>1
      <4>3. QED
        BY <4>2 DEF ProdStep
    <3>3. QED
      BY <3>1, <3>2
  <2> HIDE DEF h
  <2>3. h = [T \in Small(n + 1) |-> ProdStep(f, h, T)]
    <3>1. h = [T \in Small(n + 1) |-> h[T]]
      BY DEF h
    <3>2. QED
      BY <2>2, <3>1
  <2>4. QED
    BY <2>3
<1> HIDE DEF Good
<1>3. Cardinality(S) \in Nat /\ Cardinality(S) \in Good
  BY <1>1, <1>2, NatSteps, FS_CardinalityType
<1>4. Small(Cardinality(S)) = SUBSET S
  BY SmallerSets
<1>5. \E g : IsProd(f, S, g)
  BY <1>3, <1>4 DEF IsProd, Good
<1>6. QED
  BY <1>5 DEF ProdTable

LEMMA ProdInside ==
  ASSUME NEW f, NEW S, IsFiniteSet(S)
  PROVE  \A V \in SUBSET S : \A U \in SUBSET V : ProdTable(f, V)[U] = Prod(f, U)
<1> DEFINE Good == {n \in Nat : \A V \in SUBSET S : \A U \in SUBSET V :
                      Cardinality(U) <= n => ProdTable(f, V)[U] = Prod(f, U)}
<1>0. \A V \in SUBSET S : \A U \in SUBSET V :
        /\ ProdTable(f, V)[U] = ProdStep(f, ProdTable(f, V), U)
        /\ Prod(f, U) = ProdStep(f, ProdTable(f, U), U)
  <2> TAKE V \in SUBSET S
  <2> TAKE U \in SUBSET V
  <2>1. IsProd(f, V, ProdTable(f, V)) /\ IsProd(f, U, ProdTable(f, U))
    BY ProdExists, SmallerSets
  <2>2. \A W, g : IsProd(f, W, g) => \A X \in SUBSET W : g[X] = ProdStep(f, g, X)
    BY DEF IsProd
  <2>3. QED
    BY <2>1, <2>2, ProdIs
<1>1. 0 \in Good
  <2>1. \A U \in SUBSET S : Cardinality(U) <= 0 => U = {}
    BY SmallerSets
  <2>2. QED
    BY <1>0, <2>1 DEF ProdStep
<1>2. ASSUME NEW n \in Nat, n \in Good
      PROVE  n + 1 \in Good
  <2> SUFFICES ASSUME NEW V \in SUBSET S, NEW U \in SUBSET V, Cardinality(U) <= n + 1
               PROVE  ProdTable(f, V)[U] = Prod(f, U)
    OBVIOUS
  <2>1. CASE U = {}
    BY <1>0, <2>1 DEF ProdStep
  <2>2. CASE U # {}
    <3> DEFINE W == U \ {Pick(U)}
    <3>1. W \in SUBSET V /\ W \in SUBSET U /\ U \in SUBSET S /\ Cardinality(W) <= n
      BY <2>2, SmallerSets
    <3>2. ProdTable(f, V)[W] = Prod(f, W) /\ ProdTable(f, U)[W] = Prod(f, W)
      BY <1>2, <3>1
    <3>3. QED
      BY <1>0, <2>2, <3>2 DEF ProdStep
  <2>3. QED
    BY <2>1, <2>2
<1> HIDE DEF Good
<1>3. \A n \in Nat : n \in Good
  BY <1>1, <1>2, NatSteps
<1>4. QED
  <2> SUFFICES ASSUME NEW V \in SUBSET S, NEW U \in SUBSET V
               PROVE  ProdTable(f, V)[U] = Prod(f, U)
    OBVIOUS
  <2>1. Cardinality(U) \in Nat
    BY SmallerSets
  <2>2. QED
    BY <1>3, <2>1 DEF Good

LEMMA ProdEmpty == \A f : Prod(f, {}) = 1
<1> TAKE f
<1>1. IsProd(f, {}, ProdTable(f, {})) /\ {} \in SUBSET {}
  BY ProdExists, FS_EmptySet
<1>2. QED
  BY <1>1, ProdIs DEF IsProd, ProdStep

LEMMA ProdPick ==
  ASSUME NEW f, NEW S, IsFiniteSet(S), S # {}
  PROVE  Prod(f, S) = f[Pick(S)] * Prod(f, S \ {Pick(S)})
<1>1. S \in SUBSET S /\ S \ {Pick(S)} \in SUBSET S
  OBVIOUS
<1>2. IsProd(f, S, ProdTable(f, S))
  BY ProdExists
<1>3. ProdTable(f, S)[S] = ProdStep(f, ProdTable(f, S), S)
  BY <1>1, <1>2 DEF IsProd
<1>4. ProdTable(f, S)[S \ {Pick(S)}] = Prod(f, S \ {Pick(S)})
  BY <1>1, ProdInside
<1>5. QED
  BY <1>3, <1>4, ProdIs DEF ProdStep

LEMMA ProdInt ==
  ASSUME NEW f, NEW S, IsFiniteSet(S), \A x \in S : f[x] \in Int
  PROVE  Prod(f, S) \in Int
<1> DEFINE Good == {n \in Nat : \A U \in SUBSET S : Cardinality(U) = n => Prod(f, U) \in Int}
<1>1. 0 \in Good
  BY ProdEmpty, SmallerSets
<1>2. ASSUME NEW n \in Nat, n \in Good
      PROVE  n + 1 \in Good
  <2> SUFFICES ASSUME NEW U \in SUBSET S, Cardinality(U) = n + 1
               PROVE  Prod(f, U) \in Int
    OBVIOUS
  <2>1. U # {} /\ Pick(U) \in U /\ U \ {Pick(U)} \in SUBSET S
    BY SmallerSets
  <2>2. Cardinality(U \ {Pick(U)}) = n
    BY <2>1, SmallerSets
  <2>3. Prod(f, U \ {Pick(U)}) \in Int /\ f[Pick(U)] \in Int
    BY <1>2, <2>1, <2>2
  <2>4. Prod(f, U) = f[Pick(U)] * Prod(f, U \ {Pick(U)})
    BY <2>1, ProdPick, SmallerSets
  <2>5. QED
    BY <2>3, <2>4, MulSwaps
<1> HIDE DEF Good
<1>3. Cardinality(S) \in Good
  BY <1>1, <1>2, NatSteps, FS_CardinalityType
<1>4. QED
  BY <1>3 DEF Good

LEMMA ProdRemove ==
  ASSUME NEW f, NEW S, IsFiniteSet(S), \A x \in S : f[x] \in Int, NEW x \in S
  PROVE  Prod(f, S) = f[x] * Prod(f, S \ {x})
<1> DEFINE Good == {n \in Nat : \A U \in SUBSET S : Cardinality(U) = n =>
                      \A y \in U : Prod(f, U) = f[y] * Prod(f, U \ {y})}
<1>1. 0 \in Good
  BY SmallerSets
<1>2. ASSUME NEW n \in Nat, n \in Good
      PROVE  n + 1 \in Good
  <2> SUFFICES ASSUME NEW U \in SUBSET S, Cardinality(U) = n + 1, NEW y \in U
               PROVE  Prod(f, U) = f[y] * Prod(f, U \ {y})
    OBVIOUS
  <2> DEFINE z == Pick(U)
             V == U \ {y}
             W == U \ {z}
             X == (U \ {y}) \ {z}
  <2>1. z \in U /\ IsFiniteSet(U)
    BY SmallerSets DEF Pick
  <2> HIDE DEF z
  <2>2. Prod(f, U) = f[z] * Prod(f, W)
    BY <2>1, ProdPick DEF z
  <2>3. CASE y = z
    BY <2>2, <2>3
  <2>4. CASE y # z
    <3>1. /\ V \in SUBSET S /\ W \in SUBSET S /\ X \in SUBSET S /\ z \in V /\ y \in W
          /\ X = V \ {z} /\ X = W \ {y}
      BY <2>1, <2>4
    <3>2. Cardinality(V) = n /\ Cardinality(W) = n
      BY <2>1, SmallerSets
    <3>3. Prod(f, V) = f[z] * Prod(f, X) /\ Prod(f, W) = f[y] * Prod(f, X)
      BY <1>2, <3>1, <3>2
    <3>4. Prod(f, X) \in Int /\ f[y] \in Int /\ f[z] \in Int
      BY <2>1, <3>1, ProdInt, SmallerSets
    <3> HIDE DEF V, W, X
    <3>5. QED
      BY <2>2, <3>3, <3>4, MulSwaps DEF V
  <2>5. QED
    BY <2>3, <2>4
<1> HIDE DEF Good
<1>3. Cardinality(S) \in Good
  BY <1>1, <1>2, NatSteps, FS_CardinalityType
<1>4. QED
  BY <1>3 DEF Good

LEMMA ProdEqual ==
  ASSUME NEW f, NEW g, NEW S, IsFiniteSet(S), \A x \in S : f[x] \in Int /\ g[x] = f[x]
  PROVE  Prod(g, S) = Prod(f, S)
<1> DEFINE B == {T \in SUBSET S : Prod(g, T) = Prod(f, T)}
<1>1. {} \in B
  BY ProdEmpty
<1>2. ASSUME NEW T \in SUBSET S, NEW x \in S \ T, T \in B
      PROVE  T \union {x} \in B
  <2>1. T \union {x} \in SUBSET S /\ (T \union {x}) \ {x} = T /\ IsFiniteSet(T \union {x})
    BY SmallerSets
  <2>2. Prod(f, T \union {x}) = f[x] * Prod(f, (T \union {x}) \ {x})
    BY <2>1, ProdRemove
  <2>3. Prod(g, T \union {x}) = g[x] * Prod(g, (T \union {x}) \ {x})
    BY <2>1, ProdRemove
  <2>4. QED
    BY <1>2, <2>1, <2>2, <2>3
<1> HIDE DEF B
<1>3. S \in B
  BY <1>1, <1>2, SetSteps
<1>4. QED
  BY <1>3 DEF B

LEMMA ProdNat ==
  ASSUME NEW f, NEW S, IsFiniteSet(S), \A x \in S : f[x] \in Nat
  PROVE  Prod(f, S) \in Nat
<1> DEFINE B == {T \in SUBSET S : Prod(f, T) \in Nat}
<1>1. {} \in B
  BY ProdEmpty
<1>2. ASSUME NEW T \in SUBSET S, NEW x \in S \ T, T \in B
      PROVE  T \union {x} \in B
  <2>1. T \union {x} \in SUBSET S /\ (T \union {x}) \ {x} = T /\ IsFiniteSet(T \union {x})
    BY SmallerSets
  <2>2. Prod(f, T \union {x}) = f[x] * Prod(f, (T \union {x}) \ {x})
    BY <2>1, ProdRemove
  <2>3. f[x] \in Nat /\ Prod(f, T) \in Nat
    BY <1>2
  <2>4. QED
    BY <2>1, <2>2, <2>3
<1> HIDE DEF B
<1>3. S \in B
  BY <1>1, <1>2, SetSteps
<1>4. QED
  BY <1>3 DEF B

LEMMA ProdOne ==
  ASSUME NEW f, NEW S, IsFiniteSet(S), \A x \in S : f[x] = 1
  PROVE  Prod(f, S) = 1
<1> DEFINE B == {T \in SUBSET S : Prod(f, T) = 1}
<1>1. {} \in B
  BY ProdEmpty
<1>2. ASSUME NEW T \in SUBSET S, NEW x \in S \ T, T \in B
      PROVE  T \union {x} \in B
  <2>1. T \union {x} \in SUBSET S /\ (T \union {x}) \ {x} = T /\ IsFiniteSet(T \union {x})
    BY SmallerSets
  <2>2. Prod(f, T \union {x}) = f[x] * Prod(f, (T \union {x}) \ {x})
    BY <2>1, ProdRemove
  <2>3. f[x] = 1 /\ Prod(f, T) = 1
    BY <1>2
  <2>4. QED
    BY <2>1, <2>2, <2>3
<1> HIDE DEF B
<1>3. S \in B
  BY <1>1, <1>2, SetSteps
<1>4. QED
  BY <1>3 DEF B

-----------------------------------------------------------------------------
(* Positions.                                                               *)
LEMMA FunctionsFinite ==
  ASSUME NEW S, IsFiniteSet(S), NEW T, IsFiniteSet(T)
  PROVE  IsFiniteSet([S -> T])
<1> DEFINE B == {D \in SUBSET S : IsFiniteSet([D -> T])}
<1>1. {} \in B
  <2>1. \A g, h \in [{} -> T] : g = h
    OBVIOUS
  <2>2. PICK g : g = [x \in {} |-> x]
    OBVIOUS
  <2>3. g \in [{} -> T]
    BY <2>2
  <2>4. [{} -> T] = {g}
    BY <2>1, <2>3
  <2>5. IsFiniteSet({g})
    BY FS_Singleton
  <2>6. QED
    BY <2>4, <2>5
<1>2. ASSUME NEW D \in SUBSET S, NEW x \in S \ D, D \in B
      PROVE  D \union {x} \in B
  <2> DEFINE E == D \union {x}
             pairs == [D -> T] \X T
             join == [q \in pairs |-> [y \in E |-> IF y = x THEN q[2] ELSE q[1][y]]]
  <2>1. IsFiniteSet(pairs)
    BY <1>2, FS_Product
  <2>2. ASSUME NEW g \in [E -> T]
        PROVE  \E q \in pairs : join[q] = g
    <3> DEFINE q == <<[y \in D |-> g[y]], g[x]>>
    <3>1. q \in pairs
      OBVIOUS
    <3>2. join[q] = [y \in E |-> IF y = x THEN q[2] ELSE q[1][y]]
      BY <3>1
    <3>3. \A y \in E : (IF y = x THEN q[2] ELSE q[1][y]) = g[y]
      OBVIOUS
    <3>4. join[q] = g
      BY <3>2, <3>3
    <3>5. QED
      BY <3>1, <3>4
  <2>3. join \in [pairs -> [E -> T]]
    <3>1. \A q \in pairs : q[1] \in [D -> T] /\ q[2] \in T
      OBVIOUS
    <3>2. QED
      BY <3>1
  <2>4. join \in Surjection(pairs, [E -> T])
    <3> HIDE DEF join, pairs, E
    <3>1. QED
      BY <2>2, <2>3 DEF Surjection
  <2>5. IsFiniteSet([E -> T])
    <3> HIDE DEF join, pairs, E
    <3>1. QED
      BY <2>1, <2>4, FS_Surjection
  <2>6. QED
    BY <2>5
<1> HIDE DEF B
<1>3. S \in B
  BY <1>1, <1>2, SetSteps
<1>4. QED
  BY <1>3 DEF B

LEMMA PositionsFinite == IsFiniteSet(Positions) /\ IsFiniteSet(IndexSets)
<1>1. IsFiniteSet(Conditions) /\ IsFiniteSet(Outcomes)
  BY CtfAssumption
<1>2. IsFiniteSet(IndexSets)
  <2>1. IndexSets \in SUBSET (SUBSET Outcomes) /\ IsFiniteSet(SUBSET Outcomes)
    BY <1>1, FS_SUBSET DEF IndexSets
  <2>2. QED
    BY <2>1, FS_Subset
<1> DEFINE Ds == (SUBSET Conditions) \ {{}}
           All == {[D -> IndexSets] : D \in Ds}
           over == [D \in Ds |-> [D -> IndexSets]]
<1>3. IsFiniteSet(Ds)
  <2>1. IsFiniteSet(SUBSET Conditions) /\ Ds \in SUBSET (SUBSET Conditions)
    BY <1>1, FS_SUBSET
  <2>2. QED
    BY <2>1, FS_Subset
<1>4. over \in Surjection(Ds, All)
  BY DEF Surjection
<1>5. IsFiniteSet(All)
  BY <1>3, <1>4, FS_Surjection
<1>6. \A X \in All : IsFiniteSet(X)
  <2> TAKE X \in All
  <2>1. PICK D \in Ds : X = [D -> IndexSets]
    OBVIOUS
  <2>2. IsFiniteSet(D)
    BY <1>1, FS_Subset
  <2>3. QED
    BY <1>2, <2>1, <2>2, FunctionsFinite
<1>7. IsFiniteSet(UNION All)
  BY <1>5, <1>6, FS_UNION
<1>8. QED
  BY <1>2, <1>7 DEF Positions

\* What p keeps of condition c.
SetOf(p, c) == IF c \in DOMAIN p THEN p[c] ELSE Outcomes

LEMMA PositionIs ==
  /\ Root \notin Positions /\ DOMAIN Root = {}
  /\ \A p \in Positions : /\ DOMAIN p \in SUBSET Conditions
                          /\ p \in [DOMAIN p -> IndexSets]
  /\ \A D \in SUBSET Conditions : D # {} => [D -> IndexSets] \in SUBSET Positions
  /\ \A p \in Positions \union {Root} : \A c \in Conditions : SetOf(p, c) \in SUBSET Outcomes
<1>1. DOMAIN Root = {}
  BY DEF Root
<1>2. \A p \in Positions : /\ DOMAIN p \in SUBSET Conditions /\ DOMAIN p # {}
                          /\ p \in [DOMAIN p -> IndexSets]
  <2> TAKE p \in Positions
  <2>1. PICK X \in {[D -> IndexSets] : D \in (SUBSET Conditions) \ {{}}} : p \in X
    BY DEF Positions
  <2>2. PICK D \in (SUBSET Conditions) \ {{}} : p \in [D -> IndexSets]
    BY <2>1
  <2>3. DOMAIN p = D
    BY <2>2
  <2>4. QED
    BY <2>2, <2>3
<1>3. \A D \in SUBSET Conditions : D # {} => [D -> IndexSets] \in SUBSET Positions
  <2> TAKE D \in SUBSET Conditions
  <2> SUFFICES ASSUME D # {}, NEW p \in [D -> IndexSets] PROVE p \in Positions
    OBVIOUS
  <2>1. [D -> IndexSets] \in {[E -> IndexSets] : E \in (SUBSET Conditions) \ {{}}}
    OBVIOUS
  <2>2. QED
    BY <2>1 DEF Positions
<1>4. \A p \in Positions \union {Root} : \A c \in Conditions : SetOf(p, c) \in SUBSET Outcomes
  <2> TAKE p \in Positions \union {Root}
  <2> TAKE c \in Conditions
  <2>1. CASE c \in DOMAIN p
    <3>1. p[c] \in IndexSets
      BY <1>1, <1>2, <2>1
    <3>2. QED
      BY <2>1, <3>1 DEF SetOf, IndexSets
  <2>2. CASE c \notin DOMAIN p
    BY <2>2 DEF SetOf
  <2>3. QED
    BY <2>1, <2>2
<1>5. QED
  BY <1>1, <1>2, <1>3, <1>4

LEMMA ExtendIs ==
  ASSUME NEW c \in Conditions, NEW p \in Parents(c)
  PROVE  /\ p \in Positions \union {Root} /\ c \notin DOMAIN p
         /\ \A S \in IndexSets : /\ Extend(p, c, S) \in Positions
                                /\ SetOf(Extend(p, c, S), c) = S
         /\ \A S : \A d \in Conditions \ {c} : SetOf(Extend(p, c, S), d) = SetOf(p, d)
         /\ \A S, T : Extend(p, c, S) = Extend(p, c, T) => S = T
<1>1. p \in Positions \union {Root} /\ c \notin DOMAIN p
  BY DEF Parents
<1>2. /\ DOMAIN p \in SUBSET Conditions
      /\ \A d \in DOMAIN p : p[d] \in IndexSets
  BY <1>1, PositionIs
<1>3. \A S \in IndexSets : Extend(p, c, S) \in [DOMAIN p \union {c} -> IndexSets]
  BY <1>2 DEF Extend
<1>4. \A S \in IndexSets : Extend(p, c, S) \in Positions
  <2>1. DOMAIN p \union {c} \in SUBSET Conditions /\ DOMAIN p \union {c} # {}
    BY <1>2
  <2>2. QED
    BY <1>3, <2>1, PositionIs
<1>5. \A S : Extend(p, c, S)[c] = S /\ DOMAIN Extend(p, c, S) = DOMAIN p \union {c}
  BY DEF Extend
<1>6. \A S : \A d \in DOMAIN p : d # c => Extend(p, c, S)[d] = p[d]
  BY DEF Extend
<1>7. QED
  BY <1>1, <1>4, <1>5, <1>6 DEF SetOf

-----------------------------------------------------------------------------
(* What a position is worth.                                                *)
DenOK == \A c \in Conditions : den[c] > 0 => den[c] = VectorSum(numerator[c])

PF(c, S, w) == IF den[c] > 0 THEN IndexSetNumerator(c, S)
               ELSE IF w[c] \in S THEN 1 ELSE 0
Factors(p, w) == [c \in Conditions |-> Factor(p, c, w)]
Rest(p, c, w) == Prod(Factors(p, w), Conditions \ {c})

LEMMA NumeratorNat ==
  ASSUME LedgerTypeOK, NEW c \in Conditions, NEW S \in SUBSET Outcomes
  PROVE  IndexSetNumerator(c, S) \in Nat
<1>1. IsFiniteSet(S) /\ \A o \in S : numerator[c][o] \in Nat
  BY CtfAssumption, FS_Subset DEF LedgerTypeOK
<1>2. Sum(numerator[c], S) \in Nat
  BY <1>1, SumNat
<1>3. QED
  BY <1>2 DEF Sum, IndexSetNumerator

LEMMA FactorIs ==
  ASSUME LedgerTypeOK, DenOK, NEW w \in Worlds, NEW c \in Conditions,
         NEW p \in Positions \union {Root}
  PROVE  /\ Factor(p, c, w) = PF(c, SetOf(p, c), w)
         /\ Factor(p, c, w) \in Nat
         /\ Factors(p, w)[c] = Factor(p, c, w)
<1>1. SetOf(p, c) \in SUBSET Outcomes /\ w[c] \in Outcomes /\ den[c] \in Nat
  BY PositionIs DEF Worlds, LedgerTypeOK
<1>2. Factor(p, c, w) = PF(c, SetOf(p, c), w)
  <2>1. CASE den[c] > 0 /\ c \in DOMAIN p
    BY <2>1 DEF Factor, PF, SetOf
  <2>2. CASE den[c] > 0 /\ c \notin DOMAIN p
    <3>1. Factor(p, c, w) = den[c]
      BY <2>2 DEF Factor
    <3>2. den[c] = IndexSetNumerator(c, Outcomes)
      BY <2>2 DEF DenOK, VectorSum, IndexSetNumerator
    <3>3. QED
      BY <2>2, <3>1, <3>2 DEF PF, SetOf
  <2>3. CASE den[c] = 0 /\ c \in DOMAIN p
    BY <2>3 DEF Factor, PF, SetOf
  <2>4. CASE den[c] = 0 /\ c \notin DOMAIN p
    <3>1. Factor(p, c, w) = 1
      BY <2>4 DEF Factor
    <3>2. QED
      BY <1>1, <2>4, <3>1 DEF PF, SetOf
  <2>5. QED
    BY <1>1, <2>1, <2>2, <2>3, <2>4
<1>3. PF(c, SetOf(p, c), w) \in Nat
  BY <1>1, NumeratorNat DEF PF
<1>4. QED
  BY <1>2, <1>3 DEF Factors

LEMMA WorthIs ==
  ASSUME LedgerTypeOK, DenOK, NEW w \in Worlds, NEW p \in Positions \union {Root}
  PROVE  /\ Worth(p, w) = Prod(Factors(p, w), Conditions)
         /\ Worth(p, w) \in Nat
         /\ \A c \in Conditions : /\ Worth(p, w) = PF(c, SetOf(p, c), w) * Rest(p, c, w)
                                 /\ PF(c, SetOf(p, c), w) \in Nat /\ Rest(p, c, w) \in Nat
<1>1. IsFiniteSet(Conditions) /\ \A c \in Conditions : Factors(p, w)[c] \in Nat
  BY CtfAssumption, FactorIs
<1>2. Worth(p, w) = Prod(Factors(p, w), Conditions)
  BY DEF Worth, Product, FoldFunction, Prod, Factors
<1>3. Worth(p, w) \in Nat
  BY <1>1, <1>2, ProdNat
<1>4. ASSUME NEW c \in Conditions
      PROVE  /\ Worth(p, w) = PF(c, SetOf(p, c), w) * Rest(p, c, w)
             /\ PF(c, SetOf(p, c), w) \in Nat /\ Rest(p, c, w) \in Nat
  <2>1. Prod(Factors(p, w), Conditions) = Factors(p, w)[c] * Rest(p, c, w)
    BY <1>1, ProdRemove DEF Rest
  <2>2. Factors(p, w)[c] = PF(c, SetOf(p, c), w) /\ PF(c, SetOf(p, c), w) \in Nat
    BY FactorIs
  <2>3. IsFiniteSet(Conditions \ {c})
    BY <1>1, FS_RemoveElement
  <2>4. Rest(p, c, w) \in Nat
    BY <1>1, <2>3, ProdNat DEF Rest
  <2>5. QED
    BY <1>2, <2>1, <2>2, <2>4
<1>5. QED
  BY <1>2, <1>3, <1>4

(* What the other conditions make of a position depends on nothing else.    *)
LEMMA RestSame ==
  ASSUME LedgerTypeOK, DenOK, NEW w \in Worlds, NEW v \in Worlds,
         NEW p \in Positions \union {Root}, NEW q \in Positions \union {Root},
         NEW c \in Conditions,
         \A d \in Conditions \ {c} : SetOf(p, d) = SetOf(q, d) /\ w[d] = v[d]
  PROVE  Rest(p, c, w) = Rest(q, c, v)
<1>1. IsFiniteSet(Conditions \ {c})
  BY CtfAssumption, FS_RemoveElement
<1>2. \A d \in Conditions \ {c} :
        Factors(q, v)[d] \in Int /\ Factors(p, w)[d] = Factors(q, v)[d]
  <2> TAKE d \in Conditions \ {c}
  <2>1. PF(d, SetOf(p, d), w) = PF(d, SetOf(q, d), v)
    BY DEF PF
  <2>2. QED
    BY <2>1, FactorIs
<1>3. QED
  BY <1>1, <1>2, ProdEqual DEF Rest

LEMMA PFAdds ==
  ASSUME LedgerTypeOK, NEW w, NEW c \in Conditions,
         NEW S \in SUBSET Outcomes, NEW T \in SUBSET Outcomes, S \intersect T = {}
  PROVE  PF(c, S \union T, w) = PF(c, S, w) + PF(c, T, w)
<1>1. IsFiniteSet(Outcomes) /\ \A o \in Outcomes : numerator[c][o] \in Int
  BY CtfAssumption DEF LedgerTypeOK
<1>2. Sum(numerator[c], S \union T) = Sum(numerator[c], S) + Sum(numerator[c], T)
  BY <1>1, SumUnion
<1>3. QED
  BY <1>2 DEF Sum, IndexSetNumerator, PF

-----------------------------------------------------------------------------
(* What is owed, of any balances.                                           *)
Balances == [Accounts -> [Positions -> Int]]
SupplyIn(b, p) == SumFunction([a \in Accounts |-> b[a][p]])
OwedIn(b, w) == SumFunction([p \in Positions |-> SupplyIn(b, p) * Worth(p, w)])
WorthOf(w) == [p \in Positions |-> Worth(p, w)]

LEMMA SumOfFunction ==
  \A f : SumFunction(f) = Sum(f, DOMAIN f)
BY DEF SumFunction, Sum

LEMMA OwedInIs ==
  ASSUME LedgerTypeOK, DenOK, NEW w \in Worlds, NEW b \in Balances
  PROVE  /\ \A p \in Positions : SupplyIn(b, p) = Sum([a \in Accounts |-> b[a][p]], Accounts)
         /\ \A p \in Positions : SupplyIn(b, p) \in Int /\ Worth(p, w) \in Int
         /\ OwedIn(b, w) = Sum([p \in Positions |-> SupplyIn(b, p) * Worth(p, w)], Positions)
         /\ OwedIn(b, w) \in Int
<1>1. ASSUME NEW p \in Positions
      PROVE  /\ SupplyIn(b, p) = Sum([a \in Accounts |-> b[a][p]], Accounts)
             /\ SupplyIn(b, p) \in Int /\ Worth(p, w) \in Int
  <2> DEFINE f == [a \in Accounts |-> b[a][p]]
  <2>1. SupplyIn(b, p) = Sum(f, Accounts)
    BY SumOfFunction DEF SupplyIn
  <2>2. \A a \in Accounts : f[a] \in Int
    BY DEF Balances
  <2> HIDE DEF f
  <2>3. Sum(f, Accounts) \in Int
    BY <2>2, CtfAssumption, SumInt
  <2>4. Worth(p, w) \in Int
    BY WorthIs
  <2>5. QED
    BY <2>1, <2>3, <2>4 DEF f
<1> DEFINE g == [p \in Positions |-> SupplyIn(b, p) * Worth(p, w)]
<1>2. OwedIn(b, w) = Sum(g, Positions)
  BY SumOfFunction DEF OwedIn
<1>3. \A p \in Positions : g[p] \in Int
  BY <1>1, MulSwaps
<1>4. Sum(g, Positions) \in Int
  <2> HIDE DEF g
  <2>1. QED
    BY <1>3, PositionsFinite, SumInt
<1>5. QED
  BY <1>1, <1>2, <1>4

(* The balances of one account change by d.                                 *)
LEMMA OwedChanges ==
  ASSUME LedgerTypeOK, DenOK, NEW w \in Worlds, NEW b \in Balances, NEW a \in Accounts,
         NEW d \in [Positions -> Int],
         NEW b2, b2 = [b EXCEPT ![a] = [p \in Positions |-> b[a][p] + d[p]]]
  PROVE  /\ b2 \in Balances
         /\ OwedIn(b2, w) = OwedIn(b, w)
                             + Sum([p \in Positions |-> d[p] * Worth(p, w)], Positions)
         /\ Sum([p \in Positions |-> d[p] * Worth(p, w)], Positions) \in Int
<1>1. b2 \in Balances
  BY DEF Balances
<1>2. /\ \A p \in Positions : b2[a][p] = b[a][p] + d[p]
      /\ \A c \in Accounts \ {a} : b2[c] = b[c]
  BY DEF Balances
<1>3. ASSUME NEW p \in Positions
      PROVE  SupplyIn(b2, p) = SupplyIn(b, p) + d[p]
  <2> DEFINE f == [c \in Accounts |-> b[c][p]]
             g == [c \in Accounts |-> b2[c][p]]
  <2>1. \A c \in Accounts : f[c] \in Int /\ g[c] \in Int
    BY <1>1 DEF Balances
  <2>2. \A c \in Accounts \ {a} : g[c] = f[c]
    BY <1>2
  <2>3. g[a] = f[a] + d[p]
    BY <1>2
  <2>4. SupplyIn(b, p) = Sum(f, Accounts) /\ SupplyIn(b2, p) = Sum(g, Accounts)
    BY <1>1, OwedInIs
  <2> HIDE DEF f, g
  <2>5. IsFiniteSet(Accounts) /\ IsFiniteSet(Accounts \ {a})
    BY CtfAssumption, FS_RemoveElement
  <2>6. Sum(g, Accounts \ {a}) = Sum(f, Accounts \ {a}) /\ Sum(f, Accounts \ {a}) \in Int
    BY <2>1, <2>2, <2>5, SumEqual, SumInt
  <2>7. /\ Sum(f, Accounts) = f[a] + Sum(f, Accounts \ {a})
        /\ Sum(g, Accounts) = g[a] + Sum(g, Accounts \ {a})
    BY <2>1, <2>5, SumRemove
  <2>8. f[a] \in Int /\ d[p] \in Int
    BY <2>1
  <2>9. QED
    BY <2>3, <2>4, <2>6, <2>7, <2>8
<1> DEFINE f == [p \in Positions |-> SupplyIn(b, p) * Worth(p, w)]
           g == [p \in Positions |-> d[p] * Worth(p, w)]
           h == [p \in Positions |-> SupplyIn(b2, p) * Worth(p, w)]
<1>4. \A p \in Positions : f[p] \in Int /\ g[p] \in Int /\ h[p] = f[p] + 1 * g[p]
  <2> TAKE p \in Positions
  <2>1. SupplyIn(b, p) \in Int /\ Worth(p, w) \in Int /\ d[p] \in Int
    BY OwedInIs
  <2>2. (SupplyIn(b, p) + d[p]) * Worth(p, w) = SupplyIn(b, p) * Worth(p, w) + d[p] * Worth(p, w)
    BY <2>1
  <2>3. SupplyIn(b, p) * Worth(p, w) \in Int /\ d[p] * Worth(p, w) \in Int
    BY <2>1, MulSwaps
  <2>4. h[p] = (SupplyIn(b, p) + d[p]) * Worth(p, w)
    BY <1>3
  <2>5. f[p] = SupplyIn(b, p) * Worth(p, w) /\ g[p] = d[p] * Worth(p, w)
    OBVIOUS
  <2> HIDE DEF f, g, h
  <2>6. QED
    BY <2>2, <2>3, <2>4, <2>5
<1>5. OwedIn(b, w) = Sum(f, Positions) /\ OwedIn(b2, w) = Sum(h, Positions)
  BY <1>1, OwedInIs
<1>6. Sum(h, Positions) = Sum(f, Positions) + 1 * Sum(g, Positions)
  <2> HIDE DEF f, g, h
  <2>1. QED
    BY <1>4, PositionsFinite, SumLinear
<1>7. Sum(f, Positions) \in Int /\ Sum(g, Positions) \in Int
  <2> HIDE DEF f, g, h
  <2>1. QED
    BY <1>4, PositionsFinite, SumInt
<1>8. OwedIn(b2, w) = OwedIn(b, w) + Sum(g, Positions)
  <2> HIDE DEF f, g, h
  <2>1. QED
    BY <1>5, <1>6, <1>7
<1>9. QED
  BY <1>1, <1>7, <1>8

(* n of each of some positions are given to an account, or taken from it.   *)
LEMMA CreditOwed ==
  ASSUME LedgerTypeOK, DenOK, NEW w \in Worlds, NEW b \in Balances, NEW a \in Accounts,
         NEW ps, NEW n \in Int
  PROVE  /\ Credit(b, a, ps, n) \in Balances
         /\ ps \in SUBSET Positions =>
               /\ OwedIn(Credit(b, a, ps, n), w) = OwedIn(b, w) + n * Sum(WorthOf(w), ps)
               /\ Sum(WorthOf(w), ps) \in Int
         /\ ps \intersect Positions = {} => Credit(b, a, ps, n) = b
<1> DEFINE d == [p \in Positions |-> IF p \in ps THEN n ELSE 0]
           b2 == Credit(b, a, ps, n)
<1>1. d \in [Positions -> Int]
  OBVIOUS
<1>2. b2 = [b EXCEPT ![a] = [p \in Positions |-> b[a][p] + d[p]]]
  BY DEF Credit, Balances
<1>3. b2 \in Balances
  <2> HIDE DEF d, b2
  <2>1. QED
    BY <1>1, <1>2, OwedChanges
<1>4. ASSUME ps \in SUBSET Positions
      PROVE  /\ OwedIn(b2, w) = OwedIn(b, w) + n * Sum(WorthOf(w), ps)
             /\ Sum(WorthOf(w), ps) \in Int
  <2> DEFINE e == [p \in Positions |-> d[p] * Worth(p, w)]
             u == [p \in Positions |-> n * Worth(p, w)]
             z == [p \in Positions |-> 0]
  <2>1. OwedIn(b2, w) = OwedIn(b, w) + Sum(e, Positions)
    <3> HIDE DEF d, b2
    <3>1. QED
      BY <1>1, <1>2, OwedChanges
  <2>2. \A p \in Positions : Worth(p, w) \in Int /\ WorthOf(w)[p] = Worth(p, w)
    BY OwedInIs DEF WorthOf
  <2>3. \A p \in Positions : e[p] = IF p \in ps THEN u[p] ELSE 0
    BY <2>2
  <2>4. \A p \in ps : /\ z[p] \in Int /\ WorthOf(w)[p] \in Int /\ u[p] \in Int
                      /\ u[p] = z[p] + n * WorthOf(w)[p]
    BY <1>4, <2>2, MulSwaps
  <2>5. IsFiniteSet(ps) /\ IsFiniteSet(Positions)
    BY <1>4, PositionsFinite, FS_Subset
  <2>6. Sum(z, ps) = 0
    BY <1>4, <2>5, SumZero
  <2> HIDE DEF e, u, z, d
  <2>7. Sum(e, Positions) = Sum(u, ps)
    BY <1>4, <2>3, <2>4, <2>5, SumWithin
  <2>8. Sum(u, ps) = Sum(z, ps) + n * Sum(WorthOf(w), ps)
    BY <2>4, <2>5, SumLinear
  <2>9. Sum(WorthOf(w), ps) \in Int
    BY <2>4, <2>5, SumInt
  <2>10. n * Sum(WorthOf(w), ps) \in Int
    BY <2>9, MulSwaps
  <2>11. QED
    BY <2>1, <2>6, <2>7, <2>8, <2>9, <2>10
<1>5. ASSUME ps \intersect Positions = {}
      PROVE  b2 = b
  <2>1. [p \in Positions |-> b[a][p] + d[p]] = b[a]
    <3>1. b[a] \in [Positions -> Int] /\ \A p \in Positions : d[p] = 0
      BY <1>5 DEF Balances
    <3>2. \A p \in Positions : b[a][p] + d[p] = b[a][p]
      BY <3>1
    <3>3. QED
      BY <3>1, <3>2
  <2>2. QED
    BY <1>2, <2>1 DEF Balances
<1>6. QED
  BY <1>3, <1>4, <1>5

-----------------------------------------------------------------------------
(* Pieces of a position.                                                    *)
ValueOf(m, w) == [p \in Positions |-> m[p] * Worth(p, w)]

(* Amounts of the pieces, whatever the index sets.                          *)
LEMMA PiecesValue ==
  ASSUME LedgerTypeOK, DenOK, NEW w \in Worlds, NEW c \in Conditions, NEW parent \in Parents(c),
         NEW I \in SUBSET IndexSets, NEW m \in [Positions -> Int]
  PROVE  /\ Pieces(parent, c, I) \in SUBSET Positions
         /\ Sum([S \in I |-> m[Extend(parent, c, S)] * PF(c, S, w)], I) \in Int
         /\ Sum(ValueOf(m, w), Pieces(parent, c, I))
              = Rest(parent, c, w)
                  * Sum([S \in I |-> m[Extend(parent, c, S)] * PF(c, S, w)], I)
<1> DEFINE e == [S \in I |-> Extend(parent, c, S)]
           f == ValueOf(m, w)
           g == [S \in I |-> f[e[S]]]
           h == [S \in I |-> m[Extend(parent, c, S)] * PF(c, S, w)]
           z == [S \in I |-> 0]
           k == Rest(parent, c, w)
<1>0. IsFiniteSet(I)
  BY PositionsFinite, FS_Subset
<1>1. /\ Pieces(parent, c, I) = {e[S] : S \in I} /\ Pieces(parent, c, I) \in SUBSET Positions
      /\ \A S \in I : e[S] \in Positions
      /\ \A S, T \in I : e[S] = e[T] => S = T
  BY ExtendIs DEF Pieces
<1>2. \A p \in Positions : f[p] = m[p] * Worth(p, w) /\ f[p] \in Int /\ Worth(p, w) \in Nat
  <2> TAKE p \in Positions
  <2>1. Worth(p, w) \in Nat /\ m[p] \in Int
    BY WorthIs
  <2>2. QED
    BY <2>1, MulSwaps DEF ValueOf
<1>3. Sum(f, {e[S] : S \in I}) = Sum(g, I)
  <2>1. \A S \in I : f[e[S]] \in Int /\ g[S] = f[e[S]]
    BY <1>1, <1>2
  <2>2. \A S, T \in I : e[S] = e[T] => S = T
    BY <1>1
  <2> HIDE DEF e, f, g
  <2>3. /\ IsFiniteSet({e[S] : S \in I})
        /\ Sum(f, {e[S] : S \in I}) = Sum(g, I)
    BY <1>0, <2>1, <2>2, SumImage
  <2>4. QED
    BY <2>3
<1>4. \A S \in I : /\ z[S] \in Int /\ h[S] \in Int /\ k \in Int
                   /\ g[S] = z[S] + k * h[S]
  <2> TAKE S \in I
  <2> DEFINE q == Extend(parent, c, S)
  <2>1. /\ q \in Positions /\ SetOf(q, c) = S /\ parent \in Positions \union {Root}
        /\ \A d \in Conditions \ {c} : SetOf(q, d) = SetOf(parent, d)
    BY ExtendIs
  <2> HIDE DEF q
  <2>2. Rest(q, c, w) = k /\ k \in Nat
    <3>1. k \in Nat
      BY <2>1, WorthIs
    <3>2. QED
      BY <2>1, <3>1, RestSame
  <2>3. Worth(q, w) = PF(c, S, w) * k /\ PF(c, S, w) \in Nat
    BY <2>1, <2>2, WorthIs
  <2>4. g[S] = m[q] * Worth(q, w) /\ h[S] = m[q] * PF(c, S, w) /\ m[q] \in Int
    BY <1>2, <2>1 DEF q
  <2>5. m[q] * (PF(c, S, w) * k) = k * (m[q] * PF(c, S, w))
    <3>1. \A x, y, t \in Int : x * (y * t) = t * (x * y)
      OBVIOUS
    <3>2. QED
      BY <2>2, <2>3, <2>4, <3>1
  <2>6. h[S] \in Int /\ k * h[S] \in Int /\ k \in Int /\ g[S] = k * h[S] /\ z[S] = 0
    BY <2>2, <2>3, <2>4, <2>5, MulSwaps
  <2> HIDE DEF g, h, k, z
  <2>7. QED
    BY <2>6
<1> HIDE DEF e, f, g, h, k, z
<1>5. Sum(z, I) = 0
  BY <1>0, SumZero DEF z
<1>6. k \in Int
  BY ExtendIs, WorthIs DEF k
<1>7. Sum(g, I) = Sum(z, I) + k * Sum(h, I) /\ Sum(h, I) \in Int
  <2>1. Sum(h, I) \in Int
    BY <1>0, <1>4, SumInt
  <2>2. Sum(g, I) = Sum(z, I) + k * Sum(h, I)
    BY <1>0, <1>4, <1>6, SumLinear
  <2>3. QED
    BY <2>1, <2>2
<1>8. k * Sum(h, I) \in Int
  BY <1>6, <1>7, MulSwaps
<1>9. Sum(f, Pieces(parent, c, I)) = k * Sum(h, I)
  BY <1>1, <1>3, <1>5, <1>7, <1>8
<1>10. QED
  BY <1>1, <1>7, <1>9 DEF f, h, k

(* Disjoint index sets are together what their union is.                    *)
LEMMA PartsAddUp ==
  ASSUME LedgerTypeOK, NEW w \in Worlds, NEW c \in Conditions, NEW P, ValidPartition(P)
  PROVE  Sum([S \in P |-> PF(c, S, w)], P) = PF(c, UNION P, w)
<1> DEFINE f == [S \in P |-> PF(c, S, w)]
           B == {Q \in SUBSET P : Sum(f, Q) = PF(c, UNION Q, w)}
<1>0. /\ P \in SUBSET IndexSets /\ IsFiniteSet(P)
      /\ \A S \in P : S \in SUBSET Outcomes
      /\ \A S, T \in P : S # T => S \intersect T = {}
  BY PositionsFinite, FS_Subset DEF ValidPartition, IndexSets
<1>1. \A S \in SUBSET Outcomes : PF(c, S, w) \in Int
  BY NumeratorNat DEF PF
<1>2. \A S \in P : f[S] \in Int /\ f[S] = PF(c, S, w)
  BY <1>0, <1>1
<1>3. {} \in B
  <2>1. UNION {} = {}
    OBVIOUS
  <2>2. PF(c, {}, w) = 0
    BY SumEmpty DEF PF, IndexSetNumerator, Sum
  <2>3. QED
    BY <2>1, <2>2, SumEmpty
<1>4. ASSUME NEW Q \in SUBSET P, NEW S \in P \ Q, Q \in B
      PROVE  Q \union {S} \in B
  <2>1. UNION (Q \union {S}) = S \union UNION Q
    OBVIOUS
  <2>2. /\ UNION Q \in SUBSET Outcomes /\ S \in SUBSET Outcomes
        /\ S \intersect UNION Q = {}
    BY <1>0
  <2>3. PF(c, S \union UNION Q, w) = PF(c, S, w) + PF(c, UNION Q, w)
    BY <2>2, PFAdds
  <2>4. Sum(f, Q) = PF(c, UNION Q, w)
    BY <1>4
  <2> HIDE DEF f
  <2>5. Sum(f, Q \union {S}) = f[S] + Sum(f, Q)
    BY <1>0, <1>2, SumAdd
  <2>6. f[S] = PF(c, S, w)
    BY <1>2
  <2>7. Sum(f, Q \union {S}) = PF(c, UNION (Q \union {S}), w)
    BY <2>1, <2>3, <2>4, <2>5, <2>6
  <2>8. QED
    BY <2>7
<1> HIDE DEF B
<1>5. P \in B
  BY <1>0, <1>3, <1>4, SetSteps
<1>6. QED
  BY <1>5 DEF B

(* A partition is worth what it is carved from.                             *)
LEMMA PartitionWorth ==
  ASSUME LedgerTypeOK, DenOK, NEW w \in Worlds, NEW c \in Conditions, NEW parent \in Parents(c),
         NEW P, ValidPartition(P)
  PROVE  /\ Whole(parent, c, P) \in Positions \union {Root}
         /\ Pieces(parent, c, P) \in SUBSET Positions
         /\ Sum(WorthOf(w), Pieces(parent, c, P)) = Worth(Whole(parent, c, P), w)
<1> DEFINE q == Whole(parent, c, P)
           one == [p \in Positions |-> 1]
           k == Rest(parent, c, w)
<1>0. /\ P \in SUBSET IndexSets /\ P # {} /\ UNION P \in SUBSET Outcomes
      /\ UNION P # {}
  <2>1. P \in SUBSET IndexSets /\ P # {}
    <3>1. P \in SUBSET IndexSets /\ Cardinality(P) > 1
      BY DEF ValidPartition
    <3>2. Cardinality({}) = 0
      BY FS_EmptySet
    <3>3. QED
      BY <3>1, <3>2
  <2>2. QED
    BY <2>1 DEF IndexSets
<1>1. /\ parent \in Positions \union {Root} /\ c \notin DOMAIN parent
      /\ q \in Positions \union {Root} /\ SetOf(q, c) = UNION P
      /\ \A d \in Conditions \ {c} : SetOf(q, d) = SetOf(parent, d)
  <2>1. CASE UNION P = Outcomes
    <3>1. q = parent
      BY <2>1 DEF Whole
    <3>2. QED
      BY <2>1, <3>1, ExtendIs DEF SetOf
  <2>2. CASE UNION P # Outcomes
    <3>1. PICK U : U = UNION P
      OBVIOUS
    <3>2. q = Extend(parent, c, U) /\ U \in IndexSets
      BY <1>0, <2>2, <3>1 DEF Whole, IndexSets
    <3>3. \A d \in Conditions \ {c} : SetOf(Extend(parent, c, U), d) = SetOf(parent, d)
      BY ExtendIs
    <3>4. /\ parent \in Positions \union {Root} /\ c \notin DOMAIN parent
          /\ Extend(parent, c, U) \in Positions /\ SetOf(Extend(parent, c, U), c) = U
      BY <3>2, ExtendIs
    <3> HIDE DEF q
    <3>5. QED
      BY <3>1, <3>2, <3>3, <3>4
  <2>3. QED
    BY <2>1, <2>2
<1> HIDE DEF q
<1>2. k \in Nat /\ Rest(q, c, w) = k
  <2>1. k \in Nat
    BY <1>1, WorthIs
  <2>2. QED
    BY <1>1, <2>1, RestSame
<1>3. Worth(q, w) = PF(c, UNION P, w) * k /\ PF(c, UNION P, w) \in Nat
  BY <1>1, <1>2, WorthIs
<1>4. /\ Pieces(parent, c, P) \in SUBSET Positions
      /\ Sum(ValueOf(one, w), Pieces(parent, c, P))
           = k * Sum([S \in P |-> one[Extend(parent, c, S)] * PF(c, S, w)], P)
  <2>1. one \in [Positions -> Int]
    OBVIOUS
  <2> HIDE DEF one
  <2>2. QED
    BY <1>0, <2>1, PiecesValue
<1>5. ValueOf(one, w) = WorthOf(w)
  <2>1. \A p \in Positions : one[p] * Worth(p, w) = Worth(p, w)
    BY WorthIs
  <2>2. QED
    BY <2>1 DEF ValueOf, WorthOf
<1>6. [S \in P |-> one[Extend(parent, c, S)] * PF(c, S, w)] = [S \in P |-> PF(c, S, w)]
  <2>1. \A S \in P : PF(c, S, w) \in Nat /\ one[Extend(parent, c, S)] = 1
    <3>1. \A S \in P : S \in SUBSET Outcomes /\ Extend(parent, c, S) \in Positions
      BY <1>0, ExtendIs DEF IndexSets
    <3>2. QED
      BY <3>1, NumeratorNat DEF PF
  <2> HIDE DEF one
  <2>2. \A S \in P : one[Extend(parent, c, S)] * PF(c, S, w) = PF(c, S, w)
    BY <2>1
  <2>3. QED
    BY <2>2
<1>7. Sum(WorthOf(w), Pieces(parent, c, P)) = k * PF(c, UNION P, w)
  BY <1>4, <1>5, <1>6, PartsAddUp
<1>8. k * PF(c, UNION P, w) = PF(c, UNION P, w) * k
  BY <1>2, <1>3
<1>9. QED
  BY <1>1, <1>3, <1>4, <1>7, <1>8 DEF q

-----------------------------------------------------------------------------
(* The contract's collateral k over the face value of the balances b.       *)
Gap(b, k, w) == k * Worth(Root, w) - OwedIn(b, w)

LEMMA OwedIs ==
  /\ \A w : Owed(w) = OwedIn(bal, w)
  /\ LedgerTypeOK => bal \in Balances
BY DEF Owed, OwedIn, Supply, SupplyIn, Balances, LedgerTypeOK

LEMMA ValueOfOne ==
  ASSUME LedgerTypeOK, DenOK, NEW w \in Worlds, NEW p \in Positions
  PROVE  Sum(WorthOf(w), {p}) = Worth(p, w) /\ Worth(p, w) \in Nat
<1>1. Worth(p, w) \in Nat
  BY WorthIs
<1>2. IsFiniteSet({p}) /\ \A q \in {p} : WorthOf(w)[q] = Worth(p, w)
  BY FS_Singleton DEF WorthOf
<1>3. Sum(WorthOf(w), {p}) = WorthOf(w)[p] + Sum(WorthOf(w), {p} \ {p})
  BY <1>1, <1>2, SumRemove
<1>4. {p} \ {p} = {}
  OBVIOUS
<1>5. QED
  BY <1>1, <1>2, <1>3, <1>4, SumEmpty

(* Splitting and merging: n more of each piece, n less of the whole.        *)
LEMMA MovesBalanced ==
  ASSUME LedgerTypeOK, DenOK, NEW w \in Worlds, NEW c \in Conditions, NEW parent \in Parents(c),
         NEW P, ValidPartition(P), NEW a \in Accounts, NEW n \in Int, NEW m \in Int, m = -n,
         NEW b2, b2 = Credit(Credit(bal, a, Pieces(parent, c, P), n), a,
                             {Whole(parent, c, P)}, m),
         NEW k2, k2 = IF Whole(parent, c, P) = Root THEN pot + n ELSE pot
  PROVE  b2 \in Balances /\ Gap(b2, k2, w) = Gap(bal, pot, w)
<1> DEFINE q == Whole(parent, c, P)
           ps == Pieces(parent, c, P)
           b1 == Credit(bal, a, ps, n)
           X == Worth(q, w)
           R == Worth(Root, w)
<1>1. /\ q \in Positions \union {Root} /\ ps \in SUBSET Positions
      /\ Sum(WorthOf(w), ps) = X
  BY PartitionWorth
<1>2. bal \in Balances /\ pot \in Nat /\ X \in Nat /\ R \in Nat
  <2>1. X \in Nat
    BY <1>1, WorthIs
  <2>2. QED
    BY <2>1, WorthIs, OwedIs DEF LedgerTypeOK
<1> HIDE DEF X, R
<1>3. b1 \in Balances /\ OwedIn(b1, w) = OwedIn(bal, w) + n * X
  BY <1>1, <1>2, CreditOwed
<1>4. OwedIn(bal, w) \in Int /\ n * X \in Int
  <2>1. OwedIn(bal, w) \in Int
    BY <1>2, OwedInIs
  <2>2. QED
    BY <1>2, <2>1, MulSwaps
<1>5. b2 = Credit(b1, a, {q}, m)
  OBVIOUS
<1> HIDE DEF b1, ps, q
<1>6. CASE q \in Positions
  <2>1. {q} \in SUBSET Positions /\ Sum(WorthOf(w), {q}) = X
    BY <1>6, ValueOfOne DEF X
  <2>2. b2 \in Balances /\ OwedIn(b2, w) = OwedIn(b1, w) + m * X
    BY <1>3, <1>5, <2>1, CreditOwed
  <2>3. m * X = -(n * X)
    BY <1>2
  <2>4. k2 = pot
    BY <1>6, PositionIs DEF q
  <2>5. OwedIn(b2, w) = OwedIn(bal, w)
    BY <1>3, <1>4, <2>2, <2>3
  <2>6. QED
    BY <2>2, <2>4, <2>5 DEF Gap
<1>7. CASE q = Root
  <2>1. {q} \intersect Positions = {} /\ X = R /\ k2 = pot + n
    BY <1>7, PositionIs DEF X, R, q
  <2>2. b2 \in Balances /\ b2 = b1
    BY <1>3, <1>5, <2>1, CreditOwed
  <2>3. (pot + n) * R = pot * R + n * R /\ pot * R \in Int /\ n * R \in Int
    BY <1>2, MulSwaps
  <2>4. Gap(b2, k2, w) = pot * R + n * R - (OwedIn(bal, w) + n * R)
    <3>1. Gap(b2, k2, w) = k2 * R - OwedIn(b2, w)
      BY DEF Gap, R
    <3>2. OwedIn(b2, w) = OwedIn(bal, w) + n * R /\ k2 * R = (pot + n) * R
      BY <1>3, <2>1, <2>2
    <3>3. QED
      BY <1>4, <2>3, <3>1, <3>2
  <2>5. Gap(bal, pot, w) = pot * R - OwedIn(bal, w)
    BY DEF Gap, R
  <2>6. QED
    BY <1>4, <2>2, <2>3, <2>4, <2>5
<1>8. QED
  BY <1>1, <1>6, <1>7

LEMMA TransferBalanced ==
  ASSUME LedgerTypeOK, DenOK, NEW w \in Worlds, NEW ps \in SUBSET Positions,
         NEW from \in Accounts, NEW to \in Accounts, NEW n \in Int, NEW m \in Int, m = -n,
         NEW b2, b2 = Credit(Credit(bal, from, ps, m), to, ps, n)
  PROVE  b2 \in Balances /\ OwedIn(b2, w) = OwedIn(bal, w)
<1> DEFINE b1 == Credit(bal, from, ps, m)
           X == Sum(WorthOf(w), ps)
<1>1. bal \in Balances /\ OwedIn(bal, w) \in Int
  BY OwedIs, OwedInIs
<1>2. b1 \in Balances /\ OwedIn(b1, w) = OwedIn(bal, w) + m * X /\ X \in Int
  BY <1>1, CreditOwed
<1>3. b2 = Credit(b1, to, ps, n)
  OBVIOUS
<1> HIDE DEF b1
<1>4. b2 \in Balances /\ OwedIn(b2, w) = OwedIn(b1, w) + n * X
  BY <1>2, <1>3, CreditOwed
<1> HIDE DEF X
<1>5. m * X = -(n * X) /\ n * X \in Int
  BY <1>2, MulSwaps
<1>6. QED
  BY <1>1, <1>2, <1>4, <1>5

LEMMA Floors ==
  \A x \in Nat : \A d \in Nat \ {0} : x \div d \in Nat /\ d * (x \div d) <= x
OBVIOUS

(* A redemption pays no more than what is burnt is worth.                   *)
LEMMA RedeemCovered ==
  ASSUME LedgerTypeOK, DenOK, NEW w \in Worlds, NEW c \in Conditions, NEW parent \in Parents(c),
         NEW I \in SUBSET IndexSets, NEW a \in Accounts, den[c] > 0,
         NEW x, x = RedeemPayout(a, parent, c, I),
         NEW burnt, burnt = [p \in Positions |->
                               IF p \in Pieces(parent, c, I) THEN 0 ELSE bal[a][p]],
         NEW b2, b2 = Credit([bal EXCEPT ![a] = burnt], a, {parent}, x),
         NEW k2, k2 = IF parent = Root THEN pot - x ELSE pot
  PROVE  x \in Nat /\ b2 \in Balances /\ Gap(b2, k2, w) >= Gap(bal, pot, w)
<1> DEFINE ps == Pieces(parent, c, I)
           d == [p \in Positions |-> IF p \in ps THEN -bal[a][p] ELSE 0]
           m == [p \in Positions |-> -bal[a][p]]
           b1 == [bal EXCEPT ![a] = burnt]
           N(S) == IndexSetNumerator(c, S)
           H(S) == bal[a][Extend(parent, c, S)]
           f == [S \in I |-> (H(S) * N(S)) \div den[c]]
           g == [S \in I |-> H(S) * N(S)]
           k == Rest(parent, c, w)
           X == Worth(parent, w)
           R == Worth(Root, w)
<1>1. /\ bal \in Balances /\ pot \in Nat /\ den[c] \in Nat \ {0}
      /\ parent \in Positions \union {Root} /\ c \notin DOMAIN parent
      /\ IsFiniteSet(I)
  BY OwedIs, ExtendIs, PositionsFinite, FS_Subset DEF LedgerTypeOK
<1>2. \A S \in I : H(S) \in Nat /\ N(S) \in Nat /\ PF(c, S, w) = N(S)
  <2> TAKE S \in I
  <2>1. Extend(parent, c, S) \in Positions /\ S \in SUBSET Outcomes
    BY ExtendIs DEF IndexSets
  <2>2. QED
    BY <2>1, NumeratorNat DEF LedgerTypeOK, PF
<1>3. x = Sum(f, I)
  BY SumOfFunction DEF RedeemPayout
<1>4. \A S \in I : g[S] \in Nat /\ f[S] \in Nat /\ den[c] * f[S] <= g[S]
  <2> TAKE S \in I
  <2>1. g[S] \in Nat
    BY <1>2
  <2>2. f[S] = g[S] \div den[c]
    OBVIOUS
  <2> HIDE DEF f, g
  <2>3. QED
    BY <1>1, <2>1, <2>2, Floors
<1>5. x \in Nat /\ Sum(g, I) \in Nat /\ den[c] * x <= Sum(g, I)
  <2> DEFINE z == [S \in I |-> 0]
             h == [S \in I |-> den[c] * f[S]]
  <2>1. \A S \in I : /\ z[S] \in Int /\ f[S] \in Int /\ h[S] = z[S] + den[c] * f[S]
                     /\ h[S] \in Int /\ g[S] \in Int /\ h[S] <= g[S]
    BY <1>1, <1>4
  <2>2. Sum(z, I) = 0
    BY <1>1, SumZero
  <2> HIDE DEF z, h, f, g
  <2>3. Sum(f, I) \in Nat /\ Sum(g, I) \in Nat
    BY <1>1, <1>4, SumNat
  <2>4. Sum(h, I) = Sum(z, I) + den[c] * Sum(f, I)
    BY <1>1, <2>1, SumLinear
  <2>5. Sum(h, I) <= Sum(g, I)
    BY <1>1, <2>1, SumMono
  <2>6. den[c] * Sum(f, I) \in Int
    BY <1>1, <2>3, MulSwaps
  <2>7. QED
    BY <1>3, <2>2, <2>3, <2>4, <2>5, <2>6
<1>6. k \in Nat /\ X = den[c] * k /\ X \in Nat /\ R \in Nat
  <2>1. SetOf(parent, c) = Outcomes
    BY <1>1 DEF SetOf
  <2>2. PF(c, Outcomes, w) = den[c]
    BY DEF DenOK, VectorSum, PF, IndexSetNumerator
  <2>3. QED
    BY <1>1, <2>1, <2>2, WorthIs
<1>7. /\ b1 \in Balances
      /\ OwedIn(b1, w) = OwedIn(bal, w) - k * Sum(g, I)
  <2>1. /\ d \in [Positions -> Int] /\ m \in [Positions -> Int]
        /\ \A p \in Positions : burnt[p] = bal[a][p] + d[p]
    <3>1. \A p \in Positions : bal[a][p] \in Nat
      BY DEF LedgerTypeOK
    <3>2. QED
      BY <3>1
  <2>2. b1 = [bal EXCEPT ![a] = [p \in Positions |-> bal[a][p] + d[p]]]
    <3>1. [p \in Positions |-> bal[a][p] + d[p]] = burnt
      BY <2>1
    <3>2. QED
      BY <3>1
  <2>3. /\ b1 \in Balances
        /\ OwedIn(b1, w) = OwedIn(bal, w) + Sum(ValueOf(d, w), Positions)
    <3>1. d \in [Positions -> Int] /\ bal \in Balances
      BY <1>1, <2>1
    <3> HIDE DEF d, b1
    <3>2. /\ b1 \in Balances
          /\ OwedIn(b1, w) = OwedIn(bal, w)
                             + Sum([p \in Positions |-> d[p] * Worth(p, w)], Positions)
      BY <2>2, <3>1, OwedChanges
    <3>3. QED
      BY <3>2 DEF ValueOf
  <2>4. /\ ps \in SUBSET Positions
        /\ Sum(ValueOf(m, w), ps) = k * Sum([S \in I |-> m[Extend(parent, c, S)] * PF(c, S, w)], I)
    <3> HIDE DEF m
    <3>1. QED
      BY <2>1, PiecesValue
  <2>5. Sum(ValueOf(d, w), Positions) = Sum(ValueOf(m, w), ps)
    <3>1. \A p \in Positions : Worth(p, w) \in Nat /\ m[p] \in Int
      BY <2>1, WorthIs
    <3>2. \A p \in ps : ValueOf(m, w)[p] \in Int
      BY <2>4, <3>1, MulSwaps DEF ValueOf
    <3>3. \A p \in Positions :
            ValueOf(d, w)[p] = IF p \in ps THEN ValueOf(m, w)[p] ELSE 0
      <4> TAKE p \in Positions
      <4>1. ValueOf(d, w)[p] = d[p] * Worth(p, w) /\ ValueOf(m, w)[p] = m[p] * Worth(p, w)
        BY DEF ValueOf
      <4>2. d[p] = IF p \in ps THEN m[p] ELSE 0
        OBVIOUS
      <4>3. 0 * Worth(p, w) = 0
        BY <3>1
      <4>4. QED
        BY <4>1, <4>2, <4>3
    <3> HIDE DEF d, m, ps
    <3>4. QED
      BY <2>4, <3>2, <3>3, PositionsFinite, SumWithin
  <2>6. Sum([S \in I |-> m[Extend(parent, c, S)] * PF(c, S, w)], I) = -Sum(g, I)
    <3> DEFINE y == [S \in I |-> m[Extend(parent, c, S)] * PF(c, S, w)]
               z == [S \in I |-> 0]
    <3>1. Sum(z, I) = 0
      BY <1>1, SumZero
    <3>2. \A S \in I : z[S] \in Int /\ g[S] \in Int /\ y[S] = z[S] + (-1) * g[S]
      <4> TAKE S \in I
      <4>1. H(S) \in Nat /\ N(S) \in Nat /\ PF(c, S, w) = N(S)
        BY <1>2
      <4>2. m[Extend(parent, c, S)] = -H(S)
        BY ExtendIs
      <4>3. (-H(S)) * N(S) = 0 + (-1) * (H(S) * N(S))
        BY <4>1
      <4>4. g[S] \in Int
        BY <1>4
      <4>5. QED
        BY <4>1, <4>2, <4>3, <4>4
    <3> HIDE DEF y, z, g
    <3>3. Sum(y, I) = Sum(z, I) + (-1) * Sum(g, I)
      BY <1>1, <3>2, SumLinear
    <3>4. Sum(y, I) = -Sum(g, I)
      BY <1>5, <3>1, <3>3
    <3>5. QED
      BY <3>4 DEF y
  <2>7. OwedIn(bal, w) \in Int /\ k * (-Sum(g, I)) = -(k * Sum(g, I)) /\ k * Sum(g, I) \in Int
    <3>1. OwedIn(bal, w) \in Int
      BY <1>1, OwedInIs
    <3>2. \A s, t \in Int : s * (-t) = -(s * t) /\ s * t \in Int
      OBVIOUS
    <3> HIDE DEF g, k
    <3>3. QED
      BY <1>5, <1>6, <3>1, <3>2
  <2> HIDE DEF b1, g, k
  <2>8. QED
    BY <2>3, <2>4, <2>5, <2>6, <2>7
<1>8. b2 = Credit(b1, a, {parent}, x)
  OBVIOUS
<1>9. /\ OwedIn(bal, w) \in Int /\ k * Sum(g, I) \in Int /\ x * X \in Int
      /\ x * X <= k * Sum(g, I)
  <2>1. x * X = k * (den[c] * x)
    <3>1. \A s, t, u \in Int : s * (t * u) = u * (t * s)
      OBVIOUS
    <3>2. QED
      BY <1>1, <1>5, <1>6, <3>1
  <2>2. \A s \in Nat : \A t, u \in Int : t <= u => s * t <= s * u
    OBVIOUS
  <2>3. den[c] * x \in Int
    BY <1>1, <1>5, MulSwaps
  <2>4. OwedIn(bal, w) \in Int
    BY <1>1, OwedInIs
  <2> HIDE DEF g, k, X
  <2>5. k * Sum(g, I) \in Int /\ x * X \in Int
    BY <1>5, <1>6, MulSwaps
  <2>6. k * (den[c] * x) <= k * Sum(g, I)
    BY <1>5, <1>6, <2>2, <2>3
  <2>7. QED
    BY <2>1, <2>4, <2>5, <2>6
<1> HIDE DEF b1, g, k, X, R
<1>10. CASE parent \in Positions
  <2>1. {parent} \in SUBSET Positions /\ Sum(WorthOf(w), {parent}) = X
    BY <1>10, ValueOfOne DEF X
  <2>2. b2 \in Balances /\ OwedIn(b2, w) = OwedIn(b1, w) + x * X
    BY <1>5, <1>7, <1>8, <2>1, CreditOwed
  <2>3. k2 = pot
    BY <1>10, PositionIs
  <2>4. pot * R \in Int
    BY <1>1, <1>6, MulSwaps
  <2>5. Gap(b2, k2, w) = pot * R - OwedIn(b2, w) /\ Gap(bal, pot, w) = pot * R - OwedIn(bal, w)
    BY <2>3 DEF Gap, R
  <2>6. QED
    BY <1>5, <1>7, <1>9, <2>2, <2>4, <2>5
<1>11. CASE parent = Root
  <2>1. {parent} \intersect Positions = {} /\ X = R /\ k2 = pot - x
    BY <1>11, PositionIs DEF X, R
  <2>2. b2 \in Balances /\ b2 = b1
    BY <1>5, <1>7, <1>8, <2>1, CreditOwed
  <2>3. (pot - x) * R = pot * R - x * R /\ pot * R \in Int /\ x * R \in Int
    BY <1>1, <1>5, <1>6, MulSwaps
  <2>4. /\ Gap(b2, k2, w) = (pot - x) * R - OwedIn(b2, w)
        /\ Gap(bal, pot, w) = pot * R - OwedIn(bal, w)
    BY <2>1 DEF Gap, R
  <2>5. QED
    BY <1>5, <1>7, <1>9, <2>1, <2>2, <2>3, <2>4
<1>12. QED
  BY <1>1, <1>10, <1>11

(* A report: every world of the condition becomes its share of all.         *)
LEMMA WorthReported ==
  ASSUME LedgerTypeOK, DenOK, NEW w \in Worlds, NEW c \in Conditions, NEW v \in PayoutVectors,
         VectorSum(v) > 0, numerator' = [numerator EXCEPT ![c] = v],
         den' = [den EXCEPT ![c] = VectorSum(v)], NEW p \in Positions \union {Root}
  PROVE  Worth(p, w)' = Sum(v, SetOf(p, c)) * Rest(p, c, w)
<1> DEFINE F == [d \in Conditions |-> IF d = c THEN Sum(v, SetOf(p, c)) ELSE Factor(p, d, w)]
<1>1. /\ den'[c] = VectorSum(v) /\ numerator'[c] = v
      /\ \A d \in Conditions \ {c} : den'[d] = den[d] /\ numerator'[d] = numerator[d]
  BY DEF LedgerTypeOK
<1>2. \A d \in Conditions : Factor(p, d, w)' = F[d]
  <2> TAKE d \in Conditions
  <2>1. CASE d = c
    <3>1. CASE c \in DOMAIN p
      <4>1. Factor(p, c, w)' = IndexSetNumerator(c, p[c])'
        BY <1>1, <3>1 DEF Factor
      <4>2. IndexSetNumerator(c, p[c])' = Sum(v, p[c])
        BY <1>1 DEF IndexSetNumerator, Sum
      <4>3. QED
        BY <2>1, <3>1, <4>1, <4>2 DEF SetOf
    <3>2. CASE c \notin DOMAIN p
      <4>1. Factor(p, c, w)' = den'[c]
        BY <1>1, <3>2 DEF Factor
      <4>2. QED
        BY <1>1, <2>1, <3>2, <4>1 DEF SetOf, VectorSum, Sum
    <3>3. QED
      BY <3>1, <3>2
  <2>2. CASE d # c
    <3>1. den'[d] = den[d] /\ numerator'[d] = numerator[d]
      BY <1>1, <2>2
    <3>2. Factor(p, d, w)' = Factor(p, d, w)
      BY <3>1 DEF Factor, IndexSetNumerator
    <3>3. QED
      BY <2>2, <3>2
  <2>3. QED
    BY <2>1, <2>2
<1>3. Worth(p, w)' = Prod(F, Conditions)
  <2>1. [d \in Conditions |-> Factor(p, d, w)'] = F
    BY <1>2
  <2>2. Worth(p, w)' = Prod([d \in Conditions |-> Factor(p, d, w)'], Conditions)
    <3>1. Worth(p, w)' = Product([d \in Conditions |-> Factor(p, d, w)'])
      BY DEF Worth
    <3>2. QED
      BY <3>1 DEF Product, FoldFunction, Prod
  <2>3. QED
    BY <2>1, <2>2
<1>4. \A d \in Conditions : F[d] \in Int
  <2>1. SetOf(p, c) \in SUBSET Outcomes
    BY PositionIs
  <2>2. IsFiniteSet(SetOf(p, c)) /\ \A o \in SetOf(p, c) : v[o] \in Int
    BY <2>1, CtfAssumption, FS_Subset DEF PayoutVectors
  <2>3. Sum(v, SetOf(p, c)) \in Int
    BY <2>2, SumInt
  <2>4. QED
    BY <2>3, FactorIs
<1>5. Prod(F, Conditions \ {c}) = Rest(p, c, w)
  <2>1. \A d \in Conditions \ {c} : Factors(p, w)[d] \in Int /\ F[d] = Factors(p, w)[d]
    BY FactorIs
  <2>2. IsFiniteSet(Conditions \ {c})
    BY CtfAssumption, FS_RemoveElement
  <2> HIDE DEF F
  <2>3. QED
    BY <2>1, <2>2, ProdEqual DEF Rest
<1>6. Prod(F, Conditions) = F[c] * Prod(F, Conditions \ {c})
  <2> HIDE DEF F
  <2>1. QED
    BY <1>4, CtfAssumption, ProdRemove
<1>7. QED
  BY <1>3, <1>5, <1>6

LEMMA ReportCovered ==
  ASSUME LedgerTypeOK, DenOK, Solvent, NEW w \in Worlds, NEW c \in Conditions,
         NEW v \in PayoutVectors, den[c] = 0
  PROVE  Sum([p \in Positions |->
                SupplyIn(bal, p) * (Sum(v, SetOf(p, c)) * Rest(p, c, w))], Positions)
           <= pot * (Sum(v, Outcomes) * Rest(Root, c, w))
<1> DEFINE s(p) == SupplyIn(bal, p)
           r(p) == Rest(p, c, w)
           part(O) == [p \in Positions |-> s(p) * (Sum(v, SetOf(p, c) \intersect O) * r(p))]
           B == {O \in SUBSET Outcomes :
                   Sum(part(O), Positions) <= pot * (Sum(v, O) * r(Root))}
<1>1. /\ bal \in Balances /\ pot \in Nat /\ IsFiniteSet(Outcomes)
      /\ \A o \in Outcomes : v[o] \in Nat
  BY OwedIs, CtfAssumption DEF LedgerTypeOK, PayoutVectors
<1>2. /\ \A p \in Positions \union {Root} : SetOf(p, c) \in SUBSET Outcomes /\ r(p) \in Nat
      /\ \A p \in Positions : s(p) \in Int
  BY <1>1, PositionIs, WorthIs, OwedInIs
<1>3. \A O \in SUBSET Outcomes : Sum(v, O) \in Nat
  BY <1>1, SumNat, FS_Subset
<1>4. \A O \in SUBSET Outcomes : \A p \in Positions :
        /\ SetOf(p, c) \intersect O \in SUBSET Outcomes
        /\ part(O)[p] \in Int
  <2> TAKE O \in SUBSET Outcomes
  <2> TAKE p \in Positions
  <2>1. SetOf(p, c) \intersect O \in SUBSET Outcomes
    OBVIOUS
  <2>2. Sum(v, SetOf(p, c) \intersect O) \in Nat /\ r(p) \in Nat /\ s(p) \in Int
    BY <1>2, <1>3, <2>1
  <2>3. part(O)[p] = s(p) * (Sum(v, SetOf(p, c) \intersect O) * r(p))
    OBVIOUS
  <2> HIDE DEF s, r, part
  <2>4. QED
    BY <2>1, <2>2, <2>3, MulSwaps
<1>5. {} \in B
  <2>1. \A p \in Positions : part({})[p] = 0
    <3> TAKE p \in Positions
    <3>1. SetOf(p, c) \intersect {} = {}
      OBVIOUS
    <3>2. s(p) * (0 * r(p)) = 0
      BY <1>2
    <3>3. QED
      BY <3>1, <3>2, SumEmpty
  <2>2. Sum(part({}), Positions) = 0
    <3> HIDE DEF part
    <3>1. QED
      BY <2>1, PositionsFinite, SumZero
  <2>3. pot * (0 * r(Root)) = 0
    BY <1>1, <1>2
  <2>4. QED
    BY <2>2, <2>3, SumEmpty
<1>6. ASSUME NEW O \in SUBSET Outcomes, NEW o \in Outcomes \ O, O \in B
      PROVE  O \union {o} \in B
  <2> DEFINE wo == [w EXCEPT ![c] = o]
             owed == [p \in Positions |-> s(p) * Worth(p, wo)]
             U == O \union {o}
  <2>1. /\ wo \in Worlds /\ wo[c] = o /\ \A d \in Conditions \ {c} : wo[d] = w[d]
        /\ v[o] \in Nat /\ U \in SUBSET Outcomes
    BY <1>1 DEF Worlds
  <2>2. \A p \in Positions \union {Root} :
          Worth(p, wo) = (IF o \in SetOf(p, c) THEN 1 ELSE 0) * r(p)
    <3> TAKE p \in Positions \union {Root}
    <3> HIDE DEF wo
    <3>1. Rest(p, c, wo) = Rest(p, c, w)
      BY <2>1, RestSame
    <3>2. PF(c, SetOf(p, c), wo) = IF o \in SetOf(p, c) THEN 1 ELSE 0
      BY <2>1 DEF PF
    <3>3. QED
      BY <2>1, <3>1, <3>2, WorthIs
  <2>3. /\ Sum(v, U) = v[o] + Sum(v, O) /\ Sum(v, O) \in Nat
        /\ \A p \in Positions : Sum(v, SetOf(p, c) \intersect U)
              = Sum(v, SetOf(p, c) \intersect O)
                  + (IF o \in SetOf(p, c) THEN v[o] ELSE 0)
    <3>1. Sum(v, U) = v[o] + Sum(v, O)
      BY <1>1, SumAdd
    <3>2. ASSUME NEW p \in Positions
          PROVE  Sum(v, SetOf(p, c) \intersect U)
                   = Sum(v, SetOf(p, c) \intersect O)
                       + (IF o \in SetOf(p, c) THEN v[o] ELSE 0)
      <4> DEFINE W == SetOf(p, c) \intersect O
      <4>1. W \in SUBSET Outcomes /\ o \in Outcomes \ W /\ Sum(v, W) \in Nat
        BY <1>3
      <4>2. CASE o \in SetOf(p, c)
        <5>1. SetOf(p, c) \intersect U = W \union {o}
          BY <4>2
        <5> HIDE DEF W
        <5>2. Sum(v, W \union {o}) = v[o] + Sum(v, W)
          BY <1>1, <4>1, SumAdd
        <5>3. Sum(v, SetOf(p, c) \intersect U) = Sum(v, W) + v[o]
          <6>1. Sum(v, SetOf(p, c) \intersect U) = Sum(v, W \union {o})
            BY <5>1
          <6>2. v[o] \in Nat /\ Sum(v, W) \in Nat
            BY <2>1, <4>1
          <6>3. QED
            BY <5>2, <6>1, <6>2
        <5>4. QED
          BY <4>2, <5>3 DEF W
      <4>3. CASE o \notin SetOf(p, c)
        <5>1. SetOf(p, c) \intersect U = W
          BY <4>3
        <5>2. QED
          BY <4>1, <4>3, <5>1
      <4>4. QED
        BY <4>2, <4>3
    <3>3. QED
      BY <1>3, <3>1, <3>2
  <2>4. \A p \in Positions : /\ part(O)[p] \in Int /\ owed[p] \in Int
                            /\ part(U)[p] = part(O)[p] + v[o] * owed[p]
    <3> TAKE p \in Positions
    <3> DEFINE X == Sum(v, SetOf(p, c) \intersect O)
               i == IF o \in SetOf(p, c) THEN 1 ELSE 0
               j == IF o \in SetOf(p, c) THEN v[o] ELSE 0
    <3>1. X \in Nat /\ s(p) \in Int /\ r(p) \in Nat /\ v[o] \in Nat /\ i \in Nat /\ j \in Nat
      BY <1>2, <1>3, <1>4, <2>1
    <3>2. part(O)[p] = s(p) * (X * r(p)) /\ part(U)[p] = s(p) * ((X + j) * r(p))
      BY <2>3
    <3>3. owed[p] = s(p) * (i * r(p)) /\ part(O)[p] \in Int
      BY <1>4, <2>2
    <3>4. j = v[o] * i
      BY <2>1
    <3> HIDE DEF X, i, j, s, r, owed, part
    <3>5. s(p) * ((X + j) * r(p)) = s(p) * (X * r(p)) + v[o] * (s(p) * (i * r(p)))
      <4>1. (X + j) * r(p) = X * r(p) + j * r(p) /\ X * r(p) \in Int /\ j * r(p) \in Int
        BY <3>1, MulSwaps
      <4>2. s(p) * (X * r(p) + j * r(p)) = s(p) * (X * r(p)) + s(p) * (j * r(p))
        BY <3>1, <4>1, Distributes
      <4>3. s(p) * ((v[o] * i) * r(p)) = v[o] * (s(p) * (i * r(p)))
        BY <3>1
      <4>4. QED
        BY <3>4, <4>1, <4>2, <4>3
    <3>6. owed[p] \in Int
      BY <3>1, <3>3, MulSwaps
    <3>7. QED
      BY <3>2, <3>3, <3>5, <3>6
  <2>5. /\ Sum(part(U), Positions) = Sum(part(O), Positions) + v[o] * Sum(owed, Positions)
        /\ Sum(part(O), Positions) \in Int /\ Sum(owed, Positions) \in Int
    <3>1. v[o] \in Int
      BY <2>1
    <3> HIDE DEF part, owed, U
    <3>2. QED
      BY <2>4, <3>1, PositionsFinite, SumLinear, SumInt
  <2>6. Sum(owed, Positions) <= pot * r(Root)
    <3>1. Owed(wo) = Sum(owed, Positions)
      BY <1>1, <2>1, OwedIs, OwedInIs
    <3>2. Worth(Root, wo) = r(Root)
      <4>1. SetOf(Root, c) = Outcomes
        BY PositionIs DEF SetOf
      <4>2. Worth(Root, wo) = (IF o \in SetOf(Root, c) THEN 1 ELSE 0) * r(Root)
        BY <2>2
      <4> HIDE DEF wo, r
      <4>3. QED
        BY <1>2, <4>1, <4>2
    <3> HIDE DEF wo, owed
    <3>3. QED
      BY <2>1, <3>1, <3>2 DEF Solvent
  <2>7. Sum(part(O), Positions) <= pot * (Sum(v, O) * r(Root))
    BY <1>6
  <2>8. Sum(part(U), Positions) <= pot * (Sum(v, U) * r(Root))
    <3>1. pot * ((v[o] + Sum(v, O)) * r(Root))
            = pot * (Sum(v, O) * r(Root)) + v[o] * (pot * r(Root))
      <4>1. \A x, y, z, t \in Int : x * ((y + z) * t) = x * (z * t) + y * (x * t)
        OBVIOUS
      <4>2. QED
        BY <1>1, <1>2, <2>1, <2>3, <4>1
    <3>2. \A x \in Nat : \A y, z \in Int : y <= z => x * y <= x * z
      OBVIOUS
    <3>3. pot * r(Root) \in Int /\ pot * (Sum(v, O) * r(Root)) \in Int
      BY <1>1, <1>2, <2>3, MulSwaps
    <3>4. v[o] * Sum(owed, Positions) <= v[o] * (pot * r(Root))
      BY <2>1, <2>5, <2>6, <3>2, <3>3
    <3>5. v[o] * Sum(owed, Positions) \in Int /\ v[o] * (pot * r(Root)) \in Int
      BY <2>1, <2>5, <3>3, MulSwaps
    <3> HIDE DEF owed, part, s, r, U
    <3>6. QED
      BY <2>3, <2>5, <2>7, <3>1, <3>3, <3>4, <3>5
  <2>9. QED
    BY <2>1, <2>8
<1> HIDE DEF B
<1>7. Outcomes \in B
  BY <1>1, <1>5, <1>6, SetSteps
<1>8. part(Outcomes) = [p \in Positions |-> s(p) * (Sum(v, SetOf(p, c)) * r(p))]
  <2>1. \A p \in Positions : SetOf(p, c) \intersect Outcomes = SetOf(p, c)
    BY <1>2
  <2>2. QED
    BY <2>1
<1>9. QED
  BY <1>7, <1>8 DEF B

-----------------------------------------------------------------------------
(* The steps.                                                               *)
LedgerInv == LedgerTypeOK /\ DenOK /\ Solvent /\ ExactBacking

LEMMA RootWorth ==
  ASSUME LedgerTypeOK, DenOK, NEW w \in Worlds
  PROVE  /\ Worth(Root, w) \in Nat /\ pot \in Nat /\ OwedIn(bal, w) \in Int
         /\ pot * Worth(Root, w) \in Int
         /\ (\A c \in Conditions : den[c] = 0) => Worth(Root, w) = 1
<1>1. Worth(Root, w) \in Nat /\ Worth(Root, w) = Prod(Factors(Root, w), Conditions)
  BY WorthIs
<1>2. OwedIn(bal, w) \in Int
  BY OwedIs, OwedInIs
<1>3. ASSUME \A c \in Conditions : den[c] = 0
      PROVE  Worth(Root, w) = 1
  <2>1. \A c \in Conditions : Factors(Root, w)[c] = 1
    BY <1>3, PositionIs DEF Factors, Factor
  <2>2. QED
    BY <1>1, <2>1, CtfAssumption, ProdOne
<1>4. pot \in Nat
  BY DEF LedgerTypeOK
<1>5. QED
  BY <1>1, <1>2, <1>3, <1>4, MulSwaps

LEMMA WorthKept ==
  ASSUME UNCHANGED <<numerator, den>>
  PROVE  /\ DenOK => DenOK'
         /\ \A p, w : Worth(p, w)' = Worth(p, w)
         /\ \A w : Owed(w)' = OwedIn(bal', w)
<1>1. \A p, c, w : Factor(p, c, w)' = Factor(p, c, w)
  BY DEF Factor, IndexSetNumerator
<1>2. \A p, w : Worth(p, w)' = Worth(p, w)
  BY <1>1 DEF Worth
<1>3. \A p : Supply(p)' = SupplyIn(bal', p)
  BY DEF Supply, SupplyIn
<1>4. \A w : Owed(w)' = OwedIn(bal', w)
  BY <1>2, <1>3 DEF Owed, OwedIn
<1>5. DenOK => DenOK'
  BY DEF DenOK
<1>6. QED
  BY <1>2, <1>4, <1>5

(* Nothing that leaves the reports alone makes the gap smaller.             *)
LEMMA GapKept ==
  ASSUME LedgerInv, UNCHANGED <<numerator, den>>, LedgerTypeOK',
         \A w \in Worlds : Gap(bal', pot', w) >= Gap(bal, pot, w),
         (\A c \in Conditions : den[c] = 0) =>
            \A w \in Worlds : Gap(bal', pot', w) = Gap(bal, pot, w)
  PROVE  LedgerInv'
<1>1. LedgerTypeOK /\ DenOK
  BY DEF LedgerInv
<1>2. bal' \in Balances /\ pot' \in Nat
  BY DEF LedgerTypeOK, Balances
<1>3. \A w \in Worlds : /\ Owed(w)' = OwedIn(bal', w) /\ Worth(Root, w)' = Worth(Root, w)
                       /\ OwedIn(bal', w) \in Int /\ pot' * Worth(Root, w) \in Int
                       /\ Gap(bal', pot', w) = pot' * Worth(Root, w) - OwedIn(bal', w)
                       /\ Gap(bal, pot, w) = pot * Worth(Root, w) - Owed(w)
                       /\ Owed(w) \in Int /\ pot * Worth(Root, w) \in Int
  <2> TAKE w \in Worlds
  <2>1. OwedIn(bal', w) \in Int
    BY <1>1, <1>2, OwedInIs
  <2>2. pot' * Worth(Root, w) \in Int
    BY <1>1, <1>2, RootWorth, MulSwaps
  <2>3. Owed(w) = OwedIn(bal, w) /\ OwedIn(bal, w) \in Int /\ pot * Worth(Root, w) \in Int
    BY <1>1, OwedIs, RootWorth
  <2>4. QED
    BY <2>1, <2>2, <2>3, WorthKept DEF Gap
<1>4. Solvent'
  <2>1. ASSUME NEW w \in Worlds
        PROVE  Owed(w)' <= pot' * Worth(Root, w)'
    <3>1. Owed(w) <= pot * Worth(Root, w)
      BY DEF LedgerInv, Solvent
    <3>2. QED
      BY <1>3, <3>1
  <2>2. QED
    BY <2>1 DEF Solvent, Worlds
<1>5. ExactBacking'
  <2>1. ASSUME \A c \in Conditions : den[c] = 0, NEW w \in Worlds
        PROVE  Owed(w)' = pot'
    <3>1. Owed(w) = pot /\ Worth(Root, w) = 1 /\ pot \in Nat
      BY <1>1, <2>1, RootWorth DEF LedgerInv, ExactBacking
    <3>2. pot' * 1 = pot' /\ pot * 1 = pot
      <4>1. \A x \in Nat : x * 1 = x
        OBVIOUS
      <4>2. QED
        BY <1>2, <3>1, <4>1
    <3>3. Gap(bal', pot', w) = Gap(bal, pot, w)
      BY <2>1
    <3>4. QED
      BY <1>2, <1>3, <3>1, <3>2, <3>3
  <2>2. QED
    BY <2>1 DEF ExactBacking, Worlds
<1>6. QED
  BY <1>1, <1>4, <1>5, WorthKept DEF LedgerInv

LEMMA CreditIs ==
  ASSUME NEW b \in Balances, NEW a \in Accounts, NEW ps, NEW n \in Int
  PROVE  /\ Credit(b, a, ps, n) \in Balances
         /\ \A x \in Accounts : \A p \in Positions :
              Credit(b, a, ps, n)[x][p]
                = b[x][p] + (IF x = a /\ p \in ps THEN n ELSE 0)
BY DEF Balances, Credit

(* n of each of some positions change hands for m of each of others.        *)
LEMMA CreditTwice ==
  ASSUME LedgerTypeOK, NEW a \in Accounts, NEW c \in Accounts, NEW ps, NEW qs,
         NEW n \in Int, NEW m \in Int,
         NEW b2, b2 = Credit(Credit(bal, a, ps, n), c, qs, m)
  PROVE  /\ b2 \in Balances
         /\ \A x \in Accounts : \A p \in Positions :
              b2[x][p] = (bal[x][p] + (IF x = a /\ p \in ps THEN n ELSE 0))
                                    + (IF x = c /\ p \in qs THEN m ELSE 0)
<1>1. bal \in Balances
  BY OwedIs
<1> DEFINE b1 == Credit(bal, a, ps, n)
<1>2. /\ b1 \in Balances
      /\ \A x \in Accounts : \A p \in Positions :
            b1[x][p] = bal[x][p] + (IF x = a /\ p \in ps THEN n ELSE 0)
  BY <1>1, CreditIs
<1>3. b2 = Credit(b1, c, qs, m)
  OBVIOUS
<1> HIDE DEF b1
<1>4. /\ b2 \in Balances
      /\ \A x \in Accounts : \A p \in Positions :
            b2[x][p] = b1[x][p] + (IF x = c /\ p \in qs THEN m ELSE 0)
  BY <1>2, <1>3, CreditIs
<1>5. QED
  BY <1>2, <1>4

LEMMA NatBalances ==
  ASSUME NEW b \in Balances, \A x \in Accounts : \A p \in Positions : b[x][p] >= 0
  PROVE  b \in [Accounts -> [Positions -> Nat]]
<1>1. \A x \in Accounts : b[x] \in [Positions -> Nat]
  <2> TAKE x \in Accounts
  <2>1. b[x] \in [Positions -> Int] /\ \A p \in Positions : b[x][p] >= 0
    BY DEF Balances
  <2>2. QED
    BY <2>1
<1>2. QED
  BY <1>1 DEF Balances

LEMMA SplitKeeps ==
  ASSUME LedgerInv, NEW a \in Accounts, NEW c \in Conditions, NEW parent \in Parents(c),
         NEW P \in Partitions, NEW n \in Amounts, SplitPosition(a, parent, c, P, n)
  PROVE  LedgerInv'
<1> DEFINE q == Whole(parent, c, P)
           ps == Pieces(parent, c, P)
<1>1. LedgerTypeOK /\ DenOK /\ n \in Nat \ {0} /\ ValidPartition(P) /\ -n \in Int
  BY CtfAssumption DEF LedgerInv, Partitions
<1>2. /\ bal' = Credit(Credit(bal, a, ps, n), a, {q}, -n) /\ Holding(a, q) >= n
      /\ TakeCollateral(a, q, n) /\ UNCHANGED <<approvals, prepared, numerator, den>>
  BY DEF SplitPosition
<1>3. LedgerTypeOK'
  <2>1. /\ bal' \in Balances
        /\ \A x \in Accounts : \A p \in Positions :
              bal'[x][p] = (bal[x][p] + (IF x = a /\ p \in ps THEN n ELSE 0))
                                      + (IF x = a /\ p \in {q} THEN -n ELSE 0)
    <3> HIDE DEF q, ps
    <3>1. QED
      BY <1>1, <1>2, CreditTwice
  <2>2. q \in Positions => bal[a][q] >= n
    BY <1>2, PositionIs DEF Holding
  <2> HIDE DEF q, ps
  <2>3. ASSUME NEW x \in Accounts, NEW p \in Positions
        PROVE  bal'[x][p] >= 0
    <3>1. bal[x][p] \in Nat
      BY <1>1 DEF LedgerTypeOK
    <3>2. x = a /\ p = q => bal[x][p] >= n
      BY <2>2
    <3>3. QED
      BY <1>1, <2>1, <3>1, <3>2
  <2>4. bal' \in [Accounts -> [Positions -> Nat]]
    BY <2>1, <2>3, NatBalances
  <2>5. wallet' \in [Accounts -> Nat] /\ pot' \in Nat
    <3>1. CASE q = Root
      <4>1. wallet' = [wallet EXCEPT ![a] = wallet[a] - n] /\ pot' = pot + n
        BY <1>2, <3>1 DEF TakeCollateral
      <4>2. wallet \in [Accounts -> Nat] /\ pot \in Nat /\ wallet[a] >= n
        BY <1>1, <1>2, <3>1 DEF LedgerTypeOK, Holding
      <4>3. wallet[a] - n \in Nat
        BY <1>1, <4>2
      <4>4. QED
        BY <1>1, <4>1, <4>2, <4>3
    <3>2. CASE q # Root
      BY <1>1, <1>2, <3>2 DEF TakeCollateral, LedgerTypeOK
    <3>3. QED
      BY <3>1, <3>2
  <2>6. QED
    BY <1>1, <1>2, <2>4, <2>5 DEF LedgerTypeOK
<1>4. \A w \in Worlds : Gap(bal', pot', w) = Gap(bal, pot, w) /\ Gap(bal, pot, w) \in Int
  <2> TAKE w \in Worlds
  <2>1. pot' = IF q = Root THEN pot + n ELSE pot
    BY <1>2 DEF TakeCollateral
  <2>2. Gap(bal, pot, w) \in Int
    BY <1>1, RootWorth DEF Gap
  <2>3. PICK k2 : k2 = IF q = Root THEN pot + n ELSE pot
    OBVIOUS
  <2>4. PICK b2 : b2 = bal'
    OBVIOUS
  <2>5. Gap(b2, k2, w) = Gap(bal, pot, w)
    BY <1>1, <1>2, <2>3, <2>4, MovesBalanced
  <2>6. QED
    BY <2>1, <2>2, <2>3, <2>4, <2>5
<1>5. QED
  BY <1>2, <1>3, <1>4, GapKept

LEMMA MergeKeeps ==
  ASSUME LedgerInv, NEW a \in Accounts, NEW c \in Conditions, NEW parent \in Parents(c),
         NEW P \in Partitions, NEW n \in Amounts, MergePositions(a, parent, c, P, n)
  PROVE  LedgerInv'
<1> DEFINE q == Whole(parent, c, P)
           ps == Pieces(parent, c, P)
<1>1. /\ LedgerTypeOK /\ DenOK /\ n \in Nat \ {0} /\ ValidPartition(P)
      /\ -n \in Int /\ n \in Int /\ n = -(-n)
  BY CtfAssumption DEF LedgerInv, Partitions
<1>2. /\ bal' = Credit(Credit(bal, a, ps, -n), a, {q}, n)
      /\ \A p \in ps : bal[a][p] >= n
      /\ GiveCollateral(a, q, n) /\ UNCHANGED <<approvals, prepared, numerator, den>>
  BY DEF MergePositions
<1>3. LedgerTypeOK'
  <2>1. /\ bal' \in Balances
        /\ \A x \in Accounts : \A p \in Positions :
              bal'[x][p] = (bal[x][p] + (IF x = a /\ p \in ps THEN -n ELSE 0))
                                      + (IF x = a /\ p \in {q} THEN n ELSE 0)
    <3> HIDE DEF q, ps
    <3>1. PICK j : j = -n
      OBVIOUS
    <3>2. bal' = Credit(Credit(bal, a, ps, j), a, {q}, n) /\ j \in Int
      BY <1>1, <1>2, <3>1
    <3>3. QED
      BY <1>1, <3>1, <3>2, CreditTwice
  <2> HIDE DEF q, ps
  <2>2. ASSUME NEW x \in Accounts, NEW p \in Positions
        PROVE  bal'[x][p] >= 0
    <3>1. bal[x][p] \in Nat
      BY <1>1 DEF LedgerTypeOK
    <3>2. x = a /\ p \in ps => bal[x][p] >= n
      BY <1>2
    <3>3. QED
      BY <1>1, <2>1, <3>1, <3>2
  <2>3. bal' \in [Accounts -> [Positions -> Nat]]
    BY <2>1, <2>2, NatBalances
  <2>4. wallet' \in [Accounts -> Nat] /\ pot' \in Nat
    <3>1. CASE q = Root
      <4>1. wallet' = [wallet EXCEPT ![a] = wallet[a] + n] /\ pot' = pot - n /\ pot >= n
        BY <1>2, <3>1 DEF GiveCollateral
      <4>2. wallet \in [Accounts -> Nat] /\ pot \in Nat
        BY <1>1 DEF LedgerTypeOK
      <4>3. QED
        BY <1>1, <4>1, <4>2
    <3>2. CASE q # Root
      BY <1>1, <1>2, <3>2 DEF GiveCollateral, LedgerTypeOK
    <3>3. QED
      BY <3>1, <3>2
  <2>5. QED
    BY <1>1, <1>2, <2>3, <2>4 DEF LedgerTypeOK
<1>4. \A w \in Worlds : Gap(bal', pot', w) = Gap(bal, pot, w) /\ Gap(bal, pot, w) \in Int
  <2> TAKE w \in Worlds
  <2>1. pot' = IF q = Root THEN pot - n ELSE pot
    BY <1>2 DEF GiveCollateral
  <2>2. Gap(bal, pot, w) \in Int
    BY <1>1, RootWorth DEF Gap
  <2>3. PICK k2 : k2 = IF q = Root THEN pot + (-n) ELSE pot
    OBVIOUS
  <2>4. PICK b2 : b2 = bal'
    OBVIOUS
  <2>5. PICK j : j = -n
    OBVIOUS
  <2>6. j \in Int /\ n = -j /\ n \in Int
    BY <1>1, <2>5
  <2>7. Gap(b2, k2, w) = Gap(bal, pot, w)
    BY <1>1, <1>2, <2>3, <2>4, <2>5, <2>6, MovesBalanced
  <2>8. pot' = k2
    BY <1>1, <2>1, <2>3 DEF LedgerTypeOK
  <2>9. QED
    BY <2>2, <2>4, <2>7, <2>8
<1>5. UNCHANGED <<numerator, den>>
  BY <1>2
<1>6. QED
  BY <1>3, <1>4, <1>5, GapKept

LEMMA RedeemKeeps ==
  ASSUME LedgerInv, NEW a \in Accounts, NEW c \in Conditions, NEW parent \in Parents(c),
         NEW I \in SUBSET IndexSets, RedeemPositions(a, parent, c, I)
  PROVE  LedgerInv'
<1> DEFINE x == RedeemPayout(a, parent, c, I)
           burnt == [p \in Positions |->
                       IF p \in Pieces(parent, c, I) THEN 0 ELSE bal[a][p]]
           b1 == [bal EXCEPT ![a] = burnt]
<1>1. /\ LedgerTypeOK /\ DenOK /\ den[c] > 0
      /\ bal' = Credit(b1, a, {parent}, x)
      /\ GiveCollateral(a, parent, x) /\ UNCHANGED <<approvals, prepared, numerator, den>>
  BY DEF LedgerInv, RedeemPositions
<1>2. pot' = IF parent = Root THEN pot - x ELSE pot
  BY <1>1 DEF GiveCollateral
<1>3. ASSUME NEW w \in Worlds
      PROVE  x \in Nat /\ Gap(bal', pot', w) >= Gap(bal, pot, w)
  <2> HIDE DEF x, burnt
  <2>1. PICK y : y = x
    OBVIOUS
  <2>2. PICK bu : bu = burnt
    OBVIOUS
  <2>3. PICK b2 : b2 = Credit([bal EXCEPT ![a] = bu], a, {parent}, y)
    OBVIOUS
  <2>4. PICK k2 : k2 = IF parent = Root THEN pot - y ELSE pot
    OBVIOUS
  <2>5. y \in Nat /\ Gap(b2, k2, w) >= Gap(bal, pot, w)
    BY <1>1, <2>1, <2>2, <2>3, <2>4, RedeemCovered DEF x, burnt
  <2>6. QED
    BY <1>1, <1>2, <2>1, <2>2, <2>3, <2>4, <2>5
<1>4. PICK w \in Worlds : TRUE
  <2>1. PICK o \in Outcomes : TRUE
    BY CtfAssumption, FS_EmptySet
  <2>2. [d \in Conditions |-> o] \in Worlds
    BY DEF Worlds
  <2>3. QED
    BY <2>2
<1>5. x \in Nat
  BY <1>3, <1>4
<1>6. LedgerTypeOK'
  <2>1. b1 \in [Accounts -> [Positions -> Nat]]
    BY <1>1 DEF LedgerTypeOK
  <2>2. b1 \in Balances
    BY <2>1 DEF Balances
  <2> HIDE DEF x, b1
  <2>3. /\ bal' \in Balances
        /\ \A z \in Accounts : \A p \in Positions :
              bal'[z][p] = b1[z][p] + (IF z = a /\ p \in {parent} THEN x ELSE 0)
    BY <1>1, <1>5, <2>2, CreditIs
  <2>4. ASSUME NEW z \in Accounts, NEW p \in Positions
        PROVE  bal'[z][p] >= 0
    <3>1. b1[z][p] \in Nat
      BY <2>1
    <3>2. QED
      BY <1>5, <2>3, <3>1
  <2>5. bal' \in [Accounts -> [Positions -> Nat]]
    BY <2>3, <2>4, NatBalances
  <2>6. wallet' \in [Accounts -> Nat] /\ pot' \in Nat
    <3>1. wallet \in [Accounts -> Nat] /\ pot \in Nat
      BY <1>1 DEF LedgerTypeOK
    <3>2. QED
      BY <1>1, <1>5, <3>1 DEF GiveCollateral
  <2>7. QED
    BY <1>1, <2>5, <2>6 DEF LedgerTypeOK
<1>7. QED
  BY <1>1, <1>3, <1>6, GapKept

LEMMA TransferKeeps ==
  ASSUME LedgerInv, NEW op \in Accounts, NEW from \in Accounts, NEW to \in Accounts,
         NEW ps \in SUBSET Positions, NEW n \in Amounts,
         SafeTransferFrom(op, from, to, ps, n)
  PROVE  LedgerInv'
<1>1. /\ LedgerTypeOK /\ DenOK /\ n \in Nat \ {0} /\ -n \in Int /\ n \in Int
      /\ bal' = Credit(Credit(bal, from, ps, -n), to, ps, n)
      /\ \A p \in ps : bal[from][p] >= n
      /\ UNCHANGED <<approvals, wallet, pot, prepared, numerator, den>>
  BY CtfAssumption DEF LedgerInv, SafeTransferFrom
<1>2. LedgerTypeOK'
  <2>1. /\ bal' \in Balances
        /\ \A x \in Accounts : \A p \in Positions :
              bal'[x][p] = (bal[x][p] + (IF x = from /\ p \in ps THEN -n ELSE 0))
                                      + (IF x = to /\ p \in ps THEN n ELSE 0)
    BY <1>1, CreditTwice
  <2>2. ASSUME NEW x \in Accounts, NEW p \in Positions
        PROVE  bal'[x][p] >= 0
    <3>1. bal[x][p] \in Nat
      BY <1>1 DEF LedgerTypeOK
    <3>2. x = from /\ p \in ps => bal[x][p] >= n
      BY <1>1
    <3>3. QED
      BY <1>1, <2>1, <3>1, <3>2
  <2>3. bal' \in [Accounts -> [Positions -> Nat]]
    BY <2>1, <2>2, NatBalances
  <2>4. QED
    BY <1>1, <2>3 DEF LedgerTypeOK
<1>3. \A w \in Worlds : Gap(bal', pot', w) = Gap(bal, pot, w) /\ Gap(bal, pot, w) \in Int
  <2> TAKE w \in Worlds
  <2>1. PICK b2 : b2 = bal'
    OBVIOUS
  <2>2. PICK m : m = -n
    OBVIOUS
  <2>3. OwedIn(b2, w) = OwedIn(bal, w)
    BY <1>1, <2>1, <2>2, TransferBalanced
  <2>4. Gap(bal, pot, w) \in Int
    BY <1>1, RootWorth DEF Gap
  <2>5. QED
    BY <1>1, <2>1, <2>3, <2>4 DEF Gap
<1>4. QED
  BY <1>1, <1>2, <1>3, GapKept

LEMMA ReportKeeps ==
  ASSUME LedgerInv, NEW c \in Conditions, NEW v \in PayoutVectors, ReportPayouts(c, v)
  PROVE  LedgerInv'
<1>1. /\ LedgerTypeOK /\ DenOK /\ Solvent /\ den[c] = 0 /\ VectorSum(v) > 0
      /\ numerator' = [numerator EXCEPT ![c] = v]
      /\ den' = [den EXCEPT ![c] = VectorSum(v)]
      /\ UNCHANGED <<bal, approvals, wallet, pot, prepared>>
  BY DEF LedgerInv, ReportPayouts
<1>2. VectorSum(v) \in Nat /\ v \in [Outcomes -> Nat]
  <2>1. v \in [Outcomes -> Nat]
    BY CtfAssumption DEF PayoutVectors
  <2>2. Sum(v, Outcomes) \in Nat
    BY <2>1, CtfAssumption, SumNat
  <2>3. QED
    BY <2>1, <2>2 DEF VectorSum, Sum
<1>3. LedgerTypeOK'
  BY <1>1, <1>2 DEF LedgerTypeOK
<1>4. den \in [Conditions -> Nat] /\ numerator \in [Conditions -> [Outcomes -> Nat]]
  BY <1>1 DEF LedgerTypeOK
<1>5. DenOK'
  <2>1. \A d \in Conditions : den'[d] > 0 => den'[d] = VectorSum(numerator'[d])
    BY <1>1, <1>4 DEF DenOK
  <2>2. QED
    BY <2>1 DEF DenOK, VectorSum
<1>6. Solvent'
  <2>1. ASSUME NEW w \in Worlds
        PROVE  Owed(w)' <= pot' * Worth(Root, w)'
    <3>1. \A p \in Positions \union {Root} :
            Worth(p, w)' = Sum(v, SetOf(p, c)) * Rest(p, c, w)
      BY <1>1, WorthReported
    <3>2. \A p : Supply(p)' = SupplyIn(bal, p)
      BY <1>1 DEF Supply, SupplyIn
    <3>3. Owed(w)' = SumFunction([p \in Positions |-> Supply(p)' * Worth(p, w)'])
      BY DEF Owed
    <3> DEFINE f == [p \in Positions |->
                       SupplyIn(bal, p) * (Sum(v, SetOf(p, c)) * Rest(p, c, w))]
    <3>4. [p \in Positions |-> Supply(p)' * Worth(p, w)'] = f
      BY <3>1, <3>2
    <3>5. Owed(w)' = Sum(f, Positions)
      BY <3>3, <3>4, SumOfFunction
    <3>6. SetOf(Root, c) = Outcomes
      BY PositionIs DEF SetOf
    <3>7. Worth(Root, w)' = Sum(v, Outcomes) * Rest(Root, c, w)
      BY <3>1, <3>6
    <3>8. Sum(f, Positions) <= pot * (Sum(v, Outcomes) * Rest(Root, c, w))
      BY <1>1, ReportCovered
    <3>9. QED
      BY <1>1, <3>5, <3>7, <3>8
  <2>2. QED
    BY <2>1 DEF Solvent, Worlds
<1>7. ExactBacking'
  <2>1. den'[c] # 0
    BY <1>1, <1>2, <1>4
  <2>2. QED
    BY <2>1 DEF ExactBacking
<1>8. QED
  BY <1>3, <1>5, <1>6, <1>7 DEF LedgerInv

LEMMA StepsKeep ==
  ASSUME LedgerInv, [LedgerNext]_ledgerVars
  PROVE  LedgerInv'
<1>1. ASSUME UNCHANGED <<bal, pot, wallet, numerator, den>>, approvals' \subseteq Accounts \X Accounts,
             prepared' \subseteq Conditions
      PROVE  LedgerInv'
  <2>1. LedgerTypeOK /\ DenOK
    BY DEF LedgerInv
  <2>2. LedgerTypeOK'
    BY <1>1, <2>1 DEF LedgerTypeOK
  <2>3. \A w \in Worlds : Gap(bal, pot, w) \in Int
    BY <2>1, RootWorth DEF Gap
  <2>4. QED
    BY <1>1, <2>2, <2>3, GapKept
<1>2. approvals \subseteq Accounts \X Accounts /\ prepared \subseteq Conditions
  BY DEF LedgerInv, LedgerTypeOK
<1>3. CASE UNCHANGED ledgerVars
  BY <1>1, <1>2, <1>3 DEF ledgerVars
<1>4. ASSUME NEW c \in Conditions, PrepareCondition(c)
      PROVE  LedgerInv'
  BY <1>1, <1>2, <1>4 DEF PrepareCondition
<1>5. ASSUME NEW a \in Accounts, NEW b \in Accounts, NEW yes \in BOOLEAN,
             SetApprovalForAll(a, b, yes)
      PROVE  LedgerInv'
  <2>1. approvals' \subseteq Accounts \X Accounts
    BY <1>2, <1>5 DEF SetApprovalForAll
  <2>2. QED
    BY <1>1, <1>2, <1>5, <2>1 DEF SetApprovalForAll
<1>6. CASE LedgerNext
  <2>1. CASE \E c \in Conditions : \/ PrepareCondition(c)
                                  \/ \E v \in PayoutVectors : ReportPayouts(c, v)
    BY <1>4, <2>1, ReportKeeps
  <2>2. CASE \E a \in Accounts, c \in Conditions : \E parent \in Parents(c) :
               \/ \E P \in Partitions, n \in Amounts :
                    \/ SplitPosition(a, parent, c, P, n)
                    \/ MergePositions(a, parent, c, P, n)
               \/ \E I \in SUBSET IndexSets : RedeemPositions(a, parent, c, I)
    BY <2>2, SplitKeeps, MergeKeeps, RedeemKeeps
  <2>3. CASE \E a, b \in Accounts :
               \/ \E yes \in BOOLEAN : a # b /\ SetApprovalForAll(a, b, yes)
               \/ \E op \in Accounts, p \in Positions, n \in Amounts :
                    SafeTransferFrom(op, a, b, {p}, n)
    <3>1. \A p \in Positions : {p} \in SUBSET Positions
      OBVIOUS
    <3>2. QED
      BY <1>5, <2>3, <3>1, TransferKeeps
  <2>4. QED
    BY <1>6, <2>1, <2>2, <2>3 DEF LedgerNext
<1>7. QED
  BY <1>3, <1>6

LEMMA StartsBacked ==
  ASSUME LedgerInit
  PROVE  LedgerInv
<1>1. LedgerTypeOK
  BY CtfAssumption DEF LedgerInit, LedgerTypeOK
<1>2. DenOK
  BY DEF LedgerInit, DenOK
<1>3. ASSUME NEW w \in Worlds
      PROVE  Owed(w) = 0 /\ Worth(Root, w) = 1
  <2>1. \A p \in Positions : SupplyIn(bal, p) = 0
    <3> TAKE p \in Positions
    <3> DEFINE f == [a \in Accounts |-> bal[a][p]]
    <3>1. \A a \in Accounts : f[a] = 0
      BY DEF LedgerInit
    <3>2. SupplyIn(bal, p) = Sum(f, Accounts)
      BY SumOfFunction DEF SupplyIn
    <3> HIDE DEF f
    <3>3. QED
      BY <3>1, <3>2, CtfAssumption, SumZero
  <2> DEFINE g == [p \in Positions |-> SupplyIn(bal, p) * Worth(p, w)]
  <2>2. \A p \in Positions : g[p] = 0
    <3> TAKE p \in Positions
    <3>1. Worth(p, w) \in Nat
      BY <1>1, <1>2, WorthIs
    <3>2. QED
      BY <2>1, <3>1
  <2>3. Owed(w) = Sum(g, Positions)
    BY SumOfFunction, OwedIs DEF OwedIn
  <2>4. Sum(g, Positions) = 0
    <3> HIDE DEF g
    <3>1. QED
      BY <2>2, PositionsFinite, SumZero
  <2>5. \A c \in Conditions : den[c] = 0
    BY DEF LedgerInit
  <2>6. QED
    BY <1>1, <1>2, <2>3, <2>4, <2>5, RootWorth
<1>4. pot = 0
  BY DEF LedgerInit
<1>5. QED
  BY <1>1, <1>2, <1>3, <1>4 DEF LedgerInv, Solvent, ExactBacking

(* For any finite sets of accounts, conditions and outcomes, any amounts and *)
(* any reports: whatever the open conditions turn out to be, the collateral  *)
(* covers everything outstanding, and before a report exactly.               *)
THEOREM AlwaysSolvent == LedgerSpec => [](Solvent /\ ExactBacking)
<1>1. LedgerInv => Solvent /\ ExactBacking
  BY DEF LedgerInv
<1>2. QED
  BY <1>1, StartsBacked, StepsKeep, PTL DEF LedgerSpec
==============================================================================
