---------------------------- MODULE LoopsAndSums ----------------------------
(***************************************************************************)
(* Lemmas about the two forms in which the models add things up: a loop,   *)
(* written as a function whose value at each turn is made of the one       *)
(* before, and a sum over a finite set, which the community modules take   *)
(* in an order that no one knows.                                          *)
(*                                                                         *)
(* Neither comes with the fact that such a function exists.  Recursion     *)
(* gives it for loops, from the well-founded order of the numbers, and     *)
(* SumExists for sums, from a loop that is right about one more member     *)
(* with every turn.  SumAdds and SumsCompare are what the proofs about     *)
(* sums use.                                                               *)
(***************************************************************************)
EXTENDS Naturals, Functions, FiniteSetTheorems, WellFoundedInduction, TLAPS

-----------------------------------------------------------------------------
(* Steps of numbers *)

\* A set of numbers with 0 and with the number after each of its own has all of
\* them.
LEMMA NatSteps ==
  ASSUME NEW T \in SUBSET Nat, 0 \in T, \A n \in T : n + 1 \in T
  PROVE  T = Nat
<1> SUFFICES ASSUME Nat \ T # {} PROVE FALSE
  OBVIOUS
<1>1. PICK least \in Nat \ T : \A n \in Nat \ T : ~(<<n, least>> \in OpToRel(<, Nat))
  BY NatLessThanWellFounded, WFMin
<1>2. \A n \in Nat \ T : ~(n < least)
  BY <1>1 DEF OpToRel
<1>3. least # 0 /\ least - 1 \in Nat /\ least - 1 \in T
  BY <1>2
<1> QED  BY <1>3

\* f starts with x and makes each value of the one before.
Unfolds(f, n, x, G) == f[0] = x /\ \A i \in 1..n : f[i] = G[i][f[i - 1]]

\* A function that is given by its first value and a step from each value to the
\* next one exists.
LEMMA Recursion ==
  ASSUME NEW n \in Nat, NEW S, NEW x \in S, NEW G \in [1..n -> [S -> S]]
  PROVE  \E f \in [0..n -> S] : Unfolds(f, n, x, G)
<1> DEFINE Works(f, m) == f = [i \in 0..m |-> IF i = 0 THEN x ELSE G[i][f[i - 1]]]
           Reached(m) == \E f \in [0..m -> S] : Works(f, m)
           T == {m \in Nat : m <= n => Reached(m)}
<1>1. 0 \in T
  <2>1. [i \in 0..0 |-> x] \in [0..0 -> S] /\ Works([i \in 0..0 |-> x], 0)
    OBVIOUS
  <2>2. Reached(0)
    BY <2>1
  <2> HIDE DEF Reached
  <2> QED  BY <2>2
<1>2. ASSUME NEW m \in T PROVE m + 1 \in T
  <2>0. m \in Nat /\ (m + 1 <= n => Reached(m))
    <3> HIDE DEF Reached
    <3> QED  OBVIOUS
  <2> SUFFICES ASSUME m + 1 <= n PROVE Reached(m + 1)
    <3> HIDE DEF Reached
    <3> QED  BY <2>0
  <2>1. PICK f \in [0..m -> S] : Works(f, m)
    BY <2>0
  <2> DEFINE g == [i \in 0..m + 1 |-> IF i = m + 1 THEN G[m + 1][f[m]] ELSE f[i]]
  <2>2. G[m + 1][f[m]] \in S
    OBVIOUS
  <2>3. g \in [0..m + 1 -> S]
    BY <2>2
  <2>4. \A i \in 0..m + 1 : g[i] = IF i = 0 THEN x ELSE G[i][g[i - 1]]
    <3> SUFFICES ASSUME NEW i \in 0..m + 1 PROVE g[i] = IF i = 0 THEN x ELSE G[i][g[i - 1]]
      OBVIOUS
    <3>1. CASE i = m + 1
      <4>1. g[m + 1] = G[m + 1][f[m]] /\ g[m] = f[m] /\ i - 1 = m /\ i # 0
        BY <3>1
      <4> QED  BY <3>1, <4>1
    <3>2. CASE i \in 0..m
      <4>1. g[i] = f[i] /\ (i # 0 => g[i - 1] = f[i - 1])
        BY <3>2
      <4>2. f[i] = IF i = 0 THEN x ELSE G[i][f[i - 1]]
        BY <2>1, <3>2
      <4> QED  BY <4>1, <4>2
    <3> QED  BY <3>1, <3>2
  <2>5. Works(g, m + 1)
    BY <2>4
  <2> QED  BY <2>3, <2>5
<1> HIDE DEF Reached
<1>3. T = Nat
  <2> HIDE DEF T
  <2>1. T \subseteq Nat
    BY DEF T
  <2> QED  BY <1>1, <1>2, <2>1, NatSteps
<1>4. Reached(n)
  BY <1>3
<1>5. PICK f \in [0..n -> S] : Works(f, n)
  BY <1>4 DEF Reached
<1>6. Unfolds(f, n, x, G)
  BY <1>5 DEF Unfolds
<1> QED  BY <1>6

\* What holds at 0, and at i + 1 where it holds at i, holds up to n.
LEMMA StepsUpTo ==
  ASSUME NEW n \in Nat, NEW T \in SUBSET (0..n), 0 \in T, \A i \in T : i < n => i + 1 \in T
  PROVE  T = 0..n
<1> DEFINE U == {m \in Nat : m <= n => m \in T}
<1>1. U \in SUBSET Nat /\ 0 \in U /\ \A m \in U : m + 1 \in U
  OBVIOUS
<1> HIDE DEF U
<1>2. U = Nat
  BY <1>1, NatSteps
<1>3. ASSUME NEW m \in 0..n PROVE m \in T
  <2>1. m \in U
    BY <1>2
  <2> QED  BY <2>1 DEF U
<1> QED  BY <1>3

-----------------------------------------------------------------------------
(* Sums over a set *)

\* The sums of the subsets of S, each made by taking one member out
Totals(S, w, sum) ==
  sum = [T \in SUBSET S |->
          IF T = {} THEN 0
          ELSE w[CHOOSE x \in T : TRUE] + sum[T \ {CHOOSE x \in T : TRUE}]]

\* A finite set has sums.
LEMMA SumExists ==
  ASSUME NEW S, IsFiniteSet(S), NEW w \in [S -> Nat]
  PROVE  \E sum \in [SUBSET S -> Nat] : Totals(S, w, sum)
<1> DEFINE n == Cardinality(S)
           Sums0 == [T \in SUBSET S |-> 0]
           One(T) == CHOOSE x \in T : TRUE
           Next1(h) == [T \in SUBSET S |-> IF T = {} THEN 0 ELSE w[One(T)] + h[T \ {One(T)}]]
           Maps == [SUBSET S -> Nat]
           G == [i \in 1..n + 1 |-> [h \in Maps |-> Next1(h)]]
<1>1. n \in Nat
  BY FS_CardinalityType
<1>2. \A T \in SUBSET S : T # {} => One(T) \in T
  OBVIOUS
<1>3. ASSUME NEW h \in Maps PROVE Next1(h) \in Maps
  <2> HIDE DEF One
  <2>1. ASSUME NEW T \in SUBSET S, T # {} PROVE w[One(T)] + h[T \ {One(T)}] \in Nat
    <3>1. w[One(T)] \in Nat /\ h[T \ {One(T)}] \in Nat
      BY <1>2, <2>1
    <3> QED  BY <3>1
  <2> QED  BY <2>1
<1>4. PICK f \in [0..n + 1 -> Maps] : Unfolds(f, n + 1, Sums0, G)
  <2>1. n + 1 \in Nat /\ Sums0 \in Maps
    BY <1>1
  <2>2. G \in [1..n + 1 -> [Maps -> Maps]]
    <3> HIDE DEF Maps, Next1
    <3> QED  BY <1>3
  <2> HIDE DEF G, Maps, Sums0
  <2> QED  BY <2>1, <2>2, Recursion
<1>5. \A i \in 1..n + 1 : f[i - 1] \in Maps /\ f[i] = Next1(f[i - 1])
  <2> SUFFICES ASSUME NEW i \in 1..n + 1 PROVE f[i - 1] \in Maps /\ f[i] = Next1(f[i - 1])
    OBVIOUS
  <2>1. f[i - 1] \in Maps /\ f[i] = G[i][f[i - 1]]
    <3> HIDE DEF G, Maps, Next1
    <3>1. i - 1 \in 0..n + 1
      BY <1>1
    <3> QED  BY <1>4, <3>1 DEF Unfolds
  <2> HIDE DEF Maps, Next1
  <2> QED  BY <2>1
<1> DEFINE Settled(i) == \A T \in SUBSET S : Cardinality(T) < i => f[i][T] = f[i - 1][T]
           U == {i \in 0..n : Settled(i + 1)}
<1>6. 0 \in U
  <2>1. ASSUME NEW T \in SUBSET S, Cardinality(T) < 1 PROVE T = {}
    BY <2>1, FS_Subset, FS_CardinalityType, FS_EmptySet
  <2>2. f[1][{}] = 0 /\ f[0][{}] = 0
    <3>1. 1 \in 1..n + 1 /\ 1 - 1 = 0
      BY <1>1
    <3>2. f[1] = Next1(f[0]) /\ f[0] = Sums0
      <4> HIDE DEF Next1, Sums0
      <4> QED  BY <1>4, <1>5, <3>1 DEF Unfolds
    <3> QED  BY <3>2
  <2>3. \A T \in SUBSET S : Cardinality(T) < 1 => f[1][T] = f[0][T]
    BY <2>1, <2>2
  <2>4. 0 + 1 = 1 /\ (0 + 1) - 1 = 0
    OBVIOUS
  <2> QED  BY <1>1, <2>3, <2>4
<1>7. ASSUME NEW i \in U, i < n PROVE i + 1 \in U
  <2>0. i \in 0..n /\ i + 1 \in 0..n /\ Settled(i + 1) /\ i + 1 \in 1..n + 1 /\ i + 2 \in 1..n + 1
        /\ (i + 2) - 1 = i + 1 /\ (i + 1) - 1 = i /\ (i + 1) + 1 = i + 2
    BY <1>1, <1>7
  <2>1. f[i + 2] = Next1(f[i + 1]) /\ f[i + 1] = Next1(f[i])
    <3> HIDE DEF Next1
    <3> QED  BY <1>5, <2>0
  <2>2. ASSUME NEW T \in SUBSET S, Cardinality(T) < i + 2 PROVE f[i + 2][T] = f[i + 1][T]
    <3>1. CASE T = {}
      BY <2>1, <3>1
    <3>2. CASE T # {}
      <4> DEFINE x == One(T)
      <4>1. x \in T
        BY <1>2, <3>2
      <4> HIDE DEF x
      <4>2. IsFiniteSet(T)
        BY FS_Subset
      <4>3. Cardinality(T \ {x}) = Cardinality(T) - 1 /\ Cardinality(T) \in Nat
        BY <4>1, <4>2, FS_RemoveElement, FS_CardinalityType
      <4>4. Cardinality(T \ {x}) < i + 1 /\ T \ {x} \in SUBSET S
        BY <2>0, <2>2, <4>3
      <4>5. f[i + 1][T \ {x}] = f[i][T \ {x}]
        BY <2>0, <4>4
      <4>6. f[i + 2][T] = w[x] + f[i + 1][T \ {x}] /\ f[i + 1][T] = w[x] + f[i][T \ {x}]
        BY <2>1, <3>2 DEF x
      <4> QED  BY <4>5, <4>6
    <3> QED  BY <3>1, <3>2
  <2>3. Settled((i + 1) + 1)
    BY <2>0, <2>2
  <2> HIDE DEF Settled
  <2> QED  BY <2>0, <2>3
<1>8. U = 0..n
  <2>1. U \in SUBSET (0..n)
    OBVIOUS
  <2> HIDE DEF U, n
  <2> QED  BY <1>1, <1>6, <1>7, <2>1, StepsUpTo
<1>9. Settled(n + 1)
  <2>1. n \in U
    BY <1>1, <1>8
  <2> HIDE DEF Settled
  <2> QED  BY <2>1
<1> DEFINE sum == f[n + 1]
<1>10. sum \in Maps /\ sum = Next1(f[n]) /\ f[n] \in Maps
  <2>1. n + 1 \in 1..n + 1 /\ (n + 1) - 1 = n /\ n + 1 \in 0..n + 1
    BY <1>1
  <2> HIDE DEF Next1, Maps
  <2> QED  BY <1>4, <1>5, <2>1
<1>11. \A T \in SUBSET S : sum[T] = f[n][T]
  <2> SUFFICES ASSUME NEW T \in SUBSET S PROVE sum[T] = f[n][T]
    OBVIOUS
  <2>1. Cardinality(T) <= n /\ Cardinality(T) \in Nat
    BY FS_Subset, FS_CardinalityType
  <2>2. Cardinality(T) < n + 1 /\ (n + 1) - 1 = n
    BY <1>1, <2>1
  <2> QED  BY <1>9, <2>2
<1>12. sum = Next1(sum)
  <2> HIDE DEF sum
  <2>1. \A T \in SUBSET S : sum[T] = IF T = {} THEN 0 ELSE w[One(T)] + sum[T \ {One(T)}]
    <3> SUFFICES ASSUME NEW T \in SUBSET S
                 PROVE sum[T] = IF T = {} THEN 0 ELSE w[One(T)] + sum[T \ {One(T)}]
      OBVIOUS
    <3>1. sum[T] = IF T = {} THEN 0 ELSE w[One(T)] + f[n][T \ {One(T)}]
      BY <1>10
    <3>2. sum[T \ {One(T)}] = f[n][T \ {One(T)}]
      BY <1>11
    <3> QED  BY <3>1, <3>2
  <2>2. sum \in Maps
    BY <1>10
  <2> QED  BY <2>1, <2>2
<1>13. Totals(S, w, sum)
  BY <1>12 DEF Totals
<1> QED  BY <1>10, <1>13

\* Sums that do not depend on an order
Additive(S, w, sum) ==
  /\ sum \in [SUBSET S -> Nat] /\ sum[{}] = 0
  /\ \A T \in SUBSET S : \A x \in T : sum[T] = w[x] + sum[T \ {x}]

\* The sum of a set is that of what is left when any member is taken out, and the
\* member's own.
LEMMA SumTakes ==
  ASSUME NEW S, IsFiniteSet(S), NEW w \in [S -> Nat], NEW sum, Totals(S, w, sum)
  PROVE  Additive(S, w, sum)
<1> DEFINE n == Cardinality(S)
           One(T) == CHOOSE x \in T : TRUE
           Holds(T) == sum[T] \in Nat /\ \A x \in T : sum[T] = w[x] + sum[T \ {x}]
           U == {i \in 0..n : \A T \in SUBSET S : Cardinality(T) <= i => Holds(T)}
<1>1. n \in Nat
  BY FS_CardinalityType
<1>2. \A T \in SUBSET S : T # {} => One(T) \in T
  OBVIOUS
<1>3. /\ sum[{}] = 0
      /\ \A T \in SUBSET S : T # {} => sum[T] = w[One(T)] + sum[T \ {One(T)}]
  BY DEF Totals
<1>4. \A T \in SUBSET S : IsFiniteSet(T) /\ Cardinality(T) \in 0..n
  BY <1>1, FS_Subset, FS_CardinalityType
<1> HIDE DEF One, n
<1>5. 0 \in U
  <2> SUFFICES ASSUME NEW T \in SUBSET S, Cardinality(T) <= 0 PROVE Holds(T)
    BY <1>1
  <2>1. T = {}
    BY <1>1, <1>4, FS_EmptySet
  <2> QED  BY <1>3, <2>1
<1>6. ASSUME NEW i \in U, i < n PROVE i + 1 \in U
  <2>0. /\ i \in 0..n /\ i + 1 \in 0..n
        /\ \A T \in SUBSET S : Cardinality(T) <= i => Holds(T)
    BY <1>1, <1>6
  <2>1. ASSUME NEW T \in SUBSET S, Cardinality(T) <= i + 1 PROVE Holds(T)
    <3>1. CASE T = {}
      BY <1>3, <3>1
    <3>2. CASE T # {}
      <4>1. PICK y \in T : sum[T] = w[y] + sum[T \ {y}]
        BY <1>2, <1>3, <3>2
      <4>2. \A x \in T : T \ {x} \in SUBSET S /\ Cardinality(T \ {x}) <= i
        <5> TAKE x \in T
        <5>1. Cardinality(T \ {x}) = Cardinality(T) - 1 /\ Cardinality(T) \in Nat
          BY <1>1, <1>4, FS_RemoveElement
        <5> QED  BY <2>0, <2>1, <5>1
      <4>3. \A x \in T : Holds(T \ {x})
        <5> HIDE DEF Holds
        <5> QED  BY <2>0, <4>2
      <4>4. ASSUME NEW x \in T, x # y PROVE sum[T] = w[x] + sum[T \ {x}]
        <5> DEFINE rest == (T \ {x}) \ {y}
        <5>1. rest = (T \ {y}) \ {x} /\ x \in T \ {y} /\ y \in T \ {x}
          BY <4>4
        <5> HIDE DEF rest
        <5>2. sum[T \ {y}] = w[x] + sum[rest]
          BY <4>3, <5>1
        <5>3. sum[T \ {x}] = w[y] + sum[rest]
          BY <4>3, <5>1 DEF rest
        <5>4. sum[rest] \in Nat /\ w[x] \in Nat /\ w[y] \in Nat
          <6>1. rest \in SUBSET S /\ Cardinality(rest) <= i
            <7>1. IsFiniteSet(T \ {x}) /\ Cardinality(T \ {x}) \in Nat
              BY <1>1, <1>4, <4>2
            <7>2. rest \in SUBSET (T \ {x})
              BY DEF rest
            <7>3. Cardinality(rest) <= Cardinality(T \ {x}) /\ Cardinality(rest) \in Nat
              BY <7>1, <7>2, FS_Subset, FS_CardinalityType
            <7> QED  BY <2>0, <4>2, <7>1, <7>2, <7>3
          <6> QED  BY <2>0, <6>1
        <5> QED  BY <4>1, <5>2, <5>3, <5>4
      <4>5. sum[T] \in Nat
        <5>1. sum[T \ {y}] \in Nat /\ w[y] \in Nat
          BY <4>3
        <5> QED  BY <4>1, <5>1
      <4> QED  BY <4>1, <4>4, <4>5
    <3> QED  BY <3>1, <3>2
  <2> HIDE DEF Holds
  <2> QED  BY <2>0, <2>1
<1>7. U = 0..n
  <2>1. U \in SUBSET (0..n)
    OBVIOUS
  <2> HIDE DEF U
  <2> QED  BY <1>1, <1>5, <1>6, <2>1, StepsUpTo
<1>8. \A T \in SUBSET S : Holds(T)
  <2> HIDE DEF Holds
  <2>1. n \in U
    BY <1>1, <1>7
  <2> QED  BY <1>1, <1>4, <2>1
<1>9. DOMAIN sum = SUBSET S /\ sum = [T \in SUBSET S |-> sum[T]]
  BY DEF Totals
<1> QED  BY <1>3, <1>8, <1>9 DEF Additive

\* Two sums of the same set with the same weights agree on what they share.
LEMMA SumsAgree ==
  ASSUME NEW S, IsFiniteSet(S), NEW w \in [S -> Nat], NEW sum, Totals(S, w, sum),
         NEW S2, IsFiniteSet(S2), NEW w2 \in [S2 -> Nat], NEW sum2, Totals(S2, w2, sum2),
         S \in SUBSET S2, \A x \in S : w2[x] = w[x]
  PROVE  sum[S] = sum2[S]
<1> DEFINE n == Cardinality(S)
           U == {i \in 0..n : \A T \in SUBSET S : Cardinality(T) <= i => sum[T] = sum2[T]}
<1>1. /\ n \in Nat
      /\ \A T \in SUBSET S : IsFiniteSet(T) /\ Cardinality(T) \in 0..n
  BY FS_Subset, FS_CardinalityType
<1>2. /\ sum[{}] = 0 /\ sum2[{}] = 0
      /\ \A T \in SUBSET S : \A x \in T : sum[T] = w[x] + sum[T \ {x}]
      /\ \A T \in SUBSET S2 : \A x \in T : sum2[T] = w2[x] + sum2[T \ {x}]
  <2>1. Additive(S, w, sum) /\ Additive(S2, w2, sum2)
    BY SumTakes
  <2> QED  BY <2>1 DEF Additive
<1> HIDE DEF n
<1>3. 0 \in U
  <2> SUFFICES ASSUME NEW T \in SUBSET S, Cardinality(T) <= 0 PROVE sum[T] = sum2[T]
    BY <1>1
  <2>1. T = {}
    BY <1>1, FS_EmptySet
  <2> QED  BY <1>2, <2>1
<1>4. ASSUME NEW i \in U, i < n PROVE i + 1 \in U
  <2>0. /\ i \in 0..n /\ i + 1 \in 0..n
        /\ \A T \in SUBSET S : Cardinality(T) <= i => sum[T] = sum2[T]
    BY <1>1, <1>4
  <2>1. ASSUME NEW T \in SUBSET S, Cardinality(T) <= i + 1 PROVE sum[T] = sum2[T]
    <3>1. CASE T = {}
      BY <1>2, <3>1
    <3>2. ASSUME NEW x \in T PROVE sum[T] = sum2[T]
      <4>1. Cardinality(T \ {x}) = Cardinality(T) - 1 /\ Cardinality(T) \in Nat
        BY <1>1, FS_RemoveElement
      <4>2. sum[T \ {x}] = sum2[T \ {x}]
        BY <2>0, <2>1, <4>1
      <4>3. sum[T] = w[x] + sum[T \ {x}] /\ sum2[T] = w2[x] + sum2[T \ {x}] /\ w[x] = w2[x]
        BY <1>2
      <4> QED  BY <4>2, <4>3
    <3> QED  BY <3>1, <3>2
  <2> QED  BY <2>0, <2>1
<1>5. U = 0..n
  <2>1. U \in SUBSET (0..n)
    OBVIOUS
  <2> HIDE DEF U
  <2> QED  BY <1>1, <1>3, <1>4, <2>1, StepsUpTo
<1> QED  BY <1>1, <1>5 DEF n

\* The sums that SumFunction takes
SumsOf(f) ==
  CHOOSE sum : sum = [T \in SUBSET DOMAIN f |->
    IF T = {} THEN 0
    ELSE f[CHOOSE x \in T : TRUE] + sum[T \ {CHOOSE x \in T : TRUE}]]

\* They are sums.
LEMMA SumIs ==
  ASSUME NEW S, IsFiniteSet(S), NEW f \in [S -> Nat]
  PROVE  SumFunction(f) = SumsOf(f)[S] /\ Totals(S, f, SumsOf(f)) /\ Additive(S, f, SumsOf(f))
<1>1. SumFunction(f) = SumsOf(f)[S]
  BY DEF SumFunction, SumFunctionOnSet, FoldFunctionOnSet, MapThenFoldSet, SumsOf
<1>2. PICK sum : Totals(S, f, sum)
  BY SumExists
<1>3. SumsOf(f) = CHOOSE s : Totals(S, f, s)
  BY DEF SumsOf, Totals
<1>4. Totals(S, f, SumsOf(f))
  BY <1>2, <1>3
<1> QED  BY <1>1, <1>4, SumTakes

\* A sum is a number, nothing over no members, and what any member adds to the sum
\* over the others.
LEMMA SumAdds ==
  ASSUME NEW S, IsFiniteSet(S), NEW f \in [S -> Nat]
  PROVE  /\ SumFunction(f) \in Nat
         /\ S = {} => SumFunction(f) = 0
         /\ \A x \in S : SumFunction(f) = f[x] + SumFunction([y \in S \ {x} |-> f[y]])
<1>1. SumFunction(f) = SumsOf(f)[S] /\ Additive(S, f, SumsOf(f)) /\ Totals(S, f, SumsOf(f))
  BY SumIs
<1>2. ASSUME NEW x \in S PROVE SumFunction(f) = f[x] + SumFunction([y \in S \ {x} |-> f[y]])
  <2> DEFINE R == S \ {x}
             g == [y \in R |-> f[y]]
  <2>1. IsFiniteSet(R) /\ R \in SUBSET S /\ g \in [R -> Nat] /\ \A y \in R : f[y] = g[y]
    BY FS_Subset
  <2>2. SumsOf(f)[S] = f[x] + SumsOf(f)[R]
    BY <1>1 DEF Additive
  <2> HIDE DEF R, g
  <2>3. SumFunction(g) = SumsOf(g)[R] /\ Totals(R, g, SumsOf(g))
    BY <2>1, SumIs
  <2>4. SumsOf(g)[R] = SumsOf(f)[R]
    BY <1>1, <2>1, <2>3, SumsAgree
  <2>5. SumFunction(f) = f[x] + SumFunction(g)
    BY <1>1, <2>2, <2>3, <2>4
  <2> QED  BY <2>5 DEF R, g
<1> QED  BY <1>1, <1>2 DEF Additive

\* A sum whose members are nowhere larger is not larger.
LEMMA SumsCompare ==
  ASSUME NEW S, IsFiniteSet(S), NEW f \in [S -> Nat], NEW g \in [S -> Nat],
         \A x \in S : f[x] <= g[x]
  PROVE  SumFunction(f) <= SumFunction(g)
<1> DEFINE n == Cardinality(S)
           a == SumsOf(f)
           b == SumsOf(g)
           U == {i \in 0..n : \A T \in SUBSET S : Cardinality(T) <= i => a[T] <= b[T]}
<1>1. /\ n \in Nat
      /\ \A T \in SUBSET S : IsFiniteSet(T) /\ Cardinality(T) \in 0..n
  BY FS_Subset, FS_CardinalityType
<1>2. /\ SumFunction(f) = a[S] /\ Additive(S, f, a)
      /\ SumFunction(g) = b[S] /\ Additive(S, g, b)
  BY SumIs
<1> HIDE DEF n, a, b
<1>3. /\ a[{}] = 0 /\ b[{}] = 0
      /\ \A T \in SUBSET S : a[T] \in Nat /\ b[T] \in Nat
      /\ \A T \in SUBSET S : \A x \in T : a[T] = f[x] + a[T \ {x}] /\ b[T] = g[x] + b[T \ {x}]
  BY <1>2 DEF Additive
<1>4. 0 \in U
  <2> SUFFICES ASSUME NEW T \in SUBSET S, Cardinality(T) <= 0 PROVE a[T] <= b[T]
    BY <1>1
  <2>1. T = {}
    BY <1>1, FS_EmptySet
  <2> QED  BY <1>3, <2>1
<1>5. ASSUME NEW i \in U, i < n PROVE i + 1 \in U
  <2>0. /\ i \in 0..n /\ i + 1 \in 0..n
        /\ \A T \in SUBSET S : Cardinality(T) <= i => a[T] <= b[T]
    BY <1>1, <1>5
  <2>1. ASSUME NEW T \in SUBSET S, Cardinality(T) <= i + 1 PROVE a[T] <= b[T]
    <3>1. CASE T = {}
      BY <1>3, <3>1
    <3>2. ASSUME NEW x \in T PROVE a[T] <= b[T]
      <4>1. Cardinality(T \ {x}) = Cardinality(T) - 1 /\ Cardinality(T) \in Nat
        BY <1>1, FS_RemoveElement
      <4>2. a[T \ {x}] <= b[T \ {x}] /\ a[T \ {x}] \in Nat /\ b[T \ {x}] \in Nat
        BY <1>3, <2>0, <2>1, <4>1
      <4>3. a[T] = f[x] + a[T \ {x}] /\ b[T] = g[x] + b[T \ {x}]
        BY <1>3
      <4>4. f[x] <= g[x] /\ f[x] \in Nat /\ g[x] \in Nat
        OBVIOUS
      <4> QED  BY <4>2, <4>3, <4>4
    <3> QED  BY <3>1, <3>2
  <2> QED  BY <2>0, <2>1
<1>6. U = 0..n
  <2>1. U \in SUBSET (0..n)
    OBVIOUS
  <2> HIDE DEF U
  <2> QED  BY <1>1, <1>4, <1>5, <2>1, StepsUpTo
<1> QED  BY <1>1, <1>2, <1>6 DEF n
=============================================================================
