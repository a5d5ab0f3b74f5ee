-------------------------------- MODULE Sums --------------------------------
(***************************************************************************)
(* What the folds of the community modules compute over finite sets, for   *)
(* the proofs about the models' sums.  A fold is a recursive function on   *)
(* the subsets of its set: it exists, it is unique, and when it adds       *)
(* integers the order of its choices does not matter.  The step operator   *)
(* and the choice are given as functions (h[x][v] and c[s]), so that the   *)
(* lemmas can be cited; the induction is over the least cardinality of a   *)
(* counterexample.                                                         *)
(***************************************************************************)
EXTENDS Integers, Sequences, FiniteSets, Functions, FiniteSetsExt, FiniteSetTheorems, WellFoundedInduction, TLAPS

\* A nonempty set of naturals has a least element.
LEMMA Smallest ==
  ASSUME NEW T \in SUBSET Nat, T # {}
  PROVE  \E x \in T : \A y \in T : x <= y
<1>1. PICK x \in T : \A y \in T : ~(<<y, x>> \in OpToRel(<, Nat))
  BY NatLessThanWellFounded, WFMin, Zenon
<1>2. \A y \in T : ~(y < x)
  BY <1>1 DEF OpToRel
<1> QED
  BY <1>2

\* A nonempty set of positions of a sequence has a last one.
LEMMA Largest ==
  ASSUME NEW n \in Nat, NEW T \in SUBSET (1..n), T # {}
  PROVE  \E x \in T : \A y \in T : x >= y
<1> DEFINE U == {m \in Nat : \E x \in T : m = n - x}
<1>1. U \in SUBSET Nat /\ U # {} /\ \A y \in T : n - y \in U
  <2>1. ASSUME NEW y \in T PROVE n - y \in U
    <3>1. y \in Nat /\ n - y \in Nat
      OBVIOUS
    <3> QED BY <3>1
  <2> QED BY <2>1
<1>2. PICK m \in U : \A k \in U : m <= k
  <2> HIDE DEF U
  <2> QED BY <1>1, Smallest
<1>3. PICK x \in T : m = n - x
  OBVIOUS
<1>4. \A y \in T : n - x <= n - y
  BY <1>1, <1>2, <1>3
<1> QED BY <1>3, <1>4

\* Induction over the naturals: no natural is bad when 0 is not and none follows a good one.
LEMMA NoneBad ==
  ASSUME NEW Bad \in SUBSET Nat, 0 \notin Bad, \A n \in Nat : n \notin Bad => n + 1 \notin Bad
  PROVE  Bad = {}
<1>1. SUFFICES ASSUME Bad # {} PROVE FALSE
  OBVIOUS
<1>2. PICK n \in Bad : \A m \in Bad : n <= m
  BY <1>1, Smallest
<1>3. n \in Nat /\ n # 0
  OBVIOUS
<1>4. n - 1 \in Nat /\ n - 1 \notin Bad
  BY <1>2, <1>3
<1>5. (n - 1) + 1 \notin Bad
  BY <1>4
<1> QED BY <1>3, <1>5

\* g is the fold of h over the subsets of S, from base, with the choices of c.
FoldOf(g, S, base, c, h) ==
  g = [s \in SUBSET S |-> IF s = {} THEN base ELSE h[c[s]][g[s \ {c[s]}]]]

Chooses(c, S) == \A s \in SUBSET S : s # {} => c[s] \in s

\* Removing an element of a finite set takes one off its cardinality.
LEMMA OneLess ==
  ASSUME NEW S, IsFiniteSet(S), NEW s \in SUBSET S, NEW x \in s
  PROVE  /\ IsFiniteSet(s) /\ Cardinality(s) \in Nat /\ Cardinality(s) > 0
         /\ s \ {x} \in SUBSET S /\ Cardinality(s \ {x}) = Cardinality(s) - 1
<1>1. IsFiniteSet(s) /\ Cardinality(s) \in Nat
  BY FS_Subset, FS_CardinalityType
<1>2. Cardinality(s \ {x}) = Cardinality(s) - 1 /\ IsFiniteSet(s \ {x})
  BY <1>1, FS_RemoveElement
<1>3. Cardinality(s) # 0
  BY <1>1, FS_EmptySet
<1> QED
  BY <1>1, <1>2, <1>3

\* The fold of a finite set exists.
LEMMA FoldExists ==
  ASSUME NEW S, IsFiniteSet(S), NEW base, NEW h, NEW c, Chooses(c, S)
  PROVE  \E g : FoldOf(g, S, base, c, h)
<1> DEFINE Step(g, s) == IF s = {} THEN base ELSE h[c[s]][g[s \ {c[s]}]]
           Upto(n, g) == \A s \in SUBSET S : Cardinality(s) <= n => g[s] = Step(g, s)
           Bad == {n \in Nat : ~\E g : Upto(n, g)}
<1>1. \A s \in SUBSET S : Cardinality(s) \in Nat
  BY FS_Subset, FS_CardinalityType
<1>2. \A s \in SUBSET S : s # {} =>
        c[s] \in s /\ s \ {c[s]} \in SUBSET S /\ Cardinality(s \ {c[s]}) = Cardinality(s) - 1
  BY OneLess DEF Chooses
<1>3. \A s \in SUBSET S : Cardinality(s) = 0 => s = {}
  BY FS_Subset, FS_EmptySet
<1>4. 0 \notin Bad
  <2> DEFINE g == [s \in SUBSET S |-> base]
  <2>1. Upto(0, g)
    BY <1>1, <1>3
  <2> QED BY <2>1
<1>5. ASSUME NEW n \in Nat, n \notin Bad PROVE n + 1 \notin Bad
  <2>1. PICK g : Upto(n, g)
    BY <1>5
  <2> DEFINE k == [s \in SUBSET S |-> IF Cardinality(s) = n + 1 THEN Step(g, s) ELSE g[s]]
  <2>2. ASSUME NEW s \in SUBSET S, Cardinality(s) <= n + 1 PROVE k[s] = Step(k, s)
    <3>1. Step(k, s) = Step(g, s)
      <4>1. CASE s = {}
        BY <4>1
      <4>2. CASE s # {}
        <5>1. k[s \ {c[s]}] = g[s \ {c[s]}]
          BY <1>1, <1>2, <2>2, <4>2
        <5> QED BY <5>1, <4>2
      <4> QED BY <4>1, <4>2
    <3>2. CASE Cardinality(s) = n + 1
      BY <3>1, <3>2
    <3>3. CASE Cardinality(s) # n + 1
      <4>1. Cardinality(s) <= n
        BY <1>1, <2>2, <3>3
      <4>2. g[s] = Step(g, s)
        BY <2>1, <4>1
      <4>3. k[s] = g[s]
        BY <3>3
      <4> QED BY <3>1, <4>2, <4>3
    <3> QED BY <3>2, <3>3
  <2>3. Upto(n + 1, k)
    BY <2>2
  <2> QED BY <2>3
<1>6. Bad = {}
  <2> HIDE DEF Bad
  <2>1. Bad \in SUBSET Nat
    BY DEF Bad
  <2> QED BY <1>4, <1>5, <2>1, NoneBad
<1>7. Cardinality(S) \in Nat
  BY <1>1
<1>8. PICK g : Upto(Cardinality(S), g)
  BY <1>6, <1>7
<1>9. \A s \in SUBSET S : Cardinality(s) <= Cardinality(S)
  BY FS_Subset
<1> DEFINE k == [s \in SUBSET S |-> g[s]]
<1>10. ASSUME NEW s \in SUBSET S PROVE k[s] = Step(k, s)
  <2>1. g[s] = Step(g, s)
    BY <1>8, <1>9
  <2>2. Step(k, s) = Step(g, s)
    BY <1>2
  <2> QED BY <2>1, <2>2
<1>11. FoldOf(k, S, base, c, h)
  <2>1. k = [s \in SUBSET S |-> Step(k, s)]
    BY <1>10
  <2> QED BY <2>1 DEF FoldOf
<1> QED
  BY <1>11


\* The fold of a set is that of a larger one, on the subsets they share.
LEMMA FoldAgrees ==
  ASSUME NEW S, IsFiniteSet(S), NEW base, NEW h, NEW c, Chooses(c, S), NEW R \in SUBSET S,
         NEW g, FoldOf(g, S, base, c, h), NEW k, FoldOf(k, R, base, c, h)
  PROVE  \A s \in SUBSET R : k[s] = g[s]
<1> DEFINE Bad == {n \in Nat : \E s \in SUBSET R : Cardinality(s) = n /\ k[s] # g[s]}
<1>1. \A s \in SUBSET R : Cardinality(s) \in Nat /\ (Cardinality(s) = 0 => s = {})
  BY FS_Subset, FS_CardinalityType, FS_EmptySet
<1>2. \A s \in SUBSET R : s # {} =>
        c[s] \in s /\ s \ {c[s]} \in SUBSET R /\ Cardinality(s \ {c[s]}) = Cardinality(s) - 1
  BY OneLess DEF Chooses
<1>3. \A s \in SUBSET R : k[s] = IF s = {} THEN base ELSE h[c[s]][k[s \ {c[s]}]]
  BY Zenon DEF FoldOf
<1>4. \A s \in SUBSET R : g[s] = IF s = {} THEN base ELSE h[c[s]][g[s \ {c[s]}]]
  <2>1. \A s \in SUBSET S : g[s] = IF s = {} THEN base ELSE h[c[s]][g[s \ {c[s]}]]
    BY Zenon DEF FoldOf
  <2> QED BY <2>1
<1>5. 0 \notin Bad
  BY <1>1, <1>3, <1>4
<1>6. ASSUME NEW n \in Nat, n \notin Bad PROVE n + 1 \notin Bad
  <2>1. SUFFICES ASSUME NEW s \in SUBSET R, Cardinality(s) = n + 1 PROVE k[s] = g[s]
    OBVIOUS
  <2>2. s # {}
    BY <2>1, FS_EmptySet
  <2>3. Cardinality(s \ {c[s]}) = n /\ s \ {c[s]} \in SUBSET R
    BY <1>2, <2>1, <2>2
  <2>4. k[s \ {c[s]}] = g[s \ {c[s]}]
    BY <1>6, <2>3
  <2> QED BY <1>3, <1>4, <2>2, <2>4
<1>7. Bad = {}
  <2> HIDE DEF Bad
  <2>1. Bad \in SUBSET Nat
    BY DEF Bad
  <2> QED BY <1>5, <1>6, <2>1, NoneBad
<1> QED
  BY <1>1, <1>7

\* A choice of an element of every nonempty subset of S.
AnyOf(S) == [s \in SUBSET S |-> CHOOSE x \in s : TRUE]

\* g adds up f over the subsets of S.
AddsUp(g, f, S) ==
  /\ g \in [SUBSET S -> Int] /\ g[{}] = 0
  /\ \A s \in SUBSET S : \A x \in s : g[s] = f[x] + g[s \ {x}]

\* A shuffle of three terms.
LEMMA Swap == \A a, b, c \in Int : a + (b + c) = b + (a + c)
OBVIOUS

\* A fold that adds integers does not depend on the order of its choices.
LEMMA FoldAdds ==
  ASSUME NEW S, IsFiniteSet(S), NEW f, \A x \in S : f[x] \in Int, NEW c, Chooses(c, S),
         NEW g, g = [s \in SUBSET S |-> IF s = {} THEN 0 ELSE f[c[s]] + g[s \ {c[s]}]]
  PROVE  AddsUp(g, f, S)
<1> DEFINE Good(s) == g[s] \in Int /\ \A x \in s : g[s] = f[x] + g[s \ {x}]
           Bad == {n \in Nat : \E s \in SUBSET S : Cardinality(s) <= n /\ ~Good(s)}
<1>1. \A s \in SUBSET S : Cardinality(s) \in Nat /\ (Cardinality(s) = 0 => s = {})
  BY FS_Subset, FS_CardinalityType, FS_EmptySet
<1>2. \A s \in SUBSET S : \A x \in s :
        s \ {x} \in SUBSET S /\ Cardinality(s \ {x}) = Cardinality(s) - 1
  BY OneLess
<1>3. g = [s \in SUBSET S |-> g[s]]
  BY Zenon
<1>4. \A s \in SUBSET S : g[s] = IF s = {} THEN 0 ELSE f[c[s]] + g[s \ {c[s]}]
  BY Zenon
<1>5. ASSUME NEW s \in SUBSET S, s # {}, g[s \ {c[s]}] \in Int
      PROVE  g[s] = f[c[s]] + g[s \ {c[s]}]
  BY <1>4, <1>5
<1>6. g[{}] = 0
  BY <1>4
<1>a. Good({})
  BY <1>6
<1>b. ASSUME NEW s \in SUBSET S, g[s] \in Int, \A x \in s : g[s] = f[x] + g[s \ {x}]
      PROVE  Good(s)
  BY <1>b
<1>c. ASSUME NEW s \in SUBSET S, Good(s)
      PROVE  g[s] \in Int /\ \A x \in s : g[s] = f[x] + g[s \ {x}]
  BY <1>c
<1> HIDE DEF Good
<1>7. 0 \notin Bad
  <2>1. \A s \in SUBSET S : Cardinality(s) <= 0 => s = {}
    BY <1>1
  <2> QED BY <2>1, <1>a, Zenon
<1>8. ASSUME NEW n \in Nat, n \notin Bad PROVE n + 1 \notin Bad
  <2>1. SUFFICES ASSUME NEW s \in SUBSET S, Cardinality(s) <= n + 1, s # {} PROVE Good(s)
    BY <1>a
  <2>2. \A x \in s : Good(s \ {x})
    BY <1>1, <1>2, <1>8, <2>1
  <2> DEFINE y == c[s]
  <2>3. y \in s /\ y \in S
    BY <2>1 DEF Chooses
  <2>4. g[s] = f[y] + g[s \ {y}] /\ g[s \ {y}] \in Int
    BY <1>5, <1>c, <1>2, <2>1, <2>2, <2>3
  <2>5. ASSUME NEW x \in s, x # y PROVE g[s] = f[x] + g[s \ {x}]
    <3>1. g[s \ {y}] = f[x] + g[(s \ {y}) \ {x}]
      BY <1>2, <1>c, <2>2, <2>3, <2>5
    <3>2. g[s \ {x}] = f[y] + g[(s \ {x}) \ {y}]
      BY <1>2, <1>c, <2>2, <2>3, <2>5
    <3>3. (s \ {x}) \ {y} = (s \ {y}) \ {x}
      OBVIOUS
    <3>4. g[(s \ {x}) \ {y}] \in Int
      <4>1. s \ {x} \in SUBSET S /\ Cardinality(s \ {x}) = Cardinality(s) - 1
        BY <1>2
      <4>2. (s \ {x}) \ {y} \in SUBSET S
            /\ Cardinality((s \ {x}) \ {y}) = Cardinality(s \ {x}) - 1
        BY <1>2, <4>1, <2>3, <2>5
      <4>3. Cardinality((s \ {x}) \ {y}) <= n
        BY <1>1, <2>1, <4>1, <4>2
      <4> QED BY <1>8, <1>c, <4>2, <4>3
    <3>5. f[x] \in Int /\ f[y] \in Int
      BY <2>3
    <3>6. g[s \ {x}] = f[y] + g[(s \ {y}) \ {x}]
      BY <3>2, <3>3
    <3>7. g[(s \ {y}) \ {x}] \in Int
      BY <3>3, <3>4
    <3>8. g[s] = f[y] + (f[x] + g[(s \ {y}) \ {x}])
      BY <2>4, <3>1
    <3> QED BY <3>5, <3>6, <3>7, <3>8, Swap
  <2>6. g[s] \in Int
    <3>1. f[y] \in Int
      BY <2>3
    <3> QED BY <2>4, <3>1
  <2>7. \A x \in s : g[s] = f[x] + g[s \ {x}]
    BY <2>4, <2>5
  <2> QED BY <1>b, <2>6, <2>7
<1>9. Bad = {}
  <2> HIDE DEF Bad
  <2>1. Bad \in SUBSET Nat
    BY DEF Bad
  <2> QED BY <1>7, <1>8, <2>1, NoneBad
<1>10. \A s \in SUBSET S : Good(s)
  BY <1>1, <1>9
<1>11. \A s \in SUBSET S : g[s] \in Int /\ \A x \in s : g[s] = f[x] + g[s \ {x}]
  BY <1>10, <1>c
<1>12. g \in [SUBSET S -> Int]
  BY <1>3, <1>11
<1> QED
  BY <1>6, <1>11, <1>12 DEF AddsUp


\* The fold stays in the type of its step.
LEMMA FoldTyped ==
  ASSUME NEW S, IsFiniteSet(S), NEW V, NEW base \in V, NEW h \in [S -> [V -> V]],
         NEW c, Chooses(c, S), NEW g, FoldOf(g, S, base, c, h)
  PROVE  g \in [SUBSET S -> V]
<1> DEFINE Bad == {n \in Nat : \E s \in SUBSET S : Cardinality(s) = n /\ g[s] \notin V}
<1>1. \A s \in SUBSET S : Cardinality(s) \in Nat /\ (Cardinality(s) = 0 => s = {})
  BY FS_Subset, FS_CardinalityType, FS_EmptySet
<1>2. \A s \in SUBSET S : s # {} =>
        c[s] \in S /\ s \ {c[s]} \in SUBSET S /\ Cardinality(s \ {c[s]}) = Cardinality(s) - 1
  BY OneLess DEF Chooses
<1>3. g = [s \in SUBSET S |-> g[s]]
  BY Zenon DEF FoldOf
<1>4. \A s \in SUBSET S : g[s] = IF s = {} THEN base ELSE h[c[s]][g[s \ {c[s]}]]
  BY Zenon DEF FoldOf
<1>5. 0 \notin Bad
  BY <1>1, <1>4
<1>6. ASSUME NEW n \in Nat, n \notin Bad PROVE n + 1 \notin Bad
  <2>1. SUFFICES ASSUME NEW s \in SUBSET S, Cardinality(s) = n + 1 PROVE g[s] \in V
    OBVIOUS
  <2>2. s # {}
    BY <2>1, FS_EmptySet
  <2>3. Cardinality(s \ {c[s]}) = n /\ s \ {c[s]} \in SUBSET S /\ c[s] \in S
    BY <1>2, <2>1, <2>2
  <2>4. g[s \ {c[s]}] \in V
    BY <1>6, <2>3
  <2>5. h[c[s]][g[s \ {c[s]}]] \in V
    BY <2>3, <2>4
  <2> QED BY <1>4, <2>2, <2>5
<1>7. Bad = {}
  <2> HIDE DEF Bad
  <2>1. Bad \in SUBSET Nat
    BY DEF Bad
  <2> QED BY <1>5, <1>6, <2>1, NoneBad
<1>8. \A s \in SUBSET S : g[s] \in V
  BY <1>1, <1>7
<1> QED
  BY <1>3, <1>8

\* Whatever elements are chosen there is a fold that adds f, and it adds it up.
LEMMA ChosenFold ==
  ASSUME NEW S, IsFiniteSet(S), NEW f, \A x \in S : f[x] \in Int, NEW c, Chooses(c, S)
  PROVE  \E g : /\ g = [s \in SUBSET S |-> IF s = {} THEN 0 ELSE f[c[s]] + g[s \ {c[s]}]]
                /\ AddsUp(g, f, S)
<1> DEFINE h == [x \in S |-> [v \in Int |-> f[x] + v]]
           Body(k) == [s \in SUBSET S |-> IF s = {} THEN 0 ELSE f[c[s]] + k[s \ {c[s]}]]
<1>1. PICK g : FoldOf(g, S, 0, c, h)
  BY FoldExists, Zenon
<1>2. g \in [SUBSET S -> Int]
  <2>1. 0 \in Int /\ h \in [S -> [Int -> Int]]
    OBVIOUS
  <2> HIDE DEF h
  <2> QED BY <1>1, <2>1, FoldTyped, Zenon
<1>3. g = Body(g)
  <2>1. g = [s \in SUBSET S |-> IF s = {} THEN 0 ELSE h[c[s]][g[s \ {c[s]}]]]
    BY <1>1, Zenon DEF FoldOf
  <2>2. \A s \in SUBSET S : s # {} => c[s] \in S /\ g[s \ {c[s]}] \in Int
    BY <1>2 DEF Chooses
  <2>3. \A s \in SUBSET S : s # {} => h[c[s]][g[s \ {c[s]}]] = f[c[s]] + g[s \ {c[s]}]
    BY <2>2
  <2> HIDE DEF h
  <2> QED BY <2>1, <2>3
<1>4. AddsUp(g, f, S)
  BY <1>3, FoldAdds
<1> QED BY <1>3, <1>4, Zenon

\* The sum of a function over a finite set, as the community module folds it.
LEMMA SumIsFold ==
  ASSUME NEW S, IsFiniteSet(S), NEW f, \A x \in S : f[x] \in Int
  PROVE  \E g : AddsUp(g, f, S) /\ SumFunctionOnSet(f, S) = g[S]
<1> DEFINE c == AnyOf(S)
           Body(k) == [s \in SUBSET S |-> IF s = {} THEN 0 ELSE f[c[s]] + k[s \ {c[s]}]]
           Raw(k) == [s \in SUBSET S |-> IF s = {} THEN 0
                        ELSE f[CHOOSE x \in s : TRUE] + k[s \ {CHOOSE x \in s : TRUE}]]
           iter == CHOOSE k : k = Raw(k)
<1>1. Chooses(c, S)
  BY Zenon DEF Chooses, AnyOf
<1>2. PICK g : g = Body(g)
  <2> HIDE DEF c
  <2>1. \E g : g = Body(g) /\ AddsUp(g, f, S)
    BY <1>1, ChosenFold
  <2> QED BY <2>1, Zenon
<1>3. \A s \in SUBSET S : c[s] = CHOOSE x \in s : TRUE
  BY Zenon DEF AnyOf
<1>4. \A k : Body(k) = Raw(k)
  <2> HIDE DEF c
  <2> QED BY <1>3, Zenon
<1>5. iter = Raw(iter)
  <2> HIDE DEF Raw, Body
  <2>1. g = Raw(g)
    BY <1>2, <1>4, Zenon
  <2> QED BY <2>1, Zenon
<1>6. iter = Body(iter)
  BY <1>4, <1>5, Zenon
<1>7. AddsUp(iter, f, S)
  <2> HIDE DEF iter, c
  <2> QED BY <1>1, <1>6, FoldAdds
<1>8. SumFunctionOnSet(f, S) = iter[S]
  BY Zenon DEF SumFunctionOnSet, FoldFunctionOnSet, MapThenFoldSet
<1> QED
  BY <1>7, <1>8, Zenon

\* Two functions that add up the same values are the same.
LEMMA AddsUpOnce ==
  ASSUME NEW S, IsFiniteSet(S), NEW R \in SUBSET S, NEW f, NEW g, AddsUp(g, f, S),
         NEW e, \A x \in R : e[x] = f[x] /\ f[x] \in Int, NEW k, AddsUp(k, e, R)
  PROVE  \A s \in SUBSET R : k[s] = g[s]
<1> DEFINE Bad == {n \in Nat : \E s \in SUBSET R : Cardinality(s) = n /\ k[s] # g[s]}
<1>1. \A s \in SUBSET R : Cardinality(s) \in Nat /\ (Cardinality(s) = 0 => s = {})
  BY FS_Subset, FS_CardinalityType, FS_EmptySet
<1>2. \A s \in SUBSET R : \A x \in s :
        s \ {x} \in SUBSET R /\ Cardinality(s \ {x}) = Cardinality(s) - 1
  BY OneLess
<1>3. 0 \notin Bad
  BY <1>1 DEF AddsUp
<1>4. ASSUME NEW n \in Nat, n \notin Bad PROVE n + 1 \notin Bad
  <2>1. SUFFICES ASSUME NEW s \in SUBSET R, Cardinality(s) = n + 1 PROVE k[s] = g[s]
    OBVIOUS
  <2>2. PICK x \in s : TRUE
    BY <2>1, FS_EmptySet
  <2>3. Cardinality(s \ {x}) = n /\ s \ {x} \in SUBSET R
    BY <1>2, <2>1, <2>2
  <2>4. k[s \ {x}] = g[s \ {x}]
    BY <1>4, <2>3
  <2>5. k[s] = e[x] + k[s \ {x}] /\ g[s] = f[x] + g[s \ {x}] /\ e[x] = f[x]
    BY DEF AddsUp
  <2> QED BY <2>4, <2>5
<1>5. Bad = {}
  <2> HIDE DEF Bad
  <2>1. Bad \in SUBSET Nat
    BY DEF Bad
  <2> QED BY <1>3, <1>4, <2>1, NoneBad
<1> QED
  BY <1>1, <1>5

\* Whatever adds up f gives the sum.
LEMMA SumAddsUp ==
  ASSUME NEW S, IsFiniteSet(S), NEW f, \A x \in S : f[x] \in Int, NEW k, AddsUp(k, f, S)
  PROVE  k[S] = SumFunctionOnSet(f, S)
<1>1. PICK e : AddsUp(e, f, S) /\ SumFunctionOnSet(f, S) = e[S]
  BY SumIsFold, Zenon
<1>2. S \in SUBSET S
  OBVIOUS
<1>3. k[S] = e[S]
  BY <1>1, <1>2, AddsUpOnce
<1> QED BY <1>1, <1>3

\* The sum over no element.
LEMMA SumEmpty == \A f : SumFunctionOnSet(f, {}) = 0
<1> SUFFICES ASSUME NEW f PROVE SumFunctionOnSet(f, {}) = 0
  OBVIOUS
<1>1. PICK g : AddsUp(g, f, {}) /\ SumFunctionOnSet(f, {}) = g[{}]
  BY SumIsFold, FS_EmptySet, Zenon
<1> QED BY <1>1 DEF AddsUp

\* The sum over a set takes the value of any one element and the sum over the others.
LEMMA SumStep ==
  ASSUME NEW S, IsFiniteSet(S), NEW f, \A x \in S : f[x] \in Int
  PROVE  /\ SumFunctionOnSet(f, S) \in Int
         /\ \A x \in S : SumFunctionOnSet(f, S) = f[x] + SumFunctionOnSet(f, S \ {x})
<1>1. PICK g : AddsUp(g, f, S) /\ SumFunctionOnSet(f, S) = g[S]
  BY SumIsFold, Zenon
<1>2. S \in SUBSET S
  OBVIOUS
<1>3. SumFunctionOnSet(f, S) \in Int
  BY <1>1, <1>2 DEF AddsUp
<1>4. ASSUME NEW x \in S
      PROVE  SumFunctionOnSet(f, S) = f[x] + SumFunctionOnSet(f, S \ {x})
  <2>1. IsFiniteSet(S \ {x}) /\ \A y \in S \ {x} : f[y] \in Int
    BY FS_Subset
  <2>2. PICK k : AddsUp(k, f, S \ {x}) /\ SumFunctionOnSet(f, S \ {x}) = k[S \ {x}]
    BY <2>1, SumIsFold, Zenon
  <2>3. k[S \ {x}] = g[S \ {x}]
    <3>1. S \ {x} \in SUBSET S /\ S \ {x} \in SUBSET (S \ {x})
      OBVIOUS
    <3>2. \A y \in S \ {x} : f[y] = f[y] /\ f[y] \in Int
      OBVIOUS
    <3> QED BY <1>1, <2>2, <3>1, <3>2, AddsUpOnce
  <2>4. g[S] = f[x] + g[S \ {x}]
    BY <1>1, <1>2 DEF AddsUp
  <2> QED BY <1>1, <2>2, <2>3, <2>4
<1> QED BY <1>3, <1>4

\* The sum depends only on the values over its set.
LEMMA SumSame ==
  ASSUME NEW S, IsFiniteSet(S), NEW f, NEW e, \A x \in S : e[x] = f[x] /\ f[x] \in Int
  PROVE  SumFunctionOnSet(e, S) = SumFunctionOnSet(f, S)
<1>1. PICK g : AddsUp(g, f, S) /\ SumFunctionOnSet(f, S) = g[S]
  BY SumIsFold, Zenon
<1>2. \A x \in S : e[x] \in Int
  OBVIOUS
<1>3. AddsUp(g, e, S)
  BY <1>1 DEF AddsUp
<1>4. g[S] = SumFunctionOnSet(e, S)
  BY <1>2, <1>3, SumAddsUp
<1> QED BY <1>1, <1>4

\* One more element adds its value.
LEMMA SumAdd ==
  ASSUME NEW S, IsFiniteSet(S), NEW y, y \notin S, NEW f, \A x \in S \cup {y} : f[x] \in Int
  PROVE  SumFunctionOnSet(f, S \cup {y}) = SumFunctionOnSet(f, S) + f[y]
<1>1. IsFiniteSet(S \cup {y}) /\ (S \cup {y}) \ {y} = S
  BY FS_AddElement
<1>2. SumFunctionOnSet(f, S \cup {y}) = f[y] + SumFunctionOnSet(f, S)
  BY <1>1, SumStep
<1>3. SumFunctionOnSet(f, S) \in Int
  BY SumStep
<1> QED BY <1>2, <1>3

\* Changing the value of one element changes the sum by as much.
LEMMA SumChange ==
  ASSUME NEW S, IsFiniteSet(S), NEW y \in S, NEW f, \A x \in S : f[x] \in Int,
         NEW e, \A x \in S \ {y} : e[x] = f[x], e[y] \in Int
  PROVE  SumFunctionOnSet(e, S) = SumFunctionOnSet(f, S) + (e[y] - f[y])
<1>1. IsFiniteSet(S \ {y})
  BY FS_Subset
<1>2. \A x \in S \ {y} : e[x] = f[x] /\ f[x] \in Int
  OBVIOUS
<1>3. SumFunctionOnSet(e, S \ {y}) = SumFunctionOnSet(f, S \ {y})
  BY <1>1, <1>2, SumSame
<1>4. \A x \in S : e[x] \in Int
  OBVIOUS
<1>5. SumFunctionOnSet(e, S) = e[y] + SumFunctionOnSet(e, S \ {y})
  BY <1>4, SumStep
<1>6. SumFunctionOnSet(f, S) = f[y] + SumFunctionOnSet(f, S \ {y})
  BY SumStep
<1>7. SumFunctionOnSet(f, S \ {y}) \in Int
  BY <1>1, <1>2, SumStep
<1> QED BY <1>3, <1>5, <1>6, <1>7

\* The sum over two disjoint sets.
LEMMA SumJoin ==
  ASSUME NEW S, IsFiniteSet(S), NEW T, IsFiniteSet(T), S \cap T = {},
         NEW f, \A x \in S \cup T : f[x] \in Int
  PROVE  SumFunctionOnSet(f, S \cup T) = SumFunctionOnSet(f, S) + SumFunctionOnSet(f, T)
<1> DEFINE Good(R) == SumFunctionOnSet(f, S \cup R) = SumFunctionOnSet(f, S) + SumFunctionOnSet(f, R)
           Bad     == {n \in Nat : \E R \in SUBSET T : Cardinality(R) = n /\ ~Good(R)}
<1>1. \A R \in SUBSET T : IsFiniteSet(R) /\ Cardinality(R) \in Nat /\ (Cardinality(R) = 0 => R = {})
  BY FS_Subset, FS_CardinalityType, FS_EmptySet
<1>2. SumFunctionOnSet(f, S) \in Int
  BY SumStep
<1>3. 0 \notin Bad
  <2>1. S \cup {} = S /\ SumFunctionOnSet(f, {}) = 0
    BY SumEmpty
  <2>2. Good({})
    BY <1>2, <2>1
  <2> HIDE DEF Good
  <2> QED BY <1>1, <2>2
<1>4. ASSUME NEW n \in Nat, n \notin Bad PROVE n + 1 \notin Bad
  <2>1. SUFFICES ASSUME NEW R \in SUBSET T, Cardinality(R) = n + 1 PROVE Good(R)
    OBVIOUS
  <2>2. PICK y \in R : TRUE
    BY <2>1, FS_EmptySet
  <2> DEFINE Q == R \ {y}
  <2>3. Q \in SUBSET T /\ Cardinality(Q) = n /\ IsFiniteSet(Q) /\ IsFiniteSet(S \cup Q)
        /\ y \notin Q /\ y \notin S \cup Q /\ Q \cup {y} = R /\ (S \cup Q) \cup {y} = S \cup R
    <3>1. Q \in SUBSET T /\ Cardinality(Q) = n
      BY <2>1, OneLess
    <3>2. IsFiniteSet(Q) /\ IsFiniteSet(S \cup Q)
      BY <1>1, <3>1, FS_Union
    <3> QED BY <3>1, <3>2
  <2>4. Good(Q)
    BY <1>4, <2>3
  <2> HIDE DEF Q
  <2>5. \A x \in Q \cup {y} : f[x] \in Int
    BY <2>3
  <2>6. SumFunctionOnSet(f, R) = SumFunctionOnSet(f, Q) + f[y] /\ SumFunctionOnSet(f, Q) \in Int
    BY <2>3, <2>5, SumAdd, SumStep
  <2>7. \A x \in (S \cup Q) \cup {y} : f[x] \in Int
    BY <2>3
  <2>8. SumFunctionOnSet(f, S \cup R) = SumFunctionOnSet(f, S \cup Q) + f[y]
    BY <2>3, <2>7, SumAdd
  <2> QED BY <1>2, <2>4, <2>5, <2>6, <2>8
<1>5. Bad = {}
  <2> HIDE DEF Bad
  <2>1. Bad \in SUBSET Nat
    BY DEF Bad
  <2> QED BY <1>3, <1>4, <2>1, NoneBad
<1>6. Good(T)
  <2> HIDE DEF Good
  <2> QED BY <1>1, <1>5
<1> QED BY <1>6

\* k is a fold that adds f over the subsets of S, as the community modules write it.
AddingFold(k, f, S) ==
  k = [s \in SUBSET S |-> IF s = {} THEN 0
                          ELSE f[CHOOSE x \in s : TRUE] + k[s \ {CHOOSE x \in s : TRUE}]]

\* There is such a fold, and it gives the sum.
LEMMA AddingFolds ==
  ASSUME NEW S, IsFiniteSet(S), NEW f, \A x \in S : f[x] \in Int
  PROVE  /\ \E k : AddingFold(k, f, S)
         /\ \A k : AddingFold(k, f, S) => k[S] = SumFunctionOnSet(f, S)
<1> DEFINE c == AnyOf(S)
           Body(k) == [s \in SUBSET S |-> IF s = {} THEN 0 ELSE f[c[s]] + k[s \ {c[s]}]]
<1>1. Chooses(c, S)
  BY Zenon DEF Chooses, AnyOf
<1>2. PICK g : g = Body(g)
  <2> HIDE DEF c
  <2>1. \E g : g = Body(g) /\ AddsUp(g, f, S)
    BY <1>1, ChosenFold
  <2> QED BY <2>1, Zenon
<1>3. \A s \in SUBSET S : c[s] = CHOOSE x \in s : TRUE
  BY Zenon DEF AnyOf
<1>4. \A k : AddingFold(k, f, S) <=> k = Body(k)
  <2> HIDE DEF c
  <2> QED BY <1>3, Zenon DEF AddingFold
<1>5. ASSUME NEW k, AddingFold(k, f, S) PROVE k[S] = SumFunctionOnSet(f, S)
  <2>1. k = Body(k)
    BY <1>4, <1>5, Zenon
  <2>2. AddsUp(k, f, S)
    <3> HIDE DEF c
    <3> QED BY <1>1, <2>1, FoldAdds
  <2> QED BY <2>2, SumAddsUp
<1> QED BY <1>2, <1>4, <1>5, Zenon

\* b moves the elements of S, each with its value, to those of M.
Moves(b, S, f, M, e) ==
  /\ \A x \in S : b[x] \in M /\ e[b[x]] = f[x] /\ f[x] \in Int
  /\ \A x, y \in S : b[x] = b[y] => x = y
  /\ \A y \in M : \E x \in S : y = b[x]

\* Moving the elements, each with its value, leaves the sum.
LEMMA SumMoved ==
  ASSUME NEW S, IsFiniteSet(S), NEW f, NEW b, NEW M, NEW e, Moves(b, S, f, M, e)
  PROVE  SumFunctionOnSet(e, M) = SumFunctionOnSet(f, S)
<1> DEFINE To(R)   == {b[x] : x \in R}
           Good(R) == IsFiniteSet(To(R)) /\ SumFunctionOnSet(e, To(R)) = SumFunctionOnSet(f, R)
           Bad     == {n \in Nat : \E R \in SUBSET S : Cardinality(R) = n /\ ~Good(R)}
<1>1. \A R \in SUBSET S : IsFiniteSet(R) /\ Cardinality(R) \in Nat /\ (Cardinality(R) = 0 => R = {})
  BY FS_Subset, FS_CardinalityType, FS_EmptySet
<1>3. 0 \notin Bad
  <2>1. To({}) = {}
    OBVIOUS
  <2>2. Good({})
    BY <2>1, SumEmpty, FS_EmptySet
  <2> HIDE DEF Good
  <2> QED BY <1>1, <2>2
<1>4. ASSUME NEW n \in Nat, n \notin Bad PROVE n + 1 \notin Bad
  <2>1. SUFFICES ASSUME NEW R \in SUBSET S, Cardinality(R) = n + 1 PROVE Good(R)
    OBVIOUS
  <2>2. PICK y \in R : TRUE
    BY <2>1, FS_EmptySet
  <2> DEFINE Q == R \ {y}
             P == To(Q)
             z == b[y]
  <2>3. Q \in SUBSET S /\ Cardinality(Q) = n /\ y \notin Q /\ Q \cup {y} = R /\ y \in S
    BY <2>1, OneLess
  <2>4. Good(Q) /\ IsFiniteSet(Q)
    BY <1>1, <1>4, <2>3
  <2>5. To(R) = P \cup {z} /\ z \notin P
    BY <2>3 DEF Moves
  <2>6. (\A x \in P \cup {z} : e[x] \in Int) /\ (\A x \in Q \cup {y} : f[x] \in Int) /\ e[z] = f[y]
    BY <2>3 DEF Moves
  <2>7. IsFiniteSet(P) /\ SumFunctionOnSet(e, P) = SumFunctionOnSet(f, Q)
    BY <2>4
  <2> HIDE DEF Q, To, P, z
  <2>8. IsFiniteSet(P \cup {z})
    BY <2>7, FS_AddElement
  <2>9. SumFunctionOnSet(e, P \cup {z}) = SumFunctionOnSet(e, P) + e[z]
    BY <2>5, <2>6, <2>7, SumAdd
  <2>10. SumFunctionOnSet(f, Q \cup {y}) = SumFunctionOnSet(f, Q) + f[y]
    BY <2>3, <2>4, <2>6, SumAdd
  <2> QED BY <2>3, <2>5, <2>6, <2>7, <2>8, <2>9, <2>10
<1>5. Bad = {}
  <2> HIDE DEF Bad
  <2>1. Bad \in SUBSET Nat
    BY DEF Bad
  <2> QED BY <1>3, <1>4, <2>1, NoneBad
<1>6. Good(S)
  <2> HIDE DEF Good
  <2> QED BY <1>1, <1>5
<1>7. To(S) = M
  BY DEF Moves
<1> QED BY <1>6, <1>7

\* Sums of a part of a finite set are integers, and one element makes the difference.
LEMMA SumPart ==
  ASSUME NEW S, IsFiniteSet(S), NEW f, \A x \in S : f[x] \in Int, NEW R \in SUBSET S
  PROVE  /\ IsFiniteSet(R) /\ SumFunctionOnSet(f, R) \in Int
         /\ \A x \in R : SumFunctionOnSet(f, R) = f[x] + SumFunctionOnSet(f, R \ {x})
<1>1. IsFiniteSet(R)
  BY FS_Subset
<1>2. \A x \in R : f[x] \in Int
  OBVIOUS
<1> QED BY <1>1, <1>2, SumStep

\* Nothing adds up to nothing.
LEMMA SumZero ==
  ASSUME NEW S, IsFiniteSet(S), NEW f, \A x \in S : f[x] = 0
  PROVE  SumFunctionOnSet(f, S) = 0
<1> DEFINE k == [R \in SUBSET S |-> 0]
<1>1. AddsUp(k, f, S)
  BY DEF AddsUp
<1>2. \A x \in S : f[x] \in Int
  OBVIOUS
<1>3. k[S] = 0
  OBVIOUS
<1> HIDE DEF k
<1> QED BY <1>1, <1>2, <1>3, SumAddsUp

\* The elements that add nothing may be left out.
LEMMA SumOnly ==
  ASSUME NEW S, IsFiniteSet(S), NEW T \in SUBSET S, NEW f, \A x \in S : f[x] \in Int,
         \A x \in S \ T : f[x] = 0
  PROVE  SumFunctionOnSet(f, T) = SumFunctionOnSet(f, S)
<1> DEFINE U == S \ T
<1>1. IsFiniteSet(T) /\ IsFiniteSet(U) /\ T \cap U = {} /\ T \cup U = S
  BY FS_Subset
<1>2. (\A x \in T \cup U : f[x] \in Int) /\ \A x \in U : f[x] = 0
  OBVIOUS
<1> HIDE DEF U
<1>3. SumFunctionOnSet(f, T \cup U) = SumFunctionOnSet(f, T) + SumFunctionOnSet(f, U)
  BY <1>1, <1>2, SumJoin
<1>4. SumFunctionOnSet(f, U) = 0
  BY <1>1, <1>2, SumZero
<1>5. SumFunctionOnSet(f, T) \in Int
  BY SumPart
<1>6. SumFunctionOnSet(f, S) = SumFunctionOnSet(f, T) + SumFunctionOnSet(f, U)
  BY <1>1, <1>3, Zenon
<1> QED BY <1>4, <1>5, <1>6

\* A sum of sums.
LEMMA SumPlus ==
  ASSUME NEW S, IsFiniteSet(S), NEW f, NEW e, NEW h,
         \A x \in S : f[x] \in Int /\ e[x] \in Int /\ h[x] = f[x] + e[x]
  PROVE  SumFunctionOnSet(h, S) = SumFunctionOnSet(f, S) + SumFunctionOnSet(e, S)
<1> DEFINE F(R) == SumFunctionOnSet(f, R)
           E(R) == SumFunctionOnSet(e, R)
           k    == [R \in SUBSET S |-> F(R) + E(R)]
<1>1. ASSUME NEW R \in SUBSET S
      PROVE  /\ F(R) \in Int /\ \A x \in R : F(R) = f[x] + F(R \ {x})
             /\ E(R) \in Int /\ \A x \in R : E(R) = e[x] + E(R \ {x})
  BY SumPart
<1>2. F({}) = 0 /\ E({}) = 0
  BY SumEmpty
<1> HIDE DEF F, E
<1>3. k \in [SUBSET S -> Int] /\ k[{}] = 0
  BY <1>1, <1>2
<1>4. ASSUME NEW R \in SUBSET S, NEW x \in R PROVE k[R] = h[x] + k[R \ {x}]
  <2>1. R \ {x} \in SUBSET S /\ x \in S
    OBVIOUS
  <2>2. F(R) = f[x] + F(R \ {x}) /\ E(R) = e[x] + E(R \ {x})
    BY <1>1
  <2>3. F(R \ {x}) \in Int /\ E(R \ {x}) \in Int
    BY <1>1, <2>1
  <2> QED BY <2>1, <2>2, <2>3
<1>5. AddsUp(k, h, S)
  <2> HIDE DEF k
  <2> QED BY <1>3, <1>4 DEF AddsUp
<1>6. k[S] = F(S) + E(S)
  OBVIOUS
<1> HIDE DEF k
<1>7. \A x \in S : h[x] \in Int
  OBVIOUS
<1>8. k[S] = SumFunctionOnSet(h, S)
  BY <1>5, <1>7, SumAddsUp
<1> QED BY <1>6, <1>8 DEF F, E

\* col is the table f, whose rows are S and whose columns are T, on its side.
Turned(col, f, S, T) == \A x \in S : \A y \in T : col[y][x] = f[x][y] /\ f[x][y] \in Int

\* What the rows of f add up to.
RowSums(row, f, S, T) == \A x \in S : row[x] = SumFunctionOnSet(f[x], T)

\* The columns of a table add up to what its rows add up to.
LEMMA SumSwap ==
  ASSUME NEW S, IsFiniteSet(S), NEW T, IsFiniteSet(T),
         NEW f, NEW col, Turned(col, f, S, T),
         NEW row, RowSums(row, f, S, T), NEW foot, RowSums(foot, col, T, S)
  PROVE  SumFunctionOnSet(row, S) = SumFunctionOnSet(foot, T)
<1> DEFINE cut(R) == [y \in T |-> SumFunctionOnSet(col[y], R)]
           k      == [R \in SUBSET S |-> SumFunctionOnSet(cut(R), T)]
<1>1. \A y \in T : \A x \in S : col[y][x] = f[x][y] /\ col[y][x] \in Int
  BY DEF Turned
<1>2. ASSUME NEW R \in SUBSET S
      PROVE  /\ \A y \in T : cut(R)[y] = SumFunctionOnSet(col[y], R) /\ cut(R)[y] \in Int
             /\ SumFunctionOnSet(cut(R), T) \in Int
  <2>1. \A y \in T : SumFunctionOnSet(col[y], R) \in Int
    BY <1>1, SumPart
  <2>2. \A y \in T : cut(R)[y] = SumFunctionOnSet(col[y], R) /\ cut(R)[y] \in Int
    BY <2>1
  <2> HIDE DEF cut
  <2>3. SumFunctionOnSet(cut(R), T) \in Int
    BY <2>2, SumStep
  <2> QED BY <2>2, <2>3
<1>3. \A x \in S : row[x] = SumFunctionOnSet(f[x], T) /\ row[x] \in Int
  <2>1. \A x \in S : \A y \in T : f[x][y] \in Int
    BY DEF Turned
  <2>2. \A x \in S : SumFunctionOnSet(f[x], T) \in Int
    BY <2>1, SumStep
  <2> QED BY <2>2 DEF RowSums
<1> HIDE DEF cut
<1>4. SumFunctionOnSet(cut({}), T) = 0
  <2>1. \A y \in T : cut({})[y] = 0
    BY <1>2, SumEmpty
  <2> QED BY <2>1, SumZero
<1>5. ASSUME NEW R \in SUBSET S, NEW x \in R
      PROVE  SumFunctionOnSet(cut(R), T) = row[x] + SumFunctionOnSet(cut(R \ {x}), T)
  <2> DEFINE Q == R \ {x}
  <2>1. Q \in SUBSET S /\ x \in S
    OBVIOUS
  <2>2. ASSUME NEW y \in T PROVE cut(R)[y] = f[x][y] + cut(Q)[y]
    <3>1. \A z \in S : col[y][z] \in Int
      BY <1>1
    <3>2. SumFunctionOnSet(col[y], R) = col[y][x] + SumFunctionOnSet(col[y], R \ {x})
      BY <3>1, SumPart
    <3> QED BY <1>1, <1>2, <2>1, <3>2
  <2> HIDE DEF Q
  <2>3. \A y \in T : f[x][y] \in Int /\ cut(Q)[y] \in Int /\ cut(R)[y] = f[x][y] + cut(Q)[y]
    BY <1>2, <2>1, <2>2 DEF Turned
  <2>4. SumFunctionOnSet(cut(R), T) = SumFunctionOnSet(f[x], T) + SumFunctionOnSet(cut(Q), T)
    BY <2>3, SumPlus
  <2> QED BY <1>3, <2>1, <2>4 DEF Q
<1>6. AddsUp(k, row, S)
  <2>1. k \in [SUBSET S -> Int] /\ k[{}] = 0
    BY <1>2, <1>4
  <2>2. \A R \in SUBSET S : k[R] = SumFunctionOnSet(cut(R), T)
    OBVIOUS
  <2> HIDE DEF k
  <2>3. ASSUME NEW R \in SUBSET S, NEW x \in R PROVE k[R] = row[x] + k[R \ {x}]
    BY <1>5, <2>2
  <2> QED BY <2>1, <2>3 DEF AddsUp
<1>7. k[S] = SumFunctionOnSet(cut(S), T)
  OBVIOUS
<1> HIDE DEF k
<1>8. k[S] = SumFunctionOnSet(row, S)
  BY <1>3, <1>6, SumAddsUp
<1>9. SumFunctionOnSet(foot, T) = SumFunctionOnSet(cut(S), T)
  <2>1. \A y \in T : foot[y] = cut(S)[y] /\ cut(S)[y] \in Int
    BY <1>2 DEF RowSums
  <2> QED BY <2>1, SumSame
<1> QED BY <1>7, <1>8, <1>9

\* The elements of S that b gives the name n.
Part(S, b, n) == {x \in S : b[x] = n}

\* What the parts of S add up to.
PartSums(sub, f, S, b, K) == \A n \in K : sub[n] = SumFunctionOnSet(f, Part(S, b, n))

\* The parts of a set, each of the elements that b gives the same name, add up to what the
\* set adds up to.
LEMMA SumParts ==
  ASSUME NEW S, IsFiniteSet(S), NEW K, IsFiniteSet(K), NEW b, \A x \in S : b[x] \in K,
         NEW f, \A x \in S : f[x] \in Int,
         NEW sub, PartSums(sub, f, S, b, K)
  PROVE  SumFunctionOnSet(sub, K) = SumFunctionOnSet(f, S)
<1> DEFINE part(R, n) == Part(R, b, n)
           cut(R)     == [n \in K |-> SumFunctionOnSet(f, part(R, n))]
           k          == [R \in SUBSET S |-> SumFunctionOnSet(cut(R), K)]
<1>1. ASSUME NEW R \in SUBSET S
      PROVE  /\ \A n \in K : cut(R)[n] = SumFunctionOnSet(f, part(R, n)) /\ cut(R)[n] \in Int
             /\ SumFunctionOnSet(cut(R), K) \in Int
  <2>1. \A n \in K : part(R, n) \in SUBSET S
    BY DEF Part
  <2> HIDE DEF part
  <2>2. \A n \in K : SumFunctionOnSet(f, part(R, n)) \in Int
    BY <2>1, SumPart
  <2>3. \A n \in K : cut(R)[n] = SumFunctionOnSet(f, part(R, n)) /\ cut(R)[n] \in Int
    BY <2>2
  <2> HIDE DEF cut
  <2>4. SumFunctionOnSet(cut(R), K) \in Int
    BY <2>3, SumStep
  <2> QED BY <2>3, <2>4
<1>2. \A n \in K : part({}, n) = {}
  BY DEF Part
<1>3. ASSUME NEW R \in SUBSET S, NEW x \in R
      PROVE  /\ R \ {x} \in SUBSET S /\ x \in S /\ b[x] \in K /\ x \in part(R, b[x])
             /\ part(R, b[x]) \in SUBSET S /\ part(R \ {x}, b[x]) = part(R, b[x]) \ {x}
             /\ \A n \in K \ {b[x]} : part(R \ {x}, n) = part(R, n)
  BY DEF Part
<1> HIDE DEF part, cut
<1>4. SumFunctionOnSet(cut({}), K) = 0
  <2>1. \A n \in K : cut({})[n] = 0
    BY <1>1, <1>2, SumEmpty
  <2> QED BY <2>1, SumZero
<1>5. ASSUME NEW R \in SUBSET S, NEW x \in R
      PROVE  SumFunctionOnSet(cut(R), K) = f[x] + SumFunctionOnSet(cut(R \ {x}), K)
  <2> DEFINE Q == R \ {x}
             m == b[x]
             P == part(R, m)
  <2>1. /\ Q \in SUBSET S /\ x \in S /\ m \in K /\ x \in P /\ P \in SUBSET S
        /\ part(Q, m) = P \ {x} /\ \A n \in K \ {m} : part(Q, n) = part(R, n)
    BY <1>3
  <2> HIDE DEF Q, m
  <2>2. cut(R)[m] = f[x] + cut(Q)[m]
    <3>1. cut(R)[m] = SumFunctionOnSet(f, P) /\ cut(Q)[m] = SumFunctionOnSet(f, P \ {x})
      BY <1>1, <2>1
    <3> HIDE DEF P
    <3>2. SumFunctionOnSet(f, P) = f[x] + SumFunctionOnSet(f, P \ {x})
      BY <2>1, SumPart
    <3> QED BY <3>1, <3>2
  <2>3. \A n \in K \ {m} : cut(R)[n] = cut(Q)[n]
    BY <1>1, <2>1
  <2> DEFINE e == cut(R)
             g == cut(Q)
  <2>4. (\A n \in K : g[n] \in Int) /\ e[m] \in Int /\ SumFunctionOnSet(g, K) \in Int
    BY <1>1, <2>1
  <2>5. \A n \in K \ {m} : e[n] = g[n]
    BY <2>3
  <2> HIDE DEF e, g
  <2>6. SumFunctionOnSet(e, K) = SumFunctionOnSet(g, K) + (e[m] - g[m])
    BY <2>1, <2>4, <2>5, SumChange
  <2>7. e[m] = f[x] + g[m] /\ g[m] \in Int /\ f[x] \in Int
    BY <2>1, <2>2, <2>4 DEF e, g
  <2>8. SumFunctionOnSet(e, K) = f[x] + SumFunctionOnSet(g, K)
    BY <2>4, <2>6, <2>7
  <2> QED BY <2>8 DEF e, g, Q
<1>6. AddsUp(k, f, S)
  <2>1. k \in [SUBSET S -> Int] /\ k[{}] = 0
    BY <1>1, <1>4
  <2>2. \A R \in SUBSET S : k[R] = SumFunctionOnSet(cut(R), K)
    OBVIOUS
  <2> HIDE DEF k
  <2>3. ASSUME NEW R \in SUBSET S, NEW x \in R PROVE k[R] = f[x] + k[R \ {x}]
    BY <1>5, <2>2
  <2> QED BY <2>1, <2>3 DEF AddsUp
<1>7. k[S] = SumFunctionOnSet(cut(S), K)
  OBVIOUS
<1> HIDE DEF k
<1>8. k[S] = SumFunctionOnSet(f, S)
  BY <1>6, SumAddsUp
<1>9. SumFunctionOnSet(sub, K) = SumFunctionOnSet(cut(S), K)
  <2>1. \A n \in K : sub[n] = cut(S)[n] /\ cut(S)[n] \in Int
    BY <1>1 DEF part, PartSums
  <2> QED BY <2>1, SumSame
<1> QED BY <1>7, <1>8, <1>9

\* What a sequence of integers adds up to.
Total(w) == SumFunctionOnSet(w, 1..Len(w))

\* The total of two sequences in a row.
LEMMA TotalConcat ==
  ASSUME NEW a \in Seq(Int), NEW z \in Seq(Int)
  PROVE  Total(a) \in Int /\ Total(z) \in Int /\ Total(a \o z) = Total(a) + Total(z)
<1> DEFINE m == Len(a)
           n == Len(z)
           w == a \o z
           b == [i \in 1..n |-> i + m]
<1>1. m \in Nat /\ n \in Nat /\ Len(w) = m + n
      /\ (\A i \in 1..m : w[i] = a[i] /\ a[i] \in Int) /\ \A i \in 1..n : w[i + m] = z[i] /\ z[i] \in Int
  OBVIOUS
<1> HIDE DEF m, n, w
<1>2. IsFiniteSet(1..m) /\ IsFiniteSet(1..n) /\ IsFiniteSet(m+1..m+n)
  BY <1>1, FS_Interval
<1>3. 1..m+n = (1..m) \cup (m+1..m+n) /\ (1..m) \cap (m+1..m+n) = {}
  BY <1>1
<1>4. {b[x] : x \in 1..n} = m+1..m+n
  <2>1. \A y \in m+1..m+n : y - m \in 1..n /\ b[y - m] = y
    BY <1>1
  <2>2. \A x \in 1..n : b[x] \in m+1..m+n
    BY <1>1
  <2> HIDE DEF b
  <2> QED BY <2>1, <2>2
<1>5. \A x \in 1..n : w[b[x]] = z[x]
  BY <1>1
<1>6. \A x, y \in 1..n : b[x] = b[y] => x = y
  BY <1>1
<1> DEFINE F == 1..m
           G == m+1..m+n
<1>7. \A i \in F \cup G : w[i] \in Int
  BY <1>1, <1>4, <1>5
<1>a. \A x \in 1..n : z[x] \in Int
  BY <1>1
<1> HIDE DEF b
<1>8. SumFunctionOnSet(w, m+1..m+n) = SumFunctionOnSet(z, 1..n)
  <2> DEFINE S == 1..n
             M == m+1..m+n
  <2>1. IsFiniteSet(S) /\ Moves(b, S, z, M, w)
    BY <1>2, <1>4, <1>5, <1>6, <1>a DEF Moves
  <2> HIDE DEF S, M
  <2>2. SumFunctionOnSet(w, M) = SumFunctionOnSet(z, S)
    BY <2>1, SumMoved
  <2> QED BY <2>2 DEF S, M
<1>9. SumFunctionOnSet(w, 1..m) = SumFunctionOnSet(a, 1..m)
  BY <1>1, <1>2, SumSame
<1>10. SumFunctionOnSet(w, 1..m+n) = SumFunctionOnSet(w, 1..m) + SumFunctionOnSet(w, m+1..m+n)
  <2>1. IsFiniteSet(F) /\ IsFiniteSet(G) /\ 1..m+n = F \cup G /\ F \cap G = {}
    BY <1>2, <1>3
  <2> HIDE DEF F, G
  <2>2. SumFunctionOnSet(w, F \cup G) = SumFunctionOnSet(w, F) + SumFunctionOnSet(w, G)
    BY <1>7, <2>1, SumJoin
  <2> QED BY <2>1, <2>2 DEF F, G
<1>11. SumFunctionOnSet(a, 1..m) \in Int /\ SumFunctionOnSet(z, 1..n) \in Int
  BY <1>1, <1>2, SumStep
<1> QED BY <1>1, <1>8, <1>9, <1>10, <1>11 DEF Total, m, n, w

\* The total of one value.
LEMMA TotalOne == \A x \in Int : Total(<<x>>) = x
<1> SUFFICES ASSUME NEW x \in Int PROVE Total(<<x>>) = x
  OBVIOUS
<1>1. 1..Len(<<x>>) = {1} /\ <<x>>[1] = x
  OBVIOUS
<1>2. IsFiniteSet({}) /\ {} \cup {1} = {1}
  BY FS_EmptySet
<1>3. \A i \in {} \cup {1} : <<x>>[i] \in Int
  BY <1>1
<1>4. SumFunctionOnSet(<<x>>, {} \cup {1}) = SumFunctionOnSet(<<x>>, {}) + <<x>>[1]
  BY <1>2, <1>3, SumAdd
<1> QED BY <1>1, <1>2, <1>4, SumEmpty DEF Total
=============================================================================
