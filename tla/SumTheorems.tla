---------------------------- MODULE SumTheorems -----------------------------
(***************************************************************************)
(* Sums over finite sets.  MapThenSumSet is a fold, whose definition is    *)
(* recursive in the subsets of the set.  A smallest subset for which a     *)
(* claim fails takes the place of an induction.                            *)
(***************************************************************************)
EXTENDS FiniteSetsExt, FiniteSetTheorems, TLAPS

\* Among subsets of a finite set there is a smallest one.
LEMMA SmallestSubset ==
    ASSUME NEW S, IsFiniteSet(S), NEW Bad, Bad \subseteq SUBSET S, Bad # {}
    PROVE  \E s \in Bad : \A t \in Bad : t \subseteq s => t = s
<1>1. IsWellFoundedOn(StrictSubsetOrdering(S), SUBSET S)
  BY FS_StrictSubsetOrderingWellFounded, FS_FiniteSubsetsOfFinite
<1>2. PICK s \in Bad : \A t \in Bad : ~ (<<t, s>> \in StrictSubsetOrdering(S))
  BY <1>1, WFMin
<1>3. \A t \in Bad : t \subseteq s => t = s
  BY <1>2 DEF StrictSubsetOrdering
<1> QED
  BY <1>3

------------------------------------------------------------------------------
(* The fold: the function its definition asks for exists and is unique.    *)

Some(s) == CHOOSE x \in s : TRUE

IsFold(g, w, S) ==
    g = [s \in SUBSET S |-> IF s = {} THEN 0 ELSE w[Some(s)] + g[s \ {Some(s)}]]

LEMMA SomeIsIn == ASSUME NEW s, s # {} PROVE Some(s) \in s
BY DEF Some

LEMMA FoldUnique ==
    ASSUME NEW S, IsFiniteSet(S), NEW w, NEW g, NEW h, IsFold(g, w, S), IsFold(h, w, S)
    PROVE  g = h
<1> DEFINE Bad == {s \in SUBSET S : g[s] # h[s]}
<1>1. CASE Bad = {}
  BY <1>1 DEF IsFold
<1>2. CASE Bad # {}
  <2>1. PICK s \in Bad : \A t \in Bad : t \subseteq s => t = s
    <3>1. Bad \subseteq SUBSET S
      OBVIOUS
    <3> HIDE DEF Bad
    <3> QED
      BY <1>2, <3>1, SmallestSubset
  <2>2. s # {}
    BY <2>1 DEF IsFold
  <2>3. Some(s) \in s
    BY <2>2, SomeIsIn
  <2>4. g[s \ {Some(s)}] = h[s \ {Some(s)}]
    BY <2>1, <2>3
  <2>5. /\ g[s] = w[Some(s)] + g[s \ {Some(s)}]
        /\ h[s] = w[Some(s)] + h[s \ {Some(s)}]
    BY <2>1, <2>2 DEF IsFold
  <2> QED
    BY <2>1, <2>4, <2>5
<1> QED
  BY <1>1, <1>2

LEMMA FoldRestricts ==
    ASSUME NEW S, NEW T, T \subseteq S, NEW w, NEW g, IsFold(g, w, S)
    PROVE  IsFold([s \in SUBSET T |-> g[s]], w, T)
<1>1. PICK h : h = [s \in SUBSET T |-> g[s]]
  OBVIOUS
<1>2. ASSUME NEW s \in SUBSET T
      PROVE  h[s] = IF s = {} THEN 0 ELSE w[Some(s)] + h[s \ {Some(s)}]
  <2>1. s \ {Some(s)} \in SUBSET T
    OBVIOUS
  <2> QED
    BY <1>1, <2>1 DEF IsFold
<1> QED
  BY <1>1, <1>2 DEF IsFold

LEMMA FoldExists ==
    ASSUME NEW S, IsFiniteSet(S), NEW w
    PROVE  \E g : IsFold(g, w, S)
<1> DEFINE Bad == {s \in SUBSET S : ~ \E g : IsFold(g, w, s)}
<1>1. CASE S \notin Bad
  BY <1>1
<1>2. CASE S \in Bad
  <2>1. PICK s \in Bad : \A t \in Bad : t \subseteq s => t = s
    <3>1. Bad \subseteq SUBSET S
      OBVIOUS
    <3> HIDE DEF Bad
    <3> QED
      BY <1>2, <3>1, SmallestSubset
  <2>2. IsFiniteSet(s)
    BY <2>1, FS_Subset
  <2>3. \A t \in SUBSET s : t # s => \E g : IsFold(g, w, t)
    BY <2>1
  <2> DEFINE fold(t) == CHOOSE g : IsFold(g, w, t)
             at(t) == IF t = {} THEN 0
                      ELSE w[Some(t)] + fold(t \ {Some(t)})[t \ {Some(t)}]
  <2>4. \A t \in SUBSET s : t # s => IsFold(fold(t), w, t)
    BY <2>3
  <2> HIDE DEF fold
  <2>5. PICK h : h = [t \in SUBSET s |-> at(t)]
    OBVIOUS
  <2>6. ASSUME NEW t \in SUBSET s, t # s PROVE h[t] = fold(t)[t]
    <3>1. IsFold(fold(t), w, t)
      BY <2>4, <2>6
    <3>2. CASE t = {}
      BY <2>5, <3>1, <3>2 DEF IsFold
    <3>3. CASE t # {}
      <4>1. PICK u : u = t \ {Some(t)}
        OBVIOUS
      <4>2. u \subseteq t /\ u # t /\ u \in SUBSET s /\ u # s
        BY <2>6, <3>3, <4>1, SomeIsIn
      <4>3. PICK k : k = fold(t)
        OBVIOUS
      <4>4. IsFold([r \in SUBSET u |-> k[r]], w, u)
        BY <3>1, <4>2, <4>3, FoldRestricts
      <4>5. IsFold(fold(u), w, u) /\ IsFiniteSet(u)
        BY <2>2, <2>4, <4>2, FS_Subset
      <4>6. fold(u) = [r \in SUBSET u |-> k[r]]
        BY <4>4, <4>5, FoldUnique
      <4>7. fold(u)[u] = fold(t)[u]
        BY <4>3, <4>6
      <4>8. fold(t)[t] = w[Some(t)] + fold(t)[u]
        BY <3>1, <3>3, <4>1 DEF IsFold
      <4>9. h[t] = w[Some(t)] + fold(u)[u]
        BY <2>5, <3>3, <4>1
      <4> QED
        BY <4>7, <4>8, <4>9
    <3> QED
      BY <3>2, <3>3
  <2>7. ASSUME NEW t \in SUBSET s
        PROVE  h[t] = IF t = {} THEN 0 ELSE w[Some(t)] + h[t \ {Some(t)}]
    <3>1. CASE t = {}
      BY <2>5, <3>1
    <3>2. CASE t # {}
      <4>1. PICK u : u = t \ {Some(t)}
        OBVIOUS
      <4>2. u \in SUBSET s /\ u # s
        BY <3>2, <4>1, SomeIsIn
      <4>3. h[t] = w[Some(t)] + fold(u)[u]
        BY <2>5, <3>2, <4>1
      <4>4. h[u] = fold(u)[u]
        BY <2>6, <4>2
      <4> QED
        BY <3>2, <4>1, <4>3, <4>4
    <3> QED
      BY <3>1, <3>2
  <2>8. IsFold(h, w, s)
    BY <2>5, <2>7 DEF IsFold
  <2> QED
    BY <2>1, <2>8
<1> QED
  BY <1>1, <1>2

------------------------------------------------------------------------------
(* Sums of the values of a function.                                       *)

Total(w, S) == MapThenSumSet(LAMBDA x : w[x], S)

\* The sum is what any function yields that satisfies the definition of the fold.
LEMMA TotalIsFold ==
    ASSUME NEW S, IsFiniteSet(S), NEW w, NEW g, IsFold(g, w, S)
    PROVE  Total(w, S) = g[S]
<1> DEFINE Folds(h) ==
             h = [s \in SUBSET S |-> IF s = {} THEN 0
                     ELSE w[CHOOSE x \in s : TRUE] + h[s \ {CHOOSE x \in s : TRUE}]]
           iter == CHOOSE h : Folds(h)
<1>1. Total(w, S) = iter[S]
  BY DEF Total, MapThenSumSet, MapThenFoldSet
<1>2. \A h : IsFold(h, w, S) <=> Folds(h)
  BY DEF IsFold, Some
<1> HIDE DEF Folds
<1>3. Folds(g)
  BY <1>2
<1>4. Folds(iter)
  BY <1>3
<1>5. IsFold(iter, w, S)
  BY <1>2, <1>4
<1> HIDE DEF iter
<1> QED
  BY <1>1, <1>5, FoldUnique

LEMMA SumOfNone == ASSUME NEW w PROVE Total(w, {}) = 0
<1>1. IsFiniteSet({})
  BY FS_EmptySet
<1>2. PICK g : IsFold(g, w, {})
  BY <1>1, FoldExists
<1>3. Total(w, {}) = g[{}]
  BY <1>1, <1>2, TotalIsFold
<1> QED
  BY <1>2, <1>3 DEF IsFold

\* The element the fold takes first.
LEMMA SumTakesSome ==
    ASSUME NEW S, IsFiniteSet(S), S # {}, NEW w
    PROVE  /\ Some(S) \in S /\ IsFiniteSet(S \ {Some(S)})
           /\ Total(w, S) = w[Some(S)] + Total(w, S \ {Some(S)})
<1>1. PICK g : IsFold(g, w, S)
  BY FoldExists
<1>2. PICK T : T = S \ {Some(S)}
  OBVIOUS
<1>3. T \subseteq S /\ IsFiniteSet(T)
  BY <1>2, FS_Subset
<1>4. PICK h : h = [s \in SUBSET T |-> g[s]]
  OBVIOUS
<1>5. IsFold(h, w, T)
  BY <1>1, <1>3, <1>4, FoldRestricts
<1>6. Total(w, S) = g[S] /\ Total(w, T) = h[T]
  BY <1>1, <1>3, <1>5, TotalIsFold
<1>7. h[T] = g[T]
  BY <1>4
<1>8. g[S] = w[Some(S)] + g[T]
  BY <1>1, <1>2 DEF IsFold
<1> QED
  BY <1>2, <1>3, <1>6, <1>7, <1>8, SomeIsIn

\* Equal terms, equal sums.
LEMMA SumEqual ==
    ASSUME NEW S, IsFiniteSet(S), NEW w, NEW u, \A x \in S : w[x] = u[x]
    PROVE  Total(w, S) = Total(u, S)
<1> DEFINE Bad == {s \in SUBSET S : Total(w, s) # Total(u, s)}
<1>1. CASE S \notin Bad
  BY <1>1
<1>2. CASE S \in Bad
  <2>1. PICK s \in Bad : \A t \in Bad : t \subseteq s => t = s
    <3>1. Bad \subseteq SUBSET S
      OBVIOUS
    <3> HIDE DEF Bad
    <3> QED
      BY <1>2, <3>1, SmallestSubset
  <2>2. s # {} /\ IsFiniteSet(s)
    BY <2>1, SumOfNone, FS_Subset
  <2>3. PICK t : t = s \ {Some(s)}
    OBVIOUS
  <2>4. /\ Some(s) \in s
        /\ Total(w, s) = w[Some(s)] + Total(w, t) /\ Total(u, s) = u[Some(s)] + Total(u, t)
    BY <2>2, <2>3, SumTakesSome
  <2>5. Total(w, t) = Total(u, t)
    BY <2>1, <2>3, <2>4
  <2> QED
    BY <2>1, <2>4, <2>5
<1> QED
  BY <1>1, <1>2

NaturalOn(w, S) == \A x \in S : w[x] \in Nat

\* Sums of natural numbers are natural, and do not depend on the order.
LEMMA SumRemove ==
    ASSUME NEW S, IsFiniteSet(S), NEW w, NaturalOn(w, S)
    PROVE  /\ Total(w, S) \in Nat
           /\ \A x \in S : Total(w, S) = w[x] + Total(w, S \ {x})
<1> DEFINE Sound(s) == /\ Total(w, s) \in Nat
                       /\ \A x \in s : Total(w, s) = w[x] + Total(w, s \ {x})
           Bad == {s \in SUBSET S : ~Sound(s)}
<1>1. CASE S \notin Bad
  BY <1>1
<1>2. CASE S \in Bad
  <2>1. PICK s \in Bad : \A t \in Bad : t \subseteq s => t = s
    <3>1. Bad \subseteq SUBSET S
      OBVIOUS
    <3> HIDE DEF Bad
    <3> QED
      BY <1>2, <3>1, SmallestSubset
  <2>2. \A t \in SUBSET s : t # s => Sound(t)
    BY <2>1
  <2>3. s # {} /\ IsFiniteSet(s) /\ ~Sound(s)
    <3>1. Sound({})
      BY SumOfNone
    <3> QED
      BY <2>1, <3>1, FS_Subset
  <2>4. PICK c : c = Some(s)
    OBVIOUS
  <2>5. c \in s /\ Total(w, s) = w[c] + Total(w, s \ {c})
    BY <2>3, <2>4, SumTakesSome
  <2>6. \A x \in s : w[x] \in Nat /\ Sound(s \ {x})
    BY <2>1, <2>2 DEF NaturalOn
  <2>7. Total(w, s) \in Nat
    BY <2>5, <2>6
  <2>8. ASSUME NEW x \in s PROVE Total(w, s) = w[x] + Total(w, s \ {x})
    <3>1. CASE x = c
      BY <2>5, <3>1
    <3>2. CASE x # c
      <4>1. PICK n \in Nat : n = Total(w, (s \ {c}) \ {x})
        <5>1. (s \ {c}) \ {x} \in SUBSET s /\ (s \ {c}) \ {x} # s
          BY <2>5
        <5> QED
          BY <2>2, <5>1
      <4>2. Total(w, s \ {c}) = w[x] + n
        BY <2>5, <2>6, <3>2, <4>1
      <4>3. (s \ {x}) \ {c} = (s \ {c}) \ {x}
        OBVIOUS
      <4>4. Total(w, s \ {x}) = w[c] + n
        BY <2>5, <2>6, <3>2, <4>1, <4>3
      <4> QED
        BY <2>5, <2>6, <4>1, <4>2, <4>4
    <3> QED
      BY <3>1, <3>2
  <2> QED
    BY <2>3, <2>7, <2>8
<1> QED
  BY <1>1, <1>2

LEMMA SumAdd ==
    ASSUME NEW S, IsFiniteSet(S), NEW x, x \notin S, NEW w, NaturalOn(w, S \cup {x})
    PROVE  Total(w, S \cup {x}) = w[x] + Total(w, S)
<1>1. PICK T : T = S \cup {x}
  OBVIOUS
<1>2. IsFiniteSet(T) /\ x \in T /\ T \ {x} = S
  BY <1>1, FS_AddElement
<1>3. Total(w, T) = w[x] + Total(w, T \ {x})
  BY <1>1, <1>2, SumRemove
<1> QED
  BY <1>1, <1>2, <1>3

\* Two functions that agree but on one element.
LEMMA SumChange ==
    ASSUME NEW S, IsFiniteSet(S), NEW x \in S, NEW w, NEW u, NaturalOn(w, S), NaturalOn(u, S),
           \A y \in S : y # x => w[y] = u[y]
    PROVE  Total(u, S) + w[x] = Total(w, S) + u[x]
<1>1. PICK T : T = S \ {x}
  OBVIOUS
<1>2. IsFiniteSet(T) /\ NaturalOn(w, T)
  BY <1>1, FS_Subset DEF NaturalOn
<1>3. Total(w, T) \in Nat /\ Total(w, T) = Total(u, T)
  <2>1. \A y \in T : w[y] = u[y]
    BY <1>1
  <2> QED
    BY <1>2, <2>1, SumEqual, SumRemove
<1>4. Total(w, S) = w[x] + Total(w, T) /\ Total(u, S) = u[x] + Total(u, T)
  BY <1>1, SumRemove
<1>5. w[x] \in Nat /\ u[x] \in Nat
  BY DEF NaturalOn
<1> QED
  BY <1>3, <1>4, <1>5

LEMMA SumMonotone ==
    ASSUME NEW S, IsFiniteSet(S), NEW w, NEW u, NaturalOn(w, S), NaturalOn(u, S),
           \A x \in S : w[x] <= u[x]
    PROVE  Total(w, S) <= Total(u, S)
<1> DEFINE Bad == {s \in SUBSET S : ~(Total(w, s) <= Total(u, s))}
<1>1. CASE S \notin Bad
  BY <1>1
<1>2. CASE S \in Bad
  <2>1. PICK s \in Bad : \A t \in Bad : t \subseteq s => t = s
    <3>1. Bad \subseteq SUBSET S
      OBVIOUS
    <3> HIDE DEF Bad
    <3> QED
      BY <1>2, <3>1, SmallestSubset
  <2>2. s # {} /\ IsFiniteSet(s)
    <3>1. Total(w, {}) = 0 /\ Total(u, {}) = 0
      BY SumOfNone
    <3>2. {} \notin Bad
      BY <3>1
    <3> QED
      BY <2>1, <3>2, FS_Subset
  <2>3. PICK t : t = s \ {Some(s)}
    OBVIOUS
  <2>4. /\ Some(s) \in s /\ IsFiniteSet(t)
        /\ Total(w, s) = w[Some(s)] + Total(w, t) /\ Total(u, s) = u[Some(s)] + Total(u, t)
    BY <2>2, <2>3, SumTakesSome
  <2>5. Total(w, t) <= Total(u, t)
    BY <2>1, <2>3, <2>4
  <2>6. Total(w, t) \in Nat /\ Total(u, t) \in Nat
    <3>1. NaturalOn(w, t) /\ NaturalOn(u, t)
      BY <2>1, <2>3 DEF NaturalOn
    <3> QED
      BY <2>4, <3>1, SumRemove
  <2>7. /\ w[Some(s)] \in Nat /\ u[Some(s)] \in Nat /\ w[Some(s)] <= u[Some(s)]
    BY <2>1, <2>4 DEF NaturalOn
  <2> QED
    BY <2>1, <2>4, <2>5, <2>6, <2>7
<1> QED
  BY <1>1, <1>2

LEMMA SumOfUnion ==
    ASSUME NEW S, NEW T, IsFiniteSet(S), IsFiniteSet(T), S \cap T = {},
           NEW w, NaturalOn(w, S \cup T)
    PROVE  Total(w, S \cup T) = Total(w, S) + Total(w, T)
<1> DEFINE Bad == {s \in SUBSET S : Total(w, s \cup T) # Total(w, s) + Total(w, T)}
<1>1. CASE S \notin Bad
  BY <1>1
<1>2. CASE S \in Bad
  <2>1. PICK s \in Bad : \A t \in Bad : t \subseteq s => t = s
    <3>1. Bad \subseteq SUBSET S
      OBVIOUS
    <3> HIDE DEF Bad
    <3> QED
      BY <1>2, <3>1, SmallestSubset
  <2>2. Total(w, T) \in Nat
    BY SumRemove DEF NaturalOn
  <2>3. s # {} /\ IsFiniteSet(s)
    <3>1. {} \cup T = T /\ Total(w, {}) = 0
      BY SumOfNone
    <3>2. {} \notin Bad
      BY <2>2, <3>1
    <3> QED
      BY <2>1, <3>2, FS_Subset
  <2>4. PICK x \in s : TRUE
    BY <2>3
  <2>5. PICK t : t = s \ {x}
    OBVIOUS
  <2>6. /\ IsFiniteSet(t) /\ IsFiniteSet(s \cup T)
        /\ NaturalOn(w, s) /\ NaturalOn(w, s \cup T) /\ NaturalOn(w, t) /\ w[x] \in Nat
    BY <2>1, <2>3, <2>4, <2>5, FS_Subset, FS_Union DEF NaturalOn
  <2>7. (s \cup T) \ {x} = t \cup T /\ x \in s \cup T
    BY <2>1, <2>4, <2>5
  <2>8. Total(w, s) = w[x] + Total(w, t) /\ Total(w, t) \in Nat
    BY <2>3, <2>4, <2>5, <2>6, SumRemove
  <2>9. Total(w, s \cup T) = w[x] + Total(w, t \cup T)
    BY <2>6, <2>7, SumRemove
  <2>10. Total(w, t \cup T) = Total(w, t) + Total(w, T)
    BY <2>1, <2>4, <2>5
  <2> QED
    BY <2>1, <2>2, <2>6, <2>8, <2>9, <2>10
<1> QED
  BY <1>1, <1>2

LEMMA SumOfSubset ==
    ASSUME NEW S, IsFiniteSet(S), NEW T, T \subseteq S, NEW w, NaturalOn(w, S)
    PROVE  Total(w, T) \in Nat /\ Total(w, T) <= Total(w, S)
<1>1. PICK R : R = S \ T
  OBVIOUS
<1>2. IsFiniteSet(T) /\ IsFiniteSet(R) /\ NaturalOn(w, T) /\ NaturalOn(w, R)
  BY <1>1, FS_Subset DEF NaturalOn
<1>3. Total(w, T) \in Nat /\ Total(w, R) \in Nat
  BY <1>2, SumRemove
<1>4. T \cup R = S /\ T \cap R = {}
  BY <1>1
<1>5. Total(w, S) = Total(w, T) + Total(w, R)
  <2>1. PICK U : U = T \cup R
    OBVIOUS
  <2>2. Total(w, U) = Total(w, T) + Total(w, R)
    BY <1>2, <1>4, <2>1, SumOfUnion
  <2> QED
    BY <1>4, <2>1, <2>2
<1> QED
  BY <1>3, <1>5

\* A sum of numbers up to k is at most k for each element.
LEMMA SumBounded ==
    ASSUME NEW S, IsFiniteSet(S), NEW k \in Nat, NEW w, \A x \in S : w[x] \in 0..k
    PROVE  /\ Total(w, S) \in Nat /\ Cardinality(S) \in Nat
           /\ Total(w, S) <= k * Cardinality(S)
<1> DEFINE Bad == {s \in SUBSET S : ~(Total(w, s) <= k * Cardinality(s))}
<1>1. CASE S \notin Bad
  BY <1>1, SumRemove, FS_CardinalityType DEF NaturalOn
<1>2. CASE S \in Bad
  <2>1. PICK s \in Bad : \A t \in Bad : t \subseteq s => t = s
    <3>1. Bad \subseteq SUBSET S
      OBVIOUS
    <3> HIDE DEF Bad
    <3> QED
      BY <1>2, <3>1, SmallestSubset
  <2>2. s # {} /\ IsFiniteSet(s)
    <3>1. Total(w, {}) = 0 /\ Cardinality({}) = 0
      BY SumOfNone, FS_EmptySet
    <3>2. {} \notin Bad
      BY <3>1
    <3> QED
      BY <2>1, <3>2, FS_Subset
  <2>3. PICK x \in s : TRUE
    BY <2>2
  <2>4. PICK t : t = s \ {x}
    OBVIOUS
  <2>5. IsFiniteSet(t) /\ t \subseteq S /\ s \subseteq S /\ Cardinality(t) \in Nat
    BY <2>1, <2>2, <2>4, FS_Subset, FS_CardinalityType
  <2>6. Total(w, s) = w[x] + Total(w, t) /\ Total(w, t) \in Nat /\ w[x] \in 0..k
    BY <2>2, <2>3, <2>4, <2>5, SumRemove DEF NaturalOn
  <2>7. Total(w, t) <= k * Cardinality(t)
    BY <2>1, <2>3, <2>4
  <2>8. Cardinality(s) = Cardinality(t) + 1
    <3>1. Cardinality(s \ {x}) = Cardinality(s) - 1 /\ Cardinality(s) \in Nat
      BY <2>2, <2>3, FS_RemoveElement, FS_CardinalityType
    <3>2. Cardinality(t) = Cardinality(s) - 1
      BY <2>4, <3>1
    <3> QED
      BY <3>1, <3>2
  <2>9. k * (Cardinality(t) + 1) = k * Cardinality(t) + k /\ k * Cardinality(t) \in Nat
    BY <2>5
  <2> QED
    BY <2>1, <2>6, <2>7, <2>8, <2>9
<1> QED
  BY <1>1, <1>2
=============================================================================
