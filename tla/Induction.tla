----------------------------- MODULE Induction -----------------------------
(***************************************************************************)
(* Induction over finite sets and natural numbers, by the minimal          *)
(* counterexample: what is to be shown is given as a set, so that no       *)
(* operator is a parameter.  Then the folds of the community modules,      *)
(* which are CHOSEN functions: they exist, and take their defining steps.  *)
(***************************************************************************)
EXTENDS Integers, FiniteSetTheorems, TLAPS

LEMMA SubsetsWellFounded ==
  ASSUME NEW S, IsFiniteSet(S)
  PROVE  IsWellFoundedOn(StrictSubsetOrdering(S), SUBSET S)
BY FS_StrictSubsetOrderingWellFounded, FS_FiniteSubsetsOfFinite

\* A property, given as a set, that every subset of a finite set inherits from its subsets
\* with one element fewer.
LEMMA SubsetInduction ==
  ASSUME NEW S, IsFiniteSet(S), NEW T,
         \A s \in SUBSET S : (\A x \in s : s \ {x} \in T) => s \in T
  PROVE  SUBSET S \subseteq T
<1> DEFINE Bad == (SUBSET S) \ T
<1> SUFFICES ASSUME Bad # {} PROVE FALSE
  OBVIOUS
<1>1. IsWellFoundedOn(StrictSubsetOrdering(S), SUBSET S)
  BY SubsetsWellFounded
<1>2. \E s \in Bad : \A y \in Bad : ~ (<<y, s>> \in StrictSubsetOrdering(S))
  <2>1. Bad \subseteq SUBSET S
    OBVIOUS
  <2> HIDE DEF Bad
  <2> QED
    BY <1>1, <2>1, WFMin
<1>3. PICK s \in Bad : \A y \in Bad : ~ (<<y, s>> \in StrictSubsetOrdering(S))
  BY <1>2
<1>4. ASSUME NEW x \in s PROVE s \ {x} \in T
  <2>1. <<s \ {x}, s>> \in StrictSubsetOrdering(S)
    BY <1>3, <1>4 DEF StrictSubsetOrdering
  <2> QED
    BY <1>3, <2>1
<1> QED
  BY <1>3, <1>4

\* The same over the natural numbers.
LEMMA NaturalInduction ==
  ASSUME NEW T, 0 \in T, \A n \in Nat : n \in T => n + 1 \in T
  PROVE  Nat \subseteq T
<1> DEFINE Bad == Nat \ T
<1> SUFFICES ASSUME Bad # {} PROVE FALSE
  OBVIOUS
<1>1. \E n \in Bad : \A m \in Bad : ~ (<<m, n>> \in OpToRel(<, Nat))
  <2>1. Bad \subseteq Nat
    OBVIOUS
  <2>2. IsWellFoundedOn(OpToRel(<, Nat), Nat)
    BY NatLessThanWellFounded
  <2> HIDE DEF Bad
  <2> QED
    BY <2>1, <2>2, WFMin
<1>2. PICK n \in Bad : \A m \in Bad : ~ (<<m, n>> \in OpToRel(<, Nat))
  BY <1>1
<1>3. n \in Nat /\ n \notin T /\ n # 0
  OBVIOUS
<1>5. n - 1 \in Nat /\ (n - 1) + 1 = n
  BY <1>3
<1>4. n - 1 \notin Bad
  <2>1. <<n - 1, n>> \in OpToRel(<, Nat)
    BY <1>5 DEF OpToRel
  <2> QED
    BY <1>2, <2>1
<1>6. n - 1 \in T
  BY <1>4, <1>5
<1> QED
  BY <1>3, <1>5, <1>6

\* A fold over the subsets of a finite set is a function: pick[s] is the element that is
\* taken out of s, and step[s] what it does to the value of the rest.
Folding(g, S, base, pick, step) ==
    g = [s \in SUBSET S |-> IF s = {} THEN base ELSE step[s][g[s \ {pick[s]}]]]

LEMMA FoldExists ==
  ASSUME NEW S, IsFiniteSet(S), NEW V, NEW base \in V, NEW pick, NEW step,
         \A s \in (SUBSET S) \ {{}} : pick[s] \in s,
         \A s \in (SUBSET S) \ {{}} : step[s] \in [V -> V]
  PROVE  \E g \in [SUBSET S -> V] : Folding(g, S, base, pick, step)
<1> DEFINE Level(n) == {s \in SUBSET S : Cardinality(s) <= n}
           Upto(g, n) == \A s \in Level(n) :
                            g[s] = IF s = {} THEN base ELSE step[s][g[s \ {pick[s]}]]
           T == {n \in Nat : \E g \in [SUBSET S -> V] : Upto(g, n)}
<1>1. \A s \in SUBSET S : IsFiniteSet(s) /\ Cardinality(s) \in Nat
  BY FS_Subset, FS_CardinalityType
<1>2. \A s \in SUBSET S : \A x \in s : Cardinality(s \ {x}) = Cardinality(s) - 1
  BY <1>1, FS_RemoveElement
<1>3. \A s \in SUBSET S : Cardinality(s) = 0 => s = {}
  BY <1>1, FS_EmptySet
<1>4. 0 \in T
  <2> DEFINE g == [s \in SUBSET S |-> base]
  <2>1. g \in [SUBSET S -> V] /\ Upto(g, 0)
    BY <1>1, <1>3
  <2> QED
    BY <2>1
<1>5. ASSUME NEW n \in Nat, n \in T PROVE n + 1 \in T
  <2>1. PICK g \in [SUBSET S -> V] : Upto(g, n)
    BY <1>5
  <2> DEFINE h == [s \in SUBSET S |-> IF s = {} THEN base ELSE step[s][g[s \ {pick[s]}]]]
  <2>2. h \in [SUBSET S -> V]
    OBVIOUS
  <2>3. \A s \in Level(n) : h[s] = g[s]
    BY <2>1
  <2>4. ASSUME NEW s \in Level(n + 1), s # {}
        PROVE  s \ {pick[s]} \in Level(n)
    <3>1. s \in SUBSET S /\ Cardinality(s) <= n + 1 /\ Cardinality(s) \in Nat
      BY <1>1
    <3>2. pick[s] \in s
      BY <2>4, <3>1
    <3>3. Cardinality(s \ {pick[s]}) = Cardinality(s) - 1
      BY <1>2, <3>1, <3>2
    <3>4. Cardinality(s \ {pick[s]}) <= n
      BY <3>1, <3>3
    <3> QED
      BY <3>1, <3>4
  <2>5. Upto(h, n + 1)
    <3> SUFFICES ASSUME NEW s \in Level(n + 1)
                 PROVE  h[s] = IF s = {} THEN base ELSE step[s][h[s \ {pick[s]}]]
      OBVIOUS
    <3> QED
      BY <2>3, <2>4
  <2> HIDE DEF h, Upto
  <2> QED
    BY <2>2, <2>5
<1>6. Cardinality(S) \in T
  <2>1. Cardinality(S) \in Nat
    BY FS_CardinalityType
  <2> HIDE DEF T
  <2> QED
    BY <1>4, <1>5, <2>1, NaturalInduction
<1>7. PICK g \in [SUBSET S -> V] : Upto(g, Cardinality(S))
  BY <1>6
<1>8. Level(Cardinality(S)) = SUBSET S
  BY FS_Subset
<1>9. g = [s \in SUBSET S |-> g[s]]
  OBVIOUS
<1>10. \A s \in SUBSET S : g[s] = IF s = {} THEN base ELSE step[s][g[s \ {pick[s]}]]
  BY <1>7, <1>8
<1>11. g = [s \in SUBSET S |-> IF s = {} THEN base ELSE step[s][g[s \ {pick[s]}]]]
  BY <1>9, <1>10
<1> QED
  BY <1>11 DEF Folding

\* A value on the subsets of a finite set that stays in V as they grow, in whatever order,
\* ends in V.
LEMMA FoldStays ==
  ASSUME NEW S, IsFiniteSet(S), NEW V, NEW g, g[{}] \in V,
         \A s \in (SUBSET S) \ {{}} : \E x \in s : g[s \ {x}] \in V => g[s] \in V
  PROVE  g[S] \in V
<1> DEFINE T == {s \in SUBSET S : g[s] \in V}
<1>1. ASSUME NEW s \in SUBSET S, \A x \in s : s \ {x} \in T PROVE s \in T
  BY <1>1
<1>2. SUBSET S \subseteq T
  <2> HIDE DEF T
  <2> QED
    BY <1>1, SubsetInduction
<1> QED
  BY <1>2

\* It depends on nothing but the steps below it.
LEMMA FoldSame ==
  ASSUME NEW S, NEW u \in SUBSET S, IsFiniteSet(u), NEW base, NEW pick, NEW step, NEW other,
         NEW g, NEW h, Folding(g, S, base, pick, step), Folding(h, S, base, pick, other),
         \A s \in (SUBSET S) \ {{}} : pick[s] \in s,
         \A s \in (SUBSET u) \ {{}} : step[s] = other[s]
  PROVE  g[u] = h[u]
<1> DEFINE T == {s \in SUBSET u : g[s] = h[s]}
<1>1. ASSUME NEW s \in SUBSET u, \A x \in s : s \ {x} \in T PROVE s \in T
  <2>0. s \in SUBSET S
    OBVIOUS
  <2>1. CASE s = {}
    BY <2>0, <2>1 DEF Folding
  <2>2. CASE s # {}
    <3>1. g[s \ {pick[s]}] = h[s \ {pick[s]}]
      BY <1>1, <2>0, <2>2
    <3>2. g[s] = step[s][g[s \ {pick[s]}]] /\ h[s] = other[s][h[s \ {pick[s]}]]
      BY <2>0, <2>2 DEF Folding
    <3> QED
      BY <2>2, <3>1, <3>2
  <2> QED
    BY <2>1, <2>2
<1>2. SUBSET u \subseteq T
  <2> HIDE DEF T
  <2> QED
    BY <1>1, SubsetInduction
<1> QED
  BY <1>2
=============================================================================
