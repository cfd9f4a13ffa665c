------------------------------ MODULE SetSums ------------------------------
(***************************************************************************)
(* Sums over a finite set, as SumFunction of the community modules computes*)
(* them: what the lane counters of the queue need.  The fold picks one     *)
(* element after another, by a recursive function on the subsets.  That it *)
(* has a value at all, and one that does not depend on the order, is shown *)
(* by induction on the strict subset relation, which is well founded on a  *)
(* finite set; the induction is over a set F of subsets, so that no        *)
(* operator is a parameter.                                                *)
(***************************************************************************)
EXTENDS Integers, FiniteSets, Functions, FiniteSetTheorems, TLAPS

\* The element the fold takes next.
Pick(s) == CHOOSE x \in s : TRUE
\* One unfolding of the recursive function of the fold.
SumStep(g, S, it) ==
  [s \in SUBSET S |-> IF s = {} THEN 0 ELSE g[Pick(s)] + it[s \ {Pick(s)}]]
\* That function: a fixed point of its unfolding.
SumIter(g, S) == CHOOSE it : it = SumStep(g, S, it)

\* The sum is the value of that function at the whole set.
LEMMA SumUnfold ==
  ASSUME NEW g, NEW S
  PROVE  SumFunctionOnSet(g, S) = SumIter(g, S)[S]
BY DEF SumFunctionOnSet, FoldFunctionOnSet, MapThenFoldSet, SumIter, SumStep, Pick

\* What is picked is there.
LEMMA PickIn ==
  ASSUME NEW s, s # {}
  PROVE  Pick(s) \in s
BY DEF Pick

\* What holds of a subset when it holds of all its strict parts holds of every
\* subset of a finite set.
LEMMA SubsetInduction ==
  ASSUME NEW U, IsFiniteSet(U), NEW F \in SUBSET (SUBSET U),
         \A s \in SUBSET U : (\A t \in SUBSET s : t # s => t \in F) => s \in F
  PROVE  \A s \in SUBSET U : s \in F
<1> DEFINE B == {s \in SUBSET U : s \notin F}
<1>1. SUFFICES ASSUME B # {} PROVE FALSE
  OBVIOUS
<1>2. IsWellFoundedOn(StrictSubsetOrdering(U), SUBSET U)
  BY FS_StrictSubsetOrderingWellFounded, FS_FiniteSubsetsOfFinite
<1>3. \E x \in B : \A y \in B : ~ (<<y, x>> \in StrictSubsetOrdering(U))
  <2>1. B \subseteq SUBSET U
    OBVIOUS
  <2> HIDE DEF B
  <2> QED BY <1>1, <1>2, <2>1, WFMin
<1>4. PICK x \in B : \A y \in B : ~ (<<y, x>> \in StrictSubsetOrdering(U))
  BY <1>3
<1>5. ASSUME NEW t \in SUBSET x, t # x
      PROVE  t \in F
  <2>1. <<t, x>> \in StrictSubsetOrdering(U)
    BY <1>5 DEF StrictSubsetOrdering
  <2> QED BY <1>4, <2>1
<1> QED BY <1>4, <1>5

\* h is a fixed point of the unfolding on the subsets of S.
SumFix(g, S, h) == h = SumStep(g, S, h)

\* The two cases of the recursion.
LEMMA SumFixAt ==
  ASSUME NEW g, NEW S, NEW h, SumFix(g, S, h), NEW s \in SUBSET S
  PROVE  /\ s = {} => h[s] = 0
         /\ s # {} => h[s] = g[Pick(s)] + h[s \ {Pick(s)}]
<1>1. h[s] = SumStep(g, S, h)[s]
  BY DEF SumFix
<1> QED BY <1>1 DEF SumStep

\* Two fixed points agree wherever both are defined.
LEMMA SumFixUnique ==
  ASSUME NEW g, NEW S, IsFiniteSet(S), NEW h, SumFix(g, S, h),
         NEW V \in SUBSET S, NEW k, SumFix(g, V, k)
  PROVE  \A s \in SUBSET V : h[s] = k[s]
<1> DEFINE F == {s \in SUBSET V : h[s] = k[s]}
<1>1. IsFiniteSet(V)
  BY FS_Subset
<1>2. ASSUME NEW s \in SUBSET V, \A t \in SUBSET s : t # s => t \in F
      PROVE  s \in F
  <2>1. CASE s = {}
    BY <2>1, SumFixAt
  <2>2. CASE s # {}
    <3>1. Pick(s) \in s
      BY <2>2, PickIn
    <3>2. s \ {Pick(s)} \in F
      BY <1>2, <3>1
    <3>3. h[s] = g[Pick(s)] + h[s \ {Pick(s)}]
      BY <2>2, SumFixAt
    <3>4. k[s] = g[Pick(s)] + k[s \ {Pick(s)}]
      BY <2>2, SumFixAt
    <3> QED BY <3>2, <3>3, <3>4
  <2> QED BY <2>1, <2>2
<1>3. \A s \in SUBSET V : s \in F
  <2>1. F \in SUBSET (SUBSET V)
    OBVIOUS
  <2> HIDE DEF F
  <2> QED BY <1>1, <1>2, <2>1, SubsetInduction
<1> QED BY <1>3

\* The chosen function is a fixed point when there is one.
LEMMA SumIterFix ==
  ASSUME NEW g, NEW S, NEW h, SumFix(g, S, h)
  PROVE  SumFix(g, S, SumIter(g, S))
BY DEF SumFix, SumIter

\* On a finite set there is one.
LEMMA SumIterExists ==
  ASSUME NEW g, NEW U, IsFiniteSet(U)
  PROVE  \A s \in SUBSET U : SumFix(g, s, SumIter(g, s))
<1> DEFINE F == {s \in SUBSET U : SumFix(g, s, SumIter(g, s))}
<1>1. ASSUME NEW s \in SUBSET U, \A t \in SUBSET s : t # s => t \in F
      PROVE  s \in F
  <2> DEFINE h == [t \in SUBSET s |->
                     IF t = {} THEN 0
                     ELSE g[Pick(t)] + SumIter(g, t \ {Pick(t)})[t \ {Pick(t)}]]
  <2>1. ASSUME NEW t \in SUBSET s, t # {}
        PROVE  h[t \ {Pick(t)}] = SumIter(g, t \ {Pick(t)})[t \ {Pick(t)}]
    <3> DEFINE u == t \ {Pick(t)}
    <3>1. Pick(t) \in t
      BY <2>1, PickIn
    <3>2. u \in SUBSET s /\ u # s /\ u \in SUBSET U
      BY <3>1
    <3>3. SumFix(g, u, SumIter(g, u)) /\ IsFiniteSet(u)
      BY <1>1, <3>2, FS_Subset
    <3>4. CASE u = {}
      <4>1. SumIter(g, u)[u] = 0
        BY <3>3, <3>4, SumFixAt
      <4> QED BY <3>2, <3>4, <4>1
    <3>5. CASE u # {}
      <4> DEFINE v == u \ {Pick(u)}
      <4>1. Pick(u) \in u
        BY <3>5, PickIn
      <4>2. v \in SUBSET u /\ v \in SUBSET s /\ v # s
        BY <4>1, <3>2
      <4>3. SumFix(g, v, SumIter(g, v))
        BY <1>1, <4>2
      <4>4. SumIter(g, u)[v] = SumIter(g, v)[v]
        <5> HIDE DEF u, v
        <5>1. v \in SUBSET v
          OBVIOUS
        <5>2. \A x \in SUBSET v : SumIter(g, u)[x] = SumIter(g, v)[x]
          BY <3>3, <4>2, <4>3, SumFixUnique
        <5> QED BY <5>1, <5>2
      <4>5. SumIter(g, u)[u] = g[Pick(u)] + SumIter(g, u)[v]
        <5> HIDE DEF u
        <5>1. u \in SUBSET u
          OBVIOUS
        <5> QED BY <3>3, <3>5, <5>1, SumFixAt
      <4>6. h[u] = g[Pick(u)] + SumIter(g, v)[v]
        <5> HIDE DEF u
        <5> QED BY <3>2, <3>5
      <4>7. h[u] = SumIter(g, u)[u]
        <5> HIDE DEF v, u, h
        <5> QED BY <4>4, <4>5, <4>6
      <4> QED BY <4>7
    <3> QED BY <3>4, <3>5
  <2>2. SumFix(g, s, h)
    <3>1. \A t \in SUBSET s : h[t] = SumStep(g, s, h)[t]
      <4> SUFFICES ASSUME NEW t \in SUBSET s
                   PROVE  h[t] = SumStep(g, s, h)[t]
        OBVIOUS
      <4>1. h[t] = IF t = {} THEN 0
                   ELSE g[Pick(t)] + SumIter(g, t \ {Pick(t)})[t \ {Pick(t)}]
        OBVIOUS
      <4> HIDE DEF h
      <4>2. SumStep(g, s, h)[t] = IF t = {} THEN 0 ELSE g[Pick(t)] + h[t \ {Pick(t)}]
        BY DEF SumStep
      <4> QED BY <4>1, <4>2, <2>1
    <3>2. h = [t \in SUBSET s |-> h[t]]
      OBVIOUS
    <3>3. SumStep(g, s, h) = [t \in SUBSET s |-> SumStep(g, s, h)[t]]
      BY DEF SumStep
    <3>4. h = SumStep(g, s, h)
      <4> DEFINE k == SumStep(g, s, h)
      <4>1. \A t \in SUBSET s : h[t] = k[t]
        BY <3>1
      <4>2. k = [t \in SUBSET s |-> k[t]]
        BY <3>3
      <4> HIDE DEF h, k
      <4>3. h = k
        BY <3>2, <4>1, <4>2
      <4> QED BY <4>3 DEF k
    <3> HIDE DEF h
    <3> QED BY <3>4 DEF SumFix
  <2> HIDE DEF h
  <2> QED BY <2>2, SumIterFix
<1>2. F \in SUBSET (SUBSET U)
  OBVIOUS
<1>3. \A s \in SUBSET U : s \in F
  <2> HIDE DEF F
  <2> QED BY <1>1, <1>2, SubsetInduction
<1> QED BY <1>3

\* The sum of nothing is 0.
LEMMA SumEmpty == ASSUME NEW g PROVE SumFunctionOnSet(g, {}) = 0
<1>1. SumFix(g, {}, SumIter(g, {}))
  BY SumIterExists, FS_EmptySet
<1>2. SumIter(g, {})[{}] = 0
  BY <1>1, SumFixAt
<1> QED BY <1>2, SumUnfold

\* The first step of the fold.
LEMMA SumPick ==
  ASSUME NEW g, NEW S, IsFiniteSet(S), S # {}
  PROVE  SumFunctionOnSet(g, S) = g[Pick(S)] + SumFunctionOnSet(g, S \ {Pick(S)})
<1> DEFINE V == S \ {Pick(S)}
<1>1. V \in SUBSET S /\ S \in SUBSET S /\ V \in SUBSET V
  OBVIOUS
<1> HIDE DEF V
<1>2. SumFix(g, S, SumIter(g, S)) /\ SumFix(g, V, SumIter(g, V))
  BY <1>1, SumIterExists
<1>3. SumIter(g, S)[V] = SumIter(g, V)[V]
  <2> DEFINE h == SumIter(g, S)
             k == SumIter(g, V)
  <2>0. SumFix(g, S, h) /\ SumFix(g, V, k)
    BY <1>2
  <2> HIDE DEF h, k
  <2>1. \A x \in SUBSET V : h[x] = k[x]
    BY <1>1, <2>0, SumFixUnique
  <2> QED BY <1>1, <2>1 DEF h, k
<1>4. SumIter(g, S)[S] = g[Pick(S)] + SumIter(g, S)[V]
  BY <1>1, <1>2, SumFixAt DEF V
<1>5. SumFunctionOnSet(g, S) = g[Pick(S)] + SumFunctionOnSet(g, V)
  BY <1>3, <1>4, SumUnfold
<1> QED BY <1>5 DEF V

\* A sum of integers is an integer.
LEMMA SumType ==
  ASSUME NEW U, IsFiniteSet(U), NEW g, \A x \in U : g[x] \in Int
  PROVE  \A s \in SUBSET U : SumFunctionOnSet(g, s) \in Int
<1> DEFINE F == {s \in SUBSET U : SumFunctionOnSet(g, s) \in Int}
<1>1. ASSUME NEW s \in SUBSET U, \A t \in SUBSET s : t # s => t \in F
      PROVE  s \in F
  <2>1. CASE s = {}
    BY <2>1, SumEmpty
  <2>2. CASE s # {}
    <3>1. Pick(s) \in s /\ IsFiniteSet(s)
      BY <2>2, PickIn, FS_Subset
    <3>2. s \ {Pick(s)} \in F
      BY <1>1, <3>1
    <3>3. SumFunctionOnSet(g, s) = g[Pick(s)] + SumFunctionOnSet(g, s \ {Pick(s)})
      BY <2>2, <3>1, SumPick
    <3> QED BY <3>1, <3>2, <3>3
  <2> QED BY <2>1, <2>2
<1>2. F \in SUBSET (SUBSET U)
  OBVIOUS
<1>3. \A s \in SUBSET U : s \in F
  <2> HIDE DEF F
  <2> QED BY <1>1, <1>2, SubsetInduction
<1> QED BY <1>3

\* Any element may be taken out first: the order of the fold does not matter.
LEMMA SumRemove ==
  ASSUME NEW U, IsFiniteSet(U), NEW g, \A x \in U : g[x] \in Int
  PROVE  \A s \in SUBSET U : \A x \in s :
           SumFunctionOnSet(g, s) = g[x] + SumFunctionOnSet(g, s \ {x})
<1> DEFINE T(s) == SumFunctionOnSet(g, s)
           F == {s \in SUBSET U : \A x \in s : T(s) = g[x] + T(s \ {x})}
<1>1. ASSUME NEW s \in SUBSET U, \A t \in SUBSET s : t # s => t \in F, NEW x \in s
      PROVE  T(s) = g[x] + T(s \ {x})
  <2> DEFINE p == Pick(s)
  <2>1. p \in s /\ IsFiniteSet(s)
    BY PickIn, FS_Subset
  <2>2. T(s) = g[p] + T(s \ {p})
    BY SumPick, <2>1
  <2> HIDE DEF p
  <2>3. CASE p = x
    BY <2>2, <2>3
  <2>4. CASE p # x
    <3>1. s \ {p} \in F /\ s \ {x} \in F
      BY <1>1, <2>1
    <3>2. T(s \ {p}) = g[x] + T((s \ {p}) \ {x})
      BY <2>4, <3>1
    <3>3. T(s \ {x}) = g[p] + T((s \ {x}) \ {p})
      BY <2>1, <2>4, <3>1
    <3>4. (s \ {p}) \ {x} = (s \ {x}) \ {p} /\ (s \ {p}) \ {x} \in SUBSET U
      OBVIOUS
    <3>5. T((s \ {p}) \ {x}) \in Int /\ g[x] \in Int /\ g[p] \in Int
      BY <2>1, <3>4, SumType
    <3>6. T((s \ {p}) \ {x}) = T((s \ {x}) \ {p})
      BY <3>4
    <3> HIDE DEF T
    <3> QED BY <2>2, <3>2, <3>3, <3>5, <3>6
  <2> QED BY <2>3, <2>4
<1>2. F \in SUBSET (SUBSET U)
  OBVIOUS
<1>3. \A s \in SUBSET U : (\A t \in SUBSET s : t # s => t \in F) => s \in F
  BY <1>1
<1>4. \A s \in SUBSET U : s \in F
  <2> HIDE DEF F
  <2> QED BY <1>2, <1>3, SubsetInduction
<1> QED BY <1>4

\* A sum over part of a set, of values no larger, is no larger, when what is
\* left out is not negative.
LEMMA SumBound ==
  ASSUME NEW S, IsFiniteSet(S), NEW A \in SUBSET S, NEW f, NEW g,
         \A x \in S : g[x] \in Int, \A x \in A : f[x] \in Int /\ f[x] <= g[x],
         \A x \in S \ A : 0 <= g[x]
  PROVE  SumFunctionOnSet(f, A) <= SumFunctionOnSet(g, S)
<1> DEFINE G(s) == SumFunctionOnSet(g, s)
           H(s) == SumFunctionOnSet(f, s)
           F == {s \in SUBSET S : H(A \cap s) <= G(s)}
<1>0. IsFiniteSet(A)
  BY FS_Subset
<1>1. ASSUME NEW s \in SUBSET S, \A t \in SUBSET s : t # s => t \in F
      PROVE  s \in F
  <2>1. CASE s = {}
    <3>1. A \cap s = {} /\ G({}) = 0 /\ H({}) = 0
      BY <2>1, SumEmpty
    <3> QED BY <2>1, <3>1
  <2>2. CASE s # {}
    <3> DEFINE p == Pick(s)
               r == s \ {p}
    <3>1. p \in s
      BY <2>2, PickIn
    <3>2. r \in F /\ r \in SUBSET S /\ p \in S
      BY <1>1, <3>1
    <3>3. G(s) = g[p] + G(r)
      BY <3>1, SumRemove
    <3>4. G(r) \in Int /\ H(A \cap r) \in Int
      <4>1. G(r) \in Int
        BY <3>2, SumType
      <4>2. A \cap r \in SUBSET A
        OBVIOUS
      <4>3. H(A \cap r) \in Int
        <5> HIDE DEF r
        <5> QED BY <1>0, <4>2, SumType
      <4> QED BY <4>1, <4>3
    <3>5. H(A \cap r) <= G(r)
      BY <3>2
    <3>6. CASE p \in A
      <4>1. (A \cap s) \ {p} = A \cap r /\ p \in A \cap s /\ A \cap s \in SUBSET A
        BY <3>1, <3>6
      <4>2. H(A \cap s) = f[p] + H(A \cap r)
        <5> HIDE DEF p, r
        <5> QED BY <1>0, <4>1, SumRemove
      <4>3. f[p] \in Int /\ g[p] \in Int /\ f[p] <= g[p]
        BY <3>6, <3>2
      <4>4. H(A \cap s) <= G(s)
        <5> HIDE DEF H, G, p, r
        <5> QED BY <3>3, <3>4, <3>5, <4>2, <4>3
      <4> QED BY <4>4
    <3>7. CASE p \notin A
      <4>0. A \cap s = A \cap r
        BY <3>7
      <4>1. H(A \cap s) = H(A \cap r)
        BY <4>0
      <4>2. g[p] \in Int /\ 0 <= g[p]
        BY <3>2, <3>7
      <4>3. H(A \cap s) <= G(s)
        <5> HIDE DEF H, G, p, r
        <5> QED BY <3>3, <3>4, <3>5, <4>1, <4>2
      <4> QED BY <4>3
    <3> QED BY <3>6, <3>7
  <2> QED BY <2>1, <2>2
<1>2. F \in SUBSET (SUBSET S)
  OBVIOUS
<1>3. \A s \in SUBSET S : s \in F
  <2> HIDE DEF F
  <2> QED BY <1>1, <1>2, SubsetInduction
<1>4. S \in F /\ A \cap S = A
  BY <1>3
<1> QED BY <1>4

\* When each member of A counts at least one, the sum is at least the size of A.
LEMMA CardinalityBound ==
  ASSUME NEW S, IsFiniteSet(S), NEW A \in SUBSET S, NEW g,
         \A x \in S : g[x] \in Int, \A x \in A : 1 <= g[x],
         \A x \in S \ A : 0 <= g[x]
  PROVE  Cardinality(A) <= SumFunctionOnSet(g, S)
<1> DEFINE G(s) == SumFunctionOnSet(g, s)
           F == {s \in SUBSET S : Cardinality(A \cap s) <= G(s)}
<1>1. ASSUME NEW s \in SUBSET S, \A t \in SUBSET s : t # s => t \in F
      PROVE  s \in F
  <2>1. CASE s = {}
    <3>1. A \cap s = {} /\ G({}) = 0
      BY <2>1, SumEmpty
    <3> QED BY <2>1, <3>1, FS_EmptySet
  <2>2. CASE s # {}
    <3> DEFINE p == Pick(s)
               r == s \ {p}
    <3>1. p \in s
      BY <2>2, PickIn
    <3>2. r \in F /\ r \in SUBSET S /\ p \in S
      BY <1>1, <3>1
    <3>3. G(s) = g[p] + G(r)
      BY <3>1, SumRemove
    <3>4. G(r) \in Int
      BY <3>2, SumType
    <3>5. Cardinality(A \cap r) <= G(r)
      BY <3>2
    <3>6. IsFiniteSet(A \cap r) /\ Cardinality(A \cap r) \in Nat
      <4>1. A \cap r \in SUBSET S
        OBVIOUS
      <4>2. IsFiniteSet(A \cap r)
        BY <4>1, FS_Subset
      <4> QED BY <4>2, FS_CardinalityType
    <3>7. CASE p \in A
      <4>1. A \cap s = (A \cap r) \cup {p} /\ p \notin A \cap r
        BY <3>1, <3>7
      <4>2. Cardinality(A \cap s) = Cardinality(A \cap r) + 1
        <5> HIDE DEF p, r
        <5> QED BY <3>6, <4>1, FS_AddElement
      <4>3. g[p] \in Int /\ 1 <= g[p]
        BY <3>7, <3>2
      <4>4. Cardinality(A \cap s) <= G(s)
        <5> HIDE DEF G, p, r
        <5> QED BY <3>3, <3>4, <3>5, <3>6, <4>2, <4>3
      <4> QED BY <4>4
    <3>8. CASE p \notin A
      <4>0. A \cap s = A \cap r
        BY <3>8
      <4>1. Cardinality(A \cap s) = Cardinality(A \cap r)
        BY <4>0
      <4>2. g[p] \in Int /\ 0 <= g[p]
        BY <3>2, <3>8
      <4>3. Cardinality(A \cap s) <= G(s)
        <5> HIDE DEF G, p, r
        <5> QED BY <3>3, <3>4, <3>5, <3>6, <4>1, <4>2
      <4> QED BY <4>3
    <3> QED BY <3>7, <3>8
  <2> QED BY <2>1, <2>2
<1>2. F \in SUBSET (SUBSET S)
  OBVIOUS
<1>3. \A s \in SUBSET S : s \in F
  <2> HIDE DEF F
  <2> QED BY <1>1, <1>2, SubsetInduction
<1>4. S \in F /\ A \cap S = A
  BY <1>3
<1> QED BY <1>4
=============================================================================
