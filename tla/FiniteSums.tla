----------------------------- MODULE FiniteSums -----------------------------
(***************************************************************************)
(* Induction over finite sets and sums over them, for the proofs about     *)
(* models that add up fills.  The sum is MapThenSumSet of FiniteSetsExt,   *)
(* which takes its elements in an order that CHOOSE picks: the lemmas show *)
(* that the order does not matter.                                         *)
(***************************************************************************)
EXTENDS Integers, FiniteSets, FiniteSetsExt, FiniteSetTheorems, TLAPS

\* Induction over the subsets of a finite set: G has every subset, if it has each one
\* whose proper subsets it has.
LEMMA SubsetInduction ==
  ASSUME NEW S, IsFiniteSet(S), NEW G,
         \A s \in SUBSET S : (\A r \in SUBSET s : r # s => r \in G) => s \in G
  PROVE  \A s \in SUBSET S : s \in G
<1> SUFFICES ASSUME NEW s0 \in SUBSET S, s0 \notin G PROVE FALSE
  OBVIOUS
<1>1. PICK B : B = {s \in SUBSET S : s \notin G}
  OBVIOUS
<1>2. B \subseteq FiniteSubsetsOf(S) /\ B # {}
  BY <1>1, FS_Subset DEF FiniteSubsetsOf
<1>3. IsWellFoundedOn(StrictSubsetOrdering(S), FiniteSubsetsOf(S))
  BY FS_StrictSubsetOrderingWellFounded
<1>4. PICK s \in B : \A r \in B : ~(<<r, s>> \in StrictSubsetOrdering(S))
  BY <1>2, <1>3, WFMin
<1>5. \A r \in SUBSET s : r # s => r \in G
  BY <1>1, <1>4 DEF StrictSubsetOrdering
<1> QED
  BY <1>1, <1>5

-----------------------------------------------------------------------------
(* The sum of a weight over a finite set *)

WeightOf(w, S) == MapThenSumSet(LAMBDA x : w[x], S)

Pick(s) == CHOOSE x \in s : TRUE

\* g adds up the weights of every subset of S, one element at a time.
Adds(g, w, S) == g = [s \in SUBSET S |-> IF s = {} THEN 0 ELSE w[Pick(s)] + g[s \ {Pick(s)}]]

LEMMA WeightIsFold ==
  ASSUME NEW w, NEW S PROVE WeightOf(w, S) = (CHOOSE g : Adds(g, w, S))[S]
  BY Zenon DEF WeightOf, MapThenSumSet, MapThenFoldSet, Adds, Pick

LEMMA SmallerSet ==
  ASSUME NEW s, NEW x \in s
  PROVE  \E r \in SUBSET s : r = s \ {x} /\ r # s /\ x \notin r
<1>1. s \ {x} \in SUBSET s /\ x \notin s \ {x}
  OBVIOUS
<1>2. PICK r \in SUBSET s : r = s \ {x} /\ x \notin r
  BY <1>1, Zenon
<1> QED
  BY <1>2

LEMMA PickIn == ASSUME NEW s, s # {} PROVE Pick(s) \in s
  BY Zenon DEF Pick

\* Two such functions agree where both are defined.
LEMMA AddsUnique ==
  ASSUME NEW w, NEW S, NEW T, IsFiniteSet(S), NEW g, NEW h, Adds(g, w, S), Adds(h, w, T)
  PROVE  \A s \in SUBSET S : s \in SUBSET T => g[s] = h[s]
<1>1. PICK G : G = {s \in SUBSET S : s \in SUBSET T => g[s] = h[s]}
  OBVIOUS
<1>2. ASSUME NEW s \in SUBSET S, \A r \in SUBSET s : r # s => r \in G PROVE s \in G
  <2> SUFFICES ASSUME s \in SUBSET T PROVE g[s] = h[s]
    BY <1>1
  <2>1. CASE s = {}
    BY <2>1 DEF Adds
  <2>2. CASE s # {}
    <3>1. PICK x \in s : x = Pick(s)
      BY <2>2, PickIn
    <3>2. PICK r \in SUBSET s : r = s \ {x} /\ r # s /\ x \notin r
      BY SmallerSet
    <3>3. g[r] = h[r]
      BY <1>1, <1>2, <3>2
    <3>4. g[s] = w[x] + g[r] /\ h[s] = w[x] + h[r]
      BY <2>2, <3>1, <3>2 DEF Adds
    <3> QED
      BY <3>3, <3>4
  <2> QED
    BY <2>1, <2>2
<1>3. \A s \in SUBSET S : s \in G
  BY <1>2, SubsetInduction
<1> QED
  BY <1>1, <1>3

\* There is such a function for every finite set, so the sum is one of its values.
LEMMA AddsExists ==
  ASSUME NEW w, NEW S, IsFiniteSet(S) PROVE \E g : Adds(g, w, S)
<1>1. PICK G : G = {s \in SUBSET S : \E g : Adds(g, w, s)}
  OBVIOUS
<1>2. ASSUME NEW s \in SUBSET S, \A r \in SUBSET s : r # s => r \in G PROVE s \in G
  <2>1. PICK g : g = [r \in SUBSET s |-> IF r = {} THEN 0
                                         ELSE w[Pick(r)] + WeightOf(w, r \ {Pick(r)})]
    OBVIOUS
  <2>2. ASSUME NEW r \in SUBSET s, r # s
        PROVE  g[r] = WeightOf(w, r)
    <3>1. PICK h : h = CHOOSE k : Adds(k, w, r)
      OBVIOUS
    <3>2. Adds(h, w, r)
      <4>1. \E k : Adds(k, w, r)
        BY <1>1, <1>2, <2>2
      <4> QED
        BY <3>1, <4>1, Zenon
    <3>3. WeightOf(w, r) = h[r]
      BY <3>1, WeightIsFold
    <3>4. CASE r = {}
      BY <2>1, <3>2, <3>3, <3>4 DEF Adds
    <3>5. CASE r # {}
      <4>1. PICK x \in r : x = Pick(r)
        BY <3>5, PickIn
      <4>2. PICK t \in SUBSET r : t = r \ {x} /\ t # r /\ x \notin t
        BY SmallerSet
      <4>3. t # s /\ t \in SUBSET s /\ t \in SUBSET t
        BY <4>1, <4>2
      <4>4. PICK k : k = CHOOSE j : Adds(j, w, t)
        OBVIOUS
      <4>5. Adds(k, w, t)
        <5>1. \E j : Adds(j, w, t)
          BY <1>1, <1>2, <4>3
        <5> QED
          BY <4>4, <5>1, Zenon
      <4>6. WeightOf(w, t) = k[t]
        BY <4>4, WeightIsFold
      <4>7. IsFiniteSet(t)
        BY <4>2, FS_Subset
      <4>8. k[t] = h[t]
        BY <3>2, <4>2, <4>3, <4>5, <4>7, AddsUnique
      <4>9. h[r] = w[x] + h[t]
        BY <3>2, <3>5, <4>1, <4>2 DEF Adds
      <4>10. g[r] = w[x] + WeightOf(w, t)
        BY <2>1, <3>5, <4>1, <4>2
      <4> QED
        BY <3>3, <4>6, <4>8, <4>9, <4>10
    <3> QED
      BY <3>4, <3>5
  <2>3. ASSUME NEW r \in SUBSET s, r # {}
        PROVE  WeightOf(w, r \ {Pick(r)}) = g[r \ {Pick(r)}]
    <3>1. PICK t : t = r \ {Pick(r)}
      OBVIOUS
    <3>2. t \in SUBSET s /\ t # s
      BY <2>3, <3>1, PickIn
    <3> QED
      BY <2>2, <3>1, <3>2
  <2>4. Adds(g, w, s)
    <3>1. g = [r \in SUBSET s |-> IF r = {} THEN 0 ELSE w[Pick(r)] + g[r \ {Pick(r)}]]
      BY <2>1, <2>3
    <3> QED
      BY <3>1 DEF Adds
  <2> QED
    BY <1>1, <2>4
<1>3. \A s \in SUBSET S : s \in G
  BY <1>2, SubsetInduction
<1> QED
  BY <1>1, <1>3

\* The sum of nothing, and the sum that one element is taken from.
LEMMA WeightUnfolds ==
  ASSUME NEW w, NEW S, IsFiniteSet(S)
  PROVE  /\ S = {} => WeightOf(w, S) = 0
         /\ S # {} => WeightOf(w, S) = w[Pick(S)] + WeightOf(w, S \ {Pick(S)})
<1>1. PICK g : g = CHOOSE k : Adds(k, w, S)
  OBVIOUS
<1>2. Adds(g, w, S)
  <2>1. \E k : Adds(k, w, S)
    BY AddsExists
  <2> QED
    BY <1>1, <2>1, Zenon
<1>3. WeightOf(w, S) = g[S]
  BY <1>1, WeightIsFold
<1>4. CASE S = {}
  BY <1>2, <1>3, <1>4 DEF Adds
<1>5. CASE S # {}
  <2>1. PICK t \in SUBSET S : t = S \ {Pick(S)}
    OBVIOUS
  <2>2. PICK h : h = CHOOSE k : Adds(k, w, t)
    OBVIOUS
  <2>3. IsFiniteSet(t)
    BY <2>1, FS_Subset
  <2>4. Adds(h, w, t)
    <3>1. \E k : Adds(k, w, t)
      BY <2>3, AddsExists
    <3> QED
      BY <2>2, <3>1, Zenon
  <2>5. WeightOf(w, t) = h[t]
    BY <2>2, WeightIsFold
  <2>6. h[t] = g[t]
    BY <1>2, <2>1, <2>3, <2>4, AddsUnique
  <2>7. g[S] = w[Pick(S)] + g[t]
    BY <1>2, <1>5, <2>1 DEF Adds
  <2> QED
    BY <1>3, <1>5, <2>1, <2>5, <2>6, <2>7
<1> QED
  BY <1>4, <1>5

\* A sum of integers is an integer.
LEMMA WeightType ==
  ASSUME NEW w, NEW S, IsFiniteSet(S), \A x \in S : w[x] \in Int
  PROVE  \A s \in SUBSET S : WeightOf(w, s) \in Int
<1>1. PICK G : G = {s \in SUBSET S : WeightOf(w, s) \in Int}
  OBVIOUS
<1>2. ASSUME NEW s \in SUBSET S, \A r \in SUBSET s : r # s => r \in G PROVE s \in G
  <2>0. IsFiniteSet(s)
    BY FS_Subset
  <2>1. CASE s = {}
    <3>1. WeightOf(w, s) = 0
      BY <2>0, <2>1, WeightUnfolds
    <3> QED
      BY <1>1, <3>1
  <2>2. CASE s # {}
    <3>1. PICK x \in s : x = Pick(s)
      BY <2>2, PickIn
    <3>2. PICK r \in SUBSET s : r = s \ {x} /\ r # s /\ x \notin r
      BY SmallerSet
    <3>3. WeightOf(w, r) \in Int /\ w[x] \in Int
      BY <1>1, <1>2, <3>1, <3>2
    <3>4. WeightOf(w, s) = w[x] + WeightOf(w, r)
      BY <2>0, <2>2, <3>1, <3>2, WeightUnfolds
    <3> QED
      BY <1>1, <3>3, <3>4
  <2> QED
    BY <2>1, <2>2
<1>3. \A s \in SUBSET S : s \in G
  BY <1>2, SubsetInduction
<1> QED
  BY <1>1, <1>3

\* A sum of natural numbers is a natural number.
LEMMA WeightNat ==
  ASSUME NEW w, NEW S, IsFiniteSet(S), \A x \in S : w[x] \in Nat
  PROVE  \A s \in SUBSET S : WeightOf(w, s) \in Nat
<1>1. PICK G : G = {s \in SUBSET S : WeightOf(w, s) \in Nat}
  OBVIOUS
<1>2. ASSUME NEW s \in SUBSET S, \A r \in SUBSET s : r # s => r \in G PROVE s \in G
  <2>0. IsFiniteSet(s)
    BY FS_Subset
  <2>1. CASE s = {}
    <3>1. WeightOf(w, s) = 0
      BY <2>0, <2>1, WeightUnfolds
    <3> QED
      BY <1>1, <3>1
  <2>2. CASE s # {}
    <3>1. PICK x \in s : x = Pick(s)
      BY <2>2, PickIn
    <3>2. PICK r \in SUBSET s : r = s \ {x} /\ r # s /\ x \notin r
      BY SmallerSet
    <3>3. WeightOf(w, r) \in Nat /\ w[x] \in Nat
      BY <1>1, <1>2, <3>1, <3>2
    <3>4. WeightOf(w, s) = w[x] + WeightOf(w, r)
      BY <2>0, <2>2, <3>1, <3>2, WeightUnfolds
    <3> QED
      BY <1>1, <3>3, <3>4
  <2> QED
    BY <2>1, <2>2
<1>3. \A s \in SUBSET S : s \in G
  BY <1>2, SubsetInduction
<1> QED
  BY <1>1, <1>3

\* Whatever the order: one more element adds its weight.
LEMMA WeightAdd ==
  ASSUME NEW w, NEW S, IsFiniteSet(S), \A x \in S : w[x] \in Int
  PROVE  \A s \in SUBSET S : \A x \in S \ s : WeightOf(w, s \cup {x}) = WeightOf(w, s) + w[x]
<1>1. PICK G : G = {s \in SUBSET S : \A x \in S \ s : WeightOf(w, s \cup {x}) = WeightOf(w, s) + w[x]}
  OBVIOUS
<1>2. ASSUME NEW s \in SUBSET S, \A r \in SUBSET s : r # s => r \in G PROVE s \in G
  <2> SUFFICES ASSUME NEW x \in S \ s PROVE WeightOf(w, s \cup {x}) = WeightOf(w, s) + w[x]
    BY <1>1
  <2>0. PICK u \in SUBSET S : u = s \cup {x}
    OBVIOUS
  <2>1. IsFiniteSet(u) /\ u # {} /\ IsFiniteSet(s)
    BY <2>0, FS_Subset
  <2>2. PICK y \in u : y = Pick(u)
    BY <2>1, PickIn
  <2>3. WeightOf(w, u) = w[y] + WeightOf(w, u \ {y})
    BY <2>1, <2>2, WeightUnfolds
  <2>4. WeightOf(w, s) \in Int /\ w[x] \in Int
    BY WeightType
  <2>5. CASE y = x
    <3>1. u \ {y} = s
      BY <2>0, <2>5
    <3>2. WeightOf(w, u) = w[x] + WeightOf(w, s)
      BY <2>3, <2>5, <3>1
    <3>3. w[x] + WeightOf(w, s) = WeightOf(w, s) + w[x]
      BY <2>4
    <3> QED
      BY <2>0, <3>2, <3>3
  <2>6. CASE y # x
    <3>0. y \in s /\ y \in S
      BY <2>0, <2>2, <2>6
    <3>1. PICK r \in SUBSET s : r = s \ {y} /\ r # s /\ y \notin r
      BY <3>0, SmallerSet
    <3>2. u \ {y} = r \cup {x} /\ x \in S \ r /\ y \in S \ r /\ r \cup {y} = s /\ r \in SUBSET S
      BY <2>0, <2>6, <3>0, <3>1
    <3>3. WeightOf(w, r \cup {x}) = WeightOf(w, r) + w[x] /\ WeightOf(w, r \cup {y}) = WeightOf(w, r) + w[y]
      BY <1>1, <1>2, <3>1, <3>2
    <3>4. WeightOf(w, r) \in Int /\ w[y] \in Int
      BY <3>0, <3>2, WeightType
    <3>5. WeightOf(w, u) = w[y] + (WeightOf(w, r) + w[x]) /\ WeightOf(w, s) = WeightOf(w, r) + w[y]
      BY <2>3, <3>2, <3>3
    <3> QED
      BY <2>0, <2>4, <3>4, <3>5
  <2> QED
    BY <2>5, <2>6
<1>3. \A s \in SUBSET S : s \in G
  BY <1>2, SubsetInduction
<1> QED
  BY <1>1, <1>3

\* Weights that agree on a set have the same sum over it.
LEMMA WeightSame ==
  ASSUME NEW w, NEW v, NEW S, \A x \in S : w[x] = v[x]
  PROVE  WeightOf(w, S) = WeightOf(v, S)
<1>1. ASSUME NEW g PROVE Adds(g, w, S) <=> Adds(g, v, S)
  <2>1. \A s \in SUBSET S : s # {} => w[Pick(s)] = v[Pick(s)]
    BY PickIn
  <2>2. [s \in SUBSET S |-> IF s = {} THEN 0 ELSE w[Pick(s)] + g[s \ {Pick(s)}]]
          = [s \in SUBSET S |-> IF s = {} THEN 0 ELSE v[Pick(s)] + g[s \ {Pick(s)}]]
    BY <2>1
  <2> QED
    BY <2>2 DEF Adds
<1>2. (CHOOSE g : Adds(g, w, S)) = (CHOOSE g : Adds(g, v, S))
  BY <1>1, Zenon
<1> QED
  BY <1>2, WeightIsFold

\* A change of one weight changes the sum by as much.
LEMMA WeightChange ==
  ASSUME NEW w, NEW v, NEW S, IsFiniteSet(S), NEW x \in S,
         \A y \in S : w[y] \in Int /\ v[y] \in Int, \A y \in S : y # x => w[y] = v[y]
  PROVE  WeightOf(v, S) = WeightOf(w, S) + (v[x] - w[x])
<1>1. PICK r \in SUBSET S : r = S \ {x} /\ r # S /\ x \notin r
  BY SmallerSet
<1>2. r \cup {x} = S /\ x \in S \ r
  BY <1>1
<1>3. WeightOf(w, S) = WeightOf(w, r) + w[x]
  BY <1>2, WeightAdd
<1>4. WeightOf(v, S) = WeightOf(v, r) + v[x]
  BY <1>2, WeightAdd
<1>5. WeightOf(w, r) = WeightOf(v, r)
  BY <1>1, WeightSame
<1>6. WeightOf(w, r) \in Int /\ w[x] \in Int /\ v[x] \in Int
  BY WeightType
<1> QED
  BY <1>3, <1>4, <1>5, <1>6

-----------------------------------------------------------------------------
\* A set of numbers has a smallest one, and Min of FiniteSetsExt is it.
LEMMA SmallestOf ==
  ASSUME NEW S \in SUBSET Nat, S # {} PROVE Min(S) \in S /\ \A y \in S : Min(S) <= y
<1>1. PICK x \in S : \A y \in S : <<y, x>> \notin OpToRel(<, Nat)
  BY NatLessThanWellFounded, WFMin
<1>2. \A y \in S : ~(y < x)
  BY <1>1 DEF OpToRel
<1>3. \A y \in S : x <= y
  BY <1>2
<1> QED
  BY <1>3 DEF Min

\* A set of naturals up to a bound has a largest element, which is its Max.
LEMMA LargestOf ==
  ASSUME NEW M \in Nat, NEW S \in SUBSET (0 .. M), S # {} PROVE Max(S) \in S /\ \A y \in S : y <= Max(S)
<1>1. PICK R : R = {M - y : y \in S}
  OBVIOUS
<1>2. R \in SUBSET Nat /\ R # {}
  <2>1. \A y \in 0 .. M : M - y \in Nat
    OBVIOUS
  <2>2. \A y \in S : M - y \in Nat
    BY <2>1
  <2> QED
    BY <1>1, <2>2
<1>3. PICK r : r \in R /\ \A z \in R : r <= z
  BY <1>2, SmallestOf
<1>4. PICK x \in S : r = M - x
  BY <1>1, <1>3
<1>5. \A y \in S : x >= y
  <2> SUFFICES ASSUME NEW y \in S PROVE x >= y
    OBVIOUS
  <2>1. M - x <= M - y
    BY <1>1, <1>3, <1>4
  <2>2. x \in Nat /\ y \in Nat
    OBVIOUS
  <2> QED
    BY <2>1, <2>2
<1>6. Max(S) \in S /\ \A y \in S : Max(S) >= y
  BY <1>5 DEF Max
<1>7. \A y \in S : y \in Nat
  OBVIOUS
<1> QED
  BY <1>6, <1>7

=============================================================================
