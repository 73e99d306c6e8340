------------------------------ MODULE FiniteSums ------------------------------
(***************************************************************************)
(* Facts about sums over finite sets as the folds of the community modules   *)
(* take them: one element after the other, in the order that CHOOSE picks.   *)
(* Induction is along the well-founded orders of the library, over a set of   *)
(* subsets or of naturals in place of a predicate.                            *)
(***************************************************************************)
EXTENDS Integers, FiniteSetTheorems, WellFoundedInduction, TLAPS

\* The element a fold takes next, and what it leaves.
OneOf(s)  == CHOOSE x \in s : TRUE
Others(s) == s \ {OneOf(s)}

\* f maps every subset of S to the sum of its elements' weights w.
IsSum(f, w, S) == f = [s \in SUBSET S |-> IF s = {} THEN 0 ELSE w[OneOf(s)] + f[Others(s)]]

-----------------------------------------------------------------------------
\* A set of naturals has a least member.
LEMMA LeastNat ==
  ASSUME NEW T \in SUBSET Nat, T # {}
  PROVE  \E x \in T : \A y \in T : x <= y
  <1>1. PICK x \in T : \A y \in T : ~(<<y, x>> \in OpToRel(<, Nat))
    BY NatLessThanWellFounded, WFMin
  <1>2. \A y \in T : ~(y < x)
    BY <1>1 DEF OpToRel
  <1> QED
    BY <1>2

\* And a greatest one, when it is bounded.
LEMMA GreatestNat ==
  ASSUME NEW T \in SUBSET Nat, T # {}, NEW bound \in Nat, \A b \in T : b <= bound
  PROVE  \E x \in T : \A y \in T : x >= y
  <1> DEFINE above == {n \in Nat : \A b \in T : b <= n}
  <1>1. bound \in above
    OBVIOUS
  <1>2. PICK n \in above : \A y \in above : n <= y
    <2>1. above \in SUBSET Nat /\ above # {}
      BY <1>1
    <2> HIDE DEF above
    <2> QED
      BY <2>1, LeastNat
  <1>3. n \in T
    <2>1. SUFFICES ASSUME n \notin T PROVE FALSE
      OBVIOUS
    <2>2. \A b \in T : b < n
      BY <2>1
    <2>3. n # 0
      <3>1. PICK b \in T : TRUE
        OBVIOUS
      <3>2. b \in Nat /\ b < n
        BY <2>2, <3>1
      <3> QED
        BY <3>2
    <2>4. n - 1 \in Nat /\ \A b \in T : b <= n - 1
      BY <2>2, <2>3
    <2>5. n <= n - 1
      BY <1>2, <2>4
    <2> QED
      BY <2>4, <2>5
  <1> QED
    BY <1>3

\* Of the subsets of a finite set in B, one has no proper part in B.
LEMMA LeastPart ==
  ASSUME NEW S, IsFiniteSet(S), NEW B \in SUBSET (SUBSET S), B # {}
  PROVE  \E u \in B : \A v \in B : ~(v \subseteq u /\ v # u)
  <1>1. B \subseteq FiniteSubsetsOf(S)
    BY FS_Subset DEF FiniteSubsetsOf
  <1>2. PICK u \in B : \A v \in B : ~(<<v, u>> \in StrictSubsetOrdering(S))
    BY <1>1, FS_StrictSubsetOrderingWellFounded, WFMin
  <1>3. ASSUME NEW v \in B, v \subseteq u, v # u PROVE FALSE
    <2>1. <<v, u>> \in StrictSubsetOrdering(S)
      BY <1>3 DEF StrictSubsetOrdering
    <2> QED
      BY <1>2, <2>1
  <1> QED
    BY <1>3

LEMMA OthersAreFewer ==
  ASSUME NEW s, s # {}
  PROVE  OneOf(s) \in s /\ Others(s) \subseteq s /\ Others(s) # s
  BY DEF OneOf, Others

\* A set of subsets that has the empty one, and each whose rest it has, has all.
LEMMA SubsetInduction ==
  ASSUME NEW S, IsFiniteSet(S), NEW G, {} \in G,
         \A u \in SUBSET S : u # {} /\ Others(u) \in G => u \in G
  PROVE  \A u \in SUBSET S : u \in G
  <1> DEFINE B == {u \in SUBSET S : u \notin G}
  <1>1. SUFFICES ASSUME B # {} PROVE FALSE
    OBVIOUS
  <1>2. \E u \in B : \A v \in B : ~(v \subseteq u /\ v # u)
    <2>1. B \in SUBSET (SUBSET S)
      OBVIOUS
    <2> HIDE DEF B
    <2> QED
      BY <1>1, <2>1, LeastPart
  <1>3. PICK u \in B : \A v \in B : ~(v \subseteq u /\ v # u)
    BY <1>2
  <1>4. u # {}
    OBVIOUS
  <1>5. Others(u) \in G
    BY <1>3, <1>4, OthersAreFewer
  <1> QED
    BY <1>4, <1>5

LEMMA SumStep ==
  ASSUME NEW S, NEW w, NEW f, IsSum(f, w, S)
  PROVE  /\ f[{}] = 0
         /\ \A s \in SUBSET S : s # {} => f[s] = w[OneOf(s)] + f[Others(s)]
  BY DEF IsSum

\* The sums of a set agree with those of its subsets.
LEMMA SumUnique ==
  ASSUME NEW S, IsFiniteSet(S), NEW w, NEW f, IsSum(f, w, S),
         NEW T \in SUBSET S, NEW g, IsSum(g, w, T)
  PROVE  f[T] = g[T]
  <1> DEFINE G == {u \in SUBSET T : f[u] = g[u]}
  <1>1. IsFiniteSet(T)
    BY FS_Subset
  <1>2. {} \in G
    BY SumStep
  <1>3. ASSUME NEW u \in SUBSET T, u # {}, Others(u) \in G PROVE u \in G
    BY <1>3, SumStep
  <1> HIDE DEF G
  <1>4. T \in G
    BY <1>1, <1>2, <1>3, SubsetInduction
  <1> QED
    BY <1>4 DEF G

\* Every finite set has its sums: a step takes the sums of what is left.
LEMMA SumExists ==
  ASSUME NEW S, IsFiniteSet(S), NEW w
  PROVE  \E f : IsSum(f, w, S)
  <1> DEFINE B == {T \in SUBSET S : ~\E f : IsSum(f, w, T)}
  <1>1. SUFFICES ASSUME B # {} PROVE FALSE
    OBVIOUS
  <1>2. \E T \in B : \A v \in B : ~(v \subseteq T /\ v # T)
    <2>1. B \in SUBSET (SUBSET S)
      OBVIOUS
    <2> HIDE DEF B
    <2> QED
      BY <1>1, <2>1, LeastPart
  <1>3. PICK T \in B : \A v \in B : ~(v \subseteq T /\ v # T)
    BY <1>2
  <1> DEFINE SumOf(r) == CHOOSE f : IsSum(f, w, r)
             F == [s \in SUBSET T |-> IF s = {} THEN 0
                                     ELSE w[OneOf(s)] + SumOf(Others(s))[Others(s)]]
  <1>4. ASSUME NEW r \in SUBSET T, r # T PROVE IsSum(SumOf(r), w, r) /\ IsFiniteSet(r)
    <2>1. r \in SUBSET S /\ r \notin B
      BY <1>3, <1>4
    <2> QED
      BY <2>1, FS_Subset
  <1> HIDE DEF SumOf
  <1>5. ASSUME NEW s \in SUBSET T
        PROVE  F[s] = IF s = {} THEN 0 ELSE w[OneOf(s)] + SumOf(Others(s))[Others(s)]
    OBVIOUS
  <1>6. F = [s \in SUBSET T |-> F[s]]
    OBVIOUS
  <1> HIDE DEF F
  <1>7. ASSUME NEW r \in SUBSET T, r # T PROVE F[r] = SumOf(r)[r]
    <2>1. CASE r = {}
      BY <1>4, <1>5, <1>7, <2>1, SumStep
    <2>2. CASE r # {}
      <3>1. Others(r) \in SUBSET r /\ Others(r) \in SUBSET T /\ Others(r) # T
        BY <1>7, <2>2, OthersAreFewer
      <3>2. SumOf(r)[Others(r)] = SumOf(Others(r))[Others(r)]
        BY <1>4, <1>7, <3>1, SumUnique
      <3>3. SumOf(r)[r] = w[OneOf(r)] + SumOf(r)[Others(r)]
        BY <1>4, <1>7, <2>2, SumStep
      <3> QED
        BY <1>5, <2>2, <3>2, <3>3
    <2> QED
      BY <2>1, <2>2
  <1>8. ASSUME NEW s \in SUBSET T
        PROVE  F[s] = IF s = {} THEN 0 ELSE w[OneOf(s)] + F[Others(s)]
    <2>1. CASE s = {}
      BY <1>5, <2>1
    <2>2. CASE s # {}
      <3>1. Others(s) \in SUBSET T /\ Others(s) # T
        BY <2>2, OthersAreFewer
      <3> QED
        BY <1>5, <1>7, <2>2, <3>1
    <2> QED
      BY <2>1, <2>2
  <1>9. IsSum(F, w, T)
    BY <1>6, <1>8 DEF IsSum
  <1> QED
    BY <1>3, <1>9

-----------------------------------------------------------------------------
\* A sum of naturals is a natural, and none of them is more than it.
LEMMA SumType ==
  ASSUME NEW S, IsFiniteSet(S), NEW w, \A x \in S : w[x] \in Nat, NEW f, IsSum(f, w, S)
  PROVE  \A u \in SUBSET S : f[u] \in Nat
  <1> DEFINE G == {u \in SUBSET S : f[u] \in Nat}
  <1>1. {} \in G
    BY SumStep
  <1>2. ASSUME NEW u \in SUBSET S, u # {}, Others(u) \in G PROVE u \in G
    BY <1>2, SumStep, OthersAreFewer
  <1> HIDE DEF G
  <1>3. \A u \in SUBSET S : u \in G
    BY <1>1, <1>2, SubsetInduction
  <1> QED
    BY <1>3 DEF G

LEMMA MemberAtMostSum ==
  ASSUME NEW S, IsFiniteSet(S), NEW w, \A x \in S : w[x] \in Nat, NEW f, IsSum(f, w, S),
         NEW x \in S
  PROVE  w[x] <= f[S]
  <1> DEFINE G == {u \in SUBSET S : x \in u => w[x] <= f[u]}
  <1>1. {} \in G
    OBVIOUS
  <1>2. ASSUME NEW u \in SUBSET S, u # {}, Others(u) \in G PROVE u \in G
    <2>1. /\ f[u] = w[OneOf(u)] + f[Others(u)]
          /\ OneOf(u) \in S /\ Others(u) \in SUBSET S /\ Others(u) = u \ {OneOf(u)}
      BY <1>2, SumStep, OthersAreFewer DEF Others
    <2>2. f[Others(u)] \in Nat /\ w[OneOf(u)] \in Nat /\ w[x] \in Nat
      BY <2>1, SumType
    <2> QED
      BY <1>2, <2>1, <2>2
  <1> HIDE DEF G
  <1>3. S \in G
    BY <1>1, <1>2, SubsetInduction
  <1> QED
    BY <1>3 DEF G

\* One element less, in the size of a set and in a multiple of it.
LEMMA OneFewer ==
  ASSUME NEW u, IsFiniteSet(u), u # {}, NEW k \in Nat
  PROVE  /\ Cardinality(u) \in Nat /\ Cardinality(Others(u)) \in Nat
         /\ Cardinality(u) = Cardinality(Others(u)) + 1
         /\ Cardinality(u) * k = Cardinality(Others(u)) * k + k
         /\ Cardinality(Others(u)) * k \in Nat
  <1>1. IsFiniteSet(Others(u)) /\ Cardinality(Others(u)) = Cardinality(u) - 1
    BY OthersAreFewer, FS_RemoveElement DEF Others
  <1>2. Cardinality(u) \in Nat /\ Cardinality(Others(u)) \in Nat
    BY <1>1, FS_CardinalityType
  <1>3. ASSUME NEW m \in Nat, NEW n \in Nat, m = n - 1
        PROVE  n = m + 1 /\ n * k = m * k + k /\ m * k \in Nat
    BY <1>3
  <1> QED
    BY <1>1, <1>2, <1>3

\* A sum is no less than the number of its terms times the least of them.
LEMMA SumAtLeast ==
  ASSUME NEW S, IsFiniteSet(S), NEW w, NEW least \in Nat,
         \A x \in S : w[x] \in Nat /\ least <= w[x],
         NEW f, IsSum(f, w, S)
  PROVE  Cardinality(S) * least <= f[S]
  <1> DEFINE G == {u \in SUBSET S : Cardinality(u) * least <= f[u]}
  <1>1. {} \in G
    <2>1. Cardinality({}) * least = 0 /\ f[{}] = 0
      BY FS_EmptySet, SumStep
    <2>2. Cardinality({}) * least <= f[{}]
      BY <2>1
    <2> QED
      BY <2>2
  <1>2. ASSUME NEW u \in SUBSET S, u # {}, Others(u) \in G PROVE u \in G
    <2>1. f[u] = w[OneOf(u)] + f[Others(u)] /\ OneOf(u) \in S /\ Others(u) \in SUBSET S
      BY <1>2, SumStep, OthersAreFewer
    <2>2. f[Others(u)] \in Nat /\ w[OneOf(u)] \in Nat /\ least <= w[OneOf(u)]
      BY <2>1, SumType
    <2>3. /\ Cardinality(u) * least = Cardinality(Others(u)) * least + least
          /\ Cardinality(Others(u)) * least \in Nat
      BY <1>2, FS_Subset, OneFewer
    <2>4. Cardinality(Others(u)) * least <= f[Others(u)]
      BY <1>2
    <2>5. Cardinality(u) * least <= f[u]
      BY <2>1, <2>2, <2>3, <2>4
    <2> QED
      BY <2>5
  <1> HIDE DEF G
  <1>3. S \in G
    BY <1>1, <1>2, SubsetInduction
  <1> QED
    BY <1>3 DEF G

\* Terms that are each at most one more sum up to at most their number more.
LEMMA SumsCompare ==
  ASSUME NEW S, IsFiniteSet(S), NEW w, NEW v,
         \A x \in S : w[x] \in Nat /\ v[x] \in Nat /\ w[x] <= v[x] + 1,
         NEW f, IsSum(f, w, S), NEW g, IsSum(g, v, S)
  PROVE  f[S] <= g[S] + Cardinality(S)
  <1> DEFINE G == {u \in SUBSET S : f[u] <= g[u] + Cardinality(u)}
  <1>1. {} \in G
    <2>1. Cardinality({}) = 0 /\ f[{}] = 0 /\ g[{}] = 0
      BY FS_EmptySet, SumStep
    <2>2. f[{}] <= g[{}] + Cardinality({})
      BY <2>1
    <2> QED
      BY <2>2
  <1>2. ASSUME NEW u \in SUBSET S, u # {}, Others(u) \in G PROVE u \in G
    <2>1. /\ f[u] = w[OneOf(u)] + f[Others(u)]
          /\ g[u] = v[OneOf(u)] + g[Others(u)]
          /\ OneOf(u) \in S /\ Others(u) \in SUBSET S
      BY <1>2, SumStep, OthersAreFewer
    <2>2. f[Others(u)] \in Nat /\ g[Others(u)] \in Nat
      BY <2>1, SumType
    <2>3. Cardinality(Others(u)) \in Nat /\ Cardinality(u) = Cardinality(Others(u)) + 1
      BY <1>2, FS_Subset, OneFewer
    <2>4. f[Others(u)] <= g[Others(u)] + Cardinality(Others(u))
      BY <1>2
    <2>5. w[OneOf(u)] \in Nat /\ v[OneOf(u)] \in Nat /\ w[OneOf(u)] <= v[OneOf(u)] + 1
      BY <2>1
    <2>6. f[u] <= g[u] + Cardinality(u)
      BY <2>1, <2>2, <2>3, <2>4, <2>5
    <2> QED
      BY <2>6
  <1> HIDE DEF G
  <1>3. S \in G
    BY <1>1, <1>2, SubsetInduction
  <1> QED
    BY <1>3 DEF G

=============================================================================
