----------------------------- MODULE SumsProofs -----------------------------
EXTENDS Integers, FiniteSetsExt, FiniteSetTheorems, TLAPS
\* Sums over finite sets. SumFunctionOnSet folds a function over a set by
\* taking the members one after another: IsFold is the equation the fold
\* solves. A least counterexample in the order of strict inclusion stands for
\* induction over the finite sets, first to build that fold on all subsets,
\* then to compute with it.

\* The member of a set that the fold takes, and the equation of the fold.
Pick(s) == CHOOSE x \in s : TRUE

IsFold(g, f, S) ==
  g = [s \in SUBSET S |-> IF s = {} THEN 0 ELSE f[Pick(s)] + g[s \ {Pick(s)}]]

\* The member taken is one of the set.
LEMMA PickIn == \A s : s # {} => Pick(s) \in s
BY DEF Pick

\* A family of sets that has every set whose proper subsets it has, has all.
LEMMA SubsetsByInduction ==
  ASSUME NEW S, IsFiniteSet(S), NEW T,
         \A s \in SUBSET S : (\A r \in SUBSET s : r # s => r \in T) => s \in T
  PROVE  \A s \in SUBSET S : s \in T
<1> SUFFICES ASSUME NEW s0 \in SUBSET S, s0 \notin T
             PROVE  FALSE
  OBVIOUS
<1> DEFINE U == (SUBSET S) \ T
<1>1. IsWellFoundedOn(StrictSubsetOrdering(S), FiniteSubsetsOf(S))
  BY FS_StrictSubsetOrderingWellFounded
<1>2. U # {} /\ U \subseteq FiniteSubsetsOf(S)
  BY FS_FiniteSubsetsOfFinite
<1>3. PICK x \in U : \A y \in U : <<y, x>> \notin StrictSubsetOrdering(S)
  <2> HIDE DEF U
  <2> QED
    BY <1>1, <1>2, WFMin
<1>4. \A r \in SUBSET x : r # x => r \in T
  <2> SUFFICES ASSUME NEW r \in SUBSET x, r # x, r \notin T
               PROVE  FALSE
    OBVIOUS
  <2>1. r \in U
    OBVIOUS
  <2>2. <<r, x>> \in StrictSubsetOrdering(S)
    BY <2>1 DEF StrictSubsetOrdering
  <2> QED
    BY <1>3, <2>1, <2>2
<1> QED
  BY <1>3, <1>4

\* Two folds of one function agree on the sets they both have.
LEMMA FoldsAgree ==
  ASSUME NEW f, NEW S, IsFiniteSet(S), NEW R, NEW g, NEW h,
         IsFold(g, f, S), IsFold(h, f, R),
         NEW s0 \in SUBSET S, s0 \subseteq R
  PROVE  g[s0] = h[s0]
<1> DEFINE T == {s \in SUBSET s0 : g[s] = h[s]}
<1>0. IsFiniteSet(s0)
  BY FS_Subset
<1>1. ASSUME NEW s \in SUBSET s0, \A r \in SUBSET s : r # s => r \in T
      PROVE  s \in T
  <2>0. s \in SUBSET S /\ s \in SUBSET R
    OBVIOUS
  <2>1. CASE s = {}
    BY <2>0, <2>1 DEF IsFold
  <2>2. CASE s # {}
    <3>1. Pick(s) \in s /\ s \ {Pick(s)} \in SUBSET s /\ s \ {Pick(s)} # s
      BY <2>2, PickIn
    <3>2. g[s \ {Pick(s)}] = h[s \ {Pick(s)}]
      BY <1>1, <3>1
    <3>3. g[s] = f[Pick(s)] + g[s \ {Pick(s)}]
      BY <2>0, <2>2 DEF IsFold
    <3>4. h[s] = f[Pick(s)] + h[s \ {Pick(s)}]
      BY <2>0, <2>2 DEF IsFold
    <3> QED
      BY <3>2, <3>3, <3>4
  <2> QED
    BY <2>1, <2>2
<1>2. \A s \in SUBSET s0 : s \in T
  <2> HIDE DEF T
  <2> QED
    BY <1>0, <1>1, SubsetsByInduction
<1> QED
  BY <1>2

LEMMA FoldExists ==
  ASSUME NEW S, IsFiniteSet(S), NEW f, \A x \in S : f[x] \in Int
  PROVE  \E g \in [SUBSET S -> Int] : IsFold(g, f, S)
<1> DEFINE Good(g, s) == g \in [SUBSET s -> Int] /\ IsFold(g, f, s)
           T == {s \in SUBSET S : \E g \in [SUBSET s -> Int] : IsFold(g, f, s)}
           F(s) == CHOOSE g : Good(g, s)
<1>1. ASSUME NEW s \in SUBSET S, \A r \in SUBSET s : r # s => r \in T
      PROVE  s \in T
  <2> DEFINE Less(r) == r \ {Pick(r)}
             Val(r) == IF r = {} THEN 0 ELSE f[Pick(r)] + F(Less(r))[Less(r)]
             h == [r \in SUBSET s |-> Val(r)]
  <2>1. ASSUME NEW r \in SUBSET s, r # s
        PROVE  F(r) \in [SUBSET r -> Int] /\ IsFold(F(r), f, r)
    <3>1. \E g : Good(g, r)
      BY <1>1, <2>1
    <3>2. Good(F(r), r)
      <4> HIDE DEF Good
      <4> QED
        BY <3>1
    <3> QED
      BY <3>2
  <2> HIDE DEF F
  <2>2. ASSUME NEW r \in SUBSET s, r # {}
        PROVE  /\ Pick(r) \in r /\ Less(r) \in SUBSET s /\ Less(r) # s
               /\ Less(r) \in SUBSET r
    BY <2>2, PickIn
  <2>3. \A r \in SUBSET s : Val(r) \in Int
    <3> SUFFICES ASSUME NEW r \in SUBSET s, r # {}
                 PROVE  Val(r) \in Int
      OBVIOUS
    <3>1. /\ Pick(r) \in r /\ Less(r) \in SUBSET s /\ Less(r) # s
      BY <2>2
    <3> HIDE DEF Less
    <3>2. F(Less(r)) \in [SUBSET Less(r) -> Int]
      BY <2>1, <3>1
    <3>3. f[Pick(r)] \in Int
      BY <3>1
    <3>4. F(Less(r))[Less(r)] \in Int
      BY <3>2
    <3> QED
      BY <3>3, <3>4
  <2>4. ASSUME NEW r \in SUBSET s, r # s
        PROVE  h[r] = F(r)[r]
    <3>1. CASE r = {}
      <4>1. h[r] = 0
        BY <3>1
      <4>2. F(r)[r] = 0
        BY <2>1, <2>4, <3>1 DEF IsFold
      <4> QED
        BY <4>1, <4>2
    <3>2. CASE r # {}
      <4>1. /\ Pick(r) \in r /\ Less(r) \in SUBSET s /\ Less(r) # s
            /\ Less(r) \in SUBSET r
        BY <2>2, <3>2
      <4>2. h[r] = f[Pick(r)] + F(Less(r))[Less(r)]
        BY <3>2
      <4>3. F(r)[r] = f[Pick(r)] + F(r)[Less(r)]
        <5>1. IsFold(F(r), f, r)
          BY <2>1, <2>4
        <5> QED
          BY <3>2, <5>1 DEF IsFold
      <4> HIDE DEF Less
      <4>4. F(r)[Less(r)] = F(Less(r))[Less(r)]
        <5>1. IsFold(F(r), f, r) /\ IsFold(F(Less(r)), f, Less(r))
          BY <2>1, <2>4, <4>1
        <5>2. PICK g, q, h1 : g = F(r) /\ q = Less(r) /\ h1 = F(q)
          OBVIOUS
        <5>3. /\ IsFiniteSet(r) /\ q \in SUBSET r /\ q \subseteq q
              /\ IsFold(g, f, r) /\ IsFold(h1, f, q)
          BY <4>1, <5>1, <5>2, FS_Subset
        <5>4. g[q] = h1[q]
          BY <5>3, FoldsAgree
        <5> QED
          BY <5>2, <5>4
      <4> QED
        BY <4>2, <4>3, <4>4
    <3> QED
      BY <3>1, <3>2
  <2>5. h \in [SUBSET s -> Int]
    <3> HIDE DEF Val
    <3> QED
      BY <2>3
  <2>6. \A r \in SUBSET s :
          h[r] = IF r = {} THEN 0 ELSE f[Pick(r)] + h[r \ {Pick(r)}]
    <3> TAKE r \in SUBSET s
    <3>1. CASE r = {}
      BY <3>1
    <3>2. CASE r # {}
      <4>1. Less(r) \in SUBSET s /\ Less(r) # s
        BY <2>2, <3>2
      <4>2. h[r] = f[Pick(r)] + F(Less(r))[Less(r)]
        BY <3>2
      <4>3. h[Less(r)] = F(Less(r))[Less(r)]
        <5> HIDE DEF Less, h
        <5> QED
          BY <2>4, <4>1
      <4> QED
        BY <3>2, <4>2, <4>3
    <3> QED
      BY <3>1, <3>2
  <2>7. IsFold(h, f, s)
    <3> HIDE DEF h
    <3> QED
      BY <2>5, <2>6 DEF IsFold
  <2> QED
    BY <2>5, <2>7
<1>2. \A s \in SUBSET S : s \in T
  <2> HIDE DEF T
  <2> QED
    BY <1>1, SubsetsByInduction
<1> QED
  BY <1>2

\* SumFunctionOnSet is the value of a fold.
LEMMA SumIsFold ==
  ASSUME NEW f, NEW S, NEW g, IsFold(g, f, S)
  PROVE  \E h : IsFold(h, f, S) /\ SumFunctionOnSet(f, S) = h[S]
BY DEF SumFunctionOnSet, FoldFunctionOnSet, MapThenFoldSet, IsFold, Pick

LEMMA SumByFold ==
  ASSUME NEW f, NEW S, IsFiniteSet(S), NEW g, IsFold(g, f, S),
         NEW s \in SUBSET S
  PROVE  SumFunctionOnSet(f, s) = g[s]
<1> DEFINE k == [r \in SUBSET s |-> g[r]]
<1>1. IsFold(k, f, s)
  <2>1. \A r \in SUBSET s :
          /\ k[r] = g[r] /\ r \in SUBSET S
          /\ g[r] = IF r = {} THEN 0 ELSE f[Pick(r)] + g[r \ {Pick(r)}]
    BY DEF IsFold
  <2>2. \A r \in SUBSET s : r \ {Pick(r)} \in SUBSET s
    OBVIOUS
  <2>3. \A r \in SUBSET s :
          k[r] = IF r = {} THEN 0 ELSE f[Pick(r)] + k[r \ {Pick(r)}]
    BY <2>1, <2>2
  <2>4. k = [r \in SUBSET s |-> k[r]]
    OBVIOUS
  <2> HIDE DEF k
  <2> QED
    BY <2>3, <2>4 DEF IsFold
<1> HIDE DEF k
<1>2. PICK h : IsFold(h, f, s) /\ SumFunctionOnSet(f, s) = h[s]
  BY <1>1, SumIsFold
<1>3. IsFiniteSet(s)
  BY FS_Subset
<1> QED
  BY <1>2, <1>3, FoldsAgree

\* The sum is an integer, 0 of no members, and can be taken from any member on.
LEMMA SumInt ==
  ASSUME NEW f, NEW S, IsFiniteSet(S), \A x \in S : f[x] \in Int
  PROVE  /\ SumFunctionOnSet(f, S) \in Int
         /\ SumFunctionOnSet(f, {}) = 0
<1>1. PICK g \in [SUBSET S -> Int] : IsFold(g, f, S)
  BY FoldExists
<1>2. /\ SumFunctionOnSet(f, S) = g[S]
      /\ SumFunctionOnSet(f, {}) = g[{}]
  BY <1>1, SumByFold
<1>3. g[{}] = 0
  BY <1>1 DEF IsFold
<1> QED
  BY <1>1, <1>2, <1>3

LEMMA SumFromMember ==
  ASSUME NEW f, NEW S, IsFiniteSet(S), \A x \in S : f[x] \in Int,
         NEW m \in S
  PROVE  SumFunctionOnSet(f, S) = f[m] + SumFunctionOnSet(f, S \ {m})
<1>1. PICK g \in [SUBSET S -> Int] : IsFold(g, f, S)
  BY FoldExists
<1> DEFINE T == {s \in SUBSET S : \A y \in s : g[s] = f[y] + g[s \ {y}]}
<1>2. ASSUME NEW s \in SUBSET S, \A r \in SUBSET s : r # s => r \in T
      PROVE  s \in T
  <2> SUFFICES ASSUME NEW y \in s
               PROVE  g[s] = f[y] + g[s \ {y}]
    OBVIOUS
  <2>0. PICK p : p = Pick(s)
    OBVIOUS
  <2>1. p \in s
    BY <2>0, PickIn
  <2>2. g[s] = f[p] + g[s \ {p}]
    BY <1>1, <2>0, <2>1 DEF IsFold
  <2>3. CASE y = p
    BY <2>2, <2>3
  <2>4. CASE y # p
    <3>1. g[s \ {p}] = f[y] + g[(s \ {p}) \ {y}]
      <4>1. s \ {p} \in T
        BY <1>2, <2>1
      <4> QED
        BY <2>4, <4>1
    <3>2. g[s \ {y}] = f[p] + g[(s \ {y}) \ {p}]
      <4>1. s \ {y} \in T
        BY <1>2
      <4> QED
        BY <2>1, <2>4, <4>1
    <3>3. (s \ {p}) \ {y} = (s \ {y}) \ {p}
      OBVIOUS
    <3>4. /\ f[p] \in Int /\ f[y] \in Int
          /\ g[(s \ {y}) \ {p}] \in Int
      BY <2>1
    <3>5. \A a, b, n \in Int : a + (b + n) = b + (a + n)
      OBVIOUS
    <3>6. f[p] + (f[y] + g[(s \ {y}) \ {p}]) =
            f[y] + (f[p] + g[(s \ {y}) \ {p}])
      BY <3>4, <3>5
    <3> QED
      BY <2>2, <3>1, <3>2, <3>3, <3>6
  <2> QED
    BY <2>3, <2>4
<1>3. S \in T
  <2>1. \A s \in SUBSET S : s \in T
    <3> HIDE DEF T
    <3> QED
      BY <1>2, SubsetsByInduction
  <2> QED
    BY <2>1
<1>4. g[S] = f[m] + g[S \ {m}]
  BY <1>3
<1>5. /\ SumFunctionOnSet(f, S) = g[S]
      /\ SumFunctionOnSet(f, S \ {m}) = g[S \ {m}]
  BY <1>1, SumByFold
<1> QED
  BY <1>4, <1>5

\* Functions that agree on a set have the same sum over it.
LEMMA SumOfSame ==
  ASSUME NEW S, IsFiniteSet(S), NEW f, NEW h,
         \A x \in S : f[x] \in Int /\ f[x] = h[x]
  PROVE  SumFunctionOnSet(f, S) = SumFunctionOnSet(h, S)
<1>1. PICK g \in [SUBSET S -> Int] : IsFold(g, f, S)
  BY FoldExists
<1>2. \A s \in SUBSET S : s # {} => f[Pick(s)] = h[Pick(s)]
  BY PickIn
<1>3. IsFold(g, h, S)
  BY <1>1, <1>2 DEF IsFold
<1> QED
  BY <1>1, <1>3, SumByFold

\* The sums of two sets with nothing in common add up.
LEMMA SumOfParts ==
  ASSUME NEW f, NEW S, IsFiniteSet(S), \A x \in S : f[x] \in Int,
         NEW R \in SUBSET S
  PROVE  SumFunctionOnSet(f, S)
           = SumFunctionOnSet(f, R) + SumFunctionOnSet(f, S \ R)
<1> DEFINE Sum(s) == SumFunctionOnSet(f, s)
           T == {s \in SUBSET S : Sum(s \union (S \ R)) = Sum(s) + Sum(S \ R)}
<1>1. IsFiniteSet(R)
  BY FS_Subset
<1>2. ASSUME NEW s \in SUBSET R, \A r \in SUBSET s : r # s => r \in T
      PROVE  s \in T
  <2> DEFINE All == s \union (S \ R)
  <2>0. /\ IsFiniteSet(s) /\ IsFiniteSet(All) /\ IsFiniteSet(S \ R)
        /\ s \in SUBSET S /\ All \in SUBSET S
    <3>1. s \in SUBSET S /\ All \in SUBSET S /\ S \ R \in SUBSET S
      OBVIOUS
    <3> QED
      BY <3>1, FS_Subset
  <2>1. Sum(S \ R) \in Int /\ Sum({}) = 0
    BY <2>0, SumInt
  <2>2. CASE s = {}
    <3>1. All = S \ R
      BY <2>2
    <3> QED
      BY <2>0, <2>1, <2>2, <3>1
  <2>3. CASE s # {}
    <3>1. PICK y \in s : TRUE
      BY <2>3
    <3>2. /\ s \ {y} \in T /\ All \ {y} = (s \ {y}) \union (S \ R)
          /\ y \in All
      BY <1>2, <3>1
    <3>3. Sum(s) = f[y] + Sum(s \ {y})
      BY <2>0, SumFromMember
    <3>4. Sum(All) = f[y] + Sum(All \ {y})
      <4> HIDE DEF All
      <4> QED
        BY <2>0, <3>2, SumFromMember
    <3>5. Sum(All \ {y}) = Sum(s \ {y}) + Sum(S \ R)
      BY <3>2
    <3>6. f[y] \in Int /\ Sum(s \ {y}) \in Int
      <4>1. IsFiniteSet(s \ {y})
        BY <2>0, FS_Subset
      <4> QED
        BY <2>0, <4>1, SumInt
    <3>7. Sum(All) = Sum(s) + Sum(S \ R)
      <4> HIDE DEF Sum, All
      <4> QED
        BY <2>1, <3>3, <3>4, <3>5, <3>6
    <3> QED
      BY <2>0, <3>7
  <2> QED
    BY <2>2, <2>3
<1>3. \A s \in SUBSET R : s \in T
  <2> HIDE DEF T
  <2> QED
    BY <1>1, <1>2, SubsetsByInduction
<1>4. R \union (S \ R) = S
  OBVIOUS
<1> QED
  BY <1>3, <1>4

\* A sum does not change with members that give nothing.
LEMMA SumOfNothing ==
  ASSUME NEW f, NEW S, IsFiniteSet(S), \A x \in S : f[x] = 0
  PROVE  SumFunctionOnSet(f, S) = 0
<1> DEFINE T == {s \in SUBSET S : SumFunctionOnSet(f, s) = 0}
<1>1. ASSUME NEW s \in SUBSET S, \A r \in SUBSET s : r # s => r \in T
      PROVE  s \in T
  <2>1. IsFiniteSet(s) /\ \A x \in s : f[x] \in Int /\ f[x] = 0
    BY FS_Subset
  <2>2. CASE s = {}
    BY <2>1, <2>2, SumInt
  <2>3. CASE s # {}
    <3>1. PICK y \in s : TRUE
      BY <2>3
    <3>2. s \ {y} \in T
      BY <1>1, <3>1
    <3>3. SumFunctionOnSet(f, s) = f[y] + SumFunctionOnSet(f, s \ {y})
      BY <2>1, SumFromMember
    <3> QED
      BY <2>1, <3>2, <3>3
  <2> QED
    BY <2>2, <2>3
<1>2. \A s \in SUBSET S : s \in T
  <2> HIDE DEF T
  <2> QED
    BY <1>1, SubsetsByInduction
<1> QED
  BY <1>2

\* A sum is no less than the number of the members that give at least one.
LEMMA SumCounts ==
  ASSUME NEW f, NEW S, IsFiniteSet(S), \A x \in S : f[x] \in Nat,
         NEW C \in SUBSET S, \A x \in C : f[x] > 0
  PROVE  SumFunctionOnSet(f, S) >= Cardinality(C)
<1> DEFINE Sum(s) == SumFunctionOnSet(f, s)
           T == {s \in SUBSET S : Sum(s) >= Cardinality(C \intersect s)}
<1>1. ASSUME NEW s \in SUBSET S, \A r \in SUBSET s : r # s => r \in T
      PROVE  s \in T
  <2>0. IsFiniteSet(s) /\ IsFiniteSet(C \intersect s)
    BY FS_Subset
  <2>1. Sum({}) = 0 /\ Cardinality({}) = 0
    BY SumInt, FS_EmptySet
  <2>2. CASE s = {}
    <3>1. C \intersect s = {}
      BY <2>2
    <3> QED
      BY <2>1, <2>2, <3>1
  <2>3. CASE s # {}
    <3>1. PICK y \in s : TRUE
      BY <2>3
    <3> DEFINE r == s \ {y}
    <3>2. r \in T /\ IsFiniteSet(r) /\ IsFiniteSet(C \intersect r)
      <4>1. r \in SUBSET s /\ r # s /\ C \intersect r \in SUBSET s
        BY <3>1
      <4> QED
        BY <1>1, <2>0, <4>1, FS_Subset
    <3>3. Sum(s) = f[y] + Sum(r)
      BY <2>0, SumFromMember
    <3>4. Sum(r) \in Int /\ Sum(r) >= Cardinality(C \intersect r)
      BY <3>2, SumInt
    <3>5. Cardinality(C \intersect r) \in Nat
      BY <3>2, FS_CardinalityType
    <3>6. CASE y \in C
      <4>1. /\ C \intersect s = (C \intersect r) \union {y}
            /\ y \notin C \intersect r
        BY <3>6
      <4>2. Cardinality(C \intersect s) = Cardinality(C \intersect r) + 1
        <5> HIDE DEF r
        <5> QED
          BY <3>2, <4>1, FS_AddElement
      <4>3. f[y] \in Nat /\ f[y] > 0
        BY <3>6
      <4>4. Sum(s) >= Cardinality(C \intersect s)
        <5> HIDE DEF Sum, r
        <5> QED
          BY <3>3, <3>4, <3>5, <4>2, <4>3
      <4> QED
        BY <4>4
    <3>7. CASE y \notin C
      <4>1. C \intersect s = C \intersect r
        BY <3>7
      <4>2. f[y] \in Nat
        OBVIOUS
      <4>3. Sum(s) >= Cardinality(C \intersect s)
        <5> HIDE DEF Sum, r
        <5> QED
          BY <3>3, <3>4, <3>5, <4>1, <4>2
      <4> QED
        BY <4>3
    <3> QED
      BY <3>6, <3>7
  <2> QED
    BY <2>2, <2>3
<1>2. \A s \in SUBSET S : s \in T
  <2> HIDE DEF T
  <2> QED
    BY <1>1, SubsetsByInduction
<1>3. C \intersect S = C
  OBVIOUS
<1> QED
  BY <1>2, <1>3
=============================================================================
