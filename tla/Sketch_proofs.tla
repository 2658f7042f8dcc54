---------------------------- MODULE Sketch_proofs ----------------------------
(***************************************************************************)
(* That a sketch does not depend on the order in which its observations    *)
(* and buckets arrive, and that its quantiles are accurate, for every set  *)
(* of observations and every limit.                                        *)
(*                                                                         *)
(*  1. Sums over bags.  SumFunction is a fold over a set whose elements    *)
(*     are chosen; it is the value that any enumeration gives (SumAdds),   *)
(*     so that counts of disjoint parts add up (CountDisjoint), and bags   *)
(*     can be counted part by part.                                        *)
(*  2. Bins.  Kept(bag) are the largest bins that a bag's observations     *)
(*     fall into, up to the limit.  Binned(v, bag) says that a value holds *)
(*     what falls into these in full, and the rest in its other bins or    *)
(*     in zero.  Adding observations or merging buckets keeps that,        *)
(*     whatever was collapsed before, since a bin kept of two bags is kept *)
(*     of each (KeptOfPart); and collapse never takes a kept bin while     *)
(*     there are more bins than the limit.                                 *)
(*  3. A value within the limit then has just the kept bins                *)
(*     (SketchedIsSketchOf), and every step leaves the stored buckets and  *)
(*     the sketch of a read so (SketchInv).                                *)
(*  4. Quantiles.  An element of a bag has rank r if fewer than r are less *)
(*     and at least r at most it (AtRank).  What is kept reaches outwards  *)
(*     from zero (KeptOutwards), so that the bins on either side count the *)
(*     observations outside, and the bin found for a rank is the one of    *)
(*     the observation of that rank (NegativeRank, PositiveRank,           *)
(*     ZeroRank); bins are narrow (BinValueClose).  An exact sketch is     *)
(*     sorted, and there the place is the rank (SortedRanked).             *)
(***************************************************************************)
EXTENDS Sketch, FiniteSetTheorems, SequenceTheorems, WellFoundedInduction, TLAPS

-----------------------------------------------------------------------------
(* A set of naturals has a least element. *)
LEMMA Least ==
    ASSUME NEW S \in SUBSET Nat, S # {}
    PROVE  \E n \in S : \A m \in S : n <= m
<1> DEFINE R == OpToRel(<, Nat)
<1>1. IsWellFoundedOn(R, Nat)
  BY NatLessThanWellFounded
<1>2. \E n \in S : \A m \in S : <<m, n>> \notin R
  <2> HIDE DEF R
  <2> QED BY <1>1, WFMin
<1>3. PICK n \in S : \A m \in S : <<m, n>> \notin R
  BY <1>2
<1>4. \A m \in S : m < n => <<m, n>> \in R
  BY DEF OpToRel
<1>5. \A m \in S : n <= m
  <2> SUFFICES ASSUME NEW m \in S, ~(n <= m) PROVE FALSE
    OBVIOUS
  <2>1. m < n
    OBVIOUS
  <2> HIDE DEF R
  <2> QED BY <2>1, <1>3, <1>4
<1> QED BY <1>5

(* Induction up to a number, over the set of the numbers it holds of. *)
LEMMA NatUpTo ==
    ASSUME NEW n \in Nat, NEW S, 0 \in S,
           \A k \in 0..(n - 1) : k \in S => k + 1 \in S
    PROVE  \A k \in 0..n : k \in S
<1> DEFINE B == {k \in 0..n : k \notin S}
<1> SUFFICES ASSUME B # {} PROVE FALSE
  OBVIOUS
<1>1. PICK k \in B : \A m \in B : k <= m
  <2>1. B \in SUBSET Nat
    OBVIOUS
  <2> HIDE DEF B
  <2> QED BY <2>1, Least
<1>2. k # 0 /\ k - 1 \in 0..(n - 1) /\ k - 1 \notin B
  BY <1>1
<1> QED BY <1>1, <1>2

Steps(A, n) == [1..n -> [A -> A]]
Solutions(A, n, base, step) ==
    {g \in [0..n -> A] : g[0] = base /\ \A i \in 1..n : g[i] = step[i][g[i - 1]]}

(* A recursion along 0..n has a solution. *)
LEMMA Recursion ==
    ASSUME NEW A, NEW n \in Nat, NEW base \in A, NEW step \in Steps(A, n)
    PROVE  Solutions(A, n, base, step) # {}
<1>0. step \in [1..n -> [A -> A]]
  BY DEF Steps
<1> DEFINE S == {k \in 0..n : \E g \in [0..k -> A] :
                     g[0] = base /\ \A i \in 1..k : g[i] = step[i][g[i - 1]]}
<1>1. 0 \in S
  <2> DEFINE g == [i \in 0..0 |-> base]
  <2>1. g \in [0..0 -> A] /\ g[0] = base /\ \A i \in 1..0 : g[i] = step[i][g[i - 1]]
    OBVIOUS
  <2> HIDE DEF g
  <2> QED BY <2>1
<1>2. ASSUME NEW k \in 0..(n - 1), k \in S PROVE k + 1 \in S
  <2>1. PICK g \in [0..k -> A] :
           g[0] = base /\ \A i \in 1..k : g[i] = step[i][g[i - 1]]
    BY <1>2
  <2> DEFINE h == [i \in 0..(k + 1) |-> IF i <= k THEN g[i] ELSE step[k + 1][g[k]]]
  <2>2. h \in [0..(k + 1) -> A]
    BY <1>0
  <2>3. h[0] = base /\ \A i \in 1..(k + 1) : h[i] = step[i][h[i - 1]]
    <3>1. h[0] = base
      BY <2>1
    <3>2. ASSUME NEW i \in 1..k PROVE h[i] = step[i][h[i - 1]]
      <4>1. h[i] = g[i] /\ h[i - 1] = g[i - 1]
        OBVIOUS
      <4> QED BY <4>1, <2>1
    <3>3. h[k + 1] = step[k + 1][h[k]]
      <4>1. h[k + 1] = step[k + 1][g[k]] /\ h[k] = g[k]
        OBVIOUS
      <4> QED BY <4>1
    <3>4. k + 1 - 1 = k /\ \A i \in 1..(k + 1) : i \in 1..k \/ i = k + 1
      OBVIOUS
    <3> HIDE DEF h
    <3> QED BY <3>1, <3>2, <3>3, <3>4
  <2>4. k + 1 \in 0..n
    OBVIOUS
  <2> HIDE DEF h
  <2> QED BY <2>2, <2>3, <2>4
<1>3. \A k \in 0..n : k \in S
  <2> HIDE DEF S
  <2> QED BY <1>1, <1>2, NatUpTo
<1>4. n \in S
  <2> HIDE DEF S
  <2> QED BY <1>3
<1> QED BY <1>4 DEF Solutions

(* Induction over the subsets of a finite set, over the set of those it    *)
(* holds of.                                                               *)
LEMMA FiniteUpTo ==
    ASSUME NEW S, IsFiniteSet(S), NEW C, {} \in C,
           \A T \in SUBSET S, x \in S : x \notin T /\ T \in C => T \cup {x} \in C
    PROVE  \A T \in SUBSET S : T \in C
<1>1. \A T \in SUBSET S : IsFiniteSet(T) /\ Cardinality(T) \in Nat /\ Cardinality(T) <= Cardinality(S)
  BY FS_Subset, FS_CardinalityType
<1> DEFINE n == Cardinality(S)
           K == {k \in 0..n : \A T \in SUBSET S : Cardinality(T) = k => T \in C}
<1>2. 0 \in K
  <2>1. \A T \in SUBSET S : Cardinality(T) = 0 => T = {}
    BY <1>1, FS_EmptySet
  <2>2. n \in Nat
    BY FS_CardinalityType
  <2> HIDE DEF n
  <2> QED BY <2>1, <2>2
<1>3. ASSUME NEW k \in 0..(n - 1), k \in K PROVE k + 1 \in K
  <2>1. ASSUME NEW T \in SUBSET S, Cardinality(T) = k + 1 PROVE T \in C
    <3>1. PICK x \in T : TRUE
      <4>1. T # {}
        BY <2>1, <1>1, FS_EmptySet
      <4> QED BY <4>1
    <3> DEFINE R == T \ {x}
    <3>2. R \in SUBSET S /\ x \in S /\ x \notin R /\ R \cup {x} = T
      OBVIOUS
    <3>3. Cardinality(R) = k
      <4>1. Cardinality(R) = Cardinality(T) - 1
        BY <1>1, <3>1, FS_RemoveElement
      <4> HIDE DEF R
      <4> QED BY <4>1, <2>1
    <3> HIDE DEF R
    <3>4. R \in C
      BY <1>3, <3>2, <3>3
    <3>5. R \cup {x} \in C
      BY <3>2, <3>4
    <3> QED BY <3>2, <3>5
  <2>2. k + 1 \in 0..n
    BY FS_CardinalityType
  <2> QED BY <2>1, <2>2
<1>4. \A k \in 0..n : k \in K
  <2>1. n \in Nat
    BY FS_CardinalityType
  <2>2. \A k \in 0..(n - 1) : k \in K => k + 1 \in K
    BY <1>3
  <2> HIDE DEF K, n
  <2> QED BY <1>2, <2>1, <2>2, NatUpTo
<1> QED
  <2>1. ASSUME NEW T \in SUBSET S PROVE T \in C
    <3>1. Cardinality(T) \in 0..n
      BY <1>1, FS_CardinalityType
    <3> QED BY <3>1, <1>4
  <2> QED BY <2>1

(* A finite set of numbers has a smallest and a largest element. *)
LEMMA FiniteBounds ==
    ASSUME NEW S \in SUBSET Int, IsFiniteSet(S), S # {}
    PROVE  /\ \E m \in S : \A x \in S : m <= x
           /\ \E m \in S : \A x \in S : x <= m
<1> DEFINE Low(T) == \E m \in T : \A x \in T : m <= x
           High(T) == \E m \in T : \A x \in T : x <= m
           C == {T \in SUBSET S : T = {} \/ (Low(T) /\ High(T))}
<1>1. {} \in C
  OBVIOUS
<1>2. ASSUME NEW T \in SUBSET S, NEW x \in S, x \notin T, T \in C PROVE T \cup {x} \in C
  <2> DEFINE U == T \cup {x}
  <2>1. CASE T = {}
    <3>1. \A y \in U : y = x
      BY <2>1
    <3>2. x \in Int /\ x \in U /\ U \in SUBSET S
      OBVIOUS
    <3> HIDE DEF U
    <3>3. Low(U) /\ High(U)
      BY <3>1, <3>2
    <3> QED BY <3>2, <3>3 DEF U
  <2>2. CASE Low(T) /\ High(T)
    <3>1. Low(U)
      <4>1. PICK m \in T : \A y \in T : m <= y
        BY <2>2
      <4>2. m \in Int /\ x \in Int /\ \A y \in T : y \in Int
        OBVIOUS
      <4>3. CASE m <= x
        BY <4>1, <4>2, <4>3
      <4>4. CASE x < m
        <5>1. \A y \in U : x <= y
          BY <4>1, <4>2, <4>4
        <5> QED BY <5>1
      <4> QED BY <4>2, <4>3, <4>4
    <3>2. High(U)
      <4>1. PICK m \in T : \A y \in T : y <= m
        BY <2>2
      <4>2. m \in Int /\ x \in Int /\ \A y \in T : y \in Int
        OBVIOUS
      <4>3. CASE x <= m
        BY <4>1, <4>2, <4>3
      <4>4. CASE m < x
        <5>1. \A y \in U : y <= x
          BY <4>1, <4>2, <4>4
        <5> QED BY <5>1
      <4> QED BY <4>2, <4>3, <4>4
    <3> HIDE DEF Low, High
    <3> QED BY <3>1, <3>2
  <2> HIDE DEF Low, High
  <2> QED BY <1>2, <2>1, <2>2
<1>3. \A T \in SUBSET S, x \in S : x \notin T /\ T \in C => T \cup {x} \in C
  BY <1>2
<1>4. S \in C
  <2> HIDE DEF C
  <2>1. \A T \in SUBSET S : T \in C
    BY <1>1, <1>3, FiniteUpTo
  <2> QED BY <2>1
<1> HIDE DEF Low, High
<1>5. Low(S) /\ High(S)
  BY <1>4
<1> QED BY <1>5 DEF Low, High

-----------------------------------------------------------------------------
(* Sums over finite sets.  SumFunctionOnSet takes the elements in an order *)
(* of its choosing; any other gives the same.                              *)
Weighted(f, S) == IsFiniteSet(S) /\ \A x \in S : f[x] \in Int

Some(T) == CHOOSE x \in T : TRUE

Sums(f, S) ==
    {g \in [SUBSET S -> Int] :
        \A T \in SUBSET S : g[T] = IF T = {} THEN 0 ELSE f[Some(T)] + g[T \ {Some(T)}]}

SumStep(f, S) ==
    [g \in [SUBSET S -> Int] |->
        [T \in SUBSET S |-> IF T = {} THEN 0 ELSE f[Some(T)] + g[T \ {Some(T)}]]]

(* The subsets of a finite set are finite, and smaller without an element. *)
LEMMA SmallerSets ==
    ASSUME NEW S, IsFiniteSet(S)
    PROVE  \A T \in SUBSET S :
              /\ IsFiniteSet(T) /\ Cardinality(T) \in 0..Cardinality(S)
              /\ Cardinality(T) = 0 => T = {}
              /\ T # {} => Some(T) \in T
              /\ \A x \in T : T \ {x} \in SUBSET S /\ Cardinality(T \ {x}) = Cardinality(T) - 1
<1>1. ASSUME NEW T \in SUBSET S
      PROVE  /\ IsFiniteSet(T) /\ Cardinality(T) \in Nat /\ Cardinality(T) <= Cardinality(S)
             /\ Cardinality(T) = 0 => T = {}
  BY FS_Subset, FS_CardinalityType, FS_EmptySet
<1>2. Cardinality(S) \in Nat
  BY FS_CardinalityType
<1>3. ASSUME NEW T \in SUBSET S, NEW x \in T PROVE Cardinality(T \ {x}) = Cardinality(T) - 1
  BY <1>1, FS_RemoveElement
<1>4. \A T : T # {} => Some(T) \in T
  BY DEF Some
<1> QED BY <1>1, <1>2, <1>3, <1>4

(* A sum along an enumeration of weights exists. *)
LEMMA SumExists ==
    ASSUME NEW f, NEW S, Weighted(f, S)
    PROVE  Sums(f, S) # {}
<1> DEFINE A == [SUBSET S -> Int]
           n == Cardinality(S)
           step == [i \in 1..n |-> SumStep(f, S)]
           base == [T \in SUBSET S |-> 0]
<1>0. IsFiniteSet(S) /\ n \in Nat /\ \A x \in S : f[x] \in Int
  BY FS_CardinalityType DEF Weighted
<1>1. \A T \in SUBSET S :
         /\ Cardinality(T) \in 0..n
         /\ Cardinality(T) = 0 => T = {}
         /\ T # {} => Some(T) \in T /\ T \ {Some(T)} \in SUBSET S
                      /\ Cardinality(T \ {Some(T)}) = Cardinality(T) - 1
  BY <1>0, SmallerSets
<1>2. SumStep(f, S) \in [A -> A]
  <2> HIDE DEF n
  <2>1. ASSUME NEW g \in A, NEW T \in SUBSET S
        PROVE  (IF T = {} THEN 0 ELSE f[Some(T)] + g[T \ {Some(T)}]) \in Int
    <3>1. CASE T # {}
      <4>1. Some(T) \in S /\ T \ {Some(T)} \in SUBSET S
        BY <1>1, <3>1
      <4>2. f[Some(T)] \in Int /\ g[T \ {Some(T)}] \in Int
        BY <1>0, <4>1
      <4> QED BY <4>2
    <3> QED BY <3>1
  <2> QED BY <2>1 DEF SumStep
<1>3. base \in A /\ step \in Steps(A, n)
  <2> HIDE DEF A, n
  <2>1. step \in Steps(A, n)
    BY <1>2 DEF Steps
  <2>2. base \in [SUBSET S -> Int]
    OBVIOUS
  <2> QED BY <2>1, <2>2 DEF A
<1>4. PICK G \in Solutions(A, n, base, step) : TRUE
  <2> HIDE DEF A, n, base, step
  <2>1. Solutions(A, n, base, step) # {}
    BY <1>0, <1>3, Recursion
  <2> QED BY <2>1
<1>5. G \in [0..n -> A] /\ G[0] = base /\ \A i \in 1..n : G[i] = SumStep(f, S)[G[i - 1]]
  <2> HIDE DEF A, n, base
  <2> QED BY <1>4 DEF Solutions
<1> DEFINE g == [T \in SUBSET S |-> G[Cardinality(T)][T]]
<1>6. g \in [SUBSET S -> Int]
  <2>1. \A T \in SUBSET S : G[Cardinality(T)] \in A
    <3> HIDE DEF A, n
    <3> QED BY <1>1, <1>5
  <2>2. \A T \in SUBSET S : G[Cardinality(T)][T] \in Int
    BY <2>1
  <2> QED BY <2>2
<1>7. ASSUME NEW T \in SUBSET S
      PROVE  g[T] = IF T = {} THEN 0 ELSE f[Some(T)] + g[T \ {Some(T)}]
  <2>1. CASE T = {}
    <3>1. Cardinality(T) = 0
      BY <2>1, FS_EmptySet
    <3>2. g[T] = base[T]
      <4> HIDE DEF base
      <4> QED BY <3>1, <1>5
    <3> QED BY <2>1, <3>2
  <2>2. CASE T # {}
    <3> DEFINE x == Some(T)
               R == T \ {x}
               m == Cardinality(T)
    <3>1. R \in SUBSET S /\ Cardinality(R) = m - 1 /\ m \in 1..n /\ m - 1 \in 0..n
      <4>1. R \in SUBSET S /\ Cardinality(R) = m - 1 /\ m \in 0..n /\ m # 0
        BY <1>1, <2>2
      <4> HIDE DEF R, m, n
      <4> QED BY <4>1, <1>0
    <3>2. G[m] = SumStep(f, S)[G[m - 1]] /\ G[m - 1] \in A
      <4> HIDE DEF m, n, A, R
      <4> QED BY <3>1, <1>5
    <3>3. G[m][T] = f[x] + G[m - 1][R]
      <4> HIDE DEF m
      <4>1. SumStep(f, S)[G[m - 1]] =
               [U \in SUBSET S |-> IF U = {} THEN 0 ELSE f[Some(U)] + G[m - 1][U \ {Some(U)}]]
        BY <3>2 DEF SumStep
      <4> QED BY <4>1, <3>2, <2>2
    <3>4. g[T] = G[m][T]
      OBVIOUS
    <3>5. g[R] = G[m - 1][R]
      <4>1. g[R] = G[Cardinality(R)][R]
        BY <3>1
      <4> HIDE DEF g, R, m
      <4> QED BY <4>1, <3>1
    <3> HIDE DEF g, m
    <3> QED BY <3>3, <3>4, <3>5, <2>2
  <2> QED BY <2>1, <2>2
<1>8. g \in Sums(f, S)
  <2> HIDE DEF g
  <2> QED BY <1>6, <1>7 DEF Sums
<1> QED BY <1>8

(* The sum is one of them. *)
LEMMA SumIsOne ==
    ASSUME NEW f, NEW S, Weighted(f, S)
    PROVE  \E g \in Sums(f, S) : SumFunctionOnSet(f, S) = g[S]
<1> DEFINE Body(g) == [s \in SUBSET S |->
                          IF s = {} THEN 0
                          ELSE LET x == CHOOSE x \in s : TRUE IN f[x] + g[s \ {x}]]
           it == CHOOSE g : g = Body(g)
<1>1. SumFunctionOnSet(f, S) = it[S]
  BY DEF SumFunctionOnSet, FoldFunctionOnSet, MapThenFoldSet
<1>2. PICK g \in Sums(f, S) : TRUE
  BY SumExists
<1>3. g = Body(g)
  <2>1. g \in [SUBSET S -> Int] /\ \A T \in SUBSET S : g[T] = IF T = {} THEN 0 ELSE f[Some(T)] + g[T \ {Some(T)}]
    BY <1>2 DEF Sums
  <2>2. \A T \in SUBSET S : g[T] = Body(g)[T]
    BY <2>1 DEF Some
  <2>3. DOMAIN Body(g) = SUBSET S /\ Body(g) = [T \in SUBSET S |-> Body(g)[T]]
    OBVIOUS
  <2> HIDE DEF Body
  <2>4. g = [T \in SUBSET S |-> g[T]]
    BY <2>1
  <2> QED BY <2>2, <2>3, <2>4
<1>4. it = Body(it)
  <2> HIDE DEF Body
  <2> QED BY <1>3
<1> HIDE DEF it
<1>5. /\ it = [T \in SUBSET S |-> it[T]]
      /\ \A T \in SUBSET S : it[T] = IF T = {} THEN 0 ELSE f[Some(T)] + it[T \ {Some(T)}]
  <2>1. \A T \in SUBSET S : Body(it)[T] = IF T = {} THEN 0 ELSE f[Some(T)] + it[T \ {Some(T)}]
    BY DEF Some
  <2>2. Body(it) = [T \in SUBSET S |-> Body(it)[T]]
    OBVIOUS
  <2> HIDE DEF Body
  <2> QED BY <1>4, <2>1, <2>2
<1>6. \A T \in SUBSET S : it[T] = g[T]
  <2> DEFINE C == {T \in SUBSET S : it[T] = g[T]}
             n == Cardinality(S)
             K == {k \in 0..n : \A T \in SUBSET S : Cardinality(T) = k => it[T] = g[T]}
  <2>0. IsFiniteSet(S) /\ n \in Nat
    BY FS_CardinalityType DEF Weighted
  <2>1. \A T \in SUBSET S : g[T] = IF T = {} THEN 0 ELSE f[Some(T)] + g[T \ {Some(T)}]
    BY <1>2 DEF Sums
  <2>2. \A T \in SUBSET S :
           /\ Cardinality(T) \in 0..n
           /\ Cardinality(T) = 0 => T = {}
           /\ T # {} => Some(T) \in T /\ T \ {Some(T)} \in SUBSET S
                        /\ Cardinality(T \ {Some(T)}) = Cardinality(T) - 1
    BY <2>0, SmallerSets
  <2> HIDE DEF n
  <2>3. 0 \in K
    <3>1. \A T \in SUBSET S : T = {} => it[T] = g[T]
      <4>1. it[{}] = 0 /\ g[{}] = 0
        BY <1>5, <2>1
      <4> QED BY <4>1
    <3>2. \A T \in SUBSET S : Cardinality(T) = 0 => T = {}
      BY <2>2
    <3>3. 0 \in 0..n
      BY <2>0
    <3> QED BY <3>1, <3>2, <3>3
  <2>4. ASSUME NEW k \in 0..(n - 1), k \in K PROVE k + 1 \in K
    <3>1. ASSUME NEW T \in SUBSET S, Cardinality(T) = k + 1 PROVE it[T] = g[T]
      <4>1. CASE T = {}
        BY <4>1, <1>5, <2>1
      <4>2. CASE T # {}
        <5> DEFINE R == T \ {Some(T)}
        <5>1. R \in SUBSET S /\ Cardinality(R) = k
          BY <4>2, <2>2, <3>1
        <5>2. it[T] = f[Some(T)] + it[R] /\ g[T] = f[Some(T)] + g[R]
          BY <4>2, <1>5, <2>1
        <5> HIDE DEF R
        <5>3. it[R] = g[R]
          BY <5>1, <2>4
        <5> QED BY <5>2, <5>3
      <4> QED BY <4>1, <4>2
    <3>2. k + 1 \in 0..n
      BY <2>0
    <3> QED BY <3>1, <3>2
  <2>5. \A k \in 0..n : k \in K
    <3> HIDE DEF K
    <3> QED BY <2>0, <2>3, <2>4, NatUpTo
  <2>6. ASSUME NEW T \in SUBSET S PROVE it[T] = g[T]
    BY <2>2, <2>5
  <2> QED BY <2>6
<1>7. it[S] = g[S]
  BY <1>6
<1> QED BY <1>1, <1>2, <1>7

AnyFirst(f, g, S) == \A T \in SUBSET S : \A x \in T : g[T] = f[x] + g[T \ {x}]

(* The first element taken does not matter. *)
LEMMA SumsInAnyOrder ==
    ASSUME NEW f, NEW S, Weighted(f, S), NEW g \in Sums(f, S)
    PROVE  AnyFirst(f, g, S)
<1> DEFINE n == Cardinality(S)
           Free(T) == \A x \in T : g[T] = f[x] + g[T \ {x}]
           K == {k \in 0..n : \A T \in SUBSET S : Cardinality(T) = k => Free(T)}
<1>0. IsFiniteSet(S) /\ n \in Nat /\ \A x \in S : f[x] \in Int
  BY FS_CardinalityType DEF Weighted
<1>1. /\ g \in [SUBSET S -> Int]
      /\ \A T \in SUBSET S : g[T] = IF T = {} THEN 0 ELSE f[Some(T)] + g[T \ {Some(T)}]
  BY DEF Sums
<1>2. \A T \in SUBSET S :
         /\ Cardinality(T) \in 0..n
         /\ Cardinality(T) = 0 => T = {}
         /\ T # {} => Some(T) \in T
         /\ \A x \in T : T \ {x} \in SUBSET S /\ Cardinality(T \ {x}) = Cardinality(T) - 1
  BY <1>0, SmallerSets
<1> HIDE DEF n
<1>3. 0 \in K
  <2>1. \A T \in SUBSET S : Cardinality(T) = 0 => Free(T)
    BY <1>2
  <2>2. 0 \in 0..n
    BY <1>0
  <2> HIDE DEF Free
  <2> QED BY <2>1, <2>2
<1>4. ASSUME NEW k \in 0..(n - 1), k \in K PROVE k + 1 \in K
  <2>1. ASSUME NEW T \in SUBSET S, Cardinality(T) = k + 1, NEW x \in T
        PROVE  g[T] = f[x] + g[T \ {x}]
    <3> DEFINE c == Some(T)
               R == T \ {c}
               Q == T \ {x}
               P == R \ {x}
    <3>1. c \in T /\ R \in SUBSET S /\ Q \in SUBSET S /\ Cardinality(R) = k /\ Cardinality(Q) = k
      BY <1>2, <2>1
    <3>2. g[T] = f[c] + g[R]
      BY <1>1, <2>1
    <3>3. CASE x = c
      BY <3>2, <3>3
    <3>4. CASE x # c
      <4>1. Free(R) /\ Free(Q)
        <5> HIDE DEF R, Q, Free
        <5> QED BY <3>1, <1>4
      <4>2. x \in R /\ c \in Q /\ Q \ {c} = P
        BY <3>1, <3>4
      <4>3. g[R] = f[x] + g[P] /\ g[Q] = f[c] + g[P]
        <5> HIDE DEF R, Q
        <5>1. g[R] = f[x] + g[R \ {x}]
          BY <4>1, <4>2
        <5>2. g[Q] = f[c] + g[Q \ {c}]
          BY <4>1, <4>2
        <5> QED BY <5>1, <5>2, <4>2
      <4>4. f[x] \in Int /\ f[c] \in Int /\ g[P] \in Int
        <5>1. x \in S /\ c \in S /\ P \in SUBSET S
          BY <3>1
        <5> QED BY <5>1, <1>0, <1>1
      <4> HIDE DEF R, Q, P, c
      <4>5. g[T] = f[c] + (f[x] + g[P])
        BY <3>2, <4>3
      <4>6. f[x] + g[Q] = f[x] + (f[c] + g[P])
        BY <4>3
      <4>7. g[T] = f[x] + g[Q]
        BY <4>4, <4>5, <4>6
      <4> QED BY <4>7 DEF Q
    <3> QED BY <3>3, <3>4
  <2>2. k + 1 \in 0..n
    BY <1>0
  <2> QED BY <2>1, <2>2
<1>5. \A k \in 0..n : k \in K
  <2> HIDE DEF K
  <2> QED BY <1>0, <1>3, <1>4, NatUpTo
<1>6. \A T \in SUBSET S : \A x \in T : g[T] = f[x] + g[T \ {x}]
  BY <1>2, <1>5
<1> QED BY <1>6 DEF AnyFirst

(* Sums over a set agree on what the two have in common. *)
LEMMA SumsAgree ==
    ASSUME NEW f, NEW U, NEW S \in SUBSET U, Weighted(f, U), NEW g \in Sums(f, U), NEW h \in Sums(f, S)
    PROVE  \A T \in SUBSET S : g[T] = h[T]
<1> DEFINE C == {T \in SUBSET S : g[T] = h[T]}
<1>1. IsFiniteSet(S) /\ Weighted(f, S)
  BY FS_Subset DEF Weighted
<1>2. \A T \in SUBSET U : \A x \in T : g[T] = f[x] + g[T \ {x}]
  <2>1. AnyFirst(f, g, U)
    BY SumsInAnyOrder
  <2> QED BY <2>1 DEF AnyFirst
<1>3. \A T \in SUBSET S : \A x \in T : h[T] = f[x] + h[T \ {x}]
  <2>1. AnyFirst(f, h, S)
    BY <1>1, SumsInAnyOrder
  <2> QED BY <2>1 DEF AnyFirst
<1>4. {} \in C
  <2>1. g[{}] = 0 /\ h[{}] = 0
    BY DEF Sums
  <2> QED BY <2>1
<1>5. ASSUME NEW T \in SUBSET S, NEW x \in S, x \notin T, T \in C PROVE T \cup {x} \in C
  <2> DEFINE V == T \cup {x}
  <2>1. V \in SUBSET S /\ V \in SUBSET U /\ x \in V /\ V \ {x} = T
    BY <1>5
  <2> HIDE DEF V
  <2>2. g[V] = f[x] + g[T] /\ h[V] = f[x] + h[T]
    <3>1. g[V] = f[x] + g[V \ {x}]
      BY <2>1, <1>2
    <3>2. h[V] = f[x] + h[V \ {x}]
      BY <2>1, <1>3
    <3> QED BY <3>1, <3>2, <2>1
  <2>3. g[V] = h[V]
    BY <2>2, <1>5
  <2> QED BY <2>1, <2>3 DEF V
<1>6. \A T \in SUBSET S, x \in S : x \notin T /\ T \in C => T \cup {x} \in C
  BY <1>5
<1>7. \A T \in SUBSET S : T \in C
  <2> HIDE DEF C
  <2> QED BY <1>1, <1>4, <1>6, FiniteUpTo
<1>8. ASSUME NEW T \in SUBSET S PROVE g[T] = h[T]
  <2>1. T \in C
    BY <1>7
  <2> QED BY <2>1
<1> QED BY <1>8

(* Nothing sums to zero. *)
LEMMA SumNothing ==
    ASSUME NEW f
    PROVE  SumFunctionOnSet(f, {}) = 0
<1>1. Weighted(f, {})
  BY FS_EmptySet DEF Weighted
<1>2. PICK g \in Sums(f, {}) : SumFunctionOnSet(f, {}) = g[{}]
  BY <1>1, SumIsOne
<1>3. g[{}] = 0
  BY <1>2 DEF Sums
<1> QED BY <1>2, <1>3

(* Sums are numbers. *)
LEMMA SumIsInt ==
    ASSUME NEW f, NEW S, Weighted(f, S)
    PROVE  SumFunctionOnSet(f, S) \in Int
<1>1. PICK g \in Sums(f, S) : SumFunctionOnSet(f, S) = g[S]
  BY SumIsOne
<1>2. g[S] \in Int
  BY <1>1 DEF Sums
<1> QED BY <1>1, <1>2

(* An element adds its weight. *)
LEMMA SumAdds ==
    ASSUME NEW f, NEW S, NEW x, Weighted(f, S \cup {x}), x \notin S
    PROVE  SumFunctionOnSet(f, S \cup {x}) = f[x] + SumFunctionOnSet(f, S)
<1> DEFINE U == S \cup {x}
<1>1. U \ {x} = S /\ x \in U /\ S \in SUBSET U /\ Weighted(f, U)
  OBVIOUS
<1> HIDE DEF U
<1>2. Weighted(f, S)
  BY <1>1, FS_Subset DEF Weighted
<1>3. PICK g \in Sums(f, U) : SumFunctionOnSet(f, U) = g[U]
  BY <1>1, SumIsOne
<1>4. PICK h \in Sums(f, S) : SumFunctionOnSet(f, S) = h[S]
  BY <1>2, SumIsOne
<1>5. g[S] = h[S]
  <2>1. \A T \in SUBSET S : g[T] = h[T]
    BY <1>1, <1>3, <1>4, SumsAgree
  <2> QED BY <2>1
<1>6. g[U] = f[x] + g[S]
  <2>1. \A T \in SUBSET U : \A y \in T : g[T] = f[y] + g[T \ {y}]
    <3>1. AnyFirst(f, g, U)
      BY <1>1, <1>3, SumsInAnyOrder
    <3> QED BY <3>1 DEF AnyFirst
  <2>2. g[U] = f[x] + g[U \ {x}]
    BY <2>1, <1>1
  <2> QED BY <2>2, <1>1
<1>7. SumFunctionOnSet(f, U) = f[x] + SumFunctionOnSet(f, S)
  BY <1>3, <1>4, <1>5, <1>6
<1> QED BY <1>7 DEF U

(* Weights of a set are weights of its subsets. *)
LEMMA PartWeighted ==
    ASSUME NEW f, NEW S, Weighted(f, S), NEW T \in SUBSET S
    PROVE  Weighted(f, T)
BY FS_Subset DEF Weighted

(* The same weights have the same sum. *)
LEMMA SumSame ==
    ASSUME NEW f, NEW g, NEW S, Weighted(f, S), \A x \in S : g[x] = f[x]
    PROVE  SumFunctionOnSet(g, S) = SumFunctionOnSet(f, S)
<1> DEFINE C == {T \in SUBSET S : SumFunctionOnSet(g, T) = SumFunctionOnSet(f, T)}
<1>1. IsFiniteSet(S) /\ Weighted(g, S)
  BY DEF Weighted
<1>2. {} \in C
  BY SumNothing
<1>3. ASSUME NEW T \in SUBSET S, NEW x \in S, x \notin T, T \in C PROVE T \cup {x} \in C
  <2> DEFINE U == T \cup {x}
  <2>1. U \in SUBSET S
    OBVIOUS
  <2>2. Weighted(f, U) /\ Weighted(g, U)
    <3> HIDE DEF U
    <3> QED BY <1>1, <2>1, PartWeighted
  <2>3. SumFunctionOnSet(f, U) = f[x] + SumFunctionOnSet(f, T)
    BY <1>3, <2>2, SumAdds
  <2>4. SumFunctionOnSet(g, U) = g[x] + SumFunctionOnSet(g, T)
    BY <1>3, <2>2, SumAdds
  <2>5. SumFunctionOnSet(g, T) = SumFunctionOnSet(f, T) /\ g[x] = f[x]
    BY <1>3
  <2> HIDE DEF U
  <2>6. SumFunctionOnSet(g, U) = SumFunctionOnSet(f, U)
    BY <2>3, <2>4, <2>5
  <2> QED BY <2>1, <2>6 DEF U
<1>4. \A T \in SUBSET S, x \in S : x \notin T /\ T \in C => T \cup {x} \in C
  BY <1>3
<1>5. S \in C
  <2> HIDE DEF C
  <2> QED BY <1>1, <1>2, <1>4, FiniteUpTo
<1> QED BY <1>5

(* Weights added one by one add their sums. *)
LEMMA SumPlus ==
    ASSUME NEW f, NEW g, NEW h, NEW S, Weighted(f, S), Weighted(g, S),
           \A x \in S : h[x] = f[x] + g[x]
    PROVE  Weighted(h, S) /\ SumFunctionOnSet(h, S) = SumFunctionOnSet(f, S) + SumFunctionOnSet(g, S)
<1> DEFINE C == {T \in SUBSET S : SumFunctionOnSet(h, T) = SumFunctionOnSet(f, T) + SumFunctionOnSet(g, T)}
<1>1. IsFiniteSet(S) /\ Weighted(h, S)
  BY DEF Weighted
<1>2. {} \in C
  <2>1. SumFunctionOnSet(h, {}) = 0 /\ SumFunctionOnSet(f, {}) = 0 /\ SumFunctionOnSet(g, {}) = 0
    BY SumNothing
  <2> QED BY <2>1
<1>3. ASSUME NEW T \in SUBSET S, NEW x \in S, x \notin T, T \in C PROVE T \cup {x} \in C
  <2> DEFINE U == T \cup {x}
             F == SumFunctionOnSet(f, T)
             G == SumFunctionOnSet(g, T)
  <2>1. U \in SUBSET S
    OBVIOUS
  <2>2. Weighted(f, U) /\ Weighted(g, U) /\ Weighted(h, U) /\ Weighted(f, T) /\ Weighted(g, T)
    <3> HIDE DEF U
    <3> QED BY <1>1, <2>1, PartWeighted
  <2>3. SumFunctionOnSet(f, U) = f[x] + F
    BY <1>3, <2>2, SumAdds
  <2>4. SumFunctionOnSet(g, U) = g[x] + G
    BY <1>3, <2>2, SumAdds
  <2>5. SumFunctionOnSet(h, U) = h[x] + SumFunctionOnSet(h, T)
    BY <1>3, <2>2, SumAdds
  <2>6. SumFunctionOnSet(h, T) = F + G /\ h[x] = f[x] + g[x]
    BY <1>3
  <2>7. F \in Int /\ G \in Int /\ f[x] \in Int /\ g[x] \in Int
    <3>1. F \in Int
      BY <2>2, SumIsInt
    <3>2. G \in Int
      BY <2>2, SumIsInt
    <3> QED BY <3>1, <3>2 DEF Weighted
  <2> HIDE DEF U, F, G
  <2>8. SumFunctionOnSet(h, U) = SumFunctionOnSet(f, U) + SumFunctionOnSet(g, U)
    BY <2>3, <2>4, <2>5, <2>6, <2>7
  <2> QED BY <2>1, <2>8 DEF U
<1>4. \A T \in SUBSET S, x \in S : x \notin T /\ T \in C => T \cup {x} \in C
  BY <1>3
<1>5. S \in C
  <2> HIDE DEF C
  <2> QED BY <1>1, <1>2, <1>4, FiniteUpTo
<1> QED BY <1>1, <1>5

(* Two sets with nothing in common add their sums. *)
LEMMA SumDisjoint ==
    ASSUME NEW f, NEW R, NEW S, Weighted(f, R \cup S), R \cap S = {}
    PROVE  SumFunctionOnSet(f, R \cup S) = SumFunctionOnSet(f, R) + SumFunctionOnSet(f, S)
<1> DEFINE Split(T) == SumFunctionOnSet(f, R \cup T) = SumFunctionOnSet(f, R) + SumFunctionOnSet(f, T)
           C == {T \in SUBSET S : Split(T)}
           A == R \cup S
<1>0. R \in SUBSET A /\ S \in SUBSET A /\ \A T \in SUBSET S : R \cup T \in SUBSET A
  OBVIOUS
<1>1. Weighted(f, R) /\ Weighted(f, S) /\ IsFiniteSet(S)
  <2>1. Weighted(f, A)
    OBVIOUS
  <2> HIDE DEF A
  <2>2. Weighted(f, R) /\ Weighted(f, S)
    BY <1>0, <2>1, PartWeighted
  <2> QED BY <2>2 DEF Weighted
<1>2. {} \in C
  <2>1. SumFunctionOnSet(f, {}) = 0 /\ SumFunctionOnSet(f, R) \in Int /\ R \cup {} = R
    BY <1>1, SumNothing, SumIsInt
  <2>2. Split({})
    BY <2>1
  <2> QED BY <2>2
<1>3. ASSUME NEW T \in SUBSET S, NEW x \in S, x \notin T, T \in C PROVE T \cup {x} \in C
  <2> DEFINE U == T \cup {x}
             V == R \cup T
             W == V \cup {x}
  <2>1. U \in SUBSET S /\ x \notin V /\ R \cup U = W
    BY <1>3
  <2>2. Weighted(f, U) /\ Weighted(f, W) /\ Weighted(f, T)
    <3>1. Weighted(f, A)
      OBVIOUS
    <3>2. U \in SUBSET A /\ W \in SUBSET A /\ T \in SUBSET A
      OBVIOUS
    <3> HIDE DEF U, W, A
    <3> QED BY <3>1, <3>2, PartWeighted
  <2>3. SumFunctionOnSet(f, U) = f[x] + SumFunctionOnSet(f, T)
    BY <1>3, <2>2, SumAdds
  <2>4. SumFunctionOnSet(f, W) = f[x] + SumFunctionOnSet(f, V)
    <3> HIDE DEF V
    <3> QED BY <2>1, <2>2, SumAdds
  <2>5. SumFunctionOnSet(f, V) = SumFunctionOnSet(f, R) + SumFunctionOnSet(f, T)
    BY <1>3
  <2>6. SumFunctionOnSet(f, R) \in Int /\ SumFunctionOnSet(f, T) \in Int /\ f[x] \in Int
    <3>1. SumFunctionOnSet(f, R) \in Int
      BY <1>1, SumIsInt
    <3>2. SumFunctionOnSet(f, T) \in Int
      BY <2>2, SumIsInt
    <3> QED BY <3>1, <3>2, <1>1 DEF Weighted
  <2>7. Split(U)
    <3>1. SumFunctionOnSet(f, W) = SumFunctionOnSet(f, R) + SumFunctionOnSet(f, U)
      <4> HIDE DEF U, V, W
      <4> QED BY <2>3, <2>4, <2>5, <2>6
    <3> QED BY <3>1, <2>1
  <2> HIDE DEF Split
  <2> QED BY <2>1, <2>7
<1>4. \A T \in SUBSET S, x \in S : x \notin T /\ T \in C => T \cup {x} \in C
  BY <1>3
<1>5. S \in C
  <2> HIDE DEF C
  <2> QED BY <1>1, <1>2, <1>4, FiniteUpTo
<1> QED BY <1>5

(* Weights that are all zero. *)
LEMMA SumZero ==
    ASSUME NEW f, NEW S, IsFiniteSet(S), \A x \in S : f[x] = 0
    PROVE  SumFunctionOnSet(f, S) = 0
<1> DEFINE s == SumFunctionOnSet(f, S)
<1>1. Weighted(f, S)
  BY DEF Weighted
<1>2. \A x \in S : f[x] = f[x] + f[x]
  OBVIOUS
<1>3. s = s + s
  BY <1>1, <1>2, SumPlus
<1>4. s \in Int
  BY <1>1, SumIsInt
<1>5. s = 0
  <2> HIDE DEF s
  <2> QED BY <1>3, <1>4
<1> QED BY <1>5

(* A sum of naturals is no smaller than any of them. *)
LEMMA SumNat ==
    ASSUME NEW f, NEW S, IsFiniteSet(S), \A x \in S : f[x] \in Nat
    PROVE  /\ SumFunctionOnSet(f, S) \in Nat
           /\ \A x \in S : f[x] <= SumFunctionOnSet(f, S)
<1> DEFINE C == {T \in SUBSET S : SumFunctionOnSet(f, T) \in Nat}
<1>1. Weighted(f, S)
  BY DEF Weighted
<1>2. {} \in C
  BY SumNothing
<1>3. ASSUME NEW T \in SUBSET S, NEW x \in S, x \notin T, T \in C PROVE T \cup {x} \in C
  <2> DEFINE U == T \cup {x}
  <2>1. U \in SUBSET S
    OBVIOUS
  <2>2. Weighted(f, U)
    BY <1>1, <2>1, PartWeighted
  <2>3. SumFunctionOnSet(f, U) = f[x] + SumFunctionOnSet(f, T)
    BY <1>3, <2>2, SumAdds
  <2>4. SumFunctionOnSet(f, T) \in Nat /\ f[x] \in Nat
    BY <1>3
  <2> HIDE DEF U
  <2>5. SumFunctionOnSet(f, U) \in Nat
    BY <2>3, <2>4
  <2> QED BY <2>1, <2>5 DEF U
<1>4. \A T \in SUBSET S, x \in S : x \notin T /\ T \in C => T \cup {x} \in C
  BY <1>3
<1>5. \A T \in SUBSET S : T \in C
  <2> HIDE DEF C
  <2> QED BY <1>2, <1>4, FiniteUpTo
<1>6. ASSUME NEW x \in S PROVE f[x] <= SumFunctionOnSet(f, S)
  <2> DEFINE R == S \ {x}
  <2>1. R \cup {x} = S /\ R \in SUBSET S /\ x \notin R
    OBVIOUS
  <2>2. R \in C
    BY <1>5, <2>1
  <2>3. SumFunctionOnSet(f, R) \in Nat
    BY <2>2
  <2> HIDE DEF R
  <2>4. Weighted(f, R \cup {x})
    BY <2>1, <1>1
  <2>5. SumFunctionOnSet(f, R \cup {x}) = f[x] + SumFunctionOnSet(f, R)
    BY <2>1, <2>4, SumAdds
  <2>6. SumFunctionOnSet(f, S) = f[x] + SumFunctionOnSet(f, R)
    BY <2>1, <2>5
  <2> DEFINE s == SumFunctionOnSet(f, S)
             r == SumFunctionOnSet(f, R)
  <2>7. s = f[x] + r /\ r \in Nat /\ f[x] \in Nat
    BY <2>3, <2>6
  <2> HIDE DEF s, r
  <2>8. f[x] <= s
    BY <2>7
  <2> QED BY <2>8 DEF s
<1>7. S \in C
  BY <1>5
<1> QED BY <1>6, <1>7

-----------------------------------------------------------------------------
(* Bags of numbers: the bins, and what was observed. *)
NumberBag(a) ==
    /\ IsFiniteSet(DOMAIN a)
    /\ DOMAIN a \subseteq Int
    /\ \A x \in DOMAIN a : a[x] \in Nat \ {0}
    /\ a = [x \in DOMAIN a |-> a[x]]

At(a, x) == IF x \in DOMAIN a THEN a[x] ELSE 0

Count(a, S) == SumFunctionOnSet(a, DOMAIN a \cap S)

Value(a) == SumFunction([x \in DOMAIN a |-> x * a[x]])

Wide(a, D) == [x \in D |-> At(a, x)]

(* A bag gives weights to the elements it has of a set, finitely many. *)
LEMMA BagWeighted ==
    ASSUME NEW a, NumberBag(a), NEW S
    PROVE  Weighted(a, DOMAIN a \cap S) /\ IsFiniteSet(DOMAIN a \cap S)
<1>1. IsFiniteSet(DOMAIN a \cap S)
  BY FS_Subset DEF NumberBag
<1> QED BY <1>1 DEF NumberBag, Weighted

(* The weights g on D are those of f on E, and zero elsewhere. *)
Extends(g, D, f, E) ==
    /\ E \subseteq D
    /\ \A x \in E : f[x] \in Int
    /\ \A x \in D : g[x] = IF x \in E THEN f[x] ELSE 0

(* Weights of zero add nothing. *)
LEMMA WideSum ==
    ASSUME NEW f, NEW D, NEW E, NEW g, IsFiniteSet(D), Extends(g, D, f, E)
    PROVE  Weighted(g, D) /\ SumFunctionOnSet(f, E) = SumFunctionOnSet(g, D)
<1> DEFINE Z == D \ E
<1>0. E \subseteq D /\ (\A x \in E : f[x] \in Int) /\ \A x \in D : g[x] = IF x \in E THEN f[x] ELSE 0
  BY DEF Extends
<1>1. Weighted(g, D) /\ D = E \cup Z /\ E \cap Z = {}
  BY <1>0 DEF Weighted
<1>2. IsFiniteSet(E) /\ IsFiniteSet(Z)
  BY <1>0, FS_Subset
<1>3. Weighted(f, E) /\ \A x \in E : g[x] = f[x]
  BY <1>0, <1>2 DEF Weighted
<1>4. SumFunctionOnSet(g, E) = SumFunctionOnSet(f, E)
  BY <1>3, SumSame
<1>5. SumFunctionOnSet(g, Z) = 0
  <2>1. \A x \in Z : g[x] = 0
    BY <1>0
  <2> HIDE DEF Z
  <2> QED BY <1>2, <2>1, SumZero
<1> HIDE DEF Z
<1>6. SumFunctionOnSet(g, E \cup Z) = SumFunctionOnSet(g, E) + SumFunctionOnSet(g, Z)
  <2>1. Weighted(g, E \cup Z)
    BY <1>1
  <2> QED BY <2>1, <1>1, SumDisjoint
<1>7. SumFunctionOnSet(f, E) \in Int
  BY <1>3, SumIsInt
<1> QED BY <1>1, <1>4, <1>5, <1>6, <1>7

(* Adding bags adds the numbers of each element. *)
LEMMA PlusBag ==
    ASSUME NEW a, NEW b, NumberBag(a), NumberBag(b)
    PROVE  /\ NumberBag(a (+) b)
           /\ DOMAIN (a (+) b) = DOMAIN a \cup DOMAIN b
           /\ \A x : At(a (+) b, x) = At(a, x) + At(b, x)
<1>1. a (+) b = [e \in DOMAIN a \cup DOMAIN b |->
                   (IF e \in DOMAIN a THEN a[e] ELSE 0) + (IF e \in DOMAIN b THEN b[e] ELSE 0)]
  BY DEF (+)
<1>2. DOMAIN (a (+) b) = DOMAIN a \cup DOMAIN b
  BY <1>1
<1>3. IsFiniteSet(DOMAIN a \cup DOMAIN b)
  BY FS_Union DEF NumberBag
<1>4. \A x \in DOMAIN a \cup DOMAIN b : (a (+) b)[x] = At(a, x) + At(b, x)
  BY <1>1 DEF At
<1>5. \A x : At(a, x) \in Nat /\ At(b, x) \in Nat /\ (x \in DOMAIN a => At(a, x) > 0) /\ (x \in DOMAIN b => At(b, x) > 0)
  BY DEF At, NumberBag
<1>6. a (+) b = [x \in DOMAIN (a (+) b) |-> (a (+) b)[x]]
  BY <1>1
<1>7. DOMAIN a \cup DOMAIN b \subseteq Int
  BY DEF NumberBag
<1> DEFINE c == a (+) b
<1> HIDE DEF c
<1>8. NumberBag(c)
  BY <1>2, <1>3, <1>4, <1>5, <1>6, <1>7 DEF NumberBag, c
<1>9. ASSUME NEW x PROVE At(c, x) = At(a, x) + At(b, x)
  <2>1. CASE x \in DOMAIN a \cup DOMAIN b
    <3>1. At(c, x) = c[x]
      BY <2>1, <1>2 DEF At, c
    <3> QED BY <3>1, <2>1, <1>4 DEF c
  <2>2. CASE x \notin DOMAIN a \cup DOMAIN b
    BY <2>2, <1>2 DEF At, c
  <2> QED BY <2>1, <2>2
<1> QED BY <1>2, <1>8, <1>9 DEF c

(* What a bag has of a set is a number, and at least what it has of each element. *)
LEMMA CountIsNat ==
    ASSUME NEW a, NumberBag(a), NEW S
    PROVE  Count(a, S) \in Nat /\ \A x \in DOMAIN a \cap S : a[x] <= Count(a, S)
<1> DEFINE T == DOMAIN a \cap S
<1>1. IsFiniteSet(T)
  BY BagWeighted
<1>2. \A x \in T : a[x] \in Nat
  BY DEF NumberBag
<1> HIDE DEF T
<1>3. SumFunctionOnSet(a, T) \in Nat /\ \A x \in T : a[x] <= SumFunctionOnSet(a, T)
  BY <1>1, <1>2, SumNat
<1> QED BY <1>3 DEF Count, T

(* Counts of the union of two bags. *)
LEMMA CountPlus ==
    ASSUME NEW a, NEW b, NumberBag(a), NumberBag(b), NEW S
    PROVE  Count(a (+) b, S) = Count(a, S) + Count(b, S)
<1> DEFINE c == a (+) b
           D == DOMAIN c \cap S
           f == [x \in D |-> At(a, x)]
           g == [x \in D |-> At(b, x)]
           h == [x \in D |-> At(c, x)]
<1>1. NumberBag(c) /\ DOMAIN c = DOMAIN a \cup DOMAIN b /\ \A x : At(c, x) = At(a, x) + At(b, x)
  BY PlusBag
<1> HIDE DEF c
<1>2. IsFiniteSet(D)
  BY <1>1, BagWeighted
<1>3. DOMAIN a \cap S \in SUBSET D /\ DOMAIN b \cap S \in SUBSET D
  BY <1>1
<1>4. Weighted(f, D) /\ SumFunctionOnSet(a, DOMAIN a \cap S) = SumFunctionOnSet(f, D)
  <2>1. \A x \in D : f[x] = IF x \in DOMAIN a \cap S THEN a[x] ELSE 0
    BY DEF At
  <2>2. \A x \in DOMAIN a \cap S : a[x] \in Int
    BY DEF NumberBag
  <2> DEFINE E == DOMAIN a \cap S
  <2>3. Extends(f, D, a, E)
    BY <1>3, <2>1, <2>2 DEF Extends
  <2> HIDE DEF f, D, E
  <2>4. Weighted(f, D) /\ SumFunctionOnSet(a, E) = SumFunctionOnSet(f, D)
    BY <1>2, <2>3, WideSum
  <2> QED BY <2>4 DEF E
<1>5. Weighted(g, D) /\ SumFunctionOnSet(b, DOMAIN b \cap S) = SumFunctionOnSet(g, D)
  <2>1. \A x \in D : g[x] = IF x \in DOMAIN b \cap S THEN b[x] ELSE 0
    BY DEF At
  <2>2. \A x \in DOMAIN b \cap S : b[x] \in Int
    BY DEF NumberBag
  <2> DEFINE E == DOMAIN b \cap S
  <2>3. Extends(g, D, b, E)
    BY <1>3, <2>1, <2>2 DEF Extends
  <2> HIDE DEF g, D, E
  <2>4. Weighted(g, D) /\ SumFunctionOnSet(b, E) = SumFunctionOnSet(g, D)
    BY <1>2, <2>3, WideSum
  <2> QED BY <2>4 DEF E
<1>6. \A x \in D : c[x] = f[x] + g[x]
  BY <1>1 DEF At
<1>7. SumFunctionOnSet(c, D) = SumFunctionOnSet(f, D) + SumFunctionOnSet(g, D)
  <2> HIDE DEF f, g, D
  <2> QED BY <1>4, <1>5, <1>6, SumPlus
<1> QED BY <1>4, <1>5, <1>7 DEF Count, c

(* Counts of two kinds that exclude each other. *)
LEMMA CountDisjoint ==
    ASSUME NEW a, NumberBag(a), NEW R, NEW S, R \cap S = {}
    PROVE  Count(a, R \cup S) = Count(a, R) + Count(a, S)
<1> DEFINE X == DOMAIN a \cap R
           Y == DOMAIN a \cap S
           Z == DOMAIN a \cap (R \cup S)
<1>1. X \cap Y = {} /\ Z = X \cup Y /\ Weighted(a, Z)
  <2>1. Weighted(a, Z)
    BY BagWeighted
  <2> QED BY <2>1
<1>2. Count(a, R) = SumFunctionOnSet(a, X) /\ Count(a, S) = SumFunctionOnSet(a, Y) /\ Count(a, R \cup S) = SumFunctionOnSet(a, Z)
  BY DEF Count
<1> HIDE DEF X, Y, Z
<1>3. SumFunctionOnSet(a, X \cup Y) = SumFunctionOnSet(a, X) + SumFunctionOnSet(a, Y)
  <2>1. Weighted(a, X \cup Y)
    BY <1>1
  <2> QED BY <1>1, <2>1, SumDisjoint
<1> QED BY <1>1, <1>2, <1>3

(* A bag has nothing of a set that is apart from it. *)
LEMMA CountNone ==
    ASSUME NEW a, NEW S, DOMAIN a \cap S = {}
    PROVE  Count(a, S) = 0
BY SumNothing DEF Count

(* Only what occurs is counted. *)
LEMMA CountCommon ==
    ASSUME NEW a, NEW R, NEW S, DOMAIN a \cap R = DOMAIN a \cap S
    PROVE  Count(a, R) = Count(a, S)
BY DEF Count

(* The cardinality of a bag counts all there is. *)
LEMMA CountAll ==
    ASSUME NEW a, NumberBag(a)
    PROVE  SumFunction(a) = Count(a, Int)
<1>1. DOMAIN a \cap Int = DOMAIN a
  BY DEF NumberBag
<1> QED BY <1>1 DEF Count, SumFunction

(* The values of the union of two bags. *)
LEMMA ValuePlus ==
    ASSUME NEW a, NEW b, NumberBag(a), NumberBag(b)
    PROVE  /\ Value(a) \in Int
           /\ Value(a (+) b) = Value(a) + Value(b)
<1> DEFINE c == a (+) b
           D == DOMAIN c
           A == [x \in DOMAIN a |-> x * a[x]]
           B == [x \in DOMAIN b |-> x * b[x]]
           C == [x \in DOMAIN c |-> x * c[x]]
           f == [x \in D |-> x * At(a, x)]
           g == [x \in D |-> x * At(b, x)]
<1>1. NumberBag(c) /\ DOMAIN c = DOMAIN a \cup DOMAIN b /\ \A x : At(c, x) = At(a, x) + At(b, x)
  BY PlusBag
<1>2. Value(a) = SumFunctionOnSet(A, DOMAIN a) /\ Value(b) = SumFunctionOnSet(B, DOMAIN b)
      /\ Value(c) = SumFunctionOnSet(C, D)
  BY DEF Value, SumFunction
<1> HIDE DEF c
<1>3. IsFiniteSet(D) /\ DOMAIN a \in SUBSET D /\ DOMAIN b \in SUBSET D /\ D \subseteq Int
  BY <1>1 DEF NumberBag
<1>4. /\ \A x \in DOMAIN a : x \in Int /\ a[x] \in Int
      /\ \A x \in DOMAIN b : x \in Int /\ b[x] \in Int
  BY DEF NumberBag
<1>4a. /\ \A x \in DOMAIN a : A[x] \in Int
       /\ \A x \in DOMAIN b : B[x] \in Int
  BY <1>4
<1>5. Weighted(f, D) /\ SumFunctionOnSet(A, DOMAIN a) = SumFunctionOnSet(f, D)
  <2>1. \A x \in D : f[x] = IF x \in DOMAIN a THEN A[x] ELSE 0
    BY <1>3, <1>4 DEF At
  <2> DEFINE E == DOMAIN a
  <2>3. Extends(f, D, A, E)
    BY <1>3, <1>4a, <2>1 DEF Extends
  <2> HIDE DEF f, D, A, E
  <2>4. Weighted(f, D) /\ SumFunctionOnSet(A, E) = SumFunctionOnSet(f, D)
    BY <1>3, <2>3, WideSum
  <2> QED BY <2>4 DEF E
<1>6. Weighted(g, D) /\ SumFunctionOnSet(B, DOMAIN b) = SumFunctionOnSet(g, D)
  <2>1. \A x \in D : g[x] = IF x \in DOMAIN b THEN B[x] ELSE 0
    BY <1>3, <1>4 DEF At
  <2> DEFINE E == DOMAIN b
  <2>3. Extends(g, D, B, E)
    BY <1>3, <1>4a, <2>1 DEF Extends
  <2> HIDE DEF g, D, B, E
  <2>4. Weighted(g, D) /\ SumFunctionOnSet(B, E) = SumFunctionOnSet(g, D)
    BY <1>3, <2>3, WideSum
  <2> QED BY <2>4 DEF E
<1>7. ASSUME NEW x \in D PROVE C[x] = f[x] + g[x]
  <2>1. x \in Int /\ At(a, x) \in Int /\ At(b, x) \in Int
    BY <1>3, <1>4 DEF At
  <2>2. c[x] = At(a, x) + At(b, x)
    BY <1>1 DEF At
  <2> DEFINE p == At(a, x)
             q == At(b, x)
  <2> HIDE DEF p, q
  <2>3. x * (p + q) = x * p + x * q
    BY <2>1 DEF p, q
  <2>4. C[x] = x * (p + q) /\ f[x] = x * p /\ g[x] = x * q
    BY <2>2 DEF p, q
  <2> HIDE DEF C, f, g
  <2> QED BY <2>3, <2>4
<1>8. SumFunctionOnSet(C, D) = SumFunctionOnSet(f, D) + SumFunctionOnSet(g, D)
  <2> HIDE DEF f, g, D, C
  <2> QED BY <1>5, <1>6, <1>7, SumPlus
<1>9. SumFunctionOnSet(f, D) \in Int
  <2> HIDE DEF f, D
  <2> QED BY <1>5, SumIsInt
<1> HIDE DEF A, B, C, D, f, g
<1>10. Value(a) \in Int /\ Value(c) = Value(a) + Value(b)
  BY <1>2, <1>5, <1>6, <1>8, <1>9
<1> QED BY <1>10 DEF c

(* One observation, and none. *)
LEMMA OneBag ==
    ASSUME NEW x \in Int
    PROVE  LET o == SetToBag({x})
           IN  /\ NumberBag(o) /\ DOMAIN o = {x} /\ o[x] = 1
               /\ Value(o) = x
               /\ \A S : Count(o, S) = IF x \in S THEN 1 ELSE 0
<1> DEFINE o == SetToBag({x})
<1>1. o = [e \in {x} |-> 1]
  BY DEF SetToBag
<1>2. IsFiniteSet({x})
  BY FS_Singleton
<1>3. NumberBag(o) /\ DOMAIN o = {x} /\ o[x] = 1
  BY <1>1, <1>2 DEF NumberBag
<1>4. ASSUME NEW f, f[x] \in Int PROVE SumFunctionOnSet(f, {x}) = f[x]
  <2>1. {} \cup {x} = {x} /\ x \notin {}
    OBVIOUS
  <2>2. Weighted(f, {x})
    BY <1>2, <1>4 DEF Weighted
  <2>3. SumFunctionOnSet(f, {} \cup {x}) = f[x] + SumFunctionOnSet(f, {})
    BY <2>1, <2>2, SumAdds
  <2>4. SumFunctionOnSet(f, {}) = 0
    BY SumNothing
  <2> QED BY <2>1, <2>3, <2>4, <1>4
<1> HIDE DEF o
<1>5. Value(o) = x
  <2> DEFINE f == [y \in DOMAIN o |-> y * o[y]]
  <2>1. f[x] = x /\ DOMAIN f = {x}
    BY <1>3
  <2>2. Value(o) = SumFunctionOnSet(f, {x})
    BY <2>1 DEF Value, SumFunction
  <2> HIDE DEF f
  <2> QED BY <2>1, <2>2, <1>4
<1>6. ASSUME NEW S PROVE Count(o, S) = IF x \in S THEN 1 ELSE 0
  <2>1. CASE x \in S
    <3>1. DOMAIN o \cap S = {x}
      BY <2>1, <1>3
    <3>2. Count(o, S) = SumFunctionOnSet(o, {x})
      BY <3>1 DEF Count
    <3> QED BY <3>2, <2>1, <1>3, <1>4
  <2>2. CASE x \notin S
    <3>1. DOMAIN o \cap S = {}
      BY <2>2, <1>3
    <3> QED BY <3>1, <2>2, CountNone
  <2> QED BY <2>1, <2>2
<1> QED BY <1>3, <1>5, <1>6 DEF o

(* The empty bag has nothing. *)
LEMMA NoBag ==
    /\ NumberBag(EmptyBag) /\ DOMAIN EmptyBag = {} /\ Value(EmptyBag) = 0
    /\ \A S : Count(EmptyBag, S) = 0
<1>1. EmptyBag = [e \in {} |-> 1]
  BY DEF EmptyBag, SetToBag
<1>2. DOMAIN EmptyBag = {} /\ NumberBag(EmptyBag)
  BY <1>1, FS_EmptySet DEF NumberBag
<1>3. \A S : Count(EmptyBag, S) = 0
  BY <1>2, CountNone
<1>4. Value(EmptyBag) = 0
  <2> DEFINE f == [y \in DOMAIN EmptyBag |-> y * EmptyBag[y]]
  <2>1. DOMAIN f = {} /\ Value(EmptyBag) = SumFunctionOnSet(f, DOMAIN f)
    BY <1>2 DEF Value, SumFunction
  <2> HIDE DEF f
  <2> QED BY <2>1, SumNothing
<1> QED BY <1>2, <1>3, <1>4

(* The empty bag adds nothing. *)
LEMMA PlusNothing ==
    ASSUME NEW a, NumberBag(a)
    PROVE  a (+) EmptyBag = a /\ EmptyBag (+) a = a
<1>1. EmptyBag = [e \in {} |-> 1] /\ DOMAIN EmptyBag = {}
  BY DEF EmptyBag, SetToBag
<1>2. /\ a (+) EmptyBag = [e \in DOMAIN a |-> (IF e \in DOMAIN a THEN a[e] ELSE 0) + 0]
      /\ EmptyBag (+) a = [e \in DOMAIN a |-> 0 + (IF e \in DOMAIN a THEN a[e] ELSE 0)]
  BY <1>1 DEF (+)
<1>3. a = [e \in DOMAIN a |-> a[e]] /\ \A e \in DOMAIN a : a[e] \in Nat
  BY DEF NumberBag
<1>4. \A e \in DOMAIN a : (IF e \in DOMAIN a THEN a[e] ELSE 0) + 0 = a[e]
                          /\ 0 + (IF e \in DOMAIN a THEN a[e] ELSE 0) = a[e]
  BY <1>3
<1> QED BY <1>2, <1>3, <1>4

-----------------------------------------------------------------------------
(* The bins of a bag of observations, and those a sketch holds. *)
BinsIn(bag) == {Signed(x) : x \in DOMAIN bag \ {0}}

BinsHeld(v) ==
    {[size |-> k, sign |-> 0] : k \in DOMAIN v.negative}
        \cup {[size |-> k, sign |-> 1] : k \in DOMAIN v.positive}

SignedBins == [size : Int, sign : {0, 1}]

HeldIn(v, b) == IF b.sign = 0 THEN At(v.negative, b.size) ELSE At(v.positive, b.size)

Observed(b) == {x \in Observation \ {0} : Signed(x) = b}

ObservedBag(bag) == NumberBag(bag) /\ DOMAIN bag \subseteq Observation

(* The key of an observation is a number. *)
LEMMA KeyType == \A x \in Observation \ {0} : Key(x) \in Int
<1>1. ASSUME NEW x \in Observation \ {0} PROVE Key(x) \in Int
  <2>1. \E k \in MinKey..MaxKey : InBin(x, k)
    BY KeyAssumption
  <2>2. Key(x) \in MinKey..MaxKey
    BY <2>1 DEF Key
  <2> QED BY <2>2, SketchAssumption
<1> QED BY <1>1

(* The bin of an observation is one. *)
LEMMA SignedType == \A x \in Observation \ {0} : Signed(x) \in SignedBins
BY KeyType DEF Signed, SignedBins

(* A bag of observations falls into finitely many bins. *)
LEMMA BinsInFinite ==
    ASSUME NEW bag, ObservedBag(bag)
    PROVE  IsFiniteSet(BinsIn(bag)) /\ BinsIn(bag) \subseteq SignedBins
<1>1. IsFiniteSet(DOMAIN bag \ {0})
  BY FS_Subset DEF ObservedBag, NumberBag
<1>2. IsFiniteSet(BinsIn(bag))
  <2> DEFINE T == DOMAIN bag \ {0}
  <2>1. IsFiniteSet({Signed(x) : x \in T})
    <3> HIDE DEF T
    <3>1. IsFiniteSet(T)
      BY <1>1 DEF T
    <3> DEFINE f == [x \in T |-> Signed(x)]
    <3>2. f \in Surjection(T, {f[x] : x \in T})
      BY DEF Surjection
    <3>3. IsFiniteSet({f[x] : x \in T})
      <4> HIDE DEF f
      <4> QED BY <3>1, <3>2, FS_Surjection
    <3>4. {f[x] : x \in T} = {Signed(x) : x \in T}
      OBVIOUS
    <3> QED BY <3>3, <3>4
  <2> QED BY <2>1 DEF BinsIn
<1>3. BinsIn(bag) \subseteq SignedBins
  BY SignedType DEF BinsIn, ObservedBag
<1> QED BY <1>2, <1>3

(* The larger bins of a set remain so in a part of it. *)
LEMMA LargestOfPart ==
    ASSUME NEW C, IsFiniteSet(C), NEW A \in SUBSET C, NEW b \in A, b \in Largest(C)
    PROVE  b \in Largest(A)
<1> DEFINE P == {c \in A : Larger(c, b)}
           Q == {c \in C : Larger(c, b)}
<1>1. P \subseteq Q /\ Q \subseteq C
  OBVIOUS
<1>2. Cardinality(Q) < MaxBins
  BY DEF Largest
<1> HIDE DEF P, Q
<1>3. IsFiniteSet(Q) /\ IsFiniteSet(P) /\ Cardinality(P) <= Cardinality(Q)
  BY <1>1, FS_Subset
<1>4. Cardinality(P) \in Nat /\ Cardinality(Q) \in Nat /\ MaxBins \in Nat
  BY <1>3, FS_CardinalityType, SketchAssumption
<1>5. Cardinality(P) < MaxBins
  BY <1>2, <1>3, <1>4
<1> QED BY <1>5 DEF Largest, P

(* The smallest of too many bins is not one of the largest. *)
LEMMA SmallestNotLargest ==
    ASSUME NEW C, IsFiniteSet(C), NEW B \in SUBSET C, Cardinality(B) > MaxBins,
           NEW b \in B, \A c \in B \ {b} : Larger(c, b)
    PROVE  b \notin Largest(C)
<1> DEFINE P == B \ {b}
           Q == {c \in C : Larger(c, b)}
<1>1. P \subseteq Q /\ Q \subseteq C
  OBVIOUS
<1>2. IsFiniteSet(B)
  BY FS_Subset
<1>3. Cardinality(P) = Cardinality(B) - 1 /\ Cardinality(B) \in Nat
  BY <1>2, FS_RemoveElement, FS_CardinalityType
<1> HIDE DEF P, Q
<1>4. IsFiniteSet(Q) /\ Cardinality(P) <= Cardinality(Q)
  BY <1>1, FS_Subset
<1>5. Cardinality(Q) \in Nat /\ MaxBins \in Nat
  BY <1>4, FS_CardinalityType, SketchAssumption
<1>6. ~(Cardinality(Q) < MaxBins)
  BY <1>3, <1>4, <1>5
<1> QED BY <1>6 DEF Largest, Q

Rank(b) == 2 * b.size + b.sign

(* Bins are ordered by size, and at one size the positive is the larger: as their ranks. *)
LEMMA LargerByRank ==
    \A a, b \in SignedBins : (Larger(a, b) <=> Rank(a) > Rank(b)) /\ Rank(a) \in Int
                             /\ (Rank(a) = Rank(b) => a = b)
BY DEF SignedBins, Larger, Rank

(* A set of bins has a smallest one and a largest one. *)
LEMMA BinBounds ==
    ASSUME NEW B \in SUBSET SignedBins, IsFiniteSet(B), B # {}
    PROVE  /\ \E b \in B : \A c \in B : c # b => Larger(c, b)
           /\ \E b \in B : \A c \in B : ~Larger(c, b)
<1> DEFINE f == [b \in B |-> Rank(b)]
           R == {f[b] : b \in B}
<1>1. IsFiniteSet(R)
  <2>1. f \in Surjection(B, R)
    BY DEF Surjection
  <2> HIDE DEF f, R
  <2> QED BY <2>1, FS_Surjection
<1>2. R \in SUBSET Int /\ R # {}
  BY LargerByRank
<1>3. \A b \in B : f[b] = Rank(b) /\ f[b] \in R /\ Rank(b) \in Int /\ b \in SignedBins
  BY LargerByRank
<1>4. \A m \in R : \E b \in B : f[b] = m
  OBVIOUS
<1> HIDE DEF f, R
<1>5. PICK m \in R : \A x \in R : m <= x
  BY <1>1, <1>2, FiniteBounds
<1>6. PICK n \in R : \A x \in R : x <= n
  BY <1>1, <1>2, FiniteBounds
<1>7. PICK b \in B : Rank(b) = m
  BY <1>3, <1>4
<1>8. PICK c \in B : Rank(c) = n
  BY <1>3, <1>4
<1>9. \A d \in B : d # b => Larger(d, b)
  <2>1. \A d \in B : Rank(b) <= Rank(d)
    BY <1>3, <1>5, <1>7
  <2> SUFFICES ASSUME NEW d \in B, d # b PROVE Larger(d, b)
    OBVIOUS
  <2>2. Rank(d) # Rank(b) /\ Rank(d) \in Int /\ Rank(b) \in Int /\ Rank(b) <= Rank(d)
    BY <1>3, <2>1, LargerByRank
  <2>3. Rank(d) > Rank(b)
    BY <2>2
  <2> QED BY <1>3, <2>3, LargerByRank
<1>10. \A d \in B : ~Larger(d, c)
  <2> SUFFICES ASSUME NEW d \in B, Larger(d, c) PROVE FALSE
    OBVIOUS
  <2>1. Rank(d) > Rank(c)
    BY <1>3, LargerByRank
  <2>2. Rank(d) <= Rank(c) /\ Rank(d) \in Int /\ Rank(c) \in Int
    BY <1>3, <1>6, <1>8
  <2> QED BY <2>1, <2>2
<1> QED BY <1>9, <1>10

(* At most MaxBins bins that include the largest are just those. *)
LEMMA JustTheLargest ==
    ASSUME NEW C \in SUBSET SignedBins, IsFiniteSet(C), NEW B \in SUBSET C,
           Largest(C) \subseteq B, Cardinality(B) <= MaxBins
    PROVE  B = Largest(C)
<1> DEFINE N == C \ Largest(C)
<1> SUFFICES ASSUME NEW b \in B, b \notin Largest(C) PROVE FALSE
  OBVIOUS
<1>1. b \in N /\ N \in SUBSET SignedBins /\ N # {}
  OBVIOUS
<1>2. IsFiniteSet(N) /\ IsFiniteSet(B)
  BY FS_Subset
<1>3. PICK m \in N : \A c \in N : ~Larger(c, m)
  <2> HIDE DEF N
  <2> QED BY <1>1, <1>2, BinBounds
<1> DEFINE Q == {c \in C : Larger(c, m)}
           P == Q \cup {b}
<1>4. Q \subseteq B /\ b \notin Q /\ P \subseteq B
  BY <1>1, <1>3
<1>5. ~(Cardinality(Q) < MaxBins)
  BY <1>3 DEF Largest
<1> HIDE DEF Q
<1>6. IsFiniteSet(Q) /\ Cardinality(Q) \in Nat
  BY <1>4, <1>2, FS_Subset, FS_CardinalityType
<1>7. Cardinality(P) = Cardinality(Q) + 1
  BY <1>4, <1>6, FS_AddElement
<1> HIDE DEF P
<1>8. Cardinality(P) <= Cardinality(B) /\ Cardinality(B) \in Nat
  BY <1>4, <1>2, FS_Subset, FS_CardinalityType
<1> QED BY <1>5, <1>6, <1>7, <1>8, SketchAssumption

-----------------------------------------------------------------------------
(* v is a binned sketch of bag, of which bins may have been collapsed: all *)
(* that the larger ones hold is there, and what is not is in zero.         *)
Binned(v, bag) ==
    /\ NumberBag(v.negative) /\ NumberBag(v.positive) /\ v.zero \in Nat
    /\ BinsHeld(v) \subseteq BinsIn(bag)
    /\ \A b \in Kept(bag) : HeldIn(v, b) = Count(bag, Observed(b))
    /\ v.zero + Count(v.negative, Int) + Count(v.positive, Int) = Count(bag, Int)

(* A bin that is not held, holds nothing. *)
LEMMA HeldNowhere ==
    ASSUME NEW v, NEW b \in SignedBins
    PROVE  /\ b \notin BinsHeld(v) => HeldIn(v, b) = 0
           /\ HeldIn(v, b) # 0 => b \in BinsHeld(v)
BY DEF SignedBins, BinsHeld, HeldIn, At

(* A bin no observation falls into has none. *)
LEMMA NotObserved ==
    ASSUME NEW bag, NEW b, b \notin BinsIn(bag)
    PROVE  Count(bag, Observed(b)) = 0
<1>1. DOMAIN bag \cap Observed(b) = {}
  BY DEF BinsIn, Observed
<1> QED BY <1>1, CountNone

(* The bins of two bags together. *)
LEMMA BinsInPlus ==
    ASSUME NEW a, NEW c, ObservedBag(a), ObservedBag(c)
    PROVE  ObservedBag(a (+) c) /\ BinsIn(a (+) c) = BinsIn(a) \cup BinsIn(c)
<1>1. DOMAIN (a (+) c) = DOMAIN a \cup DOMAIN c /\ NumberBag(a (+) c)
  BY PlusBag DEF ObservedBag
<1>2. ObservedBag(a (+) c)
  BY <1>1 DEF ObservedBag
<1>3. BinsIn(a (+) c) = BinsIn(a) \cup BinsIn(c)
  BY <1>1, Zenon DEF BinsIn
<1> QED BY <1>2, <1>3

(* What is kept of a bag and occurs in a part of it is kept of the part. *)
LEMMA KeptOfPart ==
    ASSUME NEW a, NEW c, ObservedBag(c), NEW b,
           BinsIn(a) \subseteq BinsIn(c), b \in Kept(c), b \in BinsIn(a)
    PROVE  b \in Kept(a)
<1> DEFINE A == BinsIn(a)
           C == BinsIn(c)
<1>1. IsFiniteSet(C) /\ A \in SUBSET C /\ b \in A
  BY BinsInFinite
<1>2. b \in Largest(C)
  BY DEF Kept, BinsIn
<1> HIDE DEF A, C
<1>3. b \in Largest(A)
  BY <1>1, <1>2, LargestOfPart
<1> QED BY <1>3 DEF Kept, BinsIn, A

(* Adding two values bin by bin (mergeBytes) adds what each bin holds. *)
LEMMA HeldPlus ==
    ASSUME NEW v, NEW w, NEW u,
           NumberBag(v.negative), NumberBag(v.positive),
           NumberBag(w.negative), NumberBag(w.positive),
           u.negative = v.negative (+) w.negative, u.positive = v.positive (+) w.positive
    PROVE  /\ BinsHeld(u) = BinsHeld(v) \cup BinsHeld(w)
           /\ \A b : HeldIn(u, b) = HeldIn(v, b) + HeldIn(w, b)
<1>1. /\ DOMAIN u.negative = DOMAIN v.negative \cup DOMAIN w.negative
      /\ \A x : At(u.negative, x) = At(v.negative, x) + At(w.negative, x)
  <2> DEFINE p == v.negative
             q == w.negative
  <2>1. NumberBag(p) /\ NumberBag(q) /\ u.negative = p (+) q
    OBVIOUS
  <2> HIDE DEF p, q
  <2>2. DOMAIN (p (+) q) = DOMAIN p \cup DOMAIN q /\ \A x : At(p (+) q, x) = At(p, x) + At(q, x)
    BY <2>1, PlusBag
  <2>3. DOMAIN u.negative = DOMAIN p \cup DOMAIN q /\ \A x : At(u.negative, x) = At(p, x) + At(q, x)
    BY <2>1, <2>2, Zenon
  <2> QED BY <2>3 DEF p, q
<1>2. /\ DOMAIN u.positive = DOMAIN v.positive \cup DOMAIN w.positive
      /\ \A x : At(u.positive, x) = At(v.positive, x) + At(w.positive, x)
  <2> DEFINE p == v.positive
             q == w.positive
  <2>1. NumberBag(p) /\ NumberBag(q) /\ u.positive = p (+) q
    OBVIOUS
  <2> HIDE DEF p, q
  <2>2. DOMAIN (p (+) q) = DOMAIN p \cup DOMAIN q /\ \A x : At(p (+) q, x) = At(p, x) + At(q, x)
    BY <2>1, PlusBag
  <2>3. DOMAIN u.positive = DOMAIN p \cup DOMAIN q /\ \A x : At(u.positive, x) = At(p, x) + At(q, x)
    BY <2>1, <2>2, Zenon
  <2> QED BY <2>3 DEF p, q
<1>3. BinsHeld(u) = BinsHeld(v) \cup BinsHeld(w)
  BY <1>1, <1>2 DEF BinsHeld
<1>4. \A b : HeldIn(u, b) = HeldIn(v, b) + HeldIn(w, b)
  BY <1>1, <1>2 DEF HeldIn
<1> QED BY <1>3, <1>4

(* The bins of two sketches, one by one together, are those of both bags.  *)
LEMMA BinnedPlus ==
    ASSUME NEW a, NEW c, ObservedBag(a), ObservedBag(c),
           NEW v, NEW w, Binned(v, a), Binned(w, c),
           NEW u, u.zero = v.zero + w.zero,
           u.negative = v.negative (+) w.negative, u.positive = v.positive (+) w.positive
    PROVE  Binned(u, a (+) c)
<1> DEFINE d == a (+) c
<1>1. ObservedBag(d) /\ BinsIn(d) = BinsIn(a) \cup BinsIn(c)
  BY BinsInPlus
<1>2. \A S : Count(d, S) = Count(a, S) + Count(c, S)
  BY CountPlus DEF ObservedBag
<1> HIDE DEF d
<1>3. NumberBag(v.negative) /\ NumberBag(v.positive) /\ NumberBag(w.negative) /\ NumberBag(w.positive)
      /\ v.zero \in Nat /\ w.zero \in Nat
  BY DEF Binned
<1>4. BinsHeld(u) = BinsHeld(v) \cup BinsHeld(w) /\ \A b : HeldIn(u, b) = HeldIn(v, b) + HeldIn(w, b)
  BY <1>3, HeldPlus
<1>5. NumberBag(u.negative) /\ NumberBag(u.positive) /\ u.zero \in Nat
  <2>1. NumberBag(v.negative (+) w.negative) /\ NumberBag(v.positive (+) w.positive)
    BY <1>3, PlusBag
  <2>2. v.zero + w.zero \in Nat
    BY <1>3
  <2> QED BY <2>1, <2>2
<1>6. BinsHeld(u) \subseteq BinsIn(d)
  BY <1>1, <1>4 DEF Binned
<1>7. ASSUME NEW b \in Kept(d) PROVE HeldIn(u, b) = Count(d, Observed(b))
  <2>0. b \in SignedBins /\ b \in BinsIn(d)
    BY <1>1, BinsInFinite DEF Kept, Largest, BinsIn
  <2>1. HeldIn(v, b) = Count(a, Observed(b))
    <3>1. CASE b \in BinsIn(a)
      <4>1. b \in Kept(a)
        BY <1>1, <3>1, KeptOfPart
      <4> QED BY <4>1 DEF Binned
    <3>2. CASE b \notin BinsIn(a)
      <4>1. b \notin BinsHeld(v)
        BY <3>2 DEF Binned
      <4> QED BY <3>2, <4>1, <2>0, HeldNowhere, NotObserved
    <3> QED BY <3>1, <3>2
  <2>2. HeldIn(w, b) = Count(c, Observed(b))
    <3>1. CASE b \in BinsIn(c)
      <4>1. b \in Kept(c)
        BY <1>1, <3>1, KeptOfPart
      <4> QED BY <4>1 DEF Binned
    <3>2. CASE b \notin BinsIn(c)
      <4>1. b \notin BinsHeld(w)
        BY <3>2 DEF Binned
      <4> QED BY <3>2, <4>1, <2>0, HeldNowhere, NotObserved
    <3> QED BY <3>1, <3>2
  <2> QED BY <2>1, <2>2, <1>2, <1>4
<1>8. u.zero + Count(u.negative, Int) + Count(u.positive, Int) = Count(d, Int)
  <2>1. Count(u.negative, Int) = Count(v.negative, Int) + Count(w.negative, Int)
    BY <1>3, CountPlus
  <2>2. Count(u.positive, Int) = Count(v.positive, Int) + Count(w.positive, Int)
    BY <1>3, CountPlus
  <2>3. /\ Count(v.negative, Int) \in Nat /\ Count(v.positive, Int) \in Nat
        /\ Count(w.negative, Int) \in Nat /\ Count(w.positive, Int) \in Nat
        /\ Count(a, Int) \in Nat /\ Count(c, Int) \in Nat
    BY <1>3, CountIsNat DEF ObservedBag
  <2>4. /\ v.zero + Count(v.negative, Int) + Count(v.positive, Int) = Count(a, Int)
        /\ w.zero + Count(w.negative, Int) + Count(w.positive, Int) = Count(c, Int)
    BY DEF Binned
  <2>5. Count(d, Int) = Count(a, Int) + Count(c, Int)
    BY <1>2
  <2> QED BY <1>3, <2>1, <2>2, <2>3, <2>4, <2>5
<1>9. Binned(u, d)
  BY <1>5, <1>6, <1>7, <1>8 DEF Binned
<1> QED BY <1>9 DEF d

(* Nothing, and one observation. *)
LEMMA BinnedNone ==
    ASSUME NEW v, v.zero = 0, v.negative = EmptyBag, v.positive = EmptyBag
    PROVE  Binned(v, EmptyBag) /\ BinsHeld(v) = {}
<1>1. BinsHeld(v) = {} /\ BinsIn(EmptyBag) = {} /\ Kept(EmptyBag) = {}
  BY NoBag DEF BinsHeld, BinsIn, Kept, Largest
<1>2. Count(EmptyBag, Int) = 0
  BY NoBag
<1> QED BY <1>1, <1>2, NoBag DEF Binned

BinsOfOne(x) ==
    [zero |-> IF x = 0 THEN 1 ELSE 0,
     negative |-> IF x < 0 THEN SetToBag({Key(x)}) ELSE EmptyBag,
     positive |-> IF x > 0 THEN SetToBag({Key(x)}) ELSE EmptyBag]

(* One observation in its bin (addBin). *)
LEMMA BinnedOne ==
    ASSUME NEW x \in Observation
    PROVE  Binned(BinsOfOne(x), SetToBag({x})) /\ ObservedBag(SetToBag({x}))
<1> DEFINE o == SetToBag({x})
           v == BinsOfOne(x)
<1>0. x \in Int
  BY SketchAssumption
<1>1. NumberBag(o) /\ DOMAIN o = {x} /\ o[x] = 1 /\ \A S : Count(o, S) = IF x \in S THEN 1 ELSE 0
  BY <1>0, OneBag
<1>2. ObservedBag(o)
  BY <1>1 DEF ObservedBag
<1> HIDE DEF o
<1>3. CASE x = 0
  <2>1. v.zero = 1 /\ v.negative = EmptyBag /\ v.positive = EmptyBag
    BY <1>3 DEF BinsOfOne
  <2>2. BinsIn(o) = {} /\ Kept(o) = {}
    BY <1>1, <1>3 DEF BinsIn, Kept, Largest
  <2>3. BinsHeld(v) = {}
    BY <2>1, NoBag DEF BinsHeld
  <2> HIDE DEF v
  <2>4. Count(EmptyBag, Int) = 0 /\ Count(o, Int) = 1
    BY <1>0, <1>1, NoBag
  <2>5. Binned(v, o)
    BY <2>1, <2>2, <2>3, <2>4, NoBag DEF Binned
  <2> QED BY <2>5, <1>2 DEF v, o
<1>4. CASE x # 0
  <2> DEFINE k == Key(x)
             b == Signed(x)
             q == SetToBag({k})
  <2>1. k \in Int /\ x \in Observation \ {0}
    BY <1>4, KeyType
  <2>2. NumberBag(q) /\ DOMAIN q = {k} /\ q[k] = 1 /\ \A S : Count(q, S) = IF k \in S THEN 1 ELSE 0
    <3> HIDE DEF k
    <3> QED BY <2>1, OneBag
  <2>3. BinsIn(o) = {b}
    BY <1>1, <1>4 DEF BinsIn
  <2>4. Kept(o) \subseteq {b}
    BY <2>3 DEF Kept, Largest, BinsIn
  <2>5. Count(o, Observed(b)) = 1 /\ Count(o, Int) = 1
    BY <1>0, <1>1, <2>1 DEF Observed
  <2>6. Count(q, Int) = 1 /\ Count(EmptyBag, Int) = 0 /\ NumberBag(EmptyBag) /\ DOMAIN EmptyBag = {}
    BY <2>1, <2>2, NoBag
  <2>7. b = [size |-> k, sign |-> IF x < 0 THEN 0 ELSE 1]
    BY DEF Signed
  <2>8. v.zero = 0 /\ v.negative = (IF x < 0 THEN q ELSE EmptyBag) /\ v.positive = IF x > 0 THEN q ELSE EmptyBag
    BY <1>4 DEF BinsOfOne
  <2> HIDE DEF k, b, q, v
  <2>9. CASE x < 0
    <3>1. v.negative = q /\ v.positive = EmptyBag /\ b = [size |-> k, sign |-> 0]
      BY <2>7, <2>8, <2>9, <1>0
    <3>2. BinsHeld(v) = {b}
      BY <3>1, <2>2, <2>6 DEF BinsHeld
    <3>3. HeldIn(v, b) = 1
      BY <3>1, <2>2 DEF HeldIn, At
    <3>4. Binned(v, o)
      BY <3>1, <3>2, <3>3, <2>2, <2>3, <2>4, <2>5, <2>6, <2>8 DEF Binned
    <3> QED BY <3>4, <1>2 DEF v, o
  <2>10. CASE x > 0
    <3>1. v.negative = EmptyBag /\ v.positive = q /\ b = [size |-> k, sign |-> 1]
      BY <2>7, <2>8, <2>10, <1>0
    <3>2. BinsHeld(v) = {b}
      BY <3>1, <2>2, <2>6 DEF BinsHeld
    <3>3. HeldIn(v, b) = 1
      BY <3>1, <2>2 DEF HeldIn, At
    <3>4. Binned(v, o)
      BY <3>1, <3>2, <3>3, <2>2, <2>3, <2>4, <2>5, <2>6, <2>8 DEF Binned
    <3> QED BY <3>4, <1>2 DEF v, o
  <2> QED BY <2>9, <2>10, <1>0, <1>4
<1> QED BY <1>2, <1>3, <1>4 DEF o

(* The fields of a sketchValue, and those that are not bins. *)
Fields(v) == DOMAIN v = {"count", "sum", "min", "max", "exact", "zero", "negative", "positive"}

SameStats(u, v) ==
    /\ u.count = v.count /\ u.sum = v.sum /\ u.min = v.min /\ u.max = v.max
    /\ u.exact = v.exact

(* AddBin adds one observation. *)
LEMMA AddBinBinned ==
    ASSUME NEW a, ObservedBag(a), NEW v, Fields(v), Binned(v, a), NEW x \in Observation
    PROVE  LET u == AddBin(v, x)
           IN  Fields(u) /\ SameStats(u, v) /\ Binned(u, a (+) SetToBag({x}))
<1> DEFINE u == AddBin(v, x)
           o == SetToBag({x})
           w == BinsOfOne(x)
           q == SetToBag({Key(x)})
<1>0. x \in Int
  BY SketchAssumption
<1>1. Binned(w, o) /\ ObservedBag(o)
  BY BinnedOne
<1>2. v.negative (+) EmptyBag = v.negative /\ v.positive (+) EmptyBag = v.positive
  BY PlusNothing DEF Binned
<1>2a. v.zero \in Nat
  BY DEF Binned
<1>3. /\ Fields(u) /\ SameStats(u, v)
      /\ u.zero = v.zero + w.zero
      /\ u.negative = v.negative (+) w.negative /\ u.positive = v.positive (+) w.positive
  <2>1. CASE x = 0
    <3>1. u = [v EXCEPT !.zero = @ + 1]
      BY <2>1, <1>0 DEF AddBin
    <3>2. w.zero = 1 /\ w.negative = EmptyBag /\ w.positive = EmptyBag
      BY <2>1, <1>0 DEF BinsOfOne
    <3> HIDE DEF u, w
    <3>3. /\ DOMAIN u = DOMAIN v /\ u.zero = v.zero + 1 /\ u.negative = v.negative /\ u.positive = v.positive
          /\ SameStats(u, v)
      BY <3>1 DEF Fields, SameStats
    <3> QED BY <3>2, <3>3, <1>2 DEF Fields
  <2>2. CASE x < 0
    <3>1. u = [v EXCEPT !.negative = @ (+) q]
      BY <2>2, <1>0 DEF AddBin
    <3>2. w.zero = 0 /\ w.negative = q /\ w.positive = EmptyBag
      BY <2>2, <1>0 DEF BinsOfOne
    <3> HIDE DEF u, w, q
    <3>3. /\ DOMAIN u = DOMAIN v /\ u.zero = v.zero /\ u.negative = v.negative (+) q /\ u.positive = v.positive
          /\ SameStats(u, v)
      BY <3>1 DEF Fields, SameStats
    <3> QED BY <3>2, <3>3, <1>2, <1>2a DEF Fields
  <2>3. CASE x > 0
    <3>1. u = [v EXCEPT !.positive = @ (+) q]
      BY <2>3, <1>0 DEF AddBin
    <3>2. w.zero = 0 /\ w.negative = EmptyBag /\ w.positive = q
      BY <2>3, <1>0 DEF BinsOfOne
    <3> HIDE DEF u, w, q
    <3>3. /\ DOMAIN u = DOMAIN v /\ u.zero = v.zero /\ u.negative = v.negative /\ u.positive = v.positive (+) q
          /\ SameStats(u, v)
      BY <3>1 DEF Fields, SameStats
    <3> QED BY <3>2, <3>3, <1>2, <1>2a DEF Fields
  <2> QED BY <1>0, <2>1, <2>2, <2>3
<1> HIDE DEF u, o, w
<1>4. Binned(u, a (+) o)
  BY <1>1, <1>3, BinnedPlus
<1> QED BY <1>3, <1>4 DEF u, o

(* BinsOf counts the bins held. *)
LEMMA HeldCount ==
    ASSUME NEW v, NumberBag(v.negative), NumberBag(v.positive)
    PROVE  /\ IsFiniteSet(BinsHeld(v)) /\ BinsHeld(v) \subseteq SignedBins
           /\ Cardinality(BinsHeld(v)) = BinsOf(v) /\ BinsOf(v) \in Nat
<1> DEFINE A == DOMAIN v.negative
           B == DOMAIN v.positive
           P == {[size |-> k, sign |-> 0] : k \in A}
           Q == {[size |-> k, sign |-> 1] : k \in B}
           f == [k \in A |-> [size |-> k, sign |-> 0]]
           g == [k \in B |-> [size |-> k, sign |-> 1]]
<1>1. IsFiniteSet(A) /\ IsFiniteSet(B) /\ A \subseteq Int /\ B \subseteq Int
  BY DEF NumberBag
<1>2. f \in Surjection(A, P) /\ f \in Injection(A, P)
  BY DEF Surjection, Injection, IsInjective
<1>3. g \in Surjection(B, Q) /\ g \in Injection(B, Q)
  BY DEF Surjection, Injection, IsInjective
<1>4. P \cap Q = {} /\ BinsHeld(v) = P \cup Q /\ BinsOf(v) = Cardinality(A) + Cardinality(B)
  BY DEF BinsHeld, BinsOf
<1>4a. P \cup Q \subseteq SignedBins
  BY <1>1 DEF SignedBins
<1> HIDE DEF A, B, P, Q, f, g
<1>5. IsFiniteSet(P) /\ Cardinality(P) = Cardinality(A)
  BY <1>1, <1>2, FS_Surjection
<1>6. IsFiniteSet(Q) /\ Cardinality(Q) = Cardinality(B)
  BY <1>1, <1>3, FS_Surjection
<1>7. Cardinality(A) \in Nat /\ Cardinality(B) \in Nat
  BY <1>1, FS_CardinalityType
<1>8. IsFiniteSet(P \cup Q) /\ Cardinality(P \cup Q) = Cardinality(P) + Cardinality(Q) - Cardinality(P \cap Q)
  BY <1>5, <1>6, FS_Union
<1>9. Cardinality(P \cap Q) = 0
  BY <1>4, FS_EmptySet
<1> QED BY <1>4, <1>4a, <1>5, <1>6, <1>7, <1>8, <1>9

(* A bin taken out of a bag. *)
LEMMA WithoutBin ==
    ASSUME NEW a, NumberBag(a), NEW k \in DOMAIN a
    PROVE  LET c == Without(a, k)
           IN  /\ NumberBag(c) /\ DOMAIN c = DOMAIN a \ {k}
               /\ \A j \in DOMAIN c : c[j] = a[j]
               /\ Count(c, Int) \in Nat /\ Count(a, Int) = a[k] + Count(c, Int)
<1> DEFINE c == Without(a, k)
           D == DOMAIN a \ {k}
<1>1. c = [j \in D |-> a[j]]
  BY DEF Without, Restrict
<1>2. IsFiniteSet(D)
  BY FS_Subset DEF NumberBag
<1>3. NumberBag(c) /\ DOMAIN c = D /\ \A j \in D : c[j] = a[j]
  BY <1>1, <1>2 DEF NumberBag
<1> HIDE DEF c
<1>4. DOMAIN a \cap Int = D \cup {k} /\ DOMAIN c \cap Int = D /\ k \notin D
  BY <1>3 DEF NumberBag
<1> HIDE DEF D
<1>5. Count(a, Int) = SumFunctionOnSet(a, D \cup {k}) /\ Count(c, Int) = SumFunctionOnSet(c, D)
  BY <1>4 DEF Count
<1>6. Weighted(a, D \cup {k})
  BY <1>4, BagWeighted
<1>7. SumFunctionOnSet(a, D \cup {k}) = a[k] + SumFunctionOnSet(a, D)
  BY <1>4, <1>6, SumAdds
<1>8. SumFunctionOnSet(c, D) = SumFunctionOnSet(a, D)
  <2>1. Weighted(a, D)
    BY <1>6, PartWeighted
  <2> QED BY <2>1, <1>3, SumSame
<1>9. Count(c, Int) \in Nat
  BY <1>3, CountIsNat
<1> QED BY <1>3, <1>5, <1>7, <1>8, <1>9 DEF c, D

(* The least of finitely many numbers. *)
LEMMA MinOfSet ==
    ASSUME NEW S \in SUBSET Int, IsFiniteSet(S), S # {}
    PROVE  Min(S) \in S /\ \A x \in S : Min(S) <= x
<1>1. \E m \in S : \A x \in S : m <= x
  BY FiniteBounds
<1> QED BY <1>1 DEF Min

(* The largest of finitely many numbers. *)
LEMMA MaxOfSet ==
    ASSUME NEW S \in SUBSET Int, IsFiniteSet(S), S # {}
    PROVE  Max(S) \in S /\ \A x \in S : x <= Max(S)
<1>1. \E m \in S : \A x \in S : x <= m
  BY FiniteBounds
<1>2. \E m \in S : \A x \in S : m >= x
  BY <1>1
<1>3. Max(S) \in S /\ \A x \in S : Max(S) >= x
  BY <1>2 DEF Max
<1> QED BY <1>3

(* u is v with its bin b counted as zero. *)
Collapsed(u, v, b) ==
    /\ Fields(u) /\ SameStats(u, v)
    /\ NumberBag(u.negative) /\ NumberBag(u.positive) /\ u.zero \in Nat
    /\ b \in BinsHeld(v)
    /\ BinsHeld(u) = BinsHeld(v) \ {b}
    /\ \A c \in BinsHeld(u) : HeldIn(u, c) = HeldIn(v, c)
    /\ u.zero + Count(u.negative, Int) + Count(u.positive, Int)
            = v.zero + Count(v.negative, Int) + Count(v.positive, Int)

(* Collapsing a negative bin moves its count into zero and nothing else. *)
LEMMA NegativeCollapsed ==
    ASSUME NEW v, Fields(v), NumberBag(v.negative), NumberBag(v.positive), v.zero \in Nat,
           NEW k \in DOMAIN v.negative
    PROVE  Collapsed(NegativeIntoZero(v, k), v, [size |-> k, sign |-> 0])
<1> DEFINE u == NegativeIntoZero(v, k)
           b == [size |-> k, sign |-> 0]
           A == v.negative
           C == Without(A, k)
<1>1. u = [v EXCEPT !.zero = @ + A[k], !.negative = C]
  BY DEF NegativeIntoZero
<1> HIDE DEF u
<1>2. /\ DOMAIN u = DOMAIN v /\ u.zero = v.zero + A[k] /\ u.negative = C /\ u.positive = v.positive
      /\ SameStats(u, v)
  BY <1>1 DEF Fields, SameStats
<1> HIDE DEF A, C
<1>3. /\ NumberBag(C) /\ DOMAIN C = DOMAIN A \ {k}
      /\ \A j \in DOMAIN C : C[j] = A[j]
      /\ Count(C, Int) \in Nat /\ Count(A, Int) = A[k] + Count(C, Int)
  BY WithoutBin DEF A, C
<1>4. k \in DOMAIN A /\ k \in Int /\ A[k] \in Nat /\ A = v.negative
  BY DEF NumberBag, A
<1>5. BinsHeld(u) = BinsHeld(v) \ {b} /\ b \in BinsHeld(v)
  BY <1>2, <1>3, <1>4 DEF BinsHeld
<1>6. ASSUME NEW c \in BinsHeld(u) PROVE HeldIn(u, c) = HeldIn(v, c)
  <2>1. CASE c.sign = 0
    <3>1. c.size \in DOMAIN C
      BY <2>1, <1>2 DEF BinsHeld
    <3>2. HeldIn(u, c) = C[c.size] /\ HeldIn(v, c) = A[c.size]
      BY <3>1, <2>1, <1>2, <1>3, <1>4 DEF HeldIn, At
    <3> QED BY <3>1, <3>2, <1>3
  <2>2. CASE c.sign # 0
    BY <2>2, <1>2 DEF HeldIn
  <2> QED BY <2>1, <2>2
<1>7. Count(v.positive, Int) \in Nat
  BY CountIsNat
<1>8. u.zero + Count(u.negative, Int) + Count(u.positive, Int)
            = v.zero + Count(v.negative, Int) + Count(v.positive, Int)
  BY <1>2, <1>3, <1>4, <1>7
<1>9. u.zero \in Nat
  BY <1>2, <1>4
<1>10. Collapsed(u, v, b)
  BY <1>2, <1>3, <1>5, <1>6, <1>8, <1>9 DEF Collapsed, Fields
<1> QED BY <1>10 DEF u

(* Collapsing a positive bin moves its count into zero and nothing else. *)
LEMMA PositiveCollapsed ==
    ASSUME NEW v, Fields(v), NumberBag(v.negative), NumberBag(v.positive), v.zero \in Nat,
           NEW k \in DOMAIN v.positive
    PROVE  Collapsed(PositiveIntoZero(v, k), v, [size |-> k, sign |-> 1])
<1> DEFINE u == PositiveIntoZero(v, k)
           b == [size |-> k, sign |-> 1]
           A == v.positive
           C == Without(A, k)
<1>1. u = [v EXCEPT !.zero = @ + A[k], !.positive = C]
  BY DEF PositiveIntoZero
<1> HIDE DEF u
<1>2. /\ DOMAIN u = DOMAIN v /\ u.zero = v.zero + A[k] /\ u.negative = v.negative /\ u.positive = C
      /\ SameStats(u, v)
  BY <1>1 DEF Fields, SameStats
<1> HIDE DEF A, C
<1>3. /\ NumberBag(C) /\ DOMAIN C = DOMAIN A \ {k}
      /\ \A j \in DOMAIN C : C[j] = A[j]
      /\ Count(C, Int) \in Nat /\ Count(A, Int) = A[k] + Count(C, Int)
  BY WithoutBin DEF A, C
<1>4. k \in DOMAIN A /\ k \in Int /\ A[k] \in Nat /\ A = v.positive
  BY DEF NumberBag, A
<1>5. BinsHeld(u) = BinsHeld(v) \ {b} /\ b \in BinsHeld(v)
  BY <1>2, <1>3, <1>4 DEF BinsHeld
<1>6. ASSUME NEW c \in BinsHeld(u) PROVE HeldIn(u, c) = HeldIn(v, c)
  <2>1. CASE c.sign # 0
    <3>1. c.size \in DOMAIN C
      BY <2>1, <1>2 DEF BinsHeld
    <3>2. HeldIn(u, c) = C[c.size] /\ HeldIn(v, c) = A[c.size]
      BY <3>1, <2>1, <1>2, <1>3, <1>4 DEF HeldIn, At
    <3> QED BY <3>1, <3>2, <1>3
  <2>2. CASE c.sign = 0
    BY <2>2, <1>2 DEF HeldIn
  <2> QED BY <2>1, <2>2
<1>7. Count(v.negative, Int) \in Nat
  BY CountIsNat
<1>8. u.zero + Count(u.negative, Int) + Count(u.positive, Int)
            = v.zero + Count(v.negative, Int) + Count(v.positive, Int)
  BY <1>2, <1>3, <1>4, <1>7
<1>9. u.zero \in Nat
  BY <1>2, <1>4
<1>10. Collapsed(u, v, b)
  BY <1>2, <1>3, <1>5, <1>6, <1>8, <1>9 DEF Collapsed, Fields
<1> QED BY <1>10 DEF u

(* CollapseOne takes out the smallest bin. *)
LEMMA CollapseOneSmallest ==
    ASSUME NEW v, Fields(v), NumberBag(v.negative), NumberBag(v.positive), v.zero \in Nat,
           BinsHeld(v) # {}
    PROVE  \E b \in BinsHeld(v) :
              Collapsed(CollapseOne(v), v, b) /\ \A c \in BinsHeld(v) \ {b} : Larger(c, b)
<1> DEFINE S == DOMAIN v.negative \cup DOMAIN v.positive
           k == Min(S)
<1>1. k \in S /\ \A x \in S : k <= x
  <2>1. IsFiniteSet(S) /\ S \in SUBSET Int
    BY FS_Union DEF NumberBag
  <2>2. S # {}
    BY DEF BinsHeld
  <2> HIDE DEF S
  <2> QED BY <2>1, <2>2, MinOfSet
<1>2. \A c \in BinsHeld(v) : /\ c.size \in S /\ c.size \in Int
                             /\ (c.sign = 0 /\ c.size \in DOMAIN v.negative) \/ (c.sign = 1 /\ c.size \in DOMAIN v.positive)
                             /\ c = [size |-> c.size, sign |-> c.sign]
  BY DEF BinsHeld, NumberBag
<1>3. k \in Int
  BY <1>1 DEF NumberBag
<1>4. CollapseOne(v) = IF k \in DOMAIN v.negative THEN NegativeIntoZero(v, k) ELSE PositiveIntoZero(v, k)
  BY DEF CollapseOne
<1> HIDE DEF k
<1>5. CASE k \in DOMAIN v.negative
  <2> DEFINE b == [size |-> k, sign |-> 0]
  <2>1. Collapsed(CollapseOne(v), v, b)
    BY <1>4, <1>5, NegativeCollapsed
  <2>2. \A c \in BinsHeld(v) \ {b} : Larger(c, b)
    BY <1>1, <1>2, <1>3 DEF Larger
  <2>3. b \in BinsHeld(v)
    BY <2>1 DEF Collapsed
  <2> QED BY <2>1, <2>2, <2>3
<1>6. CASE k \notin DOMAIN v.negative
  <2> DEFINE b == [size |-> k, sign |-> 1]
  <2>1. Collapsed(CollapseOne(v), v, b)
    BY <1>1, <1>4, <1>6, PositiveCollapsed
  <2>2. ASSUME NEW c \in BinsHeld(v) \ {b} PROVE Larger(c, b)
    <3>1. c.size # k
      <4> SUFFICES ASSUME c.size = k PROVE FALSE
        OBVIOUS
      <4>1. c.sign = 1
        BY <1>2, <1>6
      <4> QED BY <4>1, <1>2
    <3>2. k <= c.size /\ c.size \in Int
      BY <1>1, <1>2
    <3> QED BY <3>1, <3>2, <1>3 DEF Larger
  <2>3. b \in BinsHeld(v)
    BY <2>1 DEF Collapsed
  <2> QED BY <2>1, <2>2, <2>3
<1> QED BY <1>5, <1>6

(* Of too many bins one that is not kept goes. *)
LEMMA CollapseOneBinned ==
    ASSUME NEW a, ObservedBag(a), NEW v, Fields(v), Binned(v, a), BinsOf(v) > MaxBins
    PROVE  LET u == CollapseOne(v)
           IN  Fields(u) /\ SameStats(u, v) /\ Binned(u, a) /\ BinsOf(u) = BinsOf(v) - 1
<1> DEFINE u == CollapseOne(v)
           B == BinsHeld(v)
           C == BinsIn(a)
<1>1. NumberBag(v.negative) /\ NumberBag(v.positive) /\ v.zero \in Nat /\ B \subseteq C
  BY DEF Binned
<1>2. IsFiniteSet(B) /\ Cardinality(B) = BinsOf(v) /\ BinsOf(v) \in Nat /\ B \subseteq SignedBins
  BY <1>1, HeldCount
<1>3. B # {}
  <2>1. BinsOf(v) # 0
    BY <1>2, SketchAssumption
  <2> HIDE DEF B
  <2> QED BY <2>1, <1>2, FS_EmptySet
<1>4. IsFiniteSet(C) /\ C \subseteq SignedBins
  BY BinsInFinite
<1>5. PICK b \in B : Collapsed(u, v, b) /\ \A c \in B \ {b} : Larger(c, b)
  <2> HIDE DEF u
  <2>1. \E b \in BinsHeld(v) :
              Collapsed(CollapseOne(v), v, b) /\ \A c \in BinsHeld(v) \ {b} : Larger(c, b)
    BY <1>1, <1>3, CollapseOneSmallest
  <2> QED BY <2>1 DEF u
<1> HIDE DEF u, B, C
<1>6. b \notin Largest(C)
  BY <1>1, <1>2, <1>4, <1>5, SmallestNotLargest
<1>7. b \notin Kept(a)
  BY <1>6 DEF Kept, C, BinsIn
<1>8. BinsHeld(u) = B \ {b} /\ NumberBag(u.negative) /\ NumberBag(u.positive) /\ u.zero \in Nat
  BY <1>5 DEF Collapsed, B
<1>9. ASSUME NEW c \in Kept(a) PROVE HeldIn(u, c) = Count(a, Observed(c))
  <2>1. HeldIn(v, c) = Count(a, Observed(c)) /\ c # b
    BY <1>7 DEF Binned
  <2>2. c \in SignedBins
    BY <1>4 DEF Kept, Largest, C, BinsIn
  <2>3. CASE c \in B
    BY <2>1, <2>3, <1>5, <1>8 DEF Collapsed
  <2>4. CASE c \notin B
    <3>1. c \notin BinsHeld(u) /\ c \notin BinsHeld(v)
      BY <2>4, <1>8 DEF B
    <3> QED BY <3>1, <2>1, <2>2, HeldNowhere
  <2> QED BY <2>3, <2>4
<1>10. Binned(u, a)
  BY <1>1, <1>5, <1>8, <1>9 DEF Binned, Collapsed, B, C
<1>11. BinsOf(u) = BinsOf(v) - 1
  <2>1. Cardinality(BinsHeld(u)) = BinsOf(u)
    BY <1>8, HeldCount
  <2>2. Cardinality(B \ {b}) = Cardinality(B) - 1
    BY <1>2, FS_RemoveElement
  <2> QED BY <2>1, <2>2, <1>2, <1>8
<1> QED BY <1>5, <1>10, <1>11 DEF Collapsed, u

CollapseStep(u) == IF BinsOf(u) > MaxBins THEN CollapseOne(u) ELSE u

(* Collapse goes one bin at a time. *)
LEMMA CollapseSteps ==
    ASSUME NEW v, BinsOf(v) \in Nat
    PROVE  \E g : /\ g[0] = v
                  /\ \A n \in 1..BinsOf(v) : g[n] = CollapseStep(g[n - 1])
                  /\ Collapse(v) = g[BinsOf(v)]
<1> DEFINE N == BinsOf(v)
           Next1(g, n) == IF n = 0 THEN v
                          ELSE IF BinsOf(g[n - 1]) > MaxBins THEN CollapseOne(g[n - 1]) ELSE g[n - 1]
           Body(g) == [n \in 0..N |-> Next1(g, n)]
           left == CHOOSE g : g = Body(g)
           S == {k \in 0..N : \E g : g = [n \in 0..k |-> Next1(g, n)]}
<1>1. Collapse(v) = left[N]
  BY DEF Collapse
<1> HIDE DEF N
<1>2. 0 \in S
  <2> DEFINE g == [n \in 0..0 |-> v]
  <2>1. g = [n \in 0..0 |-> Next1(g, n)]
    OBVIOUS
  <2>2. 0 \in 0..N
    BY DEF N
  <2> HIDE DEF g, Next1
  <2> QED BY <2>1, <2>2
<1>3. ASSUME NEW k \in 0..(N - 1), k \in S PROVE k + 1 \in S
  <2>1. PICK g : g = [n \in 0..k |-> Next1(g, n)]
    BY <1>3
  <2> DEFINE h == [n \in 0..(k + 1) |-> IF n <= k THEN g[n] ELSE CollapseStep(g[k])]
  <2>2. \A n \in 0..k : h[n] = g[n] /\ g[n] = Next1(g, n)
    <3>1. \A n \in 0..k : n \in 0..(k + 1) /\ n <= k
      BY DEF N
    <3>2. \A n \in 0..k : g[n] = Next1(g, n)
      <4> HIDE DEF Next1
      <4> QED BY <2>1
    <3> QED BY <3>1, <3>2
  <2>3. h[k + 1] = CollapseStep(g[k])
    BY DEF N
  <2>4. ASSUME NEW n \in 0..(k + 1) PROVE h[n] = Next1(h, n)
    <3>1. CASE n = 0
      <4>1. 0 \in 0..k
        BY DEF N
      <4> QED BY <3>1, <2>2, <4>1
    <3>2. CASE n # 0 /\ n <= k
      <4>1. n \in 0..k /\ n - 1 \in 0..k
        BY <3>2 DEF N
      <4>2. h[n] = g[n] /\ h[n - 1] = g[n - 1] /\ g[n] = Next1(g, n)
        BY <4>1, <2>2
      <4> HIDE DEF h
      <4>3. Next1(h, n) = Next1(g, n)
        BY <4>2, <3>2
      <4> HIDE DEF Next1
      <4> QED BY <4>2, <4>3
    <3>3. CASE n = k + 1
      <4>1. k \in 0..k /\ n # 0 /\ n - 1 = k
        BY <3>3 DEF N
      <4>2. h[k] = g[k]
        BY <4>1, <2>2
      <4> HIDE DEF h
      <4> QED BY <4>1, <4>2, <3>3, <2>3 DEF CollapseStep
    <3> QED BY <3>1, <3>2, <3>3 DEF N
  <2>5. h = [n \in 0..(k + 1) |-> h[n]]
    OBVIOUS
  <2> HIDE DEF h, Next1
  <2>6. h = [n \in 0..(k + 1) |-> Next1(h, n)]
    BY <2>4, <2>5
  <2>7. k + 1 \in 0..N
    BY DEF N
  <2> QED BY <2>6, <2>7
<1>4. N \in S
  <2> HIDE DEF S
  <2>1. N \in Nat
    BY DEF N
  <2>2. \A k \in 0..N : k \in S
    BY <2>1, <1>2, <1>3, NatUpTo
  <2> QED BY <2>1, <2>2
<1>5. left = Body(left)
  <2> HIDE DEF Next1
  <2>1. PICK g : g = Body(g)
    BY <1>4
  <2> HIDE DEF Body
  <2> QED BY <2>1
<1> HIDE DEF left
<1>6. \A n \in 0..N : left[n] = Next1(left, n)
  <2> HIDE DEF Next1
  <2> QED BY <1>5
<1>7. left[0] = v /\ \A n \in 1..N : left[n] = CollapseStep(left[n - 1])
  <2>1. 0 \in 0..N /\ \A n \in 1..N : n \in 0..N /\ n # 0
    BY DEF N
  <2>2. left[0] = v
    BY <1>6, <2>1
  <2>3. ASSUME NEW n \in 1..N PROVE left[n] = CollapseStep(left[n - 1])
    <3>1. left[n] = Next1(left, n)
      BY <2>1, <1>6
    <3> QED BY <3>1, <2>1 DEF CollapseStep
  <2> QED BY <2>2, <2>3
<1> QED BY <1>1, <1>7 DEF N

(* What is kept has been observed, so its bin is held. *)
LEMMA KeptIsHeld ==
    ASSUME NEW a, ObservedBag(a), NEW v, Binned(v, a)
    PROVE  Kept(a) \subseteq BinsHeld(v)
<1> SUFFICES ASSUME NEW b \in Kept(a) PROVE b \in BinsHeld(v)
  OBVIOUS
<1>1. b \in BinsIn(a) /\ b \in SignedBins
  <2>1. b \in BinsIn(a)
    BY DEF Kept, Largest, BinsIn
  <2> QED BY <2>1, BinsInFinite
<1>2. PICK x \in DOMAIN a \ {0} : Signed(x) = b
  BY <1>1 DEF BinsIn
<1>3. x \in DOMAIN a \cap Observed(b)
  BY <1>2 DEF ObservedBag, Observed
<1>4. Count(a, Observed(b)) \in Nat /\ a[x] <= Count(a, Observed(b)) /\ a[x] \in Nat \ {0}
  <2>1. NumberBag(a)
    BY DEF ObservedBag
  <2>2. a[x] \in Nat \ {0}
    BY <2>1 DEF NumberBag
  <2> DEFINE T == Observed(b)
  <2> HIDE DEF T
  <2>3. Count(a, T) \in Nat /\ \A y \in DOMAIN a \cap T : a[y] <= Count(a, T)
    BY <2>1, CountIsNat
  <2> QED BY <2>2, <2>3, <1>3 DEF T
<1>5. HeldIn(v, b) # 0
  BY <1>4 DEF Binned
<1> QED BY <1>1, <1>5, HeldNowhere

(* Collapse leaves the bins that are kept. *)
LEMMA CollapseBinned ==
    ASSUME NEW a, ObservedBag(a), NEW v, Fields(v), Binned(v, a)
    PROVE  LET u == Collapse(v)
           IN  Fields(u) /\ SameStats(u, v) /\ Binned(u, a) /\ BinsOf(u) <= MaxBins
<1> DEFINE N == BinsOf(v)
           Good(u, n) == /\ Fields(u) /\ SameStats(u, v) /\ Binned(u, a) /\ BinsOf(u) \in Nat
                         /\ BinsOf(u) <= MaxBins \/ BinsOf(u) <= N - n
<1>1. \A u : Binned(u, a) => BinsOf(u) \in Nat
  BY HeldCount DEF Binned
<1>2. N \in Nat
  BY <1>1
<1>3. PICK g : /\ g[0] = v
               /\ \A n \in 1..N : g[n] = CollapseStep(g[n - 1])
               /\ Collapse(v) = g[N]
  BY <1>2, CollapseSteps
<1> HIDE DEF N
<1> DEFINE S == {n \in 0..N : Good(g[n], n)}
<1>4. 0 \in S
  BY <1>1, <1>2, <1>3 DEF SameStats, N
<1>5. ASSUME NEW k \in 0..(N - 1), k \in S PROVE k + 1 \in S
  <2> DEFINE u == g[k]
             w == g[k + 1]
  <2>1. Good(u, k)
    BY <1>5
  <2>2. w = CollapseStep(u) /\ k + 1 \in 0..N
    <3>1. k + 1 \in 1..N /\ (k + 1) - 1 = k
      BY <1>2
    <3> QED BY <3>1, <1>3
  <2> HIDE DEF u, w
  <2>3. CASE BinsOf(u) > MaxBins
    <3>1. w = CollapseOne(u)
      BY <2>2, <2>3 DEF CollapseStep
    <3>2. Fields(w) /\ SameStats(w, u) /\ Binned(w, a) /\ BinsOf(w) = BinsOf(u) - 1
      BY <3>1, <2>1, <2>3, CollapseOneBinned
    <3>3. SameStats(w, v)
      BY <3>2, <2>1 DEF SameStats
    <3>4. BinsOf(w) \in Nat /\ BinsOf(w) <= N - (k + 1)
      BY <3>2, <2>1, <2>3, <1>1, <1>2, SketchAssumption
    <3>5. Good(w, k + 1)
      BY <3>2, <3>3, <3>4
    <3> QED BY <3>5, <2>2 DEF w
  <2>4. CASE ~(BinsOf(u) > MaxBins)
    <3>1. w = u
      BY <2>2, <2>4 DEF CollapseStep
    <3>2. BinsOf(w) <= MaxBins
      BY <3>1, <2>1, <2>4, SketchAssumption
    <3>3. Good(w, k + 1)
      BY <3>1, <3>2, <2>1
    <3> QED BY <3>3, <2>2 DEF w
  <2> QED BY <2>3, <2>4
<1>6. Good(g[N], N)
  <2>1. \A k \in 0..N : k \in S
    <3> HIDE DEF S
    <3> QED BY <1>2, <1>4, <1>5, NatUpTo
  <2>2. N \in S
    BY <1>2, <2>1
  <2> QED BY <2>2
<1>7. BinsOf(g[N]) <= MaxBins
  BY <1>6, <1>2, SketchAssumption
<1> QED BY <1>3, <1>6, <1>7

(* Bags are equal when everything occurs in both as often. *)
LEMMA BagEqual ==
    ASSUME NEW a, NEW c, NumberBag(a), NumberBag(c), \A x : At(a, x) = At(c, x)
    PROVE  a = c
<1>1. /\ \A x \in DOMAIN a : a[x] \in Nat \ {0}
      /\ \A x \in DOMAIN c : c[x] \in Nat \ {0}
      /\ a = [x \in DOMAIN a |-> a[x]] /\ c = [x \in DOMAIN c |-> c[x]]
  BY DEF NumberBag
<1>2. ASSUME NEW x PROVE x \in DOMAIN a <=> x \in DOMAIN c
  <2>1. At(a, x) = At(c, x)
    OBVIOUS
  <2> QED BY <2>1, <1>1 DEF At
<1>3. DOMAIN a = DOMAIN c
  BY <1>2
<1>4. \A x \in DOMAIN a : a[x] = c[x]
  <2> SUFFICES ASSUME NEW x \in DOMAIN a PROVE a[x] = c[x]
    OBVIOUS
  <2>1. At(a, x) = At(c, x)
    OBVIOUS
  <2> QED BY <2>1, <1>3 DEF At
<1> QED BY <1>1, <1>3, <1>4

(* Adding bags is associative. *)
LEMMA PlusAssociative ==
    ASSUME NEW a, NEW b, NEW c, NumberBag(a), NumberBag(b), NumberBag(c)
    PROVE  (a (+) b) (+) c = a (+) (b (+) c)
<1> DEFINE d == a (+) b
           e == b (+) c
           f == d (+) c
           g == a (+) e
<1>1. NumberBag(d) /\ \A x : At(d, x) = At(a, x) + At(b, x)
  BY PlusBag
<1>2. NumberBag(e) /\ \A x : At(e, x) = At(b, x) + At(c, x)
  BY PlusBag
<1> HIDE DEF d, e
<1>3. NumberBag(f) /\ \A x : At(f, x) = At(d, x) + At(c, x)
  BY <1>1, PlusBag
<1>4. NumberBag(g) /\ \A x : At(g, x) = At(a, x) + At(e, x)
  BY <1>2, PlusBag
<1> HIDE DEF f, g
<1>5. ASSUME NEW x PROVE At(f, x) = At(g, x)
  <2>1. At(a, x) \in Nat /\ At(b, x) \in Nat /\ At(c, x) \in Nat
    BY DEF At, NumberBag
  <2>2. At(f, x) = (At(a, x) + At(b, x)) + At(c, x)
    BY <1>1, <1>3
  <2>3. At(g, x) = At(a, x) + (At(b, x) + At(c, x))
    BY <1>2, <1>4
  <2> QED BY <2>1, <2>2, <2>3
<1>6. f = g
  BY <1>3, <1>4, <1>5, BagEqual
<1> QED BY <1>6 DEF f, g, d, e

-----------------------------------------------------------------------------
(* Observations in a sequence, and the bag of the first k of them. *)
First(xs, k) == [x \in {xs[i] : i \in 1..k} |-> Cardinality({i \in 1..k : xs[i] = x})]

Observing(xs, n) == n \in Nat /\ DOMAIN xs = 1..n /\ \A i \in 1..n : xs[i] \in Observation

(* The first k of a list of observations are a bag of observations. *)
LEMMA FirstBag ==
    ASSUME NEW xs, NEW n, Observing(xs, n), NEW k \in 0..n
    PROVE  ObservedBag(First(xs, k))
<1> DEFINE a == First(xs, k)
           f == [i \in 1..k |-> xs[i]]
           D == {xs[i] : i \in 1..k}
<1>1. IsFiniteSet(1..k) /\ k \in Nat
  BY FS_Interval DEF Observing
<1>2. D \subseteq Observation /\ D \subseteq Int
  <2>1. \A i \in 1..k : i \in 1..n
    BY DEF Observing
  <2>2. \A i \in 1..k : xs[i] \in Observation
    BY <2>1 DEF Observing
  <2>3. D \subseteq Observation
    BY <2>2
  <2> QED BY <2>3, SketchAssumption
<1>3. IsFiniteSet(D)
  <2>1. f \in Surjection(1..k, D)
    BY DEF Surjection
  <2> HIDE DEF f, D
  <2> QED BY <1>1, <2>1, FS_Surjection
<1>4. a = [x \in D |-> Cardinality({i \in 1..k : xs[i] = x})]
  BY DEF First
<1>5. ASSUME NEW x \in D PROVE Cardinality({i \in 1..k : xs[i] = x}) \in Nat \ {0}
  <2> DEFINE T == {i \in 1..k : xs[i] = x}
  <2>1. T # {} /\ T \subseteq 1..k
    OBVIOUS
  <2> HIDE DEF T
  <2>2. IsFiniteSet(T)
    BY <1>1, <2>1, FS_Subset
  <2>3. Cardinality(T) \in Nat /\ Cardinality(T) # 0
    BY <2>1, <2>2, FS_CardinalityType, FS_EmptySet
  <2> QED BY <2>3 DEF T
<1>6. DOMAIN a = D /\ \A x \in D : a[x] \in Nat \ {0}
  BY <1>4, <1>5
<1>7. a = [x \in DOMAIN a |-> a[x]]
  BY <1>4
<1> HIDE DEF a, D
<1>8. ObservedBag(a)
  BY <1>2, <1>3, <1>6, <1>7 DEF ObservedBag, NumberBag
<1> QED BY <1>8 DEF a

(* The first none are nothing. *)
LEMMA FirstNone ==
    ASSUME NEW xs
    PROVE  First(xs, 0) = EmptyBag
<1>1. 1..0 = {}
  OBVIOUS
<1>2. First(xs, 0) = [x \in {} |-> Cardinality({i \in 1..0 : xs[i] = x})]
  BY <1>1 DEF First
<1>3. EmptyBag = [x \in {} |-> 1]
  BY DEF EmptyBag, SetToBag
<1> QED BY <1>2, <1>3

(* How often a value occurs among the first k. *)
LEMMA AtFirst ==
    ASSUME NEW xs, NEW k \in Nat, NEW x
    PROVE  At(First(xs, k), x) = Cardinality({i \in 1..k : xs[i] = x})
<1> DEFINE D == {xs[i] : i \in 1..k}
<1>1. DOMAIN First(xs, k) = D
  BY DEF First
<1>2. CASE x \in D
  <2>1. First(xs, k)[x] = Cardinality({i \in 1..k : xs[i] = x})
    BY <1>2 DEF First
  <2> QED BY <2>1, <1>1, <1>2 DEF At
<1>3. CASE x \notin D
  <2>1. {i \in 1..k : xs[i] = x} = {}
    BY <1>3
  <2>2. At(First(xs, k), x) = 0
    BY <1>1, <1>3 DEF At
  <2> QED BY <2>1, <2>2, FS_EmptySet
<1> QED BY <1>2, <1>3

(* The first k + 1 are the first k and one more. *)
LEMMA FirstPlus ==
    ASSUME NEW xs, NEW n, Observing(xs, n), NEW k \in 0..(n - 1)
    PROVE  First(xs, k + 1) = First(xs, k) (+) SetToBag({xs[k + 1]})
<1> DEFINE a == First(xs, k)
           y == xs[k + 1]
           o == SetToBag({y})
           c == First(xs, k + 1)
           d == a (+) o
<1>1. k \in Nat /\ k \in 0..n /\ k + 1 \in 0..n /\ k + 1 \in 1..n
  BY DEF Observing
<1>2. NumberBag(a) /\ NumberBag(c)
  BY <1>1, FirstBag DEF ObservedBag
<1>3. y \in Int
  BY <1>1, SketchAssumption DEF Observing
<1>4. NumberBag(o) /\ DOMAIN o = {y} /\ o[y] = 1
  <2> HIDE DEF y
  <2> QED BY <1>3, OneBag
<1>5. NumberBag(d) /\ \A x : At(d, x) = At(a, x) + At(o, x)
  <2> HIDE DEF a, o
  <2> QED BY <1>2, <1>4, PlusBag
<1>6. ASSUME NEW x PROVE At(c, x) = At(d, x)
  <2> DEFINE T == {i \in 1..k : xs[i] = x}
             U == {i \in 1..(k + 1) : xs[i] = x}
  <2>1. At(a, x) = Cardinality(T)
    BY <1>1, AtFirst
  <2>2. At(c, x) = Cardinality(U)
    <3>1. k + 1 \in Nat
      BY <1>1
    <3> QED BY <3>1, AtFirst
  <2>3. IsFiniteSet(T)
    <3>1. T \subseteq 1..k /\ IsFiniteSet(1..k)
      BY <1>1, FS_Interval
    <3> HIDE DEF T
    <3> QED BY <3>1, FS_Subset
  <2>4. At(o, x) = IF x = y THEN 1 ELSE 0
    BY <1>4 DEF At
  <2>5. At(a, x) \in Nat
    BY <1>2 DEF At, NumberBag
  <2>6. At(d, x) = At(a, x) + At(o, x)
    BY <1>5
  <2> HIDE DEF a, c, d, o
  <2>7. CASE x = y
    <3>1. U = T \cup {k + 1} /\ k + 1 \notin T
      BY <2>7, <1>1
    <3> HIDE DEF T, U, y
    <3>2. Cardinality(U) = Cardinality(T) + 1
      BY <2>3, <3>1, FS_AddElement
    <3> QED BY <3>2, <2>1, <2>2, <2>4, <2>5, <2>6, <2>7
  <2>8. CASE x # y
    <3>1. U = T
      <4>1. xs[k + 1] # x
        BY <2>8 DEF y
      <4>2. \A i \in 1..(k + 1) : xs[i] = x => i \in 1..k
        BY <4>1, <1>1
      <4>3. \A i \in 1..k : i \in 1..(k + 1)
        BY <1>1
      <4> QED BY <4>2, <4>3
    <3> HIDE DEF T, U
    <3> QED BY <3>1, <2>1, <2>2, <2>4, <2>5, <2>6, <2>8
  <2> QED BY <2>7, <2>8
<1> HIDE DEF a, c, d, o, y
<1>7. c = d
  BY <1>2, <1>5, <1>6, BagEqual
<1> QED BY <1>7 DEF a, c, d, o, y

(* The first n of n are all of them. *)
LEMMA FirstAll ==
    ASSUME NEW xs, NEW n, Observing(xs, n)
    PROVE  ToBag(xs) = First(xs, n)
BY DEF ToBag, First, Range, Observing

(* What AddBins and AddAllApprox do with one observation. *)
Added(approx, v, x) == IF approx THEN AddApprox(v, x) ELSE AddBin(v, x)

AddedAll(approx, v, xs) == IF approx THEN AddAllApprox(v, xs) ELSE AddBins(v, xs)

(* They go through the sequence from left to right. *)
LEMMA AddSteps ==
    ASSUME NEW approx \in BOOLEAN, NEW v, NEW xs, NEW n, Observing(xs, n)
    PROVE  \E h : /\ h[0] = v
                  /\ \A k \in 1..n : h[k] = Added(approx, h[k - 1], xs[k])
                  /\ AddedAll(approx, v, xs) = h[n]
<1> DEFINE Fold(g, s) == IF s = {} THEN v ELSE Added(approx, g[s \ {Max(s)}], xs[Max(s)])
           Body(g, k) == [s \in SUBSET (1..k) |-> Fold(g, s)]
           S == {k \in 0..n : \E g : g = Body(g, k)}
<1>0. n \in Nat /\ DOMAIN xs = 1..n
  BY DEF Observing
<1>2. ASSUME NEW k \in Nat, NEW s \in SUBSET (1..k), s # {}
      PROVE  Max(s) \in s /\ \A i \in s : i <= Max(s)
  <2>1. IsFiniteSet(1..k)
    BY FS_Interval
  <2>2. IsFiniteSet(s)
    <3> DEFINE T == 1..k
    <3> HIDE DEF T
    <3>1. s \in SUBSET T /\ IsFiniteSet(T)
      BY <2>1 DEF T
    <3> QED BY <3>1, FS_Subset
  <2>3. s \in SUBSET Int
    OBVIOUS
  <2> QED BY <2>2, <2>3, <1>2, MaxOfSet
<1>3. 0 \in S
  <2> DEFINE g == [s \in SUBSET (1..0) |-> v]
  <2>1. \A s \in SUBSET (1..0) : s = {}
    OBVIOUS
  <2>2. \A s \in SUBSET (1..0) : Fold(g, s) = v
    BY <2>1
  <2> HIDE DEF Fold
  <2>3. Body(g, 0) = g
    BY <2>2
  <2>4. 0 \in 0..n
    BY <1>0
  <2> HIDE DEF g, Body
  <2> QED BY <2>3, <2>4
<1>4. ASSUME NEW k \in 0..(n - 1), k \in S PROVE k + 1 \in S
  <2> DEFINE m == k + 1
             Old == SUBSET (1..k)
             All == SUBSET (1..m)
  <2>0. k \in Nat /\ m \in Nat /\ m \in 0..n
    BY <1>0
  <2>1. PICK g : g = Body(g, k)
    BY <1>4
  <2>2. \A s \in Old : g[s] = Fold(g, s)
    <3> HIDE DEF Fold
    <3> QED BY <2>1
  <2> DEFINE h == [s \in All |-> IF m \in s THEN Added(approx, g[s \ {m}], xs[m]) ELSE g[s]]
  <2>3. ASSUME NEW s \in Old PROVE s \in All /\ m \notin s
    BY <2>0
  <2>4. \A s \in Old : h[s] = g[s]
    BY <2>3
  <2>5. ASSUME NEW s \in All PROVE h[s] = Fold(h, s)
    <3>1. CASE s = {}
      <4>1. s \in Old
        BY <3>1
      <4>2. h[s] = g[s] /\ g[s] = Fold(g, s)
        BY <4>1, <2>2, <2>4
      <4>3. Fold(g, s) = v /\ Fold(h, s) = v
        BY <3>1
      <4> QED BY <4>2, <4>3
    <3>2. CASE s # {} /\ m \in s
      <4>1. Max(s) \in s /\ \A i \in s : i <= Max(s)
        <5> HIDE DEF m
        <5> QED BY <2>0, <3>2, <1>2
      <4>2. Max(s) = m
        <5>1. \A i \in s : i \in Int /\ i <= m
          BY <2>0
        <5> DEFINE x == Max(s)
        <5> HIDE DEF x, m
        <5>2. x \in s /\ m \in s /\ m <= x
          BY <4>1, <3>2 DEF x
        <5>3. x <= m /\ x \in Int /\ m \in Int
          BY <5>1, <5>2
        <5>4. x = m
          BY <5>2, <5>3
        <5> QED BY <5>4 DEF x
      <4>3. s \ {m} \in Old
        BY <2>0
      <4>4. h[s \ {m}] = g[s \ {m}]
        BY <4>3, <2>4
      <4>5. h[s] = Added(approx, g[s \ {m}], xs[m])
        BY <3>2
      <4>6. Fold(h, s) = Added(approx, h[s \ {m}], xs[m])
        <5> HIDE DEF h, m
        <5> QED BY <3>2, <4>2
      <4> HIDE DEF h, m, Fold
      <4> QED BY <4>4, <4>5, <4>6
    <3>3. CASE s # {} /\ m \notin s
      <4>1. s \in Old
        BY <3>3, <2>0
      <4>2. s \ {Max(s)} \in Old
        BY <4>1
      <4>3. h[s] = g[s] /\ g[s] = Fold(g, s) /\ h[s \ {Max(s)}] = g[s \ {Max(s)}]
        BY <4>1, <4>2, <2>2, <2>4
      <4>4. Fold(h, s) = Fold(g, s)
        <5> HIDE DEF h
        <5> QED BY <4>3
      <4> HIDE DEF h, Fold
      <4> QED BY <4>3, <4>4
    <3> QED BY <3>1, <3>2, <3>3
  <2>6. h = [s \in All |-> h[s]]
    OBVIOUS
  <2> HIDE DEF h, Fold
  <2>7. h = Body(h, m)
    BY <2>5, <2>6
  <2> HIDE DEF Body
  <2> QED BY <2>0, <2>7
<1>5. n \in S
  <2> HIDE DEF S
  <2>1. \A k \in 0..n : k \in S
    BY <1>0, <1>3, <1>4, NatUpTo
  <2> QED BY <1>0, <2>1
<1>6. PICK fold : fold = Body(fold, n) /\ AddedAll(approx, v, xs) = fold[1..n]
  <2>1. PICK g : g = Body(g, n)
    BY <1>5
  <2>2. CASE approx = TRUE
    <3> DEFINE F(f) == [s \in SUBSET DOMAIN xs |->
                  IF s = {} THEN v ELSE AddApprox(f[s \ {Max(s)}], xs[Max(s)])]
               c == CHOOSE f : f = F(f)
    <3>1. \A f : Body(f, n) = F(f)
      BY <1>0, <2>2 DEF Added
    <3>2. AddAllApprox(v, xs) = c[DOMAIN xs]
      BY DEF AddAllApprox, FoldLeft, MapThenFoldSet
    <3> HIDE DEF F, Body
    <3>3. c = F(c)
      BY <2>1, <3>1
    <3> HIDE DEF c
    <3> QED BY <1>0, <2>2, <3>1, <3>2, <3>3 DEF AddedAll
  <2>3. CASE approx = FALSE
    <3> DEFINE F(f) == [s \in SUBSET DOMAIN xs |->
                  IF s = {} THEN v ELSE AddBin(f[s \ {Max(s)}], xs[Max(s)])]
               c == CHOOSE f : f = F(f)
    <3>1. \A f : Body(f, n) = F(f)
      BY <1>0, <2>3 DEF Added
    <3>2. AddBins(v, xs) = c[DOMAIN xs]
      BY DEF AddBins, FoldLeft, MapThenFoldSet
    <3> HIDE DEF F, Body
    <3>3. c = F(c)
      BY <2>1, <3>1
    <3> HIDE DEF c
    <3> QED BY <1>0, <2>3, <3>1, <3>2, <3>3 DEF AddedAll
  <2> QED BY <2>2, <2>3
<1>7. \A s \in SUBSET (1..n) : fold[s] = Fold(fold, s)
  <2> HIDE DEF Fold
  <2> QED BY <1>6
<1> DEFINE h == [k \in 0..n |-> fold[1..k]]
<1>8. h[0] = v /\ h[n] = fold[1..n]
  <2>1. 1..0 = {} /\ 1..0 \in SUBSET (1..n) /\ 0 \in 0..n /\ n \in 0..n
    BY <1>0
  <2>2. fold[{}] = v
    BY <1>7
  <2> QED BY <2>1, <2>2
<1>9. ASSUME NEW k \in 1..n PROVE h[k] = Added(approx, h[k - 1], xs[k])
  <2> DEFINE s == 1..k
  <2>1. k \in Nat /\ s \in SUBSET (1..n) /\ s \in SUBSET (1..k) /\ s # {} /\ k \in s /\ s \ {k} = 1..(k - 1)
        /\ \A i \in s : i \in Int /\ i <= k
    BY <1>0
  <2>2. Max(s) \in s /\ \A i \in s : i <= Max(s)
    <3> HIDE DEF s
    <3> QED BY <2>1, <1>2
  <2>3. Max(s) = k
    BY <2>1, <2>2
  <2>4. fold[s] = Fold(fold, s)
    <3> HIDE DEF Fold, s
    <3> QED BY <2>1, <1>7
  <2> HIDE DEF s
  <2>5. fold[s] = Added(approx, fold[s \ {k}], xs[k])
    BY <2>1, <2>3, <2>4
  <2>6. h[k] = fold[1..k] /\ h[k - 1] = fold[1..(k - 1)]
    BY <1>0
  <2> QED BY <2>1, <2>5, <2>6 DEF s
<1> HIDE DEF h
<1> QED BY <1>6, <1>8, <1>9

-----------------------------------------------------------------------------
(* The statistics of v are those of bag. *)
Stats(v, bag) ==
    /\ v.count = Count(bag, Int)
    /\ v.sum = Value(bag)
    /\ v.min \in Int /\ v.max \in Int
    /\ bag # EmptyBag => v.min = Min(DOMAIN bag) /\ v.max = Max(DOMAIN bag)

(* A bag that counts nothing is the empty one. *)
LEMMA EmptyCount ==
    ASSUME NEW a, NumberBag(a)
    PROVE  /\ Count(a, Int) \in Nat
           /\ a = EmptyBag <=> Count(a, Int) = 0
           /\ a = EmptyBag <=> DOMAIN a = {}
<1>1. Count(a, Int) \in Nat /\ \A x \in DOMAIN a \cap Int : a[x] <= Count(a, Int)
  BY CountIsNat
<1>2. DOMAIN a \cap Int = DOMAIN a /\ \A x \in DOMAIN a : a[x] \in Nat \ {0}
  BY DEF NumberBag
<1>3. DOMAIN a # {} => Count(a, Int) # 0
  <2> SUFFICES ASSUME NEW x \in DOMAIN a, Count(a, Int) = 0 PROVE FALSE
    OBVIOUS
  <2>1. a[x] <= Count(a, Int) /\ a[x] \in Nat \ {0}
    BY <1>1, <1>2
  <2> QED BY <2>1
<1>4. DOMAIN a = {} => a = EmptyBag
  <2> SUFFICES ASSUME DOMAIN a = {} PROVE a = EmptyBag
    OBVIOUS
  <2>1. NumberBag(EmptyBag) /\ DOMAIN EmptyBag = {}
    BY NoBag
  <2>2. \A x : At(a, x) = At(EmptyBag, x)
    BY <2>1 DEF At
  <2> QED BY <2>1, <2>2, BagEqual
<1>5. a = EmptyBag => Count(a, Int) = 0 /\ DOMAIN a = {}
  BY NoBag
<1> QED BY <1>1, <1>3, <1>4, <1>5

(* The smallest and the largest of two sets. *)
LEMMA BoundsOfBoth ==
    ASSUME NEW A \in SUBSET Int, NEW B \in SUBSET Int, IsFiniteSet(A), IsFiniteSet(B), B # {}
    PROVE  /\ Min(A \cup B) = IF A = {} \/ Min(B) < Min(A) THEN Min(B) ELSE Min(A)
           /\ Max(A \cup B) = IF A = {} \/ Max(B) > Max(A) THEN Max(B) ELSE Max(A)
<1> DEFINE C == A \cup B
<1>1. C \in SUBSET Int /\ IsFiniteSet(C) /\ C # {} /\ \A x : x \in C <=> x \in A \/ x \in B
  BY FS_Union
<1> HIDE DEF C
<1>2. Min(C) \in C /\ \A x \in C : Min(C) <= x
  BY <1>1, MinOfSet
<1>3. Max(C) \in C /\ \A x \in C : x <= Max(C)
  BY <1>1, MaxOfSet
<1>4. Min(B) \in B /\ \A x \in B : Min(B) <= x
  BY MinOfSet
<1>5. Max(B) \in B /\ \A x \in B : x <= Max(B)
  BY MaxOfSet
<1> DEFINE a == Min(A)
           b == Min(B)
           c == Min(C)
           p == Max(A)
           q == Max(B)
           r == Max(C)
<1>6. CASE A = {}
  <2>1. C = B
    BY <1>1, <1>6
  <2> QED BY <2>1, <1>6 DEF C
<1>7. CASE A # {}
  <2>1. a \in A /\ \A x \in A : a <= x
    BY <1>7, MinOfSet
  <2>2. p \in A /\ \A x \in A : x <= p
    BY <1>7, MaxOfSet
  <2> HIDE DEF a, b, c, p, q, r
  <2>3. a \in Int /\ b \in Int /\ c \in Int /\ p \in Int /\ q \in Int /\ r \in Int
    BY <1>1, <1>2, <1>3, <1>4, <1>5, <2>1, <2>2 DEF b, c, q, r
  <2>4. c <= a /\ c <= b /\ (a <= c \/ b <= c)
    BY <1>1, <1>2, <1>4, <2>1 DEF b, c
  <2>5. p <= r /\ q <= r /\ (r <= p \/ r <= q)
    BY <1>1, <1>3, <1>5, <2>2 DEF q, r
  <2>6. c = IF b < a THEN b ELSE a
    BY <2>3, <2>4
  <2>7. r = IF q > p THEN q ELSE p
    BY <2>3, <2>5
  <2> QED BY <2>6, <2>7, <1>7 DEF a, b, c, p, q, r, C
<1> QED BY <1>6, <1>7

(* Statistics of two bags. *)
LEMMA StatsPlus ==
    ASSUME NEW a, NEW c, NumberBag(a), NumberBag(c), c # EmptyBag,
           NEW v, NEW w, Stats(v, a), Stats(w, c),
           NEW u, u.count = v.count + w.count, u.sum = v.sum + w.sum,
           u.min = IF v.count = 0 \/ w.min < v.min THEN w.min ELSE v.min,
           u.max = IF v.count = 0 \/ w.max > v.max THEN w.max ELSE v.max
    PROVE  Stats(u, a (+) c)
<1> DEFINE d == a (+) c
           A == DOMAIN a
           C == DOMAIN c
<1>1. NumberBag(d) /\ DOMAIN d = A \cup C
  BY PlusBag
<1>2. Count(d, Int) = Count(a, Int) + Count(c, Int)
  BY CountPlus
<1>3. Value(d) = Value(a) + Value(c)
  BY ValuePlus
<1> HIDE DEF d
<1>4. A \in SUBSET Int /\ C \in SUBSET Int /\ IsFiniteSet(A) /\ IsFiniteSet(C)
  BY DEF NumberBag
<1>5. /\ C # {}
      /\ v.count = 0 <=> A = {}
      /\ a # EmptyBag <=> A # {}
  <2>1. (a = EmptyBag <=> Count(a, Int) = 0) /\ (a = EmptyBag <=> A = {}) /\ (c = EmptyBag <=> C = {})
    BY EmptyCount
  <2> QED BY <2>1 DEF Stats
<1>6. /\ w.min = Min(C) /\ w.max = Max(C)
      /\ A # {} => v.min = Min(A) /\ v.max = Max(A)
  BY <1>5 DEF Stats
<1> HIDE DEF A, C
<1>7. /\ Min(A \cup C) = IF A = {} \/ Min(C) < Min(A) THEN Min(C) ELSE Min(A)
      /\ Max(A \cup C) = IF A = {} \/ Max(C) > Max(A) THEN Max(C) ELSE Max(A)
  BY <1>4, <1>5, BoundsOfBoth
<1>8. u.min = Min(DOMAIN d) /\ u.max = Max(DOMAIN d)
  <2>1. CASE A = {}
    BY <2>1, <1>1, <1>5, <1>6, <1>7
  <2>2. CASE A # {}
    BY <2>2, <1>1, <1>5, <1>6, <1>7
  <2> QED BY <2>1, <2>2
<1>9. u.count = Count(d, Int) /\ u.sum = Value(d)
  BY <1>2, <1>3 DEF Stats
<1>10. Stats(u, d)
  <2>1. u.min \in Int /\ u.max \in Int
    BY DEF Stats
  <2> QED BY <1>8, <1>9, <2>1 DEF Stats
<1> QED BY <1>10 DEF d

(* AddStats adds one observation. *)
LEMMA AddStatsStats ==
    ASSUME NEW a, NumberBag(a), NEW v, Fields(v), Stats(v, a), NEW x \in Int
    PROVE  LET u == AddStats(v, x)
           IN  /\ Fields(u) /\ Stats(u, a (+) SetToBag({x}))
               /\ u.exact = v.exact /\ u.zero = v.zero
               /\ u.negative = v.negative /\ u.positive = v.positive
<1> DEFINE u == AddStats(v, x)
           o == SetToBag({x})
           w == [count |-> 1, sum |-> x, min |-> x, max |-> x]
<1>1. /\ Fields(u)
      /\ u.exact = v.exact /\ u.zero = v.zero
      /\ u.negative = v.negative /\ u.positive = v.positive
      /\ u.count = v.count + 1 /\ u.sum = v.sum + x
      /\ u.min = IF v.count = 0 \/ x < v.min THEN x ELSE v.min
      /\ u.max = IF v.count = 0 \/ x > v.max THEN x ELSE v.max
  BY DEF AddStats, Fields
<1>2. NumberBag(o) /\ DOMAIN o = {x} /\ o[x] = 1 /\ Value(o) = x /\ Count(o, Int) = 1
  BY OneBag
<1>3. Min({x}) = x /\ Max({x}) = x
  <2>1. {x} \in SUBSET Int /\ IsFiniteSet({x}) /\ {x} # {}
    BY FS_Singleton
  <2>2. Min({x}) \in {x}
    BY <2>1, MinOfSet
  <2>3. Max({x}) \in {x}
    BY <2>1, MaxOfSet
  <2> QED BY <2>2, <2>3
<1> HIDE DEF o
<1>4. o # EmptyBag
  BY <1>2, EmptyCount
<1>5. Stats(w, o)
  BY <1>2, <1>3 DEF Stats
<1>6. w.count = 1 /\ w.sum = x /\ w.min = x /\ w.max = x
  OBVIOUS
<1> HIDE DEF u, w
<1>7. Stats(u, a (+) o)
  BY <1>1, <1>2, <1>4, <1>5, <1>6, StatsPlus
<1> QED BY <1>1, <1>7 DEF u, o

(* v is an approximate sketch of bag. *)
Sketched(v, bag) ==
    Fields(v) /\ v.exact = <<>> /\ Stats(v, bag) /\ Binned(v, bag) /\ BinsOf(v) <= MaxBins

(* A new value is a sketch of nothing. *)
LEMMA NewSketched == Sketched(NewSketch, EmptyBag)
<1> DEFINE v == NewSketch
<1>1. Fields(v) /\ v.exact = <<>> /\ v.zero = 0 /\ v.negative = EmptyBag /\ v.positive = EmptyBag
      /\ v.count = 0 /\ v.sum = 0 /\ v.min = 0 /\ v.max = 0
  BY DEF NewSketch, Fields
<1> HIDE DEF v
<1>2. Binned(v, EmptyBag)
  BY <1>1, BinnedNone
<1>3. Stats(v, EmptyBag)
  BY <1>1, NoBag DEF Stats
<1>4. BinsOf(v) <= MaxBins
  <2>1. Cardinality({}) = 0
    BY FS_EmptySet
  <2> QED BY <2>1, <1>1, NoBag, SketchAssumption DEF BinsOf
<1>5. Sketched(v, EmptyBag)
  BY <1>1, <1>2, <1>3, <1>4 DEF Sketched
<1> QED BY <1>5 DEF v

(* What leaves count, sum, min and max alone leaves them right. *)
LEMMA SameStatsStats ==
    ASSUME NEW a, NEW u, NEW v, SameStats(u, v), Stats(v, a)
    PROVE  Stats(u, a)
BY DEF SameStats, Stats

(* AddApprox adds one observation. *)
LEMMA AddApproxSketched ==
    ASSUME NEW a, ObservedBag(a), NEW v, Sketched(v, a), NEW x \in Observation
    PROVE  LET c == a (+) SetToBag({x})
           IN  ObservedBag(c) /\ Sketched(AddApprox(v, x), c)
<1> DEFINE c == a (+) SetToBag({x})
           s == AddStats(v, x)
           t == AddBin(s, x)
           u == Collapse(t)
<1>0. u = AddApprox(v, x) /\ x \in Int
  BY SketchAssumption DEF AddApprox
<1>1. ObservedBag(c)
  BY BinnedOne, BinsInPlus
<1>2. /\ Fields(s) /\ Stats(s, c)
      /\ s.exact = v.exact /\ s.zero = v.zero
      /\ s.negative = v.negative /\ s.positive = v.positive
  BY <1>0, AddStatsStats DEF Sketched, ObservedBag
<1> HIDE DEF s
<1>3. Binned(s, a)
  BY <1>2 DEF Sketched, Binned, BinsHeld, HeldIn
<1>4. Fields(t) /\ SameStats(t, s) /\ Binned(t, c)
  BY <1>2, <1>3, AddBinBinned
<1> HIDE DEF t, c
<1>5. Fields(u) /\ SameStats(u, t) /\ Binned(u, c) /\ BinsOf(u) <= MaxBins
  BY <1>1, <1>4, CollapseBinned
<1> HIDE DEF u
<1>6. Stats(u, c)
  BY <1>2, <1>4, <1>5, SameStatsStats
<1>7. u.exact = <<>>
  BY <1>2, <1>4, <1>5 DEF SameStats, Sketched
<1>8. Sketched(u, c)
  BY <1>5, <1>6, <1>7 DEF Sketched
<1> QED BY <1>0, <1>1, <1>8 DEF c

(* The first k observations of xs added to a bag. *)
Grown(a, xs, k) == a (+) First(xs, k)

(* Adding a list of observations to a bag, one at a time. *)
LEMMA GrownSteps ==
    ASSUME NEW a, ObservedBag(a), NEW xs, NEW n, Observing(xs, n)
    PROVE  /\ Grown(a, xs, 0) = a
           /\ Grown(a, xs, n) = a (+) ToBag(xs)
           /\ \A k \in 0..n : ObservedBag(Grown(a, xs, k))
           /\ \A k \in 1..n : /\ xs[k] \in Observation
                              /\ Grown(a, xs, k) = Grown(a, xs, k - 1) (+) SetToBag({xs[k]})
<1>0. n \in Nat /\ NumberBag(a)
  BY DEF Observing, ObservedBag
<1>1. Grown(a, xs, 0) = a
  BY <1>0, FirstNone, PlusNothing DEF Grown
<1>2. Grown(a, xs, n) = a (+) ToBag(xs)
  BY FirstAll DEF Grown
<1>3. ASSUME NEW k \in 0..n PROVE ObservedBag(Grown(a, xs, k))
  <2>1. ObservedBag(First(xs, k))
    BY FirstBag
  <2> QED BY <2>1, BinsInPlus DEF Grown
<1>4. ASSUME NEW k \in 1..n
      PROVE  xs[k] \in Observation /\ Grown(a, xs, k) = Grown(a, xs, k - 1) (+) SetToBag({xs[k]})
  <2> DEFINE j == k - 1
             o == SetToBag({xs[j + 1]})
             f == First(xs, j)
  <2>1. j \in 0..(n - 1) /\ j \in 0..n /\ j + 1 = k
    BY <1>0
  <2>2. xs[k] \in Observation
    BY DEF Observing
  <2> HIDE DEF j
  <2>3. First(xs, j + 1) = f (+) o
    BY <2>1, FirstPlus
  <2>4. NumberBag(f)
    BY <2>1, FirstBag DEF ObservedBag
  <2>5. NumberBag(o)
    BY <2>1, <2>2, BinnedOne DEF ObservedBag
  <2> HIDE DEF f, o
  <2>6. (a (+) f) (+) o = a (+) (f (+) o)
    BY <1>0, <2>4, <2>5, PlusAssociative
  <2>7. Grown(a, xs, j + 1) = Grown(a, xs, j) (+) o
    BY <2>3, <2>6 DEF Grown, f
  <2> QED BY <2>1, <2>2, <2>7 DEF j, o
<1> QED BY <1>1, <1>2, <1>3, <1>4

(* AddAllApprox adds them all. *)
LEMMA AddAllApproxSketched ==
    ASSUME NEW a, ObservedBag(a), NEW v, Sketched(v, a), NEW xs, NEW n, Observing(xs, n)
    PROVE  ObservedBag(a (+) ToBag(xs)) /\ Sketched(AddAllApprox(v, xs), a (+) ToBag(xs))
<1> DEFINE G(k) == Grown(a, xs, k)
<1>1. /\ G(0) = a /\ G(n) = a (+) ToBag(xs)
      /\ \A k \in 0..n : ObservedBag(G(k))
      /\ \A k \in 1..n : xs[k] \in Observation /\ G(k) = G(k - 1) (+) SetToBag({xs[k]})
  BY GrownSteps
<1> HIDE DEF G
<1>2. PICK h : /\ h[0] = v
               /\ \A k \in 1..n : h[k] = AddApprox(h[k - 1], xs[k])
               /\ AddAllApprox(v, xs) = h[n]
  <2>1. PICK h : /\ h[0] = v
                 /\ \A k \in 1..n : h[k] = Added(TRUE, h[k - 1], xs[k])
                 /\ AddedAll(TRUE, v, xs) = h[n]
    <3>1. ASSUME NEW c \in BOOLEAN
          PROVE  \E h : /\ h[0] = v
                        /\ \A k \in 1..n : h[k] = Added(c, h[k - 1], xs[k])
                        /\ AddedAll(c, v, xs) = h[n]
      BY AddSteps
    <3> QED BY <3>1
  <2> QED BY <2>1 DEF Added, AddedAll
<1> DEFINE S == {k \in 0..n : Sketched(h[k], G(k))}
<1>3. n \in Nat
  BY DEF Observing
<1>4. 0 \in S
  BY <1>1, <1>2, <1>3
<1>5. ASSUME NEW k \in 0..(n - 1), k \in S PROVE k + 1 \in S
  <2> DEFINE j == k + 1
             x == xs[j]
             b == G(k)
  <2>1. j \in 1..n /\ j \in 0..n /\ j - 1 = k /\ k \in 0..n
    BY <1>3
  <2> HIDE DEF j
  <2>2. h[j] = AddApprox(h[k], x) /\ x \in Observation /\ G(j) = b (+) SetToBag({x})
    BY <2>1, <1>1, <1>2
  <2>3. ObservedBag(b) /\ Sketched(h[k], b)
    BY <2>1, <1>1, <1>5
  <2> HIDE DEF x, b
  <2>4. Sketched(AddApprox(h[k], x), b (+) SetToBag({x}))
    BY <2>2, <2>3, AddApproxSketched
  <2> QED BY <2>1, <2>2, <2>4 DEF j
<1>6. n \in S
  <2> HIDE DEF S
  <2>1. \A k \in 0..n : k \in S
    BY <1>3, <1>4, <1>5, NatUpTo
  <2> QED BY <1>3, <2>1
<1> QED BY <1>1, <1>2, <1>3, <1>6

(* AddBins adds them to the bins alone. *)
LEMMA AddBinsBinned ==
    ASSUME NEW a, ObservedBag(a), NEW v, Fields(v), Binned(v, a), NEW xs, NEW n, Observing(xs, n)
    PROVE  LET u == AddBins(v, xs)
           IN  Fields(u) /\ SameStats(u, v) /\ Binned(u, a (+) ToBag(xs)) /\ ObservedBag(a (+) ToBag(xs))
<1> DEFINE G(k) == Grown(a, xs, k)
           Good(u, b) == Fields(u) /\ SameStats(u, v) /\ Binned(u, b)
<1>1. /\ G(0) = a /\ G(n) = a (+) ToBag(xs)
      /\ \A k \in 0..n : ObservedBag(G(k))
      /\ \A k \in 1..n : xs[k] \in Observation /\ G(k) = G(k - 1) (+) SetToBag({xs[k]})
  BY GrownSteps
<1> HIDE DEF G
<1>2. PICK h : /\ h[0] = v
               /\ \A k \in 1..n : h[k] = AddBin(h[k - 1], xs[k])
               /\ AddBins(v, xs) = h[n]
  <2>1. PICK h : /\ h[0] = v
                 /\ \A k \in 1..n : h[k] = Added(FALSE, h[k - 1], xs[k])
                 /\ AddedAll(FALSE, v, xs) = h[n]
    <3>1. ASSUME NEW c \in BOOLEAN
          PROVE  \E h : /\ h[0] = v
                        /\ \A k \in 1..n : h[k] = Added(c, h[k - 1], xs[k])
                        /\ AddedAll(c, v, xs) = h[n]
      BY AddSteps
    <3> QED BY <3>1
  <2> QED BY <2>1 DEF Added, AddedAll
<1> DEFINE S == {k \in 0..n : Good(h[k], G(k))}
<1>3. n \in Nat
  BY DEF Observing
<1>4. 0 \in S
  BY <1>1, <1>2, <1>3 DEF SameStats
<1>5. ASSUME NEW k \in 0..(n - 1), k \in S PROVE k + 1 \in S
  <2> DEFINE j == k + 1
             x == xs[j]
             b == G(k)
             u == h[k]
             w == AddBin(u, x)
  <2>1. j \in 1..n /\ j \in 0..n /\ j - 1 = k /\ k \in 0..n
    BY <1>3
  <2> HIDE DEF j
  <2>2. h[j] = w /\ x \in Observation /\ G(j) = b (+) SetToBag({x})
    BY <2>1, <1>1, <1>2
  <2>3. ObservedBag(b) /\ Good(u, b)
    BY <2>1, <1>1, <1>5
  <2> HIDE DEF x, b, u
  <2>4. Fields(w) /\ SameStats(w, u) /\ Binned(w, b (+) SetToBag({x}))
    BY <2>2, <2>3, AddBinBinned
  <2> HIDE DEF w
  <2>5. SameStats(w, v)
    BY <2>3, <2>4 DEF SameStats
  <2>6. Good(h[j], G(j))
    BY <2>2, <2>4, <2>5
  <2> QED BY <2>1, <2>6 DEF j
<1>6. Good(h[n], G(n))
  <2>1. n \in S
    <3> HIDE DEF S
    <3>1. \A k \in 0..n : k \in S
      BY <1>3, <1>4, <1>5, NatUpTo
    <3> QED BY <1>3, <3>1
  <2> QED BY <2>1
<1>7. ObservedBag(G(n))
  BY <1>1, <1>3
<1> QED BY <1>1, <1>2, <1>6, <1>7

-----------------------------------------------------------------------------
(* Bins survive their encoding. *)
LEMMA ZigZagBack ==
    ASSUME NEW k \in Int
    PROVE  UnZigZag(ZigZag(k)) = k
<1>1. CASE k >= 0
  <2>1. ZigZag(k) = 2 * k
    BY <1>1 DEF ZigZag
  <2>2. (2 * k) % 2 = 0 /\ (2 * k) \div 2 = k
    BY <1>1
  <2> QED BY <2>1, <2>2 DEF UnZigZag
<1>2. CASE k < 0
  <2>1. ZigZag(k) = -2 * k - 1
    BY <1>2 DEF ZigZag
  <2>2. (-2 * k - 1) % 2 # 0 /\ (-2 * k - 1) \div 2 = -k - 1
    BY <1>2
  <2> DEFINE w == -2 * k - 1
  <2>3. UnZigZag(w) = -(w \div 2) - 1
    BY <2>2 DEF UnZigZag
  <2> QED BY <2>1, <2>2, <2>3
<1> QED BY <1>1, <1>2

Rising(q, n) == \A i \in 2..n : q[i - 1] < q[i]

(* A set of keys can be listed in increasing order. *)
LEMMA KeysSortable ==
    ASSUME NEW S \in SUBSET Int, IsFiniteSet(S)
    PROVE  \E q \in SetToSeqs(S) : Rising(q, Cardinality(S))
<1>1. \A T \in SUBSET S : IsFiniteSet(T) /\ Cardinality(T) \in Nat
  BY FS_Subset, FS_CardinalityType
<1> DEFINE n == Cardinality(S)
           Sorts(T) == \E q \in SetToSeqs(T) : Rising(q, Cardinality(T))
           K == {k \in 0..n : \A T \in SUBSET S : Cardinality(T) = k => Sorts(T)}
<1>2. 0 \in K
  <2>1. ASSUME NEW T \in SUBSET S, Cardinality(T) = 0 PROVE Sorts(T)
    <3> DEFINE q == <<>>
    <3>1. q \in [1..0 -> T]
      OBVIOUS
    <3>2. q \in SetToSeqs(T)
      BY <2>1, <3>1 DEF SetToSeqs
    <3>3. Rising(q, Cardinality(T))
      BY <2>1 DEF Rising
    <3> QED BY <3>2, <3>3
  <2> HIDE DEF Sorts
  <2> QED BY <2>1, <1>1
<1>3. ASSUME NEW k \in 0..(n - 1), k \in K PROVE k + 1 \in K
  <2>0. k \in Nat
    BY <1>1
  <2>1. ASSUME NEW T \in SUBSET S, Cardinality(T) = k + 1 PROVE Sorts(T)
    <3>1. T # {}
      BY <2>1, <1>1, FS_EmptySet
    <3> DEFINE m == Max(T)
               R == T \ {m}
    <3>2. m \in T /\ \A x \in T : x <= m
      <4>1. T \in SUBSET Int /\ IsFiniteSet(T)
        BY <1>1
      <4> QED BY <3>1, <4>1, MaxOfSet
    <3> HIDE DEF m
    <3>3. Cardinality(R) = k
      <4>1. Cardinality(R) = Cardinality(T) - 1
        BY <1>1, <3>2, FS_RemoveElement
      <4> HIDE DEF R
      <4> QED BY <4>1, <2>1
    <3>4. PICK q \in SetToSeqs(R) : Rising(q, k)
      <4>1. Sorts(R)
        <5>1. R \in SUBSET S
          OBVIOUS
        <5> HIDE DEF R, Sorts
        <5> QED BY <5>1, <3>3, <1>3
      <4> HIDE DEF R
      <4> QED BY <4>1, <3>3
    <3>5. q \in [1..k -> R] /\ \A i, j \in 1..k : i # j => q[i] # q[j]
      <4> HIDE DEF R
      <4> QED BY <3>3, <3>4 DEF SetToSeqs
    <3> DEFINE r == [i \in 1..(k + 1) |-> IF i = k + 1 THEN m ELSE q[i]]
    <3>6. \A i \in 1..k : i \in 1..(k + 1) /\ i # k + 1 /\ q[i] \in R
      BY <3>5
    <3>7. r \in [1..(k + 1) -> T]
      BY <3>2, <3>6
    <3>8. \A i, j \in 1..(k + 1) : i # j => r[i] # r[j]
      <4> SUFFICES ASSUME NEW i \in 1..(k + 1), NEW j \in 1..(k + 1), i # j PROVE r[i] # r[j]
        OBVIOUS
      <4>1. (i \in 1..k \/ i = k + 1) /\ (j \in 1..k \/ j = k + 1)
        OBVIOUS
      <4> QED BY <4>1, <3>5, <3>6
    <3>9. r \in SetToSeqs(T)
      <4> HIDE DEF r
      <4> QED BY <2>1, <3>7, <3>8 DEF SetToSeqs
    <3>10. Rising(r, k + 1)
      <4>1. ASSUME NEW i \in 2..(k + 1) PROVE r[i - 1] < r[i]
        <5>1. r[i - 1] = q[i - 1] /\ i - 1 \in 1..k /\ q[i - 1] \in R
          BY <3>6
        <5>2. CASE i = k + 1
          <6>1. r[i] = m
            BY <5>2
          <6>2. q[i - 1] <= m /\ q[i - 1] # m /\ q[i - 1] \in Int /\ m \in Int
            BY <5>1, <3>2
          <6> HIDE DEF r
          <6> QED BY <5>1, <6>1, <6>2
        <5>3. CASE i # k + 1
          <6>1. i \in 2..k /\ r[i] = q[i]
            BY <5>3, <2>0
          <6>2. q[i - 1] < q[i]
            BY <6>1, <3>4 DEF Rising
          <6> HIDE DEF r
          <6> QED BY <5>1, <6>1, <6>2
        <5> QED BY <5>2, <5>3
      <4> HIDE DEF r
      <4> QED BY <4>1 DEF Rising
    <3> HIDE DEF r
    <3>11. Rising(r, Cardinality(T))
      BY <2>1, <3>10
    <3> QED BY <3>9, <3>11
  <2>2. k + 1 \in 0..n
    BY <1>1
  <2> HIDE DEF Sorts
  <2> QED BY <2>1, <2>2
<1>4. n \in K
  <2>1. n \in Nat
    BY <1>1
  <2> HIDE DEF K, n
  <2>2. \A k \in 0..n : k \in K
    BY <2>1, <1>2, <1>3, NatUpTo
  <2> QED BY <2>1, <2>2
<1>5. Sorts(S)
  BY <1>4
<1> QED BY <1>5

(* sortedIntKeys lists all the keys once, in order. *)
LEMMA KeysSorted ==
    ASSUME NEW S \in SUBSET Int, IsFiniteSet(S)
    PROVE  LET q == SortedKeys(S)
               n == Cardinality(S)
           IN  /\ n \in Nat /\ q \in [1..n -> S] /\ Rising(q, n)
               /\ \A i, j \in 1..n : q[i] = q[j] => i = j
               /\ \A k \in S : \E i \in 1..n : q[i] = k
<1> DEFINE n == Cardinality(S)
           q == SortedKeys(S)
<1>0. n \in Nat
  BY FS_CardinalityType
<1>1. \A r \in SetToSeqs(S) : /\ r \in [1..n -> S] /\ Len(r) = n
                              /\ \A i, j \in 1..n : i # j => r[i] # r[j]
  <2> SUFFICES ASSUME NEW r \in SetToSeqs(S)
               PROVE  r \in [1..n -> S] /\ Len(r) = n /\ \A i, j \in 1..n : i # j => r[i] # r[j]
    OBVIOUS
  <2>1. r \in [1..n -> S] /\ \A i, j \in 1..n : i # j => r[i] # r[j]
    BY DEF SetToSeqs
  <2> HIDE DEF n
  <2>2. Len(r) = n
    BY <1>0, <2>1
  <2> QED BY <2>1, <2>2
<1>2. \E r \in SetToSeqs(S) : \A i \in 2..Len(r) : r[i - 1] < r[i]
  <2>1. PICK r \in SetToSeqs(S) : Rising(r, n)
    BY KeysSortable
  <2> HIDE DEF n
  <2>2. Len(r) = n
    BY <1>1
  <2> QED BY <2>1, <2>2 DEF Rising
<1>3. q \in SetToSeqs(S) /\ \A i \in 2..Len(q) : q[i - 1] < q[i]
  BY <1>2 DEF SortedKeys
<1> HIDE DEF q
<1>4. q \in [1..n -> S] /\ Len(q) = n /\ \A i, j \in 1..n : i # j => q[i] # q[j]
  BY <1>1, <1>3
<1>5. Rising(q, n)
  BY <1>3, <1>4 DEF Rising
<1>6. \A k \in S : \E i \in 1..n : q[i] = k
  <2>1. IsFiniteSet(1..n) /\ Cardinality(1..n) = n
    <3> HIDE DEF n
    <3> QED BY <1>0, FS_Interval
  <2>2. q \in Injection(1..n, S)
    BY <1>4 DEF Injection, IsInjective
  <2>3. Cardinality(1..n) = Cardinality(S) <=> q \in Surjection(1..n, S)
    <3> DEFINE D == 1..n
    <3> HIDE DEF D
    <3>1. q \in Injection(D, S)
      BY <2>2 DEF D
    <3>2. Cardinality(D) = Cardinality(S) <=> q \in Surjection(D, S)
      BY <3>1, FS_Injection
    <3> QED BY <3>2 DEF D
  <2>4. q \in Surjection(1..n, S)
    BY <2>1, <2>3
  <2> QED BY <2>4 DEF Surjection
<1> QED BY <1>0, <1>4, <1>5, <1>6 DEF q

(* Bins decoded are the bins encoded. *)
LEMMA BinsSurvive ==
    ASSUME NEW bins, NumberBag(bins)
    PROVE  DecodeBins(EncodeBins(bins)) = bins
<1> DEFINE S == DOMAIN bins
           q == SortedKeys(S)
           n == Cardinality(S)
           coded == EncodeBins(bins)
           First1(i) == IF i = 1 THEN ZigZag(q[1]) ELSE q[i] - q[i - 1]
           Next1(g, i) == IF i = 1 THEN UnZigZag(coded[1].key) ELSE g[i - 1] + coded[i].key
           key == CHOOSE g : g = [i \in DOMAIN coded |-> Next1(g, i)]
           at(k) == CHOOSE i \in DOMAIN coded : key[i] = k
<1>0. S \in SUBSET Int /\ IsFiniteSet(S) /\ bins = [k \in S |-> bins[k]]
  BY DEF NumberBag
<1>1. /\ n \in Nat /\ q \in [1..n -> S] /\ Rising(q, n)
      /\ \A i, j \in 1..n : q[i] = q[j] => i = j
      /\ \A k \in S : \E i \in 1..n : q[i] = k
  <2> HIDE DEF S
  <2> QED BY <1>0, KeysSorted
<1>2. DecodeBins(coded) = [k \in {key[i] : i \in DOMAIN coded} |-> coded[at(k)].count]
  BY DEF DecodeBins
<1>3. coded = [i \in DOMAIN q |-> [key |-> First1(i), count |-> bins[q[i]]]]
  BY DEF EncodeBins
<1> HIDE DEF q, n, coded
<1>4. DOMAIN coded = 1..n /\ \A i \in 1..n : coded[i].key = First1(i) /\ coded[i].count = bins[q[i]]
  <2>1. DOMAIN q = 1..n
    BY <1>1
  <2> HIDE DEF First1
  <2> QED BY <1>3, <2>1
<1>5. ASSUME NEW i \in 1..n PROVE q[i] = Next1(q, i) /\ q[i] \in Int
  <2>1. q[i] \in Int /\ 1 \in 1..n /\ q[1] \in Int
    BY <1>0, <1>1
  <2>2. CASE i = 1
    <3>1. coded[1].key = ZigZag(q[1])
      BY <1>4, <2>1
    <3> QED BY <3>1, <2>1, <2>2, ZigZagBack
  <2>3. CASE i # 1
    <3>1. coded[i].key = q[i] - q[i - 1]
      BY <1>4, <2>3
    <3>2. i - 1 \in 1..n
      BY <1>1, <2>3
    <3>3. q[i - 1] \in Int
      BY <1>0, <1>1, <3>2
    <3>4. q[i] = q[i - 1] + (q[i] - q[i - 1])
      BY <2>1, <3>3
    <3> QED BY <3>1, <3>4, <2>1, <2>3
  <2> QED BY <2>2, <2>3
<1>6. key = [i \in DOMAIN coded |-> Next1(key, i)]
  <2> HIDE DEF Next1
  <2>1. q = [i \in DOMAIN coded |-> Next1(q, i)]
    BY <1>1, <1>4, <1>5
  <2> QED BY <2>1
<1> HIDE DEF key
<1>7. \A i \in 1..n : key[i] = Next1(key, i)
  <2> HIDE DEF Next1
  <2> QED BY <1>4, <1>6
<1>8. \A i \in 1..n : key[i] = q[i]
  <2> DEFINE K == {i \in 0..n : i = 0 \/ key[i] = q[i]}
  <2>1. 0 \in K
    BY <1>1
  <2>2. ASSUME NEW k \in 0..(n - 1), k \in K PROVE k + 1 \in K
    <3> DEFINE i == k + 1
    <3>1. i \in 1..n /\ i \in 0..n /\ i - 1 = k
      BY <1>1
    <3> HIDE DEF i
    <3>2. key[i] = Next1(key, i) /\ q[i] = Next1(q, i)
      BY <1>5, <1>7, <3>1
    <3>3. Next1(key, i) = Next1(q, i)
      <4>1. CASE i = 1
        BY <4>1
      <4>2. CASE i # 1
        <5>1. key[i - 1] = q[i - 1]
          BY <4>2, <2>2, <3>1
        <5> QED BY <4>2, <5>1
      <4> QED BY <4>1, <4>2
    <3> HIDE DEF Next1
    <3>4. key[i] = q[i]
      BY <3>2, <3>3
    <3> QED BY <3>1, <3>4 DEF i
  <2>3. \A i \in 0..n : i \in K
    <3> HIDE DEF K
    <3> QED BY <1>1, <2>1, <2>2, NatUpTo
  <2>4. \A i \in 1..n : i \in K /\ i # 0
    BY <1>1, <2>3
  <2> QED BY <2>4
<1>9. {key[i] : i \in DOMAIN coded} = S
  <2> DEFINE D == DOMAIN coded
  <2>1. D = 1..n
    BY <1>4
  <2> HIDE DEF D, S
  <2>2. \A i \in D : key[i] \in S
    BY <1>1, <1>8, <2>1
  <2>3. \A k \in S : \E i \in D : key[i] = k
    BY <1>1, <1>8, <2>1
  <2>4. {key[i] : i \in D} = S
    BY <2>2, <2>3
  <2> QED BY <2>4 DEF D
<1>10. ASSUME NEW k \in S PROVE coded[at(k)].count = bins[k]
  <2>1. \E i \in DOMAIN coded : key[i] = k
    BY <1>1, <1>4, <1>8
  <2>2. at(k) \in DOMAIN coded /\ key[at(k)] = k
    BY <2>1
  <2> HIDE DEF at
  <2>3. q[at(k)] = k
    BY <1>4, <1>8, <2>2
  <2> QED BY <1>4, <2>2, <2>3
<1> HIDE DEF at, S
<1>11. DecodeBins(coded) = [k \in S |-> bins[k]]
  BY <1>2, <1>9, <1>10
<1> QED BY <1>0, <1>11 DEF coded

(* A sketch decoded is the sketch encoded. *)
LEMMA SketchSurvives ==
    ASSUME NEW a, NEW v, Sketched(v, a)
    PROVE  Sketched(Payload(EncodeApprox(v)), a)
<1> DEFINE u == Payload(EncodeApprox(v))
           bytes == EncodeApprox(v)
<1>1. bytes = [count |-> v.count, sum |-> v.sum, min |-> v.min, max |-> v.max, zero |-> v.zero,
               negative |-> EncodeBins(v.negative), positive |-> EncodeBins(v.positive)]
  BY DEF EncodeApprox, Approximate, Sketched
<1>2. DecodeBins(EncodeBins(v.negative)) = v.negative
  BY BinsSurvive DEF Sketched, Binned
<1>3. DecodeBins(EncodeBins(v.positive)) = v.positive
  BY BinsSurvive DEF Sketched, Binned
<1>4. /\ u.count = v.count /\ u.sum = v.sum /\ u.min = v.min /\ u.max = v.max /\ u.exact = <<>>
      /\ u.zero = v.zero /\ u.negative = v.negative /\ u.positive = v.positive /\ Fields(u)
  <2> HIDE DEF bytes
  <2>1. u = [count |-> bytes.count, sum |-> bytes.sum, min |-> bytes.min, max |-> bytes.max,
             exact |-> <<>>, zero |-> bytes.zero,
             negative |-> DecodeBins(bytes.negative), positive |-> DecodeBins(bytes.positive)]
    BY DEF Payload, bytes
  <2>2. /\ bytes.count = v.count /\ bytes.sum = v.sum /\ bytes.min = v.min /\ bytes.max = v.max
        /\ bytes.zero = v.zero /\ bytes.negative = EncodeBins(v.negative)
        /\ bytes.positive = EncodeBins(v.positive)
    BY <1>1
  <2>3. DecodeBins(bytes.negative) = v.negative /\ DecodeBins(bytes.positive) = v.positive
    BY <2>2, <1>2, <1>3
  <2> HIDE DEF u
  <2> QED BY <2>1, <2>2, <2>3 DEF Fields
<1> HIDE DEF u
<1>5. Stats(u, a)
  BY <1>4 DEF Sketched, Stats
<1>6. Binned(u, a)
  BY <1>4 DEF Sketched, Binned, BinsHeld, HeldIn
<1>7. BinsOf(u) <= MaxBins
  BY <1>4 DEF Sketched, BinsOf
<1>8. Sketched(u, a)
  BY <1>4, <1>5, <1>6, <1>7 DEF Sketched
<1> QED BY <1>8 DEF u

-----------------------------------------------------------------------------
(* An approximate sketch is the one of its observations. *)
LEMMA HeldIsKept ==
    ASSUME NEW a, ObservedBag(a), NEW v, Sketched(v, a)
    PROVE  BinsHeld(v) = Kept(a)
<1> DEFINE B == BinsHeld(v)
           C == BinsIn(a)
<1>1. C \in SUBSET SignedBins /\ IsFiniteSet(C) /\ Kept(a) = Largest(C)
  BY BinsInFinite DEF Kept, BinsIn
<1>2. B \in SUBSET C /\ NumberBag(v.negative) /\ NumberBag(v.positive)
  BY DEF Sketched, Binned
<1>3. Largest(C) \subseteq B
  BY <1>1, KeptIsHeld DEF Sketched
<1>4. Cardinality(B) <= MaxBins
  BY <1>2, HeldCount DEF Sketched
<1> HIDE DEF B, C
<1>5. B = Largest(C)
  BY <1>1, <1>2, <1>3, <1>4, JustTheLargest
<1> QED BY <1>1, <1>5 DEF B

(* The observations of the bins of one sign. *)
OfBins(s, K) == {x \in Observation \ {0} : \E k \in K : Signed(x) = [size |-> k, sign |-> s]}

(* Bins hold as many as were observed in them. *)
LEMMA BinsCount ==
    ASSUME NEW a, ObservedBag(a), NEW f, NumberBag(f), NEW s,
           \A k \in DOMAIN f : f[k] = Count(a, Observed([size |-> k, sign |-> s]))
    PROVE  Count(f, Int) = Count(a, OfBins(s, DOMAIN f))
<1> DEFINE D == DOMAIN f
           C == {K \in SUBSET D : SumFunctionOnSet(f, K) = Count(a, OfBins(s, K))}
<1>0. IsFiniteSet(D) /\ NumberBag(a) /\ D \cap Int = D /\ Weighted(f, D)
  BY DEF NumberBag, ObservedBag, Weighted
<1>1. {} \in C
  <2>1. OfBins(s, {}) = {}
    BY DEF OfBins
  <2>2. Count(a, {}) = 0
    BY CountNone
  <2>3. SumFunctionOnSet(f, {}) = 0
    BY SumNothing
  <2> QED BY <2>1, <2>2, <2>3
<1>2. ASSUME NEW K \in SUBSET D, NEW k \in D, k \notin K, K \in C PROVE K \cup {k} \in C
  <2> DEFINE R == Observed([size |-> k, sign |-> s])
             Q == OfBins(s, K)
             L == K \cup {k}
  <2>1. OfBins(s, L) = R \cup Q
    BY DEF OfBins, Observed
  <2>2. R \cap Q = {}
    BY <1>2 DEF OfBins, Observed
  <2>3. f[k] = Count(a, R)
    OBVIOUS
  <2>4. SumFunctionOnSet(f, K) = Count(a, Q)
    BY <1>2
  <2>5. L \in SUBSET D
    OBVIOUS
  <2>6. SumFunctionOnSet(f, L) = f[k] + SumFunctionOnSet(f, K)
    <3>1. Weighted(f, L)
      <4> HIDE DEF L, D
      <4> QED BY <1>0, <2>5, PartWeighted
    <3> QED BY <3>1, <1>2, SumAdds
  <2> HIDE DEF R, Q, L
  <2>7. Count(a, R \cup Q) = Count(a, R) + Count(a, Q)
    BY <1>0, <2>2, CountDisjoint
  <2>8. SumFunctionOnSet(f, L) = Count(a, OfBins(s, L))
    BY <2>1, <2>3, <2>4, <2>6, <2>7
  <2> QED BY <2>5, <2>8 DEF L
<1>3. D \in C
  <2>1. \A K \in SUBSET D, k \in D : k \notin K /\ K \in C => K \cup {k} \in C
    BY <1>2
  <2> HIDE DEF C, D
  <2> QED BY <1>0, <1>1, <2>1, FiniteUpTo
<1> QED BY <1>0, <1>3 DEF Count

(* What is not in a bin that is held, is in zero. *)
LEMMA ZeroIsTheRest ==
    ASSUME NEW a, ObservedBag(a), NEW v, Sketched(v, a)
    PROVE  v.zero = Count(a, {x \in Observation : x = 0 \/ Signed(x) \notin Kept(a)})
<1> DEFINE Z == {x \in Observation : x = 0 \/ Signed(x) \notin Kept(a)}
           N == OfBins(0, DOMAIN v.negative)
           P == OfBins(1, DOMAIN v.positive)
           Q == N \cup P
<1>0. NumberBag(v.negative) /\ NumberBag(v.positive) /\ v.zero \in Nat /\ NumberBag(a)
  BY DEF Sketched, Binned, ObservedBag
<1>1. BinsHeld(v) = Kept(a)
  BY HeldIsKept
<1>2. \A b \in BinsHeld(v) : HeldIn(v, b) = Count(a, Observed(b))
  BY <1>1 DEF Sketched, Binned
<1>3. Count(v.negative, Int) = Count(a, N)
  <2> DEFINE f == v.negative
  <2>1. ASSUME NEW k \in DOMAIN f PROVE f[k] = Count(a, Observed([size |-> k, sign |-> 0]))
    <3> DEFINE b == [size |-> k, sign |-> 0]
    <3>1. b \in BinsHeld(v) /\ HeldIn(v, b) = f[k]
      BY DEF BinsHeld, HeldIn, At
    <3> HIDE DEF b, f
    <3>2. f[k] = Count(a, Observed(b))
      BY <3>1, <1>2
    <3> QED BY <3>2 DEF b
  <2>2. NumberBag(f)
    BY <1>0
  <2> HIDE DEF f
  <2>3. Count(f, Int) = Count(a, OfBins(0, DOMAIN f))
    BY <2>1, <2>2, BinsCount
  <2> QED BY <2>3 DEF f
<1>4. Count(v.positive, Int) = Count(a, P)
  <2> DEFINE f == v.positive
  <2>1. ASSUME NEW k \in DOMAIN f PROVE f[k] = Count(a, Observed([size |-> k, sign |-> 1]))
    <3> DEFINE b == [size |-> k, sign |-> 1]
    <3>1. b \in BinsHeld(v) /\ HeldIn(v, b) = f[k]
      BY DEF BinsHeld, HeldIn, At
    <3> HIDE DEF b, f
    <3>2. f[k] = Count(a, Observed(b))
      BY <3>1, <1>2
    <3> QED BY <3>2 DEF b
  <2>2. NumberBag(f)
    BY <1>0
  <2> HIDE DEF f
  <2>3. Count(f, Int) = Count(a, OfBins(1, DOMAIN f))
    BY <2>1, <2>2, BinsCount
  <2> QED BY <2>3 DEF f
<1>5. N \cap P = {} /\ Z \cap Q = {} /\ Z \cup Q = Observation
  <2>1. \A x \in Observation \ {0} : Signed(x) \in SignedBins
    BY SignedType
  <2>2. \A x \in Observation \ {0} : x \in Q <=> Signed(x) \in BinsHeld(v)
    BY DEF OfBins, BinsHeld
  <2>3. N \cap P = {}
    BY DEF OfBins
  <2>4. 0 \notin Q /\ Q \subseteq Observation
    BY DEF OfBins
  <2> HIDE DEF Q
  <2> QED BY <1>1, <2>2, <2>3, <2>4
<1> HIDE DEF N, P
<1>6. Count(a, Q) = Count(a, N) + Count(a, P)
  BY <1>0, <1>5, CountDisjoint
<1> HIDE DEF Q, Z
<1>7. Count(a, Z \cup Q) = Count(a, Z) + Count(a, Q)
  BY <1>0, <1>5, CountDisjoint
<1>8. Count(a, Z \cup Q) = Count(a, Int)
  <2>1. DOMAIN a \cap Observation = DOMAIN a \cap Int
    BY SketchAssumption DEF ObservedBag
  <2> QED BY <1>5, <2>1, CountCommon
<1>9. v.zero + Count(v.negative, Int) + Count(v.positive, Int) = Count(a, Int)
  BY DEF Sketched, Binned
<1>10. Count(a, Z) \in Nat /\ Count(a, N) \in Nat /\ Count(a, P) \in Nat
  BY <1>0, CountIsNat
<1>11. v.zero = Count(a, Z)
  <2> DEFINE q == Count(a, Q)
             z == Count(a, Z)
             n == Count(a, N)
             p == Count(a, P)
             t == Count(a, Int)
  <2>1. q = n + p
    BY <1>6
  <2>2. t = z + q
    BY <1>7, <1>8
  <2>3. v.zero + n + p = t
    BY <1>3, <1>4, <1>9
  <2>4. z \in Nat /\ n \in Nat /\ p \in Nat /\ v.zero \in Nat
    BY <1>0, <1>10
  <2> HIDE DEF q, z, n, p, t
  <2>5. v.zero = z
    BY <2>1, <2>2, <2>3, <2>4
  <2> QED BY <2>5 DEF z
<1> QED BY <1>11 DEF Z

(* A sketch of a bag, with its bins within the limit, is the one sketch of it. *)
LEMMA SketchedIsSketchOf ==
    ASSUME NEW a, ObservedBag(a), NEW v, Sketched(v, a)
    PROVE  IsSketchOf(v, a)
<1> DEFINE K == Kept(a)
           D == DOMAIN a
<1>0. NumberBag(a) /\ NumberBag(v.negative) /\ NumberBag(v.positive) /\ D \subseteq Observation
  BY DEF Sketched, Binned, ObservedBag
<1>1. BinsHeld(v) = K /\ K \subseteq SignedBins
  <2>1. K = BinsHeld(v)
    BY HeldIsKept
  <2> QED BY <2>1, <1>0, HeldCount
<1>2. \A b \in K : HeldIn(v, b) = Count(a, Observed(b))
  BY DEF Sketched, Binned
<1>3. v.count = SumFunction(a) /\ v.sum = SumFunction([x \in D |-> x * a[x]])
  BY <1>0, CountAll DEF Sketched, Stats, Value
<1>4. a # EmptyBag => v.min = Min(D) /\ v.max = Max(D)
  BY DEF Sketched, Stats
<1> HIDE DEF K
<1>5. DOMAIN v.negative = {b.size : b \in {c \in K : c.sign = 0}}
  <2>1. ASSUME NEW k \in DOMAIN v.negative PROVE \E b \in {c \in K : c.sign = 0} : b.size = k
    <3> DEFINE b == [size |-> k, sign |-> 0]
    <3>1. b \in K /\ b.sign = 0 /\ b.size = k
      BY <1>1 DEF BinsHeld
    <3> QED BY <3>1
  <2>2. ASSUME NEW b \in {c \in K : c.sign = 0} PROVE b.size \in DOMAIN v.negative
    BY <1>1 DEF BinsHeld
  <2> QED BY <2>1, <2>2
<1>6. DOMAIN v.positive = {b.size : b \in {c \in K : c.sign = 1}}
  <2>1. ASSUME NEW k \in DOMAIN v.positive PROVE \E b \in {c \in K : c.sign = 1} : b.size = k
    <3> DEFINE b == [size |-> k, sign |-> 1]
    <3>1. b \in K /\ b.sign = 1 /\ b.size = k
      BY <1>1 DEF BinsHeld
    <3> QED BY <3>1
  <2>2. ASSUME NEW b \in {c \in K : c.sign = 1} PROVE b.size \in DOMAIN v.positive
    BY <1>1 DEF BinsHeld
  <2> QED BY <2>1, <2>2
<1>7. ASSUME NEW k \in DOMAIN v.negative
      PROVE  v.negative[k] = SumFunctionOnSet(a, {x \in D : x < 0 /\ Key(x) = k})
  <2> DEFINE b == [size |-> k, sign |-> 0]
  <2>1. b \in K /\ HeldIn(v, b) = v.negative[k]
    BY <1>1 DEF BinsHeld, HeldIn, At
  <2>2. D \cap Observed(b) = {x \in D : x < 0 /\ Key(x) = k}
    <3>1. ASSUME NEW x \in D PROVE x \in Observed(b) <=> x < 0 /\ Key(x) = k
      <4>1. x \in Observation /\ x \in Int
        BY <1>0, SketchAssumption
      <4>2. Signed(x) = b <=> Key(x) = k /\ (IF x < 0 THEN 0 ELSE 1) = b.sign
        BY DEF Signed
      <4> QED BY <4>1, <4>2 DEF Observed
    <3> HIDE DEF b
    <3> QED BY <3>1
  <2> HIDE DEF b
  <2>3. v.negative[k] = SumFunctionOnSet(a, D \cap Observed(b))
    BY <2>1, <1>2 DEF Count
  <2> QED BY <2>2, <2>3
<1>8. ASSUME NEW k \in DOMAIN v.positive
      PROVE  v.positive[k] = SumFunctionOnSet(a, {x \in D : x > 0 /\ Key(x) = k})
  <2> DEFINE b == [size |-> k, sign |-> 1]
  <2>1. b \in K /\ HeldIn(v, b) = v.positive[k]
    BY <1>1 DEF BinsHeld, HeldIn, At
  <2>2. D \cap Observed(b) = {x \in D : x > 0 /\ Key(x) = k}
    <3>1. ASSUME NEW x \in D PROVE x \in Observed(b) <=> x > 0 /\ Key(x) = k
      <4>1. x \in Observation /\ x \in Int
        BY <1>0, SketchAssumption
      <4>2. Signed(x) = b <=> Key(x) = k /\ (IF x < 0 THEN 0 ELSE 1) = b.sign
        BY DEF Signed
      <4> QED BY <4>1, <4>2 DEF Observed
    <3> HIDE DEF b
    <3> QED BY <3>1
  <2> HIDE DEF b
  <2>3. v.positive[k] = SumFunctionOnSet(a, D \cap Observed(b))
    BY <2>1, <1>2 DEF Count
  <2> QED BY <2>2, <2>3
<1>9. v.zero = SumFunctionOnSet(a, {x \in D : x = 0 \/ Signed(x) \notin K})
  <2> DEFINE Z == {x \in Observation : x = 0 \/ Signed(x) \notin K}
  <2>1. v.zero = Count(a, Z)
    BY ZeroIsTheRest DEF K
  <2>2. D \cap Z = {x \in D : x = 0 \/ Signed(x) \notin K}
    BY <1>0
  <2> HIDE DEF Z
  <2> QED BY <2>1, <2>2 DEF Count
<1> QED BY <1>3, <1>4, <1>5, <1>6, <1>7, <1>8, <1>9 DEF IsSketchOf, CountOf, K

(* The checks of decodeSketch pass. *)
LEMMA SketchDecodes ==
    ASSUME NEW a, ObservedBag(a), NEW bytes, Sketched(Payload(bytes), a)
    PROVE  Decodes(bytes)
<1> DEFINE v == Payload(bytes)
<1>1. NumberBag(v.negative) /\ NumberBag(v.positive)
      /\ v.count = Count(a, Int) /\ BinsOf(v) <= MaxBins
      /\ v.zero + Count(v.negative, Int) + Count(v.positive, Int) = Count(a, Int)
  BY DEF Sketched, Binned, Stats
<1> HIDE DEF v
<1>2. SumFunction(v.negative) = Count(v.negative, Int)
  BY <1>1, CountAll
<1>3. SumFunction(v.positive) = Count(v.positive, Int)
  BY <1>1, CountAll
<1>4. BinsOf(v) <= MaxBins /\ v.count = v.zero + SumFunction(v.negative) + SumFunction(v.positive)
  BY <1>1, <1>2, <1>3
<1>5. ASSUME NEW bins \in {v.negative, v.positive} PROVE 0 \notin Range(bins)
  <2>1. NumberBag(bins)
    BY <1>1
  <2> QED BY <2>1 DEF NumberBag, IsABag, Range
<1> QED BY <1>4, <1>5 DEF Decodes, v

(* v is a sketch of bag, exact or not. *)
ExactSketch(v, bag) ==
    /\ Fields(v) /\ Stats(v, bag) /\ ToBag(v.exact) = bag
    /\ v.zero = 0 /\ v.negative = EmptyBag /\ v.positive = EmptyBag
    /\ v.exact # <<>> /\ v.exact \in Seq(Observation)

AnySketch(v, bag) == Sketched(v, bag) \/ ExactSketch(v, bag)

(* Approximate makes an exact sketch approximate. *)
LEMMA ApproximateSketched ==
    ASSUME NEW a, ObservedBag(a), NEW v, AnySketch(v, a)
    PROVE  Sketched(Approximate(v), a)
<1>1. CASE Sketched(v, a)
  <2>1. Approximate(v) = v
    BY <1>1 DEF Approximate, Sketched
  <2> QED BY <1>1, <2>1
<1>2. CASE ExactSketch(v, a)
  <2> DEFINE xs == v.exact
             n == Len(xs)
             s == [v EXCEPT !.exact = <<>>]
             t == AddBins(s, xs)
             u == Collapse(t)
  <2>1. Approximate(v) = u
    BY <1>2 DEF Approximate, ExactSketch
  <2>2. Observing(xs, n) /\ ToBag(xs) = a
    BY <1>2 DEF ExactSketch, Observing
  <2>3. /\ Fields(s) /\ s.exact = <<>> /\ Stats(s, a)
        /\ s.zero = 0 /\ s.negative = EmptyBag /\ s.positive = EmptyBag
    BY <1>2 DEF ExactSketch, Fields, Stats
  <2> HIDE DEF s, xs, n
  <2>4. Binned(s, EmptyBag) /\ ObservedBag(EmptyBag)
    BY <2>3, BinnedNone, NoBag DEF ObservedBag
  <2>5. EmptyBag (+) a = a
    BY PlusNothing DEF ObservedBag
  <2>6. Fields(t) /\ SameStats(t, s) /\ Binned(t, a)
    <3>1. Fields(t) /\ SameStats(t, s) /\ Binned(t, EmptyBag (+) ToBag(xs))
      BY <2>2, <2>3, <2>4, AddBinsBinned
    <3> HIDE DEF t
    <3> QED BY <2>2, <2>5, <3>1
  <2> HIDE DEF t
  <2>7. Fields(u) /\ SameStats(u, t) /\ Binned(u, a) /\ BinsOf(u) <= MaxBins
    BY <2>6, CollapseBinned
  <2> HIDE DEF u
  <2>8. Stats(u, a) /\ u.exact = <<>>
    <3>1. Stats(t, a)
      BY <2>3, <2>6, SameStatsStats
    <3>2. Stats(u, a)
      BY <2>7, <3>1, SameStatsStats
    <3> QED BY <2>3, <2>6, <2>7, <3>2 DEF SameStats
  <2> QED BY <2>1, <2>7, <2>8 DEF Sketched
<1> QED BY <1>1, <1>2 DEF AnySketch

(* MergeBytes adds a bucket. *)
LEMMA MergeBytesSketched ==
    ASSUME NEW a, NEW c, ObservedBag(a), ObservedBag(c), NEW v, AnySketch(v, a),
           NEW bytes, Sketched(Payload(bytes), c)
    PROVE  /\ AnySketch(MergeBytes(v, bytes), a (+) c)
           /\ Sketched(v, a) => Sketched(MergeBytes(v, bytes), a (+) c)
<1> DEFINE w == Approximate(v)
           o == Payload(bytes)
           t == [count |-> w.count + o.count, sum |-> w.sum + o.sum,
                 min |-> IF w.count = 0 \/ o.min < w.min THEN o.min ELSE w.min,
                 max |-> IF w.count = 0 \/ o.max > w.max THEN o.max ELSE w.max,
                 exact |-> <<>>, zero |-> w.zero + o.zero,
                 negative |-> w.negative (+) o.negative,
                 positive |-> w.positive (+) o.positive]
           d == a (+) c
           u == Collapse(t)
<1>0. NumberBag(a) /\ NumberBag(c)
  BY DEF ObservedBag
<1>1. Decodes(bytes)
  BY SketchDecodes
<1>2. MergeBytes(v, bytes) = IF o.count = 0 THEN v ELSE u
  BY <1>1 DEF MergeBytes
<1>3. Sketched(w, a)
  BY ApproximateSketched
<1>4. o.count = 0 <=> c = EmptyBag
  BY <1>0, EmptyCount DEF Sketched, Stats
<1>5. CASE o.count = 0
  <2>1. d = a
    BY <1>0, <1>4, <1>5, PlusNothing
  <2> QED BY <1>2, <1>5, <2>1
<1>6. CASE o.count # 0
  <2>0. c # EmptyBag /\ Sketched(o, c)
    BY <1>4, <1>6
  <2> HIDE DEF w, o
  <2>1. /\ Fields(t) /\ t.exact = <<>> /\ t.zero = w.zero + o.zero
        /\ t.negative = w.negative (+) o.negative /\ t.positive = w.positive (+) o.positive
        /\ t.count = w.count + o.count /\ t.sum = w.sum + o.sum
        /\ t.min = IF w.count = 0 \/ o.min < w.min THEN o.min ELSE w.min
        /\ t.max = IF w.count = 0 \/ o.max > w.max THEN o.max ELSE w.max
    BY DEF Fields
  <2> HIDE DEF t
  <2>2. Stats(t, d)
    BY <1>0, <1>3, <2>0, <2>1, StatsPlus DEF Sketched
  <2>3. Binned(t, d)
    BY <1>3, <2>0, <2>1, BinnedPlus DEF Sketched
  <2>4. ObservedBag(d)
    BY BinsInPlus
  <2> HIDE DEF d
  <2>5. Fields(u) /\ SameStats(u, t) /\ Binned(u, d) /\ BinsOf(u) <= MaxBins
    BY <2>1, <2>3, <2>4, CollapseBinned
  <2> HIDE DEF u
  <2>6. Stats(u, d) /\ u.exact = <<>>
    BY <2>1, <2>2, <2>5, SameStatsStats DEF SameStats
  <2>7. Sketched(u, d)
    BY <2>5, <2>6 DEF Sketched
  <2> QED BY <1>2, <1>6, <2>7 DEF AnySketch, d
<1> QED BY <1>5, <1>6

(* The bytes have their type, and are not Nil. *)
LEMMA EncodeBinsType ==
    ASSUME NEW bins, NumberBag(bins)
    PROVE  EncodeBins(bins) \in BinsCoded
<1> DEFINE S == DOMAIN bins
           q == SortedKeys(S)
           n == Cardinality(S)
           coded == EncodeBins(bins)
           First1(i) == IF i = 1 THEN ZigZag(q[1]) ELSE q[i] - q[i - 1]
<1>0. S \in SUBSET Int /\ IsFiniteSet(S) /\ \A k \in S : bins[k] \in Nat
  BY DEF NumberBag
<1>1. n \in Nat /\ q \in [1..n -> S]
  <2> HIDE DEF S
  <2> QED BY <1>0, KeysSorted
<1>2. coded = [i \in DOMAIN q |-> [key |-> First1(i), count |-> bins[q[i]]]]
  BY DEF EncodeBins
<1> HIDE DEF q, n, coded
<1>3. ASSUME NEW i \in 1..n PROVE [key |-> First1(i), count |-> bins[q[i]]] \in [key : Int, count : Nat]
  <2>1. q[i] \in S
    BY <1>1
  <2>2. bins[q[i]] \in Nat /\ q[i] \in Int
    BY <1>0, <2>1
  <2>3. First1(i) \in Int
    <3>1. CASE i = 1
      BY <3>1, <2>2 DEF ZigZag
    <3>2. CASE i # 1
      <4>1. i - 1 \in 1..n
        BY <1>1, <3>2
      <4>2. q[i - 1] \in Int
        BY <1>0, <1>1, <4>1
      <4> QED BY <4>2, <2>2, <3>2
    <3> QED BY <3>1, <3>2
  <2> HIDE DEF First1
  <2> QED BY <2>2, <2>3
<1>4. coded \in [1..n -> [key : Int, count : Nat]]
  <2>1. DOMAIN q = 1..n
    BY <1>1
  <2> HIDE DEF First1
  <2> QED BY <1>2, <1>3, <2>1
<1>5. coded \in Seq([key : Int, count : Nat])
  <2> DEFINE R == [key : Int, count : Nat]
  <2> HIDE DEF R
  <2>1. coded \in [1..n -> R]
    BY <1>4 DEF R
  <2>2. coded \in Seq(R)
    BY <1>1, <2>1
  <2> QED BY <2>2 DEF R
<1> QED BY <1>5 DEF BinsCoded, coded

(* A sketch is stored as bytes. *)
LEMMA EncodedBytes ==
    ASSUME NEW a, ObservedBag(a), NEW v, Sketched(v, a)
    PROVE  EncodeApprox(v) \in SketchBytes /\ EncodeApprox(v) # Nil
<1> DEFINE n == EncodeBins(v.negative)
           p == EncodeBins(v.positive)
<1>1. EncodeApprox(v) =
         [count |-> v.count, sum |-> v.sum, min |-> v.min, max |-> v.max, zero |-> v.zero,
          negative |-> n, positive |-> p]
  BY DEF EncodeApprox, Approximate, Sketched
<1>2. n \in BinsCoded /\ p \in BinsCoded
  <2>1. NumberBag(v.negative) /\ NumberBag(v.positive)
    BY DEF Sketched, Binned
  <2> QED BY <2>1, EncodeBinsType
<1>3. v.count \in Nat /\ v.sum \in Int
  <2>1. NumberBag(a) /\ NumberBag(EmptyBag)
    BY NoBag DEF ObservedBag
  <2>2. Count(a, Int) \in Nat
    BY <2>1, CountIsNat
  <2>3. Value(a) \in Int
    BY <2>1, ValuePlus
  <2> QED BY <2>2, <2>3 DEF Sketched, Stats
<1>4. v.min \in Int /\ v.max \in Int /\ v.zero \in Nat
  BY DEF Sketched, Stats, Binned
<1> HIDE DEF n, p
<1>5. EncodeApprox(v) \in SketchBytes
  BY <1>1, <1>2, <1>3, <1>4 DEF SketchBytes
<1> QED BY <1>5, NilAssumption

(* AddExact adds one observation, exact or not. *)
LEMMA OneMore ==
    ASSUME NEW xs \in Seq(Observation), NEW x \in Observation
    PROVE  /\ Append(xs, x) \in Seq(Observation) /\ Append(xs, x) # <<>>
           /\ ToBag(Append(xs, x)) = ToBag(xs) (+) SetToBag({x})
<1> DEFINE n == Len(xs)
           ys == Append(xs, x)
           m == n + 1
<1>1. /\ n \in Nat /\ DOMAIN xs = 1..n /\ ys \in Seq(Observation) /\ Len(ys) = m /\ DOMAIN ys = 1..m
      /\ ys[m] = x /\ \A i \in 1..n : ys[i] = xs[i]
  OBVIOUS
<1>2. \A i \in 1..n : xs[i] \in Observation
  OBVIOUS
<1> HIDE DEF ys, n
<1>3. ys # <<>>
  BY <1>1
<1>4. \A i \in 1..m : ys[i] \in Observation
  BY <1>1, <1>2
<1>5. Observing(xs, n) /\ Observing(ys, m)
  BY <1>1, <1>2, <1>4 DEF Observing
<1>6. First(ys, m) = First(ys, n) (+) SetToBag({ys[m]})
  <2>1. n \in 0..(m - 1)
    BY <1>1
  <2> QED BY <1>5, <2>1, FirstPlus
<1>7. First(ys, n) = First(xs, n)
  <2>1. {ys[i] : i \in 1..n} = {xs[i] : i \in 1..n}
    BY <1>1
  <2>2. ASSUME NEW y PROVE {i \in 1..n : ys[i] = y} = {i \in 1..n : xs[i] = y}
    BY <1>1
  <2> QED BY <2>1, <2>2 DEF First
<1>8. ToBag(ys) = First(ys, m) /\ ToBag(xs) = First(xs, n)
  BY <1>5, FirstAll
<1>9. ToBag(ys) = ToBag(xs) (+) SetToBag({x})
  BY <1>1, <1>6, <1>7, <1>8
<1> QED BY <1>1, <1>3, <1>9 DEF ys

(* Adding an observation to what a read builds (addExact), exact or not. *)
LEMMA AddExactSketched ==
    ASSUME NEW a, ObservedBag(a), NEW v, AnySketch(v, a), NEW x \in Observation
    PROVE  LET c == a (+) SetToBag({x})
           IN  ObservedBag(c) /\ AnySketch(AddExact(v, x), c)
<1> DEFINE c == a (+) SetToBag({x})
           s == AddStats(v, x)
           u == [s EXCEPT !.exact = Append(@, x)]
<1>0. NumberBag(a) /\ x \in Int
  BY SketchAssumption DEF ObservedBag
<1>1. ObservedBag(c)
  BY BinnedOne, BinsInPlus
<1>2. CASE v.count > 0 /\ v.exact = <<>>
  <2>1. Sketched(v, a)
    BY <1>2 DEF AnySketch, ExactSketch
  <2>2. AddExact(v, x) = AddApprox(v, x)
    BY <1>2 DEF AddExact
  <2>3. Sketched(AddApprox(v, x), c)
    BY <2>1, AddApproxSketched
  <2> HIDE DEF c
  <2>4. AnySketch(AddExact(v, x), c)
    BY <2>2, <2>3 DEF AnySketch
  <2> QED BY <1>1, <2>4 DEF c
<1>3. CASE ~(v.count > 0 /\ v.exact = <<>>)
  <2>1. AddExact(v, x) = u
    BY <1>3 DEF AddExact
  <2>2. /\ Fields(v) /\ Stats(v, a) /\ v.exact \in Seq(Observation) /\ ToBag(v.exact) = a
        /\ v.zero = 0 /\ v.negative = EmptyBag /\ v.positive = EmptyBag
    <3>1. CASE ExactSketch(v, a)
      BY <3>1 DEF ExactSketch
    <3>2. CASE Sketched(v, a)
      <4>1. v.exact = <<>> /\ v.count = Count(a, Int) /\ Count(a, Int) \in Nat
        BY <3>2, <1>0, EmptyCount DEF Sketched, Stats
      <4>2. v.count = 0
        BY <4>1, <1>3
      <4>3. a = EmptyBag
        BY <4>1, <4>2, <1>0, EmptyCount
      <4>4. ToBag(<<>>) = EmptyBag
        <5>1. Observing(<<>>, 0)
          BY DEF Observing
        <5> QED BY <5>1, FirstAll, FirstNone
      <4>5. /\ NumberBag(v.negative) /\ NumberBag(v.positive) /\ v.zero \in Nat
            /\ v.zero + Count(v.negative, Int) + Count(v.positive, Int) = 0
        BY <3>2, <4>1, <4>2 DEF Sketched, Binned
      <4>6. Count(v.negative, Int) \in Nat /\ Count(v.positive, Int) \in Nat
        BY <4>5, CountIsNat
      <4>7. v.zero = 0 /\ Count(v.negative, Int) = 0 /\ Count(v.positive, Int) = 0
        <5> DEFINE n == Count(v.negative, Int)
                   p == Count(v.positive, Int)
        <5> HIDE DEF n, p
        <5>1. v.zero \in Nat /\ n \in Nat /\ p \in Nat /\ v.zero + n + p = 0
          BY <4>5, <4>6 DEF n, p
        <5>2. v.zero = 0 /\ n = 0 /\ p = 0
          BY <5>1
        <5> QED BY <5>2 DEF n, p
      <4>8. v.negative = EmptyBag /\ v.positive = EmptyBag
        BY <4>5, <4>7, EmptyCount
      <4>9. <<>> \in Seq(Observation)
        OBVIOUS
      <4> QED BY <3>2, <4>1, <4>3, <4>4, <4>7, <4>8, <4>9 DEF Sketched
    <3> QED BY <3>1, <3>2 DEF AnySketch
  <2>3. /\ Fields(s) /\ Stats(s, c)
        /\ s.exact = v.exact /\ s.zero = v.zero
        /\ s.negative = v.negative /\ s.positive = v.positive
    BY <1>0, <2>2, AddStatsStats
  <2> HIDE DEF s
  <2>4. /\ Fields(u) /\ u.exact = Append(v.exact, x) /\ u.zero = 0
        /\ u.negative = EmptyBag /\ u.positive = EmptyBag
        /\ u.count = s.count /\ u.sum = s.sum /\ u.min = s.min /\ u.max = s.max
    BY <2>2, <2>3 DEF Fields
  <2>5. Append(v.exact, x) \in Seq(Observation) /\ Append(v.exact, x) # <<>>
        /\ ToBag(Append(v.exact, x)) = c
    <3> DEFINE xs == v.exact
    <3>1. xs \in Seq(Observation) /\ ToBag(xs) = a
      BY <2>2
    <3> HIDE DEF xs
    <3>2. Append(xs, x) \in Seq(Observation) /\ Append(xs, x) # <<>>
          /\ ToBag(Append(xs, x)) = ToBag(xs) (+) SetToBag({x})
      BY <3>1, OneMore
    <3> QED BY <3>1, <3>2 DEF xs
  <2> HIDE DEF u, c
  <2>6. Stats(u, c)
    BY <2>3, <2>4 DEF Stats
  <2>7. ExactSketch(u, c)
    BY <2>4, <2>5, <2>6 DEF ExactSketch
  <2> QED BY <1>1, <2>1, <2>7 DEF AnySketch, c
<1> QED BY <1>2, <1>3

-----------------------------------------------------------------------------
(* A stored bucket is the sketch of what was folded into it; so is a view  *)
(* of what it has taken in.                                                *)
IsBucket(bytes, bag) ==
    /\ ObservedBag(bag)
    /\ IF bytes = Nil THEN bag = EmptyBag ELSE Sketched(Payload(bytes), bag)

SketchInv ==
    /\ DOMAIN stored = Bucket /\ DOMAIN folded = Bucket
    /\ \A b \in Bucket : IsBucket(stored[b], folded[b])
    /\ ObservedBag(seen) /\ AnySketch(view, seen)

(* At first nothing is observed, stored or read. *)
LEMMA NoObservations == ObservedBag(EmptyBag) /\ AnySketch(NewSketch, EmptyBag) /\ IsBucket(Nil, EmptyBag)
<1>1. ObservedBag(EmptyBag)
  BY NoBag DEF ObservedBag
<1> QED BY <1>1, NewSketched DEF AnySketch, IsBucket

(* The invariant holds at first. *)
LEMMA InitSketch == Init => SketchInv
<1> SUFFICES ASSUME Init PROVE SketchInv
  OBVIOUS
<1>1. DOMAIN stored = Bucket /\ DOMAIN folded = Bucket
      /\ \A b \in Bucket : stored[b] = Nil /\ folded[b] = EmptyBag
  BY DEF Init
<1>2. seen = EmptyBag /\ view = NewSketch
  BY DEF Init
<1> QED BY <1>1, <1>2, NoObservations DEF SketchInv

(* A bucket merged into a sketch. *)
LEMMA BucketMerged ==
    ASSUME NEW a, NEW c, ObservedBag(a), NEW v, AnySketch(v, a), NEW bytes, bytes # Nil, IsBucket(bytes, c)
    PROVE  /\ ObservedBag(a (+) c) /\ AnySketch(MergeBytes(v, bytes), a (+) c)
           /\ Sketched(v, a) => Sketched(MergeBytes(v, bytes), a (+) c)
<1>1. ObservedBag(c) /\ Sketched(Payload(bytes), c)
  BY DEF IsBucket
<1> QED BY <1>1, MergeBytesSketched, BinsInPlus

(* What compact decodes of a bucket, if there is one, is a sketch of what is in it. *)
LEMMA DecodedSketched ==
    ASSUME SketchInv, NEW b \in Bucket
    PROVE  Sketched(Decoded(b), folded[b])
<1> DEFINE c == folded[b]
           bytes == stored[b]
<1>1. IsBucket(bytes, c)
  BY DEF SketchInv
<1>2. CASE bytes = Nil
  <2>1. c = EmptyBag /\ Decoded(b) = NewSketch
    BY <1>1, <1>2 DEF IsBucket, Decoded
  <2> QED BY <2>1, NewSketched
<1>3. CASE bytes # Nil
  <2>1. Decoded(b) = MergeBytes(NewSketch, bytes)
    BY <1>3 DEF Decoded
  <2>2. ObservedBag(EmptyBag) /\ AnySketch(NewSketch, EmptyBag) /\ Sketched(NewSketch, EmptyBag)
    BY NoObservations, NewSketched
  <2> HIDE DEF c, bytes
  <2>3. Sketched(MergeBytes(NewSketch, bytes), EmptyBag (+) c)
    BY <1>1, <1>3, <2>2, BucketMerged
  <2>4. EmptyBag (+) c = c
    BY <1>1, PlusNothing DEF IsBucket, ObservedBag
  <2> QED BY <2>1, <2>3, <2>4 DEF c
<1> QED BY <1>2, <1>3

(* What is written is a bucket. *)
LEMMA EncodedBucket ==
    ASSUME NEW a, ObservedBag(a), NEW v, Sketched(v, a)
    PROVE  IsBucket(EncodeApprox(v), a)
<1>1. EncodeApprox(v) # Nil
  BY EncodedBytes
<1>2. Sketched(Payload(EncodeApprox(v)), a)
  BY SketchSurvives
<1> QED BY <1>1, <1>2 DEF IsBucket

(* A compaction keeps the invariant. *)
LEMMA CompactKeepsSketches ==
    ASSUME SketchInv, NEW b \in Bucket, NEW n \in 1..2, NEW xs \in [1..n -> Observation], Compact(b, xs)
    PROVE  SketchInv'
<1>1. /\ stored' = [c \in Bucket |->
                    IF c = b THEN EncodeApprox(AddAllApprox(Decoded(c), xs))
                    ELSE IF stored[c] = Nil THEN Nil
                    ELSE EncodeApprox(Decoded(c))]
      /\ folded' = [folded EXCEPT ![b] = @ (+) ToBag(xs)]
      /\ view' = NewSketch /\ seen' = EmptyBag
  BY DEF Compact
<1>2. Observing(xs, n)
  BY DEF Observing
<1>3. /\ DOMAIN stored = Bucket /\ DOMAIN folded = Bucket
      /\ \A c \in Bucket : IsBucket(stored[c], folded[c])
  BY DEF SketchInv
<1>4. ASSUME NEW c \in Bucket PROVE IsBucket(stored'[c], folded'[c])
  <2>1. Sketched(Decoded(c), folded[c]) /\ ObservedBag(folded[c])
    BY <1>3, DecodedSketched DEF IsBucket
  <2>2. CASE c = b
    <3> DEFINE a == folded[b]
               v == Decoded(b)
               u == AddAllApprox(v, xs)
               g == a (+) ToBag(xs)
    <3>1. stored'[c] = EncodeApprox(u) /\ folded'[c] = g
      BY <1>1, <1>3, <2>2
    <3>2. Sketched(v, a) /\ ObservedBag(a)
      BY <2>1, <2>2
    <3> HIDE DEF a, v
    <3>3. ObservedBag(g) /\ Sketched(u, g)
      BY <1>2, <3>2, AddAllApproxSketched
    <3> HIDE DEF u, g
    <3>4. IsBucket(EncodeApprox(u), g)
      BY <3>3, EncodedBucket
    <3> QED BY <3>1, <3>4
  <2>3. CASE c # b /\ stored[c] = Nil
    <3>1. stored'[c] = Nil /\ folded'[c] = folded[c]
      BY <1>1, <1>3, <2>3
    <3> QED BY <3>1, <1>3, <2>3
  <2>4. CASE c # b /\ stored[c] # Nil
    <3>1. stored'[c] = EncodeApprox(Decoded(c)) /\ folded'[c] = folded[c]
      BY <1>1, <1>3, <2>4
    <3>2. IsBucket(EncodeApprox(Decoded(c)), folded[c])
      BY <2>1, EncodedBucket
    <3> QED BY <3>1, <3>2
  <2> QED BY <2>2, <2>3, <2>4
<1>5. DOMAIN stored' = Bucket /\ DOMAIN folded' = Bucket
  BY <1>1, <1>3
<1> QED BY <1>1, <1>4, <1>5, NoObservations DEF SketchInv

(* Every step keeps the invariant. *)
LEMMA NextSketch == SketchInv /\ [Next]_vars => SketchInv'
<1> SUFFICES ASSUME SketchInv, [Next]_vars PROVE SketchInv'
  OBVIOUS
<1>1. ASSUME NEW b \in Bucket, NEW n \in 1..2, NEW xs \in [1..n -> Observation], Compact(b, xs)
      PROVE  SketchInv'
  BY <1>1, CompactKeepsSketches
<1>2. CASE BeginRead
  BY <1>2, NoObservations DEF BeginRead, SketchInv
<1>3. ASSUME NEW x \in Observation, ReadRaw(x) PROVE SketchInv'
  <2>1. view' = AddExact(view, x) /\ seen' = seen (+) SetToBag({x}) /\ UNCHANGED <<stored, folded>>
    BY <1>3 DEF ReadRaw
  <2>2. ObservedBag(seen') /\ AnySketch(view', seen')
    BY <2>1, AddExactSketched DEF SketchInv
  <2> QED BY <2>1, <2>2 DEF SketchInv
<1>4. ASSUME NEW b \in Bucket, ReadBucket(b) PROVE SketchInv'
  <2> DEFINE bytes == stored[b]
             c == folded[b]
  <2>1. bytes # Nil /\ view' = MergeBytes(view, bytes) /\ seen' = seen (+) c /\ UNCHANGED <<stored, folded>>
    BY <1>4 DEF ReadBucket
  <2>2. IsBucket(bytes, c) /\ ObservedBag(seen) /\ AnySketch(view, seen)
    BY DEF SketchInv
  <2> HIDE DEF bytes, c
  <2>3. ObservedBag(seen') /\ AnySketch(view', seen')
    BY <2>1, <2>2, BucketMerged
  <2> QED BY <2>1, <2>3 DEF SketchInv
<1>5. CASE UNCHANGED vars
  BY <1>5 DEF vars, SketchInv
<1> QED BY <1>1, <1>2, <1>3, <1>4, <1>5 DEF Next

(* The invariant holds in every state. *)
LEMMA SketchInvariant == Spec => []SketchInv
BY InitSketch, NextSketch, PTL DEF Spec

(* Every bucket a compaction writes passes the checks of decodeSketch, so  *)
(* that no later read or compaction loses it.                              *)
THEOREM SketchStoredDecodes == Spec => []StoredDecodes
<1>1. SketchInv => StoredDecodes
  <2> SUFFICES ASSUME SketchInv, NEW b \in Bucket, stored[b] # Nil PROVE Decodes(stored[b])
    BY DEF StoredDecodes
  <2>1. ObservedBag(folded[b]) /\ Sketched(Payload(stored[b]), folded[b])
    BY DEF SketchInv, IsBucket
  <2> QED BY <2>1, SketchDecodes
<1> QED BY <1>1, SketchInvariant, PTL

(* A stored bucket is the one sketch of the observations folded into it,   *)
(* however they were ordered and divided among compactions, whichever bins *)
(* were collapsed on the way.                                              *)
THEOREM SketchBucketsCanonical == Spec => []BucketsCanonical
<1>1. SketchInv => BucketsCanonical
  <2> SUFFICES ASSUME SketchInv, NEW b \in Bucket, stored[b] # Nil
               PROVE  IsSketchOf(Payload(stored[b]), folded[b])
    BY DEF BucketsCanonical
  <2>1. ObservedBag(folded[b]) /\ Sketched(Payload(stored[b]), folded[b])
    BY DEF SketchInv, IsBucket
  <2> QED BY <2>1, SketchedIsSketchOf
<1> QED BY <1>1, SketchInvariant, PTL

(* A sketch read from raw observations and buckets, in whatever order they *)
(* come, is the one sketch of all of them; or, while it is exact, it holds *)
(* just those observations and becomes that sketch when it is binned.      *)
THEOREM SketchViewCanonical == Spec => []ViewCanonical
<1>1. SketchInv => ViewCanonical
  <2> SUFFICES ASSUME SketchInv PROVE ViewCanonical
    OBVIOUS
  <2>1. ObservedBag(seen) /\ AnySketch(view, seen)
    BY DEF SketchInv
  <2>2. CASE view.exact = <<>>
    <3>1. Sketched(view, seen)
      BY <2>1, <2>2 DEF AnySketch, ExactSketch
    <3>2. IsSketchOf(view, seen)
      BY <2>1, <3>1, SketchedIsSketchOf
    <3> QED BY <2>2, <3>2 DEF ViewCanonical
  <2>3. CASE view.exact # <<>>
    <3>1. ToBag(view.exact) = seen
      BY <2>1, <2>3 DEF AnySketch, ExactSketch, Sketched
    <3>2. Sketched(Approximate(view), seen)
      BY <2>1, ApproximateSketched
    <3>3. IsSketchOf(Approximate(view), seen)
      BY <2>1, <3>2, SketchedIsSketchOf
    <3> QED BY <2>3, <3>1, <3>3 DEF ViewCanonical
  <2> QED BY <2>2, <2>3
<1> QED BY <1>1, SketchInvariant, PTL

-----------------------------------------------------------------------------
(* The bounds of the bins, each twice the one before. *)
LEMMA PowersDouble ==
    /\ Powers[0] = 3
    /\ \A n \in 1..(MaxKey - MinKey) : Powers[n] = 2 * Powers[n - 1]
<1> DEFINE N == MaxKey - MinKey
           Body(f) == [n \in 0..N |-> IF n = 0 THEN 3 ELSE 2 * f[n - 1]]
<1>1. N \in Nat
  BY SketchAssumption
<1>2. Powers = CHOOSE f : f = Body(f)
  BY DEF Powers
<1> HIDE DEF N
<1>3. \E f : f = Body(f)
  <2> DEFINE step == [i \in 1..N |-> [m \in Nat |-> 2 * m]]
  <2>1. step \in Steps(Nat, N) /\ 3 \in Nat
    BY DEF Steps
  <2>2. \A i \in 1..N : \A m \in Nat : step[i][m] = 2 * m
    OBVIOUS
  <2> HIDE DEF step
  <2>3. Solutions(Nat, N, 3, step) # {}
    BY <1>1, <2>1, Recursion
  <2>4. PICK g \in [0..N -> Nat] : g[0] = 3 /\ \A i \in 1..N : g[i] = step[i][g[i - 1]]
    BY <2>3 DEF Solutions
  <2>5. ASSUME NEW n \in 0..N PROVE g[n] = IF n = 0 THEN 3 ELSE 2 * g[n - 1]
    <3>1. CASE n = 0
      BY <3>1, <2>4
    <3>2. CASE n # 0
      <4>1. n \in 1..N /\ n - 1 \in 0..N
        BY <3>2, <1>1
      <4>2. g[n - 1] \in Nat /\ g[n] = step[n][g[n - 1]]
        BY <4>1, <2>4
      <4> QED BY <4>1, <4>2, <2>2, <3>2
    <3> QED BY <3>1, <3>2
  <2>6. g = [n \in 0..N |-> g[n]]
    OBVIOUS
  <2>7. g = Body(g)
    BY <2>5, <2>6
  <2> HIDE DEF Body
  <2> QED BY <2>7
<1>4. Powers = Body(Powers)
  <2> HIDE DEF Body
  <2> QED BY <1>2, <1>3
<1>5. \A n \in 0..N : Powers[n] = IF n = 0 THEN 3 ELSE 2 * Powers[n - 1]
  BY <1>4
<1>6. Powers[0] = 3
  BY <1>5, <1>1
<1>7. \A n \in 1..N : Powers[n] = 2 * Powers[n - 1]
  BY <1>5, <1>1
<1> QED BY <1>6, <1>7 DEF N

(* They are multiples of three units. *)
LEMMA PowersThird ==
    \A n \in 0..(MaxKey - MinKey) : \E m \in Nat : m > 0 /\ Powers[n] = 3 * m
<1> DEFINE N == MaxKey - MinKey
           S == {n \in 0..N : \E m \in Nat : m > 0 /\ Powers[n] = 3 * m}
<1>1. N \in Nat
  BY SketchAssumption
<1>2. Powers[0] = 3 /\ \A n \in 1..N : Powers[n] = 2 * Powers[n - 1]
  BY PowersDouble
<1> HIDE DEF N
<1>3. 0 \in S
  <2>1. 1 \in Nat /\ 1 > 0 /\ Powers[0] = 3 * 1
    BY <1>2
  <2> QED BY <2>1, <1>1
<1>4. ASSUME NEW k \in 0..(N - 1), k \in S PROVE k + 1 \in S
  <2>1. PICK m \in Nat : m > 0 /\ Powers[k] = 3 * m
    BY <1>4
  <2>2. k + 1 \in 1..N /\ (k + 1) - 1 = k
    BY <1>1
  <2>3. Powers[k + 1] = 2 * Powers[k]
    BY <2>2, <1>2
  <2>4. 2 * m \in Nat /\ 2 * m > 0 /\ Powers[k + 1] = 3 * (2 * m)
    BY <2>1, <2>3
  <2>5. \E e \in Nat : e > 0 /\ Powers[k + 1] = 3 * e
    <3> DEFINE e == 2 * m
    <3>1. e \in Nat /\ e > 0 /\ Powers[k + 1] = 3 * e
      BY <2>4
    <3> HIDE DEF e
    <3> QED BY <3>1
  <2>6. k + 1 \in 0..N
    BY <2>2, <1>1
  <2> QED BY <2>5, <2>6
<1> HIDE DEF S
<1>5. \A n \in 0..N : n \in S
  BY <1>1, <1>3, <1>4, NatUpTo
<1> QED BY <1>5 DEF S, N

(* Of two bounds the larger is at least twice the smaller. *)
LEMMA PowersGrow ==
    ASSUME NEW i \in 0..(MaxKey - MinKey)
    PROVE  \A j \in 0..(MaxKey - MinKey) : i < j => 2 * Powers[i] <= Powers[j]
<1> DEFINE N == MaxKey - MinKey
           S == {n \in 0..N : i < n => 2 * Powers[i] <= Powers[n]}
<1>1. N \in Nat
  BY SketchAssumption
<1>2. \A n \in 1..N : Powers[n] = 2 * Powers[n - 1]
  BY PowersDouble
<1>3. \A n \in 0..N : Powers[n] \in Nat
  BY PowersThird
<1>0. i \in 0..N
  OBVIOUS
<1> HIDE DEF N
<1>4. 0 \in S
  BY <1>0, <1>1
<1>5. ASSUME NEW k \in 0..(N - 1), k \in S PROVE k + 1 \in S
  <2>1. k \in 0..N /\ k + 1 \in 1..N /\ k + 1 \in 0..N /\ (k + 1) - 1 = k
    BY <1>1
  <2>2. Powers[k + 1] = 2 * Powers[k] /\ Powers[k] \in Nat /\ Powers[i] \in Nat
    BY <2>1, <1>0, <1>2, <1>3
  <2>3. CASE i < k
    BY <2>3, <2>1, <2>2, <1>5
  <2>4. CASE i = k
    BY <2>4, <2>1, <2>2
  <2>5. CASE i > k
    BY <2>5, <2>1, <1>0
  <2> QED BY <2>3, <2>4, <2>5, <2>1, <1>0
<1> HIDE DEF S
<1>6. \A n \in 0..N : n \in S
  BY <1>1, <1>4, <1>5, NatUpTo
<1> QED BY <1>6 DEF S, N

(* The bounds of bins by key. *)
LEMMA BoundsOfBins ==
    /\ \A k \in MinKey..MaxKey : \E m \in Nat : m > 0 /\ Bound(k) = 3 * m
    /\ \A j, k \in MinKey..MaxKey : j < k => 2 * Bound(j) <= Bound(k)
<1>1. \A k \in MinKey..MaxKey : k - MinKey \in 0..(MaxKey - MinKey)
  BY SketchAssumption
<1>2. \A k \in MinKey..MaxKey : \E m \in Nat : m > 0 /\ Bound(k) = 3 * m
  BY <1>1, PowersThird DEF Bound
<1>3. ASSUME NEW j \in MinKey..MaxKey, NEW k \in MinKey..MaxKey, j < k
      PROVE  2 * Bound(j) <= Bound(k)
  <2>1. j - MinKey < k - MinKey
    BY <1>3, SketchAssumption
  <2> DEFINE d == j - MinKey
             e == k - MinKey
  <2>2. d \in 0..(MaxKey - MinKey) /\ e \in 0..(MaxKey - MinKey) /\ d < e
    BY <1>1, <2>1
  <2> HIDE DEF d, e
  <2>3. 2 * Powers[d] <= Powers[e]
    BY <2>2, PowersGrow
  <2> QED BY <2>3 DEF Bound, d, e
<1> QED BY <1>2, <1>3

(* An observation is in its bin; a larger magnitude is in no smaller bin. *)
LEMMA KeyBin ==
    /\ \A x \in Observation \ {0} : Key(x) \in MinKey..MaxKey /\ InBin(x, Key(x))
    /\ \A x, y \in Observation \ {0} : Magnitude(x) <= Magnitude(y) => Key(x) <= Key(y)
<1>1. ASSUME NEW x \in Observation \ {0} PROVE Key(x) \in MinKey..MaxKey /\ InBin(x, Key(x))
  BY KeyAssumption DEF Key
<1>2. ASSUME NEW x \in Observation \ {0}, NEW y \in Observation \ {0}, Magnitude(x) <= Magnitude(y), Key(y) < Key(x)
      PROVE  FALSE
  <2> DEFINE j == Key(y)
             k == Key(x)
             mx == Magnitude(x)
             my == Magnitude(y)
  <2>1. j \in MinKey..MaxKey /\ k \in MinKey..MaxKey /\ InBin(x, k) /\ InBin(y, j)
    BY <1>1
  <2>2. mx \in Int /\ my \in Int /\ mx <= my
    BY <1>2, SketchAssumption DEF Magnitude
  <2>3. Bound(k) < 2 * mx /\ my <= Bound(j)
    BY <2>1 DEF InBin
  <2>4. j < k
    BY <1>2
  <2> HIDE DEF j, k, mx, my
  <2>5. 2 * Bound(j) <= Bound(k)
    BY <2>1, <2>4, BoundsOfBins
  <2> DEFINE bj == Bound(j)
             bk == Bound(k)
  <2>6. bj \in Int /\ bk \in Int
    BY <2>1, BoundsOfBins
  <2>7. 2 * bj <= bk /\ bk < 2 * mx /\ my <= bj
    BY <2>3, <2>5
  <2> HIDE DEF bj, bk
  <2> QED BY <2>2, <2>6, <2>7
<1>3. ASSUME NEW x \in Observation \ {0}, NEW y \in Observation \ {0}, Magnitude(x) <= Magnitude(y)
      PROVE  Key(x) <= Key(y)
  <2>1. Key(x) \in Int /\ Key(y) \in Int
    BY KeyType
  <2>2. ~(Key(y) < Key(x))
    BY <1>2, <1>3
  <2> QED BY <2>1, <2>2
<1> QED BY <1>1, <1>3

(* The value of a bin is within a third of what falls into it. *)
LEMMA BinValueClose ==
    ASSUME NEW x \in Observation \ {0}
    PROVE  LET b == BinValue(Key(x))
           IN  /\ b \in Nat
               /\ 3 * (b - Magnitude(x)) <= Magnitude(x) /\ 3 * (Magnitude(x) - b) <= Magnitude(x)
<1> DEFINE k == Key(x)
           mx == Magnitude(x)
<1>1. k \in MinKey..MaxKey /\ InBin(x, k)
  BY KeyBin
<1>2. mx \in Nat
  BY SketchAssumption DEF Magnitude
<1>3. Bound(k) < 2 * mx /\ mx <= Bound(k)
  BY <1>1 DEF InBin
<1> HIDE DEF mx, k
<1>4. PICK m \in Nat : Bound(k) = 3 * m
  BY <1>1, BoundsOfBins
<1>5. BinValue(k) = 2 * m
  BY <1>4 DEF BinValue
<1>6. 3 * m < 2 * mx /\ mx <= 3 * m
  BY <1>3, <1>4
<1>7. 2 * m \in Nat /\ 3 * (2 * m - mx) <= mx /\ 3 * (mx - 2 * m) <= mx
  BY <1>6, <1>2
<1> QED BY <1>5, <1>7 DEF k, mx

-----------------------------------------------------------------------------
(* Ranks.  The rank-th smallest element of a bag of numbers. *)
LessThan(x) == {y \in Int : y < x}
AtMost(x) == {y \in Int : y <= x}

AtRank(a, rank, x) ==
    x \in DOMAIN a /\ Count(a, LessThan(x)) < rank /\ rank <= Count(a, AtMost(x))

(* A bag has of a part of a set at most what it has of the set. *)
LEMMA CountWithin ==
    ASSUME NEW a, NumberBag(a), NEW R, NEW S, DOMAIN a \cap R \subseteq S
    PROVE  Count(a, R) <= Count(a, S) /\ Count(a, R) \in Nat /\ Count(a, S) \in Nat
<1> DEFINE P == DOMAIN a \cap R
           Q == S \ P
           cP == Count(a, P)
           cQ == Count(a, Q)
           cR == Count(a, R)
           cS == Count(a, S)
<1>1. P \cap Q = {} /\ P \cup Q = S /\ DOMAIN a \cap P = DOMAIN a \cap R
  OBVIOUS
<1> HIDE DEF P, Q
<1>2. cR = cP
  BY <1>1, CountCommon
<1>3. cS = cP + cQ
  BY <1>1, CountDisjoint
<1>4. cP \in Nat /\ cQ \in Nat
  BY CountIsNat
<1> HIDE DEF cP, cQ, cR, cS
<1>5. cR <= cS /\ cR \in Nat /\ cS \in Nat
  BY <1>2, <1>3, <1>4
<1> QED BY <1>5 DEF cR, cS

(* Elements of ranks in order are in order. *)
LEMMA RanksInOrder ==
    ASSUME NEW a, NumberBag(a), NEW r \in Int, NEW s \in Int, r <= s,
           NEW x, NEW y, AtRank(a, r, x), AtRank(a, s, y)
    PROVE  x <= y
<1>0. x \in Int /\ y \in Int
  BY DEF AtRank, NumberBag
<1> SUFFICES ASSUME y < x PROVE FALSE
  BY <1>0
<1> DEFINE cy == Count(a, AtMost(y))
           cx == Count(a, LessThan(x))
<1>1. AtMost(y) \subseteq LessThan(x)
  BY <1>0 DEF AtMost, LessThan
<1>2. cy <= cx /\ cy \in Nat /\ cx \in Nat
  BY <1>1, CountWithin
<1>3. cx < r /\ s <= cy
  BY DEF AtRank
<1> HIDE DEF cx, cy
<1> QED BY <1>2, <1>3

(* Every rank has an element. *)
LEMMA RankExists ==
    ASSUME NEW a, NumberBag(a), NEW r \in 1..Count(a, Int)
    PROVE  \E x \in DOMAIN a : AtRank(a, r, x)
<1> DEFINE D == DOMAIN a
           T == {x \in D : r <= Count(a, AtMost(x))}
<1>1. IsFiniteSet(D) /\ D \in SUBSET Int
  BY DEF NumberBag
<1>2. Count(a, Int) \in Nat /\ \A S : Count(a, S) \in Nat
  BY CountIsNat
<1>3. D # {}
  <2> SUFFICES ASSUME D = {} PROVE FALSE
    OBVIOUS
  <2>1. Count(a, Int) = 0
    BY CountNone
  <2> QED BY <2>1
<1>4. PICK m \in D : \A x \in D : x <= m
  BY <1>1, <1>3, FiniteBounds
<1>5. Count(a, AtMost(m)) = Count(a, Int)
  <2>1. D \cap AtMost(m) = D \cap Int
    BY <1>1, <1>4 DEF AtMost
  <2> QED BY <2>1, CountCommon
<1>6. m \in T /\ T \in SUBSET Int /\ IsFiniteSet(T)
  <2>1. r <= Count(a, AtMost(m))
    BY <1>5
  <2>2. T \subseteq D
    OBVIOUS
  <2>3. IsFiniteSet(T)
    <3> HIDE DEF T
    <3> QED BY <2>2, <1>1, FS_Subset
  <2> QED BY <2>1, <2>2, <2>3, <1>1
<1>7. PICK x \in T : \A y \in T : x <= y
  <2> HIDE DEF T
  <2> QED BY <1>6, FiniteBounds
<1>8. x \in D /\ r <= Count(a, AtMost(x)) /\ x \in Int
  BY <1>7, <1>1
<1>9. Count(a, LessThan(x)) < r
  <2> DEFINE L == D \cap LessThan(x)
             c == Count(a, LessThan(x))
  <2>0. c \in Nat
    BY <1>2
  <2> SUFFICES ASSUME r <= c PROVE FALSE
    BY <2>0
  <2>1. L # {}
    <3> SUFFICES ASSUME L = {} PROVE FALSE
      OBVIOUS
    <3>1. c = 0
      BY CountNone
    <3> HIDE DEF c
    <3> QED BY <3>1
  <2>2. L \in SUBSET Int /\ IsFiniteSet(L)
    <3>1. L \subseteq D
      OBVIOUS
    <3> HIDE DEF L
    <3> QED BY <3>1, <1>1, FS_Subset
  <2>3. PICK y \in L : \A z \in L : z <= y
    <3> HIDE DEF L
    <3> QED BY <2>1, <2>2, FiniteBounds
  <2>4. y \in D /\ y \in Int /\ y < x
    BY <2>3, <2>2 DEF LessThan
  <2>5. D \cap AtMost(y) = D \cap LessThan(x)
    <3>1. ASSUME NEW z \in D PROVE z \in AtMost(y) <=> z \in LessThan(x)
      BY <2>3, <2>4, <1>1, <1>8 DEF AtMost, LessThan
    <3> QED BY <3>1
  <2>6. Count(a, AtMost(y)) = c
    BY <2>5, CountCommon
  <2>7. y \in T
    BY <2>4, <2>6
  <2> QED BY <2>4, <2>7, <1>7, <1>8
<1> QED BY <1>8, <1>9 DEF AtRank

(* What is at most x is less than x, or x.                                 *)
LEMMA CountAtMost ==
    ASSUME NEW a, NumberBag(a), NEW x \in DOMAIN a
    PROVE  Count(a, AtMost(x)) = Count(a, LessThan(x)) + a[x] /\ a[x] \in Nat
<1> DEFINE D == DOMAIN a
           L == D \cap LessThan(x)
           M == D \cap AtMost(x)
           cL == SumFunctionOnSet(a, L)
           cM == SumFunctionOnSet(a, M)
<1>1. D \subseteq Int /\ a[x] \in Nat
  BY DEF NumberBag
<1>2. M = L \cup {x} /\ x \notin L
  BY <1>1 DEF LessThan, AtMost
<1>3. Weighted(a, L) /\ Weighted(a, M)
  BY BagWeighted
<1>4. cL \in Int
  <2> HIDE DEF L
  <2> QED BY <1>3, SumIsInt
<1>5. cM = a[x] + cL
  <2> HIDE DEF L, M
  <2> QED BY <1>2, <1>3, SumAdds
<1>6. Count(a, AtMost(x)) = cM /\ Count(a, LessThan(x)) = cL
  BY DEF Count
<1> HIDE DEF cL, cM
<1>7. cM = cL + a[x]
  BY <1>1, <1>4, <1>5
<1> QED BY <1>1, <1>6, <1>7

(* It is the one Ranked chooses, and of a bag of bins the one KeyAt does. *)
LEMMA RankedIs ==
    ASSUME NEW a, NumberBag(a), NEW r \in Int, NEW x, AtRank(a, r, x)
    PROVE  Ranked(a, r) = x /\ KeyAt(a, r) = x
<1> DEFINE D == DOMAIN a
<1>0. D \subseteq Int /\ x \in D
  BY DEF NumberBag, AtRank
<1>1. \A y \in D : AtRank(a, r, y) <=> y = x
  <2>1. ASSUME NEW y \in D, AtRank(a, r, y) PROVE y = x
    <3>1. y <= x /\ x <= y
      BY <2>1, RanksInOrder
    <3> QED BY <3>1, <1>0
  <2> QED BY <2>1
<1>2. \A y \in D : /\ CountOf(a, LAMBDA z : z < y) = Count(a, LessThan(y))
                   /\ CountOf(a, LAMBDA z : z <= y) = Count(a, AtMost(y))
  <2>1. ASSUME NEW y \in D
        PROVE  /\ D \cap LessThan(y) = {z \in D : z < y}
               /\ D \cap AtMost(y) = {z \in D : z <= y}
    BY <1>0 DEF LessThan, AtMost
  <2> QED BY <2>1 DEF CountOf, Count
<1>3. Ranked(a, r) = x
  <2>1. \A y \in D : (CountOf(a, LAMBDA z : z < y) < r /\ r <= CountOf(a, LAMBDA z : z <= y)) <=> y = x
    BY <1>1, <1>2 DEF AtRank
  <2> QED BY <2>1, <1>0 DEF Ranked
<1>4. \A y \in D : UpTo(a, y) = Count(a, AtMost(y)) /\ UpTo(a, y) - a[y] = Count(a, LessThan(y))
  <2>1. ASSUME NEW y \in D
        PROVE  UpTo(a, y) = Count(a, AtMost(y)) /\ UpTo(a, y) - a[y] = Count(a, LessThan(y))
    <3> DEFINE cL == Count(a, LessThan(y))
               cM == Count(a, AtMost(y))
               ay == a[y]
    <3>1. D \cap AtMost(y) = {j \in D : j <= y}
      BY <2>1, <1>0 DEF AtMost
    <3>2. UpTo(a, y) = cM
      BY <3>1 DEF UpTo, Count
    <3>3. cM = cL + ay /\ cL \in Nat /\ ay \in Nat
      BY <2>1, CountAtMost, CountIsNat
    <3> HIDE DEF cL, cM, ay
    <3>4. cM - ay = cL
      BY <3>3
    <3> QED BY <3>2, <3>4 DEF ay, cL, cM
  <2> QED BY <2>1
<1>5. KeyAt(a, r) = x
  <2>1. \A y \in D : (r <= UpTo(a, y) /\ UpTo(a, y) - a[y] < r) <=> y = x
    BY <1>1, <1>4 DEF AtRank
  <2> QED BY <2>1, <1>0 DEF KeyAt
<1> QED BY <1>3, <1>5

-----------------------------------------------------------------------------
(* Of the bins observed, one larger than a kept one is kept. *)
LEMMA LargerKept ==
    ASSUME NEW a, ObservedBag(a), NEW x \in DOMAIN a \ {0}, NEW y \in DOMAIN a \ {0},
           Signed(x) \in Kept(a), Rank(Signed(x)) <= Rank(Signed(y))
    PROVE  Signed(y) \in Kept(a)
<1> DEFINE C == BinsIn(a)
           b == Signed(x)
           c == Signed(y)
           P == {d \in C : Larger(d, c)}
           Q == {d \in C : Larger(d, b)}
<1>1. IsFiniteSet(C) /\ C \subseteq SignedBins /\ Kept(a) = Largest(C)
  BY BinsInFinite DEF Kept, BinsIn
<1>2. b \in C /\ c \in C
  BY DEF BinsIn
<1>3. P \subseteq Q
  <2>1. ASSUME NEW d \in C, Larger(d, c) PROVE Larger(d, b)
    <3>1. b \in SignedBins /\ c \in SignedBins /\ d \in SignedBins
      BY <1>1, <1>2
    <3>2. Rank(d) > Rank(c) /\ Rank(b) \in Int /\ Rank(c) \in Int /\ Rank(d) \in Int
      BY <3>1, <2>1, LargerByRank
    <3>3. Rank(d) > Rank(b)
      BY <3>2
    <3> HIDE DEF b, c
    <3> QED BY <3>1, <3>3, LargerByRank
  <2> QED BY <2>1
<1>4. IsFiniteSet(Q) /\ Q \subseteq C
  <2>1. Q \subseteq C
    OBVIOUS
  <2> HIDE DEF Q
  <2> QED BY <2>1, <1>1, FS_Subset
<1>5. Cardinality(Q) < MaxBins
  BY <1>1 DEF Largest
<1> HIDE DEF P, Q
<1>6. IsFiniteSet(P) /\ Cardinality(P) <= Cardinality(Q)
  BY <1>3, <1>4, FS_Subset
<1>7. Cardinality(P) \in Nat /\ Cardinality(Q) \in Nat
  BY <1>4, <1>6, FS_CardinalityType
<1>8. Cardinality(P) < MaxBins
  BY <1>5, <1>6, <1>7, SketchAssumption
<1> QED BY <1>1, <1>2, <1>8 DEF Largest, P

(* Observations of one sign: the further from zero, the larger the bin. *)
LEMMA FurtherRanksHigher ==
    ASSUME NEW x \in Observation \ {0}, NEW y \in Observation \ {0},
           (x < 0) = (y < 0), Magnitude(x) <= Magnitude(y)
    PROVE  Rank(Signed(x)) <= Rank(Signed(y))
<1>1. Key(x) \in Int /\ Key(y) \in Int /\ Key(x) <= Key(y)
  BY KeyType, KeyBin
<1>2. Signed(x) = [size |-> Key(x), sign |-> Signed(y).sign] /\ Signed(y).sign \in {0, 1}
      /\ Signed(y).size = Key(y)
  BY DEF Signed
<1> QED BY <1>1, <1>2 DEF Rank

(* What the bins of one sign have up to a limit. *)
LEMMA BinsCountWithin ==
    ASSUME NEW a, ObservedBag(a), NEW f, NumberBag(f), NEW s, NEW K,
           \A k \in DOMAIN f : f[k] = Count(a, Observed([size |-> k, sign |-> s]))
    PROVE  Count(f, K) = Count(a, OfBins(s, DOMAIN f \cap K))
<1> DEFINE E == DOMAIN f \cap K
           g == [k \in E |-> f[k]]
<1>1. NumberBag(g) /\ DOMAIN g = E
  <2>1. E \subseteq DOMAIN f /\ IsFiniteSet(DOMAIN f) /\ DOMAIN f \subseteq Int
    BY DEF NumberBag
  <2>2. IsFiniteSet(E)
    <3> HIDE DEF E
    <3> QED BY <2>1, FS_Subset
  <2>3. \A k \in E : g[k] \in Nat \ {0}
    BY DEF NumberBag
  <2> QED BY <2>1, <2>2, <2>3 DEF NumberBag
<1>2. \A k \in E : g[k] = f[k]
  OBVIOUS
<1>3. Count(g, Int) = Count(f, K)
  <2>1. Weighted(f, E)
    BY BagWeighted
  <2>2. E \cap Int = E
    BY DEF NumberBag
  <2> HIDE DEF E, g
  <2>3. SumFunctionOnSet(g, E) = SumFunctionOnSet(f, E)
    BY <1>2, <2>1, SumSame
  <2> QED BY <1>1, <2>2, <2>3 DEF Count, E
<1>4. \A k \in DOMAIN g : g[k] = Count(a, Observed([size |-> k, sign |-> s]))
  BY <1>1, <1>2
<1> HIDE DEF g
<1>5. Count(g, Int) = Count(a, OfBins(s, DOMAIN g))
  BY <1>1, <1>4, BinsCount
<1> QED BY <1>1, <1>3, <1>5

(* What a sketch counts on either side of zero. *)
KeptNegative(a) == {x \in DOMAIN a : x < 0 /\ Signed(x) \in Kept(a)}
KeptPositive(a) == {x \in DOMAIN a : x > 0 /\ Signed(x) \in Kept(a)}
KeysIn(S, K) == {x \in S : Key(x) \in K}

(* What the bins of either side count are the kept observations of that side. *)
LEMMA SidesCount ==
    ASSUME NEW a, ObservedBag(a), NEW v, Sketched(v, a), NEW K
    PROVE  /\ Count(v.negative, K) = Count(a, KeysIn(KeptNegative(a), K))
           /\ Count(v.positive, K) = Count(a, KeysIn(KeptPositive(a), K))
           /\ \A x \in KeptNegative(a) : Key(x) \in DOMAIN v.negative
           /\ \A x \in KeptPositive(a) : Key(x) \in DOMAIN v.positive
<1> DEFINE D == DOMAIN a
<1>0. /\ NumberBag(v.negative) /\ NumberBag(v.positive) /\ D \subseteq Observation /\ D \subseteq Int
      /\ \A b \in Kept(a) : HeldIn(v, b) = Count(a, Observed(b))
  BY SketchAssumption DEF Sketched, Binned, ObservedBag
<1>1. BinsHeld(v) = Kept(a)
  BY HeldIsKept
<1>2. \A k \in DOMAIN v.negative : [size |-> k, sign |-> 0] \in Kept(a)
  BY <1>1 DEF BinsHeld
<1>3. \A k \in DOMAIN v.positive : [size |-> k, sign |-> 1] \in Kept(a)
  BY <1>1 DEF BinsHeld
<1>4. \A k : /\ [size |-> k, sign |-> 0] \in Kept(a) => k \in DOMAIN v.negative
             /\ [size |-> k, sign |-> 1] \in Kept(a) => k \in DOMAIN v.positive
  <2>1. ASSUME NEW k, [size |-> k, sign |-> 0] \in Kept(a) PROVE k \in DOMAIN v.negative
    <3> DEFINE b == [size |-> k, sign |-> 0]
    <3>1. b \in BinsHeld(v) /\ b.size = k /\ b.sign = 0
      BY <2>1, <1>1
    <3>2. \/ \E j \in DOMAIN v.negative : b = [size |-> j, sign |-> 0]
          \/ \E j \in DOMAIN v.positive : b = [size |-> j, sign |-> 1]
      BY <3>1 DEF BinsHeld
    <3> HIDE DEF b
    <3> QED BY <3>1, <3>2
  <2>2. ASSUME NEW k, [size |-> k, sign |-> 1] \in Kept(a) PROVE k \in DOMAIN v.positive
    <3> DEFINE b == [size |-> k, sign |-> 1]
    <3>1. b \in BinsHeld(v) /\ b.size = k /\ b.sign = 1
      BY <2>2, <1>1
    <3>2. \/ \E j \in DOMAIN v.negative : b = [size |-> j, sign |-> 0]
          \/ \E j \in DOMAIN v.positive : b = [size |-> j, sign |-> 1]
      BY <3>1 DEF BinsHeld
    <3> HIDE DEF b
    <3> QED BY <3>1, <3>2
  <2> QED BY <2>1, <2>2
<1>5. \A k \in DOMAIN v.negative : v.negative[k] = Count(a, Observed([size |-> k, sign |-> 0]))
  <2>1. ASSUME NEW k \in DOMAIN v.negative
        PROVE  v.negative[k] = HeldIn(v, [size |-> k, sign |-> 0])
    BY DEF HeldIn, At
  <2> QED BY <2>1, <1>0, <1>2
<1>6. \A k \in DOMAIN v.positive : v.positive[k] = Count(a, Observed([size |-> k, sign |-> 1]))
  <2>1. ASSUME NEW k \in DOMAIN v.positive
        PROVE  v.positive[k] = HeldIn(v, [size |-> k, sign |-> 1])
    BY DEF HeldIn, At
  <2> QED BY <2>1, <1>0, <1>3
<1>7. \A x \in D : /\ x < 0 => Signed(x) = [size |-> Key(x), sign |-> 0]
                   /\ x > 0 => Signed(x) = [size |-> Key(x), sign |-> 1]
  BY <1>0 DEF Signed
<1>8. \A x \in KeptNegative(a) : Key(x) \in DOMAIN v.negative
  BY <1>4, <1>7 DEF KeptNegative
<1>9. \A x \in KeptPositive(a) : Key(x) \in DOMAIN v.positive
  BY <1>4, <1>7 DEF KeptPositive
<1>10. Count(v.negative, K) = Count(a, KeysIn(KeptNegative(a), K))
  <2> DEFINE E == DOMAIN v.negative \cap K
             R == KeysIn(KeptNegative(a), K)
  <2>1. Count(v.negative, K) = Count(a, OfBins(0, E))
    BY <1>0, <1>5, BinsCountWithin
  <2>2. ASSUME NEW x \in D PROVE x \in OfBins(0, E) <=> x \in R
    <3>1. x \in Observation /\ x \in Int
      BY <1>0
    <3>2. Signed(x) = [size |-> Key(x), sign |-> IF x < 0 THEN 0 ELSE 1]
      BY DEF Signed
    <3>3. x \in OfBins(0, E) <=> x # 0 /\ x < 0 /\ Key(x) \in E
      <4>1. \A k : Signed(x) = [size |-> k, sign |-> 0] <=> k = Key(x) /\ x < 0
        <5>1. ASSUME NEW k PROVE Signed(x) = [size |-> k, sign |-> 0] <=> k = Key(x) /\ (IF x < 0 THEN 0 ELSE 1) = 0
          BY <3>2
        <5> QED BY <5>1
      <4> QED BY <3>1, <4>1 DEF OfBins
    <3>4. x < 0 => (Signed(x) \in Kept(a) <=> Key(x) \in DOMAIN v.negative)
      BY <1>2, <1>4, <1>7
    <3> QED BY <3>1, <3>3, <3>4 DEF KeptNegative, KeysIn
  <2>3. D \cap OfBins(0, E) = D \cap R
    BY <2>2
  <2> HIDE DEF R, E
  <2>4. Count(a, OfBins(0, E)) = Count(a, R)
    BY <2>3, CountCommon
  <2> QED BY <2>1, <2>4 DEF R
<1>11. Count(v.positive, K) = Count(a, KeysIn(KeptPositive(a), K))
  <2> DEFINE E == DOMAIN v.positive \cap K
             R == KeysIn(KeptPositive(a), K)
  <2>1. Count(v.positive, K) = Count(a, OfBins(1, E))
    BY <1>0, <1>6, BinsCountWithin
  <2>2. ASSUME NEW x \in D PROVE x \in OfBins(1, E) <=> x \in R
    <3>1. x \in Observation /\ x \in Int
      BY <1>0
    <3>2. Signed(x) = [size |-> Key(x), sign |-> IF x < 0 THEN 0 ELSE 1]
      BY DEF Signed
    <3>3. x \in OfBins(1, E) <=> x # 0 /\ ~(x < 0) /\ Key(x) \in E
      <4>1. \A k : Signed(x) = [size |-> k, sign |-> 1] <=> k = Key(x) /\ ~(x < 0)
        <5>1. ASSUME NEW k PROVE Signed(x) = [size |-> k, sign |-> 1] <=> k = Key(x) /\ (IF x < 0 THEN 0 ELSE 1) = 1
          BY <3>2
        <5> QED BY <5>1
      <4> QED BY <3>1, <4>1 DEF OfBins
    <3>4. x > 0 => (Signed(x) \in Kept(a) <=> Key(x) \in DOMAIN v.positive)
      BY <1>3, <1>4, <1>7
    <3> QED BY <3>1, <3>3, <3>4 DEF KeptPositive, KeysIn
  <2>3. D \cap OfBins(1, E) = D \cap R
    BY <2>2
  <2> HIDE DEF R, E
  <2>4. Count(a, OfBins(1, E)) = Count(a, R)
    BY <2>3, CountCommon
  <2> QED BY <2>1, <2>4 DEF R
<1> QED BY <1>8, <1>9, <1>10, <1>11

(* What is kept reaches outwards: further from zero on the same side all   *)
(* is kept, in bins as large or larger.                                    *)
LEMMA KeptOutwards ==
    ASSUME NEW a, ObservedBag(a), NEW x \in DOMAIN a, NEW y \in DOMAIN a
    PROVE  /\ x \in KeptNegative(a) /\ y <= x => y \in KeptNegative(a) /\ Key(x) <= Key(y)
           /\ x \in KeptPositive(a) /\ x <= y => y \in KeptPositive(a) /\ Key(x) <= Key(y)
<1>0. x \in Observation /\ y \in Observation /\ x \in Int /\ y \in Int
  BY SketchAssumption DEF ObservedBag
<1>1. ASSUME x # 0, y # 0, (x < 0) = (y < 0), Magnitude(x) <= Magnitude(y), Signed(x) \in Kept(a)
      PROVE  Signed(y) \in Kept(a) /\ Key(x) <= Key(y)
  <2>1. Rank(Signed(x)) <= Rank(Signed(y))
    BY <1>0, <1>1, FurtherRanksHigher
  <2>2. Signed(y) \in Kept(a)
    BY <1>1, <2>1, LargerKept
  <2>3. Key(x) <= Key(y)
    BY <1>0, <1>1, KeyBin
  <2> QED BY <2>2, <2>3
<1>2. ASSUME x < 0, Signed(x) \in Kept(a), y <= x PROVE y < 0 /\ Signed(y) \in Kept(a) /\ Key(x) <= Key(y)
  <2>1. x # 0 /\ y # 0 /\ (x < 0) = (y < 0) /\ Magnitude(x) <= Magnitude(y) /\ y < 0
    BY <1>0, <1>2 DEF Magnitude
  <2> QED BY <2>1, <1>1, <1>2
<1>3. ASSUME x > 0, Signed(x) \in Kept(a), x <= y PROVE y > 0 /\ Signed(y) \in Kept(a) /\ Key(x) <= Key(y)
  <2>1. x # 0 /\ y # 0 /\ (x < 0) = (y < 0) /\ Magnitude(x) <= Magnitude(y) /\ y > 0
    BY <1>0, <1>3 DEF Magnitude
  <2> QED BY <2>1, <1>1, <1>3
<1> QED BY <1>2, <1>3 DEF KeptNegative, KeptPositive

(* The three sections that approximateQuantile goes through. *)
LEMMA Sections ==
    ASSUME NEW a, ObservedBag(a), NEW v, Sketched(v, a)
    PROVE  /\ Count(v.negative, Int) = Count(a, KeptNegative(a))
           /\ Count(v.negative, Int) + v.zero = Count(a, Int \ KeptPositive(a))
           /\ Count(v.negative, Int) \in Nat /\ v.zero \in Nat
<1> DEFINE N == KeptNegative(a)
           P == KeptPositive(a)
           cn == Count(v.negative, Int)
           cp == Count(v.positive, Int)
           cP == Count(a, P)
           cR == Count(a, Int \ P)
           z == v.zero
<1>0. /\ NumberBag(a) /\ NumberBag(v.negative) /\ NumberBag(v.positive)
      /\ DOMAIN a \subseteq Observation /\ DOMAIN a \subseteq Int
      /\ z \in Nat /\ z + cn + cp = Count(a, Int)
  BY SketchAssumption DEF Sketched, Binned, ObservedBag
<1>1. KeysIn(N, Int) = N /\ KeysIn(P, Int) = P
  <2>1. N \subseteq Observation \ {0} /\ P \subseteq Observation \ {0}
    BY <1>0 DEF KeptNegative, KeptPositive
  <2> HIDE DEF N, P
  <2> QED BY <2>1, KeyType DEF KeysIn
<1>2. cn = Count(a, N) /\ cp = cP
  <2>1. /\ cn = Count(a, KeysIn(N, Int))
        /\ cp = Count(a, KeysIn(P, Int))
    BY SidesCount
  <2> QED BY <2>1, <1>1
<1>3. Count(a, Int) = cP + cR
  <2>1. P \cap (Int \ P) = {} /\ P \cup (Int \ P) = Int
    BY <1>0 DEF KeptPositive
  <2> HIDE DEF P
  <2>2. Count(a, P \cup (Int \ P)) = Count(a, P) + Count(a, Int \ P)
    BY <1>0, <2>1, CountDisjoint
  <2> QED BY <2>1, <2>2
<1>4. cn \in Nat /\ cp \in Nat /\ cP \in Nat /\ cR \in Nat
  BY <1>0, CountIsNat
<1>5. z \in Nat /\ z + cn + cp = cP + cR /\ cp = cP
  BY <1>0, <1>2, <1>3
<1> HIDE DEF cn, cp, cP, cR, z
<1>6. cn + z = cR
  BY <1>4, <1>5
<1> QED BY <1>2, <1>4, <1>5, <1>6 DEF cn, cR, z

(* A kept negative observation is found in its bin, from zero downwards. *)
LEMMA NegativeRank ==
    ASSUME NEW a, ObservedBag(a), NEW v, Sketched(v, a), NEW r \in Int,
           NEW x \in KeptNegative(a), AtRank(a, r, x)
    PROVE  LET below == Count(v.negative, Int)
           IN  r <= below /\ AtRank(v.negative, below - r + 1, Key(x))
<1> DEFINE N == KeptNegative(a)
           k == Key(x)
           L == KeysIn(N, LessThan(k))
           M == KeysIn(N, AtMost(k))
           cn == Count(a, N)
           cL == Count(a, L)
           cM == Count(a, M)
           dL == Count(a, N \ L)
           dM == Count(a, N \ M)
           cx == Count(a, LessThan(x))
           dx == Count(a, AtMost(x))
<1>0. /\ NumberBag(a) /\ x \in DOMAIN a /\ DOMAIN a \subseteq Int /\ N \subseteq DOMAIN a
      /\ \A y \in N : Key(y) \in Int
  <2>1. DOMAIN a \subseteq Observation /\ NumberBag(a)
    BY DEF ObservedBag
  <2>2. \A y \in N : y \in Observation \ {0}
    BY <2>1, SketchAssumption DEF KeptNegative
  <2> QED BY <2>1, <2>2, KeyType, SketchAssumption DEF KeptNegative
<1>1. \A y \in DOMAIN a : y <= x => y \in N /\ k <= Key(y)
  BY <1>0, KeptOutwards
<1>2. \A y \in N : Key(y) > k => y < x
  <2>1. ASSUME NEW y \in N, Key(y) > k, ~(y < x) PROVE FALSE
    <3>1. x <= y /\ y \in DOMAIN a
      BY <2>1, <1>0
    <3>2. Key(y) <= k
      BY <3>1, <1>0, KeptOutwards
    <3> QED BY <3>2, <2>1, <1>0
  <2> QED BY <2>1
<1>3. Count(v.negative, Int) = cn /\ Count(v.negative, LessThan(k)) = cL /\ Count(v.negative, AtMost(k)) = cM
  <2>1. Count(v.negative, Int) = cn
    BY Sections
  <2>2. \A K : Count(v.negative, K) = Count(a, KeysIn(N, K))
    BY SidesCount
  <2> HIDE DEF N, k
  <2> QED BY <2>1, <2>2
<1>4. k \in DOMAIN v.negative
  BY SidesCount
<1>5. DOMAIN a \cap AtMost(x) \subseteq N \ L
  BY <1>0, <1>1 DEF AtMost, LessThan, KeysIn
<1>6. DOMAIN a \cap (N \ M) \subseteq LessThan(x)
  BY <1>0, <1>2 DEF AtMost, LessThan, KeysIn
<1>7. L \subseteq N /\ M \subseteq N
  BY DEF KeysIn
<1>8. cx < r /\ r <= dx
  BY DEF AtRank
<1> HIDE DEF N, L, M, k
<1>9. cn = cL + dL /\ cn = cM + dM
  <2>1. \A S \in SUBSET N : Count(a, N) = Count(a, S) + Count(a, N \ S)
    <3>1. ASSUME NEW S \in SUBSET N PROVE Count(a, N) = Count(a, S) + Count(a, N \ S)
      <4>1. S \cap (N \ S) = {} /\ S \cup (N \ S) = N
        OBVIOUS
      <4>2. Count(a, S \cup (N \ S)) = Count(a, S) + Count(a, N \ S)
        BY <1>0, <4>1, CountDisjoint
      <4> QED BY <4>1, <4>2
    <3> QED BY <3>1
  <2> QED BY <2>1, <1>7
<1>10. dx <= dL /\ dM <= cx
  BY <1>0, <1>5, <1>6, CountWithin
<1>11. cn \in Nat /\ cL \in Nat /\ cM \in Nat /\ dL \in Nat /\ dM \in Nat /\ cx \in Nat /\ dx \in Nat
  BY <1>0, CountIsNat
<1> HIDE DEF cn, cL, cM, dL, dM, cx, dx
<1>12. r <= cn /\ cL < cn - r + 1 /\ cn - r + 1 <= cM
  BY <1>8, <1>9, <1>10, <1>11
<1> QED BY <1>3, <1>4, <1>12 DEF AtRank, k

(* A kept positive one is found in its bin, behind all that is not kept    *)
(* positive.                                                               *)
LEMMA PositiveRank ==
    ASSUME NEW a, ObservedBag(a), NEW v, Sketched(v, a), NEW r \in Int,
           NEW x \in KeptPositive(a), AtRank(a, r, x)
    PROVE  LET rest == Count(a, Int \ KeptPositive(a))
           IN  rest < r /\ AtRank(v.positive, r - rest, Key(x))
<1> DEFINE P == KeptPositive(a)
           R == Int \ P
           k == Key(x)
           L == KeysIn(P, LessThan(k))
           M == KeysIn(P, AtMost(k))
           cR == Count(a, R)
           cL == Count(a, L)
           cM == Count(a, M)
           dL == Count(a, R \cup L)
           dM == Count(a, R \cup M)
           cx == Count(a, LessThan(x))
           dx == Count(a, AtMost(x))
<1>0. /\ NumberBag(a) /\ x \in DOMAIN a /\ DOMAIN a \subseteq Int /\ P \subseteq DOMAIN a
      /\ \A y \in P : Key(y) \in Int
  <2>1. DOMAIN a \subseteq Observation /\ NumberBag(a)
    BY DEF ObservedBag
  <2>2. \A y \in P : y \in Observation \ {0}
    BY <2>1, SketchAssumption DEF KeptPositive
  <2> QED BY <2>1, <2>2, KeyType, SketchAssumption DEF KeptPositive
<1>1. \A y \in DOMAIN a : x <= y => y \in P /\ k <= Key(y)
  BY <1>0, KeptOutwards
<1>2. \A y \in P : y <= x => Key(y) <= k
  BY <1>0, KeptOutwards
<1>3. Count(v.positive, LessThan(k)) = cL /\ Count(v.positive, AtMost(k)) = cM
  <2>1. \A K : Count(v.positive, K) = Count(a, KeysIn(P, K))
    BY SidesCount
  <2> HIDE DEF P, k
  <2> QED BY <2>1
<1>4. k \in DOMAIN v.positive
  BY SidesCount
<1>5. DOMAIN a \cap AtMost(x) \subseteq R \cup M
  <2>1. ASSUME NEW y \in DOMAIN a, y <= x PROVE y \in R \cup M
    <3>1. CASE y \in P
      BY <3>1, <2>1, <1>0, <1>2 DEF AtMost, KeysIn
    <3>2. CASE y \notin P
      BY <3>2, <1>0
    <3> QED BY <3>1, <3>2
  <2> QED BY <2>1 DEF AtMost
<1>6. DOMAIN a \cap (R \cup L) \subseteq LessThan(x)
  <2>1. ASSUME NEW y \in DOMAIN a, y \in R \cup L, ~(y < x) PROVE FALSE
    <3>1. x <= y
      BY <2>1, <1>0
    <3>2. y \in P /\ k <= Key(y) /\ Key(y) \in Int /\ k \in Int
      BY <3>1, <1>0, <1>1
    <3> QED BY <3>2, <2>1 DEF LessThan, KeysIn
  <2> QED BY <2>1, <1>0 DEF LessThan
<1>7. R \cap L = {} /\ R \cap M = {}
  BY DEF KeysIn
<1>8. cx < r /\ r <= dx
  BY DEF AtRank
<1> HIDE DEF P, R, L, M, k
<1>9. dL = cR + cL /\ dM = cR + cM
  BY <1>0, <1>7, CountDisjoint
<1>10. dx <= dM /\ dL <= cx
  BY <1>0, <1>5, <1>6, CountWithin
<1>11. cR \in Nat /\ cL \in Nat /\ cM \in Nat /\ dL \in Nat /\ dM \in Nat /\ cx \in Nat /\ dx \in Nat
  BY <1>0, CountIsNat
<1> HIDE DEF cR, cL, cM, dL, dM, cx, dx
<1>12. cR < r /\ cL < r - cR /\ r - cR <= cM
  BY <1>8, <1>9, <1>10, <1>11
<1>13. Count(a, Int \ KeptPositive(a)) = cR
  BY DEF cR, R, P
<1> QED BY <1>3, <1>4, <1>12, <1>13 DEF AtRank, k

(* All others are in the section of zero. *)
LEMMA ZeroRank ==
    ASSUME NEW a, ObservedBag(a), NEW r \in Int, NEW x, AtRank(a, r, x),
           x \notin KeptNegative(a), x \notin KeptPositive(a)
    PROVE  Count(a, KeptNegative(a)) < r /\ r <= Count(a, Int \ KeptPositive(a))
<1> DEFINE N == KeptNegative(a)
           P == KeptPositive(a)
           cN == Count(a, N)
           cR == Count(a, Int \ P)
           cx == Count(a, LessThan(x))
           dx == Count(a, AtMost(x))
<1>0. NumberBag(a) /\ DOMAIN a \subseteq Int /\ x \in DOMAIN a
  BY SketchAssumption DEF ObservedBag, AtRank
<1>1. DOMAIN a \cap N \subseteq LessThan(x)
  <2>1. ASSUME NEW y \in N, ~(y < x) PROVE FALSE
    <3>1. y \in DOMAIN a /\ x <= y
      BY <2>1, <1>0 DEF KeptNegative
    <3> QED BY <3>1, <1>0, KeptOutwards
  <2> QED BY <2>1, <1>0 DEF LessThan
<1>2. DOMAIN a \cap AtMost(x) \subseteq Int \ P
  <2>1. ASSUME NEW y \in DOMAIN a, y <= x, y \in P PROVE FALSE
    BY <2>1, <1>0, KeptOutwards
  <2> QED BY <2>1, <1>0 DEF AtMost
<1>3. cx < r /\ r <= dx
  BY DEF AtRank
<1> HIDE DEF N, P
<1>4. cN <= cx /\ dx <= cR /\ cN \in Nat /\ cR \in Nat /\ cx \in Nat /\ dx \in Nat
  BY <1>0, <1>1, <1>2, CountWithin
<1> HIDE DEF cN, cR, cx, dx
<1>5. cN < r /\ r <= cR
  BY <1>3, <1>4
<1> QED BY <1>5 DEF cN, cR, N, P

(* The answer of an approximate sketch, before it is clamped.              *)
LEMMA ApproximateClose ==
    ASSUME NEW a, ObservedBag(a), NEW v, Sketched(v, a), NEW r \in Int, NEW x, AtRank(a, r, x)
    PROVE  LET q == ApproximateQuantile(v, r)
           IN  /\ q \in Int
               /\ IF x # 0 /\ Signed(x) \in Kept(a) THEN 3 * Magnitude(q - x) <= Magnitude(x) ELSE q = 0
<1> DEFINE below == Count(v.negative, Int)
           z == v.zero
           b == BinValue(Key(x))
           q == ApproximateQuantile(v, r)
           rest == Count(a, Int \ KeptPositive(a))
<1>0. /\ x \in DOMAIN a /\ x \in Observation /\ x \in Int
      /\ NumberBag(v.negative) /\ NumberBag(v.positive)
  BY SketchAssumption DEF AtRank, ObservedBag, Sketched, Binned
<1>1. below = Count(a, KeptNegative(a)) /\ below + z = rest /\ below \in Nat /\ z \in Nat
  BY Sections
<1>2. SumFunction(v.negative) = below
  BY <1>0, CountAll
<1>3. q = IF r <= below THEN -BinValue(KeyAt(v.negative, below - r + 1))
          ELSE IF r <= below + z THEN 0
          ELSE BinValue(KeyAt(v.positive, r - below - z))
  BY <1>2 DEF ApproximateQuantile
<1>4. CASE x \in KeptNegative(a)
  <2>1. r <= below /\ AtRank(v.negative, below - r + 1, Key(x))
    BY <1>4, NegativeRank
  <2>2. below - r + 1 \in Int
    BY <1>1
  <2> DEFINE t == below - r + 1
  <2>3. t \in Int /\ AtRank(v.negative, t, Key(x))
    BY <2>1, <2>2
  <2>4. KeyAt(v.negative, t) = Key(x)
    <3> HIDE DEF t
    <3> QED BY <1>0, <2>3, RankedIs
  <2>5. q = -b
    BY <1>3, <2>1, <2>4
  <2>6. x < 0 /\ Signed(x) \in Kept(a)
    BY <1>4 DEF KeptNegative
  <2>7. b \in Nat /\ 3 * (b - Magnitude(x)) <= Magnitude(x) /\ 3 * (Magnitude(x) - b) <= Magnitude(x)
    BY <1>0, <2>6, BinValueClose
  <2> HIDE DEF b, q
  <2>8. q \in Int /\ 3 * Magnitude(q - x) <= Magnitude(x)
    BY <1>0, <2>5, <2>6, <2>7 DEF Magnitude
  <2> QED BY <2>6, <2>8 DEF q
<1>5. CASE x \in KeptPositive(a)
  <2>1. rest < r /\ AtRank(v.positive, r - rest, Key(x))
    BY <1>5, PositiveRank
  <2> DEFINE t == r - rest
  <2>2. t \in Int /\ r - below - z = t /\ ~(r <= below) /\ ~(r <= below + z)
    <3> HIDE DEF below, z, rest
    <3> QED BY <1>1, <2>1
  <2>3. KeyAt(v.positive, t) = Key(x)
    <3>1. AtRank(v.positive, t, Key(x))
      BY <2>1
    <3> HIDE DEF t
    <3> QED BY <1>0, <2>2, <3>1, RankedIs
  <2>4. q = b
    <3> HIDE DEF q, t, below, z
    <3> QED BY <1>3, <2>2, <2>3
  <2>6. x > 0 /\ Signed(x) \in Kept(a)
    BY <1>5 DEF KeptPositive
  <2>7. b \in Nat /\ 3 * (b - Magnitude(x)) <= Magnitude(x) /\ 3 * (Magnitude(x) - b) <= Magnitude(x)
    BY <1>0, <2>6, BinValueClose
  <2> HIDE DEF b, q
  <2>8. q \in Int /\ 3 * Magnitude(q - x) <= Magnitude(x)
    BY <1>0, <2>4, <2>6, <2>7 DEF Magnitude
  <2> QED BY <2>6, <2>8 DEF q
<1>6. CASE x \notin KeptNegative(a) /\ x \notin KeptPositive(a)
  <2>1. below < r /\ r <= below + z
    BY <1>1, <1>6, ZeroRank
  <2>2. q = 0
    <3> HIDE DEF q, below, z
    <3> QED BY <1>1, <1>3, <2>1
  <2>3. ~(x # 0 /\ Signed(x) \in Kept(a))
    BY <1>0, <1>6 DEF KeptNegative, KeptPositive
  <2> QED BY <2>2, <2>3
<1> QED BY <1>4, <1>5, <1>6

(* The observations lie between the bounds a sketch keeps.                 *)
LEMMA WithinBounds ==
    ASSUME NEW a, NumberBag(a), NEW v, Stats(v, a), NEW x \in DOMAIN a
    PROVE  v.min \in Int /\ v.max \in Int /\ x \in Int /\ v.min <= x /\ x <= v.max
<1>1. DOMAIN a \in SUBSET Int /\ IsFiniteSet(DOMAIN a) /\ DOMAIN a # {}
  BY DEF NumberBag
<1>2. a # EmptyBag
  BY <1>1, EmptyCount
<1>3. v.min = Min(DOMAIN a) /\ v.max = Max(DOMAIN a) /\ v.min \in Int /\ v.max \in Int
  BY <1>2 DEF Stats
<1>4. Min(DOMAIN a) <= x /\ x <= Max(DOMAIN a)
  BY <1>1, MinOfSet, MaxOfSet
<1> QED BY <1>1, <1>3, <1>4

(* Clamping to them brings an answer no further from any of them.          *)
LEMMA ClampCloser ==
    ASSUME NEW x \in Int, NEW q \in Int, NEW low \in Int, NEW high \in Int, low <= x, x <= high
    PROVE  LET c == IF q < low THEN low ELSE IF q > high THEN high ELSE q
           IN  /\ Magnitude(c - x) <= Magnitude(q - x)
               /\ q = 0 => Magnitude(c) <= Magnitude(x)
               /\ q = x => c = x
BY DEF Magnitude

-----------------------------------------------------------------------------
(* Sorted lists: the places with an element of a set. *)
Places(xs, n, S) == {i \in 1..n : xs[i] \in S}

(* What a list has of a set are its places with an element of it. *)
LEMMA CountIsPlaces ==
    ASSUME NEW xs, NEW n, Observing(xs, n), NEW S
    PROVE  Count(ToBag(xs), S) = Cardinality(Places(xs, n, S))
<1> DEFINE T == {k \in 0..n : Count(First(xs, k), S) = Cardinality(Places(xs, k, S))}
<1>0. n \in Nat
  BY DEF Observing
<1>1. 0 \in T
  <2>1. Places(xs, 0, S) = {} /\ Cardinality({}) = 0
    BY FS_EmptySet DEF Places
  <2>2. Count(First(xs, 0), S) = 0
    BY FirstNone, NoBag
  <2> QED BY <2>1, <2>2, <1>0
<1>2. ASSUME NEW k \in 0..(n - 1), k \in T PROVE k + 1 \in T
  <2> DEFINE P == Places(xs, k, S)
             Q == Places(xs, k + 1, S)
             x == xs[k + 1]
             c == Count(First(xs, k), S)
             d == Count(SetToBag({x}), S)
  <2>1. x \in Observation /\ x \in Int /\ k \in Nat /\ k + 1 \in 0..n
    <3>1. k \in Nat /\ k + 1 \in 0..n /\ k + 1 \in 1..n
      BY <1>0
    <3> QED BY <3>1, SketchAssumption DEF Observing
  <2>2. First(xs, k + 1) = First(xs, k) (+) SetToBag({x})
    BY FirstPlus
  <2>3. NumberBag(First(xs, k)) /\ NumberBag(SetToBag({x}))
    <3>1. k \in 0..n
      BY <1>0
    <3> QED BY <3>1, <2>1, FirstBag, OneBag DEF ObservedBag
  <2>4. Count(First(xs, k + 1), S) = c + d
    <3> HIDE DEF x
    <3> QED BY <2>2, <2>3, CountPlus
  <2>5. d = IF x \in S THEN 1 ELSE 0
    BY <2>1, OneBag
  <2>6. Q = (IF x \in S THEN P \cup {k + 1} ELSE P) /\ k + 1 \notin P
    <3>1. \A i : i \in 1..(k + 1) <=> i \in 1..k \/ i = k + 1
      BY <2>1
    <3>2. k + 1 \notin 1..k
      BY <2>1
    <3> QED BY <3>1, <3>2 DEF Places
  <2>7. IsFiniteSet(P)
    <3> DEFINE I == 1..k
    <3>1. IsFiniteSet(I) /\ P \subseteq I
      BY <2>1, FS_Interval DEF Places
    <3> HIDE DEF I, P
    <3> QED BY <3>1, FS_Subset
  <2>8. c = Cardinality(P)
    BY <1>2
  <2> HIDE DEF P, Q, x
  <2>9. Cardinality(P \cup {k + 1}) = Cardinality(P) + 1 /\ Cardinality(P) \in Nat
    BY <2>6, <2>7, FS_AddElement, FS_CardinalityType
  <2>10. c + d = Cardinality(Q)
    <3> HIDE DEF c, d
    <3>1. CASE x \in S
      BY <3>1, <2>5, <2>6, <2>8, <2>9
    <3>2. CASE x \notin S
      BY <3>2, <2>5, <2>6, <2>8, <2>9
    <3> QED BY <3>1, <3>2
  <2> QED BY <2>1, <2>4, <2>10 DEF Q
<1> HIDE DEF T
<1>3. \A k \in 0..n : k \in T
  BY <1>0, <1>1, <1>2, NatUpTo
<1>4. n \in T
  BY <1>0, <1>3
<1> QED BY <1>4, FirstAll DEF T

(* In a sorted list the place is the rank.                                 *)
LEMMA SortedByRank ==
    ASSUME NEW q, NEW n, Observing(q, n), \A i \in 2..n : q[i - 1] <= q[i], NEW r \in 1..n
    PROVE  AtRank(ToBag(q), r, q[r])
<1> DEFINE x == q[r]
           U == {k \in 0..n : \A i \in 1..k : q[i] <= q[k]}
           cL == Count(ToBag(q), LessThan(x))
           cM == Count(ToBag(q), AtMost(x))
           L == Places(q, n, LessThan(x))
           M == Places(q, n, AtMost(x))
<1>0. n \in Nat /\ DOMAIN q = 1..n /\ \A i \in 1..n : q[i] \in Observation /\ q[i] \in Int
  BY SketchAssumption DEF Observing
<1>1. \A k \in 0..n : k \in U
  <2>1. 0 \in U
    BY <1>0
  <2>2. ASSUME NEW k \in 0..(n - 1), k \in U PROVE k + 1 \in U
    <3>1. k + 1 \in 1..n /\ k + 1 \in 0..n
      BY <1>0
    <3>2. ASSUME NEW i \in 1..(k + 1) PROVE q[i] <= q[k + 1]
      <4>1. CASE i = k + 1
        BY <4>1, <1>0, <3>1
      <4>2. CASE i # k + 1
        <5>1. i \in 1..k /\ k \in 1..n /\ k + 1 \in 2..n /\ (k + 1) - 1 = k /\ i \in 1..n
          BY <4>2, <1>0
        <5>2. q[i] <= q[k] /\ q[k] <= q[k + 1]
          BY <5>1, <2>2
        <5>3. q[i] \in Int /\ q[k] \in Int /\ q[k + 1] \in Int
          BY <5>1, <1>0, <3>1
        <5> QED BY <5>2, <5>3
      <4> QED BY <4>1, <4>2
    <3> QED BY <3>1, <3>2
  <2> HIDE DEF U
  <2> QED BY <1>0, <2>1, <2>2, NatUpTo
<1>2. \A i, j \in 1..n : i <= j => q[i] <= q[j]
  <2>1. ASSUME NEW i \in 1..n, NEW j \in 1..n, i <= j PROVE q[i] <= q[j]
    <3>1. j \in 0..n /\ i \in 1..j
      BY <2>1, <1>0
    <3> QED BY <3>1, <1>1
  <2> QED BY <2>1
<1>3. x \in Int
  BY <1>0
<1>4. L \subseteq 1..(r - 1)
  <2>1. ASSUME NEW i \in 1..n, q[i] < x PROVE i < r
    <3> SUFFICES ASSUME r <= i PROVE FALSE
      BY <1>0
    <3>1. x <= q[i] /\ q[i] \in Int
      BY <1>0, <1>2
    <3> HIDE DEF x
    <3> QED BY <3>1, <2>1, <1>3
  <2>2. \A i \in 1..n : i < r => i \in 1..(r - 1)
    BY <1>0
  <2> HIDE DEF x
  <2> QED BY <2>1, <2>2 DEF Places, LessThan
<1>5. 1..r \subseteq M
  <2>1. ASSUME NEW i \in 1..r PROVE i \in 1..n /\ q[i] <= x /\ q[i] \in Int
    <3>1. i \in 1..n /\ i <= r
      BY <1>0
    <3> QED BY <3>1, <1>0, <1>2
  <2> HIDE DEF x
  <2> QED BY <2>1 DEF Places, AtMost
<1>6. M \subseteq 1..n
  BY DEF Places
<1>7. cL = Cardinality(L) /\ cM = Cardinality(M)
  BY CountIsPlaces
<1>8. x \in DOMAIN ToBag(q)
  <2>1. DOMAIN ToBag(q) = {q[i] : i \in 1..n}
    BY FirstAll DEF First
  <2> QED BY <2>1
<1> DEFINE A == 1..(r - 1)
           B == 1..r
           D == 1..n
<1>9. /\ IsFiniteSet(A) /\ IsFiniteSet(D) /\ Cardinality(A) = r - 1
      /\ IsFiniteSet(B) /\ Cardinality(B) = r
  BY <1>0, FS_Interval
<1>10. L \subseteq A /\ B \subseteq M /\ M \subseteq D
  BY <1>4, <1>5, <1>6
<1> HIDE DEF L, M, A, B, D
<1>11. Cardinality(L) <= Cardinality(A) /\ IsFiniteSet(L)
  BY <1>9, <1>10, FS_Subset
<1>12. IsFiniteSet(M)
  BY <1>9, <1>10, FS_Subset
<1>13. Cardinality(B) <= Cardinality(M)
  BY <1>10, <1>12, FS_Subset
<1>14. Cardinality(L) \in Nat /\ Cardinality(M) \in Nat
  BY <1>11, <1>12, FS_CardinalityType
<1> HIDE DEF cL, cM
<1>15. cL < r /\ r <= cM
  BY <1>7, <1>9, <1>11, <1>13, <1>14, <1>0
<1> QED BY <1>8, <1>15 DEF AtRank, cL, cM

(* A list of observations can be sorted: element by element its ranked ones. *)
LEMMA ListSortable ==
    ASSUME NEW xs \in Seq(Observation)
    PROVE  \E q \in [1..Len(xs) -> Range(xs)] :
              ToBag(q) = ToBag(xs) /\ \A i \in 2..Len(xs) : q[i - 1] <= q[i]
<1> DEFINE n == Len(xs)
           a == ToBag(xs)
           D == DOMAIN a
           q == [i \in 1..n |-> CHOOSE x \in D : AtRank(a, i, x)]
<1>1. Observing(xs, n) /\ n \in Nat /\ Range(xs) = {xs[i] : i \in 1..n}
  BY DEF Observing, Range
<1>2. NumberBag(a) /\ D = Range(xs) /\ D \subseteq Observation
  <2> HIDE DEF n
  <2>1. a = First(xs, n) /\ n \in 0..n
    BY <1>1, FirstAll
  <2>2. ObservedBag(First(xs, n))
    BY <1>1, <2>1, FirstBag
  <2>3. DOMAIN First(xs, n) = {xs[i] : i \in 1..n}
    BY DEF First
  <2> QED BY <2>1, <2>2, <2>3, <1>1 DEF ObservedBag
<1>3. Count(a, Int) = n
  <2> HIDE DEF n
  <2>1. Places(xs, n, Int) = 1..n
    BY <1>1, SketchAssumption DEF Places, Observing
  <2>2. Cardinality(1..n) = n
    BY <1>1, FS_Interval
  <2> QED BY <1>1, <2>1, <2>2, CountIsPlaces
<1> HIDE DEF n, a
<1>4. \A i \in 1..n : q[i] \in D /\ AtRank(a, i, q[i])
  <2>1. ASSUME NEW i \in 1..n PROVE \E x \in D : AtRank(a, i, x)
    BY <1>2, <1>3, RankExists
  <2> QED BY <2>1
<1>5. q \in [1..n -> D] /\ DOMAIN q = 1..n
  BY <1>4
<1> HIDE DEF q
<1>6. Observing(q, n)
  BY <1>1, <1>2, <1>4, <1>5 DEF Observing
<1>7. \A i \in 2..n : q[i - 1] <= q[i]
  <2>1. ASSUME NEW i \in 2..n PROVE q[i - 1] <= q[i]
    <3>1. i \in 1..n /\ i - 1 \in 1..n /\ i - 1 \in Int /\ i \in Int /\ i - 1 <= i
      BY <1>1
    <3> DEFINE j == i - 1
    <3>2. j \in 1..n /\ j \in Int /\ j <= i
      BY <3>1
    <3> HIDE DEF j
    <3>3. q[j] <= q[i]
      BY <1>2, <1>4, <3>1, <3>2, RanksInOrder
    <3> QED BY <3>3 DEF j
  <2> QED BY <2>1
<1>8. ASSUME NEW x PROVE At(ToBag(q), x) = At(a, x)
  <2> DEFINE P == {i \in 1..n : q[i] = x}
             cL == Count(a, LessThan(x))
             cM == Count(a, AtMost(x))
  <2>1. At(ToBag(q), x) = Cardinality(P)
    BY <1>1, <1>6, FirstAll, AtFirst
  <2>2. CASE x \notin D
    <3>1. P = {}
      BY <2>2, <1>4
    <3> QED BY <2>1, <2>2, <3>1, FS_EmptySet DEF At
  <2>3. CASE x \in D
    <3>1. cM = cL + a[x] /\ cL \in Nat /\ a[x] \in Nat /\ cM \in Nat /\ cM <= n
      <4>1. cM = cL + a[x] /\ a[x] \in Nat
        BY <1>2, <2>3, CountAtMost
      <4>2. cL \in Nat /\ cM \in Nat
        BY <1>2, CountIsNat
      <4>3. cM <= n
        <5>1. D \cap AtMost(x) \subseteq Int
          BY DEF AtMost
        <5> QED BY <1>2, <1>3, <5>1, CountWithin
      <4> QED BY <4>1, <4>2, <4>3
    <3>2. ASSUME NEW i \in 1..n PROVE q[i] = x <=> cL < i /\ i <= cM
      <4>1. q[i] = x => cL < i /\ i <= cM
        BY <1>4 DEF AtRank
      <4>2. ASSUME cL < i, i <= cM PROVE q[i] = x
        <5>1. AtRank(a, i, x) /\ AtRank(a, i, q[i]) /\ i \in Int
          BY <1>4, <2>3, <4>2, <1>1 DEF AtRank
        <5>2. Ranked(a, i) = x /\ Ranked(a, i) = q[i]
          BY <5>1, <1>2, RankedIs
        <5> QED BY <5>2
      <4> QED BY <4>1, <4>2
    <3> HIDE DEF cL, cM
    <3>3. P = (cL + 1)..cM
      <4>1. \A i : i \in (cL + 1)..cM <=> i \in 1..n /\ cL < i /\ i <= cM
        BY <3>1, <1>1
      <4> QED BY <4>1, <3>2
    <3>4. Cardinality((cL + 1)..cM) = a[x]
      <4> DEFINE m == a[x]
                 c == cL + 1
      <4>1. c \in Int /\ cM \in Int /\ m \in Nat /\ cM - c + 1 = m /\ (c > cM => m = 0)
        BY <3>1
      <4> HIDE DEF m, c
      <4>2. Cardinality(c..cM) = IF c > cM THEN 0 ELSE cM - c + 1
        BY <4>1, FS_Interval
      <4>3. Cardinality(c..cM) = m
        BY <4>1, <4>2
      <4> QED BY <4>3 DEF c, m
    <3> HIDE DEF P
    <3> QED BY <2>1, <3>3, <3>4, <2>3 DEF At
  <2> QED BY <2>2, <2>3
<1>9. NumberBag(ToBag(q))
  <2>1. ToBag(q) = First(q, n) /\ n \in 0..n
    BY <1>1, <1>6, FirstAll
  <2> QED BY <2>1, <1>6, FirstBag DEF ObservedBag
<1>10. ToBag(q) = a
  BY <1>2, <1>8, <1>9, BagEqual
<1> QED BY <1>2, <1>5, <1>7, <1>10 DEF n, a

(* So an exact sketch answers with the ranked observation itself.          *)
LEMMA SortedRanked ==
    ASSUME NEW xs \in Seq(Observation), NEW r \in 1..Len(xs)
    PROVE  AtRank(ToBag(xs), r, Sorted(xs)[r])
<1> DEFINE n == Len(xs)
           q == Sorted(xs)
<1>1. q \in [1..n -> Range(xs)] /\ ToBag(q) = ToBag(xs) /\ \A i \in 2..n : q[i - 1] <= q[i]
  BY ListSortable DEF Sorted
<1>2. n \in Nat /\ Range(xs) \subseteq Observation /\ r \in 1..n
  BY DEF Range
<1> HIDE DEF n, q
<1>3. Observing(q, n)
  BY <1>1, <1>2 DEF Observing
<1>4. AtRank(ToBag(q), r, q[r])
  BY <1>1, <1>2, <1>3, SortedByRank
<1> QED BY <1>1, <1>4 DEF q

(* Quantiles of a sketch of any form. *)
LEMMA QuantileOfSketch ==
    ASSUME NEW a, ObservedBag(a), NEW v, AnySketch(v, a), NEW r \in 1..v.count
    PROVE  LET x == Ranked(a, r)
               q == Quantile(v, r)
           IN  IF x = 0 \/ Signed(x) \in Kept(a) \/ v.exact # <<>>
               THEN 3 * Magnitude(q - x) <= Magnitude(x)
               ELSE Magnitude(q) <= Magnitude(x)
<1> DEFINE x == Ranked(a, r)
           y == IF v.exact # <<>> THEN Sorted(v.exact)[r] ELSE ApproximateQuantile(v, r)
           q == Quantile(v, r)
<1>0. /\ NumberBag(a) /\ Stats(v, a)
      /\ v.exact = <<>> => Sketched(v, a)
      /\ v.exact # <<>> => v.exact \in Seq(Observation) /\ ToBag(v.exact) = a
  BY DEF ObservedBag, AnySketch, Sketched, ExactSketch
<1>1. r \in Int /\ r \in 1..Count(a, Int)
  BY <1>0 DEF Stats
<1>2. AtRank(a, r, x)
  <2>1. PICK z \in DOMAIN a : AtRank(a, r, z)
    BY <1>0, <1>1, RankExists
  <2> QED BY <2>1, <1>0, <1>1, RankedIs
<1>3. v.min \in Int /\ v.max \in Int /\ x \in Int /\ v.min <= x /\ x <= v.max
  BY <1>0, <1>2, WithinBounds DEF AtRank
<1>4. q = IF y < v.min THEN v.min ELSE IF y > v.max THEN v.max ELSE y
  BY DEF Quantile
<1> HIDE DEF x, q
<1>5. CASE v.exact # <<>>
  <2> DEFINE xs == v.exact
  <2>1. xs \in Seq(Observation) /\ ToBag(xs) = a
    BY <1>0, <1>5
  <2>2. r \in 1..Len(xs)
    <3> DEFINE n == Len(xs)
    <3>1. n \in Nat /\ Observing(xs, n)
      BY <2>1 DEF Observing
    <3>2. Places(xs, n, Int) = 1..n
      <4> HIDE DEF n, xs
      <4> QED BY <3>1, SketchAssumption DEF Places, Observing
    <3> HIDE DEF n
    <3>3. Count(a, Int) = Cardinality(Places(xs, n, Int))
      <4> HIDE DEF xs
      <4> QED BY <3>1, <2>1, CountIsPlaces
    <3>4. Cardinality(1..n) = n
      BY <3>1, FS_Interval
    <3>5. Count(a, Int) = n
      BY <3>2, <3>3, <3>4
    <3> QED BY <3>5, <1>1 DEF n
  <2>3. AtRank(a, r, y)
    <3>1. y = Sorted(xs)[r]
      BY <1>5
    <3> HIDE DEF xs, y
    <3> QED BY <2>1, <2>2, <3>1, SortedRanked
  <2> HIDE DEF y, xs
  <2>4. y = x
    BY <1>0, <1>1, <1>2, <2>3, RankedIs
  <2>5. q = x
    BY <1>3, <1>4, <2>4
  <2>6. 3 * Magnitude(q - x) <= Magnitude(x)
    BY <1>3, <2>5 DEF Magnitude
  <2> QED BY <1>5, <2>6 DEF x, q
<1>6. CASE v.exact = <<>>
  <2>1. Sketched(v, a) /\ y = ApproximateQuantile(v, r)
    BY <1>0, <1>6
  <2> HIDE DEF y
  <2>2. /\ y \in Int
        /\ IF x # 0 /\ Signed(x) \in Kept(a) THEN 3 * Magnitude(y - x) <= Magnitude(x) ELSE y = 0
    BY <1>1, <1>2, <2>1, ApproximateClose
  <2>3. /\ Magnitude(q - x) <= Magnitude(y - x)
        /\ y = 0 => Magnitude(q) <= Magnitude(x)
        /\ y = x => q = x
    <3> DEFINE low == v.min
               high == v.max
    <3>1. low \in Int /\ high \in Int /\ x \in Int /\ y \in Int /\ low <= x /\ x <= high
      BY <1>3, <2>2
    <3>2. q = IF y < low THEN low ELSE IF y > high THEN high ELSE y
      BY <1>4
    <3> HIDE DEF low, high
    <3> QED BY <3>1, <3>2, ClampCloser
  <2>4. q \in Int
    BY <1>3, <1>4, <2>2
  <2>5. CASE x # 0 /\ Signed(x) \in Kept(a)
    <3>1. 3 * Magnitude(q - x) <= Magnitude(x)
      <4> DEFINE d == Magnitude(q - x)
                 e == Magnitude(y - x)
      <4>1. d \in Int /\ e \in Int /\ Magnitude(x) \in Int
        BY <1>3, <2>2, <2>4 DEF Magnitude
      <4>2. d <= e /\ 3 * e <= Magnitude(x)
        BY <2>2, <2>3, <2>5
      <4> HIDE DEF d, e
      <4>3. 3 * d <= Magnitude(x)
        BY <4>1, <4>2
      <4> QED BY <4>3 DEF d
    <3> QED BY <2>5, <3>1 DEF x, q
  <2>6. CASE x = 0
    <3>1. q = x
      BY <2>6, <2>2, <2>3
    <3>2. 3 * Magnitude(q - x) <= Magnitude(x)
      BY <3>1, <2>6 DEF Magnitude
    <3> QED BY <2>6, <3>2 DEF x, q
  <2>7. CASE x # 0 /\ Signed(x) \notin Kept(a)
    <3>1. Magnitude(q) <= Magnitude(x)
      BY <2>2, <2>3, <2>7
    <3> QED BY <2>7, <1>6, <3>1 DEF x, q
  <2> QED BY <2>5, <2>6, <2>7
<1> QED BY <1>5, <1>6

(* A quantile is within alpha of the exact nearest-rank one, for every     *)
(* rank, as long as the observation of that rank is in a bin the sketch    *)
(* keeps; otherwise the answer is no further from zero than it.            *)
THEOREM SketchQuantiles == Spec => []QuantileAccurate
<1>1. SketchInv => QuantileAccurate
  <2> SUFFICES ASSUME SketchInv, NEW rank \in 1..view.count
               PROVE  LET x == Ranked(seen, rank)
                          q == Quantile(view, rank)
                      IN  IF x = 0 \/ Signed(x) \in Kept(seen) \/ view.exact # <<>>
                          THEN 3 * Magnitude(q - x) <= Magnitude(x)
                          ELSE Magnitude(q) <= Magnitude(x)
    BY DEF QuantileAccurate
  <2>1. ObservedBag(seen) /\ AnySketch(view, seen)
    BY DEF SketchInv
  <2> QED BY <2>1, QuantileOfSketch
<1> QED BY <1>1, SketchInvariant, PTL

=============================================================================
