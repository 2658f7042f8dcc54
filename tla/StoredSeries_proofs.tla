-------------------------- MODULE StoredSeries_proofs --------------------------
(***************************************************************************)
(* The bytes of a series implement the algebra of SeriesLog, for every     *)
(* size of segment, width of word, span and length of deltas.              *)
(*                                                                         *)
(*  1. Coding: differences modulo a word and their running sums are        *)
(*     inverse (UndeltaDelta), so a block decodes to what it encodes.      *)
(*  2. Segments: a list cut into chunks and put together again is the list *)
(*     (ChunksOfList), so an append is read back as it was (DecodedAppend).*)
(*  3. Compaction: a pass over the raw operations with a map of buckets    *)
(*     keeps or moves each of them (CompactMovesOps).                      *)
(*  4. Merging: by decoding (MergeByDecoding) or by appending a block      *)
(*     (MergeByAppending), the operations are those of the merge algebra.  *)
(*  5. The inductive invariant and the theorems.                           *)
(*                                                                         *)
(* A recursion over the integers is a function that the provers can only   *)
(* use once it is known to exist: Recursion shows that, from the least     *)
(* element of a set of naturals.                                           *)
(***************************************************************************)
EXTENDS StoredSeries, FiniteSetTheorems, SequenceTheorems, WellFoundedInduction, TLAPS

-----------------------------------------------------------------------------
(* A set of naturals has a least element. *)
LEMMA Least ==
    ASSUME NEW S \in SUBSET Nat, S # {}
    PROVE  \E n \in S : \A m \in S : n <= m
<1> DEFINE R == OpToRel(<, Nat)
<1>1. IsWellFoundedOn(R, Nat)
  BY NatLessThanWellFounded
<1>2. \E n \in S : \A m \in S : <<m, n>> \notin R
  <2> HIDE DEF R
  <2> QED BY <1>1, WFMin
<1>3. PICK n \in S : \A m \in S : <<m, n>> \notin R
  BY <1>2
<1>4. \A m \in S : m < n => <<m, n>> \in R
  BY DEF OpToRel
<1>5. \A m \in S : n <= m
  <2> SUFFICES ASSUME NEW m \in S, ~(n <= m) PROVE FALSE
    OBVIOUS
  <2>1. m < n
    OBVIOUS
  <2> HIDE DEF R
  <2> QED BY <2>1, <1>3, <1>4
<1> QED BY <1>5

(* Induction up to a number, over the set of the numbers it holds of. *)
LEMMA UpTo ==
    ASSUME NEW n \in Nat, NEW S, 0 \in S,
           \A k \in 0..(n - 1) : k \in S => k + 1 \in S
    PROVE  \A k \in 0..n : k \in S
<1> DEFINE B == {k \in 0..n : k \notin S}
<1> SUFFICES ASSUME B # {} PROVE FALSE
  OBVIOUS
<1>1. PICK k \in B : \A m \in B : k <= m
  <2>1. B \in SUBSET Nat
    OBVIOUS
  <2> HIDE DEF B
  <2> QED BY <2>1, Least
<1>2. k # 0 /\ k - 1 \in 0..(n - 1) /\ k - 1 \notin B
  BY <1>1
<1> QED BY <1>1, <1>2

Steps(A, n) == [1..n -> [A -> A]]
Solutions(A, n, base, step) ==
    {g \in [0..n -> A] : g[0] = base /\ \A i \in 1..n : g[i] = step[i][g[i - 1]]}

(* A recursion along 0..n has a solution. *)
LEMMA Recursion ==
    ASSUME NEW A, NEW n \in Nat, NEW base \in A, NEW step \in Steps(A, n)
    PROVE  Solutions(A, n, base, step) # {}
<1>0. step \in [1..n -> [A -> A]]
  BY DEF Steps
<1> DEFINE S == {k \in 0..n : \E g \in [0..k -> A] :
                     g[0] = base /\ \A i \in 1..k : g[i] = step[i][g[i - 1]]}
<1>1. 0 \in S
  <2> DEFINE g == [i \in 0..0 |-> base]
  <2>1. g \in [0..0 -> A] /\ g[0] = base /\ \A i \in 1..0 : g[i] = step[i][g[i - 1]]
    OBVIOUS
  <2> HIDE DEF g
  <2> QED BY <2>1
<1>2. ASSUME NEW k \in 0..(n - 1), k \in S PROVE k + 1 \in S
  <2>1. PICK g \in [0..k -> A] :
           g[0] = base /\ \A i \in 1..k : g[i] = step[i][g[i - 1]]
    BY <1>2
  <2> DEFINE h == [i \in 0..(k + 1) |-> IF i <= k THEN g[i] ELSE step[k + 1][g[k]]]
  <2>2. h \in [0..(k + 1) -> A]
    BY <1>0
  <2>3. h[0] = base /\ \A i \in 1..(k + 1) : h[i] = step[i][h[i - 1]]
    <3>1. h[0] = base
      BY <2>1
    <3>2. ASSUME NEW i \in 1..k PROVE h[i] = step[i][h[i - 1]]
      <4>1. h[i] = g[i] /\ h[i - 1] = g[i - 1]
        OBVIOUS
      <4> QED BY <4>1, <2>1
    <3>3. h[k + 1] = step[k + 1][h[k]]
      <4>1. h[k + 1] = step[k + 1][g[k]] /\ h[k] = g[k]
        OBVIOUS
      <4> QED BY <4>1
    <3>4. k + 1 - 1 = k /\ \A i \in 1..(k + 1) : i \in 1..k \/ i = k + 1
      OBVIOUS
    <3> HIDE DEF h
    <3> QED BY <3>1, <3>2, <3>3, <3>4
  <2>4. k + 1 \in 0..n
    OBVIOUS
  <2> HIDE DEF h
  <2> QED BY <2>2, <2>3, <2>4
<1>3. \A k \in 0..n : k \in S
  <2> HIDE DEF S
  <2> QED BY <1>1, <1>2, UpTo
<1>4. n \in S
  <2> HIDE DEF S
  <2> QED BY <1>3
<1> QED BY <1>4 DEF Solutions

-----------------------------------------------------------------------------
WordSet == 0..(Word - 1)

(* A difference modulo a word, added back modulo a word. *)
LEMMA AddBack ==
    ASSUME NEW a \in WordSet, NEW b \in WordSet
    PROVE  (((a - b) % Word) + b) % Word = a /\ (a - b) % Word \in WordSet
<1>1. CASE a >= b
  <2>1. (a - b) % Word = a - b
    BY <1>1, SegmentsAssumption DEF WordSet
  <2> QED BY <1>1, <2>1, SegmentsAssumption DEF WordSet
<1>2. CASE a < b
  <2>1. (a - b) % Word = a - b + Word
    BY <1>2, SegmentsAssumption DEF WordSet
  <2>2. (a + Word) % Word = a
    BY SegmentsAssumption DEF WordSet
  <2> QED BY <1>2, <2>1, <2>2, SegmentsAssumption DEF WordSet
<1> QED BY <1>1, <1>2 DEF WordSet

(* No column is damaged by its encoding. *)
LEMMA UndeltaDelta ==
    ASSUME NEW col \in Seq(WordSet)
    PROVE  Undelta(Delta(col)) = col
<1> DEFINE coded == Delta(col)
           sum[i \in DOMAIN coded] == (coded[i] + (IF i = 1 THEN 0 ELSE sum[i - 1])) % Word
<1>1. DOMAIN coded = 1..Len(col) /\ DOMAIN col = 1..Len(col) /\ Len(col) \in Nat
  BY DEF Delta
<1>2. \A i \in 1..Len(col) : coded[i] = (col[i] - (IF i = 1 THEN 0 ELSE col[i - 1])) % Word
  BY DEF Delta
<1>3. \A i \in 1..Len(col) : (coded[i] + (IF i = 1 THEN 0 ELSE col[i - 1])) % Word = col[i]
  <2> SUFFICES ASSUME NEW i \in 1..Len(col)
               PROVE  (coded[i] + (IF i = 1 THEN 0 ELSE col[i - 1])) % Word = col[i]
    OBVIOUS
  <2> DEFINE b == IF i = 1 THEN 0 ELSE col[i - 1]
  <2>1. b \in WordSet /\ col[i] \in WordSet
    BY SegmentsAssumption DEF WordSet
  <2> QED BY <1>2, <2>1, AddBack
<1>4. col = [i \in DOMAIN coded |-> (coded[i] + (IF i = 1 THEN 0 ELSE col[i - 1])) % Word]
  BY <1>1, <1>3
<1>5. sum = [i \in DOMAIN coded |-> (coded[i] + (IF i = 1 THEN 0 ELSE sum[i - 1])) % Word]
  <2> HIDE DEF coded
  <2> QED BY <1>4 DEF sum
<1> HIDE DEF sum
<1> DEFINE S == {k \in 0..Len(col) : \A i \in 1..k : sum[i] = col[i]}
<1>6. ASSUME NEW k \in 0..(Len(col) - 1), k \in S PROVE k + 1 \in S
  <2>1. sum[k + 1] = (coded[k + 1] + (IF k + 1 = 1 THEN 0 ELSE sum[k])) % Word
    BY <1>5, <1>1
  <2>2. k # 0 => sum[k] = col[k]
    BY <1>6
  <2>3. sum[k + 1] = col[k + 1]
    BY <2>1, <2>2, <1>3
  <2> QED BY <2>3, <1>6
<1>7. Len(col) \in S
  <2>1. 0 \in S
    BY <1>1
  <2> HIDE DEF S
  <2> QED BY <2>1, <1>1, <1>6, UpTo
<1>8. Undelta(coded) = [i \in DOMAIN coded |-> sum[i]]
  BY DEF Undelta, sum
<1> QED BY <1>7, <1>8, <1>1

(* Raw points survive their encoding. *)
LEMMA RawRoundTrip ==
    ASSUME NEW ops \in Seq(Op)
    PROVE  DecodeRaw(EncodeRaw(ops)) = ops
<1> DEFINE at == Times(ops)
           clocks == [i \in DOMAIN ops |-> ops[i].clock]
           replicas == [i \in DOMAIN ops |-> ops[i].replica]
<1>1. DOMAIN ops = 1..Len(ops) /\ Len(ops) \in Nat /\ \A i \in 1..Len(ops) : ops[i] \in Op
  OBVIOUS
<1>2. \A o \in Op : o.at \in WordSet /\ o.clock \in WordSet /\ o.replica \in WordSet
  <2> SUFFICES ASSUME NEW o \in Op
               PROVE  o.at \in WordSet /\ o.clock \in WordSet /\ o.replica \in WordSet
    OBVIOUS
  <2>1. o.at \in Time /\ o.clock \in 1..MaxClock /\ o.replica \in Replica
    BY DEF Op
  <2>2. o.clock \in 0..(Word - 1)
    BY <2>1, MaxClockAssumption, WordAssumption, SegmentsAssumption
  <2> QED BY <2>1, <2>2, WordAssumption DEF WordSet
<1>3. at \in Seq(WordSet) /\ clocks \in Seq(WordSet) /\ replicas \in Seq(WordSet)
  BY <1>1, <1>2 DEF Times
<1>4. Undelta(Delta(at)) = at /\ Undelta(Delta(clocks)) = clocks /\ Undelta(Delta(replicas)) = replicas
  <2> HIDE DEF at, clocks, replicas
  <2> QED BY <1>3, UndeltaDelta
<1>5. DecodeRaw(EncodeRaw(ops)) =
        [i \in DOMAIN ops |-> [at |-> ops[i].at, clock |-> ops[i].clock,
                               replica |-> ops[i].replica, value |-> ops[i].value]]
  BY <1>4 DEF DecodeRaw, EncodeRaw, Times
<1>6. \A o \in Op : o = [at |-> o.at, clock |-> o.clock, replica |-> o.replica, value |-> o.value]
  BY DEF Op
<1> QED BY <1>1, <1>5, <1>6

BucketItem == [at : WordSet, parts : Seq(SUBSET Op)]

(* Buckets survive their encoding. *)
LEMMA BucketRoundTrip ==
    ASSUME NEW buckets \in Seq(BucketItem)
    PROVE  DecodeBuckets(EncodeBuckets(buckets)) = buckets
<1> DEFINE at == Times(buckets)
<1>1. /\ DOMAIN buckets = 1..Len(buckets) /\ Len(buckets) \in Nat
      /\ \A i \in 1..Len(buckets) : buckets[i] \in BucketItem
  OBVIOUS
<1>2. at \in Seq(WordSet)
  BY <1>1 DEF Times, BucketItem
<1>3. Undelta(Delta(at)) = at
  <2> HIDE DEF at
  <2> QED BY <1>2, UndeltaDelta
<1>4. DecodeBuckets(EncodeBuckets(buckets)) =
        [i \in DOMAIN buckets |-> [at |-> buckets[i].at, parts |-> buckets[i].parts]]
  BY <1>3 DEF DecodeBuckets, EncodeBuckets, Times
<1>5. \A b \in BucketItem : b = [at |-> b.at, parts |-> b.parts]
  BY DEF BucketItem
<1> QED BY <1>1, <1>4, <1>5

-----------------------------------------------------------------------------
(* FlattenSeq is what concatenating one by one builds. *)
LEMMA FlattenUnique ==
    ASSUME NEW A, NEW seqs \in Seq(Seq(A)), NEW g \in [0..Len(seqs) -> Seq(A)],
           g[0] = <<>>, \A i \in 1..Len(seqs) : g[i] = g[i - 1] \o seqs[i]
    PROVE  FlattenSeq(seqs) = g[Len(seqs)]
<1> DEFINE n == Len(seqs)
           flatten[i \in 1..Len(seqs)] == IF i = 1 THEN seqs[i] ELSE flatten[i - 1] \o seqs[i]
           h == [i \in 1..Len(seqs) |-> g[i]]
<1>1. n \in Nat /\ \A i \in 1..n : seqs[i] \in Seq(A)
  OBVIOUS
<1>2. n = 0 => seqs = <<>>
  BY EmptySeq
<1>3. n > 0 => g[1] = seqs[1]
  <2> SUFFICES ASSUME n > 0 PROVE g[1] = seqs[1]
    OBVIOUS
  <2>1. 1 \in 1..Len(seqs) /\ 1 - 1 = 0
    BY <1>1
  <2>3. g[1] = <<>> \o seqs[1]
    BY <2>1
  <2>2. seqs[1] \in Seq(A)
    BY <1>1
  <2> QED BY <2>3, <2>2, ConcatEmptySeq
<1>4. h = [i \in 1..Len(seqs) |-> IF i = 1 THEN seqs[i] ELSE h[i - 1] \o seqs[i]]
  <2> SUFFICES ASSUME NEW i \in 1..Len(seqs)
               PROVE  g[i] = IF i = 1 THEN seqs[i] ELSE h[i - 1] \o seqs[i]
    BY Zenon
  <2>1. i # 1 => h[i - 1] = g[i - 1]
    BY <1>1
  <2>2. g[i] = g[i - 1] \o seqs[i]
    OBVIOUS
  <2>3. i = 1 => n > 0
    BY <1>1
  <2> HIDE DEF h, n
  <2> QED BY <2>1, <2>2, <2>3, <1>3
<1>5. flatten = [i \in 1..Len(seqs) |-> IF i = 1 THEN seqs[i] ELSE flatten[i - 1] \o seqs[i]]
  <2> HIDE DEF h
  <2> QED BY <1>4 DEF flatten
<1> HIDE DEF flatten
<1> DEFINE S == {k \in 0..n : k # 0 => flatten[k] = g[k]}
<1>6. ASSUME NEW k \in 0..(n - 1), k \in S PROVE k + 1 \in S
  <2> DEFINE j == k + 1
  <2>0. j \in 1..Len(seqs) /\ j - 1 = k /\ (j = 1 <=> k = 0)
    BY <1>1
  <2>1. flatten[j] = IF j = 1 THEN seqs[j] ELSE flatten[k] \o seqs[j]
    <3> HIDE DEF j
    <3> QED BY <1>5, <2>0
  <2>2. g[j] = g[k] \o seqs[j]
    <3> HIDE DEF j
    <3> QED BY <2>0
  <2>3. flatten[j] = g[j]
    <3>1. k # 0 => flatten[k] = g[k]
      BY <1>6
    <3>2. k = 0 => flatten[j] = seqs[1] /\ j = 1 /\ g[1] = seqs[1]
      BY <2>0, <2>1, <1>3
    <3> HIDE DEF j
    <3> QED BY <2>0, <2>1, <2>2, <3>1, <3>2
  <2> QED BY <2>3, <1>1
<1>7. n \in S
  <2>1. 0 \in S /\ n \in Nat /\ n \in 0..n
    BY <1>1
  <2>2. \A k \in 0..(n - 1) : k \in S => k + 1 \in S
    BY <1>6
  <2> HIDE DEF S, n
  <2> QED BY <2>1, <2>2, UpTo
<1>8. n # 0 => FlattenSeq(seqs) = flatten[n]
  BY DEF FlattenSeq, flatten
<1>9. n = 0 => FlattenSeq(seqs) = seqs
  BY DEF FlattenSeq
<1> QED BY <1>2, <1>7, <1>8, <1>9

(* ... and such a list of prefixes exists. *)
LEMMA FlattenPrefixes ==
    ASSUME NEW A, NEW seqs \in Seq(Seq(A))
    PROVE  \E g \in [0..Len(seqs) -> Seq(A)] :
              /\ g[0] = <<>>
              /\ \A i \in 1..Len(seqs) : g[i] = g[i - 1] \o seqs[i]
              /\ FlattenSeq(seqs) = g[Len(seqs)]
<1> DEFINE n == Len(seqs)
           step == [i \in 1..n |-> [x \in Seq(A) |-> x \o seqs[i]]]
<1>1. n \in Nat /\ <<>> \in Seq(A) /\ \A i \in 1..n : seqs[i] \in Seq(A)
  OBVIOUS
<1>2. step \in [1..n -> [Seq(A) -> Seq(A)]]
  <2> SUFFICES ASSUME NEW i \in 1..n, NEW x \in Seq(A) PROVE x \o seqs[i] \in Seq(A)
    OBVIOUS
  <2>1. x \in Seq(A) /\ seqs[i] \in Seq(A)
    BY <1>1
  <2> QED BY <2>1, ConcatProperties
<1>3. PICK g \in [0..n -> Seq(A)] : g[0] = <<>> /\ \A i \in 1..n : g[i] = step[i][g[i - 1]]
  <2>1. step \in Steps(Seq(A), n)
    BY <1>2 DEF Steps
  <2>2. Solutions(Seq(A), n, <<>>, step) # {}
    <3> HIDE DEF step, n
    <3> QED BY <1>1, <2>1, Recursion
  <2> HIDE DEF step, n
  <2> QED BY <2>2 DEF Solutions
<1>4. \A i \in 1..n : g[i] = g[i - 1] \o seqs[i]
  <2> SUFFICES ASSUME NEW i \in 1..n PROVE g[i] = g[i - 1] \o seqs[i]
    OBVIOUS
  <2>1. g[i - 1] \in Seq(A)
    <3>1. i - 1 \in 0..n
      BY <1>1
    <3> QED BY <3>1, <1>3
  <2>2. step[i][g[i - 1]] = g[i - 1] \o seqs[i]
    BY <2>1
  <2> QED BY <2>2, <1>3
<1>5. FlattenSeq(seqs) = g[Len(seqs)]
  BY <1>3, <1>4, FlattenUnique
<1> QED BY <1>3, <1>4, <1>5

(* It does not matter which lists are put together first. *)
LEMMA Associative ==
    ASSUME NEW A
    PROVE  \A a, b, c \in Seq(A) : (a \o b) \o c = a \o (b \o c)
<1> TAKE a, b, c \in Seq(A)
<1> DEFINE ab == a \o b
           bc == b \o c
           x == ab \o c
           y == a \o bc
<1>1. /\ Len(a) \in Nat /\ Len(b) \in Nat /\ Len(c) \in Nat
      /\ ab \in Seq(A) /\ Len(ab) = Len(a) + Len(b)
      /\ \A i \in 1..(Len(a) + Len(b)) : ab[i] = IF i <= Len(a) THEN a[i] ELSE b[i - Len(a)]
  BY ConcatProperties
<1>2. /\ bc \in Seq(A) /\ Len(bc) = Len(b) + Len(c)
      /\ \A i \in 1..(Len(b) + Len(c)) : bc[i] = IF i <= Len(b) THEN b[i] ELSE c[i - Len(b)]
  BY ConcatProperties
<1> HIDE DEF ab, bc
<1>3. /\ x \in Seq(A) /\ Len(x) = Len(ab) + Len(c)
      /\ \A i \in 1..(Len(ab) + Len(c)) : x[i] = IF i <= Len(ab) THEN ab[i] ELSE c[i - Len(ab)]
  <2>1. ab \in Seq(A) /\ c \in Seq(A)
    BY <1>1
  <2> QED BY <2>1, ConcatProperties
<1>4. /\ y \in Seq(A) /\ Len(y) = Len(a) + Len(bc)
      /\ \A i \in 1..(Len(a) + Len(bc)) : y[i] = IF i <= Len(a) THEN a[i] ELSE bc[i - Len(a)]
  <2>1. a \in Seq(A) /\ bc \in Seq(A)
    BY <1>2
  <2> QED BY <2>1, ConcatProperties
<1> HIDE DEF x, y
<1>5. Len(x) = Len(y)
  BY <1>1, <1>2, <1>3, <1>4
<1>6. ASSUME NEW i \in 1..Len(x) PROVE x[i] = y[i]
  <2> DEFINE j == i - Len(a)
             k == i - Len(ab)
  <2>1. CASE i <= Len(a)
    <3>1. x[i] = ab[i] /\ ab[i] = a[i]
      BY <1>1, <1>3, <2>1
    <3>2. y[i] = a[i]
      BY <1>1, <1>2, <1>3, <1>4, <2>1
    <3> QED BY <3>1, <3>2
  <2>2. CASE i > Len(a) /\ i <= Len(ab)
    <3>1. x[i] = ab[i] /\ ab[i] = b[j]
      BY <1>1, <1>3, <2>2
    <3>2. j \in 1..(Len(b) + Len(c)) /\ j <= Len(b)
      BY <1>1, <2>2
    <3>3. y[i] = bc[j]
      <4>1. i \in 1..(Len(a) + Len(bc)) /\ ~(i <= Len(a))
        BY <1>1, <1>2, <1>3, <2>2
      <4> QED BY <4>1, <1>4
    <3>4. bc[j] = b[j]
      <4> HIDE DEF j
      <4> QED BY <1>2, <3>2
    <3> QED BY <3>1, <3>3, <3>4
  <2>3. CASE i > Len(ab)
    <3>1. x[i] = c[k]
      BY <1>1, <1>3, <2>3
    <3>2. j \in 1..(Len(b) + Len(c)) /\ ~(j <= Len(b)) /\ j - Len(b) = k
      BY <1>1, <1>3, <2>3
    <3>3. y[i] = bc[j]
      <4>1. i \in 1..(Len(a) + Len(bc)) /\ ~(i <= Len(a))
        BY <1>1, <1>2, <1>3, <2>3
      <4> QED BY <4>1, <1>4
    <3>4. bc[j] = c[j - Len(b)]
      <4> HIDE DEF j
      <4> QED BY <1>2, <3>2
    <3> HIDE DEF j, k
    <3> QED BY <3>1, <3>2, <3>3, <3>4
  <2> QED BY <1>1, <2>1, <2>2, <2>3
<1>7. x = y
  BY <1>3, <1>4, <1>5, <1>6, SeqEqual
<1> QED BY <1>7 DEF x, y, ab, bc

(* The segments behind one another decode to one after the other. *)
LEMMA FlattenConcat ==
    ASSUME NEW A, NEW x \in Seq(Seq(A)), NEW y \in Seq(Seq(A))
    PROVE  /\ FlattenSeq(x) \in Seq(A)
           /\ FlattenSeq(x \o y) = FlattenSeq(x) \o FlattenSeq(y)
<1>1. PICK g \in [0..Len(x) -> Seq(A)] :
              /\ g[0] = <<>>
              /\ \A i \in 1..Len(x) : g[i] = g[i - 1] \o x[i]
              /\ FlattenSeq(x) = g[Len(x)]
  BY FlattenPrefixes
<1>2. PICK h \in [0..Len(y) -> Seq(A)] :
              /\ h[0] = <<>>
              /\ \A i \in 1..Len(y) : h[i] = h[i - 1] \o y[i]
              /\ FlattenSeq(y) = h[Len(y)]
  BY FlattenPrefixes
<1> DEFINE m == Len(x)
           n == Len(y)
           f == [i \in 0..(m + n) |-> IF i <= m THEN g[i] ELSE g[m] \o h[i - m]]
<1>3. m \in Nat /\ n \in Nat /\ g[m] \in Seq(A)
  <2>1. m \in Nat /\ n \in Nat /\ m \in 0..m
    OBVIOUS
  <2> QED BY <2>1
<1>4. /\ x \o y \in Seq(Seq(A)) /\ Len(x \o y) = m + n
      /\ \A i \in 1..m : (x \o y)[i] = x[i]
      /\ \A i \in (m + 1)..(m + n) : (x \o y)[i] = y[i - m]
  BY ConcatProperties
<1>5. f \in [0..(m + n) -> Seq(A)]
  <2> SUFFICES ASSUME NEW i \in 0..(m + n) PROVE f[i] \in Seq(A)
    BY Zenon
  <2>1. CASE i <= m
    <3>1. i \in 0..m /\ f[i] = g[i]
      BY <2>1, <1>3
    <3>2. g[i] \in Seq(A)
      BY <3>1
    <3> HIDE DEF f
    <3> QED BY <3>1, <3>2, Zenon
  <2>2. CASE ~(i <= m)
    <3> DEFINE k == i - m
    <3>1. k \in 0..n
      BY <2>2, <1>3
    <3>2. h[k] \in Seq(A)
      <4> HIDE DEF k
      <4> QED BY <3>1
    <3>3. g[m] \o h[k] \in Seq(A)
      BY <3>2, <1>3, ConcatProperties
    <3> QED BY <3>3, <2>2
  <2> QED BY <2>1, <2>2
<1>6. \A i \in 1..(m + n) : f[i] = f[i - 1] \o (x \o y)[i]
  <2> SUFFICES ASSUME NEW i \in 1..(m + n) PROVE f[i] = f[i - 1] \o (x \o y)[i]
    OBVIOUS
  <2>1. CASE i <= m
    <3>1. i \in 1..m /\ i - 1 \in 0..m
      BY <2>1, <1>3
    <3>2. f[i] = g[i] /\ f[i - 1] = g[i - 1]
      BY <3>1, <1>3
    <3> HIDE DEF f
    <3> QED BY <3>1, <3>2, <1>1, <1>4
  <2>2. CASE i > m
    <3> DEFINE k == i - m
    <3>1. k \in 1..n /\ k - 1 \in 0..n /\ i - 1 \in 0..(m + n) /\ (i - 1) - m = k - 1
      BY <2>2, <1>3
    <3>2. h[k] = h[k - 1] \o y[k] /\ h[k - 1] \in Seq(A) /\ y[k] \in Seq(A)
      <4>1. k \in 1..Len(y) /\ k \in 0..Len(y) /\ k - 1 \in 0..Len(y)
        BY <3>1
      <4>2. y[k] \in Seq(A)
        BY <4>1
      <4> HIDE DEF k
      <4>3. h[k - 1] \in Seq(A)
        BY <4>1
      <4> QED BY <4>1, <4>2, <4>3, <1>2
    <3>3. g[m] \o h[k] = (g[m] \o h[k - 1]) \o y[k]
      <4> DEFINE a == g[m]
                 b == h[k - 1]
                 c == y[k]
      <4>1. a \in Seq(A) /\ b \in Seq(A) /\ c \in Seq(A)
        BY <3>2, <1>3
      <4>2. h[k] = b \o c
        BY <3>2
      <4>3. (a \o b) \o c = a \o (b \o c)
        <5> HIDE DEF a, b, c
        <5> QED BY <4>1, Associative, SMTT(30)
      <4> QED BY <4>2, <4>3, Zenon
    <3>4. f[i] = g[m] \o h[k]
      BY <2>2, <1>3
    <3>5. f[i - 1] = g[m] \o h[k - 1]
      <4>1. CASE i - 1 > m
        <5>1. f[i - 1] = g[m] \o h[(i - 1) - m]
          <6> DEFINE j == i - 1
          <6>1. j \in 0..(m + n) /\ ~(j <= m)
            BY <4>1, <1>3
          <6>2. f[j] = g[m] \o h[j - m]
            <7> HIDE DEF j
            <7> QED BY <6>1
          <6> QED BY <6>2
        <5>2. h[(i - 1) - m] = h[k - 1]
          BY <3>1
        <5> QED BY <5>1, <5>2, Zenon
      <4>2. CASE i - 1 = m
        <5>1. f[i - 1] = g[m] /\ k - 1 = 0
          BY <4>2, <1>3
        <5>2. g[m] \o <<>> = g[m]
          BY <1>3, ConcatEmptySeq
        <5>3. h[k - 1] = <<>>
          BY <5>1, <1>2
        <5> HIDE DEF f
        <5> QED BY <5>1, <5>2, <5>3
      <4>3. i - 1 > m \/ i - 1 = m
        BY <2>2, <1>3
      <4> QED BY <4>1, <4>2, <4>3, Zenon
    <3>6. (x \o y)[i] = y[k]
      BY <1>4, <2>2, <1>3
    <3>7. f[i] = f[i - 1] \o y[k]
      BY <3>3, <3>4, <3>5, Zenon
    <3>8. f[i - 1] \o (x \o y)[i] = f[i - 1] \o y[k]
      BY <3>6, Zenon
    <3> QED BY <3>7, <3>8, Zenon
  <2>3. i <= m \/ i > m
    BY <1>3
  <2> QED BY <2>1, <2>2, <2>3, Zenon
<1>7. f[0] = <<>>
  BY <1>1, <1>3
<1>8. FlattenSeq(x \o y) = f[m + n]
  <2> DEFINE z == x \o y
  <2>1. z \in Seq(Seq(A)) /\ Len(z) = m + n
    BY <1>4
  <2>2. \A i \in 1..(m + n) : f[i] = f[i - 1] \o z[i]
    BY <1>6
  <2> HIDE DEF f, m, n, z
  <2>3. FlattenSeq(z) = f[Len(z)]
    BY <2>1, <2>2, <1>5, <1>7, FlattenUnique
  <2> QED BY <2>1, <2>3 DEF z
<1>9. f[m + n] = g[m] \o h[n]
  <2>1. CASE n = 0
    <3>1. f[m + n] = g[m] /\ h[n] = <<>>
      BY <2>1, <1>2, <1>3
    <3> QED BY <3>1, <1>3, ConcatEmptySeq
  <2>2. CASE n # 0
    BY <2>2, <1>3
  <2> QED BY <2>1, <2>2
<1> QED BY <1>1, <1>2, <1>3, <1>8, <1>9

-----------------------------------------------------------------------------
(* Where SegmentsOf cuts a list. *)
ChunkCount(items) == (Len(items) + SegmentSize - 1) \div SegmentSize
ChunkEnd(items, n) == IF n * SegmentSize < Len(items) THEN n * SegmentSize ELSE Len(items)
Chunks(items) ==
    [n \in 1..ChunkCount(items) |->
        SubSeq(items, (n - 1) * SegmentSize + 1, ChunkEnd(items, n))]

(* A quotient is the number of whole parts. *)
LEMMA Division ==
    ASSUME NEW x \in Nat, NEW s \in Nat \ {0}
    PROVE  x \div s \in Nat /\ (x \div s) * s <= x /\ x < (x \div s) * s + s
OBVIOUS

(* Multiples come in order. *)
LEMMA TimesMonotone ==
    ASSUME NEW a \in Int, NEW b \in Int, NEW s \in Nat, a <= b
    PROVE  a * s <= b * s
OBVIOUS

(* Each cut lies a segment behind the one before, the last at the end. *)
LEMMA Cuts ==
    ASSUME NEW A, NEW items \in Seq(A)
    PROVE  /\ ChunkCount(items) \in Nat
           /\ ChunkCount(items) = 0 <=> items = <<>>
           /\ ChunkEnd(items, 0) = 0
           /\ ChunkEnd(items, ChunkCount(items)) = Len(items)
           /\ \A n \in 1..ChunkCount(items) :
                 /\ ChunkEnd(items, n) \in 1..Len(items)
                 /\ ChunkEnd(items, n - 1) = (n - 1) * SegmentSize
                 /\ (n - 1) * SegmentSize \in 0..(ChunkEnd(items, n) - 1)
                 /\ ChunkEnd(items, n) - (n - 1) * SegmentSize <= SegmentSize
<1> DEFINE N == ChunkCount(items)
           L == Len(items)
           S == SegmentSize
<1>1. L \in Nat /\ S \in Nat \ {0} /\ L + S - 1 \in Nat /\ (L = 0 <=> items = <<>>)
  BY SegmentsAssumption, EmptySeq
<1>2. N \in Nat /\ N * S <= L + S - 1 /\ L + S - 1 < N * S + S
  <2>1. N = (L + S - 1) \div S
    BY DEF ChunkCount
  <2> HIDE DEF N, L, S
  <2> QED BY <1>1, <2>1, Division
<1>3. N * S >= L
  BY <1>1, <1>2
<1>4. N = 0 <=> L = 0
  <2>1. N = 0 => L = 0
    BY <1>1, <1>2
  <2>2. N >= 1 => N * S >= S
    <3>1. N >= 1 => N * S >= 1 * S
      <4> HIDE DEF N, S
      <4> QED BY <1>1, <1>2, TimesMonotone
    <3> QED BY <3>1, <1>1
  <2> HIDE DEF N, L, S
  <2> QED BY <2>1, <2>2, <1>1, <1>2
<1>5. ASSUME NEW n \in 1..N
      PROVE  /\ ChunkEnd(items, n) \in 1..L
             /\ ChunkEnd(items, n - 1) = (n - 1) * S
             /\ (n - 1) * S \in 0..(ChunkEnd(items, n) - 1)
             /\ ChunkEnd(items, n) - (n - 1) * S <= S
  <2> DEFINE a == (n - 1) * S
             b == n * S
  <2>1. a \in Nat /\ b = a + S /\ b <= N * S
    <3>1. n \in Int /\ N \in Int /\ S \in Nat /\ n <= N /\ 0 <= n - 1
      BY <1>1, <1>2
    <3>2. b <= N * S
      <4> HIDE DEF N, S
      <4> QED BY <3>1, TimesMonotone
    <3>3. 0 * S <= a /\ a \in Int
      <4> HIDE DEF N, S
      <4> QED BY <3>1, TimesMonotone
    <3>4. b = a + S
      <4> HIDE DEF N, S
      <4> QED BY <3>1
    <3> HIDE DEF N, a, b, S
    <3> QED BY <3>1, <3>2, <3>3, <3>4
  <2>2. a < L
    <3> HIDE DEF N, a, b, L, S
    <3> QED BY <2>1, <1>1, <1>2
  <2>3. ChunkEnd(items, n) = (IF b < L THEN b ELSE L) /\ ChunkEnd(items, n - 1) = (IF a < L THEN a ELSE L)
    BY DEF ChunkEnd
  <2> HIDE DEF N, L, a, b, S
  <2>4. /\ ChunkEnd(items, n) \in 1..L /\ ChunkEnd(items, n - 1) = a
        /\ a \in 0..(ChunkEnd(items, n) - 1) /\ ChunkEnd(items, n) - a <= S
    BY <2>1, <2>2, <2>3, <1>1
  <2> QED BY <2>4 DEF a
<1>6. ChunkEnd(items, 0) = 0
  BY <1>1 DEF ChunkEnd
<1>7. ChunkEnd(items, N) = L
  <2> HIDE DEF N
  <2> QED BY <1>3, <1>1, <1>2 DEF ChunkEnd
<1> QED BY <1>1, <1>2, <1>4, <1>5, <1>6, <1>7

(* The chunks are not empty, no longer than a segment, and concatenate to  *)
(* the list.                                                               *)
LEMMA ChunksOfList ==
    ASSUME NEW A, NEW items \in Seq(A)
    PROVE  /\ Chunks(items) \in Seq(Seq(A))
           /\ \A n \in DOMAIN Chunks(items) : Len(Chunks(items)[n]) \in 1..SegmentSize
           /\ FlattenSeq(Chunks(items)) = items
           /\ items = <<>> <=> Chunks(items) = <<>>
           /\ items # <<>> => Last(Last(Chunks(items))) = Last(items)
<1> DEFINE N == ChunkCount(items)
           L == Len(items)
           c == Chunks(items)
           start(n) == (n - 1) * SegmentSize + 1
<1>1. /\ N \in Nat /\ L \in Nat
      /\ N = 0 <=> items = <<>>
      /\ ChunkEnd(items, 0) = 0 /\ ChunkEnd(items, N) = L
  BY Cuts
<1>2. ASSUME NEW n \in 1..N
      PROVE  /\ ChunkEnd(items, n) \in 1..L
             /\ ChunkEnd(items, n - 1) = (n - 1) * SegmentSize
             /\ (n - 1) * SegmentSize \in 0..(ChunkEnd(items, n) - 1)
             /\ ChunkEnd(items, n) - (n - 1) * SegmentSize <= SegmentSize
  BY Cuts
<1>3. DOMAIN c = 1..N /\ \A n \in 1..N : c[n] = SubSeq(items, start(n), ChunkEnd(items, n))
  BY DEF Chunks
<1>4. ASSUME NEW n \in 1..N
      PROVE  /\ c[n] \in Seq(A)
             /\ Len(c[n]) = ChunkEnd(items, n) - (n - 1) * SegmentSize
             /\ Len(c[n]) \in 1..SegmentSize
             /\ c[n][Len(c[n])] = items[ChunkEnd(items, n)]
  <2> DEFINE a == (n - 1) * SegmentSize
             e == ChunkEnd(items, n)
  <2>1. a \in Nat /\ e \in 1..L /\ a < e /\ e - a <= SegmentSize /\ c[n] = SubSeq(items, a + 1, e)
    BY <1>1, <1>2, <1>3
  <2>2. \A i \in (a + 1)..e : items[i] \in A
    <3> HIDE DEF a, e
    <3> QED BY <2>1
  <2> HIDE DEF a, e
  <2>3. /\ SubSeq(items, a + 1, e) \in Seq(A)
        /\ Len(SubSeq(items, a + 1, e)) = e - a
        /\ SubSeq(items, a + 1, e)[e - a] = items[e]
    <3>1. a + 1 \in Int /\ e \in Int /\ a + 1 <= e /\ e - (a + 1) + 1 = e - a
          /\ e - a \in 1..(e - (a + 1) + 1) /\ (a + 1) + (e - a) - 1 = e
      BY <2>1, <1>1
    <3> QED BY <2>2, <3>1, SubSeqProperties
  <2>4. e - a \in 1..SegmentSize
    BY <2>1, <1>1, SegmentsAssumption
  <2>5. c[n] \in Seq(A) /\ Len(c[n]) = e - a /\ c[n][e - a] = items[e]
    BY <2>1, <2>3
  <2> QED BY <2>4, <2>5 DEF a, e
<1>5. c \in Seq(Seq(A)) /\ Len(c) = N
  <2>1. c = [n \in 1..N |-> c[n]]
    BY DEF Chunks
  <2> HIDE DEF c, N
  <2>2. \A n \in 1..N : c[n] \in Seq(A)
    BY <1>3, <1>4
  <2>3. c \in [1..N -> Seq(A)]
    BY <2>1, <2>2, Zenon
  <2> QED BY <1>1, <2>3
<1> DEFINE g == [k \in 0..N |-> SubSeq(items, 1, ChunkEnd(items, k))]
<1>6. g[0] = <<>>
  BY <1>1, SubSeqEmpty
<1>7. g[N] = items
  BY <1>1, SubSeqFull
<1>8. \A k \in 0..N : ChunkEnd(items, k) \in 0..L
  <2> SUFFICES ASSUME NEW k \in 0..N PROVE ChunkEnd(items, k) \in 0..L
    OBVIOUS
  <2>1. k = 0 \/ k \in 1..N
    BY <1>1
  <2> QED BY <2>1, <1>1, <1>2
<1>9. g \in [0..N -> Seq(A)]
  <2> SUFFICES ASSUME NEW k \in 0..N PROVE SubSeq(items, 1, ChunkEnd(items, k)) \in Seq(A)
    OBVIOUS
  <2> DEFINE e == ChunkEnd(items, k)
  <2>1. e \in 0..L
    BY <1>8
  <2>2. \A i \in 1..e : items[i] \in A
    <3> HIDE DEF e
    <3> QED BY <2>1
  <2>3. e \in Int /\ 1 \in Int
    BY <2>1, <1>1
  <2>4. SubSeq(items, 1, e) \in Seq(A)
    <3> HIDE DEF e
    <3> QED BY <2>2, <2>3, SubSeqProperties
  <2> QED BY <2>4
<1>10. \A k \in 1..N : g[k] = g[k - 1] \o c[k]
  <2> SUFFICES ASSUME NEW k \in 1..N PROVE g[k] = g[k - 1] \o c[k]
    OBVIOUS
  <2> DEFINE a == (k - 1) * SegmentSize
             e == ChunkEnd(items, k)
  <2>1. a \in Nat /\ e \in 1..L /\ a < e /\ c[k] = SubSeq(items, a + 1, e)
    BY <1>1, <1>2, <1>3
  <2>2. g[k] = SubSeq(items, 1, e) /\ g[k - 1] = SubSeq(items, 1, a)
    <3> DEFINE j == k - 1
    <3>1. k \in 0..N /\ j \in 0..N
      BY <1>1
    <3>2. ChunkEnd(items, j) = a
      BY <1>2
    <3> HIDE DEF j, a, N
    <3>3. g[k] = SubSeq(items, 1, e) /\ g[j] = SubSeq(items, 1, ChunkEnd(items, j))
      BY <3>1
    <3> QED BY <3>2, <3>3 DEF j
  <2>3. SubSeq(items, 1, a) \o SubSeq(items, a + 1, e) = SubSeq(items, 1, e)
    <3> HIDE DEF a, e
    <3>1. 1 \in 1..(Len(items) + 1) /\ a \in (1 - 1)..Len(items) /\ e \in a..Len(items)
      BY <2>1, <1>1
    <3> QED BY <3>1, ConcatAdjacentSubSeq
  <2> HIDE DEF g, a, e, c
  <2> QED BY <2>1, <2>2, <2>3
<1>11. FlattenSeq(c) = items
  <2> HIDE DEF c, g, N
  <2> QED BY <1>5, <1>6, <1>7, <1>9, <1>10, FlattenUnique
<1>12. items = <<>> <=> c = <<>>
  <2> HIDE DEF c, N
  <2> QED BY <1>1, <1>5, EmptySeq
<1>13. items # <<>> => Last(Last(c)) = Last(items)
  <2> HIDE DEF c, N
  <2> QED BY <1>1, <1>4, <1>5 DEF Last
<1>14. \A n \in DOMAIN c : Len(c[n]) \in 1..SegmentSize
  BY <1>3, <1>4
<1> HIDE DEF c
<1> QED BY <1>5, <1>11, <1>12, <1>13, <1>14 DEF c

-----------------------------------------------------------------------------
(* The segments the code writes: encodings of chunks.                      *)
ChunksOver(A) == {c \in Seq(A) : Len(c) \in 1..SegmentSize}
Encoded ==
    {Segment(c, FALSE) : c \in ChunksOver(Op)} \cup {Segment(c, TRUE) : c \in ChunksOver(BucketItem)}

RawIn(seg) == IF seg.bucket THEN <<>> ELSE DecodeRaw(seg.data)
BucketsIn(seg) == IF seg.bucket THEN DecodeBuckets(seg.data) ELSE <<>>

(* A segment decodes to the chunk it encodes. *)
LEMMA SegmentDecodes ==
    /\ \A c \in ChunksOver(Op) :
          /\ Segment(c, FALSE).bucket = FALSE
          /\ Segment(c, FALSE).from = c[1].at /\ Segment(c, FALSE).to = c[Len(c)].at
          /\ RawIn(Segment(c, FALSE)) = c /\ BucketsIn(Segment(c, FALSE)) = <<>>
    /\ \A c \in ChunksOver(BucketItem) :
          /\ Segment(c, TRUE).bucket = TRUE
          /\ Segment(c, TRUE).from = c[1].at /\ Segment(c, TRUE).to = c[Len(c)].at
          /\ RawIn(Segment(c, TRUE)) = <<>> /\ BucketsIn(Segment(c, TRUE)) = c
<1>1. ASSUME NEW A, NEW c \in ChunksOver(A)
      PROVE  c \in Seq(A) /\ Head(c) = c[1]
  BY DEF ChunksOver
<1>2. ASSUME NEW c \in ChunksOver(Op)
      PROVE  /\ Segment(c, FALSE).bucket = FALSE
             /\ Segment(c, FALSE).from = c[1].at /\ Segment(c, FALSE).to = c[Len(c)].at
             /\ RawIn(Segment(c, FALSE)) = c /\ BucketsIn(Segment(c, FALSE)) = <<>>
  <2>1. c \in Seq(Op) /\ Head(c) = c[1]
    BY <1>1
  <2>2. DecodeRaw(EncodeRaw(c)) = c
    BY <2>1, RawRoundTrip
  <2> QED BY <2>1, <2>2 DEF Segment, Last, RawIn, BucketsIn
<1>3. ASSUME NEW c \in ChunksOver(BucketItem)
      PROVE  /\ Segment(c, TRUE).bucket = TRUE
             /\ Segment(c, TRUE).from = c[1].at /\ Segment(c, TRUE).to = c[Len(c)].at
             /\ RawIn(Segment(c, TRUE)) = <<>> /\ BucketsIn(Segment(c, TRUE)) = c
  <2>1. c \in Seq(BucketItem) /\ Head(c) = c[1]
    BY <1>1
  <2>2. DecodeBuckets(EncodeBuckets(c)) = c
    BY <2>1, BucketRoundTrip
  <2> QED BY <2>1, <2>2 DEF Segment, Last, RawIn, BucketsIn
<1> QED BY <1>2, <1>3

(* What a segment decodes to has the types of what was encoded. *)
LEMMA EncodedContent ==
    ASSUME NEW seg \in Encoded
    PROVE  RawIn(seg) \in Seq(Op) /\ BucketsIn(seg) \in Seq(BucketItem)
<1>1. \A c \in ChunksOver(Op) : c \in Seq(Op)
  BY DEF ChunksOver
<1>2. \A c \in ChunksOver(BucketItem) : c \in Seq(BucketItem)
  BY DEF ChunksOver
<1>3. <<>> \in Seq(Op) /\ <<>> \in Seq(BucketItem)
  OBVIOUS
<1>4. CASE \E c \in ChunksOver(Op) : seg = Segment(c, FALSE)
  BY <1>1, <1>3, <1>4, SegmentDecodes
<1>5. CASE \E c \in ChunksOver(BucketItem) : seg = Segment(c, TRUE)
  BY <1>2, <1>3, <1>5, SegmentDecodes
<1> QED BY <1>4, <1>5 DEF Encoded

RawLists(s) == [i \in 1..Len(s) |-> RawIn(s[i])]
BucketLists(s) == [i \in 1..Len(s) |-> BucketsIn(s[i])]

(* series.pending, with the lists of the segments named. *)
LEMMA DecodedAs ==
    ASSUME NEW s
    PROVE  Decoded(s) = [raw |-> FlattenSeq(RawLists(s)), buckets |-> FlattenSeq(BucketLists(s))]
BY DEF Decoded, RawLists, BucketLists, RawIn, BucketsIn

(* Every segment gives a list of operations and a list of buckets. *)
LEMMA ListsOfSegments ==
    ASSUME NEW s \in Seq(Encoded)
    PROVE  RawLists(s) \in Seq(Seq(Op)) /\ BucketLists(s) \in Seq(Seq(BucketItem))
<1>1. Len(s) \in Nat /\ \A i \in 1..Len(s) : s[i] \in Encoded
  OBVIOUS
<1>2. \A i \in 1..Len(s) : RawIn(s[i]) \in Seq(Op) /\ BucketsIn(s[i]) \in Seq(BucketItem)
  BY <1>1, EncodedContent
<1> QED BY <1>1, <1>2 DEF RawLists, BucketLists

(* What is appended is decoded behind what was there. *)
LEMMA DecodedConcat ==
    ASSUME NEW x \in Seq(Encoded), NEW y \in Seq(Encoded)
    PROVE  /\ x \o y \in Seq(Encoded)
           /\ Decoded(x).raw \in Seq(Op) /\ Decoded(x).buckets \in Seq(BucketItem)
           /\ Decoded(x \o y) = [raw     |-> Decoded(x).raw \o Decoded(y).raw,
                                 buckets |-> Decoded(x).buckets \o Decoded(y).buckets]
<1>1. /\ x \o y \in Seq(Encoded) /\ Len(x \o y) = Len(x) + Len(y)
      /\ Len(x) \in Nat /\ Len(y) \in Nat
      /\ \A i \in 1..(Len(x) + Len(y)) :
            (x \o y)[i] = IF i <= Len(x) THEN x[i] ELSE y[i - Len(x)]
  BY ConcatProperties
<1>2. RawLists(x \o y) = RawLists(x) \o RawLists(y)
  <2> DEFINE z == x \o y
  <2>1. /\ RawLists(x) \in Seq(Seq(Op)) /\ RawLists(y) \in Seq(Seq(Op))
        /\ Len(RawLists(x)) = Len(x) /\ Len(RawLists(y)) = Len(y)
        /\ RawLists(z) \in Seq(Seq(Op)) /\ Len(RawLists(z)) = Len(x) + Len(y)
    BY <1>1, ListsOfSegments DEF RawLists
  <2>2. /\ RawLists(x) \o RawLists(y) \in Seq(Seq(Op))
        /\ Len(RawLists(x) \o RawLists(y)) = Len(x) + Len(y)
        /\ \A i \in 1..(Len(x) + Len(y)) : (RawLists(x) \o RawLists(y))[i] =
              IF i <= Len(x) THEN RawLists(x)[i] ELSE RawLists(y)[i - Len(x)]
    <3> DEFINE a == RawLists(x)
               b == RawLists(y)
               S == Seq(Op)
    <3>1. a \in Seq(S) /\ b \in Seq(S) /\ Len(a) = Len(x) /\ Len(b) = Len(y)
      BY <2>1
    <3> HIDE DEF a, b, S
    <3>2. /\ a \o b \in Seq(S)
          /\ Len(a \o b) = Len(a) + Len(b)
          /\ \A i \in 1..(Len(a) + Len(b)) : (a \o b)[i] = IF i <= Len(a) THEN a[i] ELSE b[i - Len(a)]
      BY <3>1, ConcatProperties
    <3>3. /\ a \o b \in Seq(S)
          /\ Len(a \o b) = Len(x) + Len(y)
          /\ \A i \in 1..(Len(x) + Len(y)) : (a \o b)[i] = IF i <= Len(x) THEN a[i] ELSE b[i - Len(x)]
      BY <3>1, <3>2
    <3> QED BY <3>3 DEF a, b, S
  <2>3. ASSUME NEW i \in 1..(Len(x) + Len(y))
        PROVE  RawLists(z)[i] = IF i <= Len(x) THEN RawLists(x)[i] ELSE RawLists(y)[i - Len(x)]
    BY <1>1 DEF RawLists
  <2>4. \A i \in 1..(Len(x) + Len(y)) : RawLists(z)[i] = (RawLists(x) \o RawLists(y))[i]
    BY <2>2, <2>3
  <2> HIDE DEF z
  <2> DEFINE u == RawLists(x) \o RawLists(y)
             v == RawLists(z)
  <2>5. u \in Seq(Seq(Op)) /\ v \in Seq(Seq(Op)) /\ Len(v) = Len(u) /\ \A i \in 1..Len(v) : v[i] = u[i]
    BY <2>1, <2>2, <2>4
  <2>6. v = u
    <3> HIDE DEF u, v
    <3> QED BY <2>5, SeqEqual
  <2> QED BY <2>6 DEF z
<1>3. BucketLists(x \o y) = BucketLists(x) \o BucketLists(y)
  <2> DEFINE z == x \o y
  <2>1. /\ BucketLists(x) \in Seq(Seq(BucketItem)) /\ BucketLists(y) \in Seq(Seq(BucketItem))
        /\ Len(BucketLists(x)) = Len(x) /\ Len(BucketLists(y)) = Len(y)
        /\ BucketLists(z) \in Seq(Seq(BucketItem)) /\ Len(BucketLists(z)) = Len(x) + Len(y)
    BY <1>1, ListsOfSegments DEF BucketLists
  <2>2. /\ BucketLists(x) \o BucketLists(y) \in Seq(Seq(BucketItem))
        /\ Len(BucketLists(x) \o BucketLists(y)) = Len(x) + Len(y)
        /\ \A i \in 1..(Len(x) + Len(y)) : (BucketLists(x) \o BucketLists(y))[i] =
              IF i <= Len(x) THEN BucketLists(x)[i] ELSE BucketLists(y)[i - Len(x)]
    <3> DEFINE a == BucketLists(x)
               b == BucketLists(y)
               S == Seq(BucketItem)
    <3>1. a \in Seq(S) /\ b \in Seq(S) /\ Len(a) = Len(x) /\ Len(b) = Len(y)
      BY <2>1
    <3> HIDE DEF a, b, S
    <3>2. /\ a \o b \in Seq(S)
          /\ Len(a \o b) = Len(a) + Len(b)
          /\ \A i \in 1..(Len(a) + Len(b)) : (a \o b)[i] = IF i <= Len(a) THEN a[i] ELSE b[i - Len(a)]
      BY <3>1, ConcatProperties
    <3>3. /\ a \o b \in Seq(S)
          /\ Len(a \o b) = Len(x) + Len(y)
          /\ \A i \in 1..(Len(x) + Len(y)) : (a \o b)[i] = IF i <= Len(x) THEN a[i] ELSE b[i - Len(x)]
      BY <3>1, <3>2
    <3> QED BY <3>3 DEF a, b, S
  <2>3. ASSUME NEW i \in 1..(Len(x) + Len(y))
        PROVE  BucketLists(z)[i] = IF i <= Len(x) THEN BucketLists(x)[i] ELSE BucketLists(y)[i - Len(x)]
    BY <1>1 DEF BucketLists
  <2>4. \A i \in 1..(Len(x) + Len(y)) : BucketLists(z)[i] = (BucketLists(x) \o BucketLists(y))[i]
    BY <2>2, <2>3
  <2> HIDE DEF z
  <2> DEFINE u == BucketLists(x) \o BucketLists(y)
             v == BucketLists(z)
  <2>5. u \in Seq(Seq(BucketItem)) /\ v \in Seq(Seq(BucketItem)) /\ Len(v) = Len(u)
        /\ \A i \in 1..Len(v) : v[i] = u[i]
    BY <2>1, <2>2, <2>4
  <2>6. v = u
    <3> HIDE DEF u, v
    <3> QED BY <2>5, SeqEqual
  <2> QED BY <2>6 DEF z
<1>4. /\ RawLists(x) \in Seq(Seq(Op)) /\ BucketLists(x) \in Seq(Seq(BucketItem))
      /\ RawLists(y) \in Seq(Seq(Op)) /\ BucketLists(y) \in Seq(Seq(BucketItem))
  BY ListsOfSegments
<1>5. /\ FlattenSeq(RawLists(x)) \in Seq(Op) /\ FlattenSeq(BucketLists(x)) \in Seq(BucketItem)
      /\ FlattenSeq(RawLists(x) \o RawLists(y)) = FlattenSeq(RawLists(x)) \o FlattenSeq(RawLists(y))
      /\ FlattenSeq(BucketLists(x) \o BucketLists(y)) =
            FlattenSeq(BucketLists(x)) \o FlattenSeq(BucketLists(y))
  BY <1>4, FlattenConcat
<1> QED BY <1>1, <1>2, <1>3, <1>5, DecodedAs

(* Lists of nothing flatten to nothing. *)
LEMMA FlattenNothing ==
    ASSUME NEW A, NEW n \in Nat
    PROVE  FlattenSeq([i \in 1..n |-> <<>>]) = <<>>
<1> DEFINE seqs == [i \in 1..n |-> <<>>]
           g == [i \in 0..n |-> <<>>]
<1>1. seqs \in Seq(Seq(A)) /\ Len(seqs) = n /\ g \in [0..n -> Seq(A)] /\ g[0] = <<>> /\ g[n] = <<>>
  OBVIOUS
<1>2. \A i \in 1..n : g[i] = g[i - 1] \o seqs[i]
  <2>1. <<>> \o <<>> = <<>>
    BY EmptySeq, ConcatEmptySeq
  <2>2. ASSUME NEW i \in 1..n PROVE g[i] = <<>> /\ g[i - 1] = <<>> /\ seqs[i] = <<>>
    OBVIOUS
  <2> HIDE DEF g, seqs
  <2> QED BY <2>1, <2>2
<1> HIDE DEF seqs, g
<1>3. FlattenSeq(seqs) = <<>>
  BY <1>1, <1>2, FlattenUnique
<1> QED BY <1>3 DEF seqs

(* append*Segments writes one segment a chunk. *)
LEMMA SegmentsOfChunks ==
    ASSUME NEW items, NEW bucket \in BOOLEAN
    PROVE  SegmentsOf(items, bucket) =
              [n \in 1..ChunkCount(items) |-> Segment(Chunks(items)[n], bucket)]
BY DEF SegmentsOf, Chunks, ChunkCount, ChunkEnd

(* A list written as segments is read back as it was. *)
LEMMA RawSegments ==
    ASSUME NEW ops \in Seq(Op)
    PROVE  /\ SegmentsOf(ops, FALSE) \in Seq(Encoded)
           /\ Decoded(SegmentsOf(ops, FALSE)) = [raw |-> ops, buckets |-> <<>>]
           /\ ops = <<>> <=> SegmentsOf(ops, FALSE) = <<>>
           /\ ops # <<>> => Last(SegmentsOf(ops, FALSE)).to = Last(ops).at
<1> DEFINE c == Chunks(ops)
           N == ChunkCount(ops)
           s == SegmentsOf(ops, FALSE)
<1>1. /\ c \in Seq(Seq(Op)) /\ FlattenSeq(c) = ops
      /\ \A n \in DOMAIN c : Len(c[n]) \in 1..SegmentSize
      /\ ops = <<>> <=> c = <<>>
      /\ ops # <<>> => Last(Last(c)) = Last(ops)
  BY ChunksOfList
<1>2. N \in Nat /\ (N = 0 <=> ops = <<>>)
  BY Cuts
<1>3. DOMAIN c = 1..N /\ Len(c) = N
  BY <1>2 DEF Chunks
<1>4. s = [n \in 1..N |-> Segment(c[n], FALSE)]
  BY SegmentsOfChunks
<1>5. \A n \in 1..N : c[n] \in ChunksOver(Op)
  <2>1. \A n \in 1..N : c[n] \in Seq(Op) /\ Len(c[n]) \in 1..SegmentSize
    <3> HIDE DEF c, N
    <3>1. \A n \in DOMAIN c : c[n] \in Seq(Op)
      BY <1>1
    <3> QED BY <1>1, <1>3, <3>1, Zenon
  <2> HIDE DEF c, N
  <2> QED BY <2>1 DEF ChunksOver
<1>6. s \in Seq(Encoded) /\ Len(s) = N
  <2>1. \A n \in 1..N : Segment(c[n], FALSE) \in Encoded
    <3> HIDE DEF c, N
    <3> QED BY <1>5 DEF Encoded
  <2>2. s \in [1..N -> Encoded]
    <3> HIDE DEF c, N, s
    <3> QED BY <1>4, <2>1
  <2> HIDE DEF c, N, s
  <2> QED BY <1>2, <2>2
<1>7. RawLists(s) = c
  <2>1. RawLists(s) = [n \in 1..N |-> c[n]]
    <3>1. \A n \in 1..N : RawIn(s[n]) = c[n]
      <4> HIDE DEF c, N, s
      <4> QED BY <1>4, <1>5, SegmentDecodes
    <3> HIDE DEF c, N, s
    <3> QED BY <3>1, <1>6 DEF RawLists
  <2>2. c = [n \in 1..N |-> c[n]]
    BY DEF Chunks
  <2> QED BY <2>1, <2>2
<1>8. BucketLists(s) = [n \in 1..N |-> <<>>]
  <2>1. \A n \in 1..N : BucketsIn(s[n]) = <<>>
    <3> HIDE DEF c, N, s
    <3> QED BY <1>4, <1>5, SegmentDecodes
  <2> HIDE DEF c, N, s
  <2> QED BY <2>1, <1>6 DEF BucketLists
<1>9. Decoded(s) = [raw |-> ops, buckets |-> <<>>]
  <2>1. FlattenSeq([n \in 1..N |-> <<>>]) = <<>>
    <3> HIDE DEF N
    <3> QED BY <1>2, FlattenNothing
  <2> HIDE DEF c, N, s
  <2> QED BY <1>1, <1>7, <1>8, <2>1, DecodedAs
<1>10. ops # <<>> => Last(s).to = Last(ops).at
  <2> SUFFICES ASSUME ops # <<>> PROVE Last(s).to = Last(ops).at
    OBVIOUS
  <2>1. N \in 1..N
    BY <1>2
  <2>2. s[N] = Segment(c[N], FALSE) /\ c[N] \in ChunksOver(Op)
    <3> HIDE DEF c, N, s
    <3> QED BY <2>1, <1>4, <1>5
  <2>3. s[N].to = c[N][Len(c[N])].at
    BY <2>2, SegmentDecodes
  <2>4. Last(s) = s[N] /\ Last(c) = c[N] /\ Last(c[N]) = c[N][Len(c[N])]
    BY <1>3, <1>6 DEF Last
  <2> HIDE DEF c, N, s
  <2> QED BY <2>3, <2>4, <1>1
<1>11. ops = <<>> <=> s = <<>>
  <2> HIDE DEF c, N, s
  <2> QED BY <1>2, <1>6, EmptySeq
<1> QED BY <1>6, <1>9, <1>10, <1>11

(* ... and so is a list of buckets. *)
LEMMA BucketSegments ==
    ASSUME NEW buckets \in Seq(BucketItem)
    PROVE  /\ SegmentsOf(buckets, TRUE) \in Seq(Encoded)
           /\ Decoded(SegmentsOf(buckets, TRUE)) = [raw |-> <<>>, buckets |-> buckets]
<1> DEFINE c == Chunks(buckets)
           N == ChunkCount(buckets)
           s == SegmentsOf(buckets, TRUE)
<1>1. /\ c \in Seq(Seq(BucketItem)) /\ FlattenSeq(c) = buckets
      /\ \A n \in DOMAIN c : Len(c[n]) \in 1..SegmentSize
  BY ChunksOfList
<1>2. N \in Nat
  BY Cuts
<1>3. DOMAIN c = 1..N /\ Len(c) = N
  BY <1>2 DEF Chunks
<1>4. s = [n \in 1..N |-> Segment(c[n], TRUE)]
  BY SegmentsOfChunks
<1>5. \A n \in 1..N : c[n] \in ChunksOver(BucketItem)
  <2>1. \A n \in 1..N : c[n] \in Seq(BucketItem) /\ Len(c[n]) \in 1..SegmentSize
    <3> HIDE DEF c, N
    <3>1. \A n \in DOMAIN c : c[n] \in Seq(BucketItem)
      BY <1>1
    <3> QED BY <1>1, <1>3, <3>1, Zenon
  <2> HIDE DEF c, N
  <2> QED BY <2>1 DEF ChunksOver
<1>6. s \in Seq(Encoded) /\ Len(s) = N
  <2>1. \A n \in 1..N : Segment(c[n], TRUE) \in Encoded
    <3> HIDE DEF c, N
    <3> QED BY <1>5 DEF Encoded
  <2>2. s \in [1..N -> Encoded]
    <3> HIDE DEF c, N, s
    <3> QED BY <1>4, <2>1
  <2> HIDE DEF c, N, s
  <2> QED BY <1>2, <2>2
<1>7. BucketLists(s) = c
  <2>1. BucketLists(s) = [n \in 1..N |-> c[n]]
    <3>1. \A n \in 1..N : BucketsIn(s[n]) = c[n]
      <4> HIDE DEF c, N, s
      <4> QED BY <1>4, <1>5, SegmentDecodes
    <3> HIDE DEF c, N, s
    <3> QED BY <3>1, <1>6 DEF BucketLists
  <2>2. c = [n \in 1..N |-> c[n]]
    BY DEF Chunks
  <2> QED BY <2>1, <2>2
<1>8. RawLists(s) = [n \in 1..N |-> <<>>]
  <2>1. \A n \in 1..N : RawIn(s[n]) = <<>>
    <3> HIDE DEF c, N, s
    <3> QED BY <1>4, <1>5, SegmentDecodes
  <2> HIDE DEF c, N, s
  <2> QED BY <2>1, <1>6 DEF RawLists
<1>9. Decoded(s) = [raw |-> <<>>, buckets |-> buckets]
  <2>1. FlattenSeq([n \in 1..N |-> <<>>]) = <<>>
    <3> HIDE DEF N
    <3> QED BY <1>2, FlattenNothing
  <2> HIDE DEF c, N, s
  <2> QED BY <1>1, <1>7, <1>8, <2>1, DecodedAs
<1> QED BY <1>6, <1>9

(* An empty series holds nothing. *)
LEMMA DecodedNothing == Decoded(<<>>) = [raw |-> <<>>, buckets |-> <<>>]
<1>1. RawLists(<<>>) = <<>> /\ BucketLists(<<>>) = <<>>
  BY EmptySeq DEF RawLists, BucketLists
<1>2. FlattenSeq(<<>>) = <<>>
  BY EmptySeq DEF FlattenSeq
<1> QED BY <1>1, <1>2, DecodedAs

(* pending.appendTo, decoded again: everything that was stored, then what  *)
(* was appended.                                                           *)
LEMMA DecodedAppend ==
    ASSUME NEW s \in Seq(Encoded), NEW p,
           p.raw \in Seq(Op), p.buckets \in Seq(BucketItem)
    PROVE  /\ AppendTo(s, p) \in Seq(Encoded)
           /\ Decoded(AppendTo(s, p)) = [raw     |-> Decoded(s).raw \o p.raw,
                                         buckets |-> Decoded(s).buckets \o p.buckets]
           /\ p.raw # <<>> =>
                 /\ AppendTo(s, p) # <<>>
                 /\ Last(AppendTo(s, p)).to = Last(p.raw).at
           /\ Len(AppendTo(s, p)) >= Len(s)
           /\ \A i \in 1..Len(s) : AppendTo(s, p)[i] = s[i]
<1> DEFINE b == SegmentsOf(p.buckets, TRUE)
           r == SegmentsOf(p.raw, FALSE)
<1>1. b \in Seq(Encoded) /\ Decoded(b) = [raw |-> <<>>, buckets |-> p.buckets]
  BY BucketSegments
<1>2. /\ r \in Seq(Encoded) /\ Decoded(r) = [raw |-> p.raw, buckets |-> <<>>]
      /\ p.raw = <<>> <=> r = <<>>
      /\ p.raw # <<>> => Last(r).to = Last(p.raw).at
  BY RawSegments
<1>3. AppendTo(s, p) = (s \o b) \o r
  BY DEF AppendTo
<1> HIDE DEF b, r
<1>4. /\ s \o b \in Seq(Encoded)
      /\ Decoded(s).raw \in Seq(Op) /\ Decoded(s).buckets \in Seq(BucketItem)
      /\ Decoded(s \o b) = [raw     |-> Decoded(s).raw \o Decoded(b).raw,
                            buckets |-> Decoded(s).buckets \o Decoded(b).buckets]
  BY <1>1, DecodedConcat
<1>5. /\ (s \o b) \o r \in Seq(Encoded)
      /\ Decoded((s \o b) \o r) = [raw     |-> Decoded(s \o b).raw \o Decoded(r).raw,
                                   buckets |-> Decoded(s \o b).buckets \o Decoded(r).buckets]
  BY <1>2, <1>4, DecodedConcat
<1>6. Decoded(s \o b).raw = Decoded(s).raw
  BY <1>1, <1>4, ConcatEmptySeq
<1>7. Decoded(s \o b).buckets = Decoded(s).buckets \o p.buckets
  <2>1. Decoded(s \o b).buckets = Decoded(s).buckets \o Decoded(b).buckets
    <3> DEFINE v == Decoded(s).raw \o Decoded(b).raw
               u == Decoded(s).buckets \o Decoded(b).buckets
    <3>1. Decoded(s \o b) = [raw |-> v, buckets |-> u]
      BY <1>4, Zenon
    <3> HIDE DEF u, v
    <3>2. Decoded(s \o b).buckets = u
      BY <3>1
    <3> QED BY <3>2 DEF u
  <2>2. Decoded(b).buckets = p.buckets
    BY <1>1
  <2> QED BY <2>1, <2>2, Zenon
<1>8. (Decoded(s).buckets \o p.buckets) \o <<>> = Decoded(s).buckets \o p.buckets
  <2>1. Decoded(s).buckets \o p.buckets \in Seq(BucketItem)
    BY <1>4, ConcatProperties
  <2> QED BY <2>1, ConcatEmptySeq
<1>9. Decoded((s \o b) \o r) = [raw     |-> Decoded(s).raw \o p.raw,
                                buckets |-> Decoded(s).buckets \o p.buckets]
  BY <1>2, <1>5, <1>6, <1>7, <1>8
<1>10. /\ Len(s) \in Nat /\ Len(b) \in Nat /\ Len(r) \in Nat
       /\ Len(s \o b) = Len(s) + Len(b)
       /\ Len((s \o b) \o r) = Len(s) + Len(b) + Len(r)
       /\ \A i \in 1..(Len(s) + Len(b)) : (s \o b)[i] = IF i <= Len(s) THEN s[i] ELSE b[i - Len(s)]
       /\ \A i \in 1..(Len(s) + Len(b) + Len(r)) :
             ((s \o b) \o r)[i] = IF i <= Len(s) + Len(b) THEN (s \o b)[i]
                                  ELSE r[i - (Len(s) + Len(b))]
  BY <1>1, <1>2, <1>4, ConcatProperties
<1>11. \A i \in 1..Len(s) : ((s \o b) \o r)[i] = s[i]
  BY <1>10
<1>12. p.raw # <<>> => (s \o b) \o r # <<>> /\ Last((s \o b) \o r) = Last(r)
  <2> SUFFICES ASSUME p.raw # <<>>
               PROVE  (s \o b) \o r # <<>> /\ Last((s \o b) \o r) = Last(r)
    OBVIOUS
  <2>1. Len(r) > 0
    BY <1>2, <1>10, EmptySeq
  <2>2. ((s \o b) \o r)[Len(s) + Len(b) + Len(r)] = r[Len(r)]
    BY <2>1, <1>10
  <2>3. Len((s \o b) \o r) # 0
    BY <2>1, <1>10
  <2> QED BY <2>2, <2>3, <1>10, EmptySeq DEF Last
<1>13. Len((s \o b) \o r) >= Len(s)
  BY <1>10
<1>14. p.raw # <<>> => Last((s \o b) \o r).to = Last(p.raw).at
  BY <1>2, <1>12, Zenon
<1> QED BY <1>3, <1>5, <1>9, <1>11, <1>12, <1>13, <1>14, Zenon

-----------------------------------------------------------------------------
(* Lists in time order. *)
Distinct(q) == \A i, j \in DOMAIN q : i # j => q[i] # q[j]

(* SetToSeqs lists every element of a set once. *)
LEMMA ListingOfSet ==
    ASSUME NEW S, IsFiniteSet(S), NEW q \in SetToSeqs(S)
    PROVE  q \in Seq(S) /\ Len(q) = Cardinality(S) /\ ToSet(q) = S /\ Distinct(q)
<1> DEFINE n == Cardinality(S)
<1>1. n \in Nat /\ IsFiniteSet(1..n) /\ Cardinality(1..n) = n
  BY FS_CardinalityType, FS_Interval
<1>2. q \in [1..n -> S] /\ \A i, j \in 1..n : i # j => q[i] # q[j]
  BY DEF SetToSeqs
<1>3. q \in Injection(1..n, S)
  BY <1>2 DEF Injection, IsInjective
<1>4. q \in Surjection(1..n, S)
  BY <1>1, <1>3, FS_Injection
<1>5. ToSet(q) = S
  BY <1>2, <1>4 DEF Surjection, ToSet
<1>6. q \in Seq(S) /\ Len(q) = n
  <2> HIDE DEF n
  <2> QED BY <1>1, <1>2
<1> QED BY <1>2, <1>5, <1>6 DEF Distinct

(* A set of words has a greatest element. *)
LEMMA Greatest ==
    ASSUME NEW S \in SUBSET WordSet, S # {}
    PROVE  \E m \in S : \A x \in S : x <= m
<1> DEFINE U == {u \in Nat : \A x \in S : x <= u}
<1>1. U \in SUBSET Nat /\ U # {}
  <2>1. Word \in U
    BY SegmentsAssumption DEF WordSet
  <2> QED BY <2>1
<1>2. PICK m \in U : \A u \in U : m <= u
  <2> HIDE DEF U
  <2> QED BY <1>1, Least
<1>3. m \in S
  <2> SUFFICES ASSUME m \notin S PROVE FALSE
    OBVIOUS
  <2>1. \A x \in S : x \in Nat /\ x < m
    BY SegmentsAssumption DEF WordSet
  <2>2. m > 0
    BY <2>1
  <2>3. m - 1 \in U
    BY <2>1, <2>2
  <2> QED BY <2>3, <1>2
<1> QED BY <1>3

(* A set of words can be listed in increasing order. *)
LEMMA Sortable ==
    ASSUME NEW S \in SUBSET WordSet
    PROVE  IsFiniteSet(S) /\ \E q \in SetToSeqs(S) : Increasing(q)
<1>1. \A T \in SUBSET WordSet : IsFiniteSet(T) /\ Cardinality(T) \in Nat
  <2>1. IsFiniteSet(WordSet)
    BY FS_Interval, SegmentsAssumption DEF WordSet
  <2> QED BY <2>1, FS_Subset, FS_CardinalityType
<1> DEFINE n == Cardinality(S)
           Sorts(T) == \E q \in SetToSeqs(T) : Increasing(q)
           K == {k \in 0..n : \A T \in SUBSET WordSet : Cardinality(T) = k => Sorts(T)}
<1>2. 0 \in K
  <2>1. ASSUME NEW T \in SUBSET WordSet, Cardinality(T) = 0 PROVE Sorts(T)
    <3>1. <<>> \in [1..0 -> T] /\ DOMAIN <<>> = {} /\ Len(<<>>) = 0
      OBVIOUS
    <3>2. <<>> \in SetToSeqs(T)
      BY <2>1, <3>1 DEF SetToSeqs
    <3>3. Increasing(<<>>)
      BY <3>1 DEF Increasing
    <3> QED BY <3>2, <3>3
  <2> HIDE DEF Sorts
  <2> QED BY <2>1, <1>1
<1>3. ASSUME NEW k \in 0..(n - 1), k \in K PROVE k + 1 \in K
  <2>1. ASSUME NEW T \in SUBSET WordSet, Cardinality(T) = k + 1 PROVE Sorts(T)
    <3>1. T # {}
      BY <2>1, <1>1, FS_EmptySet
    <3>2. PICK m \in T : \A x \in T : x <= m
      BY <3>1, Greatest
    <3> DEFINE R == T \ {m}
    <3>3. Cardinality(R) = k
      <4>1. Cardinality(R) = Cardinality(T) - 1
        BY <1>1, FS_RemoveElement
      <4> HIDE DEF R
      <4> QED BY <4>1, <2>1
    <3>4. PICK q \in SetToSeqs(R) : Increasing(q)
      <4>1. Sorts(R)
        <5>1. R \in SUBSET WordSet
          OBVIOUS
        <5> HIDE DEF R, Sorts
        <5> QED BY <5>1, <3>3, <1>3
      <4> HIDE DEF R
      <4> QED BY <4>1
    <3>5. q \in [1..k -> R] /\ (\A i, j \in 1..k : i # j => q[i] # q[j]) /\ Len(q) = k
      <4>1. q \in [1..k -> R] /\ \A i, j \in 1..k : i # j => q[i] # q[j]
        <5> HIDE DEF R
        <5> QED BY <3>3, <3>4 DEF SetToSeqs
      <4> QED BY <4>1
    <3> DEFINE r == [i \in 1..(k + 1) |-> IF i = k + 1 THEN m ELSE q[i]]
    <3>6. \A i \in 1..k : i \in 1..(k + 1) /\ i # k + 1 /\ q[i] \in R
      BY <3>5
    <3>7. r \in [1..(k + 1) -> T]
      BY <3>6
    <3>8. \A i, j \in 1..(k + 1) : i # j => r[i] # r[j]
      <4> SUFFICES ASSUME NEW i \in 1..(k + 1), NEW j \in 1..(k + 1), i # j PROVE r[i] # r[j]
        OBVIOUS
      <4>1. (i \in 1..k \/ i = k + 1) /\ (j \in 1..k \/ j = k + 1)
        OBVIOUS
      <4> QED BY <4>1, <3>5, <3>6
    <3>9. r \in SetToSeqs(T)
      <4> HIDE DEF r
      <4> QED BY <2>1, <3>7, <3>8 DEF SetToSeqs
    <3>10. Increasing(r)
      <4>1. Len(r) = k + 1
        OBVIOUS
      <4>2. ASSUME NEW i \in 2..(k + 1) PROVE r[i] > r[i - 1]
        <5>1. r[i - 1] = q[i - 1] /\ i - 1 \in 1..k /\ q[i - 1] \in R
          BY <3>6
        <5>2. CASE i = k + 1
          <6>1. r[i] = m
            BY <5>2
          <6>2. q[i - 1] <= m /\ q[i - 1] # m /\ q[i - 1] \in Int /\ m \in Int
            <7>1. q[i - 1] \in T /\ q[i - 1] # m
              BY <5>1
            <7>2. q[i - 1] <= m
              BY <7>1, <3>2
            <7>3. q[i - 1] \in WordSet /\ m \in WordSet
              BY <7>1
            <7> QED BY <7>1, <7>2, <7>3, SegmentsAssumption DEF WordSet
          <6> HIDE DEF r
          <6> QED BY <5>1, <6>1, <6>2
        <5>3. CASE i # k + 1
          <6>1. i \in 2..k /\ r[i] = q[i]
            BY <5>3
          <6>2. q[i] > q[i - 1]
            BY <6>1, <3>4, <3>5 DEF Increasing
          <6> HIDE DEF r
          <6> QED BY <5>1, <6>1, <6>2
        <5> QED BY <5>2, <5>3
      <4> HIDE DEF r
      <4> QED BY <4>1, <4>2 DEF Increasing
    <3> HIDE DEF r
    <3> QED BY <3>9, <3>10
  <2>2. k + 1 \in 0..n
    BY <1>1
  <2> HIDE DEF Sorts
  <2> QED BY <2>1, <2>2
<1>4. n \in K
  <2>1. n \in Nat /\ n \in 0..n
    BY <1>1
  <2>2. \A k \in 0..(n - 1) : k \in K => k + 1 \in K
    BY <1>3
  <2> HIDE DEF K, n
  <2> QED BY <1>2, <2>1, <2>2, UpTo
<1>5. Sorts(S)
  <2> HIDE DEF Sorts
  <2> QED BY <1>4
<1> QED BY <1>1, <1>5

(* sortedTimes returns the seconds of the map, sorted. *)
LEMMA SortedTimesSorts ==
    ASSUME NEW S \in SUBSET WordSet
    PROVE  /\ SortedTimes(S) \in Seq(S)
           /\ ToSet(SortedTimes(S)) = S
           /\ Increasing(SortedTimes(S))
<1>1. IsFiniteSet(S) /\ \E q \in SetToSeqs(S) : Increasing(q)
  BY Sortable
<1>2. SortedTimes(S) \in SetToSeqs(S) /\ Increasing(SortedTimes(S))
  BY <1>1 DEF SortedTimes
<1> QED BY <1>1, <1>2, ListingOfSet

(* A list whose neighbours are in order is in order. *)
LEMMA NondecreasingPairs ==
    ASSUME NEW t \in Seq(Nat), Nondecreasing(t)
    PROVE  \A i, j \in 1..Len(t) : i <= j => t[i] <= t[j]
<1> SUFFICES ASSUME NEW i \in 1..Len(t) PROVE \A j \in i..Len(t) : t[i] <= t[j]
  OBVIOUS
<1> DEFINE n == Len(t) - i
           K == {k \in 0..n : t[i] <= t[i + k]}
<1>1. n \in Nat /\ 0 \in K
  OBVIOUS
<1>2. \A k \in 0..(n - 1) : k \in K => k + 1 \in K
  <2> SUFFICES ASSUME NEW k \in 0..(n - 1), k \in K PROVE k + 1 \in K
    OBVIOUS
  <2>1. i + k + 1 \in 2..Len(t) /\ (i + k + 1) - 1 = i + k /\ i + k \in 1..Len(t)
    OBVIOUS
  <2>2. t[i + k + 1] >= t[i + k]
    BY <2>1 DEF Nondecreasing
  <2>3. t[i] <= t[i + k]
    OBVIOUS
  <2>4. t[i] \in Nat /\ t[i + k] \in Nat /\ t[i + k + 1] \in Nat
    BY <2>1
  <2>5. t[i] <= t[i + (k + 1)]
    BY <2>2, <2>3, <2>4
  <2> QED BY <2>5
<1>3. \A k \in 0..n : k \in K
  <2> HIDE DEF n, K
  <2> QED BY <1>1, <1>2, UpTo
<1>4. ASSUME NEW j \in i..Len(t) PROVE t[i] <= t[j]
  <2> DEFINE k == j - i
  <2>1. k \in 0..n /\ i + k = j
    OBVIOUS
  <2>2. k \in K
    BY <2>1, <1>3
  <2> QED BY <2>1, <2>2
<1> QED BY <1>4

(* ... strictly so, when its neighbours are. *)
LEMMA IncreasingPairs ==
    ASSUME NEW t \in Seq(Nat), Increasing(t)
    PROVE  Nondecreasing(t) /\ \A i, j \in 1..Len(t) : i < j => t[i] < t[j]
<1>1. Nondecreasing(t)
  <2> SUFFICES ASSUME NEW i \in 2..Len(t) PROVE t[i] >= t[i - 1]
    BY DEF Nondecreasing
  <2>1. t[i] > t[i - 1] /\ t[i] \in Nat /\ t[i - 1] \in Nat
    BY DEF Increasing
  <2> QED BY <2>1
<1>2. ASSUME NEW i \in 1..Len(t), NEW j \in 1..Len(t), i < j PROVE t[i] < t[j]
  <2>1. j \in 2..Len(t) /\ j - 1 \in 1..Len(t) /\ i <= j - 1
    BY <1>2
  <2>2. t[j] > t[j - 1]
    BY <2>1 DEF Increasing
  <2>3. t[i] <= t[j - 1]
    BY <2>1, <1>1, NondecreasingPairs
  <2>4. t[i] \in Nat /\ t[j] \in Nat /\ t[j - 1] \in Nat
    BY <2>1
  <2> QED BY <2>2, <2>3, <2>4
<1> QED BY <1>1, <1>2

-----------------------------------------------------------------------------
(* Compaction. *)
BucketMaps == UNION {[D -> Seq(SUBSET Op)] : D \in SUBSET WordSet}

MapParts(f) == UNION {UNION ToSet(f[t]) : t \in DOMAIN f}
ListParts(buckets) == UNION {UNION ToSet(b.parts) : b \in ToSet(buckets)}

(* A counter or a sketch bucket is one aggregate. *)
OnePart(k, parts) == k # "sample" => Len(parts) <= 1

(* bucketOf of a word is a word. *)
LEMMA BucketIsWord ==
    ASSUME NEW t \in WordSet
    PROVE  BucketOf(t, Span) \in WordSet
<1>1. t \in Nat /\ Span \in Nat \ {0} /\ t <= Word - 1 /\ Word \in Nat
  BY SegmentsAssumption DEF WordSet
<1>2. t \div Span \in Nat /\ (t \div Span) * Span <= t
  BY <1>1, Division
<1>3. (t \div Span) * Span \in Nat
  <2> DEFINE q == t \div Span
  <2>1. q \in Int /\ Span \in Nat /\ 0 <= q
    BY <1>1, <1>2
  <2>2. 0 * Span <= q * Span /\ q * Span \in Int
    <3> HIDE DEF q
    <3> QED BY <2>1, TimesMonotone
  <2>3. 0 * Span = 0
    BY <1>1
  <2> HIDE DEF q
  <2>4. q * Span \in Nat
    BY <2>2, <2>3
  <2> QED BY <2>4 DEF q
<1>4. BucketOf(t, Span) = (t \div Span) * Span
  BY <1>1 DEF BucketOf
<1> DEFINE m == (t \div Span) * Span
<1>5. m \in Nat /\ m <= t /\ BucketOf(t, Span) = m
  BY <1>2, <1>3, <1>4
<1> HIDE DEF m
<1> QED BY <1>1, <1>5 DEF WordSet

(* The parts of a list of sets. *)
LEMMA PartsOfAppend ==
    ASSUME NEW A, NEW q \in Seq(A), NEW x \in A
    PROVE  UNION ToSet(Append(q, x)) = (UNION ToSet(q)) \cup x
<1>1. /\ Len(q) \in Nat /\ DOMAIN q = 1..Len(q)
      /\ DOMAIN Append(q, x) = 1..(Len(q) + 1)
      /\ \A i \in 1..Len(q) : Append(q, x)[i] = q[i]
      /\ Append(q, x)[Len(q) + 1] = x
  BY AppendProperties
<1>2. ToSet(Append(q, x)) = ToSet(q) \cup {x}
  <2>1. \A i \in 1..(Len(q) + 1) : i \in 1..Len(q) \/ i = Len(q) + 1
    BY <1>1
  <2>2. \A i \in 1..Len(q) : i \in 1..(Len(q) + 1)
    BY <1>1
  <2>3. Len(q) + 1 \in 1..(Len(q) + 1)
    BY <1>1
  <2> QED BY <1>1, <2>1, <2>2, <2>3 DEF ToSet
<1> QED BY <1>2

(* A list of one element. *)
LEMMA OneElement ==
    ASSUME NEW A, NEW x \in A
    PROVE  <<x>> \in Seq(A) /\ Len(<<x>>) = 1 /\ ToSet(<<x>>) = {x}
<1>1. <<x>> \in Seq(A) /\ Len(<<x>>) = 1 /\ DOMAIN <<x>> = 1..1 /\ <<x>>[1] = x
  OBVIOUS
<1>2. ToSet(<<x>>) = {<<x>>[i] : i \in 1..1}
  BY <1>1 DEF ToSet
<1> QED BY <1>1, <1>2

(* What a bucket is built from after one more operation. *)
NewParts(k, old, op) ==
    IF k = "sample" THEN Append(old, {op})
    ELSE IF old = <<>> THEN <<{op}>> ELSE <<old[1] \cup {op}>>

(* The operation is added, and nothing is lost. *)
LEMMA NewPartsAdd ==
    ASSUME NEW k, NEW old \in Seq(SUBSET Op), OnePart(k, old), NEW op \in Op
    PROVE  /\ NewParts(k, old, op) \in Seq(SUBSET Op) /\ OnePart(k, NewParts(k, old, op))
           /\ UNION ToSet(NewParts(k, old, op)) = (UNION ToSet(old)) \cup {op}
<1> DEFINE new == NewParts(k, old, op)
<1>1. CASE k = "sample"
  <2>1. new = Append(old, {op}) /\ {op} \in SUBSET Op
    BY <1>1 DEF NewParts
  <2>2. new \in Seq(SUBSET Op)
    BY <2>1, AppendProperties
  <2>3. UNION ToSet(new) = (UNION ToSet(old)) \cup {op}
    <3> DEFINE x == {op}
               B == SUBSET Op
    <3>1. x \in B /\ old \in Seq(B) /\ new = Append(old, x)
      BY <2>1
    <3> HIDE DEF x, B, new
    <3>2. UNION ToSet(Append(old, x)) = (UNION ToSet(old)) \cup x
      <4>1. \A q \in Seq(B), y \in B : UNION ToSet(Append(q, y)) = (UNION ToSet(q)) \cup y
        BY PartsOfAppend DEF B
      <4> QED BY <3>1, <4>1, Zenon
    <3> QED BY <3>1, <3>2 DEF x
  <2> QED BY <1>1, <2>2, <2>3 DEF OnePart
<1>2. CASE k # "sample" /\ old = <<>>
  <2>1. new = <<{op}>>
    BY <1>2 DEF NewParts
  <2>2. new \in Seq(SUBSET Op) /\ Len(new) = 1 /\ ToSet(new) = {{op}}
    <3>1. {op} \in SUBSET Op
      OBVIOUS
    <3> HIDE DEF new
    <3> QED BY <2>1, <3>1, OneElement
  <2>3. ToSet(old) = {}
    BY <1>2 DEF ToSet
  <2> HIDE DEF new
  <2> QED BY <2>2, <2>3 DEF OnePart, new
<1>3. CASE k # "sample" /\ old # <<>>
  <2>1. Len(old) = 1 /\ old[1] \in SUBSET Op /\ DOMAIN old = 1..1
    <3>1. Len(old) \in Nat /\ Len(old) # 0 /\ Len(old) <= 1
      BY <1>3, EmptySeq DEF OnePart
    <3>2. Len(old) = 1
      <4> DEFINE l == Len(old)
      <4>1. l \in Nat /\ l # 0 /\ l <= 1
        BY <3>1
      <4> HIDE DEF l
      <4>2. l = 1
        BY <4>1
      <4> QED BY <4>2 DEF l
    <3>3. old \in [1..Len(old) -> SUBSET Op]
      OBVIOUS
    <3> QED BY <3>2, <3>3
  <2>2. new = <<old[1] \cup {op}>>
    BY <1>3 DEF NewParts
  <2>3. new \in Seq(SUBSET Op) /\ Len(new) = 1 /\ ToSet(new) = {old[1] \cup {op}}
    <3> DEFINE u == old[1] \cup {op}
    <3>1. u \in SUBSET Op /\ new = <<u>>
      BY <2>1, <2>2
    <3> HIDE DEF new, u
    <3>2. new \in Seq(SUBSET Op) /\ Len(new) = 1 /\ ToSet(new) = {u}
      BY <3>1, OneElement
    <3> QED BY <3>2 DEF u
  <2>4. ToSet(old) = {old[1]}
    BY <2>1 DEF ToSet
  <2> HIDE DEF new
  <2> QED BY <2>3, <2>4 DEF OnePart, new
<1> QED BY <1>1, <1>2, <1>3

(* A folded operation is added to what its bucket was built from, and no   *)
(* bucket loses anything.                                                  *)
LEMMA FoldOpAdds ==
    ASSUME NEW k, NEW f \in BucketMaps, NEW op \in Op,
           \A t \in DOMAIN f : OnePart(k, f[t])
    PROVE  /\ FoldOp(k, f, op) \in BucketMaps
           /\ MapParts(FoldOp(k, f, op)) = MapParts(f) \cup {op}
           /\ \A t \in DOMAIN FoldOp(k, f, op) : OnePart(k, FoldOp(k, f, op)[t])
<1> DEFINE b == BucketOf(op.at, Span)
           old == IF b \in DOMAIN f THEN f[b] ELSE <<>>
           new == NewParts(k, old, op)
           g == FoldOp(k, f, op)
<1>1. PICK D \in SUBSET WordSet : f \in [D -> Seq(SUBSET Op)]
  BY DEF BucketMaps
<1>2. b \in WordSet
  <2>1. op.at \in WordSet
    BY WordAssumption DEF Op, WordSet
  <2> QED BY <2>1, BucketIsWord
<1>3. old \in Seq(SUBSET Op) /\ OnePart(k, old)
  <2>1. <<>> \in Seq(SUBSET Op) /\ OnePart(k, <<>>)
    BY EmptySeq DEF OnePart
  <2> QED BY <1>1, <2>1
<1>4. g = [t \in D \cup {b} |-> IF t = b THEN new ELSE f[t]]
  BY <1>1 DEF FoldOp, NewParts
<1> HIDE DEF b, old, g
<1>5. /\ new \in Seq(SUBSET Op) /\ OnePart(k, new)
      /\ UNION ToSet(new) = (UNION ToSet(old)) \cup {op}
  BY <1>3, NewPartsAdd
<1> HIDE DEF new
<1>6. g \in BucketMaps
  <2>1. D \cup {b} \in SUBSET WordSet /\ g \in [D \cup {b} -> Seq(SUBSET Op)]
    BY <1>1, <1>2, <1>4, <1>5
  <2> QED BY <2>1 DEF BucketMaps
<1>7. \A t \in DOMAIN g : OnePart(k, g[t])
  BY <1>1, <1>4, <1>5
<1>8. MapParts(g) = MapParts(f) \cup {op}
  <2>1. DOMAIN f = D /\ DOMAIN g = D \cup {b} /\ g[b] = new /\ \A t \in D \ {b} : g[t] = f[t]
    BY <1>1, <1>4
  <2>2. b \in D => old = f[b]
    BY <1>1 DEF old
  <2>3. b \notin D => ToSet(old) = {}
    BY <1>1 DEF old, ToSet
  <2>4. ASSUME NEW o, o \in MapParts(g) PROVE o \in MapParts(f) \cup {op}
    <3>1. PICK t \in D \cup {b} : o \in UNION ToSet(g[t])
      BY <2>1, <2>4 DEF MapParts
    <3>2. CASE t = b
      BY <3>1, <3>2, <2>1, <2>2, <2>3, <1>5 DEF MapParts
    <3>3. CASE t # b
      BY <3>1, <3>3, <2>1 DEF MapParts
    <3> QED BY <3>2, <3>3
  <2>5. ASSUME NEW o, o \in MapParts(f) \cup {op} PROVE o \in MapParts(g)
    <3>1. CASE o = op
      BY <3>1, <2>1, <1>5 DEF MapParts
    <3>2. CASE o \in MapParts(f)
      <4>1. PICK t \in D : o \in UNION ToSet(f[t])
        BY <2>1, <3>2 DEF MapParts
      <4>2. CASE t = b
        BY <4>1, <4>2, <2>1, <2>2, <1>5 DEF MapParts
      <4>3. CASE t # b
        BY <4>1, <4>3, <2>1 DEF MapParts
      <4> QED BY <4>2, <4>3
    <3> QED BY <3>1, <3>2, <2>5
  <2> QED BY <2>4, <2>5
<1> QED BY <1>6, <1>7, <1>8 DEF g

Accs == [raw : Seq(Op), buckets : BucketMaps]

(* What a compaction has done after the first n operations of a list. *)
PassOf(k, cutoff, ops, before, n, acc) ==
    /\ acc \in Accs
    /\ ToSet(acc.raw) = {o \in {ops[i] : i \in 1..n} : o.at >= cutoff}
    /\ MapParts(acc.buckets) =
          MapParts(before) \cup {o \in {ops[i] : i \in 1..n} : o.at < cutoff}
    /\ \A t \in DOMAIN acc.buckets : OnePart(k, acc.buckets[t])
    /\ Distinct(acc.raw)
    /\ Nondecreasing(Times(acc.raw))
    /\ k = "sample" => Increasing(Times(acc.raw))

(* An operation later than the ones of a list, put behind it. *)
LEMMA TimesOfAppend ==
    ASSUME NEW q \in Seq(Op), NEW op \in Op
    PROVE  /\ Distinct(q) /\ op \notin ToSet(q) => Distinct(Append(q, op))
           /\ Nondecreasing(Times(q)) /\ (\A o \in ToSet(q) : o.at <= op.at)
                 => Nondecreasing(Times(Append(q, op)))
           /\ Increasing(Times(q)) /\ (\A o \in ToSet(q) : o.at < op.at)
                 => Increasing(Times(Append(q, op)))
<1> DEFINE r == Append(q, op)
           n == Len(q)
<1>1. /\ n \in Nat /\ DOMAIN q = 1..n /\ DOMAIN r = 1..(n + 1) /\ Len(r) = n + 1
      /\ \A i \in 1..n : r[i] = q[i] /\ q[i] \in ToSet(q)
      /\ r[n + 1] = op
  <2>1. DOMAIN q = 1..n
    OBVIOUS
  <2>2. \A i \in 1..n : q[i] \in ToSet(q)
    BY <2>1 DEF ToSet
  <2> QED BY <2>1, <2>2, AppendProperties
<1> HIDE DEF r, n
<1>2. /\ Len(Times(q)) = n /\ Len(Times(r)) = n + 1
      /\ \A i \in 1..n : Times(q)[i] = q[i].at /\ Times(r)[i] = q[i].at
      /\ Times(r)[n + 1] = op.at
  BY <1>1 DEF Times
<1>3. \A i \in 1..(n + 1) : i \in 1..n \/ i = n + 1
  BY <1>1
<1>4. ASSUME Distinct(q), op \notin ToSet(q) PROVE Distinct(r)
  BY <1>1, <1>3, <1>4 DEF Distinct
<1>5. \A i \in 2..(n + 1) : /\ i - 1 \in 1..n
                            /\ i \in 2..n \/ i = n + 1
  BY <1>1
<1>6. ASSUME Nondecreasing(Times(q)), \A o \in ToSet(q) : o.at <= op.at
      PROVE  Nondecreasing(Times(r))
  <2> SUFFICES ASSUME NEW i \in 2..(n + 1) PROVE Times(r)[i] >= Times(r)[i - 1]
    BY <1>2 DEF Nondecreasing
  <2>1. CASE i \in 2..n
    <3>1. i \in 1..n /\ i - 1 \in 1..n /\ Times(q)[i] >= Times(q)[i - 1]
      BY <2>1, <1>1, <1>2, <1>6 DEF Nondecreasing
    <3> QED BY <3>1, <1>2
  <2>2. CASE i = n + 1
    <3>1. q[i - 1].at <= op.at /\ i - 1 \in 1..n
      BY <1>1, <1>5, <1>6
    <3>2. Times(r)[i] = op.at /\ Times(r)[i - 1] = q[i - 1].at
      BY <2>2, <3>1, <1>2
    <3> QED BY <3>1, <3>2
  <2> QED BY <2>1, <2>2, <1>5
<1>7. ASSUME Increasing(Times(q)), \A o \in ToSet(q) : o.at < op.at
      PROVE  Increasing(Times(r))
  <2> SUFFICES ASSUME NEW i \in 2..(n + 1) PROVE Times(r)[i] > Times(r)[i - 1]
    BY <1>2 DEF Increasing
  <2>1. CASE i \in 2..n
    <3>1. i \in 1..n /\ i - 1 \in 1..n /\ Times(q)[i] > Times(q)[i - 1]
      BY <2>1, <1>1, <1>2, <1>7 DEF Increasing
    <3> QED BY <3>1, <1>2
  <2>2. CASE i = n + 1
    <3>1. q[i - 1].at < op.at /\ i - 1 \in 1..n
      BY <1>1, <1>5, <1>7
    <3>2. Times(r)[i] = op.at /\ Times(r)[i - 1] = q[i - 1].at
      BY <2>2, <3>1, <1>2
    <3> QED BY <3>1, <3>2
  <2> QED BY <2>1, <2>2, <1>5
<1> QED BY <1>4, <1>6, <1>7 DEF r

(* One round of the pass. *)
LEMMA PassStep ==
    ASSUME NEW k, NEW cutoff \in Nat, NEW ops \in Seq(Op), NEW before,
           NEW n \in 0..(Len(ops) - 1), NEW acc, PassOf(k, cutoff, ops, before, n, acc),
           Distinct(ops), Nondecreasing(Times(ops)), k = "sample" => Increasing(Times(ops))
    PROVE  PassOf(k, cutoff, ops, before, n + 1, CompactOp(k, cutoff, acc, ops[n + 1]))
<1> DEFINE op == ops[n + 1]
           seen == {ops[i] : i \in 1..n}
           new == CompactOp(k, cutoff, acc, op)
<1>1. /\ acc.raw \in Seq(Op) /\ acc.buckets \in BucketMaps
      /\ acc = [raw |-> acc.raw, buckets |-> acc.buckets]
      /\ ToSet(acc.raw) = {o \in seen : o.at >= cutoff}
      /\ MapParts(acc.buckets) = MapParts(before) \cup {o \in seen : o.at < cutoff}
      /\ \A t \in DOMAIN acc.buckets : OnePart(k, acc.buckets[t])
      /\ Distinct(acc.raw) /\ Nondecreasing(Times(acc.raw))
      /\ k = "sample" => Increasing(Times(acc.raw))
  BY DEF PassOf, Accs
<1>2. op \in Op /\ op.at \in Nat /\ Len(ops) \in Nat /\ n + 1 \in 1..Len(ops) /\ DOMAIN ops = 1..Len(ops)
  <2>1. Len(ops) \in Nat /\ n + 1 \in 1..Len(ops) /\ DOMAIN ops = 1..Len(ops)
    OBVIOUS
  <2>2. op \in Op
    BY <2>1
  <2>3. op.at \in Time
    BY <2>2 DEF Op
  <2> QED BY <2>1, <2>2, <2>3, TimeAssumption
<1>3. {ops[i] : i \in 1..(n + 1)} = seen \cup {op}
  <2>1. \A i \in 1..(n + 1) : i \in 1..n \/ i = n + 1
    OBVIOUS
  <2>2. n + 1 \in 1..(n + 1) /\ \A i \in 1..n : i \in 1..(n + 1)
    OBVIOUS
  <2> QED BY <2>1, <2>2
<1>4. Times(ops) \in Seq(Nat) /\ Len(Times(ops)) = Len(ops) /\ \A i \in 1..Len(ops) : Times(ops)[i] = ops[i].at
  <2>1. \A o \in Op : o.at \in Nat
    BY TimeAssumption DEF Op
  <2>2. \A i \in 1..Len(ops) : ops[i] \in Op
    OBVIOUS
  <2> QED BY <1>2, <2>1, <2>2 DEF Times
<1>5. \A o \in seen : o.at <= op.at /\ (k = "sample" => o.at < op.at) /\ o # op
  <2> SUFFICES ASSUME NEW i \in 1..n
               PROVE  /\ ops[i].at <= op.at /\ (k = "sample" => ops[i].at < op.at)
                      /\ ops[i] # op
    OBVIOUS
  <2>1. i \in 1..Len(ops) /\ i < n + 1 /\ i # n + 1
    BY <1>2
  <2>2. Times(ops)[i] <= Times(ops)[n + 1]
    BY <2>1, <1>2, <1>4, NondecreasingPairs
  <2>3. k = "sample" => Times(ops)[i] < Times(ops)[n + 1]
    BY <2>1, <1>2, <1>4, IncreasingPairs
  <2>4. ops[i] # ops[n + 1]
    BY <2>1, <1>2 DEF Distinct
  <2> QED BY <2>1, <2>2, <2>3, <2>4, <1>2, <1>4
<1> HIDE DEF op, seen
<1>6. CASE op.at >= cutoff
  <2>1. new = [raw |-> Append(acc.raw, op), buckets |-> acc.buckets]
    BY <1>1, <1>6 DEF CompactOp
  <2>2. Append(acc.raw, op) \in Seq(Op) /\ ToSet(Append(acc.raw, op)) = ToSet(acc.raw) \cup {op}
    <3> DEFINE q == acc.raw
    <3>0. q \in Seq(Op)
      BY <1>1
    <3> HIDE DEF q
    <3>1. /\ Append(q, op) \in Seq(Op)
          /\ Len(q) \in Nat /\ DOMAIN q = 1..Len(q)
          /\ DOMAIN Append(q, op) = 1..(Len(q) + 1)
          /\ \A i \in 1..Len(q) : Append(q, op)[i] = q[i]
          /\ Append(q, op)[Len(q) + 1] = op
      BY <3>0, <1>2, AppendProperties
    <3>2. \A i \in 1..(Len(q) + 1) : i \in 1..Len(q) \/ i = Len(q) + 1
      BY <3>1
    <3>3. Len(q) + 1 \in 1..(Len(q) + 1) /\ \A i \in 1..Len(q) : i \in 1..(Len(q) + 1)
      BY <3>1
    <3>4. ToSet(Append(q, op)) = ToSet(q) \cup {op}
      BY <3>1, <3>2, <3>3 DEF ToSet
    <3> QED BY <3>1, <3>4 DEF q
  <2>3. op \notin ToSet(acc.raw) /\ \A o \in ToSet(acc.raw) : o.at <= op.at /\ (k = "sample" => o.at < op.at)
    BY <1>1, <1>5
  <2>4. /\ Distinct(Append(acc.raw, op)) /\ Nondecreasing(Times(Append(acc.raw, op)))
        /\ k = "sample" => Increasing(Times(Append(acc.raw, op)))
    BY <2>3, <1>1, <1>2, TimesOfAppend
  <2>5. ~(op.at < cutoff)
    BY <1>2, <1>6
  <2>6. ToSet(Append(acc.raw, op)) = {o \in seen \cup {op} : o.at >= cutoff}
    BY <2>2, <1>1, <1>6
  <2>7. MapParts(acc.buckets) = MapParts(before) \cup {o \in seen \cup {op} : o.at < cutoff}
    BY <2>5, <1>1
  <2>8. new \in Accs /\ new.raw = Append(acc.raw, op) /\ new.buckets = acc.buckets
    BY <2>1, <2>2, <1>1 DEF Accs
  <2> HIDE DEF new
  <2>9. PassOf(k, cutoff, ops, before, n + 1, new)
    BY <2>4, <2>6, <2>7, <2>8, <1>1, <1>3 DEF PassOf
  <2> QED BY <2>9 DEF new, op
<1>7. CASE ~(op.at >= cutoff)
  <2>1. new = [raw |-> acc.raw, buckets |-> FoldOp(k, acc.buckets, op)]
    BY <1>1, <1>7 DEF CompactOp
  <2>2. /\ FoldOp(k, acc.buckets, op) \in BucketMaps
        /\ MapParts(FoldOp(k, acc.buckets, op)) = MapParts(acc.buckets) \cup {op}
        /\ \A t \in DOMAIN FoldOp(k, acc.buckets, op) : OnePart(k, FoldOp(k, acc.buckets, op)[t])
    BY <1>1, <1>2, FoldOpAdds
  <2>3. op.at < cutoff
    BY <1>2, <1>7
  <2>4. ToSet(acc.raw) = {o \in seen \cup {op} : o.at >= cutoff}
    BY <1>7, <1>1
  <2>5. MapParts(FoldOp(k, acc.buckets, op)) = MapParts(before) \cup {o \in seen \cup {op} : o.at < cutoff}
    BY <2>2, <2>3, <1>1
  <2>6. new \in Accs /\ new.raw = acc.raw /\ new.buckets = FoldOp(k, acc.buckets, op)
    BY <2>1, <2>2, <1>1 DEF Accs
  <2> HIDE DEF new
  <2>7. PassOf(k, cutoff, ops, before, n + 1, new)
    BY <2>2, <2>4, <2>5, <2>6, <1>1, <1>3 DEF PassOf
  <2> QED BY <2>7 DEF new, op
<1> QED BY <1>6, <1>7

(* A list of buckets that a compaction can start from or leave. *)
BucketList(k, buckets) ==
    /\ buckets \in Seq(BucketItem)
    /\ Increasing(Times(buckets))
    /\ \A i \in DOMAIN buckets : OnePart(k, buckets[i].parts)

(* ... and of raw operations. *)
RawList(k, ops) ==
    /\ ops \in Seq(Op)
    /\ Distinct(ops)
    /\ Nondecreasing(Times(ops))
    /\ k = "sample" => Increasing(Times(ops))

MapOf(buckets) ==
    [t \in ToSet(Times(buckets)) |->
        buckets[CHOOSE i \in DOMAIN buckets : buckets[i].at = t].parts]

(* The seconds of a list of buckets. *)
LEMMA TimesOfBuckets ==
    ASSUME NEW buckets \in Seq(BucketItem)
    PROVE  /\ Times(buckets) \in Seq(Nat) /\ Len(Times(buckets)) = Len(buckets)
           /\ DOMAIN buckets = 1..Len(buckets) /\ Len(buckets) \in Nat
           /\ \A i \in 1..Len(buckets) :
                 /\ buckets[i] \in BucketItem /\ buckets[i].at \in WordSet
                 /\ buckets[i].parts \in Seq(SUBSET Op)
                 /\ Times(buckets)[i] = buckets[i].at
           /\ ToSet(Times(buckets)) = {buckets[i].at : i \in 1..Len(buckets)}
<1>1. DOMAIN buckets = 1..Len(buckets) /\ Len(buckets) \in Nat /\ \A i \in 1..Len(buckets) : buckets[i] \in BucketItem
  OBVIOUS
<1>2. \A b \in BucketItem : b.at \in WordSet /\ b.at \in Nat /\ b.parts \in Seq(SUBSET Op)
  BY SegmentsAssumption DEF BucketItem, WordSet
<1>3. Times(buckets) \in [1..Len(buckets) -> Nat] /\ \A i \in 1..Len(buckets) : Times(buckets)[i] = buckets[i].at
  BY <1>1, <1>2 DEF Times
<1>4. Times(buckets) \in Seq(Nat) /\ Len(Times(buckets)) = Len(buckets)
  BY <1>1, <1>3
<1>5. ToSet(Times(buckets)) = {buckets[i].at : i \in 1..Len(buckets)}
  BY <1>1, <1>3 DEF ToSet
<1> QED BY <1>1, <1>2, <1>3, <1>4, <1>5

(* The map a compaction starts from holds what the buckets hold. *)
LEMMA MapOfBuckets ==
    ASSUME NEW k, NEW buckets, BucketList(k, buckets)
    PROVE  /\ MapOf(buckets) \in BucketMaps
           /\ MapParts(MapOf(buckets)) = ListParts(buckets)
           /\ \A t \in DOMAIN MapOf(buckets) : OnePart(k, MapOf(buckets)[t])
<1> DEFINE D == ToSet(Times(buckets))
           m == MapOf(buckets)
<1>1. buckets \in Seq(BucketItem) /\ Increasing(Times(buckets)) /\ \A i \in DOMAIN buckets : OnePart(k, buckets[i].parts)
  BY DEF BucketList
<1>2. /\ Times(buckets) \in Seq(Nat) /\ Len(Times(buckets)) = Len(buckets)
      /\ DOMAIN buckets = 1..Len(buckets) /\ Len(buckets) \in Nat
      /\ \A i \in 1..Len(buckets) :
            /\ buckets[i] \in BucketItem /\ buckets[i].at \in WordSet
            /\ buckets[i].parts \in Seq(SUBSET Op)
            /\ Times(buckets)[i] = buckets[i].at
      /\ D = {buckets[i].at : i \in 1..Len(buckets)}
  BY <1>1, TimesOfBuckets
<1>3. \A i, j \in 1..Len(buckets) : buckets[i].at = buckets[j].at => i = j
  <2> SUFFICES ASSUME NEW i \in 1..Len(buckets), NEW j \in 1..Len(buckets), i < j
               PROVE  buckets[i].at # buckets[j].at
    BY <1>2
  <2>1. Times(buckets)[i] < Times(buckets)[j]
    BY <1>1, <1>2, IncreasingPairs
  <2> QED BY <2>1, <1>2, SegmentsAssumption DEF WordSet
<1>4. DOMAIN m = D /\ \A i \in 1..Len(buckets) : m[buckets[i].at] = buckets[i].parts
  <2>1. DOMAIN m = D
    BY DEF MapOf
  <2> SUFFICES ASSUME NEW i \in 1..Len(buckets) PROVE m[buckets[i].at] = buckets[i].parts
    BY <2>1
  <2>2. buckets[i].at \in D
    BY <1>2
  <2> DEFINE c == CHOOSE j \in DOMAIN buckets : buckets[j].at = buckets[i].at
  <2>3. c \in DOMAIN buckets /\ buckets[c].at = buckets[i].at
    BY <1>2
  <2>4. c = i
    <3> HIDE DEF c
    <3> QED BY <2>3, <1>2, <1>3
  <2>5. m[buckets[i].at] = buckets[c].parts
    BY <2>2 DEF MapOf
  <2> HIDE DEF c
  <2> QED BY <2>4, <2>5
<1>5. m \in BucketMaps
  <2>1. D \in SUBSET WordSet
    BY <1>2
  <2>2. m = [t \in D |-> m[t]]
    BY DEF MapOf
  <2>3. \A t \in D : m[t] \in Seq(SUBSET Op)
    BY <1>2, <1>4
  <2> HIDE DEF m, D
  <2>4. m \in [D -> Seq(SUBSET Op)]
    BY <2>2, <2>3
  <2> QED BY <2>1, <2>4 DEF BucketMaps
<1>6. \A t \in DOMAIN m : OnePart(k, m[t])
  <2> SUFFICES ASSUME NEW t \in DOMAIN m PROVE OnePart(k, m[t])
    OBVIOUS
  <2>1. PICK i \in 1..Len(buckets) : t = buckets[i].at
    <3> HIDE DEF m, D
    <3> QED BY <1>2, <1>4
  <2>2. m[t] = buckets[i].parts
    <3> HIDE DEF m, D
    <3> QED BY <2>1, <1>4
  <2>3. OnePart(k, buckets[i].parts)
    BY <1>1, <1>2
  <2> HIDE DEF m
  <2> QED BY <2>2, <2>3
<1>7. MapParts(m) = ListParts(buckets)
  <2>1. {m[t] : t \in D} = {buckets[i].parts : i \in 1..Len(buckets)}
    <3> HIDE DEF m
    <3>1. ASSUME NEW i \in 1..Len(buckets) PROVE buckets[i].at \in D /\ m[buckets[i].at] = buckets[i].parts
      BY <1>2, <1>4
    <3>2. ASSUME NEW t \in D PROVE \E i \in 1..Len(buckets) : t = buckets[i].at
      BY <1>2
    <3> HIDE DEF D
    <3> QED BY <3>1, <3>2
  <2>2. ListParts(buckets) = UNION {UNION ToSet(q) : q \in {buckets[i].parts : i \in 1..Len(buckets)}}
    <3>1. ToSet(buckets) = {buckets[i] : i \in 1..Len(buckets)}
      BY <1>2 DEF ToSet
    <3>2. {UNION ToSet(b.parts) : b \in ToSet(buckets)} =
             {UNION ToSet(q) : q \in {buckets[i].parts : i \in 1..Len(buckets)}}
      BY <3>1
    <3> QED BY <3>2 DEF ListParts
  <2>3. MapParts(m) = UNION {UNION ToSet(q) : q \in {m[t] : t \in D}}
    BY <1>4 DEF MapParts
  <2> QED BY <2>1, <2>2, <2>3
<1> QED BY <1>5, <1>6, <1>7

(* A map of buckets, listed by second. *)
ListOf(f) ==
    [i \in DOMAIN SortedTimes(DOMAIN f) |->
        [at |-> SortedTimes(DOMAIN f)[i], parts |-> f[SortedTimes(DOMAIN f)[i]]]]

(* Listing a map of buckets by second gives what the map holds. *)
LEMMA ListOfMap ==
    ASSUME NEW k, NEW f \in BucketMaps, \A t \in DOMAIN f : OnePart(k, f[t])
    PROVE  BucketList(k, ListOf(f)) /\ ListParts(ListOf(f)) = MapParts(f)
<1> DEFINE D == DOMAIN f
           q == SortedTimes(D)
           l == ListOf(f)
<1>1. D \in SUBSET WordSet /\ f \in [D -> Seq(SUBSET Op)]
  BY DEF BucketMaps
<1>2. q \in Seq(D) /\ ToSet(q) = D /\ Increasing(q)
  <2> HIDE DEF D
  <2> QED BY <1>1, SortedTimesSorts
<1>3. DOMAIN q = 1..Len(q) /\ Len(q) \in Nat /\ \A i \in 1..Len(q) : q[i] \in D
  <2> HIDE DEF q, D
  <2> QED BY <1>2
<1>4. l = [i \in 1..Len(q) |-> [at |-> q[i], parts |-> f[q[i]]]]
  BY <1>3 DEF ListOf
<1> HIDE DEF l
<1>5. l \in Seq(BucketItem)
  <2>1. \A i \in 1..Len(q) : [at |-> q[i], parts |-> f[q[i]]] \in BucketItem
    <3> HIDE DEF q, D
    <3> QED BY <1>1, <1>3 DEF BucketItem
  <2>2. l \in [1..Len(q) -> BucketItem]
    <3> HIDE DEF q, D
    <3> QED BY <1>4, <2>1
  <2> HIDE DEF q, D
  <2> QED BY <2>2, <1>3
<1>6. Times(l) = q
  <2>1. DOMAIN l = 1..Len(q) /\ \A i \in 1..Len(q) : l[i].at = q[i]
    <3> HIDE DEF q, D
    <3> QED BY <1>4
  <2>2. q = [i \in 1..Len(q) |-> q[i]]
    <3> HIDE DEF q, D
    <3> QED BY <1>2
  <2> HIDE DEF q, D
  <2> QED BY <2>1, <2>2 DEF Times
<1>7. \A i \in DOMAIN l : OnePart(k, l[i].parts)
  <2> HIDE DEF q
  <2> QED BY <1>3, <1>4
<1>8. ListParts(l) = MapParts(f)
  <2>1. D = {q[i] : i \in 1..Len(q)}
    BY <1>2, <1>3 DEF ToSet
  <2>2. ToSet(l) = {[at |-> q[i], parts |-> f[q[i]]] : i \in 1..Len(q)}
    <3> HIDE DEF q, D
    <3> QED BY <1>4 DEF ToSet
  <2>3. ListParts(l) = UNION {UNION ToSet(f[q[i]]) : i \in 1..Len(q)}
    <3> HIDE DEF q, D
    <3>1. {UNION ToSet(b.parts) : b \in ToSet(l)} = {UNION ToSet(f[q[i]]) : i \in 1..Len(q)}
      <4> DEFINE e(i) == [at |-> q[i], parts |-> f[q[i]]]
      <4>1. \A i \in 1..Len(q) : e(i) \in ToSet(l) /\ e(i).parts = f[q[i]]
        BY <2>2
      <4>2. \A b \in ToSet(l) : \E i \in 1..Len(q) : b = e(i)
        BY <2>2
      <4> DEFINE P(x) == UNION ToSet(x)
      <4>3. ASSUME NEW i \in 1..Len(q) PROVE \E b \in ToSet(l) : P(b.parts) = P(f[q[i]])
        <5> HIDE DEF e, P
        <5> QED BY <4>1
      <4>4. ASSUME NEW b \in ToSet(l) PROVE \E i \in 1..Len(q) : P(b.parts) = P(f[q[i]])
        <5> HIDE DEF e, P
        <5> QED BY <4>1, <4>2
      <4>5. {P(b.parts) : b \in ToSet(l)} = {P(f[q[i]]) : i \in 1..Len(q)}
        <5> HIDE DEF P
        <5> QED BY <4>3, <4>4
      <4> QED BY <4>5
    <3> QED BY <3>1 DEF ListParts
  <2>4. {f[t] : t \in D} = {f[q[i]] : i \in 1..Len(q)}
    <3> HIDE DEF q, D
    <3> QED BY <2>1
  <2>5. MapParts(f) = UNION {UNION ToSet(x) : x \in {f[t] : t \in D}}
    BY DEF MapParts
  <2>6. ListParts(l) = UNION {UNION ToSet(x) : x \in {f[q[i]] : i \in 1..Len(q)}}
    <3> HIDE DEF q, D
    <3> QED BY <2>3
  <2> QED BY <2>4, <2>5, <2>6
<1> QED BY <1>2, <1>5, <1>6, <1>7, <1>8 DEF BucketList, l

(* What the loop of Compact has after each round: nothing kept and the     *)
(* stored buckets, then one operation more.                                *)
CompactPass(k, cutoff, p, pass) ==
    /\ pass[0] = [raw |-> <<>>, buckets |-> MapOf(p.buckets)]
    /\ \A i \in 0..Len(p.raw) : PassOf(k, cutoff, p.raw, MapOf(p.buckets), i, pass[i])
    /\ \A i \in 1..Len(p.raw) : pass[i] = CompactOp(k, cutoff, pass[i - 1], p.raw[i])
    /\ CompactedPending(k, p, cutoff) = [raw     |-> pass[Len(p.raw)].raw,
                                         buckets |-> ListOf(pass[Len(p.raw)].buckets)]

(* The loop has such rounds. *)
LEMMA CompactPasses ==
    ASSUME NEW k, NEW cutoff \in Nat, NEW p, RawList(k, p.raw), BucketList(k, p.buckets)
    PROVE  \E pass : CompactPass(k, cutoff, p, pass)
<1> DEFINE ops == p.raw
           n == Len(p.raw)
           before == MapOf(p.buckets)
           start == [raw |-> <<>>, buckets |-> before]
           A == {a \in Accs : \A t \in DOMAIN a.buckets : OnePart(k, a.buckets[t])}
           step == [i \in 1..n |-> [a \in A |-> CompactOp(k, cutoff, a, p.raw[i])]]
           pass[i \in 0..Len(p.raw)] ==
               IF i = 0 THEN [raw |-> <<>>, buckets |-> before]
               ELSE CompactOp(k, cutoff, pass[i - 1], p.raw[i])
           c == CompactedPending(k, p, cutoff)
<1>1. /\ ops \in Seq(Op) /\ Distinct(ops) /\ Nondecreasing(Times(ops))
      /\ k = "sample" => Increasing(Times(ops))
      /\ n \in Nat /\ DOMAIN ops = 1..n /\ \A i \in 1..n : ops[i] \in Op
  BY DEF RawList
<1>2. /\ before \in BucketMaps /\ MapParts(before) = ListParts(p.buckets)
      /\ \A t \in DOMAIN before : OnePart(k, before[t])
  BY MapOfBuckets
<1> HIDE DEF before
<1>3. start \in A
  <2>1. <<>> \in Seq(Op)
    OBVIOUS
  <2> QED BY <1>2, <2>1 DEF Accs
<1>4. ASSUME NEW i \in 1..n, NEW a \in A PROVE CompactOp(k, cutoff, a, p.raw[i]) \in A
  <2>1. a.raw \in Seq(Op) /\ a.buckets \in BucketMaps /\ a = [raw |-> a.raw, buckets |-> a.buckets]
    BY DEF Accs
  <2>2. p.raw[i] \in Op
    BY <1>1
  <2> DEFINE op == p.raw[i]
  <2>3. CASE op.at >= cutoff
    <3>1. Append(a.raw, op) \in Seq(Op)
      BY <2>1, <2>2, AppendProperties
    <3>2. CompactOp(k, cutoff, a, op) = [raw |-> Append(a.raw, op), buckets |-> a.buckets]
      BY <2>1, <2>3 DEF CompactOp
    <3> DEFINE x == Append(a.raw, op)
    <3> HIDE DEF x
    <3>3. [raw |-> x, buckets |-> a.buckets] \in A
      BY <2>1, <3>1 DEF Accs, x
    <3> QED BY <3>2, <3>3 DEF x
  <2>4. CASE ~(op.at >= cutoff)
    <3>1. /\ FoldOp(k, a.buckets, op) \in BucketMaps
          /\ \A t \in DOMAIN FoldOp(k, a.buckets, op) : OnePart(k, FoldOp(k, a.buckets, op)[t])
      BY <2>1, <2>2, FoldOpAdds
    <3>2. CompactOp(k, cutoff, a, op) = [raw |-> a.raw, buckets |-> FoldOp(k, a.buckets, op)]
      BY <2>1, <2>4 DEF CompactOp
    <3> QED BY <2>1, <3>1, <3>2 DEF Accs
  <2> QED BY <2>3, <2>4
<1>5. PICK g \in [0..n -> A] : g[0] = start /\ \A i \in 1..n : g[i] = CompactOp(k, cutoff, g[i - 1], p.raw[i])
  <2>1. step \in Steps(A, n)
    <3> HIDE DEF A, n
    <3> QED BY <1>4 DEF Steps
  <2>2. Solutions(A, n, start, step) # {}
    <3> HIDE DEF step, n, A, start
    <3> QED BY <1>1, <1>3, <2>1, Recursion
  <2>3. PICK g \in [0..n -> A] : g[0] = start /\ \A i \in 1..n : g[i] = step[i][g[i - 1]]
    <3> HIDE DEF step, n, A, start
    <3> QED BY <2>2 DEF Solutions
  <2>4. \A i \in 1..n : g[i - 1] \in A
    <3> HIDE DEF A
    <3>1. \A i \in 1..n : i - 1 \in 0..n
      BY <1>1
    <3> QED BY <2>3, <3>1
  <2>5. \A i \in 1..n : g[i] = CompactOp(k, cutoff, g[i - 1], p.raw[i])
    <3> HIDE DEF A, n
    <3> QED BY <2>3, <2>4
  <2> QED BY <2>3, <2>5
<1>6. g = [i \in 0..Len(p.raw) |->
             IF i = 0 THEN [raw |-> <<>>, buckets |-> before]
             ELSE CompactOp(k, cutoff, g[i - 1], p.raw[i])]
  <2>1. \A i \in 0..n : i # 0 => i \in 1..n
    BY <1>1
  <2> HIDE DEF A
  <2> QED BY <1>5, <2>1
<1>7. pass = [i \in 0..Len(p.raw) |->
                IF i = 0 THEN [raw |-> <<>>, buckets |-> before]
                ELSE CompactOp(k, cutoff, pass[i - 1], p.raw[i])]
  BY <1>6 DEF pass
<1> HIDE DEF pass, A
<1> DEFINE K == {i \in 0..n : PassOf(k, cutoff, ops, before, i, pass[i])}
<1>8. 0 \in K
  <2>1. pass[0] = start /\ 0 \in 0..n
    BY <1>1, <1>7
  <2>2. /\ start \in Accs /\ start.raw = <<>> /\ start.buckets = before
    BY <1>3 DEF A
  <2>3. /\ DOMAIN <<>> = {} /\ Len(<<>>) = 0 /\ Len(Times(<<>>)) = 0
    BY DEF Times
  <2>4. Distinct(<<>>) /\ Nondecreasing(Times(<<>>)) /\ Increasing(Times(<<>>)) /\ ToSet(<<>>) = {}
    BY <2>3 DEF Distinct, Nondecreasing, Increasing, ToSet
  <2>5. {ops[i] : i \in 1..0} = {}
    OBVIOUS
  <2> HIDE DEF start
  <2>6. PassOf(k, cutoff, ops, before, 0, start)
    BY <1>2, <2>2, <2>4, <2>5 DEF PassOf
  <2> HIDE DEF ops, n
  <2> QED BY <2>1, <2>6
<1>9. \A i \in 0..(n - 1) : i \in K => i + 1 \in K
  <2> SUFFICES ASSUME NEW i \in 0..(n - 1), i \in K PROVE i + 1 \in K
    OBVIOUS
  <2>1. i + 1 \in 0..n /\ i + 1 # 0 /\ (i + 1) - 1 = i
    BY <1>1
  <2>2. pass[i + 1] = CompactOp(k, cutoff, pass[i], ops[i + 1])
    BY <1>7, <2>1
  <2>3. PassOf(k, cutoff, ops, before, i, pass[i])
    OBVIOUS
  <2>4. i \in 0..(Len(ops) - 1)
    OBVIOUS
  <2>5. PassOf(k, cutoff, ops, before, i + 1, CompactOp(k, cutoff, pass[i], ops[i + 1]))
    <3> DEFINE a == pass[i]
    <3> HIDE DEF ops, a, n
    <3> QED BY <1>1, <2>3, <2>4, PassStep DEF a
  <2> HIDE DEF ops, n
  <2> QED BY <2>1, <2>2, <2>5
<1>10. \A i \in 0..n : PassOf(k, cutoff, ops, before, i, pass[i])
  <2>1. n \in Nat
    BY <1>1
  <2>2. \A i \in 0..n : i \in K
    <3> HIDE DEF K, n
    <3> QED BY <1>8, <1>9, <2>1, UpTo
  <2> QED BY <2>2
<1>11. c = [raw |-> pass[n].raw, buckets |-> ListOf(pass[n].buckets)]
  BY DEF CompactedPending, pass, before, MapOf, ListOf
<1>12. pass[0] = [raw |-> <<>>, buckets |-> before]
  BY <1>1, <1>7
<1>13. \A i \in 1..n : pass[i] = CompactOp(k, cutoff, pass[i - 1], p.raw[i])
  <2>1. \A i \in 1..n : i \in 0..n /\ i # 0
    BY <1>1
  <2> QED BY <1>7, <2>1
<1>14. CompactPass(k, cutoff, p, pass)
  <2>1. CompactedPending(k, p, cutoff) = [raw |-> pass[Len(p.raw)].raw, buckets |-> ListOf(pass[Len(p.raw)].buckets)]
    BY <1>11
  <2> HIDE DEF c
  <2> QED BY <1>10, <1>12, <1>13, <2>1 DEF CompactPass, before
<1> QED BY <1>14

(* Compact of the three kinds, for every list of operations and buckets:   *)
(* an operation before the cutoff goes to a bucket, any other stays, and   *)
(* nothing else changes.                                                   *)
LEMMA CompactMovesOps ==
    ASSUME NEW k, NEW cutoff \in Nat, NEW p, RawList(k, p.raw), BucketList(k, p.buckets)
    PROVE  LET c == CompactedPending(k, p, cutoff)
           IN  /\ RawList(k, c.raw) /\ BucketList(k, c.buckets)
               /\ ToSet(c.raw) = {o \in ToSet(p.raw) : o.at >= cutoff}
               /\ ListParts(c.buckets) =
                     ListParts(p.buckets) \cup {o \in ToSet(p.raw) : o.at < cutoff}
<1> DEFINE ops == p.raw
           n == Len(p.raw)
           before == MapOf(p.buckets)
           c == CompactedPending(k, p, cutoff)
<1>1. ops \in Seq(Op) /\ n \in Nat /\ DOMAIN ops = 1..n
  BY DEF RawList
<1>2. MapParts(before) = ListParts(p.buckets)
  BY MapOfBuckets
<1>3. PICK pass : CompactPass(k, cutoff, p, pass)
  BY CompactPasses
<1>10. PassOf(k, cutoff, ops, before, n, pass[n])
  <2>1. n \in 0..n
    BY <1>1
  <2> QED BY <1>3, <2>1 DEF CompactPass
<1>11. c = [raw |-> pass[n].raw, buckets |-> ListOf(pass[n].buckets)]
  BY <1>3 DEF CompactPass
<1> DEFINE done == pass[n]
<1>12. {ops[i] : i \in 1..n} = ToSet(ops)
  BY <1>1 DEF ToSet
<1> HIDE DEF done, n, ops, before
<1>13. /\ done \in Accs
       /\ ToSet(done.raw) = {o \in ToSet(ops) : o.at >= cutoff}
       /\ MapParts(done.buckets) = MapParts(before) \cup {o \in ToSet(ops) : o.at < cutoff}
       /\ \A t \in DOMAIN done.buckets : OnePart(k, done.buckets[t])
       /\ Distinct(done.raw) /\ Nondecreasing(Times(done.raw))
       /\ k = "sample" => Increasing(Times(done.raw))
  BY <1>10, <1>12 DEF PassOf, done
<1>14. done.raw \in Seq(Op) /\ done.buckets \in BucketMaps
  BY <1>13 DEF Accs
<1>15. BucketList(k, ListOf(done.buckets)) /\ ListParts(ListOf(done.buckets)) = MapParts(done.buckets)
  BY <1>13, <1>14, ListOfMap
<1>16. c.raw = done.raw /\ c.buckets = ListOf(done.buckets)
  BY <1>11 DEF done
<1>17. RawList(k, done.raw)
  BY <1>13, <1>14 DEF RawList
<1> HIDE DEF c
<1>18. /\ RawList(k, c.raw) /\ BucketList(k, c.buckets)
       /\ ToSet(c.raw) = {o \in ToSet(p.raw) : o.at >= cutoff}
       /\ ListParts(c.buckets) = ListParts(p.buckets) \cup {o \in ToSet(p.raw) : o.at < cutoff}
  BY <1>2, <1>13, <1>15, <1>16, <1>17 DEF ops
<1> QED BY <1>18 DEF c

-----------------------------------------------------------------------------
(* Merging. *)

(* Every raw point lies at or before the last second of some segment. *)
Covered(s) == \A o \in ToSet(Decoded(s).raw) : \E i \in DOMAIN s : o.at <= s[i].to

(* No two operations of a set have the clock of one another. *)
OwnClocks(ops) == \A o, p \in ops : o.clock = p.clock => o = p

(* The seconds of a list of operations. *)
LEMMA TimesOfOps ==
    ASSUME NEW ops \in Seq(Op)
    PROVE  /\ Times(ops) \in Seq(Nat) /\ Len(Times(ops)) = Len(ops)
           /\ DOMAIN ops = 1..Len(ops) /\ Len(ops) \in Nat
           /\ \A i \in 1..Len(ops) :
                 ops[i] \in Op /\ ops[i].at \in Nat /\ Times(ops)[i] = ops[i].at
           /\ ToSet(ops) = {ops[i] : i \in 1..Len(ops)}
           /\ ToSet(ops) \in SUBSET Op
<1>1. DOMAIN ops = 1..Len(ops) /\ Len(ops) \in Nat /\ \A i \in 1..Len(ops) : ops[i] \in Op
  OBVIOUS
<1>2. \A o \in Op : o.at \in Nat
  BY TimeAssumption DEF Op
<1>3. Times(ops) \in [1..Len(ops) -> Nat] /\ \A i \in 1..Len(ops) : Times(ops)[i] = ops[i].at
  BY <1>1, <1>2 DEF Times
<1>4. Times(ops) \in Seq(Nat) /\ Len(Times(ops)) = Len(ops)
  BY <1>1, <1>3
<1>5. ToSet(ops) = {ops[i] : i \in 1..Len(ops)}
  BY <1>1 DEF ToSet
<1> QED BY <1>1, <1>2, <1>3, <1>4, <1>5

(* What is put together is what was in either part. *)
LEMMA ToSetConcat ==
    ASSUME NEW A, NEW x \in Seq(A), NEW y \in Seq(A)
    PROVE  ToSet(x \o y) = ToSet(x) \cup ToSet(y)
<1> DEFINE z == x \o y
<1>1. /\ Len(x) \in Nat /\ Len(y) \in Nat /\ DOMAIN x = 1..Len(x) /\ DOMAIN y = 1..Len(y)
      /\ z \in Seq(A) /\ DOMAIN z = 1..(Len(x) + Len(y))
      /\ \A i \in 1..(Len(x) + Len(y)) : z[i] = IF i <= Len(x) THEN x[i] ELSE y[i - Len(x)]
  BY ConcatProperties
<1> HIDE DEF z
<1>2. ASSUME NEW e, e \in ToSet(z) PROVE e \in ToSet(x) \cup ToSet(y)
  <2>1. PICK i \in 1..(Len(x) + Len(y)) : e = z[i]
    BY <1>1, <1>2 DEF ToSet
  <2>2. CASE i <= Len(x)
    <3>1. i \in DOMAIN x /\ e = x[i]
      BY <1>1, <2>1, <2>2
    <3> QED BY <3>1 DEF ToSet
  <2>3. CASE ~(i <= Len(x))
    <3>1. i - Len(x) \in DOMAIN y /\ e = y[i - Len(x)]
      BY <1>1, <2>1, <2>3
    <3> QED BY <3>1 DEF ToSet
  <2> QED BY <2>2, <2>3
<1>3. ASSUME NEW e, e \in ToSet(x) \cup ToSet(y) PROVE e \in ToSet(z)
  <2>1. CASE e \in ToSet(x)
    <3>1. PICK i \in 1..Len(x) : e = x[i]
      BY <1>1, <2>1 DEF ToSet
    <3>2. i \in DOMAIN z /\ z[i] = e
      BY <1>1, <3>1
    <3> QED BY <3>2 DEF ToSet
  <2>2. CASE e \in ToSet(y)
    <3>1. PICK i \in 1..Len(y) : e = y[i]
      BY <1>1, <2>2 DEF ToSet
    <3> DEFINE j == i + Len(x)
    <3>2. j \in 1..(Len(x) + Len(y)) /\ ~(j <= Len(x)) /\ j - Len(x) = i
      BY <1>1
    <3>3. z[j] = y[j - Len(x)]
      <4> HIDE DEF j
      <4> QED BY <1>1, <3>2
    <3>4. z[j] = e /\ j \in DOMAIN z
      <4> HIDE DEF j
      <4> QED BY <1>1, <3>1, <3>2, <3>3
    <3> QED BY <3>4 DEF ToSet
  <2> QED BY <1>3, <2>1, <2>2
<1> QED BY <1>2, <1>3 DEF z

(* The segments written for a list span it, and the ones before stay.      *)
LEMMA CoveredAppend ==
    ASSUME NEW k, NEW s \in Seq(Encoded), Covered(s), NEW p,
           RawList(k, p.raw), p.buckets \in Seq(BucketItem)
    PROVE  Covered(AppendTo(s, p))
<1> DEFINE t == AppendTo(s, p)
           old == Decoded(s).raw
<1>1. /\ t \in Seq(Encoded)
      /\ Decoded(t).raw = old \o p.raw
      /\ p.raw # <<>> => t # <<>> /\ Last(t).to = Last(p.raw).at
      /\ Len(t) >= Len(s)
      /\ \A i \in 1..Len(s) : t[i] = s[i]
  <2>1. p.raw \in Seq(Op)
    BY DEF RawList
  <2>2. /\ t \in Seq(Encoded)
        /\ Decoded(t) = [raw     |-> old \o p.raw,
                         buckets |-> Decoded(s).buckets \o p.buckets]
        /\ p.raw # <<>> => t # <<>> /\ Last(t).to = Last(p.raw).at
        /\ Len(t) >= Len(s)
        /\ \A i \in 1..Len(s) : t[i] = s[i]
    BY <2>1, DecodedAppend
  <2>3. Decoded(t).raw = old \o p.raw
    <3> DEFINE u == old \o p.raw
               v == Decoded(s).buckets \o p.buckets
    <3>1. Decoded(t) = [raw |-> u, buckets |-> v]
      BY <2>2
    <3> HIDE DEF t, u, v
    <3>2. Decoded(t).raw = u
      BY <3>1
    <3> QED BY <3>2 DEF u
  <2> QED BY <2>2, <2>3
<1>2. p.raw \in Seq(Op) /\ Nondecreasing(Times(p.raw)) /\ old \in Seq(Op)
  BY DecodedConcat DEF RawList
<1>3. ToSet(Decoded(t).raw) = ToSet(old) \cup ToSet(p.raw)
  BY <1>1, <1>2, ToSetConcat
<1>4. DOMAIN s = 1..Len(s) /\ DOMAIN t = 1..Len(t) /\ Len(s) \in Nat /\ Len(t) \in Nat
  BY <1>1
<1> HIDE DEF t, old
<1>5. ASSUME NEW o \in ToSet(old) PROVE \E i \in DOMAIN t : o.at <= t[i].to
  <2>1. PICK i \in DOMAIN s : o.at <= s[i].to
    BY DEF Covered, old
  <2>2. i \in DOMAIN t /\ t[i] = s[i]
    BY <1>1, <1>4
  <2> QED BY <2>1, <2>2
<1>6. ASSUME NEW o \in ToSet(p.raw) PROVE \E i \in DOMAIN t : o.at <= t[i].to
  <2> DEFINE q == p.raw
             m == Len(p.raw)
  <2>1. /\ Times(q) \in Seq(Nat) /\ Len(Times(q)) = m /\ DOMAIN q = 1..m /\ m \in Nat
        /\ \A i \in 1..m : Times(q)[i] = q[i].at
    BY <1>2, TimesOfOps
  <2>2. PICK i \in 1..m : o = q[i]
    BY <2>1 DEF ToSet
  <2>3. m \in 1..m /\ i <= m
    BY <2>1
  <2>4. q[i].at <= q[m].at
    <3>1. Times(q)[i] <= Times(q)[m]
      BY <1>2, <2>1, <2>3, NondecreasingPairs
    <3> QED BY <2>1, <2>3, <3>1
  <2>5. p.raw # <<>> /\ Last(p.raw) = q[m]
    BY <2>1, <2>3, EmptySeq DEF Last
  <2>6. t # <<>> /\ Last(t).to = q[m].at
    BY <1>1, <2>5
  <2>7. Len(t) \in DOMAIN t /\ Last(t) = t[Len(t)]
    BY <1>1, <1>4, <2>6, EmptySeq DEF Last
  <2> HIDE DEF q, m
  <2> QED BY <2>2, <2>4, <2>6, <2>7
<1> QED BY <1>3, <1>5, <1>6 DEF Covered, t

KnownKinds == {"sample", "counter", "sketch"}

(* pending.Merge by kind; it never adds what is in neither argument. *)
LEMMA MergedOpsAre ==
    ASSUME NEW k \in KnownKinds, NEW ops \in SUBSET Op, NEW delta \in SUBSET Op
    PROVE  /\ MergedOps(k, ops, delta) \subseteq ops \cup delta
           /\ k = "sample" => MergedOps(k, ops, delta) = MergeSamples(ops, delta)
           /\ k = "counter" => MergedOps(k, ops, delta) = MergeCounters(ops, delta)
           /\ k = "sketch" => MergedOps(k, ops, delta) = MergeSketches(ops, delta)
BY DEF KnownKinds, MergedOps, MergeSamples, MergeCounters, MergeSketches

(* Of two operations with clocks of their own one is newer. *)
LEMMA OneNewer ==
    ASSUME NEW o \in Op, NEW p \in Op
    PROVE  /\ o.clock # p.clock => Newer(o, p) \/ Newer(p, o)
           /\ ~(Newer(o, p) /\ Newer(p, o))
           /\ Newer(o, p) => o.clock >= p.clock
<1>1. o.clock \in Nat /\ p.clock \in Nat /\ o.replica \in Nat /\ p.replica \in Nat
  <2>1. \A c \in 1..MaxClock : c \in Nat
    BY MaxClockAssumption
  <2>2. \A q \in Op : q.clock \in 1..MaxClock /\ q.replica \in Replica
    BY DEF Op
  <2>3. \A q \in Op : q.clock \in Nat /\ q.replica \in Nat
    BY <2>1, <2>2, ReplicaAssumption
  <2> QED BY <2>3
<1> QED BY <1>1 DEF Newer

(* A list of distinct operations as long as their set. *)
LEMMA LengthOfDistinct ==
    ASSUME NEW A, NEW q \in Seq(A), Distinct(q)
    PROVE  IsFiniteSet(ToSet(q)) /\ Cardinality(ToSet(q)) = Len(q)
<1>1. Len(q) \in Nat /\ DOMAIN q = 1..Len(q) /\ q \in [1..Len(q) -> ToSet(q)]
  BY DEF ToSet
<1>2. q \in Surjection(1..Len(q), ToSet(q))
  BY <1>1 DEF Surjection, ToSet
<1>3. q \in Injection(1..Len(q), ToSet(q))
  BY <1>1 DEF Injection, IsInjective, Distinct
<1>4. IsFiniteSet(1..Len(q)) /\ Cardinality(1..Len(q)) = Len(q)
  BY <1>1, FS_Interval
<1> QED BY <1>2, <1>3, <1>4, FS_Surjection

(* A list has finitely many elements. *)
LEMMA ListIsFinite ==
    ASSUME NEW ops \in Seq(Op)
    PROVE  ToSet(ops) \in SUBSET Op /\ IsFiniteSet(ToSet(ops))
<1> DEFINE d == ToSet(ops)
<1>1. Len(ops) \in Nat /\ ops \in Surjection(1..Len(ops), d)
  <2>1. Len(ops) \in Nat /\ DOMAIN ops = 1..Len(ops) /\ d = {ops[i] : i \in 1..Len(ops)}
    BY TimesOfOps
  <2>2. ops \in [1..Len(ops) -> d]
    BY <2>1
  <2> HIDE DEF d
  <2> QED BY <2>1, <2>2 DEF Surjection
<1>2. IsFiniteSet(1..Len(ops))
  BY <1>1, FS_Interval
<1>3. IsFiniteSet(d)
  <2> HIDE DEF d
  <2> QED BY <1>1, <1>2, FS_Surjection
<1> QED BY <1>3, TimesOfOps

(* A merge that decodes: any listing of the merged operations in time      *)
(* order, behind the buckets.                                              *)
LEMMA MergeByDecoding ==
    ASSUME NEW k \in KnownKinds, NEW s \in Seq(Encoded),
           RawList(k, Decoded(s).raw), BucketList(k, Decoded(s).buckets),
           NEW delta \in Seq(Op), OwnClocks(ToSet(Decoded(s).raw) \cup ToSet(delta)),
           NEW p \in MergedPendings(k, Decoded(s), delta)
    PROVE  LET t == AppendTo(<<>>, p)
           IN  /\ t \in Seq(Encoded) /\ Covered(t)
               /\ RawList(k, Decoded(t).raw)
               /\ Decoded(t).buckets = Decoded(s).buckets
               /\ ToSet(Decoded(t).raw) = MergedOps(k, ToSet(Decoded(s).raw), ToSet(delta))
<1> DEFINE r == ToSet(Decoded(s).raw)
           d == ToSet(delta)
           M == MergedOps(k, r, d)
           t == AppendTo(<<>>, p)
<1>1. PICK q \in InTimeOrder(M) : p = [raw |-> q, buckets |-> Decoded(s).buckets]
  BY DEF MergedPendings
<1>2. /\ r \in SUBSET Op /\ d \in SUBSET Op /\ IsFiniteSet(r) /\ IsFiniteSet(d)
  BY ListIsFinite DEF RawList
<1> HIDE DEF r, d
<1>3. M \subseteq r \cup d /\ IsFiniteSet(M) /\ M \in SUBSET Op
  <2>1. M \subseteq r \cup d
    BY <1>2, MergedOpsAre
  <2>2. IsFiniteSet(r \cup d)
    BY <1>2, FS_Union
  <2> HIDE DEF M
  <2>3. IsFiniteSet(M)
    BY <2>1, <2>2, FS_Subset
  <2> QED BY <2>1, <2>3, <1>2
<1>4. q \in SetToSeqs(M) /\ Nondecreasing(Times(q))
  BY DEF InTimeOrder
<1>5. q \in Seq(M) /\ ToSet(q) = M /\ Distinct(q)
  <2> HIDE DEF M
  <2> QED BY <1>3, <1>4, ListingOfSet
<1>6. q \in Seq(Op)
  <2> HIDE DEF M
  <2> QED BY <1>3, <1>5, SeqMonotonic
<1>7. ASSUME k = "sample" PROVE Increasing(Times(q))
  <2>1. /\ Times(q) \in Seq(Nat) /\ Len(Times(q)) = Len(q) /\ DOMAIN q = 1..Len(q) /\ Len(q) \in Nat
        /\ \A i \in 1..Len(q) : q[i] \in Op /\ q[i].at \in Nat /\ Times(q)[i] = q[i].at
    BY <1>6, TimesOfOps
  <2> SUFFICES ASSUME NEW i \in 2..Len(q) PROVE Times(q)[i] > Times(q)[i - 1]
    BY <2>1 DEF Increasing
  <2> DEFINE a == q[i - 1]
             b == q[i]
  <2>2. i \in 1..Len(q) /\ i - 1 \in 1..Len(q) /\ i # i - 1
    BY <2>1
  <2>3. Times(q)[i] >= Times(q)[i - 1] /\ Times(q)[i] = b.at /\ Times(q)[i - 1] = a.at
        /\ a.at \in Nat /\ b.at \in Nat
    BY <1>4, <2>1, <2>2 DEF Nondecreasing
  <2>4. a # b /\ a \in M /\ b \in M /\ a \in Op /\ b \in Op
    <3>1. a # b
      BY <1>5, <2>1, <2>2 DEF Distinct
    <3>2. a \in ToSet(q) /\ b \in ToSet(q)
      BY <2>1, <2>2 DEF ToSet
    <3> HIDE DEF M
    <3> QED BY <3>1, <3>2, <1>3, <1>5
  <2>5. M = MergeSamples(r, d)
    BY <1>2, <1>7, MergedOpsAre
  <2>6. a.clock # b.clock
    BY <2>4, <1>3 DEF OwnClocks, r, d
  <2>7. a.at # b.at
    <3> SUFFICES ASSUME a.at = b.at PROVE FALSE
      OBVIOUS
    <3>1. Newer(a, b) \/ Newer(b, a)
      BY <2>4, <2>6, OneNewer
    <3>2. a \in r \cup d /\ b \in r \cup d
      BY <2>4, <1>3
    <3> HIDE DEF M, a, b
    <3> QED BY <2>4, <2>5, <3>1, <3>2 DEF MergeSamples
  <2> HIDE DEF a, b
  <2> QED BY <2>3, <2>7
<1>8. RawList(k, q)
  BY <1>4, <1>5, <1>6, <1>7 DEF RawList
<1>9. p.raw = q /\ p.buckets = Decoded(s).buckets /\ p.buckets \in Seq(BucketItem)
  BY <1>1 DEF BucketList
<1>10. <<>> \in Seq(Encoded) /\ Decoded(<<>>).raw = <<>> /\ Decoded(<<>>).buckets = <<>>
  BY DecodedNothing
<1>11. /\ t \in Seq(Encoded)
       /\ Decoded(t) = [raw |-> <<>> \o q, buckets |-> <<>> \o p.buckets]
  <2>1. p.raw \in Seq(Op) /\ p.buckets \in Seq(BucketItem)
    BY <1>6, <1>9
  <2>2. /\ t \in Seq(Encoded)
        /\ Decoded(t) = [raw     |-> Decoded(<<>>).raw \o p.raw,
                         buckets |-> Decoded(<<>>).buckets \o p.buckets]
    BY <2>1, <1>10, DecodedAppend
  <2> QED BY <2>2, <1>9, <1>10, Zenon
<1>12. <<>> \o q = q /\ <<>> \o p.buckets = p.buckets
  BY <1>6, <1>9, ConcatEmptySeq
<1>13. Decoded(t).raw = q /\ Decoded(t).buckets = p.buckets
  BY <1>11, <1>12
<1>14. Covered(t)
  <2>1. Covered(<<>>)
    BY <1>10 DEF Covered, ToSet
  <2> QED BY <2>1, <1>8, <1>9, <1>10, CoveredAppend
<1> HIDE DEF t, M
<1>15. /\ t \in Seq(Encoded) /\ Covered(t)
       /\ RawList(k, Decoded(t).raw)
       /\ Decoded(t).buckets = Decoded(s).buckets
       /\ ToSet(Decoded(t).raw) = M
  BY <1>5, <1>8, <1>9, <1>11, <1>13, <1>14
<1> QED BY <1>15 DEF t, M, r, d

(* The last second of a segment is a word. *)
LEMMA EndsAreWords ==
    ASSUME NEW seg \in Encoded
    PROVE  seg.to \in Nat
<1>1. ASSUME NEW c \in ChunksOver(Op), seg = Segment(c, FALSE) PROVE seg.to \in Nat
  <2>1. c \in Seq(Op) /\ Len(c) \in 1..SegmentSize
    BY DEF ChunksOver
  <2>2. Len(c) \in 1..Len(c)
    BY <2>1, SegmentsAssumption
  <2>3. c[Len(c)].at \in Nat
    BY <2>1, <2>2, TimesOfOps
  <2>4. Segment(c, FALSE).to = c[Len(c)].at
    BY <1>1, SegmentDecodes
  <2> QED BY <1>1, <2>3, <2>4, Zenon
<1>2. ASSUME NEW c \in ChunksOver(BucketItem), seg = Segment(c, TRUE) PROVE seg.to \in Nat
  <2>1. c \in Seq(BucketItem) /\ Len(c) \in 1..SegmentSize
    BY DEF ChunksOver
  <2>2. Len(c) \in 1..Len(c)
    BY <2>1, SegmentsAssumption
  <2>3. c[Len(c)].at \in Nat
    <3>1. c[Len(c)].at \in WordSet
      BY <2>1, <2>2, TimesOfBuckets
    <3> QED BY <3>1, SegmentsAssumption DEF WordSet
  <2>4. Segment(c, TRUE).to = c[Len(c)].at
    BY <1>2, SegmentDecodes
  <2> QED BY <1>2, <2>3, <2>4, Zenon
<1> QED BY <1>1, <1>2 DEF Encoded

(* A block that is appended without decoding: what it adds is what a merge *)
(* would have given.                                                       *)
LEMMA MergeByAppending ==
    ASSUME NEW k \in KnownKinds, NEW s \in Seq(Encoded),
           RawList(k, Decoded(s).raw), BucketList(k, Decoded(s).buckets), Covered(s),
           NEW delta \in Seq(Op), Distinct(delta),
           OwnClocks(ToSet(Decoded(s).raw) \cup ToSet(delta)),
           Appendable(k, delta), s = <<>> \/ CanAppend(s, delta)
    PROVE  LET t == AppendTo(s, [raw |-> delta, buckets |-> <<>>])
           IN  /\ t \in Seq(Encoded) /\ Covered(t)
               /\ RawList(k, Decoded(t).raw)
               /\ Decoded(t).buckets = Decoded(s).buckets
               /\ ToSet(Decoded(t).raw) = MergedOps(k, ToSet(Decoded(s).raw), ToSet(delta))
<1> DEFINE old == Decoded(s).raw
           r == ToSet(old)
           d == ToSet(delta)
           p == [raw |-> delta, buckets |-> <<>>]
           t == AppendTo(s, p)
           all == old \o delta
<1>1. /\ old \in Seq(Op) /\ Distinct(old) /\ Nondecreasing(Times(old))
      /\ k = "sample" => Increasing(Times(old))
  BY DEF RawList
<1>2. /\ Times(old) \in Seq(Nat) /\ Len(Times(old)) = Len(old) /\ DOMAIN old = 1..Len(old)
      /\ Len(old) \in Nat /\ r \in SUBSET Op
      /\ \A i \in 1..Len(old) : old[i] \in Op /\ old[i].at \in Nat /\ Times(old)[i] = old[i].at
  BY <1>1, TimesOfOps
<1>3. /\ Times(delta) \in Seq(Nat) /\ Len(Times(delta)) = Len(delta) /\ DOMAIN delta = 1..Len(delta)
      /\ Len(delta) \in Nat /\ d \in SUBSET Op
      /\ \A i \in 1..Len(delta) : delta[i] \in Op /\ delta[i].at \in Nat /\ Times(delta)[i] = delta[i].at
  BY TimesOfOps
<1>4. Nondecreasing(Times(delta)) /\ (k = "sample" => Increasing(Times(delta)))
  BY <1>3, IncreasingPairs DEF Appendable
<1>5. \A o \in r, e \in d : o.at < e.at
  <2> SUFFICES ASSUME NEW o \in r, NEW e \in d PROVE o.at < e.at
    OBVIOUS
  <2>1. s # <<>>
    <3>1. s = <<>> => old = <<>>
      BY DecodedNothing
    <3>2. s = <<>> => r = {}
      BY <3>1 DEF ToSet
    <3> QED BY <3>2
  <2>2. PICK i \in DOMAIN s : o.at <= s[i].to
    BY DEF Covered
  <2>3. PICK j \in DOMAIN delta : e = delta[j]
    BY DEF ToSet
  <2>4. e.at > s[i].to
    BY <2>1, <2>2, <2>3 DEF CanAppend
  <2>5. o.at \in Nat /\ e.at \in Nat
    BY <1>2, <1>3, TimeAssumption DEF Op
  <2>6. s[i].to \in Nat
    <3>1. s[i] \in Encoded
      OBVIOUS
    <3> QED BY <3>1, EndsAreWords
  <2> QED BY <2>2, <2>4, <2>5, <2>6
<1>6. /\ all \in Seq(Op) /\ Len(all) = Len(old) + Len(delta)
      /\ \A i \in 1..(Len(old) + Len(delta)) :
            all[i] = IF i <= Len(old) THEN old[i] ELSE delta[i - Len(old)]
      /\ ToSet(all) = r \cup d
  BY <1>1, ConcatProperties, ToSetConcat
<1>7. /\ \A i \in 1..Len(old) : all[i] = old[i] /\ all[i] \in r
      /\ \A i \in (Len(old) + 1)..Len(all) :
            i - Len(old) \in 1..Len(delta) /\ all[i] = delta[i - Len(old)] /\ all[i] \in d
  <2>1. ASSUME NEW i \in 1..Len(old) PROVE all[i] = old[i] /\ all[i] \in r
    <3>1. all[i] = old[i]
      <4>1. i \in 1..(Len(old) + Len(delta)) /\ i <= Len(old)
        BY <1>2, <1>3
      <4> HIDE DEF all
      <4>2. all[i] = IF i <= Len(old) THEN old[i] ELSE delta[i - Len(old)]
        BY <1>6, <4>1, Zenon
      <4> QED BY <4>1, <4>2
    <3>2. old[i] \in r
      BY <1>2 DEF ToSet
    <3> HIDE DEF all, r
    <3> QED BY <3>1, <3>2
  <2>2. ASSUME NEW i \in (Len(old) + 1)..Len(all)
        PROVE  i - Len(old) \in 1..Len(delta) /\ all[i] = delta[i - Len(old)] /\ all[i] \in d
    <3> DEFINE j == i - Len(old)
    <3>1. j \in 1..Len(delta) /\ all[i] = delta[j]
      <4>1. i \in 1..(Len(old) + Len(delta)) /\ ~(i <= Len(old)) /\ j \in 1..Len(delta)
        BY <1>2, <1>3, <1>6
      <4> HIDE DEF all
      <4> QED BY <1>6, <4>1
    <3>2. delta[j] \in d
      <4> HIDE DEF j
      <4> QED BY <1>3, <3>1 DEF ToSet
    <3> HIDE DEF all, d
    <3> QED BY <3>1, <3>2
  <2> QED BY <2>1, <2>2
<1> HIDE DEF all
<1>8. \A i \in 1..Len(all) : i \in 1..Len(old) \/ i \in (Len(old) + 1)..Len(all)
  BY <1>2, <1>3, <1>6
<1>9. /\ Times(all) \in Seq(Nat) /\ Len(Times(all)) = Len(all) /\ DOMAIN all = 1..Len(all) /\ Len(all) \in Nat
      /\ \A i \in 1..Len(all) : all[i] \in Op /\ all[i].at \in Nat /\ Times(all)[i] = all[i].at
  BY <1>6, TimesOfOps
<1>10. ASSUME NEW i \in 2..Len(all)
       PROVE  all[i].at >= all[i - 1].at /\ (k = "sample" => all[i].at > all[i - 1].at)
  <2>1. i \in 1..Len(all) /\ i - 1 \in 1..Len(all)
    BY <1>9
  <2>2. CASE i \in 1..Len(old)
    <3>1. i \in 2..Len(old) /\ i - 1 \in 1..Len(old)
      BY <2>2, <1>2
    <3>2. old[i].at >= old[i - 1].at /\ (k = "sample" => old[i].at > old[i - 1].at)
      BY <3>1, <2>2, <1>1, <1>2 DEF Nondecreasing, Increasing
    <3> QED BY <3>1, <3>2, <2>2, <1>7
  <2>3. CASE i \in (Len(old) + 1)..Len(all)
    <3> DEFINE j == i - Len(old)
    <3>1. j \in 1..Len(delta) /\ all[i] = delta[j] /\ all[i] \in d
      BY <2>3, <1>7
    <3>2. CASE i - 1 \in 1..Len(old)
      <4>1. all[i - 1] \in r
        BY <3>2, <1>7
      <4>2. all[i - 1].at < all[i].at
        BY <3>1, <4>1, <1>5
      <4>3. all[i - 1].at \in Nat /\ all[i].at \in Nat
        BY <2>1, <1>9
      <4> QED BY <4>2, <4>3
    <3>3. CASE i - 1 \in (Len(old) + 1)..Len(all)
      <4>1. all[i - 1] = delta[j - 1] /\ j \in 2..Len(delta) /\ j - 1 \in 1..Len(delta)
        <5> DEFINE h == i - 1
        <5>1. h - Len(old) = j - 1
          BY <1>2, <1>9
        <5>2. h - Len(old) \in 1..Len(delta) /\ all[h] = delta[h - Len(old)]
          <6> HIDE DEF h
          <6> QED BY <3>3, <1>7 DEF h
        <5>3. j - 1 \in 1..Len(delta) /\ all[h] = delta[j - 1]
          <6> HIDE DEF h, j
          <6> QED BY <5>1, <5>2
        <5>4. j \in 2..Len(delta)
          BY <5>3, <3>1, <1>2, <1>3
        <5> QED BY <5>3, <5>4
      <4>2. delta[j].at >= delta[j - 1].at /\ (k = "sample" => delta[j].at > delta[j - 1].at)
        <5> HIDE DEF j
        <5> QED BY <4>1, <3>1, <1>3, <1>4 DEF Nondecreasing, Increasing
      <4> HIDE DEF j
      <4> QED BY <4>1, <4>2, <3>1
    <3>4. i - 1 \in 1..Len(old) \/ i - 1 \in (Len(old) + 1)..Len(all)
      BY <2>1, <1>8
    <3> HIDE DEF old, r, d, p, t, j
    <3> QED BY <3>2, <3>3, <3>4, SMT
  <2>4. i \in 1..Len(old) \/ i \in (Len(old) + 1)..Len(all)
    BY <2>1, <1>8
  <2> HIDE DEF old, r, d, p, t
  <2> QED BY <2>2, <2>3, <2>4, SMT
<1>11. Nondecreasing(Times(all)) /\ (k = "sample" => Increasing(Times(all)))
  <2>1. \A i \in 2..Len(all) : i \in 1..Len(all) /\ i - 1 \in 1..Len(all)
    BY <1>9
  <2> QED BY <2>1, <1>9, <1>10 DEF Nondecreasing, Increasing
<1>12. ASSUME NEW i \in 1..Len(all), NEW j \in 1..Len(all), i < j PROVE all[i] # all[j]
  <2>1. CASE j \in 1..Len(old)
    <3>1. i \in 1..Len(old) /\ i # j
      BY <2>1, <1>2, <1>12
    <3> QED BY <3>1, <2>1, <1>1, <1>2, <1>7 DEF Distinct
  <2>2. CASE j \in (Len(old) + 1)..Len(all) /\ i \in 1..Len(old)
    <3>1. all[i] \in r /\ all[j] \in d
      BY <2>2, <1>7
    <3>2. all[i].at < all[j].at /\ all[i].at \in Nat
      BY <3>1, <1>5, <1>9
    <3> QED BY <3>2
  <2>3. CASE j \in (Len(old) + 1)..Len(all) /\ i \in (Len(old) + 1)..Len(all)
    <3> DEFINE a == i - Len(old)
               b == j - Len(old)
    <3>1. a \in 1..Len(delta) /\ b \in 1..Len(delta) /\ all[i] = delta[a] /\ all[j] = delta[b]
      BY <2>3, <1>7
    <3>2. a # b
      BY <1>2, <1>12
    <3> HIDE DEF a, b
    <3> QED BY <3>1, <3>2, <1>3 DEF Distinct
  <2>4. CASE j \in (Len(old) + 1)..Len(all)
    <3>1. i \in 1..Len(old) \/ i \in (Len(old) + 1)..Len(all)
      BY <1>8
    <3> HIDE DEF old, r, d, p, t
    <3> QED BY <3>1, <2>2, <2>3, <2>4, Zenon
  <2>5. j \in 1..Len(old) \/ j \in (Len(old) + 1)..Len(all)
    BY <1>8
  <2> HIDE DEF old, r, d, p, t
  <2> QED BY <2>1, <2>4, <2>5, Zenon
<1>13. Distinct(all)
  <2> SUFFICES ASSUME NEW i \in 1..Len(all), NEW j \in 1..Len(all), i # j PROVE all[i] # all[j]
    BY <1>9 DEF Distinct
  <2>1. i < j \/ j < i
    BY <1>9
  <2> QED BY <2>1, <1>12
<1>14. RawList(k, all)
  BY <1>6, <1>11, <1>13 DEF RawList
<1>15. RawList(k, delta) /\ p.raw = delta /\ p.buckets = <<>> /\ <<>> \in Seq(BucketItem)
  BY <1>4 DEF RawList
<1>16. t \in Seq(Encoded) /\ Covered(t)
       /\ Decoded(t) = [raw |-> all, buckets |-> Decoded(s).buckets \o <<>>]
  <2>1. /\ t \in Seq(Encoded)
        /\ Decoded(t) = [raw |-> Decoded(s).raw \o p.raw, buckets |-> Decoded(s).buckets \o p.buckets]
    BY <1>15, DecodedAppend
  <2>2. Covered(t)
    BY <1>15, CoveredAppend
  <2> QED BY <2>1, <2>2, <1>15 DEF all
<1>17. Decoded(t).raw = all /\ Decoded(t).buckets = Decoded(s).buckets
  <2>1. Decoded(s).buckets \o <<>> = Decoded(s).buckets
    BY ConcatEmptySeq DEF BucketList
  <2> HIDE DEF t
  <2> QED BY <2>1, <1>16
<1>18. MergedOps(k, r, d) = r \cup d
  <2> HIDE DEF r, d
  <2>1. CASE k = "counter"
    BY <2>1, <1>2, <1>3, MergedOpsAre DEF MergeCounters
  <2>2. CASE k = "sketch"
    <3>1. ASSUME NEW o \in r \cup d, NEW q \in r \cup d, SameStamp(q, o) PROVE q = o
      BY <3>1 DEF SameStamp, OwnClocks, r, d
    <3>2. \A o \in r \cup d : ~(o.value > o.value)
      <4>1. \A o \in Op : o.value \in Nat
        BY ValueAssumption DEF Op
      <4> QED BY <4>1, <1>2, <1>3
    <3>3. MergedOps(k, r, d) = MergeSketches(r, d)
      BY <2>2, <1>2, <1>3, MergedOpsAre
    <3>4. ASSUME NEW o \in r \cup d, NEW q \in r \cup d, SameStamp(q, o), q.value > o.value
          PROVE  FALSE
      <4>1. q = o
        BY <3>1, <3>4
      <4> QED BY <4>1, <3>2, <3>4
    <3>5. r \cup d \subseteq MergeSketches(r, d)
      BY <3>4 DEF MergeSketches
    <3>6. MergeSketches(r, d) \subseteq r \cup d
      BY DEF MergeSketches
    <3> QED BY <3>3, <3>5, <3>6
  <2>3. CASE k = "sample"
    <3>1. ASSUME NEW o \in r \cup d, NEW q \in r \cup d, q.at = o.at PROVE q = o
      <4>1. o \in ToSet(all) /\ q \in ToSet(all)
        BY <1>6
      <4>2. PICK i \in 1..Len(all), j \in 1..Len(all) : o = all[i] /\ q = all[j]
        BY <4>1, <1>9 DEF ToSet
      <4>3. i < j => all[i].at < all[j].at
        BY <2>3, <1>9, <1>11, IncreasingPairs
      <4>4. j < i => all[j].at < all[i].at
        BY <2>3, <1>9, <1>11, IncreasingPairs
      <4>5. all[i].at \in Nat /\ all[j].at \in Nat
        BY <1>9
      <4>6. i = j
        BY <4>2, <4>3, <4>4, <4>5, <3>1
      <4> QED BY <4>2, <4>6
    <3>2. \A o \in r \cup d : ~Newer(o, o) /\ ~(o \in r /\ o \notin r)
      BY <1>2, <1>3, OneNewer
    <3>3. MergedOps(k, r, d) = MergeSamples(r, d)
      BY <2>3, <1>2, <1>3, MergedOpsAre
    <3>4. ASSUME NEW o \in r \cup d, NEW q \in r \cup d, q.at = o.at,
                 Newer(q, o) \/ (q \in r /\ o \notin r /\ SameStamp(q, o))
          PROVE  FALSE
      <4>1. q = o
        BY <3>1, <3>4
      <4> QED BY <4>1, <3>2, <3>4
    <3>5. r \cup d \subseteq MergeSamples(r, d)
      BY <3>4 DEF MergeSamples
    <3>6. MergeSamples(r, d) \subseteq r \cup d
      BY DEF MergeSamples
    <3> QED BY <3>3, <3>5, <3>6
  <2> QED BY <2>1, <2>2, <2>3 DEF KnownKinds
<1> HIDE DEF t
<1>19. /\ t \in Seq(Encoded) /\ Covered(t)
       /\ RawList(k, Decoded(t).raw)
       /\ Decoded(t).buckets = Decoded(s).buckets
       /\ ToSet(Decoded(t).raw) = MergedOps(k, ToSet(Decoded(s).raw), ToSet(delta))
  BY <1>6, <1>14, <1>16, <1>17, <1>18
<1> QED BY <1>19 DEF t

-----------------------------------------------------------------------------
(* The inductive invariant. *)

(* An operation of the last delta is in the series, or a newer one of the  *)
(* same delta is in its place: which is why merging the delta again adds   *)
(* nothing.                                                                *)
Accounted(k, held, delta, o) ==
    \/ o \in held
    \/ k = "sample" /\ \E p \in delta \cap held : p.at = o.at /\ Newer(p, o)

(* The bytes are segments, as the code writes them; what they decode to is *)
(* listed as its readers expect, and the segments span it.                 *)
BytesInv ==
    /\ stored \in Seq(Encoded)
    /\ RawList(kind, Content.raw)
    /\ BucketList(kind, Content.buckets)
    /\ Covered(stored)

(* Clocks only move on, so every operation has one of its own; raw points  *)
(* and the last delta are operations that were written.                    *)
ClockInv ==
    /\ kind \in KnownKinds
    /\ clock \in 0..MaxClock
    /\ written \in SUBSET Op
    /\ \A o \in written : o.clock <= clock
    /\ OwnClocks(written)
    /\ Raw \subseteq written

LastInv ==
    /\ last \in Seq(Op)
    /\ ToSet(last) \subseteq written
    /\ \A o \in ToSet(last) : Accounted(kind, Raw \cup Folded, ToSet(last), o)

IInv == BytesInv /\ ClockInv /\ LastInv

(* An empty series satisfies the invariant. *)
LEMMA InitIInv == Init => IInv
<1> SUFFICES ASSUME Init PROVE IInv
  OBVIOUS
<1>1. stored = <<>> /\ Content.raw = <<>> /\ Content.buckets = <<>>
  BY DecodedNothing DEF Init, Content
<1>2. ToSet(<<>>) = {}
  BY DEF ToSet
<1>3. Times(<<>>) = <<>>
  BY EmptySeq DEF Times
<1>4. Nondecreasing(<<>>) /\ Increasing(<<>>)
  BY EmptySeq DEF Nondecreasing, Increasing
<1>5. Distinct(<<>>) /\ \A i \in DOMAIN <<>> : FALSE
  BY EmptySeq DEF Distinct
<1>6. RawList(kind, <<>>) /\ BucketList(kind, <<>>)
  BY <1>3, <1>4, <1>5 DEF RawList, BucketList
<1>7. BytesInv
  <2>1. Covered(<<>>)
    BY <1>2, DecodedNothing DEF Covered
  <2> QED BY <1>1, <1>6, <2>1 DEF BytesInv
<1>8. Raw = {} /\ written = {} /\ clock = 0 /\ kind \in KnownKinds /\ last = <<>>
  BY <1>1, <1>2 DEF Init, Raw, KnownKinds
<1>9. ClockInv
  BY <1>8, MaxClockAssumption DEF ClockInv, OwnClocks
<1>10. LastInv
  BY <1>2, <1>8 DEF LastInv
<1> QED BY <1>7, <1>9, <1>10 DEF IInv

(* The delta of a merge: operations with fresh clocks, each its own. *)
LEMMA FreshDelta ==
    ASSUME ClockInv, NEW n \in 1..MaxDelta, NEW at \in [1..n -> Time],
           NEW r \in Replica, NEW v \in Value, Merge(n, at, r, v)
    PROVE  /\ last' \in Seq(Op) /\ Distinct(last') /\ last' # <<>>
           /\ \A o \in ToSet(last') : o \in Op /\ o.clock > clock /\ o.clock <= clock'
           /\ clock' \in 0..MaxClock /\ clock <= clock'
           /\ written' = written \cup ToSet(last')
           /\ OwnClocks(written') /\ written' \in SUBSET Op
           /\ \A o \in written' : o.clock <= clock'
           /\ stored' \in Appended(kind, stored, last')
           /\ UNCHANGED kind
<1> DEFINE d == [i \in 1..n |-> [at |-> at[i], clock |-> clock + i, replica |-> r, value |-> v]]
<1>1. /\ clock + n <= MaxClock /\ clock' = clock + n /\ last' = d
      /\ written' = written \cup ToSet(d)
      /\ stored' \in Appended(kind, stored, d) /\ UNCHANGED kind
  BY DEF Merge
<1>2. n \in Nat /\ n >= 1 /\ clock \in Nat /\ MaxClock \in Nat /\ clock \in 0..MaxClock
  BY StoredSeriesAssumption, MaxClockAssumption DEF ClockInv
<1>3. DOMAIN d = 1..n /\ \A i \in 1..n : d[i].clock = clock + i
  OBVIOUS
<1>4. \A i \in 1..n : d[i] \in Op
  <2> SUFFICES ASSUME NEW i \in 1..n PROVE d[i] \in Op
    OBVIOUS
  <2>1. clock + i \in 1..MaxClock /\ at[i] \in Time
    BY <1>1, <1>2
  <2> QED BY <2>1 DEF Op
<1> HIDE DEF d
<1>5. d \in Seq(Op) /\ d # <<>>
  <2>1. d \in [1..n -> Op]
    <3>1. d = [i \in 1..n |-> d[i]]
      BY DEF d
    <3> QED BY <3>1, <1>4
  <2> QED BY <2>1, <1>2, EmptySeq
<1>6. Distinct(d)
  <2> SUFFICES ASSUME NEW i \in 1..n, NEW j \in 1..n, i # j PROVE d[i] # d[j]
    BY <1>3 DEF Distinct
  <2>1. clock + i # clock + j
    BY <1>2
  <2> QED BY <1>3, <2>1
<1>7. \A o \in ToSet(d) : o \in Op /\ o.clock > clock /\ o.clock <= clock'
  <2> SUFFICES ASSUME NEW i \in 1..n PROVE d[i].clock > clock /\ d[i].clock <= clock'
    BY <1>3, <1>4 DEF ToSet
  <2> QED BY <1>1, <1>2, <1>3
<1>8. OwnClocks(ToSet(d))
  <2> SUFFICES ASSUME NEW i \in 1..n, NEW j \in 1..n, d[i].clock = d[j].clock PROVE d[i] = d[j]
    BY <1>3 DEF ToSet, OwnClocks
  <2>1. clock + i = clock + j
    BY <1>3
  <2> QED BY <1>2, <2>1
<1>9. clock' \in 0..MaxClock /\ clock <= clock'
  BY <1>1, <1>2
<1>10. OwnClocks(written')
  <2> SUFFICES ASSUME NEW o \in written', NEW p \in written', o.clock = p.clock PROVE o = p
    BY DEF OwnClocks
  <2>1. \A e \in written : e.clock <= clock /\ e.clock \in Nat
    <3>1. \A e \in Op : e.clock \in 1..MaxClock
      BY DEF Op
    <3>2. \A c \in 1..MaxClock : c \in Nat
      BY <1>2
    <3> QED BY <3>1, <3>2 DEF ClockInv
  <2>2. \A e \in written, f \in ToSet(d) : e.clock # f.clock
    <3> SUFFICES ASSUME NEW e \in written, NEW f \in ToSet(d), e.clock = f.clock PROVE FALSE
      OBVIOUS
    <3>1. f.clock > clock
      BY <1>7
    <3> QED BY <2>1, <3>1, <1>2
  <2> QED BY <1>1, <1>8, <2>2 DEF OwnClocks, ClockInv
<1>11. \A o \in written' : o \in Op /\ o.clock <= clock'
  <2> SUFFICES ASSUME NEW o \in written' PROVE o \in Op /\ o.clock <= clock'
    OBVIOUS
  <2>1. CASE o \in ToSet(d)
    BY <2>1, <1>7
  <2>2. CASE o \in written
    <3>1. o \in Op /\ o.clock <= clock
      BY <2>2 DEF ClockInv
    <3>2. o.clock \in 1..MaxClock
      BY <3>1 DEF Op
    <3> QED BY <3>1, <3>2, <1>2, <1>9
  <2> QED BY <1>1, <2>1, <2>2
<1>12. clock' \in 0..MaxClock /\ written' \in SUBSET Op /\ \A o \in written' : o.clock <= clock'
  BY <1>9, <1>11
<1> QED BY <1>1, <1>5, <1>6, <1>7, <1>9, <1>10, <1>12

(* A merge: the series holds what the merge algebra says, whichever branch *)
(* series.append took, and its buckets are as they were.                   *)
LEMMA MergeStep ==
    ASSUME IInv, NEW n \in 1..MaxDelta, NEW at \in [1..n -> Time],
           NEW r \in Replica, NEW v \in Value, Merge(n, at, r, v)
    PROVE  /\ BytesInv'
           /\ Raw' = MergedOps(kind, Raw, ToSet(last'))
           /\ Folded' = Folded
           /\ Content'.buckets = Content.buckets
<1>1. /\ last' \in Seq(Op) /\ Distinct(last') /\ last' # <<>>
      /\ written' = written \cup ToSet(last') /\ OwnClocks(written')
      /\ stored' \in Appended(kind, stored, last') /\ kind' = kind
  BY FreshDelta DEF IInv
<1>2. /\ stored \in Seq(Encoded) /\ RawList(kind, Decoded(stored).raw)
      /\ BucketList(kind, Decoded(stored).buckets) /\ Covered(stored) /\ kind \in KnownKinds
      /\ ToSet(Decoded(stored).raw) \subseteq written
  BY DEF IInv, BytesInv, ClockInv, Content, Raw
<1>3. OwnClocks(ToSet(Decoded(stored).raw) \cup ToSet(last'))
  BY <1>1, <1>2 DEF OwnClocks
<1> DEFINE e == last'
           t == stored'
           Fine == /\ t \in Seq(Encoded) /\ Covered(t)
                   /\ RawList(kind, Decoded(t).raw)
                   /\ Decoded(t).buckets = Decoded(stored).buckets
                   /\ ToSet(Decoded(t).raw) = MergedOps(kind, ToSet(Decoded(stored).raw), ToSet(e))
<1>4. \/ /\ Appendable(kind, e) /\ (stored = <<>> \/ CanAppend(stored, e))
         /\ t = AppendTo(stored, [raw |-> e, buckets |-> <<>>])
      \/ \E p \in MergedPendings(kind, Decoded(stored), e) : t = AppendTo(<<>>, p)
  <2> HIDE DEF e, t
  <2>1. e # <<>> /\ t \in Appended(kind, stored, e)
    BY <1>1 DEF e, t
  <2> QED BY <2>1 DEF Appended
<1>5. Fine
  <2>1. e \in Seq(Op) /\ Distinct(e) /\ OwnClocks(ToSet(Decoded(stored).raw) \cup ToSet(e))
    BY <1>1, <1>3
  <2> HIDE DEF e, t
  <2>2. CASE /\ Appendable(kind, e) /\ (stored = <<>> \/ CanAppend(stored, e))
             /\ t = AppendTo(stored, [raw |-> e, buckets |-> <<>>])
    BY <1>2, <2>1, <2>2, MergeByAppending
  <2>3. CASE \E p \in MergedPendings(kind, Decoded(stored), e) : t = AppendTo(<<>>, p)
    BY <1>2, <2>1, <2>3, MergeByDecoding
  <2> QED BY <1>4, <2>2, <2>3
<1>6. BytesInv'
  BY <1>1, <1>2, <1>5 DEF BytesInv, Content
<1>7. Raw' = MergedOps(kind, Raw, ToSet(last'))
  BY <1>5 DEF Raw, Content
<1>8. Folded' = Folded
  BY <1>5 DEF Folded, Content
<1>9. Content'.buckets = Content.buckets
  BY <1>5 DEF Content
<1> QED BY <1>6, <1>7, <1>8, <1>9

(* A compaction: raw operations before the cutoff go to a bucket. *)
LEMMA CompactStep ==
    ASSUME IInv, NEW cutoff \in Cutoff, Compact(cutoff)
    PROVE  /\ BytesInv'
           /\ Raw' = {o \in Raw : o.at >= cutoff}
           /\ Folded' = Folded \cup {o \in Raw : o.at < cutoff}
           /\ UNCHANGED <<kind, clock, written, last>>
           /\ Content'.buckets = CompactedPending(kind, Content, cutoff).buckets
<1> DEFINE p == Content
           c == CompactedPending(kind, p, cutoff)
           t == AppendTo(<<>>, c)
<1>1. stored' = t /\ UNCHANGED <<kind, clock, written, last>>
  BY DEF Compact
<1>2. cutoff \in Nat /\ RawList(kind, p.raw) /\ BucketList(kind, p.buckets)
  BY StoredSeriesAssumption DEF IInv, BytesInv
<1>3. /\ RawList(kind, c.raw) /\ BucketList(kind, c.buckets)
      /\ ToSet(c.raw) = {o \in ToSet(p.raw) : o.at >= cutoff}
      /\ ListParts(c.buckets) = ListParts(p.buckets) \cup {o \in ToSet(p.raw) : o.at < cutoff}
  <2> HIDE DEF p
  <2> QED BY <1>2, CompactMovesOps
<1> HIDE DEF c
<1>4. c.raw \in Seq(Op) /\ c.buckets \in Seq(BucketItem)
  BY <1>3 DEF RawList, BucketList
<1>5. <<>> \in Seq(Encoded) /\ Decoded(<<>>).raw = <<>> /\ Decoded(<<>>).buckets = <<>>
  BY DecodedNothing
<1>6. t \in Seq(Encoded) /\ Decoded(t) = [raw |-> <<>> \o c.raw, buckets |-> <<>> \o c.buckets]
  BY <1>4, <1>5, DecodedAppend
<1>7. <<>> \o c.raw = c.raw /\ <<>> \o c.buckets = c.buckets
  BY <1>4, ConcatEmptySeq
<1>8. Decoded(t).raw = c.raw /\ Decoded(t).buckets = c.buckets
  BY <1>6, <1>7
<1>9. Covered(t)
  <2>1. Covered(<<>>)
    BY <1>5 DEF Covered, ToSet
  <2> QED BY <2>1, <1>3, <1>4, <1>5, CoveredAppend
<1> HIDE DEF t
<1>10. BytesInv'
  BY <1>1, <1>3, <1>6, <1>8, <1>9 DEF BytesInv, Content
<1>11. Raw' = ToSet(c.raw) /\ Folded' = ListParts(c.buckets)
  BY <1>1, <1>8 DEF Raw, Folded, Content, ListParts
<1>12. Raw = ToSet(p.raw) /\ Folded = ListParts(p.buckets)
  BY DEF Raw, Folded, ListParts
<1>13. Content'.buckets = c.buckets
  BY <1>1, <1>8 DEF Content
<1> QED BY <1>1, <1>3, <1>10, <1>11, <1>12, <1>13 DEF c

(* Of a delta that is newer than everything stored, the newest point of    *)
(* each second is kept.                                                    *)
LEMMA NewestStays ==
    ASSUME NEW r \in SUBSET Op, NEW d \in SUBSET Op, OwnClocks(d),
           \A a \in r, b \in d : a.clock < b.clock,
           NEW o \in d
    PROVE  \/ o \in MergeSamples(r, d)
           \/ \E p \in d \cap MergeSamples(r, d) : p.at = o.at /\ Newer(p, o)
<1> DEFINE C == {e.clock : e \in {x \in d : x.at = o.at}}
<1>1. \A e \in Op : e.clock \in WordSet /\ e.clock \in Nat /\ e.replica \in Nat
  <2>1. \A c \in 1..MaxClock : c \in WordSet /\ c \in Nat
    BY MaxClockAssumption, SegmentsAssumption, WordAssumption DEF WordSet
  <2>2. \A e \in Op : e.clock \in 1..MaxClock /\ e.replica \in Replica
    BY DEF Op
  <2> QED BY <2>1, <2>2, ReplicaAssumption
<1>2. C \in SUBSET WordSet /\ o.clock \in C
  BY <1>1
<1>3. PICK m \in C : \A c \in C : c <= m
  <2> HIDE DEF C
  <2> QED BY <1>2, Greatest
<1>4. PICK p \in d : p.at = o.at /\ p.clock = m
  BY <1>3
<1>5. \A q \in d : q.at = o.at => q.clock <= p.clock
  BY <1>3, <1>4
<1>6. p \in MergeSamples(r, d)
  <2> SUFFICES ASSUME NEW q \in r \cup d, q.at = p.at,
                      Newer(q, p) \/ (q \in r /\ p \notin r /\ SameStamp(q, p))
               PROVE  FALSE
    BY <1>4 DEF MergeSamples
  <2>1. p.clock \in Nat /\ q.clock \in Nat /\ p.replica \in Nat /\ q.replica \in Nat
    BY <1>1
  <2>2. CASE q \in r
    <3>1. q.clock < p.clock
      BY <2>2
    <3> QED BY <2>1, <3>1 DEF Newer, SameStamp
  <2>3. CASE q \in d /\ q \notin r
    <3>1. Newer(q, p)
      BY <2>3
    <3>2. q.clock <= p.clock
      BY <2>3, <1>4, <1>5
    <3>3. q.clock = p.clock => q = p
      BY <2>3 DEF OwnClocks
    <3> QED BY <2>1, <3>1, <3>2, <3>3 DEF Newer
  <2> QED BY <2>2, <2>3
<1>7. CASE p = o
  BY <1>6, <1>7
<1>8. CASE p # o
  <2>1. p.clock # o.clock
    BY <1>8 DEF OwnClocks
  <2>2. o.clock <= p.clock
    BY <1>5
  <2>3. Newer(p, o)
    BY <2>1, <2>2, <1>1 DEF Newer
  <2> QED BY <1>4, <1>6, <2>3
<1> QED BY <1>7, <1>8

(* Every operation of a fresh delta is accounted for by the merge. *)
LEMMA MergeAccounts ==
    ASSUME NEW k \in KnownKinds, NEW r \in SUBSET Op, NEW d \in SUBSET Op, OwnClocks(d),
           \A a \in r, b \in d : a.clock < b.clock,
           NEW o \in d
    PROVE  Accounted(k, MergedOps(k, r, d), d, o)
<1>1. CASE k = "sample"
  <2>1. MergedOps(k, r, d) = MergeSamples(r, d)
    BY <1>1, MergedOpsAre
  <2>2. \/ o \in MergeSamples(r, d)
        \/ \E p \in d \cap MergeSamples(r, d) : p.at = o.at /\ Newer(p, o)
    BY NewestStays
  <2> QED BY <1>1, <2>1, <2>2 DEF Accounted
<1>2. CASE k = "counter"
  <2>1. MergedOps(k, r, d) = MergeCounters(r, d)
    BY <1>2, MergedOpsAre
  <2> QED BY <2>1 DEF Accounted, MergeCounters
<1>3. CASE k = "sketch"
  <2>1. MergedOps(k, r, d) = MergeSketches(r, d)
    BY <1>3, MergedOpsAre
  <2>2. \A e \in Op : e.clock \in Nat /\ e.value \in Nat
    <3>1. \A c \in 1..MaxClock : c \in Nat
      BY MaxClockAssumption
    <3>2. \A e \in Op : e.clock \in 1..MaxClock /\ e.value \in Value
      BY DEF Op
    <3> QED BY <3>1, <3>2, ValueAssumption
  <2>3. o \in MergeSketches(r, d)
    <3> SUFFICES ASSUME NEW q \in r \cup d, SameStamp(q, o), q.value > o.value PROVE FALSE
      BY DEF MergeSketches
    <3>1. q.clock = o.clock
      BY DEF SameStamp
    <3>2. q \notin r
      <4> SUFFICES ASSUME q \in r PROVE FALSE
        OBVIOUS
      <4>1. q.clock < o.clock
        OBVIOUS
      <4> QED BY <3>1, <4>1, <2>2
    <3>3. q = o
      BY <3>1, <3>2 DEF OwnClocks
    <3> QED BY <3>3, <2>2
  <2> QED BY <2>1, <2>3 DEF Accounted
<1> QED BY <1>1, <1>2, <1>3 DEF KnownKinds

(* The inductive invariant is kept by every step. *)
LEMMA NextIInv == IInv /\ [Next]_vars => IInv'
<1> SUFFICES ASSUME IInv, [Next]_vars PROVE IInv'
  OBVIOUS
<1>1. ASSUME NEW n \in 1..MaxDelta, NEW at \in [1..n -> Time], NEW r \in Replica, NEW v \in Value,
             Merge(n, at, r, v)
      PROVE  IInv'
  <2>1. BytesInv' /\ Raw' = MergedOps(kind, Raw, ToSet(last')) /\ Folded' = Folded
    BY <1>1, MergeStep
  <2>2. /\ last' \in Seq(Op)
        /\ \A o \in ToSet(last') : o \in Op /\ o.clock > clock
        /\ clock' \in 0..MaxClock
        /\ written' = written \cup ToSet(last')
        /\ OwnClocks(written') /\ written' \in SUBSET Op
        /\ \A o \in written' : o.clock <= clock'
        /\ kind' = kind
    BY <1>1, FreshDelta DEF IInv
  <2> DEFINE d == ToSet(last')
  <2>3. kind \in KnownKinds /\ Raw \subseteq written /\ written \in SUBSET Op
        /\ (\A o \in written : o.clock <= clock) /\ clock \in 0..MaxClock
    BY DEF IInv, ClockInv
  <2>4. d \in SUBSET Op /\ d \subseteq written' /\ OwnClocks(d)
    BY <2>2 DEF OwnClocks
  <2>5. Raw \in SUBSET Op /\ \A a \in Raw, b \in d : a.clock < b.clock
    <3>1. Raw \in SUBSET Op
      BY <2>3
    <3>2. \A a \in Raw : a.clock <= clock /\ a.clock \in 1..MaxClock
      BY <2>3 DEF Op
    <3>3. \A b \in d : b.clock > clock /\ b.clock \in 1..MaxClock
      BY <2>2 DEF Op
    <3>4. \A a \in Raw, b \in d : a.clock < b.clock
      <4> HIDE DEF d
      <4> QED BY <2>3, <3>2, <3>3, MaxClockAssumption
    <3> QED BY <3>1, <3>4
  <2>6. \A o \in d : Accounted(kind, MergedOps(kind, Raw, d), d, o)
    <3> HIDE DEF d
    <3> QED BY <2>3, <2>4, <2>5, MergeAccounts
  <2>7. \A o \in d : Accounted(kind', (Raw \cup Folded)', d, o)
    BY <2>1, <2>2, <2>6 DEF Accounted
  <2>8. Raw' \subseteq written'
    <3>1. MergedOps(kind, Raw, d) \subseteq Raw \cup d
      <4> HIDE DEF d
      <4> QED BY <2>3, <2>4, <2>5, MergedOpsAre
    <3> QED BY <3>1, <2>1, <2>2, <2>3
  <2>9. ClockInv'
    BY <2>2, <2>3, <2>8 DEF ClockInv
  <2>10. LastInv'
    BY <2>2, <2>4, <2>7 DEF LastInv
  <2> QED BY <2>1, <2>9, <2>10 DEF IInv
<1>2. ASSUME NEW cutoff \in Cutoff, Compact(cutoff)
      PROVE  IInv'
  <2>1. /\ BytesInv'
        /\ Raw' = {o \in Raw : o.at >= cutoff}
        /\ Folded' = Folded \cup {o \in Raw : o.at < cutoff}
        /\ UNCHANGED <<kind, clock, written, last>>
    BY <1>2, CompactStep
  <2>2. Raw' \cup Folded' = Raw \cup Folded
    <3>1. cutoff \in Nat /\ \A o \in Raw : o.at \in Nat
      BY StoredSeriesAssumption, TimeAssumption DEF IInv, ClockInv, Op
    <3>2. \A o \in Raw : o.at >= cutoff \/ o.at < cutoff
      BY <3>1
    <3> HIDE DEF Raw, Folded
    <3> QED BY <2>1, <3>2
  <2>3. ClockInv'
    BY <2>1 DEF IInv, ClockInv
  <2>4. LastInv'
    BY <2>1, <2>2 DEF IInv, LastInv
  <2> QED BY <2>1, <2>3, <2>4 DEF IInv
<1>3. CASE UNCHANGED vars
  <2>1. /\ stored' = stored /\ kind' = kind /\ clock' = clock /\ written' = written /\ last' = last
    BY <1>3 DEF vars
  <2>2. Content' = Content /\ Raw' = Raw /\ Folded' = Folded
    BY <2>1 DEF Content, Raw, Folded
  <2> QED BY <2>1, <2>2 DEF IInv, BytesInv, ClockInv, LastInv
<1> QED BY <1>1, <1>2, <1>3 DEF Next

(* The bytes of a series stay readable: segments that span what they hold, *)
(* listed as the readers expect, over operations with clocks of their own. *)
THEOREM SeriesInv == Spec => []IInv
BY InitIInv, NextIInv, PTL DEF Spec

-----------------------------------------------------------------------------
(* What the inductive invariant gives.                                     *)

(* The header of a segment agrees with the items under it. *)
LEMMA ItemsOfSegment ==
    ASSUME NEW seg \in Encoded
    PROVE  /\ Len(Items(seg)) \in 1..SegmentSize
           /\ seg.from = Items(seg)[1].at
           /\ seg.to = Items(seg)[Len(Items(seg))].at
<1>1. ASSUME NEW c \in ChunksOver(Op), seg = Segment(c, FALSE)
      PROVE  /\ Len(Items(seg)) \in 1..SegmentSize
             /\ seg.from = Items(seg)[1].at
             /\ seg.to = Items(seg)[Len(Items(seg))].at
  <2>1. c \in Seq(Op) /\ Len(c) \in 1..SegmentSize
    BY DEF ChunksOver
  <2>2. seg.bucket = FALSE /\ seg.from = c[1].at /\ seg.to = c[Len(c)].at /\ DecodeRaw(seg.data) = c
    <3>1. seg.bucket = FALSE /\ seg.from = c[1].at /\ seg.to = c[Len(c)].at /\ RawIn(seg) = c
      BY <1>1, SegmentDecodes
    <3> QED BY <3>1 DEF RawIn
  <2>3. Items(seg) = [i \in DOMAIN c |-> Item(c[i])]
    BY <2>2 DEF Items
  <2>4. DOMAIN c = 1..Len(c) /\ 1 \in 1..Len(c) /\ Len(c) \in 1..Len(c) /\ Len(c) \in Nat
    BY <2>1, SegmentsAssumption
  <2>5. Len(Items(seg)) = Len(c)
    BY <2>3, <2>4
  <2>6. \A i \in 1..Len(c) : Items(seg)[i].at = c[i].at
    BY <2>3, <2>4 DEF Item
  <2> QED BY <2>1, <2>2, <2>4, <2>5, <2>6
<1>2. ASSUME NEW c \in ChunksOver(BucketItem), seg = Segment(c, TRUE)
      PROVE  /\ Len(Items(seg)) \in 1..SegmentSize
             /\ seg.from = Items(seg)[1].at
             /\ seg.to = Items(seg)[Len(Items(seg))].at
  <2>1. Len(c) \in 1..SegmentSize
    BY DEF ChunksOver
  <2>2. seg.bucket = TRUE /\ seg.from = c[1].at /\ seg.to = c[Len(c)].at /\ BucketsIn(seg) = c
    BY <1>2, SegmentDecodes
  <2>3. Items(seg) = c
    BY <2>2 DEF Items, BucketsIn
  <2> QED BY <2>1, <2>2, <2>3
<1> QED BY <1>1, <1>2 DEF Encoded

(* Everything written passes the checks of scan and decode                 *)
(* (StoredSeries!WellFormed): no header disagrees with the block under it, *)
(* whichever way series.append wrote it.                                   *)
THEOREM BytesWellFormed == Spec => []WellFormed
<1>1. IInv => WellFormed
  <2> SUFFICES ASSUME IInv PROVE WellFormed
    OBVIOUS
  <2>1. \A i \in DOMAIN stored : stored[i] \in Encoded
    BY DEF IInv, BytesInv
  <2>2. \A i \in DOMAIN stored :
           LET items == Items(stored[i])
           IN  /\ Len(items) \in 1..SegmentSize
               /\ stored[i].from = items[1].at
               /\ stored[i].to = items[Len(items)].at
    BY <2>1, ItemsOfSegment
  <2>3. /\ Nondecreasing(Times(Content.raw))
        /\ kind = "sample" => Increasing(Times(Content.raw))
        /\ Increasing(Times(Content.buckets))
    BY DEF IInv, BytesInv, RawList, BucketList
  <2> QED BY <2>2, <2>3 DEF WellFormed
<1> QED BY <1>1, SeriesInv, PTL

(* The bytes implement the algebra (StoredSeries!LogSpec): a merge of the  *)
(* stored blocks, appended or decoded and written anew, is the atomic      *)
(* merge of the log, and a compaction is its Fold.                         *)
THEOREM BytesImplementLog == Spec => LogSpec
<1>1. Init => Log!Init
  <2> SUFFICES ASSUME Init PROVE Log!Init
    OBVIOUS
  <2>1. Content.raw = <<>> /\ Content.buckets = <<>>
    BY DecodedNothing DEF Init, Content
  <2>2. ToSet(<<>>) = {}
    BY DEF ToSet
  <2>3. Raw = {} /\ Folded = {}
    BY <2>1, <2>2 DEF Raw, Folded
  <2> QED BY <2>3 DEF Init, Log!Init, Log!Kinds
<1>2. IInv /\ [Next]_vars => [Log!Next]_(Log!vars)
  <2> SUFFICES ASSUME IInv, [Next]_vars PROVE [Log!Next]_(Log!vars)
    OBVIOUS
  <2>1. ASSUME NEW n \in 1..MaxDelta, NEW at \in [1..n -> Time], NEW r \in Replica, NEW v \in Value,
               Merge(n, at, r, v)
        PROVE  Log!Write
    <3>1. Raw' = MergedOps(kind, Raw, ToSet(last')) /\ Folded' = Folded
      BY <2>1, MergeStep
    <3>2. written' = written \cup ToSet(last') /\ kind' = kind
      BY <2>1, FreshDelta DEF IInv
    <3> DEFINE d == ToSet(last')
    <3>3. d \in SUBSET written'
      BY <3>2
    <3>4. Log!MergedRaw(kind, Raw, d) = MergedOps(kind, Raw, d)
      BY DEF Log!MergedRaw, MergedOps, Log!MergeSamples, Log!MergeCounters, Log!MergeSketches,
             MergeSamples, MergeCounters, MergeSketches, Log!Newer, Newer, Log!SameStamp, SameStamp
    <3> QED BY <3>1, <3>2, <3>3, <3>4 DEF Log!Write
  <2>2. ASSUME NEW cutoff \in Cutoff, Compact(cutoff)
        PROVE  Log!Fold
    <3>1. /\ Raw' = {o \in Raw : o.at >= cutoff}
          /\ Folded' = Folded \cup {o \in Raw : o.at < cutoff}
          /\ UNCHANGED <<kind, clock, written, last>>
      BY <2>2, CompactStep
    <3>2. cutoff \in Nat /\ \A o \in Raw : o.at \in Nat
      BY StoredSeriesAssumption, TimeAssumption DEF IInv, ClockInv, Op
    <3>3. Raw \ Raw' = {o \in Raw : o.at < cutoff} /\ Raw' \subseteq Raw
      <4> HIDE DEF Raw
      <4> QED BY <3>1, <3>2
    <3>4. \A gone \in Raw \ Raw', kept \in Raw' : gone.at < kept.at
      <4> SUFFICES ASSUME NEW gone \in Raw \ Raw', NEW kept \in Raw' PROVE gone.at < kept.at
        OBVIOUS
      <4>1. gone.at < cutoff /\ kept.at >= cutoff /\ gone.at \in Nat /\ kept.at \in Nat
        BY <3>1, <3>2, <3>3
      <4> QED BY <4>1, <3>2
    <3>5. Folded' = Folded \cup (Raw \ Raw')
      BY <3>1, <3>3
    <3> QED BY <3>1, <3>3, <3>4, <3>5 DEF Log!Fold
  <2>3. CASE UNCHANGED vars
    <3>1. Raw' = Raw /\ Folded' = Folded /\ kind' = kind /\ written' = written
      BY <2>3 DEF vars, Raw, Folded, Content
    <3> QED BY <3>1 DEF Log!vars
  <2> QED BY <2>1, <2>2, <2>3 DEF Next, Log!Next
<1> QED BY <1>1, <1>2, SeriesInv, PTL DEF Spec, LogSpec, Log!Spec

(* Merging the last delta once more leaves the operations as they are. *)
LEMMA MergedAgain ==
    ASSUME NEW k \in KnownKinds, NEW r \in SUBSET Op, NEW d \in SUBSET Op, OwnClocks(r \cup d),
           \A o \in d : Accounted(k, r, d, o),
           k = "sample" => \A o, p \in r : o.at = p.at => o = p
    PROVE  MergedOps(k, r, d) = r
<1>1. \A e \in Op : e.clock \in Nat /\ e.value \in Nat /\ e.replica \in Nat
  <2>1. \A c \in 1..MaxClock : c \in Nat
    BY MaxClockAssumption
  <2>2. \A e \in Op : e.clock \in 1..MaxClock /\ e.value \in Value /\ e.replica \in Replica
    BY DEF Op
  <2> QED BY <2>1, <2>2, ValueAssumption, ReplicaAssumption
<1>2. CASE k # "sample"
  <2>1. d \subseteq r
    BY <1>2 DEF Accounted
  <2>2. CASE k = "counter"
    <3>1. MergedOps(k, r, d) = MergeCounters(r, d)
      BY <2>2, MergedOpsAre
    <3> QED BY <2>1, <3>1 DEF MergeCounters
  <2>3. CASE k = "sketch"
    <3>1. MergedOps(k, r, d) = MergeSketches(r, d)
      BY <2>3, MergedOpsAre
    <3>2. ASSUME NEW o \in r, NEW q \in r \cup d, SameStamp(q, o), q.value > o.value PROVE FALSE
      <4>1. q = o
        BY <3>2 DEF OwnClocks, SameStamp
      <4> QED BY <4>1, <3>2, <1>1
    <3>3. r \subseteq MergeSketches(r, d)
      BY <3>2 DEF MergeSketches
    <3>4. MergeSketches(r, d) \subseteq r
      BY <2>1 DEF MergeSketches
    <3> QED BY <3>1, <3>3, <3>4
  <2> QED BY <1>2, <2>2, <2>3 DEF KnownKinds
<1>3. CASE k = "sample"
  <2>1. MergedOps(k, r, d) = MergeSamples(r, d)
    BY <1>3, MergedOpsAre
  <2>2. \A o \in d \ r : \E p \in r : p.at = o.at /\ Newer(p, o)
    BY DEF Accounted
  <2>3. ASSUME NEW o \in r, NEW q \in r \cup d, q.at = o.at,
               Newer(q, o) \/ (q \in r /\ o \notin r /\ SameStamp(q, o))
        PROVE  FALSE
    <3>1. Newer(q, o) /\ q \in Op /\ o \in Op
      BY <2>3
    <3>2. CASE q \in r
      <4>1. q = o
        BY <2>3, <1>3, <3>2
      <4> QED BY <4>1, <3>1, <1>1 DEF Newer
    <3>3. CASE q \in d \ r
      <4>1. PICK p \in r : p.at = q.at /\ Newer(p, q)
        BY <2>2, <3>3
      <4>2. p = o
        BY <4>1, <2>3, <1>3
      <4> QED BY <4>1, <4>2, <3>1, OneNewer
    <3> QED BY <3>2, <3>3
  <2>4. r \subseteq MergeSamples(r, d)
    BY <2>3 DEF MergeSamples
  <2>5. ASSUME NEW o \in MergeSamples(r, d) PROVE o \in r
    <3>1. o \in r \cup d /\ ~ \E p \in r \cup d : p.at = o.at /\ Newer(p, o)
      BY DEF MergeSamples
    <3> QED BY <3>1, <2>2
  <2> QED BY <2>1, <2>4, <2>5
<1> QED BY <1>2, <1>3

(* A delta delivered twice counts once (StoredSeries!RedeliveryHarmless):  *)
(* it is never taken for a later block, and merging it changes nothing.    *)
THEOREM SecondDeliveryHarmless == Spec => []RedeliveryHarmless
<1>1. IInv => RedeliveryHarmless
  <2> SUFFICES ASSUME IInv, ToSet(last) \cap Folded = {}, NEW t \in Appended(kind, stored, last)
               PROVE  ToSet(Decoded(t).raw) = Raw /\ Len(Decoded(t).raw) = Len(Content.raw)
    BY DEF RedeliveryHarmless
  <2>1. CASE last = <<>>
    BY <2>1 DEF Appended, Raw, Content
  <2>2. CASE last # <<>>
    <3> DEFINE d == ToSet(last)
    <3>1. /\ stored \in Seq(Encoded) /\ RawList(kind, Decoded(stored).raw)
          /\ BucketList(kind, Decoded(stored).buckets) /\ Covered(stored) /\ kind \in KnownKinds
          /\ last \in Seq(Op) /\ d \subseteq written /\ Raw \subseteq written
          /\ OwnClocks(written) /\ written \in SUBSET Op
          /\ \A o \in d : Accounted(kind, Raw \cup Folded, d, o)
      BY DEF IInv, BytesInv, ClockInv, LastInv, Content
    <3>2. Raw = ToSet(Decoded(stored).raw)
      BY DEF Raw, Content
    <3> HIDE DEF d
    <3>3. \A o \in d : Accounted(kind, Raw, d, o)
      <4>1. d \cap Folded = {}
        BY DEF d
      <4> HIDE DEF Raw, Folded
      <4> QED BY <3>1, <4>1 DEF Accounted
    <3>4. PICK h \in DOMAIN last : last[h] \in Raw
      <4>1. 1 \in DOMAIN last
        BY <2>2, <3>1, EmptySeq
      <4>2. last[1] \in d
        BY <4>1 DEF d, ToSet
      <4>3. PICK o \in d : o \in Raw
        BY <4>2, <3>3 DEF Accounted
      <4> QED BY <4>3 DEF d, ToSet
    <3>5. ~(stored = <<>> \/ CanAppend(stored, last))
      <4>1. PICK i \in DOMAIN stored : last[h].at <= stored[i].to
        BY <3>1, <3>2, <3>4 DEF Covered
      <4>2. stored # <<>>
        BY <4>1, EmptySeq
      <4>3. ASSUME CanAppend(stored, last) PROVE FALSE
        <5>1. last[h].at > stored[i].to
          BY <4>3 DEF CanAppend
        <5>2. last[h].at \in Nat /\ stored[i].to \in Nat
          <6>1. last[h].at \in Nat
            BY <3>1, TimesOfOps
          <6>2. stored[i] \in Encoded
            BY <3>1
          <6> QED BY <6>1, <6>2, EndsAreWords
        <5> QED BY <4>1, <5>1, <5>2
      <4> QED BY <4>2, <4>3
    <3>6. PICK p \in MergedPendings(kind, Decoded(stored), last) : t = AppendTo(<<>>, p)
      BY <2>2, <3>5 DEF Appended
    <3>7. OwnClocks(Raw \cup d) /\ Raw \in SUBSET Op /\ d \in SUBSET Op
      BY <3>1 DEF OwnClocks
    <3>8. RawList(kind, Decoded(t).raw) /\ ToSet(Decoded(t).raw) = MergedOps(kind, Raw, d)
      BY <3>1, <3>2, <3>6, <3>7, MergeByDecoding DEF d
    <3>9. kind = "sample" => \A o, q \in Raw : o.at = q.at => o = q
      <4> SUFFICES ASSUME kind = "sample", NEW o \in Raw, NEW q \in Raw, o.at = q.at PROVE o = q
        OBVIOUS
      <4> DEFINE all == Decoded(stored).raw
      <4>1. all \in Seq(Op) /\ Increasing(Times(all))
        BY <3>1 DEF RawList
      <4>2. /\ Times(all) \in Seq(Nat) /\ Len(Times(all)) = Len(all) /\ DOMAIN all = 1..Len(all)
            /\ Len(all) \in Nat
            /\ \A i \in 1..Len(all) : all[i].at \in Nat /\ Times(all)[i] = all[i].at
        BY <4>1, TimesOfOps
      <4>3. PICK i \in 1..Len(all), j \in 1..Len(all) : o = all[i] /\ q = all[j]
        BY <3>2, <4>2 DEF ToSet
      <4> HIDE DEF all
      <4>4. (i < j => all[i].at < all[j].at) /\ (j < i => all[j].at < all[i].at)
        BY <4>1, <4>2, IncreasingPairs
      <4>5. i = j
        BY <4>2, <4>3, <4>4
      <4> QED BY <4>3, <4>5
    <3>10. MergedOps(kind, Raw, d) = Raw
      <4> HIDE DEF Raw
      <4> QED BY <3>1, <3>3, <3>7, <3>9, MergedAgain
    <3>11. ToSet(Decoded(t).raw) = Raw
      BY <3>8, <3>10
    <3>12. Len(Decoded(t).raw) = Cardinality(Raw)
      <4>1. Decoded(t).raw \in Seq(Op) /\ Distinct(Decoded(t).raw)
        BY <3>8 DEF RawList
      <4> QED BY <4>1, <3>11, LengthOfDistinct
    <3>13. Len(Content.raw) = Cardinality(Raw)
      <4>1. Content.raw \in Seq(Op) /\ Distinct(Content.raw) /\ ToSet(Content.raw) = Raw
        BY <3>1, <3>2 DEF RawList, Content
      <4> QED BY <4>1, LengthOfDistinct
    <3> QED BY <3>11, <3>12, <3>13
  <2> QED BY <2>1, <2>2
<1> QED BY <1>1, SeriesInv, PTL

=============================================================================
