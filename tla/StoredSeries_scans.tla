--------------------------- MODULE StoredSeries_scans ---------------------------
(***************************************************************************)
(* What a scan over the stored blocks yields, for every size of segment,   *)
(* width of word and span.                                                 *)
(*                                                                         *)
(*  1. Lists: induction along a list, and maps that give a list for each   *)
(*     element; Within, Stream, PartsOf and OfKind are such maps.          *)
(*  2. No item of the interval is skipped (StreamIsWithin): a segment that *)
(*     is not decoded holds none.                                          *)
(*  3. Folding: what an iterator has yielded and has in hand is what it    *)
(*     was given (FoldKeepsParts), and a consumer that left is not called  *)
(*     (ScanLeavesTheLoop).                                                *)
(*  4. ScanInv, the invariant of the blocks (BucketsBeforePoints), and     *)
(*     sketches in order (ScannedSketchesInOrder).                         *)
(*  5. Every part once, whichever iterator (PartsOnce); the iterators over *)
(*     a decoded series agree with the streaming ones (ScansAgree).        *)
(*  6. The first and last of a sample's parts (SamplesInOrder).            *)
(***************************************************************************)
EXTENDS StoredSeries_proofs

-----------------------------------------------------------------------------
(* Induction along a list, over the set of the lists it holds of. *)
LEMMA ListInduction ==
    ASSUME NEW A, NEW S, <<>> \in S,
           \A q \in Seq(A), a \in A : q \in S => Append(q, a) \in S
    PROVE  \A q \in Seq(A) : q \in S
<1> TAKE q \in Seq(A)
<1> DEFINE n == Len(q)
           K == {k \in 0..n : SubSeq(q, 1, k) \in S}
<1>1. n \in Nat /\ q \in Seq(A) /\ \A i \in 1..n : q[i] \in A
  OBVIOUS
<1>2. 0 \in K
  <2>1. SubSeq(q, 1, 0) = <<>>
    OBVIOUS
  <2>2. SubSeq(q, 1, 0) \in S
    BY <2>1, Zenon
  <2> QED BY <1>1, <2>2
<1>3. ASSUME NEW k \in 0..(n - 1), k \in K PROVE k + 1 \in K
  <2> DEFINE j == k + 1
             p == SubSeq(q, 1, k)
  <2>1. j \in 1..n /\ j \in 0..n /\ k \in Nat /\ j - 1 = k
    BY <1>1
  <2>2. p \in Seq(A) /\ p \in S
    <3>1. \A i \in 1..k : q[i] \in A
      BY <1>1
    <3>2. p \in Seq(A)
      BY <2>1, <3>1, SubSeqProperties
    <3> QED BY <3>2, <1>3
  <2>3. SubSeq(q, 1, j) = p \o <<q[j]>>
    <3>1. 1 \in 1..Len(q) /\ j \in 1..Len(q)
      BY <1>1, <2>1
    <3>2. SubSeq(q, 1, j) = SubSeq(q, 1, j - 1) \o <<q[j]>>
      <4> HIDE DEF j
      <4> QED BY <3>1, SubSeqRecursiveSecond
    <3> QED BY <3>2, <2>1
  <2>4. Append(p, q[j]) = p \o <<q[j]>> /\ q[j] \in A
    <3>1. q[j] \in A
      <4> HIDE DEF j
      <4> QED BY <2>1, <1>1
    <3> HIDE DEF p, j
    <3> QED BY <2>2, <3>1, AppendIsConcat
  <2>5. Append(p, q[j]) \in S
    <3> HIDE DEF p, j
    <3> QED BY <2>2, <2>4
  <2> HIDE DEF p
  <2> QED BY <2>1, <2>3, <2>4, <2>5
<1>4. n \in K
  <2> HIDE DEF K, n
  <2>1. n \in 0..n
    BY <1>1
  <2> QED BY <2>1, <1>1, <1>2, <1>3, UpTo
<1>5. SubSeq(q, 1, n) = q
  BY SubSeqFull
<1> QED BY <1>4, <1>5

(* The lists a function gives for the elements of a list, and those lists  *)
(* one after the other.                                                    *)
Maps(A, B) == [A -> B]
Mapped(f, q) == [i \in 1..Len(q) |-> f[q[i]]]
FlatMap(f, q) == FlattenSeq(Mapped(f, q))

(* A map of a list, element by element, is a list as long; of two lists    *)
(* put together it is the two maps put together.                           *)
LEMMA MappedLists ==
    ASSUME NEW A, NEW B, NEW f \in Maps(A, B), NEW x \in Seq(A), NEW y \in Seq(A)
    PROVE  /\ Mapped(f, x) \in Seq(B) /\ Len(Mapped(f, x)) = Len(x)
           /\ Mapped(f, x \o y) = Mapped(f, x) \o Mapped(f, y)
           /\ Mapped(f, <<>>) = <<>>
<1> DEFINE u == Mapped(f, x)
           v == Mapped(f, y)
           w == Mapped(f, x \o y)
           xy == x \o y
<1>1. /\ Len(x) \in Nat /\ Len(y) \in Nat /\ xy \in Seq(A) /\ Len(xy) = Len(x) + Len(y)
      /\ \A i \in 1..(Len(x) + Len(y)) : xy[i] = IF i <= Len(x) THEN x[i] ELSE y[i - Len(x)]
  BY ConcatProperties
<1>2. \A q \in Seq(A) : Mapped(f, q) \in Seq(B) /\ Len(Mapped(f, q)) = Len(q)
                        /\ \A i \in 1..Len(q) : Mapped(f, q)[i] = f[q[i]]
  <2> TAKE q \in Seq(A)
  <2>1. Len(q) \in Nat /\ \A i \in 1..Len(q) : f[q[i]] \in B
    BY DEF Maps
  <2> QED BY <2>1 DEF Mapped
<1>3. u \in Seq(B) /\ v \in Seq(B) /\ Len(u) = Len(x) /\ Len(v) = Len(y)
  BY <1>2
<1>4. w \in Seq(B) /\ Len(w) = Len(xy) /\ \A i \in 1..Len(xy) : w[i] = f[xy[i]]
  <2> HIDE DEF xy
  <2> QED BY <1>1, <1>2 DEF xy
<1>5. /\ u \o v \in Seq(B) /\ Len(u \o v) = Len(u) + Len(v)
      /\ \A i \in 1..(Len(u) + Len(v)) : (u \o v)[i] = IF i <= Len(u) THEN u[i] ELSE v[i - Len(u)]
  <2> HIDE DEF u, v
  <2> QED BY <1>3, ConcatProperties
<1>6. \A i \in 1..Len(x) : u[i] = f[x[i]]
  BY <1>2
<1>7. \A i \in 1..Len(y) : v[i] = f[y[i]]
  BY <1>2
<1> HIDE DEF u, v, w, xy
<1>8. ASSUME NEW i \in 1..Len(w) PROVE w[i] = (u \o v)[i]
  <2>0. i \in 1..(Len(x) + Len(y)) /\ i \in 1..Len(xy) /\ i \in 1..(Len(u) + Len(v))
    BY <1>1, <1>3, <1>4
  <2>1. CASE i <= Len(x)
    <3>1. w[i] = f[x[i]] /\ (u \o v)[i] = u[i] /\ i \in 1..Len(x)
      BY <2>0, <2>1, <1>1, <1>3, <1>4, <1>5
    <3> QED BY <3>1, <1>6
  <2>2. CASE ~(i <= Len(x))
    <3> DEFINE j == i - Len(x)
    <3>1. j \in 1..Len(y) /\ xy[i] = y[j] /\ (u \o v)[i] = v[j]
      BY <2>0, <2>2, <1>1, <1>3, <1>5
    <3> HIDE DEF j
    <3> QED BY <3>1, <2>0, <1>4, <1>7
  <2> QED BY <2>1, <2>2
<1>9. w = u \o v
  <2>1. Len(w) = Len(u \o v)
    BY <1>1, <1>3, <1>4, <1>5
  <2> DEFINE uv == u \o v
  <2>2. uv \in Seq(B) /\ Len(w) = Len(uv) /\ \A i \in 1..Len(w) : w[i] = uv[i]
    BY <2>1, <1>5, <1>8
  <2> HIDE DEF uv
  <2>3. w = uv
    BY <2>2, <1>4, SeqEqual
  <2> QED BY <2>3 DEF uv
<1>10. Mapped(f, <<>>) = <<>>
  BY DEF Mapped
<1> QED BY <1>3, <1>9, <1>10 DEF u, v, w, xy

(* So with a map that gives a list for each element, flattened. *)
LEMMA FlatMapLists ==
    ASSUME NEW A, NEW B, NEW f \in Maps(A, Seq(B))
    PROVE  \A x, y \in Seq(A) :
              /\ FlatMap(f, x) \in Seq(B)
              /\ FlatMap(f, x \o y) = FlatMap(f, x) \o FlatMap(f, y)
<1> TAKE x, y \in Seq(A)
<1> DEFINE u == Mapped(f, x)
           v == Mapped(f, y)
<1>1. u \in Seq(Seq(B)) /\ v \in Seq(Seq(B)) /\ Mapped(f, x \o y) = u \o v
  <2> DEFINE C == Seq(B)
  <2>1. f \in Maps(A, C)
    OBVIOUS
  <2> HIDE DEF C
  <2>2. Mapped(f, x) \in Seq(C) /\ Mapped(f, y) \in Seq(C)
        /\ Mapped(f, x \o y) = Mapped(f, x) \o Mapped(f, y)
    <3>1. x \in Seq(A) /\ y \in Seq(A)
      OBVIOUS
    <3>2. \A p, q \in Seq(A) : Mapped(f, p) \in Seq(C) /\ Mapped(f, p \o q) = Mapped(f, p) \o Mapped(f, q)
      BY <2>1, MappedLists
    <3> QED BY <3>1, <3>2, Zenon
  <2> QED BY <2>2 DEF C
<1> HIDE DEF u, v
<1>2. FlattenSeq(u) \in Seq(B) /\ FlattenSeq(u \o v) = FlattenSeq(u) \o FlattenSeq(v)
  BY <1>1, FlattenConcat
<1> QED BY <1>1, <1>2 DEF FlatMap, u, v

(* A map over no element, and over one element more. *)
LEMMA FlatMapAppend ==
    ASSUME NEW A, NEW B, NEW f \in Maps(A, Seq(B))
    PROVE  /\ FlatMap(f, <<>>) = <<>>
           /\ \A x \in Seq(A), a \in A : FlatMap(f, Append(x, a)) = FlatMap(f, x) \o f[a]
<1>1. FlatMap(f, <<>>) = <<>>
  <2>1. Mapped(f, <<>>) = [i \in 1..0 |-> <<>>]
    BY DEF Mapped
  <2>2. FlattenSeq([i \in 1..0 |-> <<>>]) = <<>>
    BY FlattenNothing
  <2> QED BY <2>1, <2>2 DEF FlatMap
<1>2. ASSUME NEW x \in Seq(A), NEW a \in A
      PROVE  FlatMap(f, Append(x, a)) = FlatMap(f, x) \o f[a]
  <2>1. Append(x, a) = x \o <<a>> /\ <<a>> \in Seq(A)
    BY AppendIsConcat
  <2>2. FlatMap(f, x \o <<a>>) = FlatMap(f, x) \o FlatMap(f, <<a>>)
    <3> DEFINE y == <<a>>
    <3>1. y \in Seq(A)
      BY <2>1
    <3> HIDE DEF y
    <3>2. FlatMap(f, x \o y) = FlatMap(f, x) \o FlatMap(f, y)
      BY <3>1, FlatMapLists
    <3> QED BY <3>2 DEF y
  <2>3. FlatMap(f, <<a>>) = f[a]
    <3> DEFINE v == f[a]
               w == <<v>>
    <3>1. v \in Seq(B) /\ Mapped(f, <<a>>) = w
      BY DEF Mapped, Maps
    <3> HIDE DEF v
    <3>2. w \in Seq(Seq(B)) /\ Len(w) = 1 /\ w[1] = v
      BY <3>1
    <3> DEFINE g == [i \in 0..1 |-> IF i = 0 THEN <<>> ELSE v]
    <3>3. g \in [0..Len(w) -> Seq(B)] /\ g[0] = <<>> /\ g[Len(w)] = v
      BY <3>1, <3>2
    <3>4. \A i \in 1..Len(w) : g[i] = g[i - 1] \o w[i]
      <4>1. <<>> \o v = v
        BY <3>1, ConcatEmptySeq
      <4>2. \A i \in 1..Len(w) : i = 1
        BY <3>2
      <4>3. g[1] = v /\ g[1 - 1] = <<>>
        OBVIOUS
      <4> HIDE DEF g, w
      <4> QED BY <4>1, <4>2, <4>3, <3>2
    <3> HIDE DEF g, w
    <3>5. FlattenSeq(w) = v
      BY <3>2, <3>3, <3>4, FlattenUnique
    <3> QED BY <3>1, <3>5 DEF FlatMap, v
  <2> QED BY <2>1, <2>2, <2>3
<1> QED BY <1>1, <1>2

(* The lists a map gives, put together one by one. *)
FlatPrefixes(f, q, B) ==
    {g \in [0..Len(q) -> Seq(B)] :
        /\ g[0] = <<>>
        /\ \A i \in 1..Len(q) : g[i] = g[i - 1] \o f[q[i]]
        /\ FlatMap(f, q) = g[Len(q)]}

(* They are what the map gives in the end. *)
LEMMA FlatMapPrefixes ==
    ASSUME NEW A, NEW B, NEW f \in Maps(A, Seq(B)), NEW q \in Seq(A)
    PROVE  FlatPrefixes(f, q, B) # {}
<1> DEFINE u == Mapped(f, q)
<1>1. u \in Seq(Seq(B)) /\ Len(u) = Len(q) /\ \A i \in 1..Len(q) : u[i] = f[q[i]]
  <2>1. Len(q) \in Nat /\ \A i \in 1..Len(q) : f[q[i]] \in Seq(B)
    BY DEF Maps
  <2> QED BY <2>1 DEF Mapped
<1> HIDE DEF u
<1>2. PICK g \in [0..Len(u) -> Seq(B)] :
              /\ g[0] = <<>>
              /\ \A i \in 1..Len(u) : g[i] = g[i - 1] \o u[i]
              /\ FlattenSeq(u) = g[Len(u)]
  BY <1>1, FlattenPrefixes
<1>3. g \in [0..Len(q) -> Seq(B)] /\ \A i \in 1..Len(q) : g[i] = g[i - 1] \o f[q[i]]
  BY <1>1, <1>2
<1>4. FlatMap(f, q) = g[Len(q)]
  BY <1>1, <1>2 DEF FlatMap, u
<1>5. g \in FlatPrefixes(f, q, B)
  BY <1>2, <1>3, <1>4 DEF FlatPrefixes
<1> QED BY <1>5

-----------------------------------------------------------------------------
(* The filters and scans of the iterators are such maps. *)
Chosen(from, to) ==
    [x \in BucketItem |-> IF from <= x.at /\ x.at <= to THEN <<x>> ELSE <<>>]

(* The filter of an interval gives a list for each item ... *)
LEMMA ChosenMaps ==
    ASSUME NEW from, NEW to
    PROVE  Chosen(from, to) \in Maps(BucketItem, Seq(BucketItem))
<1>1. \A x \in BucketItem : <<x>> \in Seq(BucketItem) /\ <<>> \in Seq(BucketItem)
  BY OneElement, EmptySeq
<1> QED BY <1>1 DEF Chosen, Maps

(* ... and is such a map: Within keeps an item or drops it. *)
LEMMA WithinIsMap ==
    ASSUME NEW from, NEW to, NEW q \in Seq(BucketItem)
    PROVE  Within(q, from, to) = FlatMap(Chosen(from, to), q)
<1> DEFINE f == Chosen(from, to)
           N == Len(q)
           upto[n \in 0..Len(q)] ==
               IF n = 0 THEN <<>>
               ELSE LET x == q[n]
                    IN  IF from <= x.at /\ x.at <= to THEN Append(upto[n - 1], x) ELSE upto[n - 1]
<1>1. PICK g \in [0..Len(q) -> Seq(BucketItem)] :
              /\ g[0] = <<>>
              /\ \A i \in 1..Len(q) : g[i] = g[i - 1] \o f[q[i]]
              /\ FlatMap(f, q) = g[Len(q)]
  <2> HIDE DEF f
  <2>1. f \in Maps(BucketItem, Seq(BucketItem))
    BY ChosenMaps DEF f
  <2>2. FlatPrefixes(f, q, BucketItem) # {}
    BY <2>1, FlatMapPrefixes
  <2> QED BY <2>2 DEF FlatPrefixes
<1>2. N \in Nat /\ \A i \in 1..N : q[i] \in BucketItem /\ i - 1 \in 0..N
  OBVIOUS
<1>3. ASSUME NEW i \in 1..N, NEW p \in Seq(BucketItem)
      PROVE  p \o f[q[i]] = IF from <= q[i].at /\ q[i].at <= to THEN Append(p, q[i]) ELSE p
  <2> DEFINE x == q[i]
  <2>1. x \in BucketItem
    BY <1>2
  <2> HIDE DEF x
  <2>2. f[x] = IF from <= x.at /\ x.at <= to THEN <<x>> ELSE <<>>
    BY <2>1 DEF Chosen
  <2>3. p \o <<x>> = Append(p, x) /\ p \o <<>> = p
    BY <2>1, AppendIsConcat, ConcatEmptySeq
  <2> HIDE DEF f
  <2> QED BY <2>2, <2>3 DEF x
<1>4. \A i \in 1..N : g[i] = IF from <= q[i].at /\ q[i].at <= to THEN Append(g[i - 1], q[i]) ELSE g[i - 1]
  <2> SUFFICES ASSUME NEW i \in 1..N
               PROVE  g[i] = IF from <= q[i].at /\ q[i].at <= to THEN Append(g[i - 1], q[i]) ELSE g[i - 1]
    OBVIOUS
  <2>1. g[i - 1] \in Seq(BucketItem) /\ g[i] = g[i - 1] \o f[q[i]]
    BY <1>1, <1>2
  <2> DEFINE p == g[i - 1]
  <2> HIDE DEF p, f, N
  <2> QED BY <2>1, <1>3 DEF p
<1>5. g = [n \in 0..Len(q) |->
              IF n = 0 THEN <<>>
              ELSE LET x == q[n]
                   IN  IF from <= x.at /\ x.at <= to THEN Append(g[n - 1], x) ELSE g[n - 1]]
  <2>1. \A n \in 0..N : n # 0 => n \in 1..N
    BY <1>2
  <2> HIDE DEF f
  <2> QED BY <1>1, <1>4, <2>1
<1>6. upto = [n \in 0..Len(q) |->
              IF n = 0 THEN <<>>
              ELSE LET x == q[n]
                   IN  IF from <= x.at /\ x.at <= to THEN Append(upto[n - 1], x) ELSE upto[n - 1]]
  <2> HIDE DEF f
  <2> QED BY <1>5 DEF upto
<1> HIDE DEF upto
<1> DEFINE K == {n \in 0..N : upto[n] = g[n]}
<1>7. 0 \in K
  BY <1>1, <1>2, <1>6
<1>8. \A n \in 0..(N - 1) : n \in K => n + 1 \in K
  <2> SUFFICES ASSUME NEW n \in 0..(N - 1), n \in K PROVE n + 1 \in K
    OBVIOUS
  <2> DEFINE m == n + 1
  <2>1. m \in 1..N /\ m \in 0..N /\ m # 0 /\ m - 1 = n
    BY <1>2
  <2> HIDE DEF m, f
  <2>2. upto[m] = IF from <= q[m].at /\ q[m].at <= to THEN Append(upto[n], q[m]) ELSE upto[n]
    BY <1>6, <2>1
  <2>3. g[m] = IF from <= q[m].at /\ q[m].at <= to THEN Append(g[n], q[m]) ELSE g[n]
    BY <1>4, <2>1
  <2>4. upto[n] = g[n]
    OBVIOUS
  <2>5. m \in K
    BY <2>1, <2>2, <2>3, <2>4
  <2> QED BY <2>5 DEF m
<1>9. upto[N] = g[N]
  <2>1. N \in K
    <3>1. N \in 0..N
      BY <1>2
    <3> HIDE DEF K, N
    <3> QED BY <3>1, <1>2, <1>7, <1>8, UpTo
  <2> QED BY <2>1
<1>10. Within(q, from, to) = upto[N]
  BY DEF Within, upto
<1> QED BY <1>1, <1>9, <1>10

(* An interval of a list, item by item. *)
LEMMA WithinLists ==
    ASSUME NEW from, NEW to
    PROVE  /\ Within(<<>>, from, to) = <<>>
           /\ \A q \in Seq(BucketItem) : Within(q, from, to) \in Seq(BucketItem)
           /\ \A q \in Seq(BucketItem), x \in BucketItem :
                 Within(Append(q, x), from, to) =
                    IF from <= x.at /\ x.at <= to THEN Append(Within(q, from, to), x)
                    ELSE Within(q, from, to)
           /\ \A q, r \in Seq(BucketItem) :
                 Within(q \o r, from, to) = Within(q, from, to) \o Within(r, from, to)
<1> DEFINE f == Chosen(from, to)
<1>1. f \in Maps(BucketItem, Seq(BucketItem))
  BY ChosenMaps
<1>2. \A q \in Seq(BucketItem) : Within(q, from, to) = FlatMap(f, q)
  BY WithinIsMap
<1>3. <<>> \in Seq(BucketItem)
  OBVIOUS
<1>4. \A x \in BucketItem : f[x] = IF from <= x.at /\ x.at <= to THEN <<x>> ELSE <<>>
  BY DEF Chosen
<1> HIDE DEF f
<1>5. FlatMap(f, <<>>) = <<>> /\ \A x \in Seq(BucketItem), a \in BucketItem : FlatMap(f, Append(x, a)) = FlatMap(f, x) \o f[a]
  BY <1>1, FlatMapAppend
<1>6. \A q, r \in Seq(BucketItem) : FlatMap(f, q) \in Seq(BucketItem) /\ FlatMap(f, q \o r) = FlatMap(f, q) \o FlatMap(f, r)
  <2> DEFINE A == BucketItem
             B == BucketItem
  <2>1. f \in Maps(A, Seq(B))
    BY <1>1
  <2> HIDE DEF A, B
  <2>2. \A x, y \in Seq(A) : FlatMap(f, x) \in Seq(B) /\ FlatMap(f, x \o y) = FlatMap(f, x) \o FlatMap(f, y)
    BY <2>1, FlatMapLists
  <2> QED BY <2>2 DEF A, B
<1>7. \A q, r \in Seq(BucketItem) : q \o r \in Seq(BucketItem)
  BY ConcatProperties
<1>8. ASSUME NEW q \in Seq(BucketItem), NEW x \in BucketItem
      PROVE  Within(Append(q, x), from, to) =
                    IF from <= x.at /\ x.at <= to THEN Append(Within(q, from, to), x)
                    ELSE Within(q, from, to)
  <2> DEFINE w == Within(q, from, to)
             qx == Append(q, x)
  <2>1. w \in Seq(BucketItem) /\ w = FlatMap(f, q) /\ qx \in Seq(BucketItem)
    BY <1>2, <1>6
  <2>2. FlatMap(f, qx) = w \o f[x]
    BY <2>1, <1>5
  <2>3. Within(qx, from, to) = FlatMap(f, qx)
    <3> HIDE DEF qx
    <3> QED BY <2>1, <1>2
  <2> HIDE DEF w, qx
  <2>4. w \o <<x>> = Append(w, x) /\ w \o <<>> = w
    BY <2>1, AppendIsConcat, ConcatEmptySeq
  <2>5. Within(qx, from, to) = IF from <= x.at /\ x.at <= to THEN Append(w, x) ELSE w
    BY <2>2, <2>3, <2>4, <1>4, Zenon
  <2> QED BY <2>5 DEF w, qx
<1>9. Within(<<>>, from, to) = <<>>
  BY <1>2, <1>3, <1>5
<1>10. \A q, r \in Seq(BucketItem) :
          Within(q \o r, from, to) = Within(q, from, to) \o Within(r, from, to)
  BY <1>2, <1>6, <1>7, Zenon
<1> QED BY <1>2, <1>6, <1>8, <1>9, <1>10

(* No item of the list lies in the interval. *)
LEMMA WithinNone ==
    ASSUME NEW from, NEW to, NEW q \in Seq(BucketItem),
           \A i \in 1..Len(q) : ~(from <= q[i].at /\ q[i].at <= to)
    PROVE  Within(q, from, to) = <<>>
<1> DEFINE A == {x \in BucketItem : ~(from <= x.at /\ x.at <= to)}
           S == {r \in Seq(BucketItem) : Within(r, from, to) = <<>>}
<1>1. q \in Seq(A)
  OBVIOUS
<1>2. <<>> \in S
  BY WithinLists
<1>3. ASSUME NEW r \in Seq(A), NEW a \in A, r \in S PROVE Append(r, a) \in S
  <2>1. r \in Seq(BucketItem) /\ a \in BucketItem /\ Append(r, a) \in Seq(BucketItem)
    BY <1>3
  <2>2. Within(Append(r, a), from, to) =
           IF from <= a.at /\ a.at <= to THEN Append(Within(r, from, to), a) ELSE Within(r, from, to)
    BY <2>1, WithinLists
  <2>3. ~(from <= a.at /\ a.at <= to)
    OBVIOUS
  <2> QED BY <2>1, <2>2, <2>3, <1>3
<1>4. q \in S
  <2> HIDE DEF S, A
  <2> QED BY <1>1, <1>2, <1>3, ListInduction
<1> QED BY <1>4

-----------------------------------------------------------------------------
(* The raw points of a list, as items. *)
RawItems(ops) == [i \in 1..Len(ops) |-> Item(ops[i])]

(* A raw point is an item of its second, with itself as its only part. *)
LEMMA ItemOf ==
    ASSUME NEW op \in Op
    PROVE  /\ Item(op) \in BucketItem /\ Item(op).at = op.at /\ Item(op).parts = <<{op}>>
           /\ op.at \in Nat
<1>1. op.at \in WordSet /\ op.at \in Nat
  BY WordAssumption, TimeAssumption DEF Op, WordSet
<1>2. <<{op}>> \in Seq(SUBSET Op)
  OBVIOUS
<1> QED BY <1>1, <1>2 DEF Item, BucketItem

(* The raw points of a list are as many items, in its order. *)
LEMMA RawItemsList ==
    ASSUME NEW x \in Seq(Op), NEW y \in Seq(Op)
    PROVE  /\ RawItems(x) \in Seq(BucketItem) /\ Len(RawItems(x)) = Len(x)
           /\ RawItems(x \o y) = RawItems(x) \o RawItems(y)
           /\ RawItems(<<>>) = <<>>
<1> DEFINE f == [o \in Op |-> Item(o)]
<1>1. f \in Maps(Op, BucketItem)
  BY ItemOf DEF Maps
<1>2. \A q \in Seq(Op) : RawItems(q) = Mapped(f, q)
  <2> SUFFICES ASSUME NEW q \in Seq(Op) PROVE RawItems(q) = Mapped(f, q)
    OBVIOUS
  <2>1. \A i \in 1..Len(q) : f[q[i]] = Item(q[i])
    OBVIOUS
  <2> HIDE DEF f
  <2> QED BY <2>1 DEF RawItems, Mapped
<1>3. x \o y \in Seq(Op) /\ <<>> \in Seq(Op)
  BY ConcatProperties
<1> HIDE DEF f
<1>4. /\ Mapped(f, x) \in Seq(BucketItem) /\ Len(Mapped(f, x)) = Len(x)
      /\ Mapped(f, x \o y) = Mapped(f, x) \o Mapped(f, y)
      /\ Mapped(f, <<>>) = <<>>
  BY <1>1, MappedLists
<1> QED BY <1>2, <1>3, <1>4

(* A segment holds its raw points or its buckets. *)
LEMMA SegmentItems ==
    ASSUME NEW seg \in Encoded
    PROVE  /\ seg.bucket \in BOOLEAN
           /\ Items(seg) = IF seg.bucket THEN BucketsIn(seg) ELSE RawItems(RawIn(seg))
           /\ Items(seg) \in Seq(BucketItem)
           /\ seg.bucket => RawIn(seg) = <<>>
           /\ ~seg.bucket => BucketsIn(seg) = <<>>
<1>1. RawIn(seg) \in Seq(Op) /\ BucketsIn(seg) \in Seq(BucketItem)
  BY EncodedContent
<1>2. seg.bucket \in BOOLEAN
  BY SegmentDecodes DEF Encoded
<1>3. Items(seg) = IF seg.bucket THEN BucketsIn(seg) ELSE RawItems(RawIn(seg))
  <2>1. CASE seg.bucket
    BY <2>1 DEF Items, BucketsIn
  <2>2. CASE ~seg.bucket
    <3>1. RawIn(seg) = DecodeRaw(seg.data) /\ Items(seg) = [i \in DOMAIN DecodeRaw(seg.data) |-> Item(DecodeRaw(seg.data)[i])]
      BY <2>2 DEF RawIn, Items
    <3>2. DOMAIN RawIn(seg) = 1..Len(RawIn(seg))
      BY <1>1
    <3> QED BY <3>1, <3>2, <2>2 DEF RawItems
  <2> QED BY <2>1, <2>2
<1>4. RawItems(RawIn(seg)) \in Seq(BucketItem)
  BY <1>1, RawItemsList
<1>5. Items(seg) \in Seq(BucketItem)
  BY <1>1, <1>3, <1>4, Zenon
<1> QED BY <1>1, <1>2, <1>3, <1>5 DEF RawIn, BucketsIn

(* A list among those put together is a piece of the whole. *)
LEMMA PieceOfFlatten ==
    ASSUME NEW A, NEW seqs \in Seq(Seq(A)), NEW i \in 1..Len(seqs)
    PROVE  \E x, y \in Seq(A) : FlattenSeq(seqs) = (x \o seqs[i]) \o y
<1>0. \A a, b, c \in Seq(A) : (a \o b) \o c = a \o (b \o c)
  BY Associative, SMTT(30)
<1> DEFINE n == Len(seqs)
           SA == Seq(A)
<1>1. PICK g \in [0..Len(seqs) -> Seq(A)] :
              /\ g[0] = <<>>
              /\ \A k \in 1..Len(seqs) : g[k] = g[k - 1] \o seqs[k]
              /\ FlattenSeq(seqs) = g[Len(seqs)]
  BY FlattenPrefixes
<1>2. n \in Nat /\ i \in Nat /\ i \in 0..n /\ i - 1 \in 0..n /\ n - i \in Nat
  OBVIOUS
<1>3. \A k \in 1..n : seqs[k] \in SA
  OBVIOUS
<1>4. \A k \in 0..n : g[k] \in SA
  BY <1>1
<1> DEFINE K == {m \in 0..(n - i) : \E y \in SA : g[i + m] = g[i] \o y}
<1>5. 0 \in K
  <2>1. g[i] \o <<>> = g[i] /\ <<>> \in SA
    BY <1>2, <1>4, ConcatEmptySeq
  <2>2. i + 0 = i /\ 0 \in 0..(n - i)
    BY <1>2
  <2>3. g[i + 0] = g[i] \o <<>>
    BY <2>1, <2>2
  <2> QED BY <2>1, <2>2, <2>3
<1>6. ASSUME NEW m \in 0..((n - i) - 1), m \in K PROVE m + 1 \in K
  <2> DEFINE j == i + (m + 1)
  <2>1. j \in 1..n /\ j - 1 = i + m /\ m + 1 \in 0..(n - i)
    BY <1>2
  <2>2. PICK y \in SA : g[i + m] = g[i] \o y
    BY <1>6
  <2>3. g[j] = g[i + m] \o seqs[j]
    <3>1. \A k \in 1..n : g[k] = g[k - 1] \o seqs[k]
      BY <1>1
    <3> HIDE DEF j
    <3> QED BY <2>1, <3>1
  <2>4. g[i] \in SA /\ seqs[j] \in SA
    <3> HIDE DEF j, SA
    <3> QED BY <1>2, <1>3, <1>4, <2>1
  <2> DEFINE gi == g[i]
             sj == seqs[j]
             z == y \o sj
  <2>5. z \in SA /\ (gi \o y) \o sj = gi \o z
    <3>1. gi \in Seq(A) /\ y \in Seq(A) /\ sj \in Seq(A)
      BY <2>4
    <3> HIDE DEF gi, sj
    <3>2. y \o sj \in Seq(A)
      BY <3>1, ConcatProperties
    <3>3. (gi \o y) \o sj = gi \o (y \o sj)
      <4> QED BY <3>1, <1>0, Zenon
    <3> QED BY <3>2, <3>3
  <2>6. g[j] = g[i] \o z
    <3>1. g[j] = (gi \o y) \o sj
      BY <2>2, <2>3
    <3> QED BY <3>1, <2>5, Zenon
  <2> HIDE DEF z, SA
  <2> QED BY <2>1, <2>5, <2>6
<1>7. n - i \in K
  <2>1. n - i \in 0..(n - i)
    BY <1>2
  <2> HIDE DEF K
  <2> QED BY <2>1, <1>2, <1>5, <1>6, UpTo
<1>8. PICK y \in SA : g[i + (n - i)] = g[i] \o y
  BY <1>7
<1>9. g[n] = (g[i - 1] \o seqs[i]) \o y
  <2>1. i + (n - i) = n
    BY <1>2
  <2>2. g[i] = g[i - 1] \o seqs[i]
    BY <1>1
  <2> HIDE DEF n
  <2> QED BY <2>1, <2>2, <1>8
<1>10. g[i - 1] \in SA
  BY <1>2, <1>4
<1>11. FlattenSeq(seqs) = g[n]
  BY <1>1
<1> DEFINE x == g[i - 1]
<1>12. FlattenSeq(seqs) = (x \o seqs[i]) \o y
  BY <1>9, <1>11, Zenon
<1> HIDE DEF x
<1> QED BY <1>8, <1>10, <1>12 DEF x

(* What lies in time order, by any two of its elements. *)
Ordered(q) == \A i, j \in 1..Len(q) : i <= j => q[i].at <= q[j].at

(* A piece of a list in time order is in time order. *)
LEMMA OrderedPiece ==
    ASSUME NEW A, NEW x \in Seq(A), NEW p \in Seq(A), NEW y \in Seq(A), Ordered((x \o p) \o y)
    PROVE  Ordered(p)
<1> SUFFICES ASSUME NEW i \in 1..Len(p), NEW j \in 1..Len(p), i <= j
             PROVE  p[i].at <= p[j].at
  BY DEF Ordered
<1> DEFINE xp == x \o p
           q == xp \o y
           a == Len(x) + i
           b == Len(x) + j
<1>1. /\ xp \in Seq(A) /\ Len(xp) = Len(x) + Len(p) /\ Len(x) \in Nat /\ Len(p) \in Nat /\ Len(y) \in Nat
      /\ \A k \in 1..(Len(x) + Len(p)) : xp[k] = IF k <= Len(x) THEN x[k] ELSE p[k - Len(x)]
  BY ConcatProperties
<1> HIDE DEF xp
<1>2. /\ q \in Seq(A) /\ Len(q) = Len(xp) + Len(y)
      /\ \A k \in 1..(Len(xp) + Len(y)) : q[k] = IF k <= Len(xp) THEN xp[k] ELSE y[k - Len(xp)]
  BY <1>1, ConcatProperties
<1>3. Ordered(q)
  BY DEF xp
<1> HIDE DEF q
<1>4. ASSUME NEW k \in 1..Len(p) PROVE q[Len(x) + k] = p[k] /\ Len(x) + k \in 1..Len(q)
  <2> DEFINE c == Len(x) + k
  <2>1. c \in 1..(Len(x) + Len(p)) /\ c \in 1..(Len(xp) + Len(y)) /\ c <= Len(xp) /\ ~(c <= Len(x))
        /\ c - Len(x) = k
    BY <1>1
  <2> HIDE DEF c
  <2>2. q[c] = xp[c]
    BY <2>1, <1>2
  <2>3. xp[c] = p[k]
    BY <2>1, <1>1
  <2> QED BY <2>1, <2>2, <2>3, <1>2 DEF c
<1>5. q[a] = p[i] /\ q[b] = p[j] /\ a \in 1..Len(q) /\ b \in 1..Len(q)
  BY <1>4
<1>6. a <= b
  BY <1>1
<1> HIDE DEF a, b
<1>7. q[a].at <= q[b].at
  BY <1>3, <1>5, <1>6 DEF Ordered
<1> QED BY <1>5, <1>7

(* A segment spans its items when they lie in time order. *)
Spanning ==
    {seg \in Encoded : \A i \in 1..Len(Items(seg)) :
        seg.from <= Items(seg)[i].at /\ Items(seg)[i].at <= seg.to}

(* Of a series in time order, every segment spans what it holds. *)
LEMMA SegmentsSpan ==
    ASSUME NEW s \in Seq(Encoded), Ordered(Decoded(s).raw), Ordered(Decoded(s).buckets)
    PROVE  s \in Seq(Spanning)
<1>1. ASSUME NEW n \in 1..Len(s) PROVE s[n] \in Spanning
  <2> DEFINE seg == s[n]
             ops == RawIn(seg)
             buckets == BucketsIn(seg)
             items == Items(seg)
  <2>1. seg \in Encoded
    OBVIOUS
  <2> HIDE DEF seg
  <2>2. ops \in Seq(Op) /\ buckets \in Seq(BucketItem)
    BY <2>1, EncodedContent
  <2>3. Ordered(ops)
    <3> DEFINE ls == RawLists(s)
    <3>1. ls \in Seq(Seq(Op)) /\ Len(ls) = Len(s) /\ ls[n] = ops
      <4>1. ls \in Seq(Seq(Op))
        BY ListsOfSegments
      <4> QED BY <4>1 DEF RawLists, seg
    <3>2. n \in 1..Len(ls) /\ ls \in Seq(Seq(Op))
      BY <3>1
    <3>3. FlattenSeq(ls) = Decoded(s).raw
      BY DecodedAs
    <3> HIDE DEF ls, ops
    <3>4. PICK x, y \in Seq(Op) : FlattenSeq(ls) = (x \o ls[n]) \o y
      BY <3>2, PieceOfFlatten
    <3>5. Ordered((x \o ops) \o y)
      BY <3>1, <3>3, <3>4
    <3> QED BY <3>5, <2>2, OrderedPiece
  <2>4. Ordered(buckets)
    <3> DEFINE ls == BucketLists(s)
    <3>1. ls \in Seq(Seq(BucketItem)) /\ Len(ls) = Len(s) /\ ls[n] = buckets
      <4>1. ls \in Seq(Seq(BucketItem))
        BY ListsOfSegments
      <4> QED BY <4>1 DEF BucketLists, seg
    <3>2. n \in 1..Len(ls) /\ ls \in Seq(Seq(BucketItem))
      BY <3>1
    <3>3. FlattenSeq(ls) = Decoded(s).buckets
      BY DecodedAs
    <3> HIDE DEF ls, buckets
    <3>4. PICK x, y \in Seq(BucketItem) : FlattenSeq(ls) = (x \o ls[n]) \o y
      BY <3>2, PieceOfFlatten
    <3>5. Ordered((x \o buckets) \o y)
      BY <3>1, <3>3, <3>4
    <3> QED BY <3>5, <2>2, OrderedPiece
  <2>5. /\ Len(items) \in 1..SegmentSize
        /\ seg.from = items[1].at
        /\ seg.to = items[Len(items)].at
    BY <2>1, ItemsOfSegment
  <2>6. items = IF seg.bucket THEN buckets ELSE RawItems(ops)
    BY <2>1, SegmentItems
  <2>7. Ordered(items)
    <3>1. Ordered(RawItems(ops))
      <4>1. Len(RawItems(ops)) = Len(ops)
        BY <2>2, RawItemsList
      <4>2. \A i \in 1..Len(ops) : RawItems(ops)[i].at = ops[i].at
        BY DEF RawItems, Item
      <4> HIDE DEF ops
      <4> QED BY <4>1, <4>2, <2>3 DEF Ordered
    <3> QED BY <3>1, <2>4, <2>6, Zenon
  <2> HIDE DEF items
  <2>8. \A i \in 1..Len(items) : 1 <= i /\ i <= Len(items) /\ 1 \in 1..Len(items) /\ Len(items) \in 1..Len(items)
    BY <2>5
  <2>9. \A i \in 1..Len(items) : seg.from <= items[i].at /\ items[i].at <= seg.to
    BY <2>5, <2>7, <2>8 DEF Ordered
  <2> QED BY <2>1, <2>9 DEF Spanning, items, seg
<1> QED BY <1>1

-----------------------------------------------------------------------------
(* The seconds of items are words. *)
LEMMA ItemTimes ==
    \A x \in BucketItem : x.at \in WordSet /\ x.at \in Nat /\ x.parts \in Seq(SUBSET Op)
<1> TAKE x \in BucketItem
<1>1. x.at \in WordSet /\ x.parts \in Seq(SUBSET Op)
  BY DEF BucketItem
<1>2. x.at \in Nat
  BY <1>1, SegmentsAssumption DEF WordSet
<1> QED BY <1>1, <1>2

(* A segment that is not decoded holds no item of the interval: a scan     *)
(* folds what it would fold had it decoded all of them.                    *)
LEMMA MissedSegment ==
    ASSUME NEW seg \in Spanning, NEW from \in Nat, NEW to \in Nat
    PROVE  /\ Within(Items(seg), from, to) \in Seq(BucketItem)
           /\ ~Hit(seg, from, to) => Within(Items(seg), from, to) = <<>>
<1> DEFINE items == Items(seg)
<1>1. seg \in Encoded /\ \A i \in 1..Len(items) : seg.from <= items[i].at /\ items[i].at <= seg.to
  BY DEF Spanning
<1>2. items \in Seq(BucketItem)
  BY <1>1, SegmentItems
<1>3. seg.from \in Nat /\ seg.to \in Nat
  <2>1. Len(items) \in 1..SegmentSize /\ seg.from = items[1].at /\ seg.to = items[Len(items)].at
    BY <1>1, ItemsOfSegment
  <2>2. \A i \in 1..Len(items) : items[i].at \in Nat
    BY <1>2, ItemTimes
  <2> HIDE DEF items
  <2>3. 1 \in 1..Len(items) /\ Len(items) \in 1..Len(items)
    BY <2>1
  <2> QED BY <2>1, <2>2, <2>3
<1> HIDE DEF items
<1>4. ASSUME ~Hit(seg, from, to) PROVE Within(items, from, to) = <<>>
  <2>1. seg.to < from \/ seg.from > to
    BY <1>4 DEF Hit
  <2>2. \A i \in 1..Len(items) : items[i].at \in Nat
    BY <1>2, ItemTimes
  <2>3. \A i \in 1..Len(items) : ~(from <= items[i].at /\ items[i].at <= to)
    BY <2>1, <2>2, <1>1, <1>3
  <2> QED BY <2>3, <1>2, WithinNone
<1>5. Within(items, from, to) \in Seq(BucketItem)
  BY <1>2, WithinLists
<1> QED BY <1>4, <1>5 DEF items

Met(from, to) == [seg \in Spanning |-> Within(Items(seg), from, to)]

(* What a scan meets is such a map too: the items of a segment within the  *)
(* interval, or nothing when its header says that it may be passed over.   *)
LEMMA StreamIsMap ==
    ASSUME NEW from \in Nat, NEW to \in Nat, NEW s \in Seq(Spanning)
    PROVE  /\ Met(from, to) \in Maps(Spanning, Seq(BucketItem))
           /\ Stream(s, from, to) = FlatMap(Met(from, to), s)
<1> DEFINE f == Met(from, to)
           N == Len(s)
           upto[n \in 0..Len(s)] ==
               IF n = 0 THEN <<>>
               ELSE IF Hit(s[n], from, to) THEN upto[n - 1] \o Within(Items(s[n]), from, to) ELSE upto[n - 1]
<1>0. f \in Maps(Spanning, Seq(BucketItem))
  BY MissedSegment DEF Met, Maps
<1>1. PICK g \in [0..Len(s) -> Seq(BucketItem)] :
              /\ g[0] = <<>>
              /\ \A i \in 1..Len(s) : g[i] = g[i - 1] \o f[s[i]]
              /\ FlatMap(f, s) = g[Len(s)]
  <2> HIDE DEF f
  <2>1. FlatPrefixes(f, s, BucketItem) # {}
    BY <1>0, FlatMapPrefixes
  <2> QED BY <2>1 DEF FlatPrefixes
<1>2. N \in Nat /\ \A i \in 1..N : s[i] \in Spanning /\ i - 1 \in 0..N
  OBVIOUS
<1>3. ASSUME NEW i \in 1..N, NEW p \in Seq(BucketItem)
      PROVE  p \o f[s[i]] = IF Hit(s[i], from, to) THEN p \o Within(Items(s[i]), from, to) ELSE p
  <2> DEFINE x == s[i]
  <2>1. x \in Spanning
    BY <1>2
  <2> HIDE DEF x
  <2>2. f[x] = Within(Items(x), from, to)
    BY <2>1 DEF Met
  <2>3. ~Hit(x, from, to) => f[x] = <<>>
    BY <2>1, <2>2, MissedSegment
  <2>4. p \o <<>> = p
    BY ConcatEmptySeq
  <2> HIDE DEF f
  <2>5. p \o f[x] = IF Hit(x, from, to) THEN p \o Within(Items(x), from, to) ELSE p
    BY <2>2, <2>3, <2>4, Zenon
  <2> QED BY <2>5 DEF x
<1>4. \A i \in 1..N : g[i] = IF Hit(s[i], from, to) THEN g[i - 1] \o Within(Items(s[i]), from, to) ELSE g[i - 1]
  <2> SUFFICES ASSUME NEW i \in 1..N
               PROVE  g[i] = IF Hit(s[i], from, to) THEN g[i - 1] \o Within(Items(s[i]), from, to) ELSE g[i - 1]
    OBVIOUS
  <2>1. g[i - 1] \in Seq(BucketItem) /\ g[i] = g[i - 1] \o f[s[i]]
    BY <1>1, <1>2
  <2> DEFINE p == g[i - 1]
  <2> HIDE DEF p, f, N
  <2> QED BY <2>1, <1>3 DEF p
<1>5. g = [n \in 0..Len(s) |->
              IF n = 0 THEN <<>>
              ELSE IF Hit(s[n], from, to) THEN g[n - 1] \o Within(Items(s[n]), from, to) ELSE g[n - 1]]
  <2>1. \A n \in 0..N : n # 0 => n \in 1..N
    BY <1>2
  <2> HIDE DEF f
  <2> QED BY <1>1, <1>4, <2>1
<1>6. upto = [n \in 0..Len(s) |->
              IF n = 0 THEN <<>>
              ELSE IF Hit(s[n], from, to) THEN upto[n - 1] \o Within(Items(s[n]), from, to) ELSE upto[n - 1]]
  <2> HIDE DEF f
  <2> QED BY <1>5 DEF upto
<1> HIDE DEF upto
<1> DEFINE K == {n \in 0..N : upto[n] = g[n]}
<1>7. 0 \in K
  BY <1>1, <1>2, <1>6
<1>8. \A n \in 0..(N - 1) : n \in K => n + 1 \in K
  <2> SUFFICES ASSUME NEW n \in 0..(N - 1), n \in K PROVE n + 1 \in K
    OBVIOUS
  <2> DEFINE m == n + 1
  <2>1. m \in 1..N /\ m \in 0..N /\ m # 0 /\ m - 1 = n
    BY <1>2
  <2> HIDE DEF m, f
  <2>2. upto[m] = IF Hit(s[m], from, to) THEN upto[n] \o Within(Items(s[m]), from, to) ELSE upto[n]
    BY <1>6, <2>1
  <2>3. g[m] = IF Hit(s[m], from, to) THEN g[n] \o Within(Items(s[m]), from, to) ELSE g[n]
    BY <1>4, <2>1
  <2>4. upto[n] = g[n]
    OBVIOUS
  <2>5. m \in K
    BY <2>1, <2>2, <2>3, <2>4
  <2> QED BY <2>5 DEF m
<1>9. upto[N] = g[N]
  <2>1. N \in K
    <3>1. N \in 0..N
      BY <1>2
    <3> HIDE DEF K, N
    <3> QED BY <3>1, <1>2, <1>7, <1>8, UpTo
  <2> QED BY <2>1
<1>10. Stream(s, from, to) = upto[N]
  BY DEF Stream, upto
<1> QED BY <1>0, <1>1, <1>9, <1>10

(* A scan, segment by segment. *)
LEMMA StreamAppend ==
    ASSUME NEW from \in Nat, NEW to \in Nat
    PROVE  /\ Stream(<<>>, from, to) = <<>>
           /\ \A s \in Seq(Spanning), seg \in Spanning :
                 Stream(Append(s, seg), from, to) = Stream(s, from, to) \o Within(Items(seg), from, to)
           /\ \A s, t \in Seq(Spanning) :
                 /\ Stream(s, from, to) \in Seq(BucketItem)
                 /\ Stream(s \o t, from, to) = Stream(s, from, to) \o Stream(t, from, to)
<1> DEFINE f == Met(from, to)
<1>1. <<>> \in Seq(Spanning) /\ \A s \in Seq(Spanning), seg \in Spanning : Append(s, seg) \in Seq(Spanning)
  OBVIOUS
<1>2. f \in Maps(Spanning, Seq(BucketItem))
  BY <1>1, StreamIsMap
<1>3. \A s \in Seq(Spanning) : Stream(s, from, to) = FlatMap(f, s)
  BY StreamIsMap
<1>4. \A seg \in Spanning : f[seg] = Within(Items(seg), from, to)
  BY DEF Met
<1> HIDE DEF f
<1>5. /\ FlatMap(f, <<>>) = <<>>
      /\ \A s \in Seq(Spanning), seg \in Spanning : FlatMap(f, Append(s, seg)) = FlatMap(f, s) \o f[seg]
  BY <1>2, FlatMapAppend
<1>6. \A s, t \in Seq(Spanning) : FlatMap(f, s) \in Seq(BucketItem) /\ FlatMap(f, s \o t) = FlatMap(f, s) \o FlatMap(f, t)
  BY <1>2, FlatMapLists
<1>7. \A s, t \in Seq(Spanning) : s \o t \in Seq(Spanning)
  BY ConcatProperties
<1>8. Stream(<<>>, from, to) = <<>>
  BY <1>1, <1>3, <1>5
<1>9. \A s \in Seq(Spanning), seg \in Spanning :
          Stream(Append(s, seg), from, to) = Stream(s, from, to) \o Within(Items(seg), from, to)
  BY <1>1, <1>3, <1>4, <1>5, Zenon
<1>10. \A s, t \in Seq(Spanning) :
          /\ Stream(s, from, to) \in Seq(BucketItem)
          /\ Stream(s \o t, from, to) = Stream(s, from, to) \o Stream(t, from, to)
  BY <1>3, <1>6, <1>7, Zenon
<1> QED BY <1>8, <1>9, <1>10

(* All items of some segments, in the order they are stored. *)
AllItems(s) == FlattenSeq([i \in 1..Len(s) |-> Items(s[i])])

(* The items of a list of segments are those of its parts. *)
LEMMA AllItemsAppend ==
    /\ AllItems(<<>>) = <<>>
    /\ \A s \in Seq(Encoded) : AllItems(s) \in Seq(BucketItem)
    /\ \A s \in Seq(Encoded), seg \in Encoded : AllItems(Append(s, seg)) = AllItems(s) \o Items(seg)
    /\ \A s, t \in Seq(Encoded) : AllItems(s \o t) = AllItems(s) \o AllItems(t)
<1> DEFINE f == [seg \in Encoded |-> Items(seg)]
<1>1. f \in Maps(Encoded, Seq(BucketItem))
  BY SegmentItems DEF Maps
<1>2. \A seg \in Encoded : f[seg] = Items(seg)
  OBVIOUS
<1>3. \A s \in Seq(Encoded) : AllItems(s) = FlatMap(f, s)
  <2> TAKE s \in Seq(Encoded)
  <2>1. \A i \in 1..Len(s) : f[s[i]] = Items(s[i])
    OBVIOUS
  <2> HIDE DEF f
  <2> QED BY <2>1 DEF AllItems, FlatMap, Mapped
<1> HIDE DEF f
<1>4. /\ FlatMap(f, <<>>) = <<>>
      /\ \A s \in Seq(Encoded), seg \in Encoded : FlatMap(f, Append(s, seg)) = FlatMap(f, s) \o f[seg]
  BY <1>1, FlatMapAppend
<1>5. \A s, t \in Seq(Encoded) : FlatMap(f, s) \in Seq(BucketItem) /\ FlatMap(f, s \o t) = FlatMap(f, s) \o FlatMap(f, t)
  BY <1>1, FlatMapLists
<1>6. <<>> \in Seq(Encoded) /\ \A s \in Seq(Encoded), seg \in Encoded : Append(s, seg) \in Seq(Encoded)
  OBVIOUS
<1>7. \A s, t \in Seq(Encoded) : s \o t \in Seq(Encoded)
  BY ConcatProperties
<1>8. AllItems(<<>>) = <<>> /\ \A s \in Seq(Encoded) : AllItems(s) \in Seq(BucketItem)
  BY <1>3, <1>4, <1>5, <1>6
<1>9. \A s \in Seq(Encoded), seg \in Encoded : AllItems(Append(s, seg)) = AllItems(s) \o Items(seg)
  BY <1>2, <1>3, <1>4, <1>6, Zenon
<1>10. \A s, t \in Seq(Encoded) : AllItems(s \o t) = AllItems(s) \o AllItems(t)
  BY <1>3, <1>5, <1>7, Zenon
<1> QED BY <1>8, <1>9, <1>10

(* A scan folds the items of the interval, in the order of the segments. *)
LEMMA StreamIsWithin ==
    ASSUME NEW from \in Nat, NEW to \in Nat, NEW s \in Seq(Spanning)
    PROVE  Stream(s, from, to) = Within(AllItems(s), from, to)
<1> DEFINE S == {t \in Seq(Spanning) : Stream(t, from, to) = Within(AllItems(t), from, to)}
<1>1. <<>> \in S
  <2>1. <<>> \in Seq(Spanning)
    OBVIOUS
  <2>2. Stream(<<>>, from, to) = <<>>
    BY StreamAppend
  <2>3. Within(AllItems(<<>>), from, to) = <<>>
    BY AllItemsAppend, WithinLists
  <2> QED BY <2>1, <2>2, <2>3
<1>2. ASSUME NEW t \in Seq(Spanning), NEW seg \in Spanning, t \in S PROVE Append(t, seg) \in S
  <2>1. t \in Seq(Encoded) /\ seg \in Encoded /\ Append(t, seg) \in Seq(Spanning)
    BY DEF Spanning
  <2> DEFINE u == AllItems(t)
             v == Items(seg)
  <2>2. AllItems(Append(t, seg)) = u \o v /\ u \in Seq(BucketItem) /\ v \in Seq(BucketItem)
    <3>1. AllItems(Append(t, seg)) = u \o v /\ u \in Seq(BucketItem)
      BY <2>1, AllItemsAppend
    <3>2. v \in Seq(BucketItem)
      BY <2>1, SegmentItems
    <3> QED BY <3>1, <3>2
  <2>3. Stream(Append(t, seg), from, to) = Stream(t, from, to) \o Within(v, from, to)
    BY StreamAppend
  <2>4. Stream(t, from, to) = Within(u, from, to)
    BY <1>2
  <2> HIDE DEF u, v
  <2>5. Within(u \o v, from, to) = Within(u, from, to) \o Within(v, from, to)
    BY <2>2, WithinLists
  <2>6. Stream(Append(t, seg), from, to) = Within(AllItems(Append(t, seg)), from, to)
    BY <2>2, <2>3, <2>4, <2>5, Zenon
  <2> QED BY <2>1, <2>6
<1>3. s \in S
  <2> HIDE DEF S
  <2> QED BY <1>1, <1>2, ListInduction
<1> QED BY <1>3

(* The segments of one kind. *)
LEMMA OfKindAppend ==
    ASSUME NEW b \in BOOLEAN
    PROVE  /\ OfKind(<<>>, b) = <<>>
           /\ \A s \in Seq(Spanning) : OfKind(s, b) \in Seq(Spanning)
           /\ \A s \in Seq(Spanning), seg \in Spanning :
                 OfKind(Append(s, seg), b) =
                    OfKind(s, b) \o (IF seg.bucket = b THEN <<seg>> ELSE <<>>)
<1> DEFINE f == [seg \in Spanning |-> IF seg.bucket = b THEN <<seg>> ELSE <<>>]
<1>1. f \in Maps(Spanning, Seq(Spanning))
  <2>1. \A x \in Spanning : <<x>> \in Seq(Spanning) /\ <<>> \in Seq(Spanning)
    BY OneElement, EmptySeq
  <2> QED BY <2>1 DEF Maps
<1>2. \A seg \in Spanning : f[seg] = IF seg.bucket = b THEN <<seg>> ELSE <<>>
  OBVIOUS
<1>3. \A s \in Seq(Spanning) : OfKind(s, b) = FlatMap(f, s)
  <2> TAKE s \in Seq(Spanning)
  <2>1. \A i \in 1..Len(s) : f[s[i]] = IF s[i].bucket = b THEN <<s[i]>> ELSE <<>>
    OBVIOUS
  <2> HIDE DEF f
  <2> QED BY <2>1 DEF OfKind, FlatMap, Mapped
<1> HIDE DEF f
<1>4. /\ FlatMap(f, <<>>) = <<>>
      /\ \A s \in Seq(Spanning), seg \in Spanning : FlatMap(f, Append(s, seg)) = FlatMap(f, s) \o f[seg]
  BY <1>1, FlatMapAppend
<1>5. \A s \in Seq(Spanning) : FlatMap(f, s) \in Seq(Spanning)
  <2> DEFINE A == Spanning
             B == Spanning
  <2>1. f \in Maps(A, Seq(B))
    BY <1>1
  <2> HIDE DEF A, B
  <2>2. \A x \in Seq(A) : FlatMap(f, x) \in Seq(B)
    BY <2>1, FlatMapLists
  <2> QED BY <2>2 DEF A, B
<1>6. <<>> \in Seq(Spanning) /\ \A s \in Seq(Spanning), seg \in Spanning : Append(s, seg) \in Seq(Spanning)
  OBVIOUS
<1>7. OfKind(<<>>, b) = <<>> /\ \A s \in Seq(Spanning) : OfKind(s, b) \in Seq(Spanning)
  BY <1>3, <1>4, <1>5, <1>6
<1>8. \A s \in Seq(Spanning), seg \in Spanning :
         OfKind(Append(s, seg), b) = OfKind(s, b) \o (IF seg.bucket = b THEN <<seg>> ELSE <<>>)
  BY <1>2, <1>3, <1>4, <1>6, Zenon
<1> QED BY <1>7, <1>8

(* Where no segment of the other kind meets the interval, a scan of one    *)
(* kind folds what a scan of all of them would.                            *)
LEMMA OtherKindMissed ==
    ASSUME NEW b \in BOOLEAN, NEW from \in Nat, NEW to \in Nat, NEW s \in Seq(Spanning),
           \A i \in 1..Len(s) : s[i].bucket # b => ~Hit(s[i], from, to)
    PROVE  Stream(OfKind(s, b), from, to) = Stream(s, from, to)
<1> DEFINE A == {seg \in Spanning : seg.bucket # b => ~Hit(seg, from, to)}
           S == {t \in Seq(Spanning) : Stream(OfKind(t, b), from, to) = Stream(t, from, to)}
<1>0. /\ \A x \in Seq(Spanning), seg \in Spanning :
            Stream(Append(x, seg), from, to) = Stream(x, from, to) \o Within(Items(seg), from, to)
      /\ \A x \in Seq(Spanning) : Stream(x, from, to) \in Seq(BucketItem)
  BY StreamAppend
<1>1. s \in Seq(A)
  OBVIOUS
<1>2. <<>> \in S
  <2>1. <<>> \in Seq(Spanning)
    OBVIOUS
  <2>2. OfKind(<<>>, b) = <<>>
    BY OfKindAppend
  <2> QED BY <2>1, <2>2
<1>3. ASSUME NEW t \in Seq(A), NEW seg \in A, t \in S PROVE Append(t, seg) \in S
  <2>1. t \in Seq(Spanning) /\ seg \in Spanning /\ Append(t, seg) \in Seq(Spanning)
        /\ <<seg>> \in Seq(Spanning) /\ <<>> \in Seq(Spanning)
    BY <1>3
  <2> DEFINE k == OfKind(t, b)
             u == Stream(t, from, to)
             w == Within(Items(seg), from, to)
  <2>2. OfKind(Append(t, seg), b) = k \o (IF seg.bucket = b THEN <<seg>> ELSE <<>>) /\ k \in Seq(Spanning)
    BY <2>1, OfKindAppend
  <2>3. Stream(k, from, to) = u
    BY <1>3
  <2>4. Stream(Append(t, seg), from, to) = u \o w /\ u \in Seq(BucketItem)
    BY <2>1, <1>0
  <2>5. CASE seg.bucket = b
    <3>1. OfKind(Append(t, seg), b) = Append(k, seg)
      <4> HIDE DEF k
      <4>1. k \o <<seg>> = Append(k, seg)
        BY <2>1, <2>2, AppendIsConcat
      <4> QED BY <4>1, <2>2, <2>5, Zenon
    <3>2. Stream(Append(k, seg), from, to) = Stream(k, from, to) \o w
      <4> HIDE DEF k
      <4> QED BY <2>1, <2>2, <1>0
    <3> QED BY <2>1, <2>3, <2>4, <3>1, <3>2
  <2>6. CASE seg.bucket # b
    <3>1. OfKind(Append(t, seg), b) = k
      <4> HIDE DEF k
      <4>1. k \o <<>> = k
        BY <2>2, ConcatEmptySeq
      <4> QED BY <4>1, <2>2, <2>6, Zenon
    <3>2. w = <<>>
      BY <2>1, <2>6, MissedSegment
    <3>3. u \o w = u
      <4> HIDE DEF u, w
      <4> QED BY <3>2, <2>4, ConcatEmptySeq
    <3> QED BY <2>1, <2>3, <2>4, <3>1, <3>3
  <2> QED BY <2>5, <2>6
<1>4. s \in S
  <2> HIDE DEF S, A
  <2> QED BY <1>1, <1>2, <1>3, ListInduction
<1> QED BY <1>4

-----------------------------------------------------------------------------
(* What the items of a list are aggregated from, item by item. *)
LEMMA PartsOfLists ==
    /\ PartsOf(<<>>) = <<>>
    /\ \A q \in Seq(BucketItem) : PartsOf(q) \in Seq(SUBSET Op)
    /\ \A q \in Seq(BucketItem), x \in BucketItem : PartsOf(Append(q, x)) = PartsOf(q) \o x.parts
    /\ \A q, r \in Seq(BucketItem) : PartsOf(q \o r) = PartsOf(q) \o PartsOf(r)
<1> DEFINE f == [x \in BucketItem |-> x.parts]
           P == SUBSET Op
<1>1. f \in Maps(BucketItem, Seq(P))
  BY ItemTimes DEF Maps
<1>2. \A x \in BucketItem : f[x] = x.parts
  OBVIOUS
<1>3. \A q \in Seq(BucketItem) : PartsOf(q) = FlatMap(f, q)
  <2> TAKE q \in Seq(BucketItem)
  <2>1. \A i \in 1..Len(q) : f[q[i]] = q[i].parts
    OBVIOUS
  <2> HIDE DEF f
  <2> QED BY <2>1 DEF PartsOf, FlatMap, Mapped
<1> HIDE DEF f, P
<1>4. /\ FlatMap(f, <<>>) = <<>>
      /\ \A q \in Seq(BucketItem), x \in BucketItem : FlatMap(f, Append(q, x)) = FlatMap(f, q) \o f[x]
  BY <1>1, FlatMapAppend
<1>5. \A q, r \in Seq(BucketItem) : FlatMap(f, q) \in Seq(P) /\ FlatMap(f, q \o r) = FlatMap(f, q) \o FlatMap(f, r)
  BY <1>1, FlatMapLists
<1>6. <<>> \in Seq(BucketItem) /\ \A q \in Seq(BucketItem), x \in BucketItem : Append(q, x) \in Seq(BucketItem)
  OBVIOUS
<1>7. \A q, r \in Seq(BucketItem) : q \o r \in Seq(BucketItem)
  BY ConcatProperties
<1>8. PartsOf(<<>>) = <<>> /\ \A q \in Seq(BucketItem) : PartsOf(q) \in Seq(SUBSET Op)
  BY <1>3, <1>4, <1>5, <1>6 DEF P
<1>9. \A q \in Seq(BucketItem), x \in BucketItem : PartsOf(Append(q, x)) = PartsOf(q) \o x.parts
  BY <1>2, <1>3, <1>4, <1>6, Zenon
<1>10. \A q, r \in Seq(BucketItem) : PartsOf(q \o r) = PartsOf(q) \o PartsOf(r)
  BY <1>3, <1>5, <1>7, Zenon
<1> QED BY <1>8, <1>9, <1>10

(* The states of an iterator, and those it goes through along a stream. *)
Iteration == [out : Seq(BucketItem), at : WordSet, parts : Seq(SUBSET Op), refused : BOOLEAN]

GroupSteps(stream, span, patience) ==
    {g \in [0..Len(stream) -> Iteration] :
        /\ g[0] = Begin
        /\ \A i \in 1..Len(stream) :
              g[i] = Step(g[i - 1], stream[i], BucketOf(stream[i].at, span), patience)}

Spans == {0, Span}

(* The group of a second, and groups in the order of their seconds. *)
LEMMA GroupsInOrder ==
    ASSUME NEW span \in Spans
    PROVE  /\ \A t \in WordSet : BucketOf(t, span) \in WordSet
           /\ \A t, u \in WordSet : t <= u => BucketOf(t, span) <= BucketOf(u, span)
<1>1. WordSet \subseteq Nat
  BY SegmentsAssumption DEF WordSet
<1>2. CASE span = 0
  <2>1. \A t \in WordSet : BucketOf(t, span) = t
    BY <1>2 DEF BucketOf
  <2> QED BY <2>1
<1>3. CASE span = Span
  <2>1. \A t \in WordSet : BucketOf(t, span) \in WordSet
    BY <1>3, BucketIsWord
  <2>2. ASSUME NEW t \in WordSet, NEW u \in WordSet, t <= u
        PROVE  BucketOf(t, span) <= BucketOf(u, span)
    <3> DEFINE a == t \div Span
               b == u \div Span
    <3>0. Span \in Nat \ {0} /\ t \in Nat /\ u \in Nat
      BY <1>1, SegmentsAssumption
    <3>1. a \in Nat /\ a * Span <= t
      BY <3>0, Division
    <3>2. b \in Nat /\ u < b * Span + Span
      BY <3>0, Division
    <3>3. BucketOf(t, span) = a * Span /\ BucketOf(u, span) = b * Span
      BY <1>3, <3>0 DEF BucketOf
    <3> HIDE DEF a, b
    <3>4. a <= b
      <4> SUFFICES ASSUME b + 1 <= a PROVE FALSE
        BY <3>1, <3>2
      <4>1. (b + 1) * Span <= a * Span
        <5> DEFINE c == b + 1
        <5>1. c \in Int /\ a \in Int /\ c <= a /\ Span \in Nat
          BY <3>0, <3>1, <3>2
        <5> HIDE DEF c
        <5>2. c * Span <= a * Span
          BY <5>1, TimesMonotone
        <5> QED BY <5>2 DEF c
      <4>2. (b + 1) * Span = b * Span + Span
        BY <3>0, <3>2
      <4> DEFINE x == a * Span
                 y == b * Span
      <4>3. x \in Nat /\ y \in Nat
        BY <3>0, <3>1, <3>2
      <4>4. y + Span <= x
        BY <4>1, <4>2
      <4> HIDE DEF x, y
      <4>5. x <= t /\ u < y + Span
        BY <3>1, <3>2 DEF x, y
      <4> QED BY <4>3, <4>4, <4>5, <3>0, <2>2
    <3>5. a * Span <= b * Span
      BY <3>0, <3>1, <3>2, <3>4, TimesMonotone
    <3> QED BY <3>3, <3>5
  <2> QED BY <2>1, <2>2
<1> QED BY <1>2, <1>3 DEF Spans

(* No group is in hand, or that of the item. *)
GoesOn(it, k) == it.parts = <<>> \/ k = it.at

(* The item is taken into the group in hand, or begins another. *)
TakenIn(next, it, x, k) ==
    /\ next.out = it.out
    /\ next.at = k
    /\ next.parts = it.parts \o x.parts
    /\ ~next.refused

GroupYielded(next, it, x, k, p) ==
    /\ next.out = Append(it.out, [at |-> it.at, parts |-> it.parts])
    /\ next.refused <=> Len(it.out) + 1 = p
    /\ next.refused => next.at = it.at /\ next.parts = it.parts
    /\ ~next.refused => next.at = k /\ next.parts = x.parts

(* An iterator that was refused stays as it is. *)
LEMMA StepIs ==
    ASSUME NEW it \in Iteration, NEW x \in BucketItem, NEW k \in WordSet, NEW p \in Nat
    PROVE  /\ Step(it, x, k, p) \in Iteration
           /\ it.refused => Step(it, x, k, p) = it
           /\ ~it.refused /\ GoesOn(it, k) => TakenIn(Step(it, x, k, p), it, x, k)
           /\ ~it.refused /\ ~GoesOn(it, k) => GroupYielded(Step(it, x, k, p), it, x, k, p)
<1> DEFINE next == Step(it, x, k, p)
           y == [at |-> it.at, parts |-> it.parts]
           oy == Append(it.out, y)
<1>1. /\ it.out \in Seq(BucketItem) /\ it.at \in WordSet /\ it.parts \in Seq(SUBSET Op)
      /\ it.refused \in BOOLEAN
  BY DEF Iteration
<1>2. x.parts \in Seq(SUBSET Op) /\ <<>> \in Seq(SUBSET Op)
  BY ItemTimes
<1>3. y \in BucketItem /\ oy \in Seq(BucketItem)
  BY <1>1 DEF BucketItem
<1>4. \A ps \in Seq(SUBSET Op) : ps \o x.parts \in Seq(SUBSET Op)
  BY <1>2, ConcatProperties
<1>5. <<>> \o x.parts = x.parts
  BY <1>2, ConcatEmptySeq
<1>6. ASSUME NEW i \in Iteration
      PROVE  /\ Fold(i, x, k) \in Iteration
             /\ Fold(i, x, k).out = i.out /\ Fold(i, x, k).at = k
             /\ Fold(i, x, k).refused = i.refused
             /\ Fold(i, x, k).parts = i.parts \o x.parts
  <2> DEFINE z == i.parts \o x.parts
  <2>1. z \in Seq(SUBSET Op)
    BY <1>4 DEF Iteration
  <2>2. Fold(i, x, k) = [i EXCEPT !.at = k, !.parts = z]
    BY DEF Fold, Iteration
  <2> HIDE DEF z
  <2>3. [i EXCEPT !.at = k, !.parts = z] \in Iteration
    BY <2>1 DEF Iteration
  <2>4. /\ [i EXCEPT !.at = k, !.parts = z].out = i.out
        /\ [i EXCEPT !.at = k, !.parts = z].at = k
        /\ [i EXCEPT !.at = k, !.parts = z].refused = i.refused
        /\ [i EXCEPT !.at = k, !.parts = z].parts = z
    BY DEF Iteration
  <2> QED BY <2>2, <2>3, <2>4 DEF z
<1>7. ASSUME NEW i \in Iteration
      PROVE  /\ Cleared(i) \in Iteration
             /\ Cleared(i).out = i.out /\ Cleared(i).parts = <<>>
             /\ Cleared(i).refused = i.refused
  BY <1>2 DEF Cleared, Iteration
<1>8. /\ Yield(it, p) \in Iteration
      /\ Yield(it, p).out = oy
      /\ Yield(it, p).refused = (Len(it.out) + 1 = p)
      /\ Yield(it, p).at = it.at /\ Yield(it, p).parts = it.parts
  <2> DEFINE b == (Len(it.out) + 1 = p)
  <2>1. Yield(it, p) = [it EXCEPT !.out = oy, !.refused = b]
    BY DEF Yield, Iteration
  <2>2. b \in BOOLEAN
    OBVIOUS
  <2> HIDE DEF b, oy
  <2>3. [it EXCEPT !.out = oy, !.refused = b] \in Iteration
    BY <2>2, <1>3 DEF Iteration
  <2>4. /\ [it EXCEPT !.out = oy, !.refused = b].out = oy
        /\ [it EXCEPT !.out = oy, !.refused = b].refused = b
        /\ [it EXCEPT !.out = oy, !.refused = b].at = it.at
        /\ [it EXCEPT !.out = oy, !.refused = b].parts = it.parts
    BY DEF Iteration
  <2> QED BY <2>1, <2>3, <2>4, Zenon DEF b
<1>9. CASE it.refused
  BY <1>9 DEF Step
<1>10. CASE ~it.refused /\ GoesOn(it, k)
  <2>1. next = Fold(it, x, k)
    BY <1>10 DEF Step, GoesOn
  <2> HIDE DEF next
  <2>2. next \in Iteration /\ TakenIn(next, it, x, k)
    BY <2>1, <1>6, <1>10 DEF TakenIn
  <2> QED BY <2>2, <1>10 DEF next
<1>11. CASE ~it.refused /\ ~GoesOn(it, k)
  <2> DEFINE w == Yield(it, p)
             v == Cleared(w)
  <2>1. next = IF w.refused THEN w ELSE Fold(v, x, k)
    BY <1>11 DEF Step, GoesOn
  <2> HIDE DEF next, w, v
  <2>2. w \in Iteration /\ w.out = oy /\ w.at = it.at /\ w.parts = it.parts
        /\ w.refused = (Len(it.out) + 1 = p)
    BY <1>8 DEF w
  <2>3. v \in Iteration /\ v.out = oy /\ v.parts = <<>> /\ v.refused = w.refused
    BY <2>2, <1>7 DEF v
  <2>4. CASE w.refused
    <3>1. next \in Iteration /\ GroupYielded(next, it, x, k, p)
      BY <2>1, <2>2, <2>4 DEF GroupYielded
    <3> QED BY <3>1, <1>11 DEF next
  <2>5. CASE ~w.refused
    <3>1. /\ next \in Iteration /\ next.out = oy /\ next.at = k /\ next.parts = <<>> \o x.parts
          /\ next.refused = w.refused
      BY <2>1, <2>3, <2>5, <1>6
    <3>2. GroupYielded(next, it, x, k, p)
      BY <3>1, <2>2, <2>5, <1>5 DEF GroupYielded
    <3> QED BY <3>1, <3>2, <1>11 DEF next
  <2> QED BY <2>4, <2>5
<1> QED BY <1>9, <1>10, <1>11

(* The states an iterator goes through are there, and lead to Grouped. *)
LEMMA GroupedSteps ==
    ASSUME NEW span \in Spans, NEW patience \in Nat, NEW stream \in Seq(BucketItem)
    PROVE  \E g \in GroupSteps(stream, span, patience) :
              Grouped(stream, span, patience) = g[Len(stream)]
<1> DEFINE N == Len(stream)
           k(i) == BucketOf(stream[i].at, span)
           step == [i \in 1..N |-> [it \in Iteration |-> Step(it, stream[i], k(i), patience)]]
           after[n \in 0..Len(stream)] ==
               IF n = 0 THEN Begin
               ELSE Step(after[n - 1], stream[n], BucketOf(stream[n].at, span), patience)
<1>1. N \in Nat /\ \A i \in 1..N : stream[i] \in BucketItem /\ k(i) \in WordSet /\ i - 1 \in 0..N
  <2>1. \A i \in 1..N : stream[i] \in BucketItem /\ stream[i].at \in WordSet
    BY ItemTimes
  <2>2. \A i \in 1..N : k(i) \in WordSet
    BY <2>1, GroupsInOrder
  <2> QED BY <2>1, <2>2
<1>2. Begin \in Iteration
  <2>1. 0 \in WordSet
    BY SegmentsAssumption DEF WordSet
  <2> QED BY <2>1 DEF Begin, Iteration
<1>3. step \in Steps(Iteration, N)
  <2> SUFFICES ASSUME NEW i \in 1..N, NEW it \in Iteration
               PROVE  Step(it, stream[i], k(i), patience) \in Iteration
    BY DEF Steps
  <2> DEFINE x == stream[i]
             b == k(i)
  <2>1. x \in BucketItem /\ b \in WordSet
    BY <1>1
  <2> HIDE DEF x, b
  <2>2. Step(it, x, b, patience) \in Iteration
    BY <2>1, StepIs
  <2> QED BY <2>2 DEF x, b
<1>4. PICK g \in [0..N -> Iteration] : g[0] = Begin /\ \A i \in 1..N : g[i] = step[i][g[i - 1]]
  <2>1. Solutions(Iteration, N, Begin, step) # {}
    <3> HIDE DEF step, N
    <3> QED BY <1>1, <1>2, <1>3, Recursion
  <2> HIDE DEF step, N
  <2> QED BY <2>1 DEF Solutions
<1>5. \A i \in 1..N : g[i] = Step(g[i - 1], stream[i], k(i), patience)
  <2> SUFFICES ASSUME NEW i \in 1..N PROVE g[i] = Step(g[i - 1], stream[i], k(i), patience)
    OBVIOUS
  <2>1. g[i - 1] \in Iteration
    BY <1>1, <1>4
  <2>2. step[i][g[i - 1]] = Step(g[i - 1], stream[i], k(i), patience)
    <3> DEFINE it == g[i - 1]
    <3> HIDE DEF it
    <3> QED BY <2>1 DEF it
  <2> QED BY <2>2, <1>4
<1>6. g \in GroupSteps(stream, span, patience)
  BY <1>4, <1>5 DEF GroupSteps
<1>7. after = [n \in 0..Len(stream) |->
               IF n = 0 THEN Begin
               ELSE Step(after[n - 1], stream[n], BucketOf(stream[n].at, span), patience)]
  <2>1. g = [n \in 0..Len(stream) |->
               IF n = 0 THEN Begin
               ELSE Step(g[n - 1], stream[n], BucketOf(stream[n].at, span), patience)]
    <3>1. \A n \in 0..N : n # 0 => n \in 1..N
      BY <1>1
    <3> HIDE DEF step
    <3> QED BY <1>4, <1>5, <3>1
  <2> HIDE DEF step
  <2> QED BY <2>1 DEF after
<1> HIDE DEF after, step
<1> DEFINE K == {n \in 0..N : after[n] = g[n]}
<1>8. 0 \in K
  BY <1>1, <1>4, <1>7
<1>9. \A n \in 0..(N - 1) : n \in K => n + 1 \in K
  <2> SUFFICES ASSUME NEW n \in 0..(N - 1), n \in K PROVE n + 1 \in K
    OBVIOUS
  <2> DEFINE m == n + 1
  <2>1. m \in 1..N /\ m \in 0..N /\ m # 0 /\ m - 1 = n
    BY <1>1
  <2> HIDE DEF m
  <2>2. after[m] = Step(after[n], stream[m], k(m), patience)
    BY <1>7, <2>1
  <2>3. g[m] = Step(g[n], stream[m], k(m), patience)
    BY <1>5, <2>1
  <2>4. m \in K
    BY <2>1, <2>2, <2>3
  <2> QED BY <2>4 DEF m
<1>10. after[N] = g[N]
  <2>1. N \in K
    <3>1. N \in 0..N
      BY <1>1
    <3> HIDE DEF K, N
    <3> QED BY <3>1, <1>1, <1>8, <1>9, UpTo
  <2> QED BY <2>1
<1>11. Grouped(stream, span, patience) = after[N]
  BY DEF Grouped, after
<1> QED BY <1>6, <1>10, <1>11

(* Folding a list item by item. *)
LEMMA GroupedAppend ==
    ASSUME NEW span \in Spans, NEW patience \in Nat
    PROVE  /\ Grouped(<<>>, span, patience) = Begin
           /\ \A q \in Seq(BucketItem) : Grouped(q, span, patience) \in Iteration
           /\ \A q \in Seq(BucketItem), x \in BucketItem :
                 Grouped(Append(q, x), span, patience) =
                    Step(Grouped(q, span, patience), x, BucketOf(x.at, span), patience)
<1>1. \A q \in Seq(BucketItem) :
         \E g \in GroupSteps(q, span, patience) : Grouped(q, span, patience) = g[Len(q)]
  BY GroupedSteps
<1>2. ASSUME NEW q \in Seq(BucketItem) PROVE Grouped(q, span, patience) \in Iteration
  <2>1. PICK g \in GroupSteps(q, span, patience) : Grouped(q, span, patience) = g[Len(q)]
    BY <1>1
  <2>2. g \in [0..Len(q) -> Iteration] /\ Len(q) \in 0..Len(q)
    BY DEF GroupSteps
  <2> QED BY <2>1, <2>2
<1>3. Grouped(<<>>, span, patience) = Begin
  <2>1. <<>> \in Seq(BucketItem) /\ Len(<<>>) = 0
    OBVIOUS
  <2>2. PICK g \in GroupSteps(<<>>, span, patience) : Grouped(<<>>, span, patience) = g[Len(<<>>)]
    BY <1>1, <2>1
  <2> QED BY <2>1, <2>2 DEF GroupSteps
<1>4. ASSUME NEW q \in Seq(BucketItem), NEW x \in BucketItem
      PROVE  Grouped(Append(q, x), span, patience) =
                Step(Grouped(q, span, patience), x, BucketOf(x.at, span), patience)
  <2> DEFINE qx == Append(q, x)
             N == Len(q)
             M == N + 1
  <2>1. qx \in Seq(BucketItem) /\ Len(qx) = M /\ qx[M] = x /\ N \in Nat /\ M - 1 = N /\ M \in 1..M
        /\ \A i \in 1..N : qx[i] = q[i] /\ i \in 1..M
    OBVIOUS
  <2> HIDE DEF qx, M
  <2>2. PICK g \in GroupSteps(q, span, patience) : Grouped(q, span, patience) = g[Len(q)]
    BY <1>1
  <2>3. PICK h \in GroupSteps(qx, span, patience) : Grouped(qx, span, patience) = h[Len(qx)]
    BY <2>1, <1>1
  <2>4. g[0] = Begin /\ \A i \in 1..N : g[i] = Step(g[i - 1], q[i], BucketOf(q[i].at, span), patience)
    BY DEF GroupSteps
  <2>5. h[0] = Begin /\ \A i \in 1..M : h[i] = Step(h[i - 1], qx[i], BucketOf(qx[i].at, span), patience)
    BY <2>1 DEF GroupSteps
  <2> DEFINE K == {i \in 0..N : h[i] = g[i]}
  <2>6. 0 \in K
    BY <2>1, <2>4, <2>5
  <2>7. \A i \in 0..(N - 1) : i \in K => i + 1 \in K
    <3> SUFFICES ASSUME NEW i \in 0..(N - 1), i \in K PROVE i + 1 \in K
      OBVIOUS
    <3> DEFINE m == i + 1
    <3>1. m \in 1..N /\ m \in 0..N /\ m - 1 = i
      BY <2>1
    <3> HIDE DEF m
    <3>2. h[m] = Step(h[i], qx[m], BucketOf(qx[m].at, span), patience) /\ qx[m] = q[m]
      BY <2>1, <2>5, <3>1
    <3>3. g[m] = Step(g[i], q[m], BucketOf(q[m].at, span), patience)
      BY <2>4, <3>1
    <3>4. h[i] = g[i]
      OBVIOUS
    <3>5. h[m] = g[m]
      BY <3>2, <3>3, <3>4
    <3> QED BY <3>1, <3>5 DEF m
  <2>8. h[N] = g[N]
    <3>1. N \in K
      <4>1. N \in 0..N
        BY <2>1
      <4> HIDE DEF K, N
      <4> QED BY <4>1, <2>1, <2>6, <2>7, UpTo
    <3> QED BY <3>1
  <2>9. h[M] = Step(h[N], x, BucketOf(x.at, span), patience)
    <3>1. h[M] = Step(h[M - 1], qx[M], BucketOf(qx[M].at, span), patience)
      BY <2>1, <2>5
    <3> QED BY <3>1, <2>1
  <2> QED BY <2>1, <2>2, <2>3, <2>8, <2>9 DEF qx
<1> QED BY <1>2, <1>3, <1>4

(* The last group is yielded when the scan ends. *)
LEMMA FinishedIs ==
    ASSUME NEW it \in Iteration, NEW p \in Nat
    PROVE  /\ Finished(it, p).out \in Seq(BucketItem)
           /\ it.parts = <<>> => Finished(it, p).out = it.out
           /\ it.parts # <<>> => Finished(it, p).out = Append(it.out, [at |-> it.at, parts |-> it.parts])
<1>1. it.out \in Seq(BucketItem) /\ [at |-> it.at, parts |-> it.parts] \in BucketItem
  BY DEF Iteration, BucketItem
<1> DEFINE y == [at |-> it.at, parts |-> it.parts]
           oy == Append(it.out, y)
<1>2. oy \in Seq(BucketItem)
  BY <1>1
<1>3. Yield(it, p).out = oy
  <2> DEFINE b == (Len(it.out) + 1 = p)
  <2>1. Yield(it, p) = [it EXCEPT !.out = oy, !.refused = b]
    BY DEF Yield, Iteration
  <2> HIDE DEF b, oy
  <2>2. [it EXCEPT !.out = oy, !.refused = b].out = oy
    BY DEF Iteration
  <2> QED BY <2>1, <2>2
<1> HIDE DEF oy
<1>4. CASE it.parts = <<>>
  BY <1>1, <1>4 DEF Finished
<1>5. CASE it.parts # <<>>
  <2>1. Finished(it, p) = Yield(it, p)
    BY <1>5 DEF Finished
  <2> QED BY <2>1, <1>2, <1>3, <1>5 DEF oy
<1> QED BY <1>4, <1>5

(* A scan to its end leaves nothing out and counts nothing twice: what it  *)
(* yielded and what it has in hand is made of what it was given.           *)
LEMMA FoldKeepsParts ==
    ASSUME NEW span \in Spans, NEW q \in Seq(BucketItem)
    PROVE  /\ ~Grouped(q, span, 0).refused
           /\ Finished(Grouped(q, span, 0), 0).out \in Seq(BucketItem)
           /\ PartsOf(Finished(Grouped(q, span, 0), 0).out) = PartsOf(q)
<1> DEFINE S == {r \in Seq(BucketItem) :
                    LET it == Grouped(r, span, 0)
                    IN  ~it.refused /\ PartsOf(it.out) \o it.parts = PartsOf(r)}
<1>0. /\ Grouped(<<>>, span, 0) = Begin
      /\ \A r \in Seq(BucketItem) : Grouped(r, span, 0) \in Iteration
      /\ \A r \in Seq(BucketItem), x \in BucketItem :
            Grouped(Append(r, x), span, 0) = Step(Grouped(r, span, 0), x, BucketOf(x.at, span), 0)
  BY GroupedAppend
<1>1. <<>> \in S
  <2>1. <<>> \in Seq(BucketItem) /\ <<>> \in Seq(SUBSET Op)
    OBVIOUS
  <2>2. PartsOf(<<>>) = <<>>
    BY PartsOfLists
  <2>3. <<>> \o <<>> = <<>>
    BY <2>1, ConcatEmptySeq
  <2>4. Begin.out = <<>> /\ Begin.parts = <<>> /\ Begin.refused = FALSE
    BY DEF Begin
  <2> QED BY <2>1, <2>2, <2>3, <2>4, <1>0
<1>2. ASSUME NEW r \in Seq(BucketItem), NEW x \in BucketItem, r \in S PROVE Append(r, x) \in S
  <2> DEFINE it == Grouped(r, span, 0)
             next == Grouped(Append(r, x), span, 0)
             k == BucketOf(x.at, span)
             y == [at |-> it.at, parts |-> it.parts]
  <2>1. /\ it \in Iteration /\ k \in WordSet /\ next = Step(it, x, k, 0) /\ next \in Iteration
        /\ ~it.refused /\ PartsOf(it.out) \o it.parts = PartsOf(r)
    <3>1. Append(r, x) \in Seq(BucketItem)
      OBVIOUS
    <3>2. k \in WordSet
      BY ItemTimes, GroupsInOrder
    <3> QED BY <3>1, <3>2, <1>0, <1>2
  <2>2. PartsOf(Append(r, x)) = PartsOf(r) \o x.parts
    BY PartsOfLists
  <2> HIDE DEF it, next, k
  <2>3. it.out \in Seq(BucketItem) /\ it.parts \in Seq(SUBSET Op) /\ y \in BucketItem
        /\ x.parts \in Seq(SUBSET Op) /\ PartsOf(it.out) \in Seq(SUBSET Op)
    <3>1. it.out \in Seq(BucketItem) /\ it.parts \in Seq(SUBSET Op) /\ y \in BucketItem
      BY <2>1 DEF Iteration, BucketItem
    <3> QED BY <3>1, ItemTimes, PartsOfLists
  <2>4. /\ GoesOn(it, k) =>
              next.out = it.out /\ ~next.refused /\ next.parts = it.parts \o x.parts
        /\ ~GoesOn(it, k) =>
              /\ next.out = Append(it.out, y)
              /\ next.refused <=> Len(it.out) + 1 = 0
              /\ ~next.refused => next.parts = x.parts
    <3>1. 0 \in Nat /\ it \in Iteration /\ k \in WordSet /\ x \in BucketItem /\ ~it.refused
      BY <2>1
    <3>2. /\ GoesOn(it, k) => TakenIn(next, it, x, k)
          /\ ~GoesOn(it, k) => GroupYielded(next, it, x, k, 0)
      BY <3>1, <2>1, StepIs
    <3> QED BY <3>2 DEF TakenIn, GroupYielded
  <2> DEFINE o == PartsOf(it.out)
             ps == it.parts
             xs == x.parts
  <2>5. (o \o ps) \o xs = o \o (ps \o xs)
    <3>1. o \in Seq(SUBSET Op) /\ ps \in Seq(SUBSET Op) /\ xs \in Seq(SUBSET Op)
      BY <2>3
    <3> HIDE DEF o, ps, xs
    <3> QED BY <3>1, Associative, SMTT(30)
  <2>6. PartsOf(Append(r, x)) = (o \o ps) \o xs
    BY <2>1, <2>2
  <2>7. CASE GoesOn(it, k)
    <3>1. next.out = it.out /\ ~next.refused /\ next.parts = ps \o xs
      BY <2>4, <2>7
    <3>2. PartsOf(next.out) \o next.parts = o \o (ps \o xs)
      BY <3>1
    <3>3. next \in Iteration /\ ~next.refused /\ PartsOf(next.out) \o next.parts = PartsOf(Append(r, x))
      BY <2>1, <3>1, <3>2, <2>5, <2>6
    <3>4. Append(r, x) \in Seq(BucketItem)
      OBVIOUS
    <3> QED BY <3>3, <3>4, Zenon DEF next
  <2>8. CASE ~GoesOn(it, k)
    <3>0. Len(it.out) \in Nat
      BY <2>3
    <3>1. next.out = Append(it.out, y) /\ ~next.refused /\ next.parts = xs
      BY <2>4, <2>8, <3>0
    <3>2. PartsOf(Append(it.out, y)) = o \o ps
      <4>1. PartsOf(Append(it.out, y)) = PartsOf(it.out) \o y.parts
        <5> HIDE DEF y
        <5> QED BY <2>3, PartsOfLists
      <4> QED BY <4>1
    <3>3. PartsOf(next.out) \o next.parts = (o \o ps) \o xs
      BY <3>1, <3>2
    <3>4. ~next.refused /\ PartsOf(next.out) \o next.parts = PartsOf(Append(r, x))
      BY <3>1, <3>3, <2>6
    <3>5. Append(r, x) \in Seq(BucketItem)
      OBVIOUS
    <3> QED BY <3>4, <3>5, Zenon DEF next
  <2> QED BY <2>7, <2>8
<1>3. q \in S
  <2> HIDE DEF S
  <2> QED BY <1>1, <1>2, ListInduction
<1> DEFINE it == Grouped(q, span, 0)
           y == [at |-> it.at, parts |-> it.parts]
<1>4. it \in Iteration /\ ~it.refused /\ PartsOf(it.out) \o it.parts = PartsOf(q)
  BY <1>0, <1>3
<1> HIDE DEF it
<1>5. it.out \in Seq(BucketItem) /\ it.parts \in Seq(SUBSET Op) /\ y \in BucketItem
      /\ PartsOf(it.out) \in Seq(SUBSET Op)
  <2>1. it.out \in Seq(BucketItem) /\ it.parts \in Seq(SUBSET Op) /\ y \in BucketItem
    BY <1>4 DEF Iteration, BucketItem
  <2> QED BY <2>1, PartsOfLists
<1>6. /\ Finished(it, 0).out \in Seq(BucketItem)
      /\ it.parts = <<>> => Finished(it, 0).out = it.out
      /\ it.parts # <<>> => Finished(it, 0).out = Append(it.out, y)
  <2>1. 0 \in Nat
    OBVIOUS
  <2> QED BY <2>1, <1>4, FinishedIs
<1>7. PartsOf(Append(it.out, y)) = PartsOf(it.out) \o it.parts
  <2>1. PartsOf(Append(it.out, y)) = PartsOf(it.out) \o y.parts
    <3> HIDE DEF y
    <3> QED BY <1>5, PartsOfLists
  <2> QED BY <2>1
<1>8. it.parts = <<>> => PartsOf(it.out) \o it.parts = PartsOf(it.out)
  <2> DEFINE o == PartsOf(it.out)
  <2>1. o \in Seq(SUBSET Op)
    BY <1>5
  <2> HIDE DEF o
  <2> QED BY <2>1, ConcatEmptySeq
<1>9. PartsOf(Finished(it, 0).out) = PartsOf(q)
  BY <1>4, <1>6, <1>7, <1>8
<1> QED BY <1>4, <1>6, <1>9 DEF it

(* Each element later than the ones before it. *)
Rising(q) == \A i, j \in 1..Len(q) : i < j => q[i].at < q[j].at
AllBefore(q, t) == \A i \in 1..Len(q) : q[i].at < t

(* Groups rise exactly when their seconds do, and an item later than all   *)
(* keeps them rising.                                                      *)
LEMMA RisingLists ==
    /\ \A q \in Seq(BucketItem) : Rising(q) => Increasing(Times(q))
    /\ \A q \in Seq(BucketItem) : Increasing(Times(q)) => Rising(q)
    /\ \A q \in Seq(BucketItem), y \in BucketItem :
          /\ Rising(q) /\ AllBefore(q, y.at) => Rising(Append(q, y))
          /\ \A t \in Nat : AllBefore(q, t) /\ y.at < t => AllBefore(Append(q, y), t)
<1>1. ASSUME NEW q \in Seq(BucketItem), Rising(q) PROVE Increasing(Times(q))
  <2>1. /\ Len(Times(q)) = Len(q) /\ Len(q) \in Nat
        /\ \A i \in 1..Len(q) : Times(q)[i] = q[i].at /\ q[i].at \in WordSet
    BY TimesOfBuckets
  <2>2. ASSUME NEW i \in 2..Len(Times(q)) PROVE Times(q)[i] > Times(q)[i - 1]
    <3>1. i \in 1..Len(q) /\ i - 1 \in 1..Len(q) /\ i - 1 < i
      BY <2>1
    <3>2. q[i - 1].at < q[i].at
      BY <1>1, <3>1 DEF Rising
    <3>3. q[i].at \in Nat /\ q[i - 1].at \in Nat
      BY <3>1, ItemTimes
    <3> QED BY <3>1, <3>2, <3>3, <2>1
  <2> QED BY <2>2 DEF Increasing
<1>2. ASSUME NEW q \in Seq(BucketItem), Increasing(Times(q)) PROVE Rising(q)
  <2>1. /\ Times(q) \in Seq(Nat) /\ Len(Times(q)) = Len(q) /\ Len(q) \in Nat
        /\ \A i \in 1..Len(q) : Times(q)[i] = q[i].at
    BY TimesOfBuckets
  <2> DEFINE t == Times(q)
  <2>2. \A i, j \in 1..Len(t) : i < j => t[i] < t[j]
    <3>1. t \in Seq(Nat) /\ Increasing(t)
      BY <2>1, <1>2
    <3> HIDE DEF t
    <3> QED BY <3>1, IncreasingPairs
  <2> HIDE DEF t
  <2> QED BY <2>1, <2>2 DEF Rising, t
<1>3. ASSUME NEW q \in Seq(BucketItem), NEW y \in BucketItem
      PROVE  /\ Rising(q) /\ AllBefore(q, y.at) => Rising(Append(q, y))
             /\ \A t \in Nat : AllBefore(q, t) /\ y.at < t => AllBefore(Append(q, y), t)
  <2> DEFINE qy == Append(q, y)
  <2>1. /\ Len(qy) = Len(q) + 1 /\ Len(q) \in Nat /\ qy[Len(q) + 1] = y /\ y.at \in Nat
        /\ \A i \in 1..Len(q) : qy[i] = q[i] /\ q[i].at \in Nat
    BY ItemTimes
  <2>2. \A i \in 1..Len(qy) : i \in 1..Len(q) \/ i = Len(q) + 1
    BY <2>1
  <2> HIDE DEF qy
  <2>3. ASSUME Rising(q), AllBefore(q, y.at) PROVE Rising(qy)
    <3> SUFFICES ASSUME NEW i \in 1..Len(qy), NEW j \in 1..Len(qy), i < j PROVE qy[i].at < qy[j].at
      BY DEF Rising
    <3>1. i \in 1..Len(q)
      BY <2>1
    <3>2. CASE j \in 1..Len(q)
      <4>1. q[i].at < q[j].at
        BY <3>1, <3>2, <2>3 DEF Rising
      <4> QED BY <4>1, <3>1, <3>2, <2>1
    <3>3. CASE j = Len(q) + 1
      <4>1. q[i].at < y.at
        BY <3>1, <2>3 DEF AllBefore
      <4> QED BY <4>1, <3>1, <3>3, <2>1
    <3> QED BY <3>2, <3>3, <2>2
  <2>4. \A t \in Nat : AllBefore(q, t) /\ y.at < t => AllBefore(qy, t)
    <3> SUFFICES ASSUME NEW t \in Nat, AllBefore(q, t), y.at < t, NEW i \in 1..Len(qy) PROVE qy[i].at < t
      BY DEF AllBefore
    <3> QED BY <2>1, <2>2 DEF AllBefore
  <2> QED BY <2>3, <2>4 DEF qy
<1> QED BY <1>1, <1>2, <1>3

(* The groups of a stream in time order are yielded in time order, one     *)
(* element a group.                                                        *)
LEMMA GroupsRise ==
    ASSUME NEW span \in Spans, NEW q \in Seq(BucketItem), Ordered(q)
    PROVE  Rising(Finished(Grouped(q, span, 0), 0).out)
<1> DEFINE Reached(r, t) == \E i \in 1..Len(r) : t = BucketOf(r[i].at, span)
           S == {r \in Seq(BucketItem) :
                    Ordered(r) =>
                        LET it == Grouped(r, span, 0)
                        IN  /\ ~it.refused /\ Rising(it.out) /\ AllBefore(it.out, it.at)
                            /\ (it.out = <<>> /\ it.parts = <<>>) \/ Reached(r, it.at)}
<1>0. /\ Grouped(<<>>, span, 0) = Begin
      /\ \A r \in Seq(BucketItem) : Grouped(r, span, 0) \in Iteration
      /\ \A r \in Seq(BucketItem), x \in BucketItem :
            Grouped(Append(r, x), span, 0) = Step(Grouped(r, span, 0), x, BucketOf(x.at, span), 0)
  BY GroupedAppend
<1>1. <<>> \in S
  <2>1. Begin.out = <<>> /\ Begin.parts = <<>> /\ Begin.refused = FALSE /\ <<>> \in Seq(BucketItem)
    BY DEF Begin
  <2>2. Rising(<<>>) /\ AllBefore(<<>>, Begin.at)
    BY DEF Rising, AllBefore
  <2> QED BY <2>1, <2>2, <1>0
<1>2. ASSUME NEW r \in Seq(BucketItem), NEW x \in BucketItem, r \in S PROVE Append(r, x) \in S
  <2> DEFINE rx == Append(r, x)
             it == Grouped(r, span, 0)
             next == Grouped(rx, span, 0)
             k == BucketOf(x.at, span)
             y == [at |-> it.at, parts |-> it.parts]
  <2> SUFFICES ASSUME Ordered(rx)
               PROVE  /\ ~next.refused /\ Rising(next.out) /\ AllBefore(next.out, next.at)
                      /\ (next.out = <<>> /\ next.parts = <<>>) \/ Reached(rx, next.at)
    <3>1. rx \in Seq(BucketItem)
      OBVIOUS
    <3> QED BY <3>1, Zenon
  <2>1. /\ rx \in Seq(BucketItem) /\ Len(rx) = Len(r) + 1 /\ Len(r) \in Nat /\ rx[Len(r) + 1] = x
        /\ \A i \in 1..Len(r) : rx[i] = r[i] /\ r[i] \in BucketItem
    OBVIOUS
  <2>2. it \in Iteration /\ k \in WordSet /\ next = Step(it, x, k, 0) /\ next \in Iteration
    <3>1. k \in WordSet
      BY ItemTimes, GroupsInOrder
    <3> QED BY <3>1, <2>1, <1>0
  <2> HIDE DEF rx
  <2>3. Ordered(r) /\ \A i \in 1..Len(r) : r[i].at <= x.at
    <3>1. \A i, j \in 1..Len(rx) : i <= j => rx[i].at <= rx[j].at
      BY DEF Ordered
    <3>2. \A i \in 1..Len(r) : i \in 1..Len(rx) /\ Len(r) + 1 \in 1..Len(rx) /\ i <= Len(r) + 1
      BY <2>1
    <3> QED BY <3>1, <3>2, <2>1 DEF Ordered
  <2>4. /\ ~it.refused /\ Rising(it.out) /\ AllBefore(it.out, it.at)
        /\ (it.out = <<>> /\ it.parts = <<>>) \/ Reached(r, it.at)
    BY <1>2, <2>3
  <2>5. Reached(r, it.at) => it.at <= k
    <3> SUFFICES ASSUME NEW i \in 1..Len(r), it.at = BucketOf(r[i].at, span) PROVE it.at <= k
      OBVIOUS
    <3>1. r[i].at \in WordSet /\ x.at \in WordSet /\ r[i].at <= x.at
      BY <2>1, <2>3, ItemTimes
    <3> QED BY <3>1, GroupsInOrder
  <2>6. Reached(rx, k)
    <3>1. Len(r) + 1 \in 1..Len(rx)
      BY <2>1
    <3> QED BY <3>1, <2>1
  <2> HIDE DEF it, next, k
  <2>7. it.out \in Seq(BucketItem) /\ it.at \in WordSet /\ y \in BucketItem /\ it.at \in Nat /\ k \in Nat
    <3>1. it.out \in Seq(BucketItem) /\ it.at \in WordSet /\ y \in BucketItem
      BY <2>2 DEF Iteration, BucketItem
    <3> QED BY <3>1, <2>2, SegmentsAssumption DEF WordSet
  <2>8. /\ GoesOn(it, k) => TakenIn(next, it, x, k)
        /\ ~GoesOn(it, k) => GroupYielded(next, it, x, k, 0)
    BY <2>2, <2>4, StepIs
  <2>9. CASE GoesOn(it, k)
    <3>1. next.out = it.out /\ next.at = k /\ ~next.refused
      BY <2>8, <2>9 DEF TakenIn
    <3>2. AllBefore(it.out, k)
      <4>1. CASE it.out = <<>>
        BY <4>1 DEF AllBefore
      <4>2. CASE Reached(r, it.at)
        <5>1. \A i \in 1..Len(it.out) : it.out[i].at \in Nat
          BY <2>7, ItemTimes
        <5> QED BY <5>1, <4>2, <2>4, <2>5, <2>7 DEF AllBefore
      <4> QED BY <4>1, <4>2, <2>4
    <3> QED BY <3>1, <3>2, <2>4, <2>6
  <2>10. CASE ~GoesOn(it, k)
    <3>1. it.parts # <<>> /\ k # it.at
      BY <2>10 DEF GoesOn
    <3>2. Reached(r, it.at)
      BY <3>1, <2>4
    <3>3. it.at < k
      BY <3>1, <3>2, <2>5, <2>7
    <3>4. next.out = Append(it.out, y) /\ ~next.refused /\ next.at = k
      <4>1. Len(it.out) \in Nat
        BY <2>7
      <4> QED BY <4>1, <2>8, <2>10 DEF GroupYielded
    <3>5. y.at = it.at
      OBVIOUS
    <3> HIDE DEF y
    <3>6. Rising(Append(it.out, y))
      BY <3>5, <2>4, <2>7, RisingLists
    <3>7. AllBefore(it.out, k)
      <4>1. \A i \in 1..Len(it.out) : it.out[i].at \in Nat
        BY <2>7, ItemTimes
      <4> QED BY <4>1, <3>3, <2>4, <2>7 DEF AllBefore
    <3>8. AllBefore(Append(it.out, y), k)
      BY <3>3, <3>5, <3>7, <2>7, RisingLists
    <3> QED BY <3>4, <3>6, <3>8, <2>6
  <2> QED BY <2>9, <2>10
<1>3. q \in S
  <2> HIDE DEF S
  <2> QED BY <1>1, <1>2, ListInduction
<1> DEFINE it == Grouped(q, span, 0)
           y == [at |-> it.at, parts |-> it.parts]
<1>4. it \in Iteration /\ Rising(it.out) /\ AllBefore(it.out, it.at)
  BY <1>0, <1>3
<1> HIDE DEF it
<1>5. it.out \in Seq(BucketItem) /\ y \in BucketItem /\ y.at = it.at
  BY <1>4 DEF Iteration, BucketItem
<1>6. /\ it.parts = <<>> => Finished(it, 0).out = it.out
      /\ it.parts # <<>> => Finished(it, 0).out = Append(it.out, y)
  <2>1. 0 \in Nat
    OBVIOUS
  <2> QED BY <2>1, <1>4, FinishedIs
<1> HIDE DEF y
<1>7. Rising(Append(it.out, y))
  BY <1>4, <1>5, RisingLists
<1> QED BY <1>4, <1>6, <1>7 DEF it

-----------------------------------------------------------------------------
(* A consumer of patience p that was refused has had p elements, and has   *)
(* had fewer as long as it was not.                                        *)
LEMMA RefusedAfter ==
    ASSUME NEW span \in Spans, NEW p \in Nat \ {0}, NEW q \in Seq(BucketItem)
    PROVE  /\ Grouped(q, span, p).refused => Len(Grouped(q, span, p).out) = p
           /\ ~Grouped(q, span, p).refused => Len(Grouped(q, span, p).out) < p
<1> DEFINE Fits(it) == IF it.refused THEN Len(it.out) = p ELSE Len(it.out) < p
           S == {r \in Seq(BucketItem) : Fits(Grouped(r, span, p))}
<1>0. /\ Grouped(<<>>, span, p) = Begin
      /\ \A r \in Seq(BucketItem) : Grouped(r, span, p) \in Iteration
      /\ \A r \in Seq(BucketItem), x \in BucketItem :
            Grouped(Append(r, x), span, p) = Step(Grouped(r, span, p), x, BucketOf(x.at, span), p)
  BY GroupedAppend
<1>1. <<>> \in S
  <2>1. Begin.out = <<>> /\ Begin.refused = FALSE /\ <<>> \in Seq(BucketItem) /\ Len(<<>>) = 0 /\ 0 < p
    BY DEF Begin
  <2> QED BY <2>1, <1>0
<1>2. ASSUME NEW r \in Seq(BucketItem), NEW x \in BucketItem, r \in S PROVE Append(r, x) \in S
  <2> DEFINE it == Grouped(r, span, p)
             next == Grouped(Append(r, x), span, p)
             k == BucketOf(x.at, span)
             y == [at |-> it.at, parts |-> it.parts]
  <2>1. /\ it \in Iteration /\ k \in WordSet /\ next = Step(it, x, k, p) /\ next \in Iteration
        /\ Fits(it) /\ Append(r, x) \in Seq(BucketItem)
    <3>1. k \in WordSet
      BY ItemTimes, GroupsInOrder
    <3>2. Append(r, x) \in Seq(BucketItem)
      OBVIOUS
    <3> QED BY <3>1, <3>2, <1>0, <1>2
  <2> HIDE DEF it, next, k
  <2>2. it.out \in Seq(BucketItem) /\ y \in BucketItem /\ it.refused \in BOOLEAN /\ next.refused \in BOOLEAN
    BY <2>1 DEF Iteration, BucketItem
  <2>3. /\ it.refused => next = it
        /\ ~it.refused /\ GoesOn(it, k) => TakenIn(next, it, x, k)
        /\ ~it.refused /\ ~GoesOn(it, k) => GroupYielded(next, it, x, k, p)
    BY <2>1, StepIs
  <2>4. Len(Append(it.out, y)) = Len(it.out) + 1 /\ Len(it.out) \in Nat
    <3> HIDE DEF y
    <3> QED BY <2>2
  <2>5. CASE it.refused
    <3>1. next = it
      BY <2>3, <2>5
    <3>2. Fits(next)
      BY <2>1, <3>1
    <3> QED BY <2>1, <3>2 DEF next
  <2>6. CASE ~it.refused /\ GoesOn(it, k)
    <3>1. next.out = it.out /\ ~next.refused
      BY <2>3, <2>6 DEF TakenIn
    <3>2. Fits(next)
      BY <2>1, <2>6, <3>1
    <3> QED BY <2>1, <3>2 DEF next
  <2>7. CASE ~it.refused /\ ~GoesOn(it, k)
    <3>1. next.out = Append(it.out, y) /\ (next.refused <=> Len(it.out) + 1 = p)
      BY <2>3, <2>7 DEF GroupYielded
    <3>2. Len(it.out) < p
      BY <2>1, <2>7
    <3>3. Len(next.out) = Len(it.out) + 1
      BY <3>1, <2>4
    <3>4. Fits(next)
      BY <3>1, <3>2, <3>3, <2>4
    <3> QED BY <2>1, <3>4 DEF next
  <2> QED BY <2>5, <2>6, <2>7
<1>3. q \in S
  <2> HIDE DEF S
  <2> QED BY <1>1, <1>2, ListInduction
<1> QED BY <1>3

(* One more at the end for one that was not refused. *)
LEMMA EndsInTime ==
    ASSUME NEW span \in Spans, NEW p \in Nat \ {0}, NEW q \in Seq(BucketItem)
    PROVE  LET it == Grouped(q, span, p)
           IN  /\ Len(Finished(IF it.refused THEN Cleared(it) ELSE it, p).out) <= p
               /\ Len((IF it.refused THEN it ELSE Finished(it, p)).out) <= p
<1> DEFINE it == Grouped(q, span, p)
           y == [at |-> it.at, parts |-> it.parts]
<1>1. /\ it \in Iteration
      /\ it.refused => Len(it.out) = p
      /\ ~it.refused => Len(it.out) < p
  BY GroupedAppend, RefusedAfter
<1> HIDE DEF it
<1>2. it.out \in Seq(BucketItem) /\ y \in BucketItem
  BY <1>1 DEF Iteration, BucketItem
<1>3. CASE it.refused
  <2>1. Cleared(it).parts = <<>> /\ Cleared(it).out = it.out
    BY <1>1 DEF Cleared, Iteration
  <2>2. Finished(Cleared(it), p) = Cleared(it)
    BY <2>1 DEF Finished
  <2>3. Len(it.out) <= p
    BY <1>1, <1>3
  <2>4. Len(Finished(IF it.refused THEN Cleared(it) ELSE it, p).out) <= p
    BY <2>1, <2>2, <2>3, <1>3
  <2>5. Len((IF it.refused THEN it ELSE Finished(it, p)).out) <= p
    BY <2>3, <1>3
  <2> QED BY <2>4, <2>5 DEF it
<1>4. CASE ~it.refused
  <2>1. p \in Nat
    OBVIOUS
  <2>2. \/ Finished(it, p).out = it.out
        \/ Finished(it, p).out = Append(it.out, y)
    BY <2>1, <1>1, FinishedIs
  <2>3. Len(Append(it.out, y)) = Len(it.out) + 1 /\ Len(it.out) \in Nat
    <3> HIDE DEF y
    <3> QED BY <1>2
  <2>4. Len(Finished(it, p).out) <= p
    BY <1>1, <1>4, <2>2, <2>3
  <2>5. Len(Finished(IF it.refused THEN Cleared(it) ELSE it, p).out) <= p
    BY <2>4, <1>4
  <2>6. Len((IF it.refused THEN it ELSE Finished(it, p)).out) <= p
    BY <2>4, <1>4
  <2> QED BY <2>5, <2>6 DEF it
<1> QED BY <1>3, <1>4

(* What a consumer takes of a list. *)
LEMMA TakenLength ==
    ASSUME NEW A, NEW q \in Seq(A), NEW p \in Nat \ {0}
    PROVE  Len(Taken(q, p)) <= p
<1>1. CASE p \in 1..Len(q)
  <2>1. Taken(q, p) = SubSeq(q, 1, p)
    BY <1>1 DEF Taken
  <2>2. Len(SubSeq(q, 1, p)) = p
    BY <1>1
  <2> QED BY <2>1, <2>2
<1>2. CASE p \notin 1..Len(q)
  <2>1. Taken(q, p) = q
    BY <1>2 DEF Taken
  <2> QED BY <2>1, <1>2
<1> QED BY <1>1, <1>2

(* The blocks of a series satisfy what the scans rely on. *)
LEMMA StoredSpans ==
    ASSUME BytesInv
    PROVE  /\ stored \in Seq(Spanning)
           /\ Content.raw \in Seq(Op) /\ Ordered(Content.raw)
           /\ Content.buckets \in Seq(BucketItem) /\ Rising(Content.buckets)
<1>1. /\ stored \in Seq(Encoded) /\ Content.raw \in Seq(Op) /\ Nondecreasing(Times(Content.raw))
      /\ Content.buckets \in Seq(BucketItem) /\ Increasing(Times(Content.buckets))
  BY DEF BytesInv, RawList, BucketList
<1>2. Ordered(Content.raw)
  <2> DEFINE ops == Content.raw
             t == Times(ops)
  <2>1. ops \in Seq(Op) /\ Nondecreasing(t)
    BY <1>1
  <2> HIDE DEF ops
  <2>2. t \in Seq(Nat) /\ Len(t) = Len(ops) /\ \A i \in 1..Len(ops) : t[i] = ops[i].at
    BY <2>1, TimesOfOps
  <2>3. \A i, j \in 1..Len(t) : i <= j => t[i] <= t[j]
    <3>1. t \in Seq(Nat) /\ Nondecreasing(t)
      BY <2>1, <2>2
    <3> HIDE DEF t
    <3> QED BY <3>1, NondecreasingPairs
  <2> HIDE DEF t
  <2>4. Ordered(ops)
    BY <2>2, <2>3 DEF Ordered
  <2> QED BY <2>4 DEF ops
<1>3. Rising(Content.buckets)
  BY <1>1, RisingLists
<1>4. Ordered(Content.buckets)
  <2> DEFINE bs == Content.buckets
  <2>1. bs \in Seq(BucketItem) /\ Rising(bs)
    BY <1>1, <1>3
  <2> HIDE DEF bs
  <2>2. ASSUME NEW i \in 1..Len(bs), NEW j \in 1..Len(bs), i <= j PROVE bs[i].at <= bs[j].at
    <3>1. bs[i].at \in Nat /\ bs[j].at \in Nat
      BY <2>1, ItemTimes
    <3>2. CASE i = j
      BY <3>1, <3>2
    <3>3. CASE i < j
      BY <2>1, <3>1, <3>3 DEF Rising
    <3>4. i = j \/ i < j
      BY <2>2
    <3> QED BY <3>2, <3>3, <3>4
  <2>3. Ordered(bs)
    BY <2>2 DEF Ordered
  <2> QED BY <2>3 DEF bs
<1>5. stored \in Seq(Spanning)
  <2>1. Ordered(Decoded(stored).raw) /\ Ordered(Decoded(stored).buckets)
    BY <1>2, <1>4 DEF Content
  <2> QED BY <2>1, <1>1, SegmentsSpan
<1> QED BY <1>1, <1>2, <1>3, <1>5

(* The list of sketchMixedRange has one element a group, in time order of  *)
(* the groups.                                                             *)
MixedGroups(stream, span) == SortedTimes({BucketOf(stream[i].at, span) : i \in 1..Len(stream)})

MixedList(stream, span) ==
    [n \in 1..Len(MixedGroups(stream, span)) |->
        [at    |-> MixedGroups(stream, span)[n],
         parts |-> PartsOf(OfGroup(stream, MixedGroups(stream, span)[n], span))]]

(* The keys of sketchMixedRange's map, sorted, are the seconds of the      *)
(* groups that its items belong to, each once.                             *)
LEMMA MixedGroupsSorted ==
    ASSUME NEW span \in Spans, NEW q \in Seq(BucketItem)
    PROVE  /\ MixedGroups(q, span) \in Seq(WordSet)
           /\ Increasing(MixedGroups(q, span))
           /\ ToSet(MixedGroups(q, span)) = {BucketOf(q[i].at, span) : i \in 1..Len(q)}
<1> DEFINE S == {BucketOf(q[i].at, span) : i \in 1..Len(q)}
<1>1. S \in SUBSET WordSet
  <2>1. \A i \in 1..Len(q) : q[i].at \in WordSet
    BY ItemTimes
  <2> QED BY <2>1, GroupsInOrder
<1>2. SortedTimes(S) \in Seq(S) /\ ToSet(SortedTimes(S)) = S /\ Increasing(SortedTimes(S))
  <2> HIDE DEF S
  <2> QED BY <1>1, SortedTimesSorts
<1>3. SortedTimes(S) \in Seq(WordSet)
  <2> HIDE DEF S
  <2> QED BY <1>1, <1>2
<1> QED BY <1>2, <1>3 DEF MixedGroups

(* However the three iterators of a sketch are chosen, a consumer that     *)
(* leaves at its p-th element has taken no more than p.                    *)
LEMMA SketchLeaves ==
    ASSUME NEW from \in Nat, NEW to \in Nat, NEW s \in Seq(Spanning), NEW span \in Spans,
           NEW p \in Nat \ {0}
    PROVE  Len(SketchRange(s, from, to, span, p)) <= p
<1> DEFINE raws == Stream(OfKind(s, FALSE), from, to)
           buckets == Stream(OfKind(s, TRUE), from, to)
           all == Stream(s, from, to)
<1>1. raws \in Seq(BucketItem) /\ buckets \in Seq(BucketItem) /\ all \in Seq(BucketItem)
  BY OfKindAppend, StreamAppend
<1>2. Len(SketchRawRange(s, from, to, span, p)) <= p
  <2>1. SketchRawRange(s, from, to, span, p)
           = (IF Grouped(raws, span, p).refused THEN Grouped(raws, span, p)
              ELSE Finished(Grouped(raws, span, p), p)).out
    BY DEF SketchRawRange
  <2> HIDE DEF raws
  <2> QED BY <1>1, <2>1, EndsInTime
<1>3. Len(SketchBucketValues(s, from, to, p)) <= p
  <2>1. SketchBucketValues(s, from, to, p) = Taken(buckets, p)
    BY DEF SketchBucketValues
  <2> HIDE DEF buckets
  <2> QED BY <1>1, <2>1, TakenLength
<1>4. Len(SketchMixedRange(s, from, to, span, p)) <= p
  <2>1. SketchMixedRange(s, from, to, span, p) = Taken(MixedList(all, span), p)
    BY DEF SketchMixedRange, MixedList, MixedGroups
  <2> HIDE DEF all
  <2>2. Len(MixedGroups(all, span)) \in Nat
    BY <1>1, MixedGroupsSorted
  <2> DEFINE A == {MixedList(all, span)[n] : n \in 1..Len(MixedGroups(all, span))}
             L == MixedList(all, span)
  <2>3. L \in Seq(A)
    BY <2>2 DEF MixedList
  <2> HIDE DEF A, L
  <2>4. Len(Taken(L, p)) <= p
    BY <2>3, TakenLength
  <2> QED BY <2>1, <2>4 DEF L
<1>5. Len(<<>>) <= p
  OBVIOUS
<1>6. \/ SketchRange(s, from, to, span, p) = <<>>
      \/ SketchRange(s, from, to, span, p) = SketchRawRange(s, from, to, span, p)
      \/ SketchRange(s, from, to, span, p) = SketchBucketValues(s, from, to, p)
      \/ SketchRange(s, from, to, span, p) = SketchMixedRange(s, from, to, span, p)
  BY DEF SketchRange
<1> QED BY <1>2, <1>3, <1>4, <1>5, <1>6

(* A consumer that leaves its loop is not called again: samples and        *)
(* counters by Values, sketches by Values and Range.                       *)
THEOREM ScanLeavesTheLoop == Spec => []LeavesTheLoop
<1>1. ASSUME IInv, NEW i \in Intervals, NEW p \in 1..2
      PROVE  /\ Len(SampleValues(stored, i[1], i[2], p)) <= p
             /\ Len(CounterValues(stored, i[1], i[2], p)) <= p
             /\ \A span \in {0, Span} : Len(SketchRange(stored, i[1], i[2], span, p)) <= p
  <2>1. stored \in Seq(Spanning) /\ i[1] \in Nat /\ i[2] \in Nat /\ p \in Nat \ {0}
    <3>1. stored \in Seq(Spanning)
      BY <1>1, StoredSpans DEF IInv
    <3>2. i[1] \in Time /\ i[2] \in Time
      BY DEF Intervals
    <3>3. i[1] \in Nat /\ i[2] \in Nat
      BY <3>2, TimeAssumption
    <3> QED BY <3>1, <3>3
  <2> DEFINE q == Stream(stored, i[1], i[2])
             f == i[1]
             t == i[2]
  <2>2. f \in Nat /\ t \in Nat
    BY <2>1
  <2>3. q \in Seq(BucketItem)
    <3> HIDE DEF f, t
    <3> QED BY <2>1, <2>2, StreamAppend
  <2>4. Len(SampleValues(stored, f, t, p)) <= p
    <3>1. SampleValues(stored, f, t, p) = Taken(q, p)
      BY DEF SampleValues
    <3> HIDE DEF q
    <3> QED BY <3>1, <2>1, <2>3, TakenLength
  <2>5. Len(CounterValues(stored, f, t, p)) <= p
    <3>1. CounterValues(stored, f, t, p)
             = Finished(IF Grouped(q, 0, p).refused THEN Cleared(Grouped(q, 0, p)) ELSE Grouped(q, 0, p), p).out
      BY DEF CounterValues
    <3>2. 0 \in Spans
      BY DEF Spans
    <3> HIDE DEF q
    <3> QED BY <3>1, <3>2, <2>1, <2>3, EndsInTime
  <2>6. \A span \in Spans : Len(SketchRange(stored, f, t, span, p)) <= p
    <3> HIDE DEF f, t
    <3> QED BY <2>1, <2>2, SketchLeaves
  <2> QED BY <2>4, <2>5, <2>6 DEF Spans
<1>2. IInv => LeavesTheLoop
  <2> SUFFICES ASSUME IInv PROVE LeavesTheLoop
    OBVIOUS
  <2>1. kind \in KnownKinds
    BY DEF IInv, ClockInv
  <2> QED BY <1>1, <2>1 DEF LeavesTheLoop, KnownKinds
<1> QED BY <1>2, SeriesInv, PTL

-----------------------------------------------------------------------------
(* How the items of a series lie.  Every list of blocks comes from         *)
(* AppendTo: the buckets before the raw points, and what is appended later *)
(* is raw.                                                                 *)

(* The raw operations of a list of segments, one segment at a time. *)
LEMMA RawAppend ==
    /\ Decoded(<<>>).raw = <<>>
    /\ \A s \in Seq(Encoded), seg \in Encoded :
          /\ Decoded(s).raw \in Seq(Op) /\ RawIn(seg) \in Seq(Op)
          /\ Decoded(Append(s, seg)).raw = Decoded(s).raw \o RawIn(seg)
<1> DEFINE f == [seg \in Encoded |-> RawIn(seg)]
<1>1. f \in Maps(Encoded, Seq(Op))
  BY EncodedContent DEF Maps
<1>2. \A seg \in Encoded : f[seg] = RawIn(seg)
  OBVIOUS
<1>3. \A s \in Seq(Encoded) : Decoded(s).raw = FlatMap(f, s)
  <2> TAKE s \in Seq(Encoded)
  <2>1. \A i \in 1..Len(s) : f[s[i]] = RawIn(s[i])
    OBVIOUS
  <2>2. Decoded(s).raw = FlattenSeq(RawLists(s))
    BY DecodedAs
  <2> HIDE DEF f
  <2>3. RawLists(s) = Mapped(f, s)
    BY <2>1 DEF RawLists, Mapped
  <2> QED BY <2>2, <2>3 DEF FlatMap
<1> HIDE DEF f
<1>4. \A s \in Seq(Encoded), seg \in Encoded : FlatMap(f, Append(s, seg)) = FlatMap(f, s) \o f[seg]
  BY <1>1, FlatMapAppend
<1>5. \A s \in Seq(Encoded) : FlatMap(f, s) \in Seq(Op)
  BY <1>1, FlatMapLists
<1>6. \A s \in Seq(Encoded), seg \in Encoded : Append(s, seg) \in Seq(Encoded)
  OBVIOUS
<1>7. \A s \in Seq(Encoded), seg \in Encoded : Decoded(Append(s, seg)).raw = Decoded(s).raw \o RawIn(seg)
  BY <1>2, <1>3, <1>4, <1>6, Zenon
<1>8. \A s \in Seq(Encoded) : Decoded(s).raw \in Seq(Op)
  BY <1>3, <1>5
<1>9. \A seg \in Encoded : RawIn(seg) \in Seq(Op)
  BY EncodedContent
<1>10. Decoded(<<>>).raw = <<>>
  BY DecodedNothing
<1> QED BY <1>7, <1>8, <1>9, <1>10

(* The same of the buckets. *)
LEMMA BucketsAppend ==
    /\ Decoded(<<>>).buckets = <<>>
    /\ \A s \in Seq(Encoded), seg \in Encoded :
          /\ Decoded(s).buckets \in Seq(BucketItem) /\ BucketsIn(seg) \in Seq(BucketItem)
          /\ Decoded(Append(s, seg)).buckets = Decoded(s).buckets \o BucketsIn(seg)
<1> DEFINE f == [seg \in Encoded |-> BucketsIn(seg)]
<1>1. f \in Maps(Encoded, Seq(BucketItem))
  BY EncodedContent DEF Maps
<1>2. \A seg \in Encoded : f[seg] = BucketsIn(seg)
  OBVIOUS
<1>3. \A s \in Seq(Encoded) : Decoded(s).buckets = FlatMap(f, s)
  <2> TAKE s \in Seq(Encoded)
  <2>1. \A i \in 1..Len(s) : f[s[i]] = BucketsIn(s[i])
    OBVIOUS
  <2>2. Decoded(s).buckets = FlattenSeq(BucketLists(s))
    BY DecodedAs
  <2> HIDE DEF f
  <2>3. BucketLists(s) = Mapped(f, s)
    BY <2>1 DEF BucketLists, Mapped
  <2> QED BY <2>2, <2>3 DEF FlatMap
<1> HIDE DEF f
<1>4. \A s \in Seq(Encoded), seg \in Encoded : FlatMap(f, Append(s, seg)) = FlatMap(f, s) \o f[seg]
  BY <1>1, FlatMapAppend
<1>5. \A s \in Seq(Encoded) : FlatMap(f, s) \in Seq(BucketItem)
  BY <1>1, FlatMapLists
<1>6. \A s \in Seq(Encoded), seg \in Encoded : Append(s, seg) \in Seq(Encoded)
  OBVIOUS
<1>7. \A s \in Seq(Encoded), seg \in Encoded : Decoded(Append(s, seg)).buckets = Decoded(s).buckets \o BucketsIn(seg)
  BY <1>2, <1>3, <1>4, <1>6, Zenon
<1>8. \A s \in Seq(Encoded) : Decoded(s).buckets \in Seq(BucketItem)
  BY <1>3, <1>5
<1>9. \A seg \in Encoded : BucketsIn(seg) \in Seq(BucketItem)
  BY EncodedContent
<1>10. Decoded(<<>>).buckets = <<>>
  BY DecodedNothing
<1> QED BY <1>7, <1>8, <1>9, <1>10

(* Every segment of a list says which kind it holds. *)
LEMMA SegmentsMarked ==
    ASSUME NEW A, NEW items \in Seq(A), NEW bucket \in BOOLEAN
    PROVE  \A i \in 1..Len(SegmentsOf(items, bucket)) : SegmentsOf(items, bucket)[i].bucket = bucket
<1> DEFINE s == SegmentsOf(items, bucket)
           N == ChunkCount(items)
<1>1. N \in Nat
  BY Cuts
<1>2. s = [n \in 1..N |-> Segment(Chunks(items)[n], bucket)]
  BY SegmentsOfChunks
<1>3. \A c : Segment(c, bucket).bucket = bucket
  BY DEF Segment
<1> HIDE DEF s, N
<1>4. Len(s) = N
  BY <1>1, <1>2
<1>5. \A i \in 1..Len(s) : s[i].bucket = bucket
  BY <1>2, <1>3, <1>4
<1> QED BY <1>5 DEF s

(* Segments of one kind hold the raw points, or the buckets, of a list. *)
LEMMA ItemsOfSegments ==
    /\ \A ops \in Seq(Op) : AllItems(SegmentsOf(ops, FALSE)) = RawItems(ops)
    /\ \A b \in Seq(BucketItem) : AllItems(SegmentsOf(b, TRUE)) = b
<1>1. ASSUME NEW ops \in Seq(Op) PROVE AllItems(SegmentsOf(ops, FALSE)) = RawItems(ops)
  <2> DEFINE A == {seg \in Encoded : ~seg.bucket}
             S == {t \in Seq(Encoded) : AllItems(t) = RawItems(Decoded(t).raw)}
             s == SegmentsOf(ops, FALSE)
  <2>1. <<>> \in S
    <3>1. <<>> \in Seq(Encoded) /\ <<>> \in Seq(Op)
      OBVIOUS
    <3>2. RawItems(<<>>) = <<>>
      BY <3>1, RawItemsList
    <3>3. AllItems(<<>>) = <<>> /\ Decoded(<<>>).raw = <<>>
      BY AllItemsAppend, RawAppend
    <3>4. AllItems(<<>>) = RawItems(Decoded(<<>>).raw)
      BY <3>2, <3>3, Zenon
    <3> QED BY <3>1, <3>4
  <2>2. ASSUME NEW t \in Seq(A), NEW seg \in A, t \in S PROVE Append(t, seg) \in S
    <3>1. t \in Seq(Encoded) /\ seg \in Encoded /\ ~seg.bucket /\ Append(t, seg) \in Seq(Encoded)
      OBVIOUS
    <3> DEFINE x == Decoded(t).raw
               y == RawIn(seg)
    <3>2. x \in Seq(Op) /\ y \in Seq(Op) /\ Decoded(Append(t, seg)).raw = x \o y
      BY <3>1, RawAppend
    <3>3. Items(seg) = RawItems(y)
      BY <3>1, SegmentItems
    <3>4. AllItems(Append(t, seg)) = AllItems(t) \o Items(seg)
      BY <3>1, AllItemsAppend
    <3>5. AllItems(t) = RawItems(x)
      BY <2>2
    <3> HIDE DEF x, y
    <3>6. RawItems(x \o y) = RawItems(x) \o RawItems(y)
      BY <3>2, RawItemsList
    <3>7. AllItems(Append(t, seg)) = RawItems(Decoded(Append(t, seg)).raw)
      BY <3>2, <3>3, <3>4, <3>5, <3>6, Zenon
    <3> QED BY <3>1, <3>7
  <2>3. s \in Seq(Encoded) /\ Decoded(s).raw = ops
    <3>1. s \in Seq(Encoded) /\ Decoded(s) = [raw |-> ops, buckets |-> <<>>]
      BY RawSegments
    <3> HIDE DEF s
    <3> QED BY <3>1
  <2>4. s \in Seq(A)
    <3>1. \A i \in 1..Len(s) : s[i].bucket = FALSE
      BY SegmentsMarked
    <3> HIDE DEF s
    <3> QED BY <2>3, <3>1
  <2>5. s \in S
    <3> HIDE DEF S, A, s
    <3> QED BY <2>1, <2>2, <2>4, ListInduction
  <2> HIDE DEF s
  <2>6. AllItems(s) = RawItems(ops)
    BY <2>3, <2>5
  <2> QED BY <2>6 DEF s
<1>2. ASSUME NEW b \in Seq(BucketItem) PROVE AllItems(SegmentsOf(b, TRUE)) = b
  <2> DEFINE s == SegmentsOf(b, TRUE)
  <2>1. s \in Seq(Encoded) /\ Decoded(s).buckets = b
    <3>1. s \in Seq(Encoded) /\ Decoded(s) = [raw |-> <<>>, buckets |-> b]
      BY BucketSegments
    <3> HIDE DEF s
    <3> QED BY <3>1
  <2>2. \A i \in 1..Len(s) : s[i].bucket = TRUE
    BY SegmentsMarked
  <2> HIDE DEF s
  <2>3. \A i \in 1..Len(s) : Items(s[i]) = BucketsIn(s[i])
    BY <2>1, <2>2, SegmentItems
  <2>4. AllItems(s) = FlattenSeq(BucketLists(s))
    BY <2>3 DEF AllItems, BucketLists
  <2>5. AllItems(s) = b
    BY <2>1, <2>4, DecodedAs
  <2> QED BY <2>5 DEF s
<1> QED BY <1>1, <1>2

(* The raw points follow the buckets. *)
LaidOut(s) == AllItems(s) = Decoded(s).buckets \o RawItems(Decoded(s).raw)

(* Writing a pending series behind a list of segments adds its buckets and *)
(* then its raw points: behind nothing, and, without buckets, behind a     *)
(* list laid out already, the result is laid out.                          *)
LEMMA AppendLaysOut ==
    ASSUME NEW s \in Seq(Encoded), LaidOut(s), NEW p,
           p.raw \in Seq(Op), p.buckets \in Seq(BucketItem),
           s = <<>> \/ p.buckets = <<>>
    PROVE  LaidOut(AppendTo(s, p))
<1> DEFINE x == SegmentsOf(p.buckets, TRUE)
           y == SegmentsOf(p.raw, FALSE)
           t == AppendTo(s, p)
           sb == Decoded(s).buckets
           sr == Decoded(s).raw
           pb == p.buckets
           pr == p.raw
<1>1. x \in Seq(Encoded) /\ y \in Seq(Encoded) /\ t = (s \o x) \o y
  BY RawSegments, BucketSegments DEF AppendTo
<1>2. AllItems(x) = pb /\ AllItems(y) = RawItems(pr)
  BY ItemsOfSegments
<1>3. Decoded(t).raw = sr \o pr /\ Decoded(t).buckets = sb \o pb
  <2>1. Decoded(t) = [raw |-> sr \o pr, buckets |-> sb \o pb]
    BY DecodedAppend
  <2> HIDE DEF t, sr, sb, pr, pb
  <2> QED BY <2>1
<1>4. sr \in Seq(Op) /\ sb \in Seq(BucketItem) /\ pr \in Seq(Op) /\ pb \in Seq(BucketItem)
  <2>1. sr \in Seq(Op) /\ sb \in Seq(BucketItem)
    BY DecodedConcat
  <2> QED BY <2>1
<1>5. s = <<>> => sb = <<>> /\ sr = <<>>
  BY DecodedNothing
<1>6. AllItems(s) = sb \o RawItems(sr) /\ (s = <<>> \/ pb = <<>>)
  BY DEF LaidOut
<1> HIDE DEF x, y, t, sb, sr, pb, pr
<1>7. AllItems(t) = (AllItems(s) \o AllItems(x)) \o AllItems(y)
  <2>1. s \o x \in Seq(Encoded)
    BY <1>1, ConcatProperties
  <2>2. AllItems((s \o x) \o y) = AllItems(s \o x) \o AllItems(y)
    BY <1>1, <2>1, AllItemsAppend
  <2>3. AllItems(s \o x) = AllItems(s) \o AllItems(x)
    BY <1>1, AllItemsAppend
  <2> QED BY <1>1, <2>2, <2>3, Zenon
<1> DEFINE u == RawItems(sr)
           v == RawItems(pr)
<1>8. u \in Seq(BucketItem) /\ v \in Seq(BucketItem) /\ RawItems(sr \o pr) = u \o v
  BY <1>4, RawItemsList
<1>9. AllItems(t) = ((sb \o u) \o pb) \o v
  BY <1>2, <1>6, <1>7, Zenon
<1>10. s = <<>> => u = <<>>
  <2>1. <<>> \in Seq(Op)
    OBVIOUS
  <2>2. RawItems(<<>>) = <<>>
    BY <2>1, RawItemsList
  <2> QED BY <1>5, <2>2, Zenon
<1> HIDE DEF u, v
<1>11. ((sb \o u) \o pb) \o v = (sb \o pb) \o (u \o v)
  <2> DEFINE A == BucketItem
  <2>1. sb \in Seq(A) /\ u \in Seq(A) /\ pb \in Seq(A) /\ v \in Seq(A)
    BY <1>4, <1>8
  <2>2. sb \o u \in Seq(A) /\ sb \o pb \in Seq(A) /\ u \o v \in Seq(A)
    BY <2>1, ConcatProperties
  <2>3. CASE s = <<>>
    <3>1. u = <<>> /\ sb = <<>>
      BY <2>3, <1>5, <1>10
    <3> HIDE DEF A
    <3>2. <<>> \o u = u /\ <<>> \o pb = pb /\ u \o v = v
      BY <3>1, <2>1, ConcatEmptySeq
    <3>3. ((sb \o u) \o pb) \o v = pb \o v
      BY <3>1, <3>2, Zenon
    <3>4. (sb \o pb) \o (u \o v) = pb \o v
      BY <3>1, <3>2, Zenon
    <3> QED BY <3>3, <3>4
  <2>4. CASE pb = <<>>
    <3> HIDE DEF A
    <3>1. (sb \o u) \o pb = sb \o u /\ sb \o pb = sb
      BY <2>1, <2>2, <2>4, ConcatEmptySeq
    <3>2. (sb \o u) \o v = sb \o (u \o v)
      <4>1. \A a, b, c \in Seq(A) : (a \o b) \o c = a \o (b \o c)
        BY Associative, SMTT(30)
      <4> QED BY <4>1, <2>1, Zenon
    <3> QED BY <3>1, <3>2, Zenon
  <2> QED BY <1>6, <2>3, <2>4
<1>12. AllItems(t) = Decoded(t).buckets \o RawItems(Decoded(t).raw)
  BY <1>3, <1>8, <1>9, <1>11, Zenon
<1>13. LaidOut(t)
  BY <1>12 DEF LaidOut
<1> QED BY <1>13 DEF t

(* What a bucket holds: operations of its second, at least one; and, of    *)
(* samples filed in time, each part before the next.                       *)
HomeOf(t, parts) == UNION ToSet(parts) # {} /\ \A o \in UNION ToSet(parts) : BucketOf(o.at, Span) = t
Ascending(parts) == \A i, j \in 1..Len(parts) : i < j => \A a \in parts[i], b \in parts[j] : a.at < b.at

AtHome(f) == \A t \in DOMAIN f : HomeOf(t, f[t])
Sorted(f) == \A t \in DOMAIN f : Ascending(f[t])

(* Folding an operation keeps every bucket's operations its own. *)
LEMMA FoldOpAtHome ==
    ASSUME NEW k, NEW f \in BucketMaps, NEW op \in Op,
           \A t \in DOMAIN f : OnePart(k, f[t]), AtHome(f)
    PROVE  AtHome(FoldOp(k, f, op))
<1> DEFINE b == BucketOf(op.at, Span)
           old == IF b \in DOMAIN f THEN f[b] ELSE <<>>
           new == NewParts(k, old, op)
           g == FoldOp(k, f, op)
<1>1. PICK D \in SUBSET WordSet : f \in [D -> Seq(SUBSET Op)]
  BY DEF BucketMaps
<1>2. g = [t \in D \cup {b} |-> IF t = b THEN new ELSE f[t]]
  BY <1>1 DEF FoldOp, NewParts
<1>3. old \in Seq(SUBSET Op) /\ OnePart(k, old) /\ \A o \in UNION ToSet(old) : BucketOf(o.at, Span) = b
  <2>1. <<>> \in Seq(SUBSET Op) /\ OnePart(k, <<>>) /\ ToSet(<<>>) = {}
    BY EmptySeq DEF OnePart, ToSet
  <2> HIDE DEF b
  <2>2. CASE b \in DOMAIN f
    BY <1>1, <2>2 DEF AtHome, HomeOf
  <2>3. CASE b \notin DOMAIN f
    <3>1. old = <<>>
      BY <2>3
    <3> QED BY <2>1, <3>1
  <2> QED BY <2>2, <2>3
<1> HIDE DEF b, old, new, g
<1>4. UNION ToSet(new) = (UNION ToSet(old)) \cup {op}
  BY <1>3, NewPartsAdd DEF new
<1>5. HomeOf(b, new)
  BY <1>3, <1>4 DEF HomeOf, b
<1>6. \A t \in D : HomeOf(t, f[t])
  BY <1>1 DEF AtHome
<1>7. AtHome(g)
  BY <1>2, <1>5, <1>6 DEF AtHome
<1> QED BY <1>7 DEF g

(* Folding a sample that is later than every one folded keeps the parts of *)
(* each bucket in time order.                                              *)
LEMMA FoldOpSorted ==
    ASSUME NEW f \in BucketMaps, NEW op \in Op, Sorted(f), \A o \in MapParts(f) : o.at < op.at
    PROVE  Sorted(FoldOp("sample", f, op))
<1> DEFINE b == BucketOf(op.at, Span)
           old == IF b \in DOMAIN f THEN f[b] ELSE <<>>
           new == Append(old, {op})
           g == FoldOp("sample", f, op)
<1>1. PICK D \in SUBSET WordSet : f \in [D -> Seq(SUBSET Op)]
  BY DEF BucketMaps
<1>2. g = [t \in D \cup {b} |-> IF t = b THEN new ELSE f[t]]
  BY <1>1 DEF FoldOp
<1> HIDE DEF b, g
<1>3. old \in Seq(SUBSET Op) /\ Ascending(old) /\ \A i \in 1..Len(old) : \A o \in old[i] : o.at < op.at
  <2>1. CASE b \in DOMAIN f
    <3>1. old = f[b] /\ b \in D
      BY <2>1, <1>1
    <3>2. old \in Seq(SUBSET Op) /\ Ascending(old)
      BY <3>1, <1>1 DEF Sorted
    <3>3. ASSUME NEW i \in 1..Len(old), NEW o \in old[i] PROVE o.at < op.at
      <4>1. old[i] \in ToSet(old)
        BY <3>2 DEF ToSet
      <4>2. o \in MapParts(f)
        BY <2>1, <3>1, <4>1 DEF MapParts
      <4> QED BY <4>2
    <3> QED BY <3>2, <3>3
  <2>2. CASE b \notin DOMAIN f
    <3>1. old = <<>>
      BY <2>2
    <3>2. Len(<<>>) = 0 /\ <<>> \in Seq(SUBSET Op) /\ 1..0 = {}
      OBVIOUS
    <3> HIDE DEF old
    <3>3. 1..Len(old) = {}
      BY <3>1, <3>2
    <3>4. old \in Seq(SUBSET Op)
      BY <3>1, <3>2
    <3> QED BY <3>3, <3>4 DEF Ascending
  <2> QED BY <2>1, <2>2
<1> HIDE DEF old
<1>4. Ascending(new)
  <2> SUFFICES ASSUME NEW i \in 1..Len(new), NEW j \in 1..Len(new), i < j, NEW x \in new[i], NEW y \in new[j]
               PROVE  x.at < y.at
    BY DEF Ascending
  <2>1. Len(new) = Len(old) + 1 /\ Len(old) \in Nat /\ new[Len(old) + 1] = {op}
        /\ \A n \in 1..Len(old) : new[n] = old[n]
    BY <1>3
  <2> HIDE DEF new
  <2>2. i \in 1..Len(old) /\ new[i] = old[i]
    BY <2>1
  <2>3. CASE j \in 1..Len(old)
    BY <2>1, <2>2, <2>3, <1>3 DEF Ascending
  <2>4. CASE j = Len(old) + 1
    BY <2>1, <2>2, <2>4, <1>3
  <2> QED BY <2>1, <2>3, <2>4
<1> HIDE DEF new
<1>5. \A t \in D : Ascending(f[t])
  BY <1>1 DEF Sorted
<1>6. Sorted(g)
  BY <1>2, <1>4, <1>5 DEF Sorted
<1> QED BY <1>6 DEF g

(* The same of a list of buckets. *)
BucketsAtHome(bs) == \A i \in 1..Len(bs) : HomeOf(bs[i].at, bs[i].parts)
BucketsSorted(bs) == \A i \in 1..Len(bs) : Ascending(bs[i].parts)

(* The map a compaction starts from, and the list it ends with, hold the   *)
(* same buckets.                                                           *)
LEMMA BucketsOfMap ==
    /\ \A bs \in Seq(BucketItem) :
          /\ BucketsAtHome(bs) => AtHome(MapOf(bs))
          /\ BucketsSorted(bs) => Sorted(MapOf(bs))
    /\ \A f \in BucketMaps :
          /\ AtHome(f) => BucketsAtHome(ListOf(f))
          /\ Sorted(f) => BucketsSorted(ListOf(f))
<1>1. ASSUME NEW bs \in Seq(BucketItem), NEW t \in DOMAIN MapOf(bs)
      PROVE  \E i \in 1..Len(bs) : t = bs[i].at /\ MapOf(bs)[t] = bs[i].parts
  <2>1. ToSet(Times(bs)) = {bs[i].at : i \in 1..Len(bs)} /\ DOMAIN bs = 1..Len(bs)
    BY TimesOfBuckets
  <2>2. t \in ToSet(Times(bs)) /\ MapOf(bs)[t] = bs[CHOOSE i \in DOMAIN bs : bs[i].at = t].parts
    BY DEF MapOf
  <2>3. \E i \in DOMAIN bs : bs[i].at = t
    BY <2>1, <2>2
  <2> DEFINE c == CHOOSE i \in DOMAIN bs : bs[i].at = t
  <2>4. c \in DOMAIN bs /\ bs[c].at = t
    BY <2>3
  <2> HIDE DEF c
  <2> QED BY <2>1, <2>2, <2>4 DEF c
<1>2. ASSUME NEW f \in BucketMaps, NEW i \in 1..Len(ListOf(f))
      PROVE  ListOf(f)[i].at \in DOMAIN f /\ ListOf(f)[i].parts = f[ListOf(f)[i].at]
  <2> DEFINE D == DOMAIN f
             q == SortedTimes(D)
  <2>1. D \in SUBSET WordSet
    BY DEF BucketMaps
  <2>2. q \in Seq(D)
    <3> HIDE DEF D
    <3> QED BY <2>1, SortedTimesSorts
  <2>3. DOMAIN q = 1..Len(q) /\ Len(q) \in Nat /\ \A n \in 1..Len(q) : q[n] \in D
    <3> HIDE DEF q, D
    <3> QED BY <2>2
  <2>4. ListOf(f) = [n \in 1..Len(q) |-> [at |-> q[n], parts |-> f[q[n]]]]
    BY <2>3 DEF ListOf
  <2> HIDE DEF q
  <2> QED BY <2>3, <2>4
<1>3. ASSUME NEW bs \in Seq(BucketItem)
      PROVE  (BucketsAtHome(bs) => AtHome(MapOf(bs))) /\ (BucketsSorted(bs) => Sorted(MapOf(bs)))
  BY <1>1 DEF BucketsAtHome, BucketsSorted, AtHome, Sorted
<1>4. ASSUME NEW f \in BucketMaps
      PROVE  (AtHome(f) => BucketsAtHome(ListOf(f))) /\ (Sorted(f) => BucketsSorted(ListOf(f)))
  BY <1>2 DEF BucketsAtHome, BucketsSorted, AtHome, Sorted
<1> QED BY <1>3, <1>4

(* A compaction leaves every operation in its own bucket. *)
LEMMA CompactKeepsHomes ==
    ASSUME NEW k, NEW cutoff \in Nat, NEW p, RawList(k, p.raw), BucketList(k, p.buckets),
           BucketsAtHome(p.buckets)
    PROVE  BucketsAtHome(CompactedPending(k, p, cutoff).buckets)
<1> DEFINE ops == p.raw
           n == Len(p.raw)
           before == MapOf(p.buckets)
           c == CompactedPending(k, p, cutoff)
<1>1. ops \in Seq(Op) /\ n \in Nat /\ \A i \in 1..n : ops[i] \in Op
  BY DEF RawList
<1>2. AtHome(before)
  BY BucketsOfMap DEF BucketList
<1>3. PICK pass : CompactPass(k, cutoff, p, pass)
  BY CompactPasses
<1>4. /\ pass[0] = [raw |-> <<>>, buckets |-> before]
      /\ \A i \in 0..n : PassOf(k, cutoff, ops, before, i, pass[i])
      /\ \A i \in 1..n : pass[i] = CompactOp(k, cutoff, pass[i - 1], ops[i])
      /\ c = [raw |-> pass[n].raw, buckets |-> ListOf(pass[n].buckets)]
  BY <1>3 DEF CompactPass
<1>5. \A i \in 0..n : pass[i].buckets \in BucketMaps /\ \A t \in DOMAIN pass[i].buckets : OnePart(k, pass[i].buckets[t])
  BY <1>4 DEF PassOf, Accs
<1> DEFINE K == {i \in 0..n : AtHome(pass[i].buckets)}
<1> HIDE DEF before, c, ops, n
<1>6. 0 \in K
  <2>1. pass[0].buckets = before /\ 0 \in 0..n
    BY <1>1, <1>4
  <2> QED BY <2>1, <1>2
<1>7. \A i \in 0..(n - 1) : i \in K => i + 1 \in K
  <2> SUFFICES ASSUME NEW i \in 0..(n - 1), i \in K PROVE AtHome(pass[i + 1].buckets)
    BY <1>1
  <2> DEFINE a == pass[i]
             op == ops[i + 1]
  <2>1. /\ i \in 0..n /\ i + 1 \in 1..n /\ (i + 1) - 1 = i
    BY <1>1
  <2>2. pass[i + 1] = CompactOp(k, cutoff, a, op) /\ op \in Op
    BY <1>1, <1>4, <2>1
  <2>3. a \in Accs /\ AtHome(a.buckets) /\ a.buckets \in BucketMaps
        /\ \A t \in DOMAIN a.buckets : OnePart(k, a.buckets[t])
    BY <1>4, <1>5, <2>1 DEF PassOf
  <2> HIDE DEF a, op
  <2>4. CASE op.at >= cutoff
    <3>1. pass[i + 1].buckets = a.buckets
      BY <2>2, <2>3, <2>4 DEF CompactOp, Accs
    <3> QED BY <3>1, <2>3
  <2>5. CASE ~(op.at >= cutoff)
    <3>1. pass[i + 1].buckets = FoldOp(k, a.buckets, op)
      BY <2>2, <2>3, <2>5 DEF CompactOp, Accs
    <3>2. AtHome(FoldOp(k, a.buckets, op))
      BY <2>2, <2>3, FoldOpAtHome
    <3> QED BY <3>1, <3>2
  <2> QED BY <2>4, <2>5
<1>8. n \in K
  <2>1. n \in 0..n
    BY <1>1
  <2> HIDE DEF K
  <2> QED BY <1>1, <1>6, <1>7, <2>1, UpTo
<1>9. BucketsAtHome(ListOf(pass[n].buckets))
  <2>1. n \in 0..n /\ AtHome(pass[n].buckets)
    BY <1>8
  <2> QED BY <1>5, <2>1, BucketsOfMap
<1>10. BucketsAtHome(c.buckets)
  BY <1>4, <1>9
<1> QED BY <1>10 DEF c

(* A compaction of samples that are all later than what is folded leaves   *)
(* the parts of every bucket in time order.                                *)
LEMMA CompactKeepsOrder ==
    ASSUME NEW cutoff \in Nat, NEW p, RawList("sample", p.raw), BucketList("sample", p.buckets),
           BucketsSorted(p.buckets), \A o \in ListParts(p.buckets), r \in ToSet(p.raw) : o.at < r.at
    PROVE  BucketsSorted(CompactedPending("sample", p, cutoff).buckets)
<1> DEFINE ops == p.raw
           n == Len(p.raw)
           before == MapOf(p.buckets)
           c == CompactedPending("sample", p, cutoff)
<1>1. /\ ops \in Seq(Op) /\ n \in Nat /\ Len(ops) = n /\ \A i \in 1..n : ops[i] \in Op /\ ops[i] \in ToSet(p.raw)
      /\ \A i, j \in 1..n : i < j => ops[i].at < ops[j].at
  <2>1. ops \in Seq(Op) /\ Increasing(Times(ops))
    BY DEF RawList
  <2>2. /\ Times(ops) \in Seq(Nat) /\ Len(Times(ops)) = n
        /\ \A i \in 1..n : Times(ops)[i] = ops[i].at
    BY <2>1, TimesOfOps
  <2> DEFINE t == Times(ops)
  <2> HIDE DEF t
  <2>3. t \in Seq(Nat) /\ Increasing(t) /\ Len(t) = n
    BY <2>1, <2>2 DEF t
  <2>4. \A i, j \in 1..n : i < j => t[i] < t[j]
    BY <2>3, IncreasingPairs
  <2>5. \A i \in 1..n : ops[i] \in ToSet(p.raw)
    BY <2>1 DEF ToSet
  <2> QED BY <2>1, <2>2, <2>4, <2>5 DEF t
<1>2. Sorted(before) /\ MapParts(before) = ListParts(p.buckets)
  BY BucketsOfMap, MapOfBuckets DEF BucketList
<1>3. PICK pass : CompactPass("sample", cutoff, p, pass)
  BY CompactPasses
<1>4. /\ pass[0] = [raw |-> <<>>, buckets |-> before]
      /\ \A i \in 0..n : PassOf("sample", cutoff, ops, before, i, pass[i])
      /\ \A i \in 1..n : pass[i] = CompactOp("sample", cutoff, pass[i - 1], ops[i])
      /\ c = [raw |-> pass[n].raw, buckets |-> ListOf(pass[n].buckets)]
  BY <1>3 DEF CompactPass
<1>5. \A i \in 0..n : pass[i].buckets \in BucketMaps
  BY <1>4 DEF PassOf, Accs
<1>6. \A o \in MapParts(before), i \in 1..n : o.at < ops[i].at
  BY <1>1, <1>2
<1> DEFINE K == {i \in 0..n : Sorted(pass[i].buckets)}
<1> HIDE DEF before, c, ops, n
<1>7. 0 \in K
  <2>1. pass[0].buckets = before /\ 0 \in 0..n
    BY <1>1, <1>4
  <2> QED BY <2>1, <1>2
<1>8. \A i \in 0..(n - 1) : i \in K => i + 1 \in K
  <2> SUFFICES ASSUME NEW i \in 0..(n - 1), i \in K PROVE Sorted(pass[i + 1].buckets)
    BY <1>1
  <2> DEFINE a == pass[i]
             op == ops[i + 1]
  <2>1. /\ i \in 0..n /\ i + 1 \in 1..n /\ (i + 1) - 1 = i
    BY <1>1
  <2>2. pass[i + 1] = CompactOp("sample", cutoff, a, op) /\ op \in Op
    BY <1>1, <1>4, <2>1
  <2>3. a \in Accs /\ Sorted(a.buckets) /\ a.buckets \in BucketMaps
    BY <1>4, <1>5, <2>1 DEF PassOf
  <2>4. \A o \in MapParts(a.buckets) : o.at < op.at
    <3>1. MapParts(a.buckets) = MapParts(before) \cup {o \in {ops[j] : j \in 1..i} : o.at < cutoff}
      BY <1>4, <2>1 DEF PassOf
    <3>2. \A j \in 1..i : ops[j].at < op.at
      <4>1. \A j \in 1..i : j \in 1..n /\ j < i + 1
        BY <1>1
      <4> QED BY <4>1, <1>1, <2>1
    <3>3. \A o \in MapParts(before) : o.at < op.at
      BY <1>6, <2>1
    <3> QED BY <3>1, <3>2, <3>3
  <2> HIDE DEF a, op
  <2>5. CASE op.at >= cutoff
    <3>1. pass[i + 1].buckets = a.buckets
      BY <2>2, <2>3, <2>5 DEF CompactOp, Accs
    <3> QED BY <3>1, <2>3
  <2>6. CASE ~(op.at >= cutoff)
    <3>1. pass[i + 1].buckets = FoldOp("sample", a.buckets, op)
      BY <2>2, <2>3, <2>6 DEF CompactOp, Accs
    <3>2. Sorted(FoldOp("sample", a.buckets, op))
      BY <2>2, <2>3, <2>4, FoldOpSorted
    <3> QED BY <3>1, <3>2
  <2> QED BY <2>5, <2>6
<1>9. n \in K
  <2>1. n \in 0..n
    BY <1>1
  <2> HIDE DEF K
  <2> QED BY <1>1, <1>7, <1>8, <2>1, UpTo
<1>10. BucketsSorted(ListOf(pass[n].buckets))
  <2>1. n \in 0..n /\ Sorted(pass[n].buckets)
    BY <1>9
  <2> QED BY <1>5, <2>1, BucketsOfMap
<1>11. BucketsSorted(c.buckets)
  BY <1>4, <1>10
<1> QED BY <1>11 DEF c

-----------------------------------------------------------------------------
(* The invariant of the scans: the raw points are stored behind the        *)
(* buckets, each bucket holds operations of its own second, what is folded *)
(* is before the horizon and, as long as no write was late, what is not    *)
(* folded is not; then the samples of a bucket are in time order.          *)
ScanInv ==
    /\ IInv
    /\ LaidOut(stored)
    /\ horizon \in Nat
    /\ \A o \in Folded : o.at < horizon
    /\ ~late => \A o \in Raw : o.at >= horizon
    /\ BucketsAtHome(Content.buckets)
    /\ kind = "sample" /\ ~late => BucketsSorted(Content.buckets)

(* A series nothing was written to is laid out. *)
LEMMA NothingLaidOut == LaidOut(<<>>) /\ <<>> \in Seq(Encoded)
<1>1. RawItems(<<>>) = <<>>
  <2>1. <<>> \in Seq(Op)
    OBVIOUS
  <2> QED BY <2>1, RawItemsList
<1>2. AllItems(<<>>) = <<>>
  BY AllItemsAppend
<1>3. <<>> \o <<>> = <<>> /\ Decoded(<<>>).raw = <<>> /\ Decoded(<<>>).buckets = <<>>
  BY DecodedNothing
<1>4. LaidOut(<<>>)
  BY <1>1, <1>2, <1>3, Zenon DEF LaidOut
<1>5. <<>> \in Seq(Encoded)
  OBVIOUS
<1> QED BY <1>4, <1>5

(* It holds of a series nothing was written to. *)
LEMMA InitScanInv == Init => ScanInv
<1> SUFFICES ASSUME Init PROVE ScanInv
  OBVIOUS
<1>1. IInv
  BY InitIInv
<1>2. stored = <<>> /\ horizon = 0 /\ Content.raw = <<>> /\ Content.buckets = <<>>
  BY DecodedNothing DEF Init, Content
<1>3. LaidOut(stored)
  BY <1>2, NothingLaidOut
<1>4. Raw = {} /\ Folded = {}
  BY <1>2 DEF Raw, Folded, ToSet
<1>5. BucketsAtHome(<<>>) /\ BucketsSorted(<<>>)
  BY DEF BucketsAtHome, BucketsSorted
<1> QED BY <1>1, <1>2, <1>3, <1>4, <1>5 DEF ScanInv

(* Whether appended or decoded and written again, the blocks of a merged   *)
(* delta are laid out.                                                     *)
LEMMA MergeLaysOut ==
    ASSUME NEW k \in KnownKinds, NEW s \in Seq(Encoded), LaidOut(s), NEW delta \in Seq(Op),
           NEW t \in Appended(k, s, delta)
    PROVE  LaidOut(t)
<1> DEFINE p == [raw |-> delta, buckets |-> <<>>]
<1>1. <<>> \in Seq(Encoded) /\ <<>> \in Seq(BucketItem) /\ p.raw = delta /\ p.buckets = <<>>
  OBVIOUS
<1>2. LaidOut(AppendTo(s, p))
  <2> HIDE DEF p
  <2> QED BY <1>1, AppendLaysOut
<1>3. LaidOut(<<>>)
  BY NothingLaidOut
<1>4. ASSUME NEW d \in MergedPendings(k, Decoded(s), delta) PROVE LaidOut(AppendTo(<<>>, d))
  <2>1. Decoded(s).raw \in Seq(Op) /\ Decoded(s).buckets \in Seq(BucketItem)
    BY DecodedConcat
  <2> DEFINE ops == MergedOps(k, ToSet(Decoded(s).raw), ToSet(delta))
  <2>2. PICK q \in InTimeOrder(ops) : d = [raw |-> q, buckets |-> Decoded(s).buckets]
    BY DEF MergedPendings
  <2>3. ops \in SUBSET Op /\ IsFiniteSet(ops)
    <3> DEFINE x == ToSet(Decoded(s).raw)
               y == ToSet(delta)
    <3>1. x \in SUBSET Op /\ y \in SUBSET Op /\ IsFiniteSet(x) /\ IsFiniteSet(y)
      BY <2>1, ListIsFinite
    <3> HIDE DEF x, y
    <3>2. ops \subseteq x \cup y
      BY <3>1, MergedOpsAre DEF x, y
    <3>3. IsFiniteSet(x \cup y)
      BY <3>1, FS_Union
    <3> HIDE DEF ops
    <3> QED BY <3>1, <3>2, <3>3, FS_Subset
  <2>4. q \in Seq(Op)
    <3> HIDE DEF ops
    <3>1. q \in SetToSeqs(ops)
      BY <2>2 DEF InTimeOrder
    <3>2. q \in Seq(ops)
      BY <2>3, <3>1, ListingOfSet
    <3> QED BY <2>3, <3>2
  <2>5. d.raw \in Seq(Op) /\ d.buckets \in Seq(BucketItem)
    BY <2>1, <2>2, <2>4
  <2> QED BY <1>1, <1>3, <2>5, AppendLaysOut
<1> QED BY <1>2, <1>4 DEF Appended

(* Merges and compactions preserve it. *)
LEMMA NextScanInv == ScanInv /\ [Next]_vars => ScanInv'
<1> SUFFICES ASSUME ScanInv, [Next]_vars PROVE ScanInv'
  OBVIOUS
<1>1. IInv' /\ IInv
  BY NextIInv DEF ScanInv
<1>2. /\ stored \in Seq(Encoded) /\ kind \in KnownKinds /\ LaidOut(stored)
      /\ Raw \in SUBSET Op /\ \A o \in Raw : o.at \in Nat
      /\ BucketList(kind, Content.buckets) /\ RawList(kind, Content.raw)
  <2>1. written \in SUBSET Op /\ Raw \subseteq written
    BY <1>1 DEF IInv, ClockInv
  <2>2. \A o \in Op : o.at \in Nat
    BY TimeAssumption DEF Op
  <2> QED BY <1>1, <2>1, <2>2 DEF ScanInv, IInv, BytesInv, ClockInv
<1>3. ASSUME NEW n \in 1..MaxDelta, NEW at \in [1..n -> Time], NEW r \in Replica, NEW v \in Value,
             Merge(n, at, r, v)
      PROVE  ScanInv'
  <2>1. Raw' = MergedOps(kind, Raw, ToSet(last')) /\ Folded' = Folded
    BY <1>1, <1>3, MergeStep
  <2>2. last' \in Seq(Op) /\ stored' \in Appended(kind, stored, last') /\ kind' = kind
        /\ Content'.buckets = Content.buckets /\ horizon' = horizon
    <3>1. ClockInv
      BY <1>1 DEF IInv
    <3>2. last' \in Seq(Op) /\ stored' \in Appended(kind, stored, last') /\ kind' = kind
      BY <1>3, <3>1, FreshDelta
    <3>3. Content'.buckets = Content.buckets
      BY <1>1, <1>3, MergeStep
    <3>4. horizon' = horizon
      BY <1>3 DEF Merge
    <3> QED BY <3>2, <3>3, <3>4
  <2>3. LaidOut(stored')
    <3> DEFINE e == last'
               t == stored'
    <3>1. e \in Seq(Op) /\ t \in Appended(kind, stored, e)
      BY <2>2
    <3> HIDE DEF e, t
    <3>2. LaidOut(t)
      BY <1>2, <3>1, MergeLaysOut
    <3> QED BY <3>2 DEF t
  <2>4. ~late' => ~late /\ \A o \in ToSet(last') : o.at >= horizon
    <3> DEFINE d == [i \in 1..n |-> [at |-> at[i], clock |-> clock + i, replica |-> r, value |-> v]]
    <3>1. last' = d /\ late' = (late \/ \E i \in 1..n : at[i] < horizon)
      BY <1>3 DEF Merge
    <3>2. \A i \in 1..n : at[i] \in Nat
      BY TimeAssumption
    <3>3. ToSet(d) = {d[i] : i \in 1..n} /\ \A i \in 1..n : d[i].at = at[i]
      BY DEF ToSet
    <3>4. horizon \in Nat
      BY DEF ScanInv
    <3> HIDE DEF d
    <3>5. ~late' => ~late /\ \A i \in 1..n : at[i] >= horizon
      <4>1. late' <=> (late \/ \E i \in 1..n : at[i] < horizon)
        BY <3>1, Zenon
      <4>2. (\A i \in 1..n : ~(at[i] < horizon)) => \A i \in 1..n : at[i] >= horizon
        BY <3>2, <3>4
      <4> QED BY <4>1, <4>2, Zenon
    <3>6. ToSet(last') = {d[i] : i \in 1..n}
      BY <3>1, <3>3
    <3> QED BY <3>3, <3>5, <3>6
  <2>5. Raw' \subseteq Raw \cup ToSet(last')
    <3> DEFINE e == ToSet(last')
    <3>1. e \in SUBSET Op
      BY <2>2, TimesOfOps
    <3> HIDE DEF e
    <3>2. MergedOps(kind, Raw, e) \subseteq Raw \cup e
      BY <1>2, <3>1, MergedOpsAre
    <3> QED BY <2>1, <3>2 DEF e
  <2>6. horizon' \in Nat /\ \A o \in Folded' : o.at < horizon'
    BY <2>1, <2>2 DEF ScanInv
  <2>7. ~late' => \A o \in Raw' : o.at >= horizon'
    BY <2>2, <2>4, <2>5 DEF ScanInv
  <2>8. BucketsAtHome(Content'.buckets)
    BY <2>2 DEF ScanInv
  <2>9. kind' = "sample" /\ ~late' => BucketsSorted(Content'.buckets)
    BY <2>2, <2>4 DEF ScanInv
  <2> QED BY <1>1, <2>3, <2>6, <2>7, <2>8, <2>9 DEF ScanInv
<1>4. ASSUME NEW cutoff \in Cutoff, Compact(cutoff)
      PROVE  ScanInv'
  <2> DEFINE c == CompactedPending(kind, Content, cutoff)
  <2>1. /\ Raw' = {o \in Raw : o.at >= cutoff}
        /\ Folded' = Folded \cup {o \in Raw : o.at < cutoff}
        /\ kind' = kind /\ Content'.buckets = c.buckets
    BY <1>1, <1>4, CompactStep
  <2>2. /\ stored' = AppendTo(<<>>, c) /\ late' = late
        /\ horizon' = IF (\E op \in Raw : op.at < cutoff) /\ cutoff > horizon THEN cutoff ELSE horizon
        /\ cutoff \in Nat
    BY <1>4, StoredSeriesAssumption DEF Compact
  <2>3. c.raw \in Seq(Op) /\ c.buckets \in Seq(BucketItem)
    <3> DEFINE p == Content
    <3>1. RawList(kind, p.raw) /\ BucketList(kind, p.buckets)
      BY <1>2
    <3> HIDE DEF p
    <3>2. RawList(kind, CompactedPending(kind, p, cutoff).raw) /\ BucketList(kind, CompactedPending(kind, p, cutoff).buckets)
      BY <2>2, <3>1, CompactMovesOps
    <3> QED BY <3>2 DEF p, RawList, BucketList
  <2>4. LaidOut(stored')
    <3> HIDE DEF c
    <3>1. LaidOut(<<>>) /\ <<>> \in Seq(Encoded)
      BY NothingLaidOut
    <3>2. LaidOut(AppendTo(<<>>, c))
      BY <2>3, <3>1, AppendLaysOut
    <3> QED BY <2>2, <3>2
  <2>5. horizon \in Nat /\ (\A o \in Folded : o.at < horizon) /\ (~late => \A o \in Raw : o.at >= horizon)
    BY DEF ScanInv
  <2>6. \A o \in Folded : o.at \in Nat
    <3>1. Folded = ListParts(Content.buckets) /\ Content.buckets \in Seq(BucketItem)
      BY <1>2 DEF Folded, ListParts, BucketList
    <3> DEFINE bs == Content.buckets
    <3> HIDE DEF bs
    <3>2. \A b \in ToSet(bs) : UNION ToSet(b.parts) \in SUBSET Op
      <4>1. \A b \in ToSet(bs) : b.parts \in Seq(SUBSET Op)
        BY <3>1, ItemTimes DEF bs, ToSet
      <4>2. \A q \in Seq(SUBSET Op) : UNION ToSet(q) \in SUBSET Op
        BY DEF ToSet
      <4> QED BY <4>1, <4>2
    <3>3. \A o \in Op : o.at \in Nat
      BY TimeAssumption DEF Op
    <3>4. ListParts(bs) \subseteq Op
      BY <3>2 DEF ListParts
    <3> QED BY <3>1, <3>3, <3>4 DEF bs
  <2>7. horizon' \in Nat /\ \A o \in Folded' : o.at < horizon'
    <3>1. horizon' \in Nat /\ horizon' >= horizon
      BY <2>2, <2>5
    <3>2. \A o \in Folded : o.at < horizon'
      BY <2>5, <2>6, <3>1
    <3>3. ASSUME NEW o \in Raw, o.at < cutoff PROVE o.at < horizon'
      BY <1>2, <2>2, <2>5, <3>3
    <3> QED BY <2>1, <3>1, <3>2, <3>3
  <2>8. ~late' => \A o \in Raw' : o.at >= horizon'
    BY <1>2, <2>1, <2>2, <2>5
  <2>9. BucketsAtHome(c.buckets)
    <3> DEFINE p == Content
    <3>1. RawList(kind, p.raw) /\ BucketList(kind, p.buckets) /\ BucketsAtHome(p.buckets)
      BY <1>2 DEF ScanInv
    <3> HIDE DEF p
    <3>2. BucketsAtHome(CompactedPending(kind, p, cutoff).buckets)
      BY <2>2, <3>1, CompactKeepsHomes
    <3> QED BY <3>2 DEF p
  <2>10. ASSUME kind = "sample", ~late PROVE BucketsSorted(c.buckets)
    <3> DEFINE p == Content
    <3>1. RawList("sample", p.raw) /\ BucketList("sample", p.buckets) /\ BucketsSorted(p.buckets)
      BY <1>2, <2>10 DEF ScanInv
    <3>2. \A o \in ListParts(p.buckets), r \in ToSet(p.raw) : o.at < r.at
      <4>1. ListParts(p.buckets) = Folded /\ ToSet(p.raw) = Raw
        BY DEF Folded, Raw, ListParts
      <4>2. \A o \in Folded, r \in Raw : o.at < r.at
        BY <1>2, <2>5, <2>6, <2>10
      <4> QED BY <4>1, <4>2
    <3> HIDE DEF p
    <3>3. BucketsSorted(CompactedPending("sample", p, cutoff).buckets)
      BY <2>2, <3>1, <3>2, CompactKeepsOrder
    <3> QED BY <2>10, <3>3 DEF p
  <2> HIDE DEF c
  <2>11. BucketsAtHome(Content'.buckets) /\ (kind' = "sample" /\ ~late' => BucketsSorted(Content'.buckets))
    BY <2>1, <2>2, <2>9, <2>10
  <2> QED BY <1>1, <2>4, <2>7, <2>8, <2>11 DEF ScanInv
<1>5. CASE UNCHANGED vars
  <2>1. /\ stored' = stored /\ kind' = kind /\ late' = late /\ horizon' = horizon
    BY <1>5 DEF vars
  <2>2. Content' = Content /\ Raw' = Raw /\ Folded' = Folded
    BY <2>1 DEF Content, Raw, Folded
  <2> QED BY <1>1, <2>1, <2>2 DEF ScanInv, LaidOut
<1> QED BY <1>3, <1>4, <1>5 DEF Next

(* The buckets lie before the raw points, hold what belongs to them, and   *)
(* without late writes end before the raw points begin.                    *)
THEOREM BucketsBeforePoints == Spec => []ScanInv
BY InitScanInv, NextScanInv, PTL DEF Spec

-----------------------------------------------------------------------------
(* Sketches. *)

(* The segments of one kind hold the raw points, or the buckets. *)
LEMMA ItemsOfKind ==
    ASSUME NEW s \in Seq(Spanning)
    PROVE  /\ AllItems(OfKind(s, FALSE)) = RawItems(Decoded(s).raw)
           /\ AllItems(OfKind(s, TRUE)) = Decoded(s).buckets
<1> DEFINE S == {t \in Seq(Spanning) : AllItems(OfKind(t, FALSE)) = RawItems(Decoded(t).raw)}
           B == {t \in Seq(Spanning) : AllItems(OfKind(t, TRUE)) = Decoded(t).buckets}
<1>0. /\ \A t \in Seq(Spanning) : t \in Seq(Encoded)
      /\ \A seg \in Spanning : seg \in Encoded /\ seg.bucket \in BOOLEAN /\ <<seg>> \in Seq(Encoded)
  <2>1. Spanning \subseteq Encoded
    BY DEF Spanning
  <2>2. \A seg \in Spanning : seg.bucket \in BOOLEAN
    BY <2>1, SegmentItems
  <2> QED BY <2>1, <2>2
<1>1. <<>> \in S /\ <<>> \in B
  <2>1. <<>> \in Seq(Spanning) /\ <<>> \in Seq(Op)
    OBVIOUS
  <2>2. OfKind(<<>>, FALSE) = <<>> /\ OfKind(<<>>, TRUE) = <<>>
    BY OfKindAppend
  <2>3. AllItems(<<>>) = <<>> /\ Decoded(<<>>).raw = <<>> /\ Decoded(<<>>).buckets = <<>>
    BY AllItemsAppend, DecodedNothing
  <2>4. RawItems(<<>>) = <<>>
    BY <2>1, RawItemsList
  <2>5. AllItems(OfKind(<<>>, FALSE)) = RawItems(Decoded(<<>>).raw) /\ AllItems(OfKind(<<>>, TRUE)) = Decoded(<<>>).buckets
    BY <2>2, <2>3, <2>4, Zenon
  <2> QED BY <2>1, <2>5
<1>2. ASSUME NEW t \in Seq(Spanning), NEW seg \in Spanning
      PROVE  /\ AllItems(OfKind(Append(t, seg), FALSE))
                   = AllItems(OfKind(t, FALSE)) \o RawItems(RawIn(seg))
             /\ AllItems(OfKind(Append(t, seg), TRUE))
                   = AllItems(OfKind(t, TRUE)) \o BucketsIn(seg)
  <2>1. t \in Seq(Encoded) /\ seg \in Encoded /\ seg.bucket \in BOOLEAN /\ <<seg>> \in Seq(Encoded) /\ <<>> \in Seq(Encoded)
    BY <1>0
  <2>2. /\ Items(seg) = IF seg.bucket THEN BucketsIn(seg) ELSE RawItems(RawIn(seg))
        /\ seg.bucket => RawIn(seg) = <<>>
        /\ ~seg.bucket => BucketsIn(seg) = <<>>
        /\ Items(seg) \in Seq(BucketItem)
    BY <2>1, SegmentItems
  <2>3. RawItems(<<>>) = <<>>
    <3>1. <<>> \in Seq(Op)
      OBVIOUS
    <3> QED BY <3>1, RawItemsList
  <2>4. ASSUME NEW b \in BOOLEAN
        PROVE  /\ seg.bucket = b => AllItems(OfKind(Append(t, seg), b)) = AllItems(OfKind(t, b)) \o Items(seg)
               /\ seg.bucket # b => AllItems(OfKind(Append(t, seg), b)) = AllItems(OfKind(t, b)) \o <<>>
    <3> DEFINE k == OfKind(t, b)
               a == AllItems(k)
    <3>1. k \in Seq(Spanning) /\ OfKind(Append(t, seg), b) = k \o (IF seg.bucket = b THEN <<seg>> ELSE <<>>)
      BY OfKindAppend
    <3>2. k \in Seq(Encoded)
      BY <1>0, <3>1
    <3> HIDE DEF k
    <3>3. a \in Seq(BucketItem)
      BY <3>2, AllItemsAppend
    <3> HIDE DEF a
    <3>4. k \o <<seg>> = Append(k, seg) /\ k \o <<>> = k /\ a \o <<>> = a
      BY <2>1, <3>2, <3>3, AppendIsConcat, ConcatEmptySeq
    <3>5. AllItems(Append(k, seg)) = a \o Items(seg)
      BY <2>1, <3>2, AllItemsAppend DEF a
    <3>6. CASE seg.bucket = b
      <4>1. OfKind(Append(t, seg), b) = Append(k, seg)
        BY <3>1, <3>4, <3>6, Zenon
      <4>2. AllItems(OfKind(Append(t, seg), b)) = a \o Items(seg)
        BY <4>1, <3>5, Zenon
      <4> QED BY <4>2, <3>6 DEF a, k
    <3>7. CASE seg.bucket # b
      <4>1. OfKind(Append(t, seg), b) = k
        BY <3>1, <3>4, <3>7, Zenon
      <4>2. AllItems(OfKind(Append(t, seg), b)) = a \o <<>>
        BY <4>1, <3>4, Zenon DEF a
      <4> QED BY <4>2, <3>7 DEF a, k
    <3> QED BY <3>6, <3>7
  <2>5. CASE seg.bucket = TRUE
    <3>1. AllItems(OfKind(Append(t, seg), TRUE)) = AllItems(OfKind(t, TRUE)) \o Items(seg)
      BY <2>4, <2>5
    <3>2. AllItems(OfKind(Append(t, seg), FALSE)) = AllItems(OfKind(t, FALSE)) \o <<>>
      BY <2>4, <2>5
    <3>3. Items(seg) = BucketsIn(seg) /\ RawItems(RawIn(seg)) = <<>>
      BY <2>2, <2>3, <2>5, Zenon
    <3> QED BY <3>1, <3>2, <3>3, Zenon
  <2>6. CASE seg.bucket = FALSE
    <3>1. AllItems(OfKind(Append(t, seg), FALSE)) = AllItems(OfKind(t, FALSE)) \o Items(seg)
      BY <2>4, <2>6
    <3>2. AllItems(OfKind(Append(t, seg), TRUE)) = AllItems(OfKind(t, TRUE)) \o <<>>
      BY <2>4, <2>6
    <3>3. Items(seg) = RawItems(RawIn(seg)) /\ BucketsIn(seg) = <<>>
      BY <2>2, <2>6
    <3> QED BY <3>1, <3>2, <3>3, Zenon
  <2> QED BY <2>1, <2>5, <2>6
<1>3. ASSUME NEW t \in Seq(Spanning), NEW seg \in Spanning, t \in S PROVE Append(t, seg) \in S
  <2>1. t \in Seq(Encoded) /\ seg \in Encoded /\ Append(t, seg) \in Seq(Spanning)
    BY <1>0
  <2> DEFINE x == Decoded(t).raw
             y == RawIn(seg)
  <2>2. x \in Seq(Op) /\ y \in Seq(Op) /\ Decoded(Append(t, seg)).raw = x \o y
    BY <2>1, RawAppend
  <2>3. AllItems(OfKind(t, FALSE)) = RawItems(x)
    BY <1>3
  <2>4. AllItems(OfKind(Append(t, seg), FALSE)) = AllItems(OfKind(t, FALSE)) \o RawItems(y)
    BY <1>2
  <2> HIDE DEF x, y
  <2>5. RawItems(x \o y) = RawItems(x) \o RawItems(y)
    BY <2>2, RawItemsList
  <2>6. AllItems(OfKind(Append(t, seg), FALSE)) = RawItems(Decoded(Append(t, seg)).raw)
    BY <2>2, <2>3, <2>4, <2>5, Zenon
  <2> QED BY <2>1, <2>6
<1>4. ASSUME NEW t \in Seq(Spanning), NEW seg \in Spanning, t \in B PROVE Append(t, seg) \in B
  <2>1. t \in Seq(Encoded) /\ seg \in Encoded /\ Append(t, seg) \in Seq(Spanning)
    BY <1>0
  <2>2. Decoded(Append(t, seg)).buckets = Decoded(t).buckets \o BucketsIn(seg)
    BY <2>1, BucketsAppend
  <2>3. AllItems(OfKind(t, TRUE)) = Decoded(t).buckets
    BY <1>4
  <2>4. AllItems(OfKind(Append(t, seg), TRUE)) = AllItems(OfKind(t, TRUE)) \o BucketsIn(seg)
    BY <1>2
  <2>5. AllItems(OfKind(Append(t, seg), TRUE)) = Decoded(Append(t, seg)).buckets
    BY <2>2, <2>3, <2>4, Zenon
  <2> QED BY <2>1, <2>5
<1>5. s \in S /\ s \in B
  <2> HIDE DEF S, B
  <2>1. s \in S
    BY <1>1, <1>3, ListInduction
  <2>2. s \in B
    BY <1>1, <1>4, ListInduction
  <2> QED BY <2>1, <2>2
<1> QED BY <1>5

(* The items of an interval are items of the list, in the same order. *)
LEMMA WithinKeepsOrder ==
    ASSUME NEW from, NEW to, NEW q \in Seq(BucketItem)
    PROVE  /\ \A j \in 1..Len(Within(q, from, to)) : \E i \in 1..Len(q) : Within(q, from, to)[j] = q[i]
           /\ Ordered(q) => Ordered(Within(q, from, to))
           /\ Rising(q) => Rising(Within(q, from, to))
<1> DEFINE Taken1(r, w) == \A j \in 1..Len(w) : \E i \in 1..Len(r) : w[j] = r[i]
           W(r) == Within(r, from, to)
           S == {r \in Seq(BucketItem) :
                   Taken1(r, W(r)) /\ (Ordered(r) => Ordered(W(r))) /\ (Rising(r) => Rising(W(r)))}
<1>0. /\ W(<<>>) = <<>>
      /\ \A r \in Seq(BucketItem) : W(r) \in Seq(BucketItem)
      /\ \A r \in Seq(BucketItem), x \in BucketItem :
            W(Append(r, x)) = IF from <= x.at /\ x.at <= to THEN Append(W(r), x) ELSE W(r)
  BY WithinLists
<1> HIDE DEF W
<1>1. <<>> \in S
  <2>1. <<>> \in Seq(BucketItem) /\ Len(<<>>) = 0 /\ 1..0 = {}
    OBVIOUS
  <2> QED BY <2>1, <1>0 DEF Ordered, Rising
<1>2. ASSUME NEW r \in Seq(BucketItem), NEW x \in BucketItem, r \in S PROVE Append(r, x) \in S
  <2> DEFINE e == Append(r, x)
             w == W(r)
             v == W(e)
             l == Len(r)
             m == Len(w)
  <2>1. /\ e \in Seq(BucketItem) /\ l \in Nat /\ Len(e) = l + 1 /\ e[l + 1] = x /\ \A i \in 1..l : e[i] = r[i]
    OBVIOUS
  <2>2. w \in Seq(BucketItem) /\ m \in Nat /\ v = (IF from <= x.at /\ x.at <= to THEN Append(w, x) ELSE w)
    BY <1>0
  <2>3. Taken1(r, w) /\ (Ordered(r) => Ordered(w)) /\ (Rising(r) => Rising(w))
    BY <1>2
  <2>4. /\ x.at \in Nat /\ \A i \in 1..l : r[i] \in BucketItem /\ r[i].at \in Nat
        /\ \A j \in 1..m : w[j] \in BucketItem /\ w[j].at \in Nat
    <3>1. \A i \in 1..l : r[i] \in BucketItem
      OBVIOUS
    <3> HIDE DEF w
    <3>2. \A j \in 1..m : w[j] \in BucketItem
      BY <2>2
    <3> QED BY <3>1, <3>2, ItemTimes
  <2> HIDE DEF e, w, v, S
  <2>5. ASSUME Ordered(e) PROVE Ordered(r) /\ \A i \in 1..l : r[i].at <= x.at
    <3>1. \A i, j \in 1..l : i <= j => r[i].at <= r[j].at
      <4>1. \A i \in 1..l : i \in 1..Len(e)
        BY <2>1
      <4> QED BY <4>1, <2>1, <2>5 DEF Ordered
    <3>2. \A i \in 1..l : i \in 1..Len(e) /\ l + 1 \in 1..Len(e) /\ i <= l + 1
      BY <2>1
    <3>3. \A i \in 1..l : r[i].at <= x.at
      BY <3>2, <2>1, <2>5 DEF Ordered
    <3> QED BY <3>1, <3>3 DEF Ordered
  <2>6. ASSUME Rising(e) PROVE Rising(r) /\ \A i \in 1..l : r[i].at < x.at
    <3>1. \A i, j \in 1..l : i < j => r[i].at < r[j].at
      <4>1. \A i \in 1..l : i \in 1..Len(e)
        BY <2>1
      <4> QED BY <4>1, <2>1, <2>6 DEF Rising
    <3>2. \A i \in 1..l : i \in 1..Len(e) /\ l + 1 \in 1..Len(e) /\ i < l + 1
      BY <2>1
    <3>3. \A i \in 1..l : r[i].at < x.at
      BY <3>2, <2>1, <2>6 DEF Rising
    <3> QED BY <3>1, <3>3 DEF Rising
  <2>7. CASE ~(from <= x.at /\ x.at <= to)
    <3>1. v = w
      BY <2>2, <2>7
    <3>2. Taken1(e, w)
      BY <2>1, <2>3
    <3> QED BY <3>1, <3>2, <2>1, <2>3, <2>5, <2>6 DEF S, v, e
  <2>8. CASE from <= x.at /\ x.at <= to
    <3>1. v = Append(w, x)
      BY <2>2, <2>8
    <3>2. Len(v) = m + 1 /\ v[m + 1] = x /\ \A j \in 1..m : v[j] = w[j]
      <4>1. Len(Append(w, x)) = m + 1 /\ Append(w, x)[m + 1] = x /\ \A j \in 1..m : Append(w, x)[j] = w[j]
        BY <2>2, AppendProperties
      <4> QED BY <3>1, <4>1
    <3> HIDE DEF m, l
    <3>3. Taken1(e, v)
      <4> SUFFICES ASSUME NEW j \in 1..Len(v) PROVE \E i \in 1..Len(e) : v[j] = e[i]
        OBVIOUS
      <4>1. CASE j \in 1..m
        <5>1. PICK i \in 1..l : w[j] = r[i]
          BY <4>1, <2>3 DEF m, l
        <5> QED BY <5>1, <4>1, <3>2, <2>1
      <4>2. CASE j = m + 1
        BY <4>2, <3>2, <2>1
      <4> QED BY <4>1, <4>2, <3>2, <2>2
    <3>4. ASSUME Ordered(e) PROVE Ordered(v)
      <4>1. Ordered(w) /\ \A j \in 1..m : w[j].at <= x.at
        BY <3>4, <2>3, <2>5 DEF m, l
      <4> SUFFICES ASSUME NEW i \in 1..Len(v), NEW j \in 1..Len(v), i <= j PROVE v[i].at <= v[j].at
        BY DEF Ordered
      <4>2. CASE j \in 1..m
        <5>1. i \in 1..m
          BY <4>2, <2>2, <3>2
        <5> QED BY <5>1, <4>2, <4>1, <3>2 DEF Ordered, m
      <4>3. CASE j = m + 1 /\ i \in 1..m
        BY <4>3, <4>1, <3>2
      <4>4. CASE j = m + 1 /\ i = m + 1
        BY <4>4, <3>2, <2>4
      <4> QED BY <4>2, <4>3, <4>4, <3>2, <2>2
    <3>5. ASSUME Rising(e) PROVE Rising(v)
      <4>1. Rising(w) /\ \A j \in 1..m : w[j].at < x.at
        BY <3>5, <2>3, <2>6 DEF m, l
      <4> SUFFICES ASSUME NEW i \in 1..Len(v), NEW j \in 1..Len(v), i < j PROVE v[i].at < v[j].at
        BY DEF Rising
      <4>2. i \in 1..m
        BY <2>2, <3>2
      <4>3. CASE j \in 1..m
        BY <4>2, <4>3, <4>1, <3>2 DEF Rising, m
      <4>4. CASE j = m + 1
        BY <4>2, <4>4, <4>1, <3>2
      <4> QED BY <4>3, <4>4, <3>2, <2>2
    <3> QED BY <3>3, <3>4, <3>5, <2>1 DEF S, v, e
  <2> QED BY <2>7, <2>8 DEF e
<1>3. q \in S
  <2> HIDE DEF S
  <2> QED BY <1>1, <1>2, ListInduction
<1> QED BY <1>3 DEF W

(* Raw points in time order are items in time order. *)
LEMMA RawItemsOrdered ==
    ASSUME NEW ops \in Seq(Op), Ordered(ops)
    PROVE  RawItems(ops) \in Seq(BucketItem) /\ Ordered(RawItems(ops))
<1>1. RawItems(ops) \in Seq(BucketItem) /\ Len(RawItems(ops)) = Len(ops)
  BY RawItemsList
<1>2. \A i \in 1..Len(ops) : RawItems(ops)[i].at = ops[i].at
  <2>1. \A i \in 1..Len(ops) : Item(ops[i]).at = ops[i].at
    BY ItemOf
  <2> QED BY <2>1 DEF RawItems
<1>3. Ordered(RawItems(ops))
  BY <1>1, <1>2 DEF Ordered
<1> QED BY <1>1, <1>3

(* What the three iterators of a sketch fold.                              *)
LEMMA SketchStreams ==
    ASSUME NEW from \in Nat, NEW to \in Nat, NEW s \in Seq(Spanning)
    PROVE  /\ Stream(OfKind(s, FALSE), from, to) = Within(RawItems(Decoded(s).raw), from, to)
           /\ Stream(OfKind(s, TRUE), from, to) = Within(Decoded(s).buckets, from, to)
<1>1. OfKind(s, FALSE) \in Seq(Spanning) /\ OfKind(s, TRUE) \in Seq(Spanning)
  BY OfKindAppend
<1>2. Stream(OfKind(s, FALSE), from, to) = Within(AllItems(OfKind(s, FALSE)), from, to)
  <2> DEFINE r == OfKind(s, FALSE)
  <2> HIDE DEF r
  <2>1. Stream(r, from, to) = Within(AllItems(r), from, to)
    BY <1>1, StreamIsWithin DEF r
  <2> QED BY <2>1 DEF r
<1>3. Stream(OfKind(s, TRUE), from, to) = Within(AllItems(OfKind(s, TRUE)), from, to)
  <2> DEFINE r == OfKind(s, TRUE)
  <2> HIDE DEF r
  <2>1. Stream(r, from, to) = Within(AllItems(r), from, to)
    BY <1>1, StreamIsWithin DEF r
  <2> QED BY <2>1 DEF r
<1> QED BY <1>2, <1>3, ItemsOfKind

(* To its end, a scan of sketches yields what one of these gives. *)
LEMMA SketchRangeIs ==
    ASSUME NEW from \in Nat, NEW to \in Nat, NEW s \in Seq(Spanning), NEW span \in Spans
    PROVE  LET y == SketchRange(s, from, to, span, 0)
               raws == Stream(OfKind(s, FALSE), from, to)
               buckets == Stream(OfKind(s, TRUE), from, to)
               missed(b) == \A i \in 1..Len(s) : s[i].bucket # b => ~Hit(s[i], from, to)
           IN  \/ missed(FALSE) /\ missed(TRUE) /\ y = <<>>
               \/ missed(FALSE) /\ y = Finished(Grouped(raws, span, 0), 0).out
               \/ missed(TRUE) /\ y = buckets
               \/ y = MixedList(Stream(s, from, to), span)
<1> DEFINE y == SketchRange(s, from, to, span, 0)
           raws == Stream(OfKind(s, FALSE), from, to)
           buckets == Stream(OfKind(s, TRUE), from, to)
           missed(b) == \A i \in 1..Len(s) : s[i].bucket # b => ~Hit(s[i], from, to)
           hit == {i \in DOMAIN s : Hit(s[i], from, to)}
           hasRaw == \E i \in hit : ~s[i].bucket
           hasBuckets == \E i \in hit : s[i].bucket
<1>1. DOMAIN s = 1..Len(s) /\ \A i \in 1..Len(s) : s[i].bucket \in BOOLEAN
  <2>1. \A seg \in Spanning : seg.bucket \in BOOLEAN
    BY SegmentItems DEF Spanning
  <2> QED BY <2>1
<1>2. ~hasBuckets => missed(FALSE)
  BY <1>1
<1>3. ~hasRaw => missed(TRUE)
  BY <1>1
<1>4. SketchRawRange(s, from, to, span, 0) = Finished(Grouped(raws, span, 0), 0).out
  <2>1. raws \in Seq(BucketItem)
    BY OfKindAppend, StreamAppend
  <2>2. SketchRawRange(s, from, to, span, 0)
           = (IF Grouped(raws, span, 0).refused THEN Grouped(raws, span, 0)
              ELSE Finished(Grouped(raws, span, 0), 0)).out
    BY DEF SketchRawRange
  <2> HIDE DEF raws
  <2>3. ~Grouped(raws, span, 0).refused
    BY <2>1, FoldKeepsParts
  <2> QED BY <2>2, <2>3
<1>5. \A q : Taken(q, 0) = q
  BY DEF Taken
<1>6. SketchBucketValues(s, from, to, 0) = buckets
  BY <1>5 DEF SketchBucketValues
<1>7. SketchMixedRange(s, from, to, span, 0) = MixedList(Stream(s, from, to), span)
  BY <1>5 DEF SketchMixedRange, MixedList, MixedGroups
<1>8. y = IF hit = {} THEN <<>>
          ELSE IF ~hasBuckets THEN SketchRawRange(s, from, to, span, 0)
          ELSE IF ~hasRaw /\ span = 0 THEN SketchBucketValues(s, from, to, 0)
          ELSE SketchMixedRange(s, from, to, span, 0)
  BY DEF SketchRange
<1> HIDE DEF y, raws, buckets
<1>9. CASE hit = {}
  <2>1. missed(FALSE) /\ missed(TRUE)
    BY <1>2, <1>3, <1>9
  <2>2. y = <<>>
    BY <1>8, <1>9
  <2> QED BY <2>1, <2>2 DEF y
<1>10. CASE hit # {} /\ ~hasBuckets
  <2>1. y = SketchRawRange(s, from, to, span, 0) /\ missed(FALSE)
    BY <1>2, <1>8, <1>10
  <2> HIDE DEF hit, missed
  <2> QED BY <2>1, <1>4 DEF y, raws, missed
<1>11. CASE hit # {} /\ hasBuckets /\ ~hasRaw /\ span = 0
  <2>1. y = SketchBucketValues(s, from, to, 0) /\ missed(TRUE)
    BY <1>3, <1>8, <1>11
  <2> HIDE DEF hit, missed
  <2> QED BY <2>1, <1>6 DEF y, buckets, missed
<1>12. CASE hit # {} /\ hasBuckets /\ ~(~hasRaw /\ span = 0)
  <2>1. y = SketchMixedRange(s, from, to, span, 0)
    BY <1>8, <1>12
  <2> HIDE DEF hit, missed
  <2> QED BY <2>1, <1>7 DEF y
<1> QED BY <1>9, <1>10, <1>11, <1>12

(* The items of one group of a list. *)
LEMMA OfGroupLists ==
    ASSUME NEW span \in Spans, NEW k
    PROVE  /\ OfGroup(<<>>, k, span) = <<>>
           /\ \A q \in Seq(BucketItem) : OfGroup(q, k, span) \in Seq(BucketItem)
           /\ \A q \in Seq(BucketItem), x \in BucketItem :
                 OfGroup(Append(q, x), k, span)
                    = OfGroup(q, k, span) \o (IF BucketOf(x.at, span) = k THEN <<x>> ELSE <<>>)
<1> DEFINE A == BucketItem
           C == BucketItem
           f == [x \in A |-> IF BucketOf(x.at, span) = k THEN <<x>> ELSE <<>>]
<1>1. f \in Maps(A, Seq(C))
  BY DEF Maps
<1>2. \A q \in Seq(A) : OfGroup(q, k, span) = FlatMap(f, q)
  <2> TAKE q \in Seq(A)
  <2>1. \A i \in 1..Len(q) : f[q[i]] = IF BucketOf(q[i].at, span) = k THEN <<q[i]>> ELSE <<>>
    OBVIOUS
  <2> HIDE DEF f, A
  <2> QED BY <2>1 DEF OfGroup, FlatMap, Mapped
<1>3. \A x \in A : f[x] = IF BucketOf(x.at, span) = k THEN <<x>> ELSE <<>>
  OBVIOUS
<1>4. <<>> \in Seq(A) /\ \A q \in Seq(A), x \in A : Append(q, x) \in Seq(A)
  OBVIOUS
<1> HIDE DEF f, A, C
<1>5. /\ FlatMap(f, <<>>) = <<>>
      /\ \A q \in Seq(A), x \in A : FlatMap(f, Append(q, x)) = FlatMap(f, q) \o f[x]
  BY <1>1, FlatMapAppend
<1>6. \A q \in Seq(A) : FlatMap(f, q) \in Seq(C)
  BY <1>1, FlatMapLists
<1>7. OfGroup(<<>>, k, span) = <<>> /\ \A q \in Seq(A) : OfGroup(q, k, span) \in Seq(C)
  BY <1>2, <1>4, <1>5, <1>6
<1>8. \A q \in Seq(A), x \in A : OfGroup(Append(q, x), k, span) = OfGroup(q, k, span) \o f[x]
  BY <1>2, <1>4, <1>5, Zenon
<1>9. \A q \in Seq(A), x \in A :
         OfGroup(Append(q, x), k, span)
            = OfGroup(q, k, span) \o (IF BucketOf(x.at, span) = k THEN <<x>> ELSE <<>>)
  BY <1>3, <1>8, Zenon
<1> QED BY <1>7, <1>9 DEF A, C

(* The list of sketchMixedRange is a list of items, in time order. *)
LEMMA MixedListRises ==
    ASSUME NEW span \in Spans, NEW q \in Seq(BucketItem)
    PROVE  /\ MixedList(q, span) \in Seq(BucketItem)
           /\ Len(MixedList(q, span)) = Len(MixedGroups(q, span))
           /\ Increasing(Times(MixedList(q, span)))
<1> DEFINE order == MixedGroups(q, span)
           l == Len(order)
           m == MixedList(q, span)
<1>1. order \in Seq(WordSet) /\ Increasing(order) /\ l \in Nat
  BY MixedGroupsSorted
<1>2. m = [n \in 1..l |-> [at |-> order[n], parts |-> PartsOf(OfGroup(q, order[n], span))]]
  BY DEF MixedList
<1> HIDE DEF order, m
<1>3. \A n \in 1..l : order[n] \in WordSet
  BY <1>1
<1>4. \A k \in WordSet : OfGroup(q, k, span) \in Seq(BucketItem)
  BY OfGroupLists
<1>5. \A n \in 1..l : PartsOf(OfGroup(q, order[n], span)) \in Seq(SUBSET Op)
  BY <1>3, <1>4, PartsOfLists
<1>6. \A n \in 1..l : [at |-> order[n], parts |-> PartsOf(OfGroup(q, order[n], span))] \in BucketItem
  BY <1>3, <1>5 DEF BucketItem
<1>7. m \in Seq(BucketItem) /\ Len(m) = l /\ DOMAIN m = 1..l
  BY <1>1, <1>2, <1>6
<1>8. Times(m) = order
  <2>1. \A n \in 1..l : m[n].at = order[n]
    BY <1>2
  <2>2. order = [n \in 1..l |-> order[n]]
    BY <1>1
  <2> QED BY <1>7, <2>1, <2>2 DEF Times
<1> QED BY <1>1, <1>7, <1>8 DEF order, m

(* Whatever blocks the interval meets and whatever was written late, the   *)
(* sketches of a scan come in time order, one a group.                     *)
THEOREM ScannedSketchesInOrder == Spec => []SketchesInOrder
<1>1. ASSUME IInv, NEW i \in Intervals, NEW span \in Spans
      PROVE  Increasing(Times(SketchRange(stored, i[1], i[2], span, 0)))
  <2> DEFINE f == i[1]
             t == i[2]
             y == SketchRange(stored, f, t, span, 0)
             raws == Stream(OfKind(stored, FALSE), f, t)
             buckets == Stream(OfKind(stored, TRUE), f, t)
             all == Stream(stored, f, t)
  <2>1. f \in Nat /\ t \in Nat
    <3>1. i[1] \in Time /\ i[2] \in Time
      BY DEF Intervals
    <3> QED BY <3>1, TimeAssumption
  <2>2. /\ stored \in Seq(Spanning)
        /\ Content.raw \in Seq(Op) /\ Ordered(Content.raw)
        /\ Content.buckets \in Seq(BucketItem) /\ Rising(Content.buckets)
    BY <1>1, StoredSpans DEF IInv
  <2> HIDE DEF f, t
  <2>3. /\ raws = Within(RawItems(Content.raw), f, t)
        /\ buckets = Within(Content.buckets, f, t)
        /\ all \in Seq(BucketItem)
    BY <2>1, <2>2, SketchStreams, StreamAppend DEF Content
  <2>4. \/ y = <<>>
        \/ y = Finished(Grouped(raws, span, 0), 0).out
        \/ y = buckets
        \/ y = MixedList(all, span)
    BY <2>1, <2>2, SketchRangeIs
  <2> HIDE DEF y, raws, buckets, all
  <2>5. Increasing(Times(<<>>))
    BY DEF Times, Increasing
  <2>6. Increasing(Times(Finished(Grouped(raws, span, 0), 0).out))
    <3> DEFINE ri == RawItems(Content.raw)
               o == Finished(Grouped(raws, span, 0), 0).out
    <3>1. ri \in Seq(BucketItem) /\ Ordered(ri)
      BY <2>2, RawItemsOrdered
    <3> HIDE DEF ri
    <3>2. raws \in Seq(BucketItem) /\ Ordered(raws)
      <4>1. Within(ri, f, t) \in Seq(BucketItem) /\ Ordered(Within(ri, f, t))
        BY <3>1, WithinLists, WithinKeepsOrder
      <4> QED BY <4>1, <2>3 DEF ri
    <3>3. o \in Seq(BucketItem) /\ Rising(o)
      BY <3>2, FoldKeepsParts, GroupsRise
    <3> HIDE DEF o
    <3>4. Increasing(Times(o))
      BY <3>3, RisingLists
    <3> QED BY <3>4 DEF o
  <2>7. Increasing(Times(buckets))
    <3> DEFINE b == Content.buckets
    <3>1. b \in Seq(BucketItem) /\ Rising(b) /\ buckets = Within(b, f, t)
      BY <2>2, <2>3
    <3> HIDE DEF b
    <3>2. buckets \in Seq(BucketItem) /\ Rising(buckets)
      BY <3>1, WithinLists, WithinKeepsOrder
    <3> QED BY <3>2, RisingLists
  <2>8. Increasing(Times(MixedList(all, span)))
    BY <2>3, MixedListRises
  <2>9. Increasing(Times(y))
    BY <2>4, <2>5, <2>6, <2>7, <2>8
  <2> QED BY <2>9 DEF y, f, t
<1>2. IInv => SketchesInOrder
  BY <1>1 DEF SketchesInOrder, Yielded, Scanned, Spans
<1> QED BY <1>2, SeriesInv, PTL

-----------------------------------------------------------------------------
(* How often something occurs in a list. *)
Occ(q, x) == Cardinality({i \in 1..Len(q) : q[i] = x})

(* One element more counts once. *)
LEMMA OccAppend ==
    ASSUME NEW A, NEW x
    PROVE  /\ Occ(<<>>, x) = 0
           /\ \A q \in Seq(A) : Occ(q, x) \in Nat
           /\ \A q \in Seq(A), y \in A : Occ(Append(q, y), x) = Occ(q, x) + (IF y = x THEN 1 ELSE 0)
<1>1. Occ(<<>>, x) = 0
  <2>1. {i \in 1..Len(<<>>) : <<>>[i] = x} = {}
    OBVIOUS
  <2> QED BY <2>1, FS_EmptySet DEF Occ
<1>2. ASSUME NEW q \in Seq(A) PROVE IsFiniteSet({i \in 1..Len(q) : q[i] = x}) /\ Occ(q, x) \in Nat
  <2> DEFINE D == 1..Len(q)
             P == {i \in D : q[i] = x}
  <2>1. IsFiniteSet(D)
    <3>1. Len(q) \in Int /\ 1 \in Int
      OBVIOUS
    <3> QED BY <3>1, FS_Interval
  <2>2. P \in SUBSET D
    OBVIOUS
  <2>3. Occ(q, x) = Cardinality(P)
    BY DEF Occ
  <2> HIDE DEF D, P
  <2>4. IsFiniteSet(P)
    BY <2>1, <2>2, FS_Subset
  <2>5. Cardinality(P) \in Nat
    BY <2>4, FS_CardinalityType
  <2> QED BY <2>3, <2>4, <2>5 DEF P, D
<1>3. ASSUME NEW q \in Seq(A), NEW y \in A
      PROVE  Occ(Append(q, y), x) = Occ(q, x) + (IF y = x THEN 1 ELSE 0)
  <2> DEFINE e == Append(q, y)
             l == Len(q)
             P == {i \in 1..l : q[i] = x}
             Q == {i \in 1..Len(e) : e[i] = x}
  <2>1. l \in Nat /\ Len(e) = l + 1 /\ e[l + 1] = y /\ \A i \in 1..l : e[i] = q[i]
    OBVIOUS
  <2>2. Occ(q, x) = Cardinality(P) /\ Occ(e, x) = Cardinality(Q) /\ IsFiniteSet(P) /\ Cardinality(P) \in Nat
    BY <1>2 DEF Occ
  <2>3. CASE y = x
    <3>1. Q = P \cup {l + 1} /\ l + 1 \notin P
      BY <2>1, <2>3
    <3> HIDE DEF P, Q, e
    <3>2. Cardinality(Q) = Cardinality(P) + 1
      BY <2>2, <3>1, FS_AddElement
    <3> QED BY <3>2, <2>2, <2>3 DEF e
  <2>4. CASE y # x
    <3>1. Q = P
      BY <2>1, <2>4
    <3> HIDE DEF P, Q, e
    <3> QED BY <3>1, <2>2, <2>4 DEF e
  <2> QED BY <2>3, <2>4
<1> QED BY <1>1, <1>2, <1>3

(* Joining lists adds up. *)
LEMMA OccConcat ==
    ASSUME NEW A, NEW x
    PROVE  \A q, r \in Seq(A) : Occ(q \o r, x) = Occ(q, x) + Occ(r, x)
<1> SUFFICES ASSUME NEW q \in Seq(A), NEW s \in Seq(A) PROVE Occ(q \o s, x) = Occ(q, x) + Occ(s, x)
  OBVIOUS
<1> DEFINE S == {r \in Seq(A) : Occ(q \o r, x) = Occ(q, x) + Occ(r, x)}
<1>0. /\ Occ(<<>>, x) = 0
      /\ \A r \in Seq(A) : Occ(r, x) \in Nat
      /\ \A r \in Seq(A), y \in A : Occ(Append(r, y), x) = Occ(r, x) + (IF y = x THEN 1 ELSE 0)
  BY OccAppend
<1>1. <<>> \in S
  <2>1. <<>> \in Seq(A) /\ q \o <<>> = q
    BY ConcatEmptySeq
  <2> QED BY <2>1, <1>0
<1>2. ASSUME NEW r \in Seq(A), NEW y \in A, r \in S PROVE Append(r, y) \in S
  <2> DEFINE c == q \o r
             k == IF y = x THEN 1 ELSE 0
  <2>1. c \in Seq(A) /\ Append(r, y) \in Seq(A) /\ k \in Nat
    BY ConcatProperties
  <2>2. q \o Append(r, y) = Append(c, y)
    <3>1. r \o <<y>> = Append(r, y) /\ <<y>> \in Seq(A)
      BY AppendIsConcat
    <3>2. c \o <<y>> = Append(c, y)
      <4> HIDE DEF c
      <4> QED BY <2>1, AppendIsConcat
    <3>3. (q \o r) \o <<y>> = q \o (r \o <<y>>)
      <4>1. \A a, b, d \in Seq(A) : (a \o b) \o d = a \o (b \o d)
        BY Associative, SMTT(30)
      <4> QED BY <3>1, <4>1, Zenon
    <3> QED BY <3>1, <3>2, <3>3, Zenon
  <2>3. Occ(c, x) = Occ(q, x) + Occ(r, x)
    BY <1>2
  <2> HIDE DEF c, k
  <2>4. Occ(Append(c, y), x) = Occ(c, x) + k /\ Occ(Append(r, y), x) = Occ(r, x) + k
    BY <2>1, <1>0 DEF k
  <2>5. Occ(c, x) \in Nat /\ Occ(q, x) \in Nat /\ Occ(r, x) \in Nat
    BY <2>1, <1>0
  <2>6. Occ(q \o Append(r, y), x) = Occ(q, x) + Occ(Append(r, y), x)
    BY <2>1, <2>2, <2>3, <2>4, <2>5
  <2> QED BY <2>1, <2>6
<1>3. s \in S
  <2> HIDE DEF S
  <2> QED BY <1>1, <1>2, ListInduction
<1> QED BY <1>3

(* Lists in which everything occurs equally often are the same bag. *)
LEMMA SameBag ==
    ASSUME NEW A, NEW q \in Seq(A), NEW r \in Seq(A), \A x : Occ(q, x) = Occ(r, x)
    PROVE  ToBag(q) = ToBag(r)
<1>1. ASSUME NEW s \in Seq(A) PROVE ToBag(s) = [x \in {y \in A : Occ(s, y) # 0} |-> Occ(s, x)]
  <2>1. DOMAIN s = 1..Len(s)
    OBVIOUS
  <2>2. ToBag(s) = [x \in Range(s) |-> Occ(s, x)]
    BY <2>1 DEF ToBag, Occ
  <2>3. Range(s) = {y \in A : Occ(s, y) # 0}
    <3>1. ASSUME NEW y \in A PROVE y \in Range(s) <=> Occ(s, y) # 0
      <4> DEFINE P == {i \in 1..Len(s) : s[i] = y}
      <4>1. IsFiniteSet(P)
        <5>1. IsFiniteSet(1..Len(s))
          <6>1. Len(s) \in Int /\ 1 \in Int
            OBVIOUS
          <6> QED BY <6>1, FS_Interval
        <5>2. P \in SUBSET (1..Len(s))
          OBVIOUS
        <5> HIDE DEF P
        <5> DEFINE D == 1..Len(s)
        <5> HIDE DEF D
        <5>3. IsFiniteSet(D) /\ P \in SUBSET D
          BY <5>1, <5>2 DEF D
        <5> QED BY <5>3, FS_Subset
      <4>2. y \in Range(s) <=> P # {}
        BY <2>1 DEF Range
      <4>3. Occ(s, y) = Cardinality(P)
        BY DEF Occ
      <4> HIDE DEF P
      <4> QED BY <4>1, <4>2, <4>3, FS_EmptySet
    <3>2. Range(s) \subseteq A
      BY <2>1 DEF Range
    <3> QED BY <3>1, <3>2
  <2> QED BY <2>2, <2>3
<1>2. {y \in A : Occ(q, y) # 0} = {y \in A : Occ(r, y) # 0}
  OBVIOUS
<1>3. [x \in {y \in A : Occ(q, y) # 0} |-> Occ(q, x)] = [x \in {y \in A : Occ(r, y) # 0} |-> Occ(r, x)]
  BY <1>2
<1> QED BY <1>1, <1>3

(* How often something is aggregated in the items of an interval. *)
Counted(q, from, to, x) == Occ(PartsOf(Within(q, from, to)), x)
Weight(y, from, to, x) == IF from <= y.at /\ y.at <= to THEN Occ(y.parts, x) ELSE 0

AddsUp(from, to, x) ==
    /\ Counted(<<>>, from, to, x) = 0
    /\ \A q \in Seq(BucketItem) : Counted(q, from, to, x) \in Nat
    /\ \A y \in BucketItem : Weight(y, from, to, x) \in Nat
    /\ \A q \in Seq(BucketItem), y \in BucketItem :
          Counted(Append(q, y), from, to, x) = Counted(q, from, to, x) + Weight(y, from, to, x)
    /\ \A q, r \in Seq(BucketItem) :
          Counted(q \o r, from, to, x) = Counted(q, from, to, x) + Counted(r, from, to, x)

(* It adds up over the items. *)
LEMMA CountedAppend ==
    ASSUME NEW from, NEW to, NEW x
    PROVE  AddsUp(from, to, x)
<1> DEFINE A == SUBSET Op
           W(q) == Within(q, from, to)
           C(q) == Counted(q, from, to, x)
<1>0. /\ Occ(<<>>, x) = 0
      /\ \A q \in Seq(A) : Occ(q, x) \in Nat
      /\ \A q, r \in Seq(A) : Occ(q \o r, x) = Occ(q, x) + Occ(r, x)
  <2> HIDE DEF A
  <2>1. Occ(<<>>, x) = 0 /\ \A q \in Seq(A) : Occ(q, x) \in Nat
    BY OccAppend
  <2>2. \A q, r \in Seq(A) : Occ(q \o r, x) = Occ(q, x) + Occ(r, x)
    BY OccConcat
  <2> QED BY <2>1, <2>2
<1>1. /\ PartsOf(<<>>) = <<>>
      /\ \A q \in Seq(BucketItem) : PartsOf(q) \in Seq(A)
      /\ \A q \in Seq(BucketItem), y \in BucketItem : PartsOf(Append(q, y)) = PartsOf(q) \o y.parts
      /\ \A q, r \in Seq(BucketItem) : PartsOf(q \o r) = PartsOf(q) \o PartsOf(r)
  BY PartsOfLists
<1>2. /\ W(<<>>) = <<>>
      /\ \A q \in Seq(BucketItem) : W(q) \in Seq(BucketItem)
      /\ \A q \in Seq(BucketItem), y \in BucketItem :
            W(Append(q, y)) = IF from <= y.at /\ y.at <= to THEN Append(W(q), y) ELSE W(q)
      /\ \A q, r \in Seq(BucketItem) : W(q \o r) = W(q) \o W(r)
  BY WithinLists
<1>3. \A y \in BucketItem : y.parts \in Seq(A)
  BY ItemTimes
<1>4. \A q : C(q) = Occ(PartsOf(W(q)), x)
  BY DEF Counted
<1> HIDE DEF A, W, C
<1>5. C(<<>>) = 0 /\ \A q \in Seq(BucketItem) : C(q) \in Nat
  BY <1>0, <1>1, <1>2, <1>4
<1>6. \A y \in BucketItem : Weight(y, from, to, x) \in Nat
  BY <1>0, <1>3 DEF Weight
<1>7. ASSUME NEW q \in Seq(BucketItem), NEW y \in BucketItem
      PROVE  C(Append(q, y)) = C(q) + Weight(y, from, to, x)
  <2> DEFINE w == W(q)
             p == PartsOf(w)
  <2>1. w \in Seq(BucketItem) /\ p \in Seq(A) /\ C(q) = Occ(p, x)
    BY <1>1, <1>2, <1>4
  <2>2. C(Append(q, y)) = Occ(PartsOf(W(Append(q, y))), x)
    BY <1>4
  <2>3. W(Append(q, y)) = IF from <= y.at /\ y.at <= to THEN Append(w, y) ELSE w
    BY <1>2
  <2>4. CASE from <= y.at /\ y.at <= to
    <3>1. PartsOf(W(Append(q, y))) = p \o y.parts
      <4>1. PartsOf(Append(w, y)) = p \o y.parts
        BY <1>1, <2>1
      <4> QED BY <4>1, <2>3, <2>4
    <3> HIDE DEF p
    <3>2. Occ(p \o y.parts, x) = Occ(p, x) + Occ(y.parts, x)
      BY <1>0, <1>3, <2>1
    <3> QED BY <3>1, <3>2, <2>1, <2>2, <2>4 DEF Weight
  <2>5. CASE ~(from <= y.at /\ y.at <= to)
    <3>1. C(Append(q, y)) = C(q)
      BY <2>1, <2>2, <2>3, <2>5
    <3>2. Weight(y, from, to, x) = 0
      BY <2>5 DEF Weight
    <3> QED BY <3>1, <3>2, <1>5
  <2> QED BY <2>4, <2>5
<1>8. ASSUME NEW q \in Seq(BucketItem), NEW r \in Seq(BucketItem)
      PROVE  C(q \o r) = C(q) + C(r)
  <2> DEFINE u == PartsOf(W(q))
             v == PartsOf(W(r))
  <2>1. u \in Seq(A) /\ v \in Seq(A) /\ C(q) = Occ(u, x) /\ C(r) = Occ(v, x)
    BY <1>1, <1>2, <1>4
  <2>2. PartsOf(W(q \o r)) = u \o v
    <3> DEFINE y == W(q)
               z == W(r)
    <3>1. y \in Seq(BucketItem) /\ z \in Seq(BucketItem) /\ W(q \o r) = y \o z
      BY <1>2
    <3> HIDE DEF y, z
    <3>2. PartsOf(y \o z) = PartsOf(y) \o PartsOf(z)
      BY <1>1, <3>1
    <3> QED BY <3>1, <3>2 DEF y, z
  <2>3. C(q \o r) = Occ(u \o v, x)
    BY <1>4, <2>2
  <2> HIDE DEF u, v
  <2> QED BY <1>0, <2>1, <2>3
<1>9. /\ Counted(<<>>, from, to, x) = 0
      /\ \A q \in Seq(BucketItem) : Counted(q, from, to, x) \in Nat
      /\ \A y \in BucketItem : Weight(y, from, to, x) \in Nat
      /\ \A q \in Seq(BucketItem), y \in BucketItem :
            Counted(Append(q, y), from, to, x) = Counted(q, from, to, x) + Weight(y, from, to, x)
      /\ \A q, r \in Seq(BucketItem) :
            Counted(q \o r, from, to, x) = Counted(q, from, to, x) + Counted(r, from, to, x)
  BY <1>5, <1>6, <1>7, <1>8 DEF C
<1> QED BY <1>9, Zenon DEF AddsUp

-----------------------------------------------------------------------------
(* The in-memory iterators: buckets and points merged by time.             *)
MergeStates == [out : Seq(BucketItem), bucket : Nat, item : Nat]

Sized(p, B, R) ==
    /\ p.raw \in Seq(Op) /\ p.buckets \in Seq(BucketItem)
    /\ B = Len(p.buckets) /\ R = Len(p.raw)

(* After n rounds, n of the B buckets and R points were taken. *)
MergedTo(B, R, n, m) ==
    /\ m \in MergeStates
    /\ m.bucket \in 1..(B + 1)
    /\ m.item \in 1..(R + 1)
    /\ m.bucket + m.item = n + 2

(* The two outcomes of a round: the next bucket or the next point. *)
BucketTaken(p, B, R, m, next) ==
    /\ m.bucket \in 1..B
    /\ m.item > R \/ p.buckets[m.bucket].at <= p.raw[m.item].at
    /\ next.out = Append(m.out, p.buckets[m.bucket])
    /\ next.bucket = m.bucket + 1 /\ next.item = m.item

PointTaken(p, B, R, m, next) ==
    /\ m.item \in 1..R
    /\ m.bucket <= B => ~(p.buckets[m.bucket].at <= p.raw[m.item].at)
    /\ next.out = Append(m.out, Item(p.raw[m.item]))
    /\ next.bucket = m.bucket /\ next.item = m.item + 1

(* A round takes the earlier of the two heads, a bucket before a point of  *)
(* its second.                                                             *)
LEMMA TakeNextIs ==
    ASSUME NEW p, NEW B \in Nat, NEW R \in Nat, Sized(p, B, R),
           NEW n \in 0..(B + R - 1), NEW m, MergedTo(B, R, n, m)
    PROVE  /\ MergedTo(B, R, n + 1, TakeNext(p, m))
           /\ BucketTaken(p, B, R, m, TakeNext(p, m)) \/ PointTaken(p, B, R, m, TakeNext(p, m))
<1> DEFINE bs == p.buckets
           rs == p.raw
           next == TakeNext(p, m)
           takes == m.item > R \/ (m.bucket <= B /\ bs[m.bucket].at <= rs[m.item].at)
<1>1. /\ B \in Nat /\ R \in Nat
      /\ \A i \in 1..B : bs[i] \in BucketItem
      /\ \A i \in 1..R : rs[i] \in Op
  BY DEF Sized
<1>0. B = Len(p.buckets) /\ R = Len(p.raw)
  BY DEF Sized
<1>2. /\ m \in MergeStates /\ m.out \in Seq(BucketItem) /\ m.bucket \in Nat /\ m.item \in Nat
      /\ m.bucket \in 1..(B + 1) /\ m.item \in 1..(R + 1) /\ m.bucket + m.item = n + 2
  BY <1>1 DEF MergedTo, MergeStates
<1>3. n + 1 \in Nat /\ n \in Nat /\ n <= B + R - 1
  OBVIOUS
<1>4. next = IF takes THEN [m EXCEPT !.out = Append(@, bs[m.bucket]), !.bucket = @ + 1]
             ELSE [m EXCEPT !.out = Append(@, Item(rs[m.item])), !.item = @ + 1]
  BY <1>0 DEF TakeNext
<1> DEFINE b == m.bucket
           t == m.item
<1>5. CASE takes
  <2>1. m.bucket \in 1..B
    <3>1. t > R \/ b <= B
      BY <1>5
    <3>2. B \in Nat /\ R \in Nat /\ b \in 1..(B + 1) /\ t \in 1..(R + 1) /\ b + t = n + 2
      BY <1>1, <1>2
    <3> HIDE DEF b, t
    <3>3. b \in 1..B
      BY <1>3, <3>1, <3>2
    <3> QED BY <3>3 DEF b
  <2>2. bs[m.bucket] \in BucketItem
    BY <1>1, <2>1
  <2> DEFINE x == bs[m.bucket]
             o == Append(m.out, x)
  <2>3. o \in Seq(BucketItem)
    BY <1>2, <2>2
  <2>4. next = [m EXCEPT !.out = o, !.bucket = m.bucket + 1]
    BY <1>4, <1>5
  <2> HIDE DEF next, o
  <2>5. next.out = o /\ next.bucket = m.bucket + 1 /\ next.item = m.item /\ next \in MergeStates
    <3> DEFINE c == m.bucket + 1
    <3>1. c \in Nat
      BY <1>2
    <3> HIDE DEF c
    <3>2. next = [m EXCEPT !.out = o, !.bucket = c]
      BY <2>4 DEF c
    <3>3. next.out = o /\ next.bucket = c /\ next.item = m.item /\ next \in MergeStates
      BY <1>2, <2>3, <3>1, <3>2 DEF MergeStates
    <3> QED BY <3>3 DEF c
  <2>6. MergedTo(B, R, n + 1, next)
    <3>1. b \in 1..B /\ t \in 1..(R + 1) /\ b + t = n + 2 /\ next.bucket = b + 1 /\ next.item = t
      BY <1>2, <2>1, <2>5
    <3> HIDE DEF b, t
    <3>2. b + 1 \in 1..(B + 1) /\ (b + 1) + t = (n + 1) + 2
      BY <1>3, <3>1
    <3> QED BY <2>5, <3>1, <3>2, Zenon DEF MergedTo
  <2>7. BucketTaken(p, B, R, m, next)
    BY <1>5, <2>1, <2>5 DEF BucketTaken, o
  <2> QED BY <2>6, <2>7 DEF next
<1>6. CASE ~takes
  <2>1. m.item \in 1..R
    BY <1>1, <1>2, <1>6
  <2>2. Item(rs[m.item]) \in BucketItem
    BY <1>1, <2>1, ItemOf
  <2> DEFINE x == Item(rs[m.item])
             o == Append(m.out, x)
  <2> HIDE DEF x
  <2>3. o \in Seq(BucketItem)
    BY <1>2, <2>2 DEF x
  <2>4. next = [m EXCEPT !.out = o, !.item = m.item + 1]
    BY <1>4, <1>6 DEF x
  <2> HIDE DEF next, o
  <2>5. next.out = o /\ next.bucket = m.bucket /\ next.item = m.item + 1 /\ next \in MergeStates
    <3> DEFINE c == m.item + 1
    <3>1. c \in Nat
      BY <1>2
    <3> HIDE DEF c
    <3>2. next = [m EXCEPT !.out = o, !.item = c]
      BY <2>4 DEF c
    <3>3. next.out = o /\ next.bucket = m.bucket /\ next.item = c /\ next \in MergeStates
      BY <1>2, <2>3, <3>1, <3>2 DEF MergeStates
    <3> QED BY <3>3 DEF c
  <2>6. MergedTo(B, R, n + 1, next)
    <3>1. b \in 1..(B + 1) /\ t \in 1..R /\ b + t = n + 2 /\ next.bucket = b /\ next.item = t + 1
      BY <1>2, <2>1, <2>5
    <3> HIDE DEF b, t
    <3>2. t + 1 \in 1..(R + 1) /\ b + (t + 1) = (n + 1) + 2
      BY <1>3, <3>1
    <3> QED BY <2>5, <3>1, <3>2, Zenon DEF MergedTo
  <2>7. PointTaken(p, B, R, m, next)
    BY <1>6, <2>1, <2>5 DEF PointTaken, o, x
  <2> QED BY <2>6, <2>7 DEF next
<1> QED BY <1>5, <1>6

(* The rounds of the merge, one after the other. *)
MergePass(p, B, R, pass) ==
    /\ pass[0].out = <<>> /\ pass[0].bucket = 1 /\ pass[0].item = 1
    /\ \A i \in 0..(B + R) : MergedTo(B, R, i, pass[i])
    /\ \A i \in 0..(B + R - 1) :
          BucketTaken(p, B, R, pass[i], pass[i + 1]) \/ PointTaken(p, B, R, pass[i], pass[i + 1])
    /\ ByTime(p) = pass[B + R].out

(* ByTime is what as many rounds as there are items give.                  *)
LEMMA MergePasses ==
    ASSUME NEW p, NEW B \in Nat, NEW R \in Nat, Sized(p, B, R)
    PROVE  \E pass : MergePass(p, B, R, pass)
<1> DEFINE n == B + R
           start == [out |-> <<>>, bucket |-> 1, item |-> 1]
           A == MergeStates
           next == [a \in A |-> IF TakeNext(p, a) \in A THEN TakeNext(p, a) ELSE a]
           step == [i \in 1..n |-> next]
           pass[i \in 0..(B + R)] ==
               IF i = 0 THEN [out |-> <<>>, bucket |-> 1, item |-> 1] ELSE TakeNext(p, pass[i - 1])
<1>1. n \in Nat
  OBVIOUS
<1>2. start \in A /\ start.out = <<>> /\ start.bucket = 1 /\ start.item = 1
  <2>1. <<>> \in Seq(BucketItem)
    OBVIOUS
  <2> QED BY <2>1 DEF MergeStates
<1>3. MergedTo(B, R, 0, start)
  BY <1>1, <1>2 DEF MergedTo
<1> HIDE DEF A, n
<1>4. PICK g \in [0..n -> A] : g[0] = start /\ \A i \in 1..n : g[i] = step[i][g[i - 1]]
  <2>1. next \in [A -> A]
    OBVIOUS
  <2> HIDE DEF next
  <2>2. step \in Steps(A, n)
    BY <2>1 DEF Steps
  <2> HIDE DEF step, start
  <2>3. Solutions(A, n, start, step) # {}
    BY <1>1, <1>2, <2>2, Recursion
  <2> QED BY <2>3 DEF Solutions
<1>5. \A i \in 1..n : g[i] = next[g[i - 1]]
  <2> HIDE DEF next
  <2> QED BY <1>4
<1> HIDE DEF step, start
<1> DEFINE K == {i \in 0..n : MergedTo(B, R, i, g[i])}
<1>6. 0 \in K
  BY <1>1, <1>3, <1>4
<1>7. ASSUME NEW i \in 0..(n - 1), MergedTo(B, R, i, g[i])
      PROVE  g[i + 1] = TakeNext(p, g[i]) /\ MergedTo(B, R, i + 1, g[i + 1])
  <2>1. i + 1 \in 1..n /\ (i + 1) - 1 = i /\ i \in 0..n
    BY <1>1
  <2>2. g[i + 1] = next[g[i]] /\ g[i] \in A
    <3> HIDE DEF next
    <3> QED BY <1>4, <1>5, <2>1
  <2>3. MergedTo(B, R, i + 1, TakeNext(p, g[i]))
    <3>0. n = B + R
      BY DEF n
    <3>1. i \in 0..(n - 1)
      OBVIOUS
    <3> DEFINE a == g[i]
    <3>2. MergedTo(B, R, i, a)
      BY <1>7
    <3> HIDE DEF a
    <3>3. MergedTo(B, R, i + 1, TakeNext(p, a))
      BY <1>1, <3>0, <3>1, <3>2, TakeNextIs
    <3> QED BY <3>3 DEF a
  <2>4. TakeNext(p, g[i]) \in A
    BY <2>3 DEF MergedTo, A
  <2>5. g[i + 1] = TakeNext(p, g[i])
    BY <2>2, <2>4
  <2> QED BY <2>3, <2>5
<1>8. \A i \in 0..(n - 1) : i \in K => i + 1 \in K
  <2>1. \A i \in 0..(n - 1) : i + 1 \in 0..n
    BY <1>1
  <2> QED BY <1>7, <2>1
<1>9. \A i \in 0..n : MergedTo(B, R, i, g[i])
  <2>1. \A i \in 0..n : i \in K
    <3> HIDE DEF K
    <3> QED BY <1>1, <1>6, <1>8, UpTo
  <2> QED BY <2>1
<1>10. \A i \in 1..n : g[i] = TakeNext(p, g[i - 1])
  <2> SUFFICES ASSUME NEW i \in 1..n PROVE g[i] = TakeNext(p, g[i - 1])
    OBVIOUS
  <2>1. i - 1 \in 0..(n - 1) /\ i - 1 \in 0..n /\ (i - 1) + 1 = i
    BY <1>1
  <2> DEFINE j == i - 1
  <2> HIDE DEF j
  <2>2. j \in 0..(n - 1) /\ MergedTo(B, R, j, g[j]) /\ j + 1 = i
    BY <1>9, <2>1 DEF j
  <2>3. g[j + 1] = TakeNext(p, g[j])
    BY <1>7, <2>2
  <2> QED BY <2>2, <2>3 DEF j
<1>11. g = [i \in 0..(B + R) |->
              IF i = 0 THEN [out |-> <<>>, bucket |-> 1, item |-> 1] ELSE TakeNext(p, g[i - 1])]
  <2>1. \A i \in 0..n : i # 0 => i \in 1..n
    BY <1>1
  <2>2. g = [i \in 0..n |-> IF i = 0 THEN start ELSE TakeNext(p, g[i - 1])]
    BY <1>1, <1>4, <1>10, <2>1
  <2> QED BY <2>2 DEF n, start
<1>12. pass = [i \in 0..(B + R) |->
                 IF i = 0 THEN [out |-> <<>>, bucket |-> 1, item |-> 1] ELSE TakeNext(p, pass[i - 1])]
  BY <1>11 DEF pass
<1>13. ByTime(p) = pass[n].out
  BY DEF ByTime, pass, n, Sized
<1> HIDE DEF pass
<1>14. pass[0] = start /\ \A i \in 1..n : pass[i] = TakeNext(p, pass[i - 1])
  <2>1. \A i \in 1..n : i \in 0..n /\ i # 0
    BY <1>1
  <2>2. 0 \in 0..n
    BY <1>1
  <2>3. pass = [i \in 0..n |-> IF i = 0 THEN start ELSE TakeNext(p, pass[i - 1])]
    BY <1>12 DEF n, start
  <2> QED BY <2>1, <2>2, <2>3
<1> DEFINE J == {i \in 0..n : MergedTo(B, R, i, pass[i])}
<1>15. \A i \in 0..n : MergedTo(B, R, i, pass[i])
  <2>1. 0 \in J
    BY <1>1, <1>3, <1>14
  <2>2. ASSUME NEW i \in 0..(n - 1), i \in J PROVE i + 1 \in J
    <3>1. i + 1 \in 1..n /\ (i + 1) - 1 = i /\ i + 1 \in 0..n
      BY <1>1
    <3>2. MergedTo(B, R, i + 1, TakeNext(p, pass[i]))
      <4>0. n = B + R
        BY DEF n
      <4>1. i \in 0..(n - 1)
        OBVIOUS
      <4> DEFINE a == pass[i]
      <4>2. MergedTo(B, R, i, a)
        BY <2>2
      <4> HIDE DEF a
      <4>3. MergedTo(B, R, i + 1, TakeNext(p, a))
        BY <1>1, <4>0, <4>1, <4>2, TakeNextIs
      <4> QED BY <4>3 DEF a
    <3>3. pass[i + 1] = TakeNext(p, pass[i])
      BY <1>14, <3>1
    <3> QED BY <3>1, <3>2, <3>3
  <2>3. \A i \in 0..n : i \in J
    <3> HIDE DEF J
    <3> QED BY <1>1, <2>1, <2>2, UpTo
  <2> QED BY <2>3
<1>16. ASSUME NEW i \in 0..(n - 1)
       PROVE  BucketTaken(p, B, R, pass[i], pass[i + 1]) \/ PointTaken(p, B, R, pass[i], pass[i + 1])
  <2>1. i + 1 \in 1..n /\ (i + 1) - 1 = i /\ i \in 0..n
    BY <1>1
  <2>2. pass[i + 1] = TakeNext(p, pass[i]) /\ MergedTo(B, R, i, pass[i])
    BY <1>14, <1>15, <2>1
  <2>3. i \in 0..(B + R - 1)
    BY DEF n
  <2> DEFINE a == pass[i]
  <2> HIDE DEF a
  <2>4. MergedTo(B, R, i, a)
    BY <2>2 DEF a
  <2>5. BucketTaken(p, B, R, a, TakeNext(p, a)) \/ PointTaken(p, B, R, a, TakeNext(p, a))
    BY <2>3, <2>4, TakeNextIs
  <2> QED BY <2>2, <2>5 DEF a
<1>17. /\ pass[0].out = <<>> /\ pass[0].bucket = 1 /\ pass[0].item = 1
       /\ \A i \in 0..(B + R) : MergedTo(B, R, i, pass[i])
       /\ \A i \in 0..(B + R - 1) :
             BucketTaken(p, B, R, pass[i], pass[i + 1]) \/ PointTaken(p, B, R, pass[i], pass[i + 1])
       /\ ByTime(p) = pass[B + R].out
  <2>1. /\ \A i \in 0..n : MergedTo(B, R, i, pass[i])
        /\ \A i \in 0..(n - 1) :
              BucketTaken(p, B, R, pass[i], pass[i + 1]) \/ PointTaken(p, B, R, pass[i], pass[i + 1])
    BY <1>15, <1>16
  <2>2. pass[0].out = <<>> /\ pass[0].bucket = 1 /\ pass[0].item = 1
    BY <1>2, <1>14
  <2> QED BY <1>13, <2>1, <2>2 DEF n
<1>18. MergePass(p, B, R, pass)
  BY <1>17, Zenon DEF MergePass
<1> QED BY <1>18

(* Prefixes grow by one element. *)
LEMMA PrefixGrows ==
    ASSUME NEW A, NEW q \in Seq(A)
    PROVE  /\ SubSeq(q, 1, 0) = <<>>
           /\ SubSeq(q, 1, Len(q)) = q
           /\ \A k \in 1..Len(q) : /\ q[k] \in A
                                   /\ SubSeq(q, 1, k - 1) \in Seq(A)
                                   /\ SubSeq(q, 1, k) = Append(SubSeq(q, 1, k - 1), q[k])
<1>1. \A k \in 1..Len(q) : /\ q[k] \in A
                           /\ SubSeq(q, 1, k - 1) \in Seq(A)
                           /\ SubSeq(q, 1, k) = Append(SubSeq(q, 1, k - 1), q[k])
  OBVIOUS
<1> QED BY <1>1

(* What a prefix of the items counts, and the next. *)
PrefixesAddUp(q, from, to, x) ==
    /\ Counted(SubSeq(q, 1, 0), from, to, x) = 0
    /\ \A k \in 1..Len(q) :
          /\ Counted(SubSeq(q, 1, k - 1), from, to, x) \in Nat
          /\ Counted(SubSeq(q, 1, k), from, to, x)
                = Counted(SubSeq(q, 1, k - 1), from, to, x) + Weight(q[k], from, to, x)

(* Every item of the list adds its weight to the prefix. *)
LEMMA CountedPrefix ==
    ASSUME NEW from, NEW to, NEW x, NEW q \in Seq(BucketItem)
    PROVE  PrefixesAddUp(q, from, to, x)
<1>1. /\ SubSeq(q, 1, 0) = <<>>
      /\ \A k \in 1..Len(q) : /\ q[k] \in BucketItem
                              /\ SubSeq(q, 1, k - 1) \in Seq(BucketItem)
                              /\ SubSeq(q, 1, k) = Append(SubSeq(q, 1, k - 1), q[k])
  BY PrefixGrows
<1>2. /\ Counted(<<>>, from, to, x) = 0
      /\ \A r \in Seq(BucketItem) : Counted(r, from, to, x) \in Nat
      /\ \A r \in Seq(BucketItem), y \in BucketItem :
            Counted(Append(r, y), from, to, x) = Counted(r, from, to, x) + Weight(y, from, to, x)
  <2>1. AddsUp(from, to, x)
    BY CountedAppend
  <2> QED BY <2>1 DEF AddsUp
<1> QED BY <1>1, <1>2, Zenon DEF PrefixesAddUp

(* The merge by time keeps every item: what the interval counts does not   *)
(* depend on the order of the items.                                       *)
LEMMA ByTimeCounts ==
    ASSUME NEW p, p.raw \in Seq(Op), p.buckets \in Seq(BucketItem), NEW from, NEW to, NEW x
    PROVE  /\ ByTime(p) \in Seq(BucketItem)
           /\ Counted(ByTime(p), from, to, x) = Counted(p.buckets \o RawItems(p.raw), from, to, x)
<1> DEFINE bs == p.buckets
           rs == p.raw
           W == RawItems(rs)
           B == Len(bs)
           R == Len(rs)
           n == B + R
<1>1. B \in Nat /\ R \in Nat /\ Sized(p, B, R)
  BY DEF Sized
<1>2. W \in Seq(BucketItem) /\ Len(W) = R /\ \A i \in 1..R : W[i] = Item(rs[i])
  <2>1. W \in Seq(BucketItem) /\ Len(W) = Len(rs)
    BY RawItemsList
  <2> QED BY <2>1 DEF RawItems
<1>3. bs \in Seq(BucketItem)
  OBVIOUS
<1>4. \A i \in 1..R : rs[i] \in Op
  OBVIOUS
<1> HIDE DEF bs, W, rs
<1> DEFINE C(q) == Counted(q, from, to, x)
           b(k) == C(SubSeq(bs, 1, k))
           w(k) == C(SubSeq(W, 1, k))
           v(y) == Weight(y, from, to, x)
<1>5. /\ b(0) = 0
      /\ \A k \in 1..B : b(k - 1) \in Nat /\ b(k) = b(k - 1) + v(bs[k])
  <2>1. PrefixesAddUp(bs, from, to, x)
    BY <1>3, CountedPrefix
  <2> QED BY <2>1, Zenon DEF PrefixesAddUp
<1>6. /\ w(0) = 0
      /\ \A k \in 1..R : w(k - 1) \in Nat /\ w(k) = w(k - 1) + v(W[k])
  <2>1. /\ w(0) = 0
        /\ \A k \in 1..Len(W) : w(k - 1) \in Nat /\ w(k) = w(k - 1) + v(W[k])
    <3>1. PrefixesAddUp(W, from, to, x)
      BY <1>2, CountedPrefix
    <3> QED BY <3>1, Zenon DEF PrefixesAddUp
  <2> QED BY <1>2, <2>1
<1>7. /\ C(<<>>) = 0
      /\ \A q \in Seq(BucketItem) : C(q) \in Nat
      /\ \A q \in Seq(BucketItem), y \in BucketItem : C(Append(q, y)) = C(q) + v(y)
      /\ \A q, r \in Seq(BucketItem) : C(q \o r) = C(q) + C(r)
      /\ \A y \in BucketItem : v(y) \in Nat
  <2>1. AddsUp(from, to, x)
    BY CountedAppend
  <2> QED BY <2>1 DEF AddsUp
<1>8. b(B) = C(bs) /\ w(R) = C(W)
  <2>1. SubSeq(bs, 1, B) = bs
    BY <1>3, PrefixGrows
  <2>2. SubSeq(W, 1, Len(W)) = W
    BY <1>2, PrefixGrows
  <2> QED BY <1>2, <2>1, <2>2, Zenon
<1>9. \A k \in 1..B : bs[k] \in BucketItem
  BY <1>3
<1>10. \A k \in 1..R : W[k] \in BucketItem
  BY <1>2
<1> HIDE DEF B, R
<1>11. n \in Nat
  BY <1>1
<1>12. PICK pass : MergePass(p, B, R, pass)
  BY <1>1, MergePasses
<1>13. /\ pass[0].out = <<>> /\ pass[0].bucket = 1 /\ pass[0].item = 1
       /\ \A i \in 0..n : MergedTo(B, R, i, pass[i])
       /\ \A i \in 0..(n - 1) :
             BucketTaken(p, B, R, pass[i], pass[i + 1]) \/ PointTaken(p, B, R, pass[i], pass[i + 1])
       /\ ByTime(p) = pass[n].out
  <2>1. /\ pass[0].out = <<>> /\ pass[0].bucket = 1 /\ pass[0].item = 1
        /\ \A i \in 0..(B + R) : MergedTo(B, R, i, pass[i])
        /\ \A i \in 0..(B + R - 1) :
              BucketTaken(p, B, R, pass[i], pass[i + 1]) \/ PointTaken(p, B, R, pass[i], pass[i + 1])
        /\ ByTime(p) = pass[B + R].out
    BY <1>12, Zenon DEF MergePass
  <2>2. n = B + R
    OBVIOUS
  <2> HIDE DEF n
  <2>3. 0..(B + R) = 0..n /\ 0..(B + R - 1) = 0..(n - 1) /\ pass[B + R] = pass[n]
    BY <1>1, <1>11, <2>2
  <2> QED BY <2>1, <2>3, Zenon
<1> HIDE DEF C, b, w, v, n
<1> DEFINE J == {i \in 0..n : C(pass[i].out) = b(pass[i].bucket - 1) + w(pass[i].item - 1)}
<1>14. 0 \in J
  <2>1. 1 - 1 = 0 /\ 0 + 0 = 0 /\ 0 \in 0..n
    BY <1>11
  <2>2. C(pass[0].out) = 0 /\ b(pass[0].bucket - 1) = 0 /\ w(pass[0].item - 1) = 0
    BY <1>5, <1>6, <1>7, <1>13, <2>1, Zenon
  <2> QED BY <2>1, <2>2
<1>15. ASSUME NEW i \in 0..(n - 1), i \in J PROVE i + 1 \in J
  <2> DEFINE m == pass[i]
             next == pass[i + 1]
  <2>1. i + 1 \in 0..n /\ i \in 0..n
    BY <1>11
  <2>2. MergedTo(B, R, i, m)
    BY <1>13, <2>1
  <2>3. m.out \in Seq(BucketItem) /\ m.bucket \in Nat /\ m.item \in Nat
    BY <2>2 DEF MergedTo, MergeStates
  <2>4. BucketTaken(p, B, R, m, next) \/ PointTaken(p, B, R, m, next)
    BY <1>13
  <2>5. C(m.out) = b(m.bucket - 1) + w(m.item - 1)
    BY <1>15
  <2>6. m.bucket \in 1..(B + 1) /\ m.item \in 1..(R + 1)
    BY <2>2 DEF MergedTo
  <2> HIDE DEF m, next
  <2>7. b(m.bucket - 1) \in Nat /\ w(m.item - 1) \in Nat
    <3>1. \A k \in 0..B : b(k) \in Nat
      <4>1. ASSUME NEW k \in 0..B PROVE b(k) \in Nat
        <5>1. SubSeq(bs, 1, k) \in Seq(BucketItem)
          BY <1>3, <1>1 DEF B
        <5> QED BY <5>1, <1>7 DEF b
      <4> QED BY <4>1
    <3>2. \A k \in 0..R : w(k) \in Nat
      <4>1. ASSUME NEW k \in 0..R PROVE w(k) \in Nat
        <5>1. SubSeq(W, 1, k) \in Seq(BucketItem)
          BY <1>2, <1>1
        <5> QED BY <5>1, <1>7 DEF w
      <4> QED BY <4>1
    <3>3. m.bucket - 1 \in 0..B /\ m.item - 1 \in 0..R
      BY <1>1, <2>6
    <3> QED BY <3>1, <3>2, <3>3, Zenon
  <2>8. CASE BucketTaken(p, B, R, m, next)
    <3> DEFINE k == m.bucket
    <3>1. k \in 1..B /\ next.out = Append(m.out, bs[k]) /\ next.bucket = k + 1 /\ next.item = m.item
      BY <2>8 DEF BucketTaken, bs
    <3>2. bs[k] \in BucketItem
      BY <1>9, <3>1
    <3>3. C(next.out) = C(m.out) + v(bs[k]) /\ v(bs[k]) \in Nat
      BY <1>7, <2>3, <3>1, <3>2
    <3>4. b(k) = b(k - 1) + v(bs[k])
      BY <1>5, <3>1
    <3>5. (k + 1) - 1 = k
      BY <2>3
    <3>6. b(next.bucket - 1) = b(k - 1) + v(bs[k]) /\ w(next.item - 1) = w(m.item - 1)
      BY <3>1, <3>4, <3>5, Zenon
    <3>7. C(next.out) = b(next.bucket - 1) + w(next.item - 1)
      <4> DEFINE e == b(k - 1)
                 f == w(m.item - 1)
                 g == v(bs[k])
      <4>1. e \in Nat /\ f \in Nat /\ g \in Nat
        BY <2>7, <3>3
      <4>2. C(next.out) = (e + f) + g /\ b(next.bucket - 1) = e + g /\ w(next.item - 1) = f
        BY <2>5, <3>3, <3>6
      <4> HIDE DEF e, f, g
      <4>3. (e + f) + g = (e + g) + f
        BY <4>1
      <4> QED BY <4>2, <4>3, Zenon
    <3> QED BY <2>1, <3>7 DEF next
  <2>9. CASE PointTaken(p, B, R, m, next)
    <3> DEFINE k == m.item
    <3>1. k \in 1..R /\ next.out = Append(m.out, W[k]) /\ next.bucket = m.bucket /\ next.item = k + 1
      BY <1>2, <2>9 DEF PointTaken, rs
    <3>2. W[k] \in BucketItem
      BY <1>10, <3>1
    <3>3. C(next.out) = C(m.out) + v(W[k]) /\ v(W[k]) \in Nat
      BY <1>7, <2>3, <3>1, <3>2
    <3>4. w(k) = w(k - 1) + v(W[k])
      BY <1>6, <3>1
    <3>5. (k + 1) - 1 = k
      BY <2>3
    <3>6. w(next.item - 1) = w(k - 1) + v(W[k]) /\ b(next.bucket - 1) = b(m.bucket - 1)
      BY <3>1, <3>4, <3>5, Zenon
    <3>7. C(next.out) = b(next.bucket - 1) + w(next.item - 1)
      <4> DEFINE e == b(m.bucket - 1)
                 f == w(k - 1)
                 g == v(W[k])
      <4>1. e \in Nat /\ f \in Nat /\ g \in Nat
        BY <2>7, <3>3
      <4>2. C(next.out) = (e + f) + g /\ b(next.bucket - 1) = e /\ w(next.item - 1) = f + g
        BY <2>5, <3>3, <3>6
      <4> HIDE DEF e, f, g
      <4>3. (e + f) + g = e + (f + g)
        BY <4>1
      <4> QED BY <4>2, <4>3, Zenon
    <3> QED BY <2>1, <3>7 DEF next
  <2> QED BY <2>4, <2>8, <2>9
<1>16. n \in J
  <2>1. \A i \in 0..n : i \in J
    <3> HIDE DEF J
    <3> QED BY <1>11, <1>14, <1>15, UpTo
  <2> QED BY <1>11, <2>1
<1> DEFINE m == pass[n]
<1>17. MergedTo(B, R, n, m)
  BY <1>11, <1>13
<1>18. m.out \in Seq(BucketItem) /\ m.bucket - 1 = B /\ m.item - 1 = R
  <2>1. m.out \in Seq(BucketItem) /\ m.bucket \in 1..(B + 1) /\ m.item \in 1..(R + 1) /\ m.bucket + m.item = n + 2
    BY <1>17 DEF MergedTo, MergeStates
  <2> DEFINE c == m.bucket
             d == m.item
  <2>2. c \in 1..(B + 1) /\ d \in 1..(R + 1) /\ c + d = (B + R) + 2
    BY <2>1 DEF n
  <2> HIDE DEF c, d
  <2>3. c - 1 = B /\ d - 1 = R
    BY <1>1, <2>2
  <2> QED BY <2>1, <2>3 DEF c, d
<1>19. C(m.out) = b(m.bucket - 1) + w(m.item - 1)
  BY <1>16
<1>20. C(ByTime(p)) = C(bs) + C(W)
  BY <1>8, <1>13, <1>18, <1>19, Zenon
<1>21. C(ByTime(p)) = C(bs \o W)
  BY <1>2, <1>3, <1>7, <1>20, Zenon
<1> QED BY <1>13, <1>18, <1>21, Zenon DEF C, bs, W, rs

-----------------------------------------------------------------------------
(* The map of sketchMixedRange: a list of groups holds what its items do.  *)
Parts(l, k, x) == Occ(PartsOf(SubSeq(l, 1, k)), x)

PartsAddUp(l, x) ==
    /\ Parts(l, 0, x) = 0
    /\ Parts(l, Len(l), x) = Occ(PartsOf(l), x)
    /\ \A k \in 1..Len(l) :
          /\ Occ(l[k].parts, x) \in Nat
          /\ Parts(l, k - 1, x) \in Nat
          /\ Parts(l, k, x) = Parts(l, k - 1, x) + Occ(l[k].parts, x)

(* Every item of a list adds its parts to those of the items before it. *)
LEMMA PartsPrefix ==
    ASSUME NEW l \in Seq(BucketItem), NEW x
    PROVE  PartsAddUp(l, x)
<1> DEFINE A == SUBSET Op
<1>1. /\ SubSeq(l, 1, 0) = <<>>
      /\ SubSeq(l, 1, Len(l)) = l
      /\ \A k \in 1..Len(l) : /\ l[k] \in BucketItem
                              /\ SubSeq(l, 1, k - 1) \in Seq(BucketItem)
                              /\ SubSeq(l, 1, k) = Append(SubSeq(l, 1, k - 1), l[k])
  BY PrefixGrows
<1>2. /\ PartsOf(<<>>) = <<>>
      /\ \A q \in Seq(BucketItem) : PartsOf(q) \in Seq(A)
      /\ \A q \in Seq(BucketItem), y \in BucketItem : PartsOf(Append(q, y)) = PartsOf(q) \o y.parts
  BY PartsOfLists
<1>3. \A y \in BucketItem : y.parts \in Seq(A)
  BY ItemTimes
<1> HIDE DEF A
<1>4. /\ Occ(<<>>, x) = 0
      /\ \A q \in Seq(A) : Occ(q, x) \in Nat
  BY OccAppend
<1>5. \A q, r \in Seq(A) : Occ(q \o r, x) = Occ(q, x) + Occ(r, x)
  BY OccConcat
<1>6. ASSUME NEW k \in 1..Len(l)
      PROVE  /\ Occ(l[k].parts, x) \in Nat
             /\ Parts(l, k - 1, x) \in Nat
             /\ Parts(l, k, x) = Parts(l, k - 1, x) + Occ(l[k].parts, x)
  <2> DEFINE s == SubSeq(l, 1, k - 1)
             y == l[k]
             u == PartsOf(s)
             v == y.parts
  <2>1. s \in Seq(BucketItem) /\ y \in BucketItem /\ SubSeq(l, 1, k) = Append(s, y)
    BY <1>1
  <2>2. u \in Seq(A) /\ v \in Seq(A) /\ PartsOf(Append(s, y)) = u \o v
    BY <1>2, <1>3, <2>1
  <2>3. Parts(l, k, x) = Occ(u \o v, x)
    BY <2>1, <2>2, Zenon DEF Parts
  <2>4. Parts(l, k - 1, x) = Occ(u, x)
    BY DEF Parts
  <2> HIDE DEF u, v
  <2>5. Occ(u \o v, x) = Occ(u, x) + Occ(v, x) /\ Occ(u, x) \in Nat /\ Occ(v, x) \in Nat
    BY <1>4, <1>5, <2>2
  <2>6. Occ(v, x) = Occ(l[k].parts, x)
    BY DEF v
  <2> QED BY <2>3, <2>4, <2>5, <2>6, Zenon
<1>7. Parts(l, 0, x) = 0 /\ Parts(l, Len(l), x) = Occ(PartsOf(l), x)
  BY <1>1, <1>2, <1>4, Zenon DEF Parts
<1> QED BY <1>6, <1>7, Zenon DEF PartsAddUp

(* Nothing in any item, nothing in the list. *)
LEMMA NoneThere ==
    ASSUME NEW l \in Seq(BucketItem), NEW x, \A k \in 1..Len(l) : Occ(l[k].parts, x) = 0
    PROVE  Occ(PartsOf(l), x) = 0
<1> DEFINE n == Len(l)
           P(k) == Parts(l, k, x)
           J == {k \in 0..n : P(k) = 0}
<1>1. n \in Nat
  OBVIOUS
<1>2. PartsAddUp(l, x)
  BY PartsPrefix
<1>3. /\ P(0) = 0 /\ P(n) = Occ(PartsOf(l), x)
      /\ \A k \in 1..n : P(k - 1) \in Nat /\ P(k) = P(k - 1) + 0
  BY <1>2, Zenon DEF PartsAddUp
<1> HIDE DEF n, P
<1>4. 0 \in J
  BY <1>1, <1>3
<1>5. \A i \in 0..(n - 1) : i \in J => i + 1 \in J
  <2>1. ASSUME NEW i \in 0..(n - 1), i \in J PROVE i + 1 \in J
    <3>1. i + 1 \in 1..n /\ (i + 1) - 1 = i /\ i + 1 \in 0..n
      BY <1>1
    <3>2. P(i + 1) = P(i) + 0 /\ P(i) = 0
      BY <1>3, <2>1, <3>1
    <3> QED BY <3>1, <3>2
  <2> QED BY <2>1
<1>6. \A i \in 0..n : i \in J
  <2> HIDE DEF J
  <2> QED BY <1>1, <1>4, <1>5, UpTo
<1> QED BY <1>1, <1>3, <1>6

(* Two lists of the same length that differ in one place. *)
LEMMA OneMore ==
    ASSUME NEW a \in Seq(BucketItem), NEW b \in Seq(BucketItem), NEW x, Len(b) = Len(a),
           NEW n0 \in 1..Len(a), NEW w \in Nat,
           Occ(b[n0].parts, x) = Occ(a[n0].parts, x) + w,
           \A k \in 1..Len(a) : k # n0 => Occ(b[k].parts, x) = Occ(a[k].parts, x)
    PROVE  Occ(PartsOf(b), x) = Occ(PartsOf(a), x) + w
<1> DEFINE n == Len(a)
           P(k) == Parts(a, k, x)
           Q(k) == Parts(b, k, x)
           p(k) == Occ(a[k].parts, x)
           J == {k \in 0..n : Q(k) = IF n0 <= k THEN P(k) + w ELSE P(k)}
<1>1. n \in Nat /\ n0 \in 1..n
  OBVIOUS
<1>2. PartsAddUp(a, x) /\ PartsAddUp(b, x)
  BY PartsPrefix
<1>3. /\ P(0) = 0 /\ P(n) = Occ(PartsOf(a), x)
      /\ \A k \in 1..n : p(k) \in Nat /\ P(k - 1) \in Nat /\ P(k) = P(k - 1) + p(k)
  BY <1>2, Zenon DEF PartsAddUp
<1>4. /\ Q(0) = 0 /\ Q(n) = Occ(PartsOf(b), x)
      /\ \A k \in 1..n : Q(k - 1) \in Nat /\ Q(k) = Q(k - 1) + Occ(b[k].parts, x)
  <2>1. /\ Q(0) = 0 /\ Q(Len(b)) = Occ(PartsOf(b), x)
        /\ \A k \in 1..Len(b) : Q(k - 1) \in Nat /\ Q(k) = Q(k - 1) + Occ(b[k].parts, x)
    BY <1>2, Zenon DEF PartsAddUp
  <2> QED BY <2>1, Zenon
<1>5. Q(n0) = Q(n0 - 1) + (p(n0) + w)
  BY <1>1, <1>4, Zenon
<1>6. \A k \in 1..n : k # n0 => Q(k) = Q(k - 1) + p(k)
  BY <1>4, Zenon
<1> HIDE DEF n, P, Q, p
<1>7. 0 \in J
  BY <1>1, <1>3, <1>4
<1>8. \A i \in 0..(n - 1) : i \in J => i + 1 \in J
  <2>1. ASSUME NEW i \in 0..(n - 1), i \in J PROVE i + 1 \in J
    <3>1. i + 1 \in 1..n /\ (i + 1) - 1 = i /\ i + 1 \in 0..n
      BY <1>1
    <3>2. P(i) \in Nat /\ p(i + 1) \in Nat /\ P(i + 1) = P(i) + p(i + 1)
      BY <1>3, <3>1
    <3>3. Q(i) \in Nat /\ Q(i) = IF n0 <= i THEN P(i) + w ELSE P(i)
      BY <1>4, <2>1, <3>1
    <3>4. CASE i + 1 = n0
      <4>1. Q(i + 1) = Q(i) + (p(i + 1) + w)
        BY <1>5, <3>1, <3>4, Zenon
      <4>2. Q(i + 1) = P(i + 1) + w
        BY <1>1, <3>2, <3>3, <3>4, <4>1
      <4> QED BY <1>1, <3>1, <3>4, <4>2
    <3>5. CASE i + 1 # n0
      <4>1. Q(i + 1) = Q(i) + p(i + 1)
        BY <1>6, <3>1, <3>5, Zenon
      <4>2. Q(i + 1) = IF n0 <= i + 1 THEN P(i + 1) + w ELSE P(i + 1)
        BY <1>1, <3>2, <3>3, <3>5, <4>1
      <4> QED BY <3>1, <4>2
    <3> QED BY <3>4, <3>5
  <2> QED BY <2>1
<1>9. \A i \in 0..n : i \in J
  <2> HIDE DEF J
  <2> QED BY <1>1, <1>7, <1>8, UpTo
<1>10. Q(n) = P(n) + w
  BY <1>1, <1>9
<1> QED BY <1>3, <1>4, <1>10, Zenon

(* The groups of an order, with what the items of a list give them. *)
Listed(order, q, span) ==
    [n \in 1..Len(order) |->
        [at |-> order[n], parts |-> PartsOf(OfGroup(q, order[n], span))]]

(* An order that has every group once loses nothing and repeats nothing. *)
LEMMA ListedCounts ==
    ASSUME NEW span \in Spans, NEW order \in Seq(WordSet), Increasing(order), NEW x
    PROVE  \A q \in Seq(BucketItem) :
              /\ Listed(order, q, span) \in Seq(BucketItem)
              /\ {BucketOf(q[i].at, span) : i \in 1..Len(q)} \subseteq ToSet(order)
                    => Occ(PartsOf(Listed(order, q, span)), x) = Occ(PartsOf(q), x)
<1> DEFINE A == SUBSET Op
           groups(q) == {BucketOf(q[i].at, span) : i \in 1..Len(q)}
           G(q, n) == OfGroup(q, order[n], span)
           L(q) == Listed(order, q, span)
           N == Len(order)
           S == {q \in Seq(BucketItem) :
                    groups(q) \subseteq ToSet(order) => Occ(PartsOf(L(q)), x) = Occ(PartsOf(q), x)}
<1>1. N \in Nat /\ \A n \in 1..N : order[n] \in WordSet
  OBVIOUS
<1>2. \A i, j \in 1..N : order[i] = order[j] => i = j
  <2>1. \A i, j \in 1..N : i < j => order[i] < order[j]
    <3>1. order \in Seq(Nat)
      BY <1>1, SegmentsAssumption DEF WordSet
    <3> QED BY <3>1, IncreasingPairs
  <2>2. \A n \in 1..N : order[n] \in Nat
    BY <1>1, SegmentsAssumption DEF WordSet
  <2> QED BY <1>1, <2>1, <2>2
<1>3. ASSUME NEW k
      PROVE  /\ OfGroup(<<>>, k, span) = <<>>
             /\ \A q \in Seq(BucketItem) : OfGroup(q, k, span) \in Seq(BucketItem)
             /\ \A q \in Seq(BucketItem), y \in BucketItem :
                   OfGroup(Append(q, y), k, span)
                      = OfGroup(q, k, span) \o (IF BucketOf(y.at, span) = k THEN <<y>> ELSE <<>>)
  BY OfGroupLists
<1>4. /\ PartsOf(<<>>) = <<>>
      /\ \A q \in Seq(BucketItem) : PartsOf(q) \in Seq(A)
      /\ \A q \in Seq(BucketItem), y \in BucketItem : PartsOf(Append(q, y)) = PartsOf(q) \o y.parts
  BY PartsOfLists
<1>5. \A y \in BucketItem : y.parts \in Seq(A)
  BY ItemTimes
<1>6. ASSUME NEW q \in Seq(BucketItem)
      PROVE  /\ L(q) \in Seq(BucketItem) /\ Len(L(q)) = N
             /\ \A n \in 1..N : L(q)[n].parts = PartsOf(G(q, n))
  <2>1. \A n \in 1..N : G(q, n) \in Seq(BucketItem)
    BY <1>3
  <2>2. \A n \in 1..N : PartsOf(G(q, n)) \in Seq(A)
    BY <1>4, <2>1
  <2> HIDE DEF G
  <2>3. L(q) = [n \in 1..N |-> [at |-> order[n], parts |-> PartsOf(G(q, n))]]
    BY DEF Listed, G
  <2> DEFINE h(n) == PartsOf(G(q, n))
  <2> HIDE DEF h, L
  <2>4. \A n \in 1..N : [at |-> order[n], parts |-> h(n)] \in BucketItem
    <3>1. \A n \in 1..N : h(n) \in Seq(SUBSET Op)
      BY <2>2 DEF h, A
    <3> QED BY <1>1, <3>1 DEF BucketItem
  <2>5. L(q) = [n \in 1..N |-> [at |-> order[n], parts |-> h(n)]]
    BY <2>3 DEF h
  <2>6. L(q) \in Seq(BucketItem) /\ Len(L(q)) = N
    BY <1>1, <2>4, <2>5
  <2>7. \A n \in 1..N : L(q)[n].parts = h(n)
    BY <2>5
  <2> QED BY <2>6, <2>7 DEF h
<1> HIDE DEF A, L
<1>7. /\ Occ(<<>>, x) = 0
      /\ \A q \in Seq(A) : Occ(q, x) \in Nat
  BY OccAppend
<1>8. \A q, r \in Seq(A) : Occ(q \o r, x) = Occ(q, x) + Occ(r, x)
  BY OccConcat
<1>9. <<>> \in S
  <2>1. <<>> \in Seq(BucketItem)
    OBVIOUS
  <2>2. L(<<>>) \in Seq(BucketItem) /\ Len(L(<<>>)) = N
    BY <1>6, <2>1
  <2>3. \A n \in 1..N : Occ(L(<<>>)[n].parts, x) = 0
    <3>1. \A n \in 1..N : G(<<>>, n) = <<>>
      BY <1>3
    <3>2. \A n \in 1..N : L(<<>>)[n].parts = PartsOf(G(<<>>, n))
      BY <1>6, <2>1
    <3> HIDE DEF G
    <3> QED BY <1>4, <1>7, <3>1, <3>2, Zenon
  <2> DEFINE l == L(<<>>)
  <2> HIDE DEF l
  <2>4. l \in Seq(BucketItem) /\ \A n \in 1..Len(l) : Occ(l[n].parts, x) = 0
    BY <2>2, <2>3, Zenon DEF l
  <2>5. Occ(PartsOf(l), x) = 0
    BY <2>4, NoneThere
  <2> QED BY <1>4, <1>7, <2>1, <2>5, Zenon DEF l
<1>10. \A q \in Seq(BucketItem), y \in BucketItem : q \in S => Append(q, y) \in S
  <2>1. ASSUME NEW q \in Seq(BucketItem), NEW y \in BucketItem, q \in S,
               groups(Append(q, y)) \subseteq ToSet(order)
        PROVE  Occ(PartsOf(L(Append(q, y))), x) = Occ(PartsOf(Append(q, y)), x)
    <3> DEFINE r == Append(q, y)
               w == Occ(y.parts, x)
               k == BucketOf(y.at, span)
               a == L(q)
               b == L(r)
    <3>1. /\ r \in Seq(BucketItem) /\ Len(r) = Len(q) + 1 /\ r[Len(q) + 1] = y
          /\ \A i \in 1..Len(q) : r[i] = q[i]
          /\ Len(q) \in Nat
      OBVIOUS
    <3> HIDE DEF r
    <3>2. groups(q) \subseteq groups(r) /\ k \in groups(r)
      <4>1. \A i \in 1..Len(q) : i \in 1..Len(r)
        BY <3>1
      <4>2. Len(q) + 1 \in 1..Len(r)
        BY <3>1
      <4> QED BY <3>1, <4>1, <4>2
    <3>3. groups(r) \subseteq ToSet(order)
      BY <2>1 DEF r
    <3>4. Occ(PartsOf(a), x) = Occ(PartsOf(q), x)
      BY <2>1, <3>2, <3>3
    <3> HIDE DEF k
    <3>5. PICK n0 \in 1..N : order[n0] = k
      BY <3>2, <3>3 DEF ToSet
    <3>6. /\ a \in Seq(BucketItem) /\ Len(a) = N /\ \A n \in 1..N : a[n].parts = PartsOf(G(q, n))
          /\ b \in Seq(BucketItem) /\ Len(b) = N /\ \A n \in 1..N : b[n].parts = PartsOf(G(r, n))
      BY <1>6, <3>1
    <3>7. \A n \in 1..N : G(q, n) \in Seq(BucketItem)
      BY <1>3
    <3>8. \A n \in 1..N : G(r, n) = G(q, n) \o (IF k = order[n] THEN <<y>> ELSE <<>>)
      BY <1>3 DEF r, k
    <3> HIDE DEF G, a, b, w, N
    <3>9. ASSUME NEW n \in 1..N, n # n0 PROVE Occ(b[n].parts, x) = Occ(a[n].parts, x)
      <4>1. order[n] # k
        BY <1>2, <3>5, <3>9
      <4> DEFINE g == G(q, n)
      <4>2. g \in Seq(BucketItem) /\ G(r, n) = g \o <<>>
        BY <3>7, <3>8, <4>1
      <4> HIDE DEF g
      <4>3. g \o <<>> = g
        BY <4>2
      <4>4. G(r, n) = G(q, n)
        BY <4>2, <4>3 DEF g
      <4> QED BY <3>6, <4>4, Zenon
    <3>10. Occ(b[n0].parts, x) = Occ(a[n0].parts, x) + w
      <4> DEFINE g == G(q, n0)
                 u == PartsOf(g)
                 v == y.parts
      <4>1. g \in Seq(BucketItem) /\ G(r, n0) = g \o <<y>>
        BY <3>5, <3>7, <3>8
      <4> HIDE DEF g
      <4>2. g \o <<y>> = Append(g, y)
        BY <4>1
      <4>3. PartsOf(Append(g, y)) = u \o v /\ u \in Seq(A) /\ v \in Seq(A)
        BY <1>4, <1>5, <4>1
      <4>4. b[n0].parts = u \o v /\ a[n0].parts = u
        BY <3>6, <4>1, <4>2, <4>3, Zenon DEF g
      <4> HIDE DEF u, v
      <4>5. Occ(u \o v, x) = Occ(u, x) + Occ(v, x)
        BY <1>8, <4>3
      <4> QED BY <4>4, <4>5, Zenon DEF v, w
    <3>11. w \in Nat
      BY <1>5, <1>7 DEF w
    <3>12. Occ(PartsOf(b), x) = Occ(PartsOf(a), x) + w
      <4>1. n0 \in 1..Len(a) /\ Len(b) = Len(a) /\ \A n \in 1..Len(a) : n # n0 => Occ(b[n].parts, x) = Occ(a[n].parts, x)
        BY <3>5, <3>6, <3>9, Zenon
      <4> QED BY <3>6, <3>10, <3>11, <4>1, OneMore
    <3>13. Occ(PartsOf(r), x) = Occ(PartsOf(q), x) + w
      <4> DEFINE u == PartsOf(q)
                 v == y.parts
      <4>1. PartsOf(r) = u \o v /\ u \in Seq(A) /\ v \in Seq(A)
        BY <1>4, <1>5 DEF r
      <4> HIDE DEF u, v
      <4>2. Occ(u \o v, x) = Occ(u, x) + Occ(v, x)
        BY <1>8, <4>1
      <4> QED BY <4>1, <4>2, Zenon DEF u, v, w
    <3> QED BY <3>4, <3>12, <3>13, Zenon DEF a, b, r
  <2>2. \A q \in Seq(BucketItem), y \in BucketItem : Append(q, y) \in Seq(BucketItem)
    OBVIOUS
  <2> QED BY <2>1, <2>2
<1>11. \A q \in Seq(BucketItem) : q \in S
  <2> HIDE DEF S
  <2> QED BY <1>9, <1>10, ListInduction
<1> QED BY <1>6, <1>11 DEF L

(* The sketches a mixed scan lists are aggregated from what it met. *)
LEMMA MixedCounts ==
    ASSUME NEW span \in Spans, NEW q \in Seq(BucketItem), NEW x
    PROVE  Occ(PartsOf(MixedList(q, span)), x) = Occ(PartsOf(q), x)
<1> DEFINE order == MixedGroups(q, span)
<1>1. /\ order \in Seq(WordSet) /\ Increasing(order)
      /\ ToSet(order) = {BucketOf(q[i].at, span) : i \in 1..Len(q)}
  BY MixedGroupsSorted
<1>2. MixedList(q, span) = Listed(order, q, span)
  BY DEF MixedList, Listed
<1> HIDE DEF order
<1>3. Occ(PartsOf(Listed(order, q, span)), x) = Occ(PartsOf(q), x)
  <2>1. {BucketOf(q[i].at, span) : i \in 1..Len(q)} \subseteq ToSet(order)
    BY <1>1
  <2> QED BY <1>1, <2>1, ListedCounts
<1> QED BY <1>2, <1>3

-----------------------------------------------------------------------------
(* Every part once. *)

(* A scan that meets no segment has nothing to fold. *)
LEMMA NothingMet ==
    ASSUME NEW from \in Nat, NEW to \in Nat
    PROVE  \A s \in Seq(Spanning) :
              (\A i \in 1..Len(s) : ~Hit(s[i], from, to)) => Stream(s, from, to) = <<>>
<1> DEFINE A == Spanning
           S == {s \in Seq(A) : (\A i \in 1..Len(s) : ~Hit(s[i], from, to)) => Stream(s, from, to) = <<>>}
<1>1. /\ Stream(<<>>, from, to) = <<>>
      /\ \A s \in Seq(A), seg \in A :
            Stream(Append(s, seg), from, to) = Stream(s, from, to) \o Within(Items(seg), from, to)
  BY StreamAppend
<1>2. \A seg \in A : ~Hit(seg, from, to) => Within(Items(seg), from, to) = <<>>
  BY MissedSegment
<1>3. <<>> \in S
  BY <1>1
<1>4. \A s \in Seq(A), seg \in A : s \in S => Append(s, seg) \in S
  <2>1. ASSUME NEW s \in Seq(A), NEW seg \in A, s \in S,
               \A i \in 1..Len(Append(s, seg)) : ~Hit(Append(s, seg)[i], from, to)
        PROVE  Stream(Append(s, seg), from, to) = <<>>
    <3> DEFINE r == Append(s, seg)
    <3>1. /\ Len(s) \in Nat /\ Len(r) = Len(s) + 1 /\ r[Len(s) + 1] = seg
          /\ \A i \in 1..Len(s) : r[i] = s[i]
      OBVIOUS
    <3>2. \A i \in 1..Len(r) : ~Hit(r[i], from, to)
      BY <2>1
    <3> HIDE DEF r
    <3>3. ~Hit(seg, from, to) /\ \A i \in 1..Len(s) : ~Hit(s[i], from, to)
      <4>1. Len(s) + 1 \in 1..Len(r) /\ \A i \in 1..Len(s) : i \in 1..Len(r)
        BY <3>1
      <4> QED BY <3>1, <3>2, <4>1
    <3>4. Stream(s, from, to) = <<>> /\ Within(Items(seg), from, to) = <<>>
      BY <1>2, <2>1, <3>3
    <3>5. Stream(Append(s, seg), from, to) = <<>> \o <<>>
      BY <1>1, <3>4, Zenon
    <3>6. <<>> \o <<>> = <<>>
      OBVIOUS
    <3> QED BY <3>5, <3>6, Zenon
  <2>2. \A s \in Seq(A), seg \in A : Append(s, seg) \in Seq(A)
    OBVIOUS
  <2> QED BY <2>1, <2>2
<1>5. \A s \in Seq(A) : s \in S
  <2> HIDE DEF S, A
  <2> QED BY <1>3, <1>4, ListInduction
<1> QED BY <1>5

(* Whatever the kind and the width of the groups, a scan to its end folds  *)
(* what the stream of its interval has, each part once.                    *)
LEMMA YieldedOnce ==
    ASSUME NEW k \in KnownKinds, NEW s \in Seq(Spanning), NEW from \in Nat, NEW to \in Nat,
           NEW span \in Spans, NEW x
    PROVE  /\ Scanned(k, s, from, to, span, 0) \in Seq(BucketItem)
           /\ Occ(PartsOf(Scanned(k, s, from, to, span, 0)), x) = Occ(PartsOf(Stream(s, from, to)), x)
<1> DEFINE y == Scanned(k, s, from, to, span, 0)
           all == Stream(s, from, to)
           fold(g) == Finished(Grouped(all, g, 0), 0).out
           raws == Stream(OfKind(s, FALSE), from, to)
           buckets == Stream(OfKind(s, TRUE), from, to)
           missed(b) == \A i \in 1..Len(s) : s[i].bucket # b => ~Hit(s[i], from, to)
           Good(q) == q \in Seq(BucketItem) /\ Occ(PartsOf(q), x) = Occ(PartsOf(all), x)
<1>1. all \in Seq(BucketItem)
  BY StreamAppend
<1>2. 0 \in Spans
  BY DEF Spans
<1> HIDE DEF all
<1>3. ASSUME NEW g \in Spans PROVE Good(fold(g)) /\ ~Grouped(all, g, 0).refused
  BY <1>1, FoldKeepsParts
<1>4. Good(all)
  BY <1>1
<1>5. Good(MixedList(all, span))
  BY <1>1, MixedListRises, MixedCounts
<1>6. CASE k = "sample"
  <2>1. y = IF span = 0 THEN Taken(all, 0) ELSE fold(span)
    BY <1>6 DEF Scanned, SampleRange, SampleValues, all
  <2>2. Taken(all, 0) = all
    BY DEF Taken
  <2> HIDE DEF fold, y, Good
  <2>3. Good(y)
    BY <1>3, <1>4, <2>1, <2>2
  <2> QED BY <2>3 DEF y, Good, all
<1>7. CASE k = "counter"
  <2>1. y = IF span = 0 THEN CounterValues(s, from, to, 0) ELSE fold(span)
    BY <1>7 DEF Scanned, CounterRange, all
  <2>2. CounterValues(s, from, to, 0) = fold(0)
    BY <1>2, <1>3 DEF CounterValues, all
  <2> HIDE DEF fold, y, Good
  <2>3. Good(y)
    BY <1>2, <1>3, <2>1, <2>2
  <2> QED BY <2>3 DEF y, Good, all
<1>8. CASE k = "sketch"
  <2> DEFINE z == SketchRange(s, from, to, span, 0)
             rfold == Finished(Grouped(raws, span, 0), 0).out
  <2>1. y = z
    BY <1>8 DEF Scanned
  <2>2. \/ missed(FALSE) /\ missed(TRUE) /\ z = <<>>
        \/ missed(FALSE) /\ z = rfold
        \/ missed(TRUE) /\ z = buckets
        \/ z = MixedList(all, span)
    BY SketchRangeIs DEF all
  <2>3. missed(FALSE) => raws = all
    BY OtherKindMissed DEF all
  <2>4. missed(TRUE) => buckets = all
    BY OtherKindMissed DEF all
  <2>5. missed(FALSE) /\ missed(TRUE) => all = <<>>
    <3>1. ASSUME missed(FALSE), missed(TRUE) PROVE \A i \in 1..Len(s) : ~Hit(s[i], from, to)
      BY <3>1
    <3>2. missed(FALSE) /\ missed(TRUE) => Stream(s, from, to) = <<>>
      <4> HIDE DEF missed
      <4> QED BY <3>1, NothingMet
    <3> QED BY <3>2 DEF all
  <2>6. raws = all => rfold = fold(span)
    OBVIOUS
  <2> HIDE DEF y, z, raws, buckets, missed, fold, rfold, Good
  <2>7. Good(fold(span))
    BY <1>3
  <2>8. Good(y)
    BY <1>4, <1>5, <2>1, <2>2, <2>3, <2>4, <2>5, <2>6, <2>7, Zenon
  <2> QED BY <2>8 DEF y, Good, all
<1> QED BY <1>6, <1>7, <1>8 DEF KnownKinds

(* A scan to its end aggregates every point and bucket of the interval     *)
(* exactly once: folds and maps lose nothing, the segments a scan skips    *)
(* and the kind a sketch scan leaves out hold nothing of the interval, and *)
(* the blocks hold what decode gives.                                      *)
THEOREM PartsOnce == Spec => []EachPartOnce
<1>1. ASSUME ScanInv, NEW i \in Intervals, NEW span \in Spans
      PROVE  ToBag(PartsOf(Yielded(i, span))) = ToBag(PartsOf(ReferenceValues(Content, i[1], i[2])))
  <2> DEFINE f == i[1]
             t == i[2]
             y == Scanned(kind, stored, f, t, span, 0)
             p == Content
             all == Stream(stored, f, t)
             ref == ByTime(p)
  <2>1. f \in Nat /\ t \in Nat
    <3>1. i[1] \in Time /\ i[2] \in Time
      BY DEF Intervals
    <3> QED BY <3>1, TimeAssumption
  <2>2. /\ stored \in Seq(Spanning)
        /\ Content.raw \in Seq(Op) /\ Content.buckets \in Seq(BucketItem)
        /\ kind \in KnownKinds /\ LaidOut(stored)
    BY <1>1, StoredSpans DEF ScanInv, IInv, ClockInv
  <2> HIDE DEF f, t
  <2>3. all = Within(p.buckets \o RawItems(p.raw), f, t)
    <3>1. all = Within(AllItems(stored), f, t)
      BY <2>1, <2>2, StreamIsWithin
    <3> QED BY <2>2, <3>1 DEF LaidOut, Content
  <2>4. ref \in Seq(BucketItem) /\ Within(ref, f, t) \in Seq(BucketItem)
    <3>1. ref \in Seq(BucketItem)
      <4> HIDE DEF p
      <4> QED BY <2>2, ByTimeCounts DEF p
    <3> HIDE DEF ref
    <3> QED BY <3>1, WithinLists
  <2>5. ASSUME NEW x PROVE Occ(PartsOf(y), x) = Occ(PartsOf(Within(ref, f, t)), x)
    <3>1. Occ(PartsOf(y), x) = Occ(PartsOf(all), x)
      BY <2>1, <2>2, YieldedOnce
    <3>2. Counted(ref, f, t, x) = Counted(p.buckets \o RawItems(p.raw), f, t, x)
      <4> HIDE DEF p
      <4> QED BY <2>2, ByTimeCounts DEF p
    <3> HIDE DEF ref, all, y, p
    <3> QED BY <2>3, <3>1, <3>2, Zenon DEF Counted
  <2>6. y \in Seq(BucketItem)
    BY <2>1, <2>2, YieldedOnce
  <2> DEFINE A == SUBSET Op
             w == Within(ref, f, t)
  <2> HIDE DEF ref, y, w
  <2>7. PartsOf(y) \in Seq(A) /\ PartsOf(w) \in Seq(A)
    BY <2>4, <2>6, PartsOfLists DEF w
  <2> DEFINE u == PartsOf(y)
             v == PartsOf(w)
  <2> HIDE DEF A, u, v
  <2>8. ToBag(u) = ToBag(v)
    <3>1. u \in Seq(A) /\ v \in Seq(A)
      BY <2>7 DEF u, v
    <3>2. \A x : Occ(u, x) = Occ(v, x)
      BY <2>5 DEF u, v, w
    <3> QED BY <3>1, <3>2, SameBag
  <2>9. Yielded(i, span) = y /\ ReferenceValues(Content, i[1], i[2]) = w
    BY DEF Yielded, ReferenceValues, y, w, ref, f, t
  <2> QED BY <2>8, <2>9, Zenon DEF u, v
<1>2. ScanInv => EachPartOnce
  BY <1>1 DEF EachPartOnce, Spans
<1> QED BY <1>2, BucketsBeforePoints, PTL

-----------------------------------------------------------------------------
(* The in-memory iterators agree. *)

(* When no bucket is later than a point, the merge by time is the buckets  *)
(* and then the points.                                                    *)
LEMMA ByTimeInOrder ==
    ASSUME NEW p, p.raw \in Seq(Op), p.buckets \in Seq(BucketItem),
           \A i \in 1..Len(p.buckets), j \in 1..Len(p.raw) : p.buckets[i].at <= p.raw[j].at
    PROVE  ByTime(p) = p.buckets \o RawItems(p.raw)
<1> DEFINE bs == p.buckets
           rs == p.raw
           W == RawItems(rs)
           B == Len(bs)
           R == Len(rs)
           A == BucketItem
           n == B + R
<1>1. B \in Nat /\ R \in Nat /\ Sized(p, B, R)
  BY DEF Sized
<1>2. W \in Seq(A) /\ Len(W) = R /\ \A i \in 1..R : W[i] = Item(rs[i])
  <2>1. W \in Seq(BucketItem) /\ Len(W) = Len(rs)
    BY RawItemsList
  <2> QED BY <2>1 DEF RawItems
<1>3. bs \in Seq(A)
  OBVIOUS
<1>4. \A i \in 1..B, j \in 1..R : bs[i].at <= rs[j].at
  OBVIOUS
<1> HIDE DEF bs, W, rs, A
<1> DEFINE b(k) == SubSeq(bs, 1, k)
           w(k) == SubSeq(W, 1, k)
<1>5. /\ b(0) = <<>> /\ b(B) = bs
      /\ \A k \in 1..B : bs[k] \in A /\ b(k - 1) \in Seq(A) /\ b(k) = Append(b(k - 1), bs[k])
  BY <1>3, PrefixGrows
<1>6. /\ w(0) = <<>> /\ w(R) = W
      /\ \A k \in 1..R : W[k] \in A /\ w(k - 1) \in Seq(A) /\ w(k) = Append(w(k - 1), W[k])
  BY <1>2, PrefixGrows
<1>7. n \in Nat
  BY <1>1
<1>8. PICK pass : MergePass(p, B, R, pass)
  BY <1>1, MergePasses
<1>9. /\ pass[0].out = <<>> /\ pass[0].bucket = 1 /\ pass[0].item = 1
      /\ \A i \in 0..n : MergedTo(B, R, i, pass[i])
      /\ \A i \in 0..(n - 1) :
            BucketTaken(p, B, R, pass[i], pass[i + 1]) \/ PointTaken(p, B, R, pass[i], pass[i + 1])
      /\ ByTime(p) = pass[n].out
  <2> HIDE DEF B, R
  <2>1. /\ pass[0].out = <<>> /\ pass[0].bucket = 1 /\ pass[0].item = 1
        /\ \A i \in 0..(B + R) : MergedTo(B, R, i, pass[i])
        /\ \A i \in 0..(B + R - 1) :
              BucketTaken(p, B, R, pass[i], pass[i + 1]) \/ PointTaken(p, B, R, pass[i], pass[i + 1])
        /\ ByTime(p) = pass[B + R].out
    BY <1>8, Zenon DEF MergePass
  <2>2. n = B + R
    OBVIOUS
  <2> HIDE DEF n
  <2>3. 0..(B + R) = 0..n /\ 0..(B + R - 1) = 0..(n - 1) /\ pass[B + R] = pass[n]
    BY <1>1, <1>7, <2>2
  <2> QED BY <2>1, <2>3, Zenon
<1> HIDE DEF B, R, n, b, w
<1>10. bs \in Seq(A) /\ W \in Seq(A)
  BY <1>2, <1>3
<1> DEFINE J == {i \in 0..n : /\ pass[i].out = b(pass[i].bucket - 1) \o w(pass[i].item - 1)
                              /\ pass[i].item > 1 => pass[i].bucket = B + 1}
<1>11. 0 \in J
  <2>1. 1 - 1 = 0 /\ 0 \in 0..n /\ ~(1 > 1) /\ <<>> \o <<>> = <<>>
    BY <1>7
  <2> QED BY <1>5, <1>6, <1>9, <2>1
<1>12. ASSUME NEW i \in 0..(n - 1), i \in J PROVE i + 1 \in J
  <2> DEFINE m == pass[i]
             next == pass[i + 1]
  <2>1. i + 1 \in 0..n /\ i \in 0..n
    BY <1>7
  <2>2. MergedTo(B, R, i, m)
    BY <1>9, <2>1
  <2>3. m.bucket \in Nat /\ m.item \in Nat /\ m.bucket \in 1..(B + 1) /\ m.item \in 1..(R + 1)
    BY <2>2 DEF MergedTo, MergeStates
  <2>4. BucketTaken(p, B, R, m, next) \/ PointTaken(p, B, R, m, next)
    BY <1>9
  <2>5. m.out = b(m.bucket - 1) \o w(m.item - 1) /\ (m.item > 1 => m.bucket = B + 1)
    BY <1>12
  <2> HIDE DEF m, next
  <2>6. CASE BucketTaken(p, B, R, m, next)
    <3> DEFINE k == m.bucket
    <3>1. k \in 1..B /\ next.out = Append(m.out, bs[k]) /\ next.bucket = k + 1 /\ next.item = m.item
      BY <2>6 DEF BucketTaken, bs
    <3>2. m.item = 1
      BY <1>1, <2>3, <2>5, <3>1
    <3>3. m.out = b(k - 1)
      <4> DEFINE u == b(k - 1)
      <4>1. u \in Seq(A) /\ m.out = u \o <<>>
        <5>1. 1 - 1 = 0
          OBVIOUS
        <5> QED BY <1>5, <1>6, <2>5, <3>1, <3>2, <5>1, Zenon
      <4> HIDE DEF u
      <4>2. u \o <<>> = u
        BY <4>1
      <4> QED BY <4>1, <4>2 DEF u
    <3>4. next.out = b(k)
      BY <1>5, <3>1, <3>3, Zenon
    <3>5. next.out = b(next.bucket - 1) \o w(next.item - 1)
      <4> DEFINE u == b(k)
      <4>1. u \in Seq(A)
        <5>1. b(k) = Append(b(k - 1), bs[k]) /\ b(k - 1) \in Seq(A) /\ bs[k] \in A
          BY <1>5, <3>1
        <5> QED BY <5>1
      <4>2. (k + 1) - 1 = k /\ 1 - 1 = 0
        BY <2>3
      <4> HIDE DEF u
      <4>3. u \o <<>> = u
        BY <4>1
      <4> QED BY <1>6, <3>1, <3>2, <3>4, <4>2, <4>3, Zenon DEF u
    <3>6. ~(next.item > 1)
      BY <3>1, <3>2
    <3> QED BY <2>1, <3>5, <3>6 DEF next
  <2>7. CASE PointTaken(p, B, R, m, next)
    <3> DEFINE k == m.item
    <3>1. /\ k \in 1..R /\ next.out = Append(m.out, W[k]) /\ next.bucket = m.bucket /\ next.item = k + 1
          /\ m.bucket <= B => ~(bs[m.bucket].at <= rs[k].at)
      BY <1>2, <2>7 DEF PointTaken, bs, rs
    <3>2. m.bucket = B + 1
      <4>1. m.bucket \in 1..B => bs[m.bucket].at <= rs[k].at
        BY <1>4, <3>1
      <4> QED BY <1>1, <2>3, <3>1, <4>1
    <3>3. (B + 1) - 1 = B /\ (k + 1) - 1 = k
      BY <1>1, <2>3
    <3>4. m.out = bs \o w(k - 1)
      BY <1>5, <2>5, <3>2, <3>3, Zenon
    <3>5. next.out = bs \o w(k)
      <4> DEFINE u == w(k - 1)
                 y == W[k]
      <4>1. u \in Seq(A) /\ y \in A /\ w(k) = Append(u, y)
        BY <1>6, <3>1
      <4>2. next.out = Append(bs \o u, y)
        BY <3>1, <3>4
      <4> HIDE DEF u, y
      <4>3. Append(bs \o u, y) = bs \o Append(u, y)
        <5>1. bs \o u \in Seq(A)
          BY <1>10, <4>1
        <5>2. /\ Append(bs \o u, y) = (bs \o u) \o <<y>> /\ Append(u, y) = u \o <<y>>
              /\ <<y>> \in Seq(A)
          BY <4>1, <5>1
        <5>3. \A c, d, e \in Seq(A) : (c \o d) \o e = c \o (d \o e)
          BY Associative, SMTT(30)
        <5> DEFINE z == <<y>>
        <5>4. z \in Seq(A) /\ u \in Seq(A) /\ bs \in Seq(A)
          BY <1>10, <4>1, <5>2
        <5> HIDE DEF z
        <5>5. (bs \o u) \o z = bs \o (u \o z)
          BY <5>3, <5>4
        <5> QED BY <5>2, <5>5, Zenon DEF z
      <4> QED BY <4>1, <4>2, <4>3, Zenon
    <3>6. next.out = b(next.bucket - 1) \o w(next.item - 1)
      BY <1>5, <3>1, <3>2, <3>3, <3>5, Zenon
    <3> QED BY <2>1, <3>1, <3>2, <3>6 DEF next
  <2> QED BY <2>4, <2>6, <2>7
<1>13. n \in J
  <2>1. \A i \in 0..n : i \in J
    <3> HIDE DEF J
    <3> QED BY <1>7, <1>11, <1>12, UpTo
  <2> QED BY <1>7, <2>1
<1> DEFINE m == pass[n]
<1>14. MergedTo(B, R, n, m)
  BY <1>7, <1>9
<1>15. m.bucket - 1 = B /\ m.item - 1 = R
  <2>1. m.bucket \in 1..(B + 1) /\ m.item \in 1..(R + 1) /\ m.bucket + m.item = n + 2
    BY <1>14 DEF MergedTo
  <2> DEFINE c == m.bucket
             d == m.item
  <2>2. c \in 1..(B + 1) /\ d \in 1..(R + 1) /\ c + d = (B + R) + 2
    BY <2>1 DEF n
  <2> HIDE DEF c, d
  <2>3. c - 1 = B /\ d - 1 = R
    BY <1>1, <2>2
  <2> QED BY <2>3 DEF c, d
<1>16. m.out = b(m.bucket - 1) \o w(m.item - 1)
  BY <1>13
<1> QED BY <1>5, <1>6, <1>9, <1>15, <1>16, Zenon DEF bs, W, rs

(* bucketOf rounds down. *)
LEMMA BucketStarts ==
    ASSUME NEW t \in WordSet
    PROVE  BucketOf(t, Span) <= t
<1>1. t \in Nat /\ Span \in Nat \ {0}
  BY SegmentsAssumption DEF WordSet
<1>2. (t \div Span) * Span <= t
  BY <1>1, Division
<1>3. BucketOf(t, Span) = (t \div Span) * Span
  BY <1>1 DEF BucketOf
<1> QED BY <1>2, <1>3

(* Without late writes no bucket is later than a raw point. *)
LEMMA BucketsFirst ==
    ASSUME ScanInv, ~late
    PROVE  \A i \in 1..Len(Content.buckets), j \in 1..Len(Content.raw) :
              Content.buckets[i].at <= Content.raw[j].at
<1> DEFINE bs == Content.buckets
           rs == Content.raw
<1>1. /\ bs \in Seq(BucketItem) /\ rs \in Seq(Op)
      /\ BucketsAtHome(bs)
      /\ horizon \in Nat
      /\ \A o \in Folded : o.at < horizon
      /\ \A o \in Raw : o.at >= horizon
  BY StoredSpans DEF ScanInv, IInv
<1>2. ASSUME NEW i \in 1..Len(bs), NEW j \in 1..Len(rs) PROVE bs[i].at <= rs[j].at
  <2>1. bs[i] \in BucketItem /\ rs[j] \in Op /\ bs[i] \in ToSet(bs) /\ rs[j] \in ToSet(rs)
    BY <1>1 DEF ToSet
  <2>2. HomeOf(bs[i].at, bs[i].parts)
    BY <1>1 DEF BucketsAtHome
  <2>3. PICK o \in UNION ToSet(bs[i].parts) : BucketOf(o.at, Span) = bs[i].at
    BY <2>2 DEF HomeOf
  <2>4. o \in Folded
    BY <2>1, <2>3 DEF Folded
  <2>5. bs[i].parts \in Seq(SUBSET Op)
    BY <2>1, ItemTimes
  <2>6. o \in Op
    BY <2>3, <2>5 DEF ToSet
  <2>7. o.at \in WordSet /\ o.at \in Nat /\ rs[j].at \in Nat
    BY <2>1, <2>6, ItemOf, ItemTimes
  <2>8. bs[i].at \in Nat /\ bs[i].at <= o.at
    <3>1. BucketOf(o.at, Span) <= o.at
      BY <2>7, BucketStarts
    <3>2. bs[i].at \in Nat
      BY <2>1, ItemTimes
    <3> QED BY <2>3, <3>1, <3>2
  <2>9. o.at < horizon /\ rs[j].at >= horizon
    BY <1>1, <2>1, <2>4 DEF Raw
  <2> DEFINE u == bs[i].at
             v == rs[j].at
             w == o.at
  <2>10. u \in Nat /\ v \in Nat /\ w \in Nat /\ u <= w /\ w < horizon /\ v >= horizon
    BY <2>7, <2>8, <2>9
  <2> HIDE DEF u, v, w
  <2>11. u <= v
    BY <1>1, <2>10
  <2> QED BY <2>11 DEF u, v
<1> QED BY <1>2

(* As long as no write is filed before what was folded, what a scan meets  *)
(* is what the merge of the decoded series by time has in the interval.    *)
LEMMA StreamIsReference ==
    ASSUME ScanInv, ~late, NEW from \in Nat, NEW to \in Nat
    PROVE  /\ Stream(stored, from, to) = ReferenceValues(Content, from, to)
           /\ Stream(stored, from, to) \in Seq(BucketItem)
<1> DEFINE p == Content
<1>1. /\ stored \in Seq(Spanning) /\ LaidOut(stored)
      /\ p.raw \in Seq(Op) /\ p.buckets \in Seq(BucketItem)
  BY StoredSpans DEF ScanInv, IInv
<1>2. ByTime(p) = p.buckets \o RawItems(p.raw)
  <2>1. \A i \in 1..Len(p.buckets), j \in 1..Len(p.raw) : p.buckets[i].at <= p.raw[j].at
    BY BucketsFirst
  <2> HIDE DEF p
  <2> QED BY <1>1, <2>1, ByTimeInOrder
<1>3. AllItems(stored) = ByTime(p)
  BY <1>1, <1>2 DEF LaidOut, Content
<1>4. Stream(stored, from, to) = Within(AllItems(stored), from, to)
  BY <1>1, StreamIsWithin
<1>5. Stream(stored, from, to) \in Seq(BucketItem)
  BY <1>1, StreamAppend
<1> QED BY <1>3, <1>4, <1>5, Zenon DEF ReferenceValues

(* As long as no write is filed before what was folded, the scans of       *)
(* samples and counters over the stored blocks yield, element for element, *)
(* what the in-memory iterators yield over the decoded series.             *)
THEOREM ScansAgree == Spec => []ReferenceAgrees
<1>1. ASSUME ScanInv, ~late, kind # "sketch", NEW i \in Intervals, NEW span \in Spans
      PROVE  Yielded(i, span) = IF kind = "sample" THEN ReferenceSamples(Content, i[1], i[2], span)
                                ELSE ReferenceCounters(Content, i[1], i[2], span)
  <2> DEFINE f == i[1]
             t == i[2]
             all == Stream(stored, f, t)
             ref == ReferenceValues(Content, f, t)
             fold(g) == Finished(Grouped(all, g, 0), 0).out
  <2>1. f \in Nat /\ t \in Nat
    <3>1. i[1] \in Time /\ i[2] \in Time
      BY DEF Intervals
    <3> QED BY <3>1, TimeAssumption
  <2>2. kind \in KnownKinds
    BY <1>1 DEF ScanInv, IInv, ClockInv
  <2> HIDE DEF f, t
  <2>3. all = ref /\ all \in Seq(BucketItem)
    BY <1>1, <2>1, StreamIsReference
  <2>4. 0 \in Spans
    BY DEF Spans
  <2>5. ReferenceSamples(Content, f, t, span) = IF span = 0 THEN all ELSE fold(span)
    BY <2>3 DEF ReferenceSamples
  <2>6. ReferenceCounters(Content, f, t, span) = fold(span)
    BY <2>3 DEF ReferenceCounters
  <2> HIDE DEF ref
  <2>7. SampleRange(stored, f, t, span, 0) = IF span = 0 THEN all ELSE fold(span)
    <3>1. Taken(all, 0) = all
      BY DEF Taken
    <3> QED BY <3>1 DEF SampleRange, SampleValues
  <2>8. CounterRange(stored, f, t, span, 0) = fold(span)
    <3> HIDE DEF all
    <3>1. ~Grouped(all, 0, 0).refused
      BY <2>3, <2>4, FoldKeepsParts
    <3>2. CounterValues(stored, f, t, 0) = fold(0)
      BY <3>1 DEF CounterValues, all
    <3> QED BY <3>2 DEF CounterRange, all
  <2>9. CASE kind = "sample"
    <3>1. Yielded(i, span) = SampleRange(stored, f, t, span, 0)
      BY <2>9 DEF Yielded, Scanned, f, t
    <3>2. ReferenceSamples(Content, i[1], i[2], span) = ReferenceSamples(Content, f, t, span)
      BY DEF f, t
    <3> QED BY <2>5, <2>7, <2>9, <3>1, <3>2, Zenon
  <2>10. CASE kind = "counter"
    <3>1. Yielded(i, span) = CounterRange(stored, f, t, span, 0)
      BY <2>10 DEF Yielded, Scanned, f, t
    <3>2. ReferenceCounters(Content, i[1], i[2], span) = ReferenceCounters(Content, f, t, span)
      BY DEF f, t
    <3>3. kind # "sample"
      BY <2>10
    <3> QED BY <2>6, <2>8, <3>1, <3>2, <3>3, Zenon
  <2> QED BY <1>1, <2>2, <2>9, <2>10 DEF KnownKinds
<1>2. ScanInv => ReferenceAgrees
  BY <1>1 DEF ReferenceAgrees, Spans
<1> QED BY <1>2, BucketsBeforePoints, PTL

-----------------------------------------------------------------------------
(* First and last.                                                         *)

(* Two lists, one later than the other. *)
LEMMA AscendingConcat ==
    ASSUME NEW A, NEW u \in Seq(A), NEW v \in Seq(A), Ascending(u), Ascending(v),
           \A i \in 1..Len(u), j \in 1..Len(v) : \A a \in u[i], b \in v[j] : a.at < b.at
    PROVE  Ascending(u \o v)
<1> DEFINE w == u \o v
           m == Len(u)
           n == Len(v)
<1>1. /\ m \in Nat /\ n \in Nat /\ Len(w) = m + n
      /\ \A i \in 1..m : w[i] = u[i]
      /\ \A i \in (m + 1)..(m + n) : w[i] = v[i - m]
  OBVIOUS
<1>2. \A i, j \in 1..m : i < j => \A a \in u[i], b \in u[j] : a.at < b.at
  BY DEF Ascending
<1>3. \A i, j \in 1..n : i < j => \A a \in v[i], b \in v[j] : a.at < b.at
  BY DEF Ascending
<1>4. \A i \in 1..m, j \in 1..n : \A a \in u[i], b \in v[j] : a.at < b.at
  OBVIOUS
<1> HIDE DEF w, m, n
<1>5. ASSUME NEW i \in 1..Len(w), NEW j \in 1..Len(w), i < j, NEW a \in w[i], NEW b \in w[j]
      PROVE  a.at < b.at
  <2>1. CASE j <= m
    <3>1. i \in 1..m /\ j \in 1..m
      BY <1>1, <1>5, <2>1
    <3>2. a \in u[i] /\ b \in u[j]
      BY <1>1, <1>5, <3>1
    <3> QED BY <1>2, <1>5, <3>1, <3>2
  <2>2. CASE i <= m /\ j > m
    <3>1. i \in 1..m /\ j \in (m + 1)..(m + n) /\ j - m \in 1..n
      BY <1>1, <1>5, <2>2
    <3>2. a \in u[i] /\ b \in v[j - m]
      BY <1>1, <1>5, <3>1
    <3> QED BY <1>4, <3>1, <3>2
  <2>3. CASE i > m
    <3>1. /\ i \in (m + 1)..(m + n) /\ j \in (m + 1)..(m + n)
          /\ i - m \in 1..n /\ j - m \in 1..n /\ i - m < j - m
      BY <1>1, <1>5, <2>3
    <3>2. a \in v[i - m] /\ b \in v[j - m]
      BY <1>1, <1>5, <3>1
    <3> QED BY <1>3, <3>1, <3>2
  <2> QED BY <1>1, <2>1, <2>2, <2>3
<1> QED BY <1>5 DEF Ascending, w

(* Items in the order of their operations, each in the order of its own. *)
Chrono(q) ==
    /\ \A i \in 1..Len(q) : Ascending(q[i].parts)
    /\ \A i, j \in 1..Len(q) : i < j =>
          \A a \in UNION ToSet(q[i].parts), b \in UNION ToSet(q[j].parts) : a.at < b.at

(* The parts of what an interval has of such items are in order. *)
LEMMA ChronoParts ==
    ASSUME NEW from, NEW to
    PROVE  \A q \in Seq(BucketItem) : Chrono(q) => Ascending(PartsOf(Within(q, from, to)))
<1> DEFINE A == SUBSET Op
           w(q) == PartsOf(Within(q, from, to))
           Found(u, q) == \A n \in 1..Len(u) : \E i \in 1..Len(q) : u[n] \in ToSet(q[i].parts)
           S == {q \in Seq(BucketItem) : Chrono(q) => Ascending(w(q)) /\ Found(w(q), q)}
<1>1. /\ PartsOf(<<>>) = <<>>
      /\ \A q \in Seq(BucketItem) : PartsOf(q) \in Seq(A)
      /\ \A q \in Seq(BucketItem), y \in BucketItem : PartsOf(Append(q, y)) = PartsOf(q) \o y.parts
  BY PartsOfLists
<1>2. /\ Within(<<>>, from, to) = <<>>
      /\ \A q \in Seq(BucketItem) : Within(q, from, to) \in Seq(BucketItem)
      /\ \A q \in Seq(BucketItem), y \in BucketItem :
            Within(Append(q, y), from, to) =
               IF from <= y.at /\ y.at <= to THEN Append(Within(q, from, to), y) ELSE Within(q, from, to)
  BY WithinLists
<1>3. \A y \in BucketItem : y.parts \in Seq(A)
  BY ItemTimes
<1> HIDE DEF A
<1>4. /\ w(<<>>) = <<>>
      /\ \A q \in Seq(BucketItem) : w(q) \in Seq(A)
  BY <1>1, <1>2
<1>5. ASSUME NEW q \in Seq(BucketItem), NEW y \in BucketItem
      PROVE  w(Append(q, y)) = w(q) \/ w(Append(q, y)) = w(q) \o y.parts
  <2> DEFINE r == Within(q, from, to)
  <2>1. r \in Seq(BucketItem) /\ (Within(Append(q, y), from, to) = Append(r, y) \/ Within(Append(q, y), from, to) = r)
    BY <1>2
  <2> HIDE DEF r
  <2>2. PartsOf(Append(r, y)) = PartsOf(r) \o y.parts
    BY <1>1, <2>1
  <2> QED BY <2>1, <2>2, Zenon DEF r
<1> HIDE DEF w
<1>6. <<>> \in S
  <2>1. Ascending(<<>>) /\ Found(<<>>, <<>>) /\ <<>> \in Seq(BucketItem)
    BY DEF Ascending
  <2> HIDE DEF Found
  <2> QED BY <1>4, <2>1
<1>7. \A q \in Seq(BucketItem), y \in BucketItem : q \in S => Append(q, y) \in S
  <2>1. ASSUME NEW q \in Seq(BucketItem), NEW y \in BucketItem, q \in S, Chrono(Append(q, y))
        PROVE  Ascending(w(Append(q, y))) /\ Found(w(Append(q, y)), Append(q, y))
    <3> DEFINE e == Append(q, y)
               l == Len(q)
               u == w(q)
               v == y.parts
    <3>1. /\ l \in Nat /\ Len(e) = l + 1 /\ e[l + 1] = y /\ \A i \in 1..l : e[i] = q[i]
          /\ l + 1 \in 1..Len(e) /\ \A i \in 1..l : i \in 1..Len(e) /\ i < l + 1
      <4>1. l \in Nat /\ Len(e) = l + 1 /\ e[l + 1] = y /\ \A i \in 1..l : e[i] = q[i]
        OBVIOUS
      <4> HIDE DEF l, e
      <4> QED BY <4>1
    <3>2. u \in Seq(A) /\ v \in Seq(A) /\ (w(e) = u \/ w(e) = u \o v)
      BY <1>3, <1>4, <1>5
    <3>3. Chrono(e)
      BY <2>1
    <3> HIDE DEF e, l
    <3>4. /\ \A i \in 1..Len(e) : Ascending(e[i].parts)
          /\ \A i, j \in 1..Len(e) : i < j =>
                \A a \in UNION ToSet(e[i].parts), b \in UNION ToSet(e[j].parts) : a.at < b.at
      BY <3>3 DEF Chrono
    <3>5. /\ \A i \in 1..l : Ascending(q[i].parts)
          /\ \A i, j \in 1..l : i < j =>
                \A a \in UNION ToSet(q[i].parts), b \in UNION ToSet(q[j].parts) : a.at < b.at
      BY <3>1, <3>4
    <3>6. Chrono(q)
      BY <3>5 DEF Chrono, l
    <3>7. Ascending(u) /\ Found(u, q)
      BY <2>1, <3>6
    <3>8. Ascending(v)
      BY <3>1, <3>4
    <3>9. \A i \in 1..l : \A a \in UNION ToSet(q[i].parts), b \in UNION ToSet(v) : a.at < b.at
      BY <3>1, <3>4
    <3>10. Found(u, e)
      BY <3>1, <3>7 DEF l
    <3> HIDE DEF u, v
    <3>11. ASSUME NEW n \in 1..Len(u), NEW k \in 1..Len(v), NEW a \in u[n], NEW b \in v[k]
           PROVE  a.at < b.at
      <4>1. PICK i \in 1..l : u[n] \in ToSet(q[i].parts)
        BY <3>7 DEF l
      <4>2. a \in UNION ToSet(q[i].parts)
        BY <4>1, <3>11
      <4>3. b \in UNION ToSet(v)
        <5>1. v[k] \in ToSet(v)
          BY <3>2 DEF ToSet
        <5> QED BY <3>11, <5>1
      <4> QED BY <3>9, <4>1, <4>2, <4>3
    <3>12. Ascending(u \o v)
      BY <3>2, <3>7, <3>8, <3>11, AscendingConcat
    <3>13. Found(u \o v, e)
      <4> DEFINE x == u \o v
      <4>1. /\ Len(u) \in Nat /\ Len(v) \in Nat /\ Len(x) = Len(u) + Len(v)
            /\ \A n \in 1..Len(u) : x[n] = u[n]
            /\ \A n \in (Len(u) + 1)..Len(x) : x[n] = v[n - Len(u)] /\ n - Len(u) \in 1..Len(v)
        BY <3>2
      <4>2. \A k \in 1..Len(v) : v[k] \in ToSet(e[l + 1].parts)
        BY <3>1, <3>2 DEF v, ToSet
      <4> HIDE DEF x
      <4>3. ASSUME NEW n \in 1..Len(x) PROVE \E i \in 1..Len(e) : x[n] \in ToSet(e[i].parts)
        <5>1. CASE n <= Len(u)
          <6>1. n \in 1..Len(u) /\ x[n] = u[n]
            BY <4>1, <5>1
          <6> QED BY <3>10, <6>1
        <5>2. CASE n > Len(u)
          <6>1. n \in (Len(u) + 1)..Len(x)
            BY <4>1, <5>2
          <6>2. x[n] \in ToSet(e[l + 1].parts)
            BY <4>1, <4>2, <6>1
          <6> QED BY <3>1, <6>2
        <5> QED BY <4>1, <5>1, <5>2
      <4> QED BY <4>3 DEF x
    <3> HIDE DEF Found
    <3> QED BY <3>2, <3>7, <3>10, <3>12, <3>13, Zenon DEF e
  <2>2. \A q \in Seq(BucketItem), y \in BucketItem : Append(q, y) \in Seq(BucketItem)
    OBVIOUS
  <2> HIDE DEF Found
  <2> QED BY <2>1, <2>2
<1>8. \A q \in Seq(BucketItem) : q \in S
  <2> HIDE DEF S
  <2> QED BY <1>6, <1>7, ListInduction
<1> QED BY <1>8 DEF w

(* Items of two lists, the first before the second. *)
LEMMA ChronoConcat ==
    ASSUME NEW p \in Seq(BucketItem), NEW r \in Seq(BucketItem), Chrono(p), Chrono(r),
           \A i \in 1..Len(p), j \in 1..Len(r) :
              \A a \in UNION ToSet(p[i].parts), b \in UNION ToSet(r[j].parts) : a.at < b.at
    PROVE  Chrono(p \o r)
<1> DEFINE w == p \o r
           m == Len(p)
           n == Len(r)
           In(y) == UNION ToSet(y.parts)
<1>1. /\ m \in Nat /\ n \in Nat /\ Len(w) = m + n
      /\ \A i \in 1..m : w[i] = p[i]
      /\ \A i \in (m + 1)..(m + n) : w[i] = r[i - m]
  OBVIOUS
<1>2. /\ \A i \in 1..m : Ascending(p[i].parts)
      /\ \A i, j \in 1..m : i < j => \A a \in In(p[i]), b \in In(p[j]) : a.at < b.at
  BY DEF Chrono
<1>3. /\ \A i \in 1..n : Ascending(r[i].parts)
      /\ \A i, j \in 1..n : i < j => \A a \in In(r[i]), b \in In(r[j]) : a.at < b.at
  BY DEF Chrono
<1>4. \A i \in 1..m, j \in 1..n : \A a \in In(p[i]), b \in In(r[j]) : a.at < b.at
  OBVIOUS
<1> HIDE DEF w, m, n, In
<1>5. ASSUME NEW i \in 1..Len(w), NEW j \in 1..Len(w), i < j, NEW a \in In(w[i]), NEW b \in In(w[j])
      PROVE  a.at < b.at
  <2>1. CASE j <= m
    <3>1. i \in 1..m /\ j \in 1..m
      BY <1>1, <1>5, <2>1
    <3>2. a \in In(p[i]) /\ b \in In(p[j])
      BY <1>1, <1>5, <3>1
    <3> QED BY <1>2, <1>5, <3>1, <3>2
  <2>2. CASE i <= m /\ j > m
    <3>1. i \in 1..m /\ j \in (m + 1)..(m + n) /\ j - m \in 1..n
      BY <1>1, <1>5, <2>2
    <3>2. a \in In(p[i]) /\ b \in In(r[j - m])
      BY <1>1, <1>5, <3>1
    <3> QED BY <1>4, <3>1, <3>2
  <2>3. CASE i > m
    <3>1. /\ i \in (m + 1)..(m + n) /\ j \in (m + 1)..(m + n)
          /\ i - m \in 1..n /\ j - m \in 1..n /\ i - m < j - m
      BY <1>1, <1>5, <2>3
    <3>2. a \in In(r[i - m]) /\ b \in In(r[j - m])
      BY <1>1, <1>5, <3>1
    <3> QED BY <1>3, <3>1, <3>2
  <2> QED BY <1>1, <2>1, <2>2, <2>3
<1>6. ASSUME NEW i \in 1..Len(w) PROVE Ascending(w[i].parts)
  <2>1. CASE i <= m
    BY <1>1, <1>2, <2>1
  <2>2. CASE i > m
    <3>1. i \in (m + 1)..(m + n) /\ i - m \in 1..n
      BY <1>1, <2>2
    <3> QED BY <1>1, <1>3, <3>1
  <2> QED BY <1>1, <2>1, <2>2
<1> QED BY <1>5, <1>6 DEF Chrono, w, In

(* The buckets of a series, in the order of their operations. *)
LEMMA BucketsChrono ==
    ASSUME NEW bs \in Seq(BucketItem), Rising(bs), BucketsAtHome(bs), BucketsSorted(bs)
    PROVE  Chrono(bs)
<1>1. ASSUME NEW i \in 1..Len(bs), NEW j \in 1..Len(bs), i < j,
             NEW a \in UNION ToSet(bs[i].parts), NEW b \in UNION ToSet(bs[j].parts)
      PROVE  a.at < b.at
  <2>1. BucketOf(a.at, Span) = bs[i].at /\ BucketOf(b.at, Span) = bs[j].at
    BY DEF BucketsAtHome, HomeOf
  <2>2. bs[i].at < bs[j].at
    BY <1>1 DEF Rising
  <2>3. bs[i] \in BucketItem /\ bs[j] \in BucketItem
    OBVIOUS
  <2>4. a \in Op /\ b \in Op
    <3>1. bs[i].parts \in Seq(SUBSET Op) /\ bs[j].parts \in Seq(SUBSET Op)
      BY <2>3, ItemTimes
    <3> QED BY <3>1 DEF ToSet
  <2>5. a.at \in WordSet /\ a.at \in Nat /\ b.at \in WordSet /\ b.at \in Nat
    BY <2>4, ItemOf, ItemTimes
  <2>6. bs[i].at \in Nat /\ bs[j].at \in Nat
    BY <2>3, ItemTimes
  <2>7. b.at <= a.at => BucketOf(b.at, Span) <= BucketOf(a.at, Span)
    <3>1. Span \in Spans
      BY DEF Spans
    <3> QED BY <2>5, <3>1, GroupsInOrder
  <2> DEFINE t == a.at
             u == b.at
             v == bs[i].at
             z == bs[j].at
  <2>8. /\ t \in Nat /\ u \in Nat /\ v \in Nat /\ z \in Nat /\ v < z
        /\ u <= t => z <= v
    BY <2>1, <2>2, <2>5, <2>6, <2>7
  <2> HIDE DEF t, u, v, z
  <2>9. t < u
    BY <2>8
  <2> QED BY <2>9 DEF t, u
<1> QED BY <1>1 DEF Chrono, BucketsSorted

(* Samples, each of a second of its own. *)
LEMMA SamplesChrono ==
    ASSUME NEW ops \in Seq(Op), Increasing(Times(ops))
    PROVE  Chrono(RawItems(ops))
<1> DEFINE W == RawItems(ops)
           R == Len(ops)
<1>1. Len(W) = R /\ R \in Nat /\ \A i \in 1..R : W[i] = Item(ops[i]) /\ ops[i] \in Op
  <2>1. Len(RawItems(ops)) = Len(ops)
    BY RawItemsList
  <2> QED BY <2>1 DEF RawItems
<1>2. \A i, j \in 1..R : i < j => ops[i].at < ops[j].at
  <2> DEFINE t == Times(ops)
  <2>1. t \in Seq(Nat) /\ Len(t) = R /\ \A i \in 1..R : t[i] = ops[i].at
    BY TimesOfOps DEF Times
  <2> HIDE DEF t
  <2>2. \A i, j \in 1..Len(t) : i < j => t[i] < t[j]
    <3>1. Increasing(t)
      BY DEF t
    <3> QED BY <2>1, <3>1, IncreasingPairs
  <2> QED BY <2>1, <2>2
<1> HIDE DEF W, R
<1>3. ASSUME NEW i \in 1..R
      PROVE  W[i].parts = <<{ops[i]}>> /\ UNION ToSet(W[i].parts) = {ops[i]} /\ Ascending(W[i].parts)
  <2>1. W[i].parts = <<{ops[i]}>>
    BY <1>1, ItemOf
  <2>2. ToSet(<<{ops[i]}>>) = {{ops[i]}}
    BY OneElement
  <2>3. Ascending(<<{ops[i]}>>)
    BY DEF Ascending
  <2> QED BY <2>1, <2>2, <2>3
<1>4. \A i \in 1..Len(W) : Ascending(W[i].parts)
  BY <1>1, <1>3
<1>5. ASSUME NEW i \in 1..Len(W), NEW j \in 1..Len(W), i < j,
             NEW a \in UNION ToSet(W[i].parts), NEW b \in UNION ToSet(W[j].parts)
      PROVE  a.at < b.at
  <2>1. i \in 1..R /\ j \in 1..R
    BY <1>1
  <2>2. a = ops[i] /\ b = ops[j]
    BY <1>3, <1>5, <2>1
  <2> QED BY <1>2, <1>5, <2>1, <2>2
<1> QED BY <1>4, <1>5 DEF Chrono, W

(* Without late writes the blocks of a series of samples are in order. *)
LEMMA StoredChrono ==
    ASSUME ScanInv, ~late, kind = "sample"
    PROVE  AllItems(stored) \in Seq(BucketItem) /\ Chrono(AllItems(stored))
<1> DEFINE bs == Content.buckets
           rs == Content.raw
           W == RawItems(rs)
<1>1. /\ bs \in Seq(BucketItem) /\ Rising(bs) /\ rs \in Seq(Op) /\ Increasing(Times(rs))
      /\ BucketsAtHome(bs) /\ BucketsSorted(bs)
      /\ horizon \in Nat /\ stored \in Seq(Spanning)
      /\ \A o \in Folded : o.at < horizon
      /\ \A o \in Raw : o.at >= horizon
      /\ AllItems(stored) = bs \o W
  BY StoredSpans DEF ScanInv, IInv, BytesInv, RawList, LaidOut, Content
<1>2. W \in Seq(BucketItem) /\ Len(W) = Len(rs) /\ \A j \in 1..Len(rs) : W[j] = Item(rs[j])
  <2> HIDE DEF rs
  <2>1. RawItems(rs) \in Seq(BucketItem) /\ Len(RawItems(rs)) = Len(rs)
    BY <1>1, RawItemsList
  <2> QED BY <2>1 DEF RawItems
<1>3. Chrono(bs)
  <2> HIDE DEF bs
  <2> QED BY <1>1, BucketsChrono
<1>4. Chrono(W)
  <2> HIDE DEF rs
  <2> QED BY <1>1, SamplesChrono
<1>5. ASSUME NEW i \in 1..Len(bs), NEW j \in 1..Len(W),
             NEW a \in UNION ToSet(bs[i].parts), NEW b \in UNION ToSet(W[j].parts)
      PROVE  a.at < b.at
  <2>1. bs[i] \in BucketItem /\ bs[i] \in ToSet(bs) /\ rs[j] \in Op /\ rs[j] \in ToSet(rs) /\ W[j] = Item(rs[j])
    <3>1. j \in 1..Len(rs)
      BY <1>2
    <3> HIDE DEF bs, rs, W
    <3> QED BY <1>1, <1>2, <3>1 DEF ToSet
  <2>2. a \in Folded
    BY <2>1 DEF Folded
  <2>3. b = rs[j]
    <3>1. W[j].parts = <<{rs[j]}>>
      BY <2>1, ItemOf
    <3>2. ToSet(<<{rs[j]}>>) = {{rs[j]}}
      BY OneElement
    <3> HIDE DEF rs, W
    <3> QED BY <3>1, <3>2
  <2>4. a \in Op
    <3>1. bs[i].parts \in Seq(SUBSET Op)
      BY <2>1, ItemTimes
    <3> QED BY <3>1 DEF ToSet
  <2>5. a.at \in Nat /\ b.at \in Nat
    BY <2>1, <2>3, <2>4, ItemOf
  <2>6. a.at < horizon /\ b.at >= horizon
    BY <1>1, <2>1, <2>2, <2>3 DEF Raw
  <2> DEFINE t == a.at
             u == b.at
  <2>7. t \in Nat /\ u \in Nat /\ t < horizon /\ u >= horizon
    BY <2>5, <2>6
  <2> HIDE DEF t, u
  <2>8. t < u
    BY <1>1, <2>7
  <2> QED BY <2>8 DEF t, u
<1> HIDE DEF bs, W
<1>6. Chrono(bs \o W)
  BY <1>1, <1>2, <1>3, <1>4, <1>5, ChronoConcat
<1>7. bs \o W \in Seq(BucketItem)
  BY <1>1, <1>2
<1> QED BY <1>1, <1>6, <1>7

(* Without seconds there are no operations, and nothing is stored. *)
LEMMA NothingStored ==
    ASSUME ScanInv, Time = {}
    PROVE  stored = <<>>
<1>1. Op = {}
  BY DEF Op
<1>2. /\ stored \in Seq(Encoded) /\ LaidOut(stored)
      /\ Content.raw \in Seq(Op) /\ Content.buckets \in Seq(BucketItem)
      /\ BucketsAtHome(Content.buckets)
  BY StoredSpans DEF ScanInv, IInv, BytesInv
<1>3. Len(Content.raw) = 0
  <2> DEFINE rs == Content.raw
  <2> HIDE DEF rs
  <2>1. rs \in Seq(Op)
    BY <1>2 DEF rs
  <2>2. Len(rs) \in Nat /\ \A i \in 1..Len(rs) : rs[i] \in Op
    BY <2>1
  <2>3. Len(rs) = 0
    <3>1. Len(rs) # 0 => 1 \in 1..Len(rs)
      BY <2>2
    <3> QED BY <1>1, <2>2, <3>1
  <2> QED BY <2>3 DEF rs
<1>4. Len(Content.buckets) = 0
  <2> DEFINE bs == Content.buckets
  <2>1. \A i \in 1..Len(bs) : bs[i] \in BucketItem /\ HomeOf(bs[i].at, bs[i].parts)
    BY <1>2 DEF BucketsAtHome
  <2>2. ASSUME NEW i \in 1..Len(bs) PROVE FALSE
    <3>1. bs[i].parts \in Seq(SUBSET Op) /\ UNION ToSet(bs[i].parts) # {}
      BY <2>1, ItemTimes DEF HomeOf
    <3>2. PICK o : o \in UNION ToSet(bs[i].parts)
      BY <3>1
    <3>3. o \in Op
      BY <3>1, <3>2 DEF ToSet
    <3> QED BY <1>1, <3>3
  <2>3. Len(bs) \in Nat
    BY <1>2
  <2> HIDE DEF bs
  <2>4. Len(bs) # 0 => 1 \in 1..Len(bs)
    BY <2>3
  <2>5. Len(bs) = 0
    BY <2>2, <2>4
  <2> QED BY <2>5 DEF bs
<1>5. Len(AllItems(stored)) = 0
  <2> DEFINE bs == Content.buckets
             W == RawItems(Content.raw)
  <2>1. AllItems(stored) = bs \o W
    BY <1>2 DEF LaidOut, Content
  <2>2. bs \in Seq(BucketItem) /\ Len(bs) = 0 /\ W \in Seq(BucketItem) /\ Len(W) = 0
    BY <1>2, <1>3, <1>4, RawItemsList
  <2> HIDE DEF bs, W
  <2>3. Len(bs \o W) = 0
    BY <2>2
  <2> QED BY <2>1, <2>3, Zenon
<1>6. ASSUME stored # <<>> PROVE FALSE
  <2> DEFINE lists == [i \in 1..Len(stored) |-> Items(stored[i])]
  <2>1. Len(stored) \in Nat /\ 1 \in 1..Len(stored) /\ \A i \in 1..Len(stored) : stored[i] \in Encoded
    BY <1>2, <1>6
  <2>2. \A i \in 1..Len(stored) : Items(stored[i]) \in Seq(BucketItem)
    BY <2>1, SegmentItems
  <2>3. lists \in Seq(Seq(BucketItem)) /\ Len(lists) = Len(stored) /\ lists[1] = Items(stored[1])
    BY <2>1, <2>2
  <2>4. AllItems(stored) = FlattenSeq(lists)
    BY DEF AllItems
  <2> HIDE DEF lists
  <2>5. PICK x, y \in Seq(BucketItem) : FlattenSeq(lists) = (x \o lists[1]) \o y
    <3>1. \A k \in 1..Len(lists) :
             \E x, y \in Seq(BucketItem) : FlattenSeq(lists) = (x \o lists[k]) \o y
      BY <2>3, PieceOfFlatten
    <3> QED BY <2>1, <2>3, <3>1
  <2> DEFINE c == lists[1]
  <2>6. c \in Seq(BucketItem) /\ Len(c) # 0
    <3>1. PICK d : /\ d \in ChunksOver(Op) \/ d \in ChunksOver(BucketItem)
                   /\ d \in ChunksOver(Op) => stored[1] = Segment(d, FALSE)
                   /\ d \notin ChunksOver(Op) => stored[1] = Segment(d, TRUE)
      <4>1. stored[1] \in Encoded
        BY <2>1
      <4>2. \A d : d \notin ChunksOver(Op)
        <5>1. ASSUME NEW d, d \in ChunksOver(Op) PROVE FALSE
          <6>1. d \in Seq(Op) /\ Len(d) >= 1 /\ Len(d) \in Nat
            BY <5>1, SegmentsAssumption DEF ChunksOver
          <6>2. d[1] \in Op
            BY <6>1
          <6> QED BY <1>1, <6>2
        <5> QED BY <5>1
      <4> QED BY <4>1, <4>2 DEF Encoded
    <3>2. d \in ChunksOver(BucketItem) /\ stored[1] = Segment(d, TRUE)
      <4>1. d \notin ChunksOver(Op)
        <5>1. ASSUME d \in ChunksOver(Op) PROVE FALSE
          <6>1. d \in Seq(Op) /\ Len(d) >= 1 /\ Len(d) \in Nat
            BY <5>1, SegmentsAssumption DEF ChunksOver
          <6>2. d[1] \in Op
            BY <6>1
          <6> QED BY <1>1, <6>2
        <5> QED BY <5>1
      <4> QED BY <3>1, <4>1
    <3>3. stored[1].bucket /\ BucketsIn(stored[1]) = d
      BY <3>2, SegmentDecodes
    <3>4. Items(stored[1]) = d
      BY <2>1, <3>3, SegmentItems
    <3>5. d \in Seq(BucketItem) /\ Len(d) # 0
      BY <3>2, SegmentsAssumption DEF ChunksOver
    <3> QED BY <2>3, <3>4, <3>5
  <2> HIDE DEF c
  <2>7. Len((x \o c) \o y) = Len(x) + Len(c) + Len(y)
    BY <2>5, <2>6
  <2>8. Len(x) \in Nat /\ Len(c) \in Nat /\ Len(y) \in Nat
    BY <2>5, <2>6
  <2>9. Len((x \o c) \o y) = 0
    BY <1>5, <2>4, <2>5, Zenon DEF c
  <2> DEFINE a == Len(x)
             b == Len(c)
             e == Len(y)
  <2>10. a + b + e = 0 /\ b # 0 /\ a \in Nat /\ b \in Nat /\ e \in Nat
    BY <2>6, <2>7, <2>8, <2>9
  <2> HIDE DEF a, b, e
  <2> QED BY <2>10
<1> QED BY <1>6

(* A scan of nothing, whatever the interval. *)
LEMMA StreamOfNothing ==
    ASSUME NEW from, NEW to
    PROVE  Stream(<<>>, from, to) = <<>>
<1> DEFINE Next1(g, n) == IF n = 0 THEN <<>>
                          ELSE IF Hit(<<>>[n], from, to) THEN g[n - 1] \o Within(Items(<<>>[n]), from, to) ELSE g[n - 1]
           upto[n \in 0..Len(<<>>)] ==
               IF n = 0 THEN <<>>
               ELSE IF Hit(<<>>[n], from, to) THEN upto[n - 1] \o Within(Items(<<>>[n]), from, to) ELSE upto[n - 1]
           zero == [n \in 0..Len(<<>>) |-> <<>>]
<1>1. Len(<<>>) = 0 /\ 0..0 = {0}
  OBVIOUS
<1>2. \A n \in 0..Len(<<>>) : n = 0
  BY <1>1
<1>3. zero = [n \in 0..Len(<<>>) |-> 
               IF n = 0 THEN <<>>
               ELSE IF Hit(<<>>[n], from, to) THEN zero[n - 1] \o Within(Items(<<>>[n]), from, to) ELSE zero[n - 1]]
  BY <1>2
<1>4. upto = [n \in 0..Len(<<>>) |-> 
               IF n = 0 THEN <<>>
               ELSE IF Hit(<<>>[n], from, to) THEN upto[n - 1] \o Within(Items(<<>>[n]), from, to) ELSE upto[n - 1]]
  BY <1>3 DEF upto
<1>5. Stream(<<>>, from, to) = upto[Len(<<>>)]
  BY DEF Stream
<1> HIDE DEF upto
<1>6. upto[0] = <<>>
  BY <1>1, <1>4
<1> QED BY <1>1, <1>5, <1>6

(* Without late writes a scan of samples folds them in the order of their  *)
(* seconds, across buckets, segments and compactions, so that the first    *)
(* and the last of a group are what First and Last say.                    *)
THEOREM SamplesInOrder == Spec => []FirstAndLast
<1>1. ASSUME ScanInv, ~late, kind = "sample", NEW from, NEW to,
             Stream(stored, from, to) = Within(AllItems(stored), from, to)
      PROVE  Ascending(PartsOf(Scanned(kind, stored, from, to, Span, 0)))
  <2> DEFINE all == Stream(stored, from, to)
             items == AllItems(stored)
             y == Finished(Grouped(all, Span, 0), 0).out
  <2>1. items \in Seq(BucketItem) /\ Chrono(items)
    BY <1>1, StoredChrono
  <2>2. all = Within(items, from, to)
    BY <1>1
  <2>3. Span \in Spans /\ Span # 0
    BY SegmentsAssumption DEF Spans
  <2>4. Scanned(kind, stored, from, to, Span, 0) = y
    BY <1>1, <2>3 DEF Scanned, SampleRange
  <2> HIDE DEF all, items
  <2>5. Ascending(PartsOf(Within(items, from, to))) /\ Within(items, from, to) \in Seq(BucketItem)
    BY <2>1, ChronoParts, WithinLists
  <2>6. PartsOf(y) = PartsOf(all)
    BY <2>2, <2>3, <2>5, FoldKeepsParts
  <2> HIDE DEF y
  <2> QED BY <2>2, <2>4, <2>5, <2>6, Zenon
<1>2. ASSUME ScanInv, NEW to, Time # {} => to \in Nat
      PROVE  Stream(stored, 0, to) = Within(AllItems(stored), 0, to)
  <2>1. CASE Time = {}
    <3>1. stored = <<>>
      BY <1>2, <2>1, NothingStored
    <3>2. AllItems(<<>>) = <<>> /\ Within(<<>>, 0, to) = <<>> /\ Stream(<<>>, 0, to) = <<>>
      BY AllItemsAppend, WithinLists, StreamOfNothing
    <3> QED BY <3>1, <3>2
  <2>2. CASE Time # {}
    <3>1. stored \in Seq(Spanning) /\ to \in Nat /\ 0 \in Nat
      BY <1>2, <2>2, StoredSpans DEF ScanInv, IInv
    <3> QED BY <3>1, StreamIsWithin
  <2> QED BY <2>1, <2>2
<1>3. ASSUME ScanInv, ~late, kind = "sample"
      PROVE  LET parts == PartsOf(Yielded(<<0, CHOOSE t \in Time : \A u \in Time : u <= t>>, Span))
             IN  \A n \in 2..Len(parts) : \A a \in parts[n - 1], b \in parts[n] : a.at < b.at
  <2> DEFINE to == CHOOSE t \in Time : \A u \in Time : u <= t
             parts == PartsOf(Scanned(kind, stored, 0, to, Span, 0))
  <2>1. Time # {} => to \in Nat
    <3>1. Time \in SUBSET WordSet
      BY WordAssumption DEF WordSet
    <3>2. Time # {} => \E t \in Time : \A u \in Time : u <= t
      BY <3>1, Greatest
    <3> QED BY <3>2, TimeAssumption
  <2> HIDE DEF to
  <2>2. Stream(stored, 0, to) = Within(AllItems(stored), 0, to)
    BY <1>2, <1>3, <2>1
  <2>3. Ascending(parts)
    BY <1>1, <1>3, <2>2
  <2>4. parts \in Seq(SUBSET Op)
    <3>1. Scanned(kind, stored, 0, to, Span, 0) \in Seq(BucketItem)
      <4> DEFINE q == Stream(stored, 0, to)
                 y == Finished(Grouped(q, Span, 0), 0).out
      <4>1. q \in Seq(BucketItem)
        <5>1. AllItems(stored) \in Seq(BucketItem)
          BY <1>3, StoredChrono
        <5> QED BY <2>2, <5>1, WithinLists
      <4>2. Span \in Spans /\ Span # 0
        BY SegmentsAssumption DEF Spans
      <4>3. Scanned(kind, stored, 0, to, Span, 0) = y
        BY <1>3, <4>2 DEF Scanned, SampleRange
      <4> HIDE DEF q
      <4>4. y \in Seq(BucketItem)
        BY <4>1, <4>2, FoldKeepsParts
      <4> QED BY <4>3, <4>4, Zenon
    <3> QED BY <3>1, PartsOfLists
  <2>5. Yielded(<<0, to>>, Span) = Scanned(kind, stored, 0, to, Span, 0)
    BY DEF Yielded
  <2> HIDE DEF parts
  <2>6. ASSUME NEW n \in 2..Len(parts), NEW a \in parts[n - 1], NEW b \in parts[n] PROVE a.at < b.at
    <3>1. Len(parts) \in Nat
      BY <2>4
    <3>2. n - 1 \in 1..Len(parts) /\ n \in 1..Len(parts) /\ n - 1 < n
      BY <3>1
    <3> QED BY <2>3, <2>6, <3>2 DEF Ascending
  <2>7. PartsOf(Yielded(<<0, to>>, Span)) = parts
    BY <2>5 DEF parts
  <2> QED BY <2>6, <2>7 DEF to
<1>4. ScanInv => FirstAndLast
  BY <1>3 DEF FirstAndLast
<1> QED BY <1>4, BucketsBeforePoints, PTL

=============================================================================
