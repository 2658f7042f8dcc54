-------------------------------- MODULE Sketch --------------------------------
(***************************************************************************)
(* The distributions of a sketch series (sketch_state.go, sketches.go):    *)
(* compaction folds observations into stored buckets of at most MaxBins    *)
(* bins; a read builds one sketch for a group of raw observations and      *)
(* buckets, exact while there are only raw ones, and answers quantiles.    *)
(*                                                                         *)
(* Bins grow by gamma = 2 instead of 1.02, which makes the promised        *)
(* relative error alpha = (gamma - 1) / (gamma + 1) a third instead of 1%. *)
(* Observations are multiples of a unit, a third of the bound of the       *)
(* smallest bin, so that bins and their values are integers too.           *)
(***************************************************************************)
EXTENDS Integers, SequencesExt

CONSTANTS Observation,  \* values added, in units
          MinKey,       \* the smallest bin ...
          MaxKey,       \* ... and the largest that is needed
          Bucket,       \* stored buckets of one query group
          MaxBins,      \* sketchMaxBins, 1024 in the code
          MaxFolded,    \* bound: observations folded into buckets
          MaxRead,      \* bound: raw observations one read takes in
          Nil

ASSUME SketchAssumption ==
    /\ Observation \subseteq Int /\ MaxBins \in Nat /\ MaxFolded \in Nat /\ MaxRead \in Nat
    /\ MinKey \in Int /\ MaxKey \in Int /\ MinKey <= MaxKey

(* The bytes of a stored sketch. *)
BinsCoded == Seq([key : Int, count : Nat])
SketchBytes == [count : Nat, sum : Int, min : Int, max : Int, zero : Nat,
                negative : BinsCoded, positive : BinsCoded]

ASSUME NilAssumption == Nil \notin SketchBytes

VARIABLES stored,   \* Bucket -> its bytes, or Nil
          folded,   \* history: Bucket -> the bag of observations in it
          view,     \* the sketch a read is building
          seen,     \* history: the bag of observations the view has taken in
          met       \* the buckets the read has merged

vars == <<stored, folded, view, seen, met>>

-----------------------------------------------------------------------------
(* Bins.  A bin of key k holds gamma^(k-1) < |x| <= gamma^k. *)
Powers[n \in 0..(MaxKey - MinKey)] == IF n = 0 THEN 3 ELSE 2 * Powers[n - 1]
Bound(k) == Powers[k - MinKey]                \* gamma^k, in units
Magnitude(x) == IF x < 0 THEN -x ELSE x

InBin(x, k) == Bound(k) < 2 * Magnitude(x) /\ Magnitude(x) <= Bound(k)

Key(x) == CHOOSE k \in MinKey..MaxKey : InBin(x, k)

(* The observations are within the range of the bins. *)
ASSUME KeyAssumption ==
    \A x \in Observation \ {0} : \E k \in MinKey..MaxKey : InBin(x, k)

(* sketchBinValue: 2 gamma^k / (gamma + 1). *)
BinValue(k) == (2 * Bound(k)) \div 3

(* sketchValue: statistics, the exact observations (none once it is        *)
(* approximate), and the bins, bags of keys.                               *)
NewSketch == [count |-> 0, sum |-> 0, min |-> 0, max |-> 0, exact |-> <<>>,
              zero |-> 0, negative |-> EmptyBag, positive |-> EmptyBag]

BinsOf(v) == Cardinality(DOMAIN v.negative) + Cardinality(DOMAIN v.positive)

AddStats(v, x) ==
    [v EXCEPT !.count = @ + 1,
              !.sum = @ + x,
              !.min = IF v.count = 0 \/ x < @ THEN x ELSE @,
              !.max = IF v.count = 0 \/ x > @ THEN x ELSE @]

AddBin(v, x) ==
    CASE x = 0 -> [v EXCEPT !.zero = @ + 1]
      [] x < 0 -> [v EXCEPT !.negative = @ (+) SetToBag({Key(x)})]
      [] x > 0 -> [v EXCEPT !.positive = @ (+) SetToBag({Key(x)})]

Without(bins, k) == Restrict(bins, DOMAIN bins \ {k})

NegativeIntoZero(v, k) ==
    [v EXCEPT !.zero = @ + v.negative[k], !.negative = Without(@, k)]

PositiveIntoZero(v, k) ==
    [v EXCEPT !.zero = @ + v.positive[k], !.positive = Without(@, k)]

(* Deviation: of two bins of one size the positive goes first on one path. *)
CollapseOnePositive(v) ==
    LET k == Min(DOMAIN v.negative \cup DOMAIN v.positive)
    IN  IF k \notin DOMAIN v.negative \/ (k \in DOMAIN v.positive /\ v.zero = 0)
        THEN PositiveIntoZero(v, k)
        ELSE NegativeIntoZero(v, k)

(* The smallest bin goes to zero; of two of one size, the negative. *)
CollapseOne(v) ==
    LET k == Min(DOMAIN v.negative \cup DOMAIN v.positive)
    IN  IF k \in DOMAIN v.negative THEN NegativeIntoZero(v, k) ELSE PositiveIntoZero(v, k)

(* sketchValue.collapse: until MaxBins are left. *)
Collapse(v) ==
    LET left[n \in 0..BinsOf(v)] ==
            IF n = 0 THEN v
            ELSE IF BinsOf(left[n - 1]) > MaxBins THEN CollapseOne(left[n - 1]) ELSE left[n - 1]
    IN  left[BinsOf(v)]

(* Deviation: the limit is left to the merges.                             *)
AddApproxUncollapsed(v, x) == AddBin(AddStats(v, x), x)

AddApprox(v, x) == Collapse(AddBin(AddStats(v, x), x))

AddBins(v, xs) == FoldLeft(AddBin, v, xs)
AddAllApprox(v, xs) == FoldLeft(AddApprox, v, xs)

AddExact(v, x) ==
    IF v.count > 0 /\ v.exact = <<>> THEN AddApprox(v, x)
    ELSE [AddStats(v, x) EXCEPT !.exact = Append(@, x)]

(* sketchValue.approximate: the exact observations go to bins. *)
Approximate(v) ==
    IF v.exact = <<>> THEN v
    ELSE Collapse(AddBins([v EXCEPT !.exact = <<>>], v.exact))

-----------------------------------------------------------------------------
(* Bytes.  Only approximate sketches are stored: their bins by key, the    *)
(* first key zigzag-coded and the others as differences, with the counts.  *)
ZigZag(k) == IF k >= 0 THEN 2 * k ELSE -2 * k - 1
UnZigZag(w) == IF w % 2 = 0 THEN w \div 2 ELSE -(w \div 2) - 1

(* sortedIntKeys. *)
SortedKeys(keys) == CHOOSE q \in SetToSeqs(keys) : \A i \in 2..Len(q) : q[i - 1] < q[i]

EncodeBins(bins) ==
    LET keys == SortedKeys(DOMAIN bins)
    IN  [i \in DOMAIN keys |->
            [key |-> IF i = 1 THEN ZigZag(keys[1]) ELSE keys[i] - keys[i - 1],
             count |-> bins[keys[i]]]]

DecodeBins(coded) ==
    LET key[i \in DOMAIN coded] ==
            IF i = 1 THEN UnZigZag(coded[1].key) ELSE key[i - 1] + coded[i].key
        at(k) == CHOOSE i \in DOMAIN coded : key[i] = k
    IN  [k \in {key[i] : i \in DOMAIN coded} |-> coded[at(k)].count]

(* sketchValue.encodeApprox. *)
EncodeApprox(v) ==
    LET w == Approximate(v)
    IN  [count |-> w.count, sum |-> w.sum, min |-> w.min, max |-> w.max, zero |-> w.zero,
         negative |-> EncodeBins(w.negative), positive |-> EncodeBins(w.positive)]

(* decodeSketch, before its checks ... *)
Payload(bytes) ==
    [count |-> bytes.count, sum |-> bytes.sum, min |-> bytes.min, max |-> bytes.max,
     exact |-> <<>>, zero |-> bytes.zero,
     negative |-> DecodeBins(bytes.negative), positive |-> DecodeBins(bytes.positive)]

(* ... and the checks: no bin is empty (sketchBinsEach), the number of     *)
(* bins, and every observation counted.                                    *)
Decodes(bytes) ==
    LET v == Payload(bytes)
    IN  /\ \A bins \in {v.negative, v.positive} : 0 \notin Range(bins)
        /\ BinsOf(v) <= MaxBins
        /\ v.count = v.zero + SumFunction(v.negative) + SumFunction(v.positive)

(* Deviation: exact observations are forgotten instead of binned.          *)
MergeBytesOverExact(v, bytes) ==
    LET o == Payload(bytes)
    IN  Collapse([count |-> v.count + o.count, sum |-> v.sum + o.sum,
                  min |-> IF v.count = 0 \/ o.min < v.min THEN o.min ELSE v.min,
                  max |-> IF v.count = 0 \/ o.max > v.max THEN o.max ELSE v.max,
                  exact |-> <<>>, zero |-> v.zero + o.zero,
                  negative |-> v.negative (+) o.negative, positive |-> v.positive (+) o.positive])

(* sketchValue.mergeBytes of a stored sketch; an error leaves v as it is. *)
MergeBytes(v, bytes) ==
    LET w == Approximate(v)
        o == Payload(bytes)
    IN  IF ~Decodes(bytes) \/ o.count = 0 THEN v
        ELSE Collapse([count |-> w.count + o.count, sum |-> w.sum + o.sum,
                       min |-> IF w.count = 0 \/ o.min < w.min THEN o.min ELSE w.min,
                       max |-> IF w.count = 0 \/ o.max > w.max THEN o.max ELSE w.max,
                       exact |-> <<>>, zero |-> w.zero + o.zero,
                       negative |-> w.negative (+) o.negative,
                       positive |-> w.positive (+) o.positive])

-----------------------------------------------------------------------------
(* Sketch.Quantile, by nearest rank in 1..count. *)
UpTo(bins, k) == SumFunctionOnSet(bins, {j \in DOMAIN bins : j <= k})
KeyAt(bins, n) ==
    CHOOSE k \in DOMAIN bins : n <= UpTo(bins, k) /\ UpTo(bins, k) - bins[k] < n

(* Deviation: the rank from the other end is one short.                    *)
ApproximateQuantileShort(v, rank) ==
    LET below == SumFunction(v.negative)
    IN  IF rank <= below
        THEN -BinValue(KeyAt(v.negative, IF rank = below THEN 1 ELSE below - rank))
        ELSE IF rank <= below + v.zero THEN 0
        ELSE BinValue(KeyAt(v.positive, rank - below - v.zero))

(* approximateQuantile: negative bins, walked from zero down, then zero,   *)
(* then positive bins.                                                     *)
ApproximateQuantile(v, rank) ==
    LET below == SumFunction(v.negative)
    IN  IF rank <= below THEN -BinValue(KeyAt(v.negative, below - rank + 1))
        ELSE IF rank <= below + v.zero THEN 0
        ELSE BinValue(KeyAt(v.positive, rank - below - v.zero))

Sorted(xs) ==
    CHOOSE q \in [1..Len(xs) -> Range(xs)] :
        ToBag(q) = ToBag(xs) /\ \A i \in 2..Len(xs) : q[i - 1] <= q[i]

(* Exact sketches are sorted (encode); the answer is clamped to [min, max]. *)
Quantile(v, rank) ==
    LET x == IF v.exact # <<>> THEN Sorted(v.exact)[rank] ELSE ApproximateQuantile(v, rank)
    IN  IF x < v.min THEN v.min ELSE IF x > v.max THEN v.max ELSE x

-----------------------------------------------------------------------------
Init ==
    /\ stored = [b \in Bucket |-> Nil]
    /\ folded = [b \in Bucket |-> EmptyBag]
    /\ view = NewSketch
    /\ seen = EmptyBag
    /\ met = {}

Decoded(b) == IF stored[b] = Nil THEN NewSketch ELSE MergeBytes(NewSketch, stored[b])

(* sketchData.Compact with raw observations for one bucket: every stored   *)
(* bucket is decoded and encoded again.                                    *)
Compact(b, xs) ==
    /\ SumFunction([c \in Bucket |-> SumFunction(folded[c])]) + Len(xs) <= MaxFolded
    /\ stored' = [c \in Bucket |->
                    IF c = b THEN EncodeApprox(AddAllApprox(Decoded(c), xs))
                    ELSE IF stored[c] = Nil THEN Nil
                    ELSE EncodeApprox(Decoded(c))]
    /\ folded' = [folded EXCEPT ![b] = @ (+) ToBag(xs)]
    /\ view' = NewSketch /\ seen' = EmptyBag /\ met' = {}

(* The next read; one works on its own snapshot, so never across a Compact. *)
BeginRead ==
    /\ view' = NewSketch /\ seen' = EmptyBag /\ met' = {}
    /\ UNCHANGED <<stored, folded>>

(* sketchMixedRange, one group: a raw observation of the interval ... *)
ReadRaw(x) ==
    /\ SumFunction(seen) < MaxRead + SumFunction([c \in met |-> SumFunction(folded[c])])
    /\ view' = AddExact(view, x)
    /\ seen' = seen (+) SetToBag({x})
    /\ UNCHANGED <<stored, folded, met>>

(* ... or a stored bucket, in the order of the blocks. *)
ReadBucket(b) ==
    /\ b \notin met
    /\ stored[b] # Nil
    /\ view' = MergeBytes(view, stored[b])
    /\ seen' = seen (+) folded[b]
    /\ met' = met \cup {b}
    /\ UNCHANGED <<stored, folded>>

Next ==
    \/ \E b \in Bucket, n \in 1..2 : \E xs \in [1..n -> Observation] : Compact(b, xs)
    \/ BeginRead
    \/ \E x \in Observation : ReadRaw(x)
    \/ \E b \in Bucket : ReadBucket(b)

Spec == Init /\ [][Next]_vars

-----------------------------------------------------------------------------
(* Every bucket written passes decodeSketch's checks: Compact and Merge    *)
(* ignore its error, so a rejected bucket would vanish without a trace.    *)
StoredDecodes == \A b \in Bucket : stored[b] # Nil => Decodes(stored[b])

Signed(x) == [size |-> Key(x), sign |-> IF x < 0 THEN 0 ELSE 1]
Larger(a, b) == a.size > b.size \/ (a.size = b.size /\ a.sign > b.sign)

Largest(bins) == {b \in bins : Cardinality({c \in bins : Larger(c, b)}) < MaxBins}

(* The bins a sketch of these observations keeps: the MaxBins largest. *)
Kept(bag) == Largest({Signed(x) : x \in DOMAIN bag \ {0}})

CountOf(bag, P(_)) == SumFunctionOnSet(bag, {x \in DOMAIN bag : P(x)})

(* v is the one approximate sketch of a bag of observations. *)
IsSketchOf(v, bag) ==
    /\ v.count = SumFunction(bag)
    /\ v.sum = SumFunction([x \in DOMAIN bag |-> x * bag[x]])
    /\ bag # EmptyBag => v.min = Min(DOMAIN bag) /\ v.max = Max(DOMAIN bag)
    /\ DOMAIN v.negative = {b.size : b \in {c \in Kept(bag) : c.sign = 0}}
    /\ DOMAIN v.positive = {b.size : b \in {c \in Kept(bag) : c.sign = 1}}
    /\ \A k \in DOMAIN v.negative : v.negative[k] = CountOf(bag, LAMBDA x : x < 0 /\ Key(x) = k)
    /\ \A k \in DOMAIN v.positive : v.positive[k] = CountOf(bag, LAMBDA x : x > 0 /\ Key(x) = k)
    /\ v.zero = CountOf(bag, LAMBDA x : x = 0 \/ Signed(x) \notin Kept(bag))

(* A stored bucket depends on the observations folded into it alone, not   *)
(* on their order or on how many compactions folded them, even after bins  *)
(* were collapsed.                                                         *)
BucketsCanonical ==
    \A b \in Bucket : stored[b] # Nil => IsSketchOf(Payload(stored[b]), folded[b])

(* So does a sketch read from raw observations and buckets, whatever the   *)
(* order of its blocks; while it is exact it holds the observations.       *)
ViewCanonical ==
    IF view.exact = <<>> THEN IsSketchOf(view, seen)
    ELSE ToBag(view.exact) = seen /\ IsSketchOf(Approximate(view), seen)

(* The rank-th smallest observation. *)
Ranked(bag, rank) ==
    CHOOSE x \in DOMAIN bag :
        /\ CountOf(bag, LAMBDA y : y < x) < rank
        /\ rank <= CountOf(bag, LAMBDA y : y <= x)

(* A quantile is within alpha of the exact nearest-rank one (sketchAlpha), *)
(* unless that observation was collapsed; then it is not further from zero.*)
QuantileAccurate ==
    \A rank \in 1..view.count :
        LET x == Ranked(seen, rank)
            q == Quantile(view, rank)
        IN  IF x = 0 \/ Signed(x) \in Kept(seen) \/ view.exact # <<>>
            THEN 3 * Magnitude(q - x) <= Magnitude(x)
            ELSE Magnitude(q) <= Magnitude(x)

=============================================================================
