--------------------------------- MODULE Scan ---------------------------------
(***************************************************************************)
(* The iterators over the bytes of a series: Values and Range of samples,  *)
(* counters and sketches (samples.go, counters.go, sketches.go, agg.go).   *)
(*                                                                         *)
(* An iterator walks the segments in the order they are stored and yields  *)
(* [at, parts]: the second and what the value is aggregated from, in the   *)
(* order the fold took it in.  Sum, Count, Min, Max, Mean, First and Last  *)
(* are functions of the parts.  A consumer of patience p > 0 leaves its    *)
(* loop at the p-th element (yield returns false); patience 0 never does.  *)
(***************************************************************************)
EXTENDS Segments

Item(op) == [at |-> op.at, parts |-> <<{op}>>]

(* The raw points and the buckets of a segment, as items to fold. *)
Items(seg) ==
    IF seg.bucket THEN DecodeBuckets(seg.data)
    ELSE LET ops == DecodeRaw(seg.data) IN [i \in DOMAIN ops |-> Item(ops[i])]

(* Deviation: the last second of a segment is taken to be excluded.        *)
HitBeforeEnd(seg, from, to) == ~ (seg.to <= from \/ seg.from > to)

(* A segment wholly before or after the interval is not decoded. *)
Hit(seg, from, to) == ~ (seg.to < from \/ seg.from > to)

(* The items of the interval, in the order of the list. *)
Within(items, from, to) ==
    LET upto[n \in 0..Len(items)] ==
            IF n = 0 THEN <<>>
            ELSE LET x == items[n]
                 IN  IF from <= x.at /\ x.at <= to THEN Append(upto[n - 1], x) ELSE upto[n - 1]
    IN  upto[Len(items)]

(* What a scan of some segments folds, in the order they are stored. *)
Stream(s, from, to) ==
    LET upto[n \in 0..Len(s)] ==
            IF n = 0 THEN <<>>
            ELSE IF Hit(s[n], from, to) THEN upto[n - 1] \o Within(Items(s[n]), from, to) ELSE upto[n - 1]
    IN  upto[Len(s)]

(* What the values of some items are aggregated from. *)
PartsOf(items) == FlattenSeq([i \in 1..Len(items) |-> items[i].parts])

-----------------------------------------------------------------------------
(* The state of an iterator: what it yielded, the group being folded (none *)
(* when parts is empty), and whether the last yield returned false.        *)
Begin == [out |-> <<>>, at |-> 0, parts |-> <<>>, refused |-> FALSE]

Yield(it, patience) ==
    [it EXCEPT !.out = Append(@, [at |-> it.at, parts |-> it.parts]),
               !.refused = Len(it.out) + 1 = patience]

(* The elements a consumer takes from a list yielded one by one. *)
Taken(list, patience) == IF patience \in 1..Len(list) THEN SubSeq(list, 1, patience) ELSE list

Cleared(it) == [it EXCEPT !.parts = <<>>]

(* fold.Add, fold.Merge. *)
Fold(it, x, k) == [it EXCEPT !.at = k, !.parts = @ \o x.parts]

(* One item of group k: a new group yields the one before. *)
Step(it, x, k, patience) ==
    IF it.refused THEN it
    ELSE IF it.parts = <<>> \/ k = it.at THEN Fold(it, x, k)
    ELSE LET y == Yield(it, patience) IN IF y.refused THEN y ELSE Fold(Cleared(y), x, k)

Grouped(stream, span, patience) ==
    LET after[n \in 0..Len(stream)] ==
            IF n = 0 THEN Begin
            ELSE Step(after[n - 1], stream[n], BucketOf(stream[n].at, span), patience)
    IN  after[Len(stream)]

(* What is left is yielded when the scan ends. *)
Finished(it, patience) == IF it.parts = <<>> THEN it ELSE Yield(it, patience)

-----------------------------------------------------------------------------
(* series.sampleValues: every point, and every bucket as one. *)
SampleValues(s, from, to, patience) == Taken(Stream(s, from, to), patience)

(* series.sampleRange: the group in hand is yielded at the end, also when  *)
(* the consumer has left.                                                  *)
SampleRange(s, from, to, span, patience) ==
    IF span = 0 THEN SampleValues(s, from, to, patience)
    ELSE Finished(Grouped(Stream(s, from, to), span, patience), patience).out

(* Deviation: the sum is not reset before the consumer's answer is used.   *)
CounterValuesUnreset(s, from, to, patience) ==
    Finished(Grouped(Stream(s, from, to), 0, patience), patience).out

(* series.counterValues: adds of one second are summed; flush empties the  *)
(* sum before it returns the consumer's answer.                            *)
CounterValues(s, from, to, patience) ==
    LET it == Grouped(Stream(s, from, to), 0, patience)
    IN  Finished(IF it.refused THEN Cleared(it) ELSE it, patience).out

(* series.counterRange: as sampleRange. *)
CounterRange(s, from, to, span, patience) ==
    IF span = 0 THEN CounterValues(s, from, to, patience)
    ELSE Finished(Grouped(Stream(s, from, to), span, patience), patience).out

OfKind(s, bucket) ==
    FlattenSeq([i \in 1..Len(s) |-> IF s[i].bucket = bucket THEN <<s[i]>> ELSE <<>>])

(* series.sketchRawRange: flushes at the end unless stopped. *)
SketchRawRange(s, from, to, span, patience) ==
    LET it == Grouped(Stream(OfKind(s, FALSE), from, to), span, patience)
    IN  (IF it.refused THEN it ELSE Finished(it, patience)).out

(* series.sketchBucketValues: every stored bucket, until errStopSketch. *)
SketchBucketValues(s, from, to, patience) ==
    Taken(Stream(OfKind(s, TRUE), from, to), patience)

(* What the map of sketchMixedRange has for group k. *)
OfGroup(stream, k, span) ==
    FlattenSeq([i \in 1..Len(stream) |->
        IF BucketOf(stream[i].at, span) = k THEN <<stream[i]>> ELSE <<>>])

(* series.sketchMixedRange: a map from group to sketch, listed by second. *)
SketchMixedRange(s, from, to, span, patience) ==
    LET stream == Stream(s, from, to)
        order == SortedTimes({BucketOf(stream[i].at, span) : i \in 1..Len(stream)})
    IN  Taken([n \in 1..Len(order) |->
                  [at |-> order[n], parts |-> PartsOf(OfGroup(stream, order[n], span))]], patience)

(* Deviation: blocks are folded as they come, as for samples.              *)
SketchRangeStreamed(s, from, to, span, patience) ==
    LET it == Grouped(Stream(s, from, to), span, patience)
    IN  (IF it.refused THEN it ELSE Finished(it, patience)).out

(* series.sketchRange: picks one of the three by what the interval meets. *)
SketchRange(s, from, to, span, patience) ==
    LET hit == {i \in DOMAIN s : Hit(s[i], from, to)}
        hasRaw == \E i \in hit : ~s[i].bucket
        hasBuckets == \E i \in hit : s[i].bucket
    IN  IF hit = {} THEN <<>>
        ELSE IF ~hasBuckets THEN SketchRawRange(s, from, to, span, patience)
        ELSE IF ~hasRaw /\ span = 0 THEN SketchBucketValues(s, from, to, patience)
        ELSE SketchMixedRange(s, from, to, span, patience)

(* The iterator of a key's kind; span 0 is Values. *)
Scanned(kind, s, from, to, span, patience) ==
    CASE kind = "sample"  -> SampleRange(s, from, to, span, patience)
      [] kind = "counter" -> CounterRange(s, from, to, span, patience)
      [] kind = "sketch"  -> SketchRange(s, from, to, span, patience)

-----------------------------------------------------------------------------
(* The in-memory iterators the repository keeps beside the scans           *)
(* (sampleData.values and rangeValues, counterData.values and rangeValues).*)
(* They merge decoded buckets and points by time, buckets first: one round *)
(* of it, where bucket and item are the next to take.                      *)
TakeNext(p, m) ==
    IF \/ m.item > Len(p.raw)
       \/ m.bucket <= Len(p.buckets) /\ p.buckets[m.bucket].at <= p.raw[m.item].at
    THEN [m EXCEPT !.out = Append(@, p.buckets[m.bucket]), !.bucket = @ + 1]
    ELSE [m EXCEPT !.out = Append(@, Item(p.raw[m.item])), !.item = @ + 1]

ByTime(p) ==
    LET after[n \in 0..(Len(p.buckets) + Len(p.raw))] ==
            IF n = 0 THEN [out |-> <<>>, bucket |-> 1, item |-> 1] ELSE TakeNext(p, after[n - 1])
    IN  after[Len(p.buckets) + Len(p.raw)].out

ReferenceValues(p, from, to) == Within(ByTime(p), from, to)

(* sampleData.values, rangeValues: every point, or one value a group.      *)
ReferenceSamples(p, from, to, span) ==
    LET stream == ReferenceValues(p, from, to)
    IN  IF span = 0 THEN stream ELSE Finished(Grouped(stream, span, 0), 0).out

(* counterData.values, rangeValues: one sum a second, or a group.          *)
ReferenceCounters(p, from, to, span) ==
    Finished(Grouped(ReferenceValues(p, from, to), span, 0), 0).out

=============================================================================
