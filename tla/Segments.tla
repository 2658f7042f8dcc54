------------------------------- MODULE Segments -------------------------------
(***************************************************************************)
(* The bytes of one stored series (codec.go, block.go, series.go): a list  *)
(* of segments, each at most SegmentSize points or buckets of one kind,    *)
(* its columns delta-coded over Word-ary words, with the seconds it spans. *)
(* An encoded key holds one of the three kinds of data.                    *)
(*                                                                         *)
(*  pending - decoded: raw, a sequence of operations, and buckets, a       *)
(*            sequence of [at, parts].                                     *)
(*  parts   - what the bucket's aggregate was built from, in that order.   *)
(*            A sample bucket has one part per operation (Count counts     *)
(*            them; First and Last are the ends).  A counter bucket is one *)
(*            sum and a sketch bucket one sketch: one part, the set.       *)
(* S2 compression and the varint bytes below a word are left out.          *)
(***************************************************************************)
EXTENDS Series, Integers, SequencesExt

CONSTANTS SegmentSize,  \* segmentSize, 1024 in the code
          Word,         \* 2^64 in the code: columns are differences modulo it
          Span          \* the span of compaction

ASSUME SegmentsAssumption ==
    SegmentSize \in Nat \ {0} /\ Word \in Nat \ {0} /\ Span \in Nat \ {0}

\* seconds, clocks and replica ids are words: uint64 in the code
ASSUME WordAssumption ==
    Time \subseteq 0..(Word - 1) /\ Replica \subseteq 0..(Word - 1) /\ MaxClock < Word

BucketOf(t, span) == IF span = 0 THEN t ELSE (t \div span) * span

Times(items) == [i \in DOMAIN items |-> items[i].at]
Increasing(times) == \A i \in 2..Len(times) : times[i] > times[i - 1]
Nondecreasing(times) == \A i \in 2..Len(times) : times[i] >= times[i - 1]

(* Deviation: in the order of the map, seconds unsorted.                   *)
InAnyOrder(ops) == SetToSeqs(ops)

(* Every order a Go map can list the operations of a second in. *)
InTimeOrder(ops) == {q \in SetToSeqs(ops) : Nondecreasing(Times(q))}

-----------------------------------------------------------------------------
(* Deviation: the difference is not reduced to a word, and is cut at 0.    *)
DeltaCut(column) ==
    [i \in DOMAIN column |->
        IF i > 1 /\ column[i] < column[i - 1] THEN 0
        ELSE column[i] - (IF i = 1 THEN 0 ELSE column[i - 1])]

(* appendDelta: wraps when the column goes down, as clocks and replicas do. *)
Delta(column) ==
    [i \in DOMAIN column |-> (column[i] - (IF i = 1 THEN 0 ELSE column[i - 1])) % Word]

(* codecReader.delta: running sums, modulo a word. *)
Undelta(coded) ==
    LET sum[i \in DOMAIN coded] ==
            (coded[i] + (IF i = 1 THEN 0 ELSE sum[i - 1])) % Word
    IN  [i \in DOMAIN coded |-> sum[i]]

(* appendSampleRaw, appendCounterRaw.  Values are XORed with their         *)
(* predecessor's bits or delta-coded, and kept whole here.                 *)
EncodeRaw(ops) ==
    [at      |-> Delta(Times(ops)),
     clock   |-> Delta([i \in DOMAIN ops |-> ops[i].clock]),
     replica |-> Delta([i \in DOMAIN ops |-> ops[i].replica]),
     value   |-> [i \in DOMAIN ops |-> ops[i].value]]

DecodeRaw(data) ==
    LET at == Undelta(data.at)
        clock == Undelta(data.clock)
        replica == Undelta(data.replica)
    IN  [i \in DOMAIN at |-> [at |-> at[i], clock |-> clock[i],
                              replica |-> replica[i], value |-> data.value[i]]]

EncodeBuckets(buckets) ==
    [at |-> Delta(Times(buckets)), parts |-> [i \in DOMAIN buckets |-> buckets[i].parts]]

DecodeBuckets(data) ==
    LET at == Undelta(data.at)
    IN  [i \in DOMAIN at |-> [at |-> at[i], parts |-> data.parts[i]]]

-----------------------------------------------------------------------------
(* One segment: a chunk with its first and its last second. *)
Segment(chunk, bucket) ==
    [bucket |-> bucket, from |-> Head(chunk).at, to |-> Last(chunk).at,
     data |-> IF bucket THEN EncodeBuckets(chunk) ELSE EncodeRaw(chunk)]

(* append*Segments: chunks of SegmentSize. *)
SegmentsOf(items, bucket) ==
    [n \in 1..((Len(items) + SegmentSize - 1) \div SegmentSize) |->
        LET last == IF n * SegmentSize < Len(items) THEN n * SegmentSize ELSE Len(items)
        IN  Segment(SubSeq(items, (n - 1) * SegmentSize + 1, last), bucket)]

(* Deviation: raw points first.                                            *)
AppendToRawFirst(s, p) ==
    s \o SegmentsOf(p.raw, FALSE) \o SegmentsOf(p.buckets, TRUE)

(* pending.appendTo: buckets first. *)
AppendTo(s, p) ==
    s \o SegmentsOf(p.buckets, TRUE) \o SegmentsOf(p.raw, FALSE)

(* series.pending: the segments of one kind, one after the other. *)
Decoded(s) ==
    [raw     |-> FlattenSeq([i \in 1..Len(s) |-> IF s[i].bucket THEN <<>> ELSE DecodeRaw(s[i].data)]),
     buckets |-> FlattenSeq([i \in 1..Len(s) |-> IF s[i].bucket THEN DecodeBuckets(s[i].data) ELSE <<>>])]

-----------------------------------------------------------------------------
(* The set of raw operations after pending.Merge of a delta of raw ones. *)
MergedOps(kind, ops, delta) ==
    CASE kind = "sample"  -> MergeSamples(ops, delta)
      [] kind = "counter" -> MergeCounters(ops, delta)
      [] kind = "sketch"  -> MergeSketches(ops, delta)

(* pending.Merge: sorted by second, in any order within one. *)
MergedPendings(kind, p, delta) ==
    {[raw |-> q, buckets |-> p.buckets] :
        q \in InTimeOrder(MergedOps(kind, ToSet(p.raw), ToSet(delta)))}

(* pending.appendable of a delta of raw operations: one sample a second. *)
Appendable(kind, delta) ==
    IF kind = "sample" THEN Increasing(Times(delta)) ELSE Nondecreasing(Times(delta))

(* Deviation: the same second may continue a series.                       *)
CanAppendSameSecond(s, delta) ==
    \A i \in DOMAIN s, j \in DOMAIN delta : delta[j].at >= s[i].to

(* series.canAppend: the delta starts after the last second of any segment. *)
CanAppend(s, delta) ==
    \A i \in DOMAIN s, j \in DOMAIN delta : delta[j].at > s[i].to

(* series.append: a delta that is long, ordered and later than everything  *)
(* stored is written behind it; any other is merged with what is decoded.  *)
Appended(kind, s, delta) ==
    IF delta = <<>> THEN {s}
    ELSE IF /\ Appendable(kind, delta)
            /\ s = <<>> \/ (Len(delta) >= SegmentSize /\ CanAppend(s, delta))
         THEN {AppendTo(s, [raw |-> delta, buckets |-> <<>>])}
         ELSE {AppendTo(<<>>, p) : p \in MergedPendings(kind, Decoded(s), delta)}

-----------------------------------------------------------------------------
(* Deviation: later operations are put in front.                          *)
FoldOpInFront(kind, buckets, op) ==
    LET k == BucketOf(op.at, Span)
        old == IF k \in DOMAIN buckets THEN buckets[k] ELSE <<>>
        new == IF kind = "sample" THEN <<{op}>> \o old
               ELSE IF old = <<>> THEN <<{op}>> ELSE <<old[1] \cup {op}>>
    IN  [t \in DOMAIN buckets \cup {k} |-> IF t = k THEN new ELSE buckets[t]]

(* One operation folded into its bucket, a function from bucket second to parts. *)
FoldOp(kind, buckets, op) ==
    LET k == BucketOf(op.at, Span)
        old == IF k \in DOMAIN buckets THEN buckets[k] ELSE <<>>
        new == IF kind = "sample" THEN Append(old, {op})
               ELSE IF old = <<>> THEN <<{op}>> ELSE <<old[1] \cup {op}>>
    IN  [t \in DOMAIN buckets \cup {k} |-> IF t = k THEN new ELSE buckets[t]]

(* One round of Compact's loop: an operation before the cutoff is folded,  *)
(* any other is kept.                                                      *)
CompactOp(kind, cutoff, acc, op) ==
    IF op.at >= cutoff THEN [acc EXCEPT !.raw = Append(@, op)]
    ELSE [acc EXCEPT !.buckets = FoldOp(kind, @, op)]

(* sortedTimes: the seconds of the map of buckets. *)
SortedTimes(times) == CHOOSE q \in SetToSeqs(times) : Increasing(q)

(* Compact of the three kinds: a pass over the raw operations in their     *)
(* order, with a map of the buckets, listed by second at the end.          *)
CompactedPending(kind, p, cutoff) ==
    LET before == [t \in ToSet(Times(p.buckets)) |->
                      p.buckets[CHOOSE i \in DOMAIN p.buckets : p.buckets[i].at = t].parts]
        pass[n \in 0..Len(p.raw)] ==
            IF n = 0 THEN [raw |-> <<>>, buckets |-> before]
            ELSE CompactOp(kind, cutoff, pass[n - 1], p.raw[n])
        done == pass[Len(p.raw)]
        order == SortedTimes(DOMAIN done.buckets)
    IN  [raw     |-> done.raw,
         buckets |-> [i \in DOMAIN order |-> [at |-> order[i], parts |-> done.buckets[order[i]]]]]

=============================================================================
