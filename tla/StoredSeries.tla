----------------------------- MODULE StoredSeries -----------------------------
(***************************************************************************)
(* The life of one stored series: merges of deltas and compactions, each   *)
(* the merge function of one Store.Update, over its encoded bytes.  What   *)
(* the iterators yield is asked of every state.                            *)
(***************************************************************************)
EXTENDS Scan

CONSTANTS MaxDelta,  \* bound: operations in one delta
          Cutoff     \* seconds compaction may cut at

ASSUME StoredSeriesAssumption == MaxDelta \in Nat /\ Cutoff \subseteq Nat

VARIABLES kind,     \* the kind of the key
          stored,   \* its segments
          clock,    \* the last clock given to a write
          written,  \* history: the operations merged so far
          last,     \* history: the last delta
          horizon,  \* history: every operation folded was before this second
          late      \* history: some write was filed before the horizon

vars == <<kind, stored, clock, written, last, horizon, late>>

Content == Decoded(stored)
Raw == ToSet(Content.raw)
Folded == UNION {UNION ToSet(b.parts) : b \in ToSet(Content.buckets)}

Init ==
    /\ kind \in {"sample", "counter", "sketch"}
    /\ stored = <<>>
    /\ clock = 0
    /\ written = {}
    /\ last = <<>>
    /\ horizon = 0
    /\ late = FALSE

(* db.merge: a delta of one process, a buffered one in order of arrival. *)
Merge(n, at, replica, value) ==
    LET delta == [i \in 1..n |-> [at |-> at[i], clock |-> clock + i,
                                  replica |-> replica, value |-> value]]
    IN  /\ clock + n <= MaxClock
        /\ stored' \in Appended(kind, stored, delta)
        /\ clock' = clock + n
        /\ written' = written \cup ToSet(delta)
        /\ last' = delta
        /\ late' = (late \/ \E i \in 1..n : at[i] < horizon)
        /\ UNCHANGED <<kind, horizon>>

(* db.compact's merge function: decode, fold, encode again. *)
Compact(cutoff) ==
    /\ stored' = AppendTo(<<>>, CompactedPending(kind, Content, cutoff))
    /\ horizon' = IF (\E op \in Raw : op.at < cutoff) /\ cutoff > horizon THEN cutoff ELSE horizon
    /\ UNCHANGED <<kind, clock, written, last, late>>

Next ==
    \/ \E n \in 1..MaxDelta : \E at \in [1..n -> Time], r \in Replica, v \in Value :
          Merge(n, at, r, v)
    \/ \E cutoff \in Cutoff : Compact(cutoff)

Spec == Init /\ [][Next]_vars

-----------------------------------------------------------------------------
(* Everything written passes the checks of scan and decode: segments of at *)
(* most SegmentSize that span their items, raw points in time order, one   *)
(* bucket a second.                                                        *)
WellFormed ==
    /\ \A i \in DOMAIN stored :
          LET items == Items(stored[i])
          IN  /\ Len(items) \in 1..SegmentSize
              /\ stored[i].from = items[1].at
              /\ stored[i].to = items[Len(items)].at
    /\ Nondecreasing(Times(Content.raw))
    /\ kind = "sample" => Increasing(Times(Content.raw))
    /\ Increasing(Times(Content.buckets))

(* The bytes are what the merge algebra says: the fast path that appends a *)
(* block without decoding gives what the merge gives, whatever the order   *)
(* of deltas and compactions, and no column is damaged by its encoding.    *)
Log == INSTANCE SeriesLog WITH raw <- Raw, folded <- Folded
LogSpec == Log!Spec

(* A read merges the buffer over the store (db.load), also when a flush    *)
(* carried the same delta meanwhile: merging it again changes nothing.     *)
RedeliveryHarmless ==
    ToSet(last) \cap Folded = {} =>
        \A s \in Appended(kind, stored, last) :
            /\ ToSet(Decoded(s).raw) = Raw
            /\ Len(Decoded(s).raw) = Len(Content.raw)

(* From and to of a scan.  The words of an interval that begins before 1970 *)
(* and ends after it are in falling order.                                 *)
Intervals == Time \X Time

Yielded(i, span) == Scanned(kind, stored, i[1], i[2], span, 0)

(* A scan to its end aggregates every point and bucket of the interval     *)
(* exactly once, whatever segments it skips and in whatever order they lie.*)
EachPartOnce ==
    \A i \in Intervals, span \in {0, Span} :
        ToBag(PartsOf(Yielded(i, span))) = ToBag(PartsOf(ReferenceValues(Content, i[1], i[2])))

(* As long as no write is filed before what was folded, the scans of       *)
(* samples and counters over the stored blocks yield what the repository's *)
(* in-memory iterators yield: one element a group, in time order.          *)
ReferenceAgrees ==
    (kind # "sketch" /\ ~late) =>
        \A i \in Intervals, span \in {0, Span} :
            Yielded(i, span) =
                IF kind = "sample" THEN ReferenceSamples(Content, i[1], i[2], span)
                ELSE ReferenceCounters(Content, i[1], i[2], span)

(* ... and the folds take samples in time order, which First and Last rely *)
(* on, across buckets, segments and compactions.                           *)
FirstAndLast ==
    (kind = "sample" /\ ~late) =>
        LET parts == PartsOf(Yielded(<<0, CHOOSE t \in Time : \A u \in Time : u <= t>>, Span))
        IN  \A n \in 2..Len(parts) : \A a \in parts[n - 1], b \in parts[n] : a.at < b.at

(* Sketches come in time order, one element a group, late writes or not.   *)
SketchesInOrder ==
    kind = "sketch" =>
        \A i \in Intervals, span \in {0, Span} : Increasing(Times(Yielded(i, span)))

(* A consumer that leaves its loop is not called again: Values of samples  *)
(* and counters, Values and Range of sketches.                             *)
LeavesTheLoop ==
    \A i \in Intervals, patience \in 1..2 :
        CASE kind = "sample"  -> Len(SampleValues(stored, i[1], i[2], patience)) <= patience
          [] kind = "counter" -> Len(CounterValues(stored, i[1], i[2], patience)) <= patience
          [] kind = "sketch"  -> \A span \in {0, Span} :
                Len(SketchRange(stored, i[1], i[2], span, patience)) <= patience

(* README.md: Values and Range return Go iterators, which must not call    *)
(* yield after it returned false.  Does not hold of Range on samples and   *)
(* counters.                                                               *)
RangeLeavesTheLoop ==
    \A i \in Intervals, patience \in 1..2 :
        Len(Scanned(kind, stored, i[1], i[2], Span, patience)) <= patience

=============================================================================
