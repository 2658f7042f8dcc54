------------------------------- MODULE Series -------------------------------
(***************************************************************************)
(* The merge and compaction algebra of one stored series: sample_state.go, *)
(* counters_state.go, sketch_state.go and the parts of series.go they use. *)
(*                                                                         *)
(* A write is an operation record: the second it is filed under, the       *)
(* logical clock and replica that stamped it, and its value.  A series is  *)
(*   raw    - the operations kept one by one (Time/Data/Clock/Replica)     *)
(*   folded - the operations compaction has added to a bucket.  The code   *)
(*            keeps only their aggregate; the set of what went in is what  *)
(*            the properties are about, and the bucket an operation went   *)
(*            to is a function of its second.                              *)
(* An operation that is both raw and folded is one that every aggregate    *)
(* counts twice.                                                           *)
(*                                                                         *)
(* A definition marked "Deviation" is a plausible wrong version of the one *)
(* after it, kept to show that a property tells the two apart.             *)
(***************************************************************************)
EXTENDS Naturals, FiniteSets

CONSTANTS Time,      \* seconds a write can be filed under
          MaxClock,  \* bound: the largest logical clock of a run
          Replica,   \* replica ids
          Value      \* values written, as numbers ordered like their bits

ASSUME TimeAssumption == Time \subseteq Nat
ASSUME MaxClockAssumption == MaxClock \in Nat
ASSUME ReplicaAssumption == Replica \subseteq Nat
ASSUME ValueAssumption == Value \subseteq Nat

Op == [at : Time, clock : 1..MaxClock, replica : Replica, value : Value]

SeriesState == [raw : SUBSET Op, folded : SUBSET Op]

\* series(nil): nothing stored under the key yet
Empty == [raw |-> {}, folded |-> {}]

SameStamp(a, b) == a.clock = b.clock /\ a.replica = b.replica

-----------------------------------------------------------------------------
(* newerSample: the higher clock, then the higher replica. *)
Newer(a, b) ==
    a.clock > b.clock \/ (a.clock = b.clock /\ a.replica > b.replica)

(* Deviation: what arrives last wins. *)
MergeSamplesByArrival(raw, delta) ==
    {o \in delta : ~ \E p \in delta : p.at = o.at /\ Newer(p, o)}
        \cup {o \in raw : ~ \E p \in delta : p.at = o.at}

(* Deviation: a second that has a point is not looked at again. *)
MergeSamplesFirst(raw, delta) ==
    raw \cup {o \in delta : ~ \E p \in raw \cup delta : p.at = o.at /\ (p \in raw \/ Newer(p, o))}

(* sampleData.Merge: one point per second, the newest; on equal stamps the *)
(* point already stored stays.  (Two points of one delta never share a     *)
(* stamp: TrendDB!DistinctStamps.)                                         *)
MergeSamples(raw, delta) ==
    {o \in raw \cup delta :
        ~ \E p \in raw \cup delta :
            /\ p.at = o.at
            /\ \/ Newer(p, o)
               \/ p \in raw /\ o \notin raw /\ SameStamp(p, o)}

(* counterData.Merge: the set of (second, replica, clock, value). *)
MergeCounters(raw, delta) == raw \cup delta

(* sketchData.Merge: per (second, replica, clock) the largest value. *)
MergeSketches(raw, delta) ==
    {o \in raw \cup delta :
        ~ \E p \in raw \cup delta :
            p.at = o.at /\ SameStamp(p, o) /\ p.value > o.value}

-----------------------------------------------------------------------------
(* Deviation: the folded points stay in the raw list. *)
CompactedKeepingRaw(s, cutoff) ==
    [s EXCEPT !.folded = @ \cup {o \in s.raw : o.at < cutoff}]

(* Deviation: the existing bucket is overwritten. *)
CompactedOverBucket(s, cutoff) ==
    [raw    |-> {o \in s.raw : o.at >= cutoff},
     folded |-> {o \in s.raw : o.at < cutoff}]

(* pending.Compact: raw points before the cutoff go to their bucket. *)
Compacted(s, cutoff) ==
    [raw    |-> {o \in s.raw : o.at >= cutoff},
     folded |-> s.folded \cup {o \in s.raw : o.at < cutoff}]

=============================================================================
