------------------------------- MODULE SeriesLog -------------------------------
(***************************************************************************)
(* What a stored series promises, whoever writes it and however its bytes  *)
(* are laid out: it is the merge of the operations written to it, and a    *)
(* compaction moves raw operations to their bucket.  It happens in atomic  *)
(* steps.  StoredSeries (the bytes of one series) and Cluster (processes   *)
(* over one store) are each shown to implement this specification.         *)
(***************************************************************************)
EXTENDS Series

VARIABLES kind,     \* "sample", "counter" or "sketch"
          written,  \* every operation merged into the series so far
          raw,      \* what Values still shows one by one
          folded    \* what its buckets have taken in

vars == <<kind, written, raw, folded>>

Kinds == {"sample", "counter", "sketch"}

(* pending.Merge, by the kind of the key's series. *)
MergedRaw(k, r, delta) ==
    CASE k = "sample"  -> MergeSamples(r, delta)
      [] k = "counter" -> MergeCounters(r, delta)
      [] k = "sketch"  -> MergeSketches(r, delta)

Init ==
    /\ kind \in Kinds
    /\ written = {} /\ raw = {} /\ folded = {}

(* db.merge: an atomic merge of a delta. *)
Write ==
    /\ \E delta \in SUBSET written' :
          /\ written' = written \cup delta
          /\ raw' = MergedRaw(kind, raw, delta)
    /\ UNCHANGED <<kind, folded>>

(* db.compact: the raw operations before some second go to their bucket.   *)
Fold ==
    /\ raw' \subseteq raw
    /\ \A gone \in raw \ raw', kept \in raw' : gone.at < kept.at
    /\ folded' = folded \cup (raw \ raw')
    /\ UNCHANGED <<kind, written>>

Next == Write \/ Fold

Spec == Init /\ [][Next]_vars

-----------------------------------------------------------------------------
(* An operation is shown by what a series holds, unless a point that is    *)
(* not older (samples) or a larger observation of its stamp (sketches)     *)
(* stands in its place.                                                    *)
Shown(k, held, o) ==
    \/ o \in held
    \/ k = "sample" /\ \E p \in held : p.at = o.at /\ ~Newer(o, p)
    \/ k = "sketch" /\ \E p \in held : p.at = o.at /\ SameStamp(p, o) /\ p.value > o.value

(* Nothing is lost: a series shows every operation ever written to it.     *)
NothingLost == \A o \in written : Shown(kind, raw \cup folded, o)

=============================================================================
