--------------------------- MODULE TrendDB_proofs ---------------------------
(***************************************************************************)
(* Theorems about TrendDB and their proofs, for every value of the         *)
(* constants: any number of keys, writers, callers, readers and objects.   *)
(***************************************************************************)
EXTENDS TrendDB, SequenceTheorems, WellFoundedInduction, TLAPS

-----------------------------------------------------------------------------
(* The values Init and resets assign belong to their types. *)
LEMMA FlusherFacts ==
    /\ Loop \in Flusher
    /\ Closer \in Flusher
    /\ NoWork \in [Key -> Pending \cup {Nil}]
    /\ NoOps \in [Key -> SUBSET Op]
    /\ Empty \in SeriesState
    /\ NoRead \in Read
  BY DEF Flusher, NoWork, NoOps, Empty, SeriesState, NoRead, Read

(* pending.Merge leaves the buckets alone and adds no operation of its own. *)
LEMMA MergedFacts ==
    ASSUME NEW k \in Key, NEW s \in SeriesState, NEW D \in SUBSET Op
    PROVE  /\ Merged(k, s, D) \in SeriesState
           /\ Merged(k, s, D).folded = s.folded
           /\ Merged(k, s, D).raw \subseteq s.raw \cup D
<1>1. MergeSamples(s.raw, D) \subseteq s.raw \cup D
  BY DEF MergeSamples
<1>2. MergeCounters(s.raw, D) \subseteq s.raw \cup D
  BY DEF MergeCounters
<1>3. MergeSketches(s.raw, D) \subseteq s.raw \cup D
  BY DEF MergeSketches
<1>4. MergedRaw(k, s.raw, D) \subseteq s.raw \cup D
  <2>1. CASE k \in SampleKey
    BY <1>1, <2>1, KeyKinds DEF MergedRaw
  <2>2. CASE k \in CounterKey
    BY <1>2, <2>2, KeyKinds DEF MergedRaw
  <2>3. CASE k \in SketchKey
    BY <1>3, <2>3, KeyKinds DEF MergedRaw
  <2> QED
    BY <2>1, <2>2, <2>3 DEF Key
<1> QED
  BY <1>4 DEF SeriesState, Merged

(* pending.Compact moves operations from raw to the buckets. *)
LEMMA CompactedFacts ==
    ASSUME NEW s \in SeriesState, NEW c \in Cutoff
    PROVE  /\ Compacted(s, c) \in SeriesState
           /\ Compacted(s, c).raw \subseteq s.raw
           /\ Compacted(s, c).raw \cup Compacted(s, c).folded = s.raw \cup s.folded
           /\ s.raw \cap s.folded = {} =>
                 Compacted(s, c).raw \cap Compacted(s, c).folded = {}
<1>1. \A o \in s.raw : o.at \in Nat /\ c \in Nat
  BY TimeAssumption, CutoffAssumption DEF SeriesState, Op
<1>2. \A o \in s.raw : (o.at >= c \/ o.at < c) /\ ~(o.at >= c /\ o.at < c)
  BY <1>1
<1> QED
  BY <1>2 DEF Compacted, SeriesState

(* What an object holds is a set of operations. *)
LEMMA HoldingType ==
    ASSUME TypeOK, NEW o \in Pending \cup {Nil}
    PROVE  Holding(o) \in SUBSET Op
  BY NilAssumption DEF Holding, TypeOK

-----------------------------------------------------------------------------
(* Type correctness. *)
LEMMA InitType == Init => TypeOK
<1> SUFFICES ASSUME Init
             PROVE  TypeOK
  OBVIOUS
<1>1. clock \in 0..MaxClock
  BY MaxClockAssumption DEF Init
<1>2. spare \in Seq(Pending)
  BY DEF Init
<1>3. phase \in [Flusher -> {"idle", "called", "merging", "returned", "exited"}]
  BY DEF Init
<1> QED
  BY <1>1, <1>2, <1>3, FlusherFacts, ModesAssumption DEF Init, TypeOK

(* A stamp taken by a writer is a write of this replica. *)
LEMMA StampFacts ==
    ASSUME TypeOK, NEW w \in Writer, Stamp(w)
    PROVE  \E k \in Key, o \in Op :
              /\ o.clock = clock + 1 /\ o.replica = Me
              /\ stamped' = [stamped EXCEPT ![w] = [key |-> k, op |-> o]]
              /\ clock' = clock + 1 /\ clock' \in 0..MaxClock
<1>1. PICK k \in Key, t \in Time, v \in Value :
         stamped' = [stamped EXCEPT ![w] =
            [key |-> k, op |-> [at |-> t, clock |-> clock', replica |-> Me, value |-> v]]]
  BY DEF Stamp
<1> DEFINE o == [at |-> t, clock |-> clock', replica |-> Me, value |-> v]
<1>2. clock' = clock + 1 /\ clock' \in 1..MaxClock
  BY MaxClockAssumption DEF Stamp, TypeOK
<1>3. o \in Op
  BY <1>2, MeAssumption DEF Op
<1>4. o.clock = clock + 1 /\ o.replica = Me
  BY <1>2
<1>5. clock' \in 0..MaxClock
  BY <1>2
<1> QED
  BY <1>1, <1>2, <1>3, <1>4, <1>5

(* What the writer has stamped. *)
LEMMA StampedType ==
    ASSUME TypeOK, NEW w \in Writer, stamped[w] # Nil
    PROVE  /\ stamped[w].key \in Key
           /\ stamped[w].op \in Op
           /\ {stamped[w].op} \in SUBSET Op
  BY DEF TypeOK, Write

(* The slot of a key is an object, and a new one is reachable from nowhere. *)
LEMMA SlotFacts ==
    ASSUME TypeOK, NEW k \in Key, NEW o \in Slot(k)
    PROVE  /\ o \in Pending
           /\ \/ items[k] = o
              \/ /\ items[k] = Nil /\ spare # <<>> /\ o = spare[Len(spare)]
                 /\ Len(spare) \in 1..Len(spare)
              \/ items[k] = Nil /\ spare = <<>> /\ o \notin Reachable
<1>1. CASE items[k] # Nil
  BY <1>1 DEF Slot, TypeOK
<1>2. CASE items[k] = Nil /\ spare # <<>>
  <2>1. Len(spare) \in 1..Len(spare)
    BY <1>2 DEF TypeOK
  <2> QED
    BY <1>2, <2>1 DEF Slot, TypeOK
<1>3. CASE items[k] = Nil /\ spare = <<>>
  BY <1>3 DEF Slot
<1> QED
  BY <1>1, <1>2, <1>3

(* Every step keeps the types. *)
LEMMA NextType == TypeOK /\ [Next]_vars => TypeOK'
<1> SUFFICES ASSUME TypeOK, [Next]_vars
             PROVE  TypeOK'
  OBVIOUS
<1> USE FlusherFacts, NilAssumption DEF switches, bufferVars, flushVars
<1>1. ASSUME NEW w \in Writer, Stamp(w)
      PROVE  TypeOK'
  <2>1. PICK k \in Key, o \in Op :
           /\ stamped' = [stamped EXCEPT ![w] = [key |-> k, op |-> o]]
           /\ clock' \in 0..MaxClock
    BY <1>1, StampFacts
  <2>2. stamped' \in [Writer -> Write \cup {Nil}]
    <3>1. [key |-> k, op |-> o] \in Write
      BY DEF Write
    <3> QED
      BY <2>1, <3>1 DEF TypeOK
  <2> QED
    BY <1>1, <2>1, <2>2 DEF TypeOK, Stamp
<1>2. ASSUME NEW w \in Writer, BufferWrite(w)
      PROVE  TypeOK'
  <2> DEFINE k == stamped[w].key  op == stamped[w].op
  <2>1. k \in Key /\ op \in Op
    BY <1>2, StampedType DEF BufferWrite
  <2>2. PICK o \in Slot(k) : items' = [items EXCEPT ![k] = o]
                             /\ heap' = [heap EXCEPT ![o] = @ \cup {op}]
    BY <1>2 DEF BufferWrite
  <2>3. o \in Pending
    BY <2>1, <2>2, SlotFacts
  <2>4. spare' \in Seq(Pending)
    <3>1. CASE items[k] = Nil /\ spare # <<>>
      <4>1. Len(spare) \in Nat \ {0}
        BY <3>1 DEF TypeOK
      <4>2. SubSeq(spare, 1, Len(spare) - 1) \in Seq(Pending)
        BY <4>1 DEF TypeOK
      <4> QED
        BY <1>2, <3>1, <4>2 DEF BufferWrite
    <3>2. CASE ~(items[k] = Nil /\ spare # <<>>)
      BY <1>2, <3>2 DEF BufferWrite, TypeOK
    <3> QED
      BY <3>1, <3>2
  <2>5. acked' = [acked EXCEPT ![k] = @ \cup {op}]
        /\ stamped' = [stamped EXCEPT ![w] = Nil]
    BY <1>2 DEF BufferWrite
  <2>6. acked' \in [Key -> SUBSET Op] /\ stamped' \in [Writer -> Write \cup {Nil}]
    BY <2>1, <2>5 DEF TypeOK
  <2>7. items' \in [Key -> Pending \cup {Nil}] /\ heap' \in [Pending -> SUBSET Op]
    BY <2>1, <2>2, <2>3 DEF TypeOK
  <2> QED
    BY <1>2, <2>4, <2>6, <2>7 DEF TypeOK, BufferWrite
<1>3. ASSUME NEW w \in Writer, DirectWrite(w)
      PROVE  TypeOK'
  <2> DEFINE k == stamped[w].key  op == stamped[w].op
  <2>1. k \in Key /\ op \in Op /\ {op} \in SUBSET Op
    BY <1>3, StampedType DEF DirectWrite
  <2>2. Merged(k, stored[k], {op}) \in SeriesState
    BY <2>1, MergedFacts DEF TypeOK
  <2> QED
    BY <1>3, <2>1, <2>2 DEF TypeOK, DirectWrite
<1>4. ASSUME NEW w \in Writer, DirectFail(w)
      PROVE  TypeOK'
  <2> DEFINE k == stamped[w].key  op == stamped[w].op
  <2>1. k \in Key /\ op \in Op /\ {op} \in SUBSET Op
    BY <1>4, StampedType DEF DirectFail
  <2>2. Merged(k, stored[k], {op}) \in SeriesState
    BY <2>1, MergedFacts DEF TypeOK
  <2>3. stored' \in {stored} \cup {[stored EXCEPT ![k] = Merged(k, @, {op})]}
    BY <1>4 DEF DirectFail
  <2>4. stored' \in [Key -> SeriesState]
    BY <2>1, <2>2, <2>3 DEF TypeOK
  <2> QED
    BY <1>4, <2>4 DEF TypeOK, DirectFail
<1>5. ASSUME NEW f \in Flusher, FlushCall(f)
      PROVE  TypeOK'
  BY <1>5 DEF TypeOK, FlushCall
<1>6. ASSUME NEW f \in Flusher, FlushTake(f)
      PROVE  TypeOK'
  BY <1>6 DEF TypeOK, FlushTake
<1>7. ASSUME NEW f \in Flusher, NEW k \in Key, FlushMerge(f, k)
      PROVE  TypeOK'
  <2> DEFINE o == work[f][k]
  <2>1. o \in Pending /\ heap[o] \in SUBSET Op
    BY <1>7 DEF TypeOK, FlushMerge
  <2>2. Merged(k, stored[k], heap[o]) \in SeriesState
    BY <2>1, MergedFacts DEF TypeOK
  <2> QED
    BY <1>7, <2>1, <2>2 DEF TypeOK, FlushMerge
<1>8. ASSUME NEW f \in Flusher, NEW k \in Key, FlushFail(f, k)
      PROVE  TypeOK'
  <2> DEFINE o == work[f][k]
  <2>1. o \in Pending /\ heap[o] \in SUBSET Op
    BY <1>8 DEF TypeOK, FlushFail
  <2>2. Merged(k, stored[k], heap[o]) \in SeriesState
    BY <2>1, MergedFacts DEF TypeOK
  <2>3. stored' \in [Key -> SeriesState]
    <3>1. stored' = stored \/ stored' = [stored EXCEPT ![k] = Merged(k, @, heap[o])]
      BY <1>8 DEF FlushFail
    <3> QED
      BY <2>2, <3>1 DEF TypeOK
  <2>4. dropped' \in [Key -> SUBSET Op]
    <3>1. \A j \in Key : work[f][j] \in Pending \cup {Nil}
      BY DEF TypeOK
    <3>2. \A j \in Key : Holding(work[f][j]) \in SUBSET Op
      BY <3>1, HoldingType
    <3> QED
      BY <1>8, <3>2 DEF TypeOK, FlushFail
  <2>5. heap' \in [Pending -> SUBSET Op]
    BY <1>8 DEF TypeOK, FlushFail
  <2> QED
    BY <1>8, <2>3, <2>4, <2>5 DEF TypeOK, FlushFail
<1>9. ASSUME NEW f \in Flusher, FlushRecycle(f)
      PROVE  TypeOK'
  BY <1>9 DEF TypeOK, FlushRecycle
<1>10. ASSUME NEW f \in Flusher, FlushReturn(f)
      PROVE  TypeOK'
  BY <1>10 DEF TypeOK, FlushReturn
<1>11. ASSUME NEW f \in Flusher, FlushDone(f)
      PROVE  TypeOK'
  BY <1>11 DEF TypeOK, FlushDone
<1>12. CASE CloseStore
  BY <1>12 DEF TypeOK, CloseStore
<1>13. CASE LoopExit
  BY <1>13 DEF TypeOK, LoopExit
<1>14. ASSUME NEW r \in Reader, Load(r)
      PROVE  TypeOK'
  <2>1. \A k \in Key :
           [step |-> "loaded", key |-> k, view |-> stored[k], must |-> acked[k]] \in Read
    BY DEF TypeOK, Read
  <2> QED
    BY <1>14, <2>1 DEF TypeOK, Load
<1>15. ASSUME NEW r \in Reader, Clone(r)
      PROVE  TypeOK'
  <2> DEFINE k == reads[r].key
  <2>1. k \in Key /\ reads[r].view \in SeriesState /\ reads[r].must \in SUBSET Op
    BY <1>15 DEF TypeOK, Read, Clone, NoRead
  <2>2. Holding(items[k]) \in SUBSET Op
    <3>1. items[k] \in Pending \cup {Nil}
      BY <2>1 DEF TypeOK
    <3> QED
      BY <3>1, HoldingType
  <2>3. Merged(k, reads[r].view, Holding(items[k])) \in SeriesState
    BY <2>1, <2>2, MergedFacts
  <2> QED
    BY <1>15, <2>1, <2>3 DEF TypeOK, Clone, Read
<1>16. ASSUME NEW r \in Reader, ReadDone(r)
      PROVE  TypeOK'
  BY <1>16 DEF TypeOK, ReadDone
<1>17. ASSUME NEW k \in Key, NEW c \in Cutoff, Compact(k, c)
      PROVE  TypeOK'
  <2>1. Compacted(stored[k], c) \in SeriesState
    BY CompactedFacts DEF TypeOK
  <2> QED
    BY <1>17, <2>1 DEF TypeOK, Compact
<1>18. CASE UNCHANGED vars
  BY <1>18 DEF TypeOK, vars
<1> QED
  BY <1>1, <1>2, <1>3, <1>4, <1>5, <1>6, <1>7, <1>8, <1>9, <1>10, <1>11, <1>12, <1>13, <1>14, <1>15, <1>16, <1>17, <1>18 DEF Next, FlushStep

(* Every variable keeps its type.                                          *)
THEOREM TypeCorrect == Spec => []TypeOK
  BY InitType, NextType, PTL DEF Spec

-----------------------------------------------------------------------------
(* The pool.  A flush that is not merging holds no object; with that the   *)
(* exclusive use of objects is inductive.                                  *)
IdleHoldsNothing ==
    \A f \in Flusher : phase[f] # "merging" => work[f] = NoWork /\ used[f] = Nil

PoolInv == ExclusivePending /\ IdleHoldsNothing

(* The objects are apart at the start. *)
LEMMA InitPool == Init => PoolInv
  BY FlusherFacts DEF Init, PoolInv, ExclusivePending, NoAlias, Apart, InUse,
     FreeIsEmpty, IdleHoldsNothing, NoWork

poolVars == <<items, spare, heap, work, used>>

(* A step that touches no object and no map preserves the pool's part.     *)
LEMMA PoolStable ==
    ASSUME ExclusivePending, UNCHANGED poolVars
    PROVE  ExclusivePending'
<1>1. NoAlias'
  BY DEF ExclusivePending, NoAlias, poolVars
<1>2. Apart'
  BY DEF ExclusivePending, Apart, poolVars
<1>3. FreeIsEmpty'
  BY DEF ExclusivePending, FreeIsEmpty, InUse, poolVars
<1> QED
  BY <1>1, <1>2, <1>3 DEF ExclusivePending

(* A buffered write takes an object that nobody has. *)
LEMMA BufferWritePool ==
    ASSUME TypeOK, PoolInv, NEW w \in Writer, BufferWrite(w)
    PROVE  PoolInv'
<1> DEFINE k == stamped[w].key  op == stamped[w].op
<1>1. k \in Key
  BY StampedType DEF BufferWrite
<1>2. PICK o \in Slot(k) : /\ items' = [items EXCEPT ![k] = o]
                           /\ heap' = [heap EXCEPT ![o] = @ \cup {op}]
  BY DEF BufferWrite
<1>3. UNCHANGED <<work, used, phase>>
  BY DEF BufferWrite, flushVars
<1>4. o \in Pending /\ o # Nil
  BY <1>1, <1>2, SlotFacts, NilAssumption
<1>5. IdleHoldsNothing'
  BY <1>3 DEF PoolInv, IdleHoldsNothing
<1>6. \A j \in Key : items'[j] = IF j = k THEN o ELSE items[j]
  BY <1>1, <1>2 DEF TypeOK
<1>7. \A q \in Pending : q # o => heap'[q] = heap[q]
  BY <1>2, <1>4 DEF TypeOK
<1>8. ASSUME items[k] = Nil
       PROVE  FreeIsEmpty'
  <2> SUFFICES ASSUME NEW q \in Pending, ~InUse(q)'
               PROVE  heap'[q] = {}
    BY DEF FreeIsEmpty
  <2>1. q # o
    BY <1>1, <1>6 DEF InUse
  <2>2. \A j \in Key : items[j] # q
    BY <1>6, <1>8, NilAssumption DEF InUse
  <2>3. ~InUse(q)
    BY <1>3, <2>2 DEF InUse
  <2> QED
    BY <1>7, <2>1, <2>3 DEF PoolInv, ExclusivePending, FreeIsEmpty
<1>9. CASE items[k] = o
  <2>1. spare' = spare /\ \A j \in Key : items'[j] = items[j]
    BY <1>4, <1>6, <1>9 DEF BufferWrite
  <2>2. NoAlias'
    BY <1>3, <2>1 DEF PoolInv, ExclusivePending, NoAlias
  <2>3. Apart'
    BY <1>3, <2>1 DEF PoolInv, ExclusivePending, Apart
  <2>4. FreeIsEmpty'
    BY <1>1, <1>3, <1>7, <1>9, <2>1 DEF PoolInv, ExclusivePending, FreeIsEmpty, InUse
  <2> QED
    BY <1>5, <2>2, <2>3, <2>4 DEF PoolInv, ExclusivePending
<1>10. CASE items[k] = Nil /\ spare # <<>> /\ o = spare[Len(spare)] /\ Len(spare) \in 1..Len(spare)
  <2> DEFINE n == Len(spare)
  <2>1. spare' = SubSeq(spare, 1, n - 1)
    BY <1>10 DEF BufferWrite
  <2>2. n \in Nat \ {0}
    BY <1>10 DEF TypeOK
  <2>3. Len(spare') = n - 1 /\ \A i \in 1..(n - 1) : spare'[i] = spare[i]
    <3>1. \A i \in 1..(n - 1) : spare[i] \in Pending
      BY <2>2 DEF TypeOK
    <3>2. 1 \in Int /\ n - 1 \in Int
      BY <2>2
    <3> HIDE DEF n
    <3>3. /\ Len(SubSeq(spare, 1, n - 1)) = IF 1 <= n - 1 THEN (n - 1) - 1 + 1 ELSE 0
          /\ \A i \in 1..((n - 1) - 1 + 1) : SubSeq(spare, 1, n - 1)[i] = spare[1 + i - 1]
      BY <3>1, <3>2, SubSeqProperties
    <3> QED
      BY <2>1, <2>2, <3>3
  <2>4. \A i \in 1..Len(spare') : i \in 1..n /\ i # n /\ spare'[i] = spare[i]
    BY <2>2, <2>3
  <2>5. /\ \A j \in Key : items[j] # o
        /\ \A f \in Flusher : used[f] # o /\ \A j \in Key : work[f][j] # o
    BY <1>10, <2>2 DEF PoolInv, ExclusivePending, Apart
  <2>6. \A i \in 1..Len(spare') : spare'[i] # o
    BY <1>10, <2>2, <2>4 DEF PoolInv, ExclusivePending, NoAlias
  <2>7. NoAlias'
    BY <1>3, <1>6, <2>4, <2>5 DEF PoolInv, ExclusivePending, NoAlias
  <2>8. Apart'
    BY <1>3, <1>6, <2>4, <2>5, <2>6 DEF PoolInv, ExclusivePending, Apart
  <2>9. FreeIsEmpty'
    BY <1>10, <1>8
  <2> QED
    BY <1>5, <2>7, <2>8, <2>9 DEF PoolInv, ExclusivePending
<1>11. CASE items[k] = Nil /\ spare = <<>> /\ o \notin Reachable
  <2>1. spare' = spare
    BY <1>11 DEF BufferWrite
  <2>2. /\ \A j \in Key : items[j] # o
        /\ \A f \in Flusher : used[f] # o /\ \A j \in Key : work[f][j] # o
        /\ \A i \in 1..Len(spare) : spare[i] # o
    BY <1>11 DEF Reachable
  <2>3. NoAlias'
    BY <1>3, <1>6, <2>1, <2>2 DEF PoolInv, ExclusivePending, NoAlias
  <2>4. Apart'
    BY <1>3, <1>6, <2>1, <2>2 DEF PoolInv, ExclusivePending, Apart
  <2>5. FreeIsEmpty'
    BY <1>11, <1>8
  <2> QED
    BY <1>5, <2>3, <2>4, <2>5 DEF PoolInv, ExclusivePending
<1> QED
  BY <1>1, <1>9, <1>10, <1>11, SlotFacts

(* A flush takes the objects of the buffer, which loses them. *)
LEMMA FlushTakePool ==
    ASSUME TypeOK, PoolInv, NEW f \in Flusher, FlushTake(f)
    PROVE  PoolInv'
<1>1. UNCHANGED <<spare, heap, used>>
  BY DEF FlushTake
<1>2. \A k \in Key : items'[k] = Nil
  BY DEF FlushTake, NoWork
<1>3. \A g \in Flusher, k \in Key :
         work'[g][k] = IF g = f THEN items[k] ELSE work[g][k]
  BY DEF FlushTake, TypeOK
<1>4. \A k \in Key : work[f][k] = Nil
  BY DEF FlushTake, PoolInv, IdleHoldsNothing, NoWork
<1>5. IdleHoldsNothing'
  <2>1. \A g \in Flusher : g # f => work'[g] = work[g] /\ phase'[g] = phase[g]
    BY DEF FlushTake, TypeOK
  <2>2. phase'[f] = "merging"
    BY DEF FlushTake, TypeOK
  <2> QED
    BY <1>1, <2>1, <2>2 DEF PoolInv, IdleHoldsNothing
<1>6. NoAlias'
  BY <1>1, <1>2, <1>3 DEF PoolInv, ExclusivePending, NoAlias, Apart
<1>7. \A i \in 1..Len(spare) : spare[i] # Nil
  BY NilAssumption DEF TypeOK
<1>8. Apart'
  BY <1>1, <1>2, <1>3, <1>7 DEF PoolInv, ExclusivePending, NoAlias, Apart
<1>9. FreeIsEmpty'
  BY <1>1, <1>2, <1>3, <1>4, NilAssumption
     DEF PoolInv, ExclusivePending, FreeIsEmpty, InUse
<1> QED
  BY <1>5, <1>6, <1>8, <1>9 DEF PoolInv, ExclusivePending

(* A merge leaves the objects where they are. *)
LEMMA FlushMergePool ==
    ASSUME TypeOK, PoolInv, NEW f \in Flusher, NEW k \in Key, FlushMerge(f, k)
    PROVE  PoolInv'
<1> DEFINE o == work[f][k]
<1>1. UNCHANGED <<items, spare, heap, phase>> /\ phase[f] = "merging" /\ o # Nil
  BY DEF FlushMerge, bufferVars
<1>2. \A g \in Flusher, j \in Key :
         work'[g][j] = IF g = f /\ j = k THEN Nil ELSE work[g][j]
  BY DEF FlushMerge, TypeOK
<1>3. \A g \in Flusher : used'[g] = IF g = f THEN o ELSE used[g]
  BY DEF FlushMerge, TypeOK
<1>4. used[f] = Nil
  BY DEF FlushMerge
<1>5. IdleHoldsNothing'
  <2>1. \A g \in Flusher : g # f => work'[g] = work[g]
    BY DEF FlushMerge, TypeOK
  <2> QED
    BY <1>1, <1>3, <2>1 DEF PoolInv, IdleHoldsNothing
<1>6. NoAlias'
  BY <1>1, <1>2, <1>3, <1>4 DEF PoolInv, ExclusivePending, NoAlias, Apart
<1>7. Apart'
  BY <1>1, <1>2, <1>3, <1>4 DEF PoolInv, ExclusivePending, NoAlias, Apart
<1>8. FreeIsEmpty'
  BY <1>1, <1>2, <1>3, <1>4, NilAssumption
     DEF PoolInv, ExclusivePending, FreeIsEmpty, InUse
<1> QED
  BY <1>5, <1>6, <1>7, <1>8 DEF PoolInv, ExclusivePending

(* What a flush gives back to the pool it no longer has. *)
LEMMA FlushRecyclePool ==
    ASSUME TypeOK, PoolInv, NEW f \in Flusher, FlushRecycle(f)
    PROVE  PoolInv'
<1> DEFINE o == used[f]
<1>1. UNCHANGED <<items, work, phase>> /\ o # Nil /\ o \in Pending
  BY DEF FlushRecycle, TypeOK
<1>2. \A g \in Flusher : used'[g] = IF g = f THEN Nil ELSE used[g]
  BY DEF FlushRecycle, TypeOK
<1>3. \A q \in Pending : heap'[q] = IF q = o THEN {} ELSE heap[q]
  BY <1>1 DEF FlushRecycle, TypeOK
<1>4. /\ Len(spare) \in Nat /\ Len(spare') = Len(spare) + 1
      /\ \A i \in 1..Len(spare) : spare'[i] = spare[i]
      /\ spare'[Len(spare) + 1] = o
  BY <1>1 DEF FlushRecycle, TypeOK
<1>5. \A i \in 1..Len(spare') :
         (i \in 1..Len(spare) /\ spare'[i] = spare[i]) \/ (i = Len(spare) + 1 /\ spare'[i] = o)
  BY <1>4
<1>6. IdleHoldsNothing'
  BY <1>1, <1>2 DEF PoolInv, IdleHoldsNothing
<1>7. NoAlias'
  BY <1>1, <1>2, <1>5 DEF PoolInv, ExclusivePending, NoAlias, Apart
<1>8. o # Nil /\ \A i \in 1..Len(spare) : spare[i] # Nil
  BY <1>1, NilAssumption DEF TypeOK
<1>9. Apart'
  BY <1>1, <1>2, <1>5, <1>8 DEF PoolInv, ExclusivePending, NoAlias, Apart
<1>10. FreeIsEmpty'
  BY <1>1, <1>2, <1>3 DEF PoolInv, ExclusivePending, FreeIsEmpty, InUse
<1> QED
  BY <1>6, <1>7, <1>9, <1>10 DEF PoolInv, ExclusivePending

(* So does a flush that fails. *)
LEMMA FlushFailPool ==
    ASSUME TypeOK, PoolInv, NEW f \in Flusher, NEW k \in Key, FlushFail(f, k)
    PROVE  PoolInv'
<1>1. UNCHANGED <<items, spare, used>> /\ used[f] = Nil
  BY DEF FlushFail
<1>2. \A g \in Flusher, j \in Key : work'[g][j] = IF g = f THEN Nil ELSE work[g][j]
  BY DEF FlushFail, TypeOK, NoWork
<1>3. \A q \in Pending : heap'[q] = IF q \in Garbage(f) THEN {} ELSE heap[q]
  BY DEF FlushFail
<1>4. IdleHoldsNothing'
  <2>1. \A g \in Flusher : g # f => work'[g] = work[g] /\ phase'[g] = phase[g]
    BY DEF FlushFail, TypeOK
  <2>2. work'[f] = NoWork
    BY DEF FlushFail, TypeOK
  <2> QED
    BY <1>1, <2>1, <2>2 DEF PoolInv, IdleHoldsNothing
<1>5. NoAlias'
  BY <1>1, <1>2 DEF PoolInv, ExclusivePending, NoAlias
<1>6. Apart'
  BY <1>1, <1>2 DEF PoolInv, ExclusivePending, Apart, NoAlias
<1>7. FreeIsEmpty'
  <2> SUFFICES ASSUME NEW q \in Pending, ~InUse(q)', q \notin Garbage(f)
               PROVE  heap[q] = {}
    BY <1>3 DEF FreeIsEmpty
  <2>1. \A j \in Key : work[f][j] # q
    BY NilAssumption DEF Garbage
  <2>2. ~InUse(q)
    BY <1>1, <1>2, <2>1 DEF InUse
  <2> QED
    BY <2>2 DEF PoolInv, ExclusivePending, FreeIsEmpty
<1> QED
  BY <1>4, <1>5, <1>6, <1>7 DEF PoolInv, ExclusivePending

(* A step of a flush that holds nothing before and after it. *)
LEMMA PhasePool ==
    ASSUME TypeOK, PoolInv, UNCHANGED poolVars, NEW f \in Flusher,
           work[f] = NoWork, used[f] = Nil,
           \A g \in Flusher : g # f => phase'[g] = phase[g]
    PROVE  PoolInv'
<1>1. IdleHoldsNothing'
  BY DEF PoolInv, IdleHoldsNothing, poolVars
<1> QED
  BY <1>1, PoolStable DEF PoolInv

(* Every step keeps the objects apart. *)
LEMMA NextPool == TypeOK /\ PoolInv /\ [Next]_vars => PoolInv'
<1> SUFFICES ASSUME TypeOK, PoolInv, [Next]_vars
             PROVE  PoolInv'
  OBVIOUS
<1>1. CASE UNCHANGED <<poolVars, phase>>
  <2>1. UNCHANGED poolVars /\ UNCHANGED <<work, used, phase>>
    BY <1>1 DEF poolVars
  <2>2. ExclusivePending'
    BY <2>1, PoolStable DEF PoolInv
  <2>3. IdleHoldsNothing'
    BY <2>1 DEF PoolInv, IdleHoldsNothing
  <2> QED
    BY <2>2, <2>3 DEF PoolInv
<1>2. ASSUME NEW w \in Writer, Stamp(w) \/ DirectWrite(w) \/ DirectFail(w)
      PROVE  UNCHANGED <<poolVars, phase>>
  BY <1>2 DEF Stamp, DirectWrite, DirectFail, poolVars, bufferVars, flushVars
<1>3. ASSUME NEW r \in Reader, Load(r) \/ Clone(r) \/ ReadDone(r)
      PROVE  UNCHANGED <<poolVars, phase>>
  BY <1>3 DEF Load, Clone, ReadDone, poolVars, bufferVars, flushVars
<1>4. ASSUME NEW k \in Key, NEW c \in Cutoff, Compact(k, c)
      PROVE  UNCHANGED <<poolVars, phase>>
  BY <1>4 DEF Compact, poolVars, bufferVars, flushVars
<1>5. ASSUME NEW f \in Flusher, FlushCall(f) \/ FlushReturn(f) \/ FlushDone(f)
      PROVE  PoolInv'
  <2>1. UNCHANGED poolVars /\ \A g \in Flusher : g # f => phase'[g] = phase[g]
    BY <1>5 DEF FlushCall, FlushReturn, FlushDone, poolVars, bufferVars, TypeOK
  <2>2. work[f] = NoWork /\ used[f] = Nil
    BY <1>5 DEF FlushCall, FlushReturn, FlushDone, PoolInv, IdleHoldsNothing
  <2> QED
    BY <2>1, <2>2, PhasePool
<1>6. CASE CloseStore
  <2>1. UNCHANGED poolVars /\ \A g \in Flusher : g # Closer => phase'[g] = phase[g]
    BY <1>6 DEF CloseStore, poolVars, bufferVars, TypeOK
  <2>2. work[Closer] = NoWork /\ used[Closer] = Nil
    BY <1>6, FlusherFacts DEF CloseStore, PoolInv, IdleHoldsNothing
  <2> QED
    BY <2>1, <2>2, PhasePool, FlusherFacts
<1>7. CASE LoopExit
  <2>1. UNCHANGED poolVars /\ \A g \in Flusher : g # Loop => phase'[g] = phase[g]
    BY <1>7 DEF LoopExit, poolVars, bufferVars, TypeOK
  <2>2. work[Loop] = NoWork /\ used[Loop] = Nil
    BY <1>7, FlusherFacts DEF LoopExit, PoolInv, IdleHoldsNothing
  <2> QED
    BY <2>1, <2>2, PhasePool, FlusherFacts
<1>8. CASE UNCHANGED vars
  BY <1>1, <1>8 DEF vars, poolVars
<1> QED
  BY <1>1, <1>2, <1>3, <1>4, <1>5, <1>6, <1>7, <1>8, BufferWritePool, FlushTakePool,
     FlushMergePool, FlushRecyclePool, FlushFailPool DEF Next, FlushStep

(* Objects of the pool are never shared and free ones are always empty,    *)
(* for any number of keys, writers and concurrent flushes.                 *)
THEOREM PoolIsExclusive == Spec => []ExclusivePending
<1>1. PoolInv => ExclusivePending
  BY DEF PoolInv
<1> QED
  BY <1>1, InitPool, NextPool, TypeCorrect, PTL DEF Spec

-----------------------------------------------------------------------------
(* What each step does to the operations held in the buffer and in the     *)
(* maps flushes work on.  This is where the exclusive use of objects pays: *)
(* a step on one object changes what one place holds and nothing else.     *)
LEMMA BufferWriteHolds ==
    ASSUME TypeOK, PoolInv, NEW w \in Writer, BufferWrite(w)
    PROVE  /\ stamped[w].key \in Key /\ stamped[w].op \in Op
           /\ \A j \in Key : Buffered(j)' =
                 IF j = stamped[w].key THEN Buffered(j) \cup {stamped[w].op} ELSE Buffered(j)
           /\ \A f \in Flusher, j \in Key : InFlight(f, j)' = InFlight(f, j)
<1> DEFINE k == stamped[w].key  op == stamped[w].op
<1>1. k \in Key /\ op \in Op
  BY StampedType DEF BufferWrite
<1>2. PICK o \in Slot(k) : /\ items' = [items EXCEPT ![k] = o]
                           /\ heap' = [heap EXCEPT ![o] = @ \cup {op}]
  BY DEF BufferWrite
<1>3. o \in Pending /\ o # Nil
  BY <1>1, <1>2, SlotFacts, NilAssumption
<1>4. \A j \in Key : items'[j] = IF j = k THEN o ELSE items[j]
  BY <1>1, <1>2 DEF TypeOK
<1>5. heap'[o] = heap[o] \cup {op} /\ \A q \in Pending : q # o => heap'[q] = heap[q]
  BY <1>2, <1>3 DEF TypeOK
<1>6. /\ \A j \in Key : j # k => items[j] # o
      /\ \A f \in Flusher, j \in Key : work[f][j] # o
      /\ items[k] = o \/ (items[k] = Nil /\ heap[o] = {})
  <2>1. CASE items[k] = o
    BY <1>1, <1>3, <2>1 DEF PoolInv, ExclusivePending, NoAlias, Apart
  <2>2. CASE items[k] = Nil /\ spare # <<>> /\ o = spare[Len(spare)] /\ Len(spare) \in 1..Len(spare)
    BY <1>3, <2>2 DEF PoolInv, ExclusivePending, Apart, FreeIsEmpty, InUse
  <2>3. CASE items[k] = Nil /\ spare = <<>> /\ o \notin Reachable
    BY <1>3, <2>3 DEF PoolInv, ExclusivePending, FreeIsEmpty, InUse, Reachable
  <2> QED
    BY <1>1, <2>1, <2>2, <2>3, SlotFacts
<1>7. \A j \in Key : Buffered(j)' = IF j = k THEN Buffered(j) \cup {op} ELSE Buffered(j)
  <2>1. ASSUME NEW j \in Key, j = k
        PROVE  Buffered(j)' = Buffered(j) \cup {op}
    BY <2>1, <1>1, <1>3, <1>4, <1>5, <1>6 DEF Buffered, Holding
  <2>2. ASSUME NEW j \in Key, j # k
        PROVE  Buffered(j)' = Buffered(j)
    <3>1. items'[j] = items[j] /\ items[j] # o /\ items[j] \in Pending \cup {Nil}
      BY <1>4, <1>6, <2>2 DEF TypeOK
    <3> QED
      BY <1>5, <3>1 DEF Buffered, Holding
  <2> QED
    BY <2>1, <2>2
<1>8. \A f \in Flusher, j \in Key : InFlight(f, j)' = InFlight(f, j)
  <2> SUFFICES ASSUME NEW f \in Flusher, NEW j \in Key
               PROVE  InFlight(f, j)' = InFlight(f, j)
    OBVIOUS
  <2>1. work'[f][j] = work[f][j] /\ work[f][j] # o /\ work[f][j] \in Pending \cup {Nil}
    BY <1>6 DEF BufferWrite, flushVars, TypeOK
  <2> QED
    BY <1>5, <2>1 DEF InFlight, Holding
<1> QED
  BY <1>1, <1>7, <1>8

(* What a flush takes is in its hands, and no longer buffered. *)
LEMMA FlushTakeHolds ==
    ASSUME TypeOK, PoolInv, NEW f \in Flusher, FlushTake(f)
    PROVE  /\ \A k \in Key : Buffered(k)' = {}
           /\ \A g \in Flusher, k \in Key :
                 InFlight(g, k)' = IF g = f THEN Buffered(k) ELSE InFlight(g, k)
           /\ \A k \in Key : InFlight(f, k) = {}
<1>1. \A k \in Key : items'[k] = Nil
  BY DEF FlushTake, NoWork
<1>2. \A g \in Flusher, k \in Key : work'[g][k] = IF g = f THEN items[k] ELSE work[g][k]
  BY DEF FlushTake, TypeOK
<1>3. \A k \in Key : work[f][k] = Nil
  BY DEF FlushTake, PoolInv, IdleHoldsNothing, NoWork
<1>4. heap' = heap
  BY DEF FlushTake
<1> QED
  BY <1>1, <1>2, <1>3, <1>4 DEF Buffered, InFlight, Holding

(* What a flush merges leaves its hands for the series. *)
LEMMA FlushMergeHolds ==
    ASSUME TypeOK, NEW f \in Flusher, NEW k \in Key, FlushMerge(f, k)
    PROVE  /\ \A j \in Key : Buffered(j)' = Buffered(j)
           /\ \A g \in Flusher, j \in Key :
                 InFlight(g, j)' = IF g = f /\ j = k THEN {} ELSE InFlight(g, j)
           /\ stored' = [stored EXCEPT ![k] = Merged(k, stored[k], InFlight(f, k))]
<1>1. \A g \in Flusher, j \in Key : work'[g][j] = IF g = f /\ j = k THEN Nil ELSE work[g][j]
  BY DEF FlushMerge, TypeOK
<1>2. heap' = heap /\ items' = items
  BY DEF FlushMerge, bufferVars
<1>3. InFlight(f, k) = heap[work[f][k]]
  BY DEF FlushMerge, InFlight, Holding
<1>4. stored' = [stored EXCEPT ![k] = Merged(k, stored[k], InFlight(f, k))]
  BY <1>3 DEF FlushMerge
<1> QED
  BY <1>1, <1>2, <1>4 DEF Buffered, InFlight, Holding

(* An object given back holds nothing that waits. *)
LEMMA FlushRecycleHolds ==
    ASSUME TypeOK, PoolInv, NEW f \in Flusher, FlushRecycle(f)
    PROVE  /\ \A k \in Key : Buffered(k)' = Buffered(k)
           /\ \A g \in Flusher, k \in Key : InFlight(g, k)' = InFlight(g, k)
<1>1. UNCHANGED <<items, work>> /\ used[f] # Nil /\ used[f] \in Pending
  BY DEF FlushRecycle, TypeOK
<1>2. \A q \in Pending : q # used[f] => heap'[q] = heap[q]
  BY <1>1 DEF FlushRecycle, TypeOK
<1>3. \A k \in Key : items[k] # used[f] /\ items[k] \in Pending \cup {Nil}
  BY <1>1 DEF PoolInv, ExclusivePending, Apart, TypeOK
<1>4. \A g \in Flusher, k \in Key : work[g][k] # used[f] /\ work[g][k] \in Pending \cup {Nil}
  BY <1>1 DEF PoolInv, ExclusivePending, Apart, TypeOK
<1> QED
  BY <1>1, <1>2, <1>3, <1>4 DEF Buffered, InFlight, Holding

(* A flush that fails drops what is in its hands, but for a key it may     *)
(* have stored.                                                            *)
LEMMA FlushFailHolds ==
    ASSUME TypeOK, PoolInv, NEW f \in Flusher, NEW k \in Key, FlushFail(f, k)
    PROVE  /\ \A j \in Key : Buffered(j)' = Buffered(j)
           /\ \A g \in Flusher, j \in Key :
                 InFlight(g, j)' = IF g = f THEN {} ELSE InFlight(g, j)
           /\ \/ /\ stored' = stored
                 /\ \A j \in Key : dropped'[j] = dropped[j] \cup InFlight(f, j)
              \/ /\ stored' = [stored EXCEPT ![k] = Merged(k, stored[k], InFlight(f, k))]
                 /\ \A j \in Key : dropped'[j] =
                       IF j = k THEN dropped[j] ELSE dropped[j] \cup InFlight(f, j)
<1>1. items' = items /\ work[f][k] # Nil
  BY DEF FlushFail
<1>2. \A g \in Flusher, j \in Key : work'[g][j] = IF g = f THEN Nil ELSE work[g][j]
  BY DEF FlushFail, TypeOK, NoWork
<1>3. \A q \in Pending : q \notin Garbage(f) => heap'[q] = heap[q]
  BY DEF FlushFail
<1>4. \A j \in Key : items[j] \in Pending \cup {Nil} /\ items[j] \notin Garbage(f)
  BY DEF TypeOK, PoolInv, ExclusivePending, Apart, Garbage
<1>5. \A g \in Flusher, j \in Key : g # f =>
         work[g][j] \in Pending \cup {Nil} /\ work[g][j] \notin Garbage(f)
  BY DEF TypeOK, PoolInv, ExclusivePending, NoAlias, Garbage
<1>6. \A j \in Key : Buffered(j)' = Buffered(j)
  BY <1>1, <1>3, <1>4 DEF Buffered, Holding
<1>7. \A g \in Flusher, j \in Key : InFlight(g, j)' = IF g = f THEN {} ELSE InFlight(g, j)
  BY <1>2, <1>3, <1>5 DEF InFlight, Holding
<1>8. InFlight(f, k) = heap[work[f][k]] /\ \A j \in Key : InFlight(f, j) = Holding(work[f][j])
  BY <1>1 DEF InFlight, Holding
<1>9. PICK applied \in BOOLEAN :
         /\ stored' = IF applied
                      THEN [stored EXCEPT ![k] = Merged(k, stored[k], InFlight(f, k))]
                      ELSE stored
         /\ dropped' = [j \in Key |-> IF applied /\ j = k THEN dropped[j]
                                      ELSE dropped[j] \cup InFlight(f, j)]
  BY <1>8 DEF FlushFail
<1> QED
  BY <1>6, <1>7, <1>9

(* The other steps leave every held operation where it is. *)
LEMMA HoldsStable ==
    ASSUME UNCHANGED <<items, heap, work>>
    PROVE  /\ \A k \in Key : Buffered(k)' = Buffered(k)
           /\ \A f \in Flusher, k \in Key : InFlight(f, k)' = InFlight(f, k)
  BY DEF Buffered, InFlight, Holding

-----------------------------------------------------------------------------
(* Counting.  Clocks identify operations: whatever is acknowledged or      *)
(* stored carries a clock of its own, and a stamp not written yet carries  *)
(* one that nothing else carries.                                          *)
Known(k) == acked[k] \cup stored[k].raw \cup stored[k].folded

KnownStamps ==
    /\ \A k \in Key : \A o \in Known(k) : o.clock <= clock /\ o.replica = Me
    /\ \A j, k \in Key : \A a \in Known(j), b \in Known(k) :
          a.clock = b.clock => a = b /\ j = k

FreshStamps ==
    \A w \in Writer : stamped[w] # Nil =>
        /\ stamped[w].op.clock <= clock /\ stamped[w].op.replica = Me
        /\ \A k \in Key : \A o \in Known(k) : o.clock # stamped[w].op.clock
        /\ \A v \in Writer \ {w} :
              stamped[v] # Nil => stamped[v].op.clock # stamped[w].op.clock

(* What waits for a merge was acknowledged, and waits in one place. *)
WaitingOnce ==
    \A k \in Key :
        /\ Buffered(k) \subseteq acked[k]
        /\ \A f \in Flusher : /\ InFlight(f, k) \subseteq acked[k]
                              /\ InFlight(f, k) \cap Buffered(k) = {}
        /\ \A f, g \in Flusher : f # g => InFlight(f, k) \cap InFlight(g, k) = {}

CountInv == KnownStamps /\ FreshStamps /\ WaitingOnce /\ AtMostOnce

(* Steps that bring no new operation into the store or the history. *)
LEMMA StampsStable ==
    ASSUME TypeOK, KnownStamps, FreshStamps, clock' = clock, stamped' = stamped,
           \A k \in Key : Known(k)' \subseteq Known(k)
    PROVE  KnownStamps' /\ FreshStamps'
<1>1. KnownStamps'
  BY DEF KnownStamps
<1>2. FreshStamps'
  BY DEF FreshStamps
<1> QED
  BY <1>1, <1>2

(* Writing down a stamped operation, acknowledged or not. *)
LEMMA StampsWritten ==
    ASSUME TypeOK, KnownStamps, FreshStamps, clock' = clock,
           NEW w \in Writer, stamped[w] # Nil, stamped' = [stamped EXCEPT ![w] = Nil],
           \A j \in Key : Known(j)' \subseteq
               Known(j) \cup (IF j = stamped[w].key THEN {stamped[w].op} ELSE {})
    PROVE  KnownStamps' /\ FreshStamps'
<1> DEFINE k == stamped[w].key  op == stamped[w].op
<1>1. /\ op.clock <= clock /\ op.replica = Me
      /\ \A j \in Key : \A o \in Known(j) : o.clock # op.clock
  BY DEF FreshStamps
<1>2. \A j \in Key : \A o \in Known(j)' : o \in Known(j) \/ (o = op /\ j = k)
  OBVIOUS
<1>3. \A v \in Writer : stamped'[v] = IF v = w THEN Nil ELSE stamped[v]
  BY DEF TypeOK
<1>4. KnownStamps'
  <2>1. \A j \in Key : \A o \in Known(j)' : o.clock <= clock /\ o.replica = Me
    BY <1>1, <1>2 DEF KnownStamps
  <2>2. ASSUME NEW i \in Key, NEW j \in Key, NEW a \in Known(i)', NEW b \in Known(j)',
               a.clock = b.clock
        PROVE  a = b /\ i = j
    BY <1>1, <1>2, <2>2 DEF KnownStamps
  <2> QED
    BY <2>1, <2>2 DEF KnownStamps
<1>5. FreshStamps'
  <2> SUFFICES ASSUME NEW v \in Writer, stamped'[v] # Nil
               PROVE  /\ stamped'[v].op.clock <= clock' /\ stamped'[v].op.replica = Me
                      /\ \A j \in Key : \A o \in Known(j)' : o.clock # stamped'[v].op.clock
                      /\ \A u \in Writer \ {v} : stamped'[u] # Nil =>
                            stamped'[u].op.clock # stamped'[v].op.clock
    BY DEF FreshStamps
  <2>1. v # w /\ stamped'[v] = stamped[v] /\ stamped[v] # Nil
    BY <1>3
  <2>2. op.clock # stamped[v].op.clock
    BY <2>1 DEF FreshStamps
  <2>3. stamped[v].op.clock <= clock /\ stamped[v].op.replica = Me
    BY <2>1 DEF FreshStamps
  <2>4. \A j \in Key : \A o \in Known(j) : o.clock # stamped[v].op.clock
    BY <2>1 DEF FreshStamps
  <2>5. \A j \in Key : \A o \in Known(j)' : o.clock # stamped[v].op.clock
    BY <1>2, <2>2, <2>4
  <2>6. \A u \in Writer \ {v} : stamped'[u] # Nil => stamped'[u].op.clock # stamped[v].op.clock
    BY <1>3, <2>1 DEF FreshStamps
  <2> QED
    BY <2>1, <2>3, <2>5, <2>6
<1> QED
  BY <1>4, <1>5

(* A new stamp identifies what it is given to. *)
LEMMA StampCount ==
    ASSUME TypeOK, KnownStamps, FreshStamps, NEW w \in Writer, Stamp(w)
    PROVE  KnownStamps' /\ FreshStamps'
<1>1. PICK k \in Key, op \in Op :
         /\ op.clock = clock + 1 /\ op.replica = Me
         /\ stamped' = [stamped EXCEPT ![w] = [key |-> k, op |-> op]]
         /\ clock' = clock + 1
  BY StampFacts
<1>2. \A j \in Key : Known(j)' = Known(j)
  BY DEF Stamp, Known
<1>3. \A v \in Writer : stamped'[v] = IF v = w THEN [key |-> k, op |-> op] ELSE stamped[v]
  BY <1>1 DEF TypeOK
<1>4. clock \in Int
  BY DEF TypeOK
<1>5. \A j \in Key : \A o \in Known(j) : o.clock \in Int /\ o.clock <= clock
  BY DEF KnownStamps, Known, TypeOK, SeriesState, Op
<1>6. \A v \in Writer : stamped[v] # Nil =>
         stamped[v].op.clock \in Int /\ stamped[v].op.clock <= clock
  <2>1. \A v \in Writer : stamped[v] # Nil => stamped[v].op \in Op
    BY StampedType
  <2>2. \A o \in Op : o.clock \in Int
    BY DEF Op
  <2> QED
    BY <2>1, <2>2 DEF FreshStamps
<1>7. KnownStamps'
  <2>1. \A j \in Key : \A o \in Known(j)' : o.clock <= clock' /\ o.replica = Me
    BY <1>1, <1>2, <1>4, <1>5 DEF KnownStamps
  <2> QED
    BY <1>2, <2>1 DEF KnownStamps
<1>8. FreshStamps'
  <2> SUFFICES ASSUME NEW v \in Writer, stamped'[v] # Nil
               PROVE  /\ stamped'[v].op.clock <= clock' /\ stamped'[v].op.replica = Me
                      /\ \A j \in Key : \A o \in Known(j)' : o.clock # stamped'[v].op.clock
                      /\ \A u \in Writer \ {v} : stamped'[u] # Nil =>
                            stamped'[u].op.clock # stamped'[v].op.clock
    BY DEF FreshStamps
  <2>1. CASE v = w
    <3>1. stamped'[v].op = op
      BY <1>3, <2>1
    <3>2. \A j \in Key : \A o \in Known(j)' : o.clock # clock + 1
      BY <1>2, <1>4, <1>5
    <3>3. \A u \in Writer \ {v} : stamped'[u] # Nil => stamped'[u].op.clock # clock + 1
      BY <1>3, <1>4, <1>6, <2>1
    <3> QED
      BY <1>1, <1>4, <3>1, <3>2, <3>3
  <2>2. CASE v # w
    <3>1. stamped'[v] = stamped[v] /\ stamped[v] # Nil
      BY <1>3, <2>2
    <3>2. stamped[v].op.clock <= clock + 1 /\ stamped[v].op.replica = Me
      BY <1>4, <1>6, <3>1 DEF FreshStamps
    <3>3. \A j \in Key : \A o \in Known(j)' : o.clock # stamped[v].op.clock
      BY <1>2, <3>1 DEF FreshStamps
    <3>4. \A u \in Writer \ {v} : stamped'[u] # Nil => stamped'[u].op.clock # stamped[v].op.clock
      <4>1. stamped'[w].op.clock # stamped[v].op.clock
        BY <1>1, <1>3, <1>4, <1>6, <3>1
      <4>2. \A u \in Writer \ {v, w} : stamped[u] # Nil => stamped[u].op.clock # stamped[v].op.clock
        BY <3>1 DEF FreshStamps
      <4> QED
        BY <1>3, <4>1, <4>2
    <3> QED
      BY <1>1, <3>1, <3>2, <3>3, <3>4
  <2> QED
    BY <2>1, <2>2
<1> QED
  BY <1>7, <1>8

(* An operation that is stamped and not yet written is in no series and    *)
(* waits nowhere.                                                          *)
LEMMA StampedIsNew ==
    ASSUME TypeOK, CountInv, NEW w \in Writer, stamped[w] # Nil
    PROVE  \A j \in Key : /\ stamped[w].op \notin Known(j)
                          /\ stamped[w].op \notin Buffered(j)
                          /\ \A f \in Flusher : stamped[w].op \notin InFlight(f, j)
  BY DEF CountInv, FreshStamps, WaitingOnce, Known

(* Merging operations that no longer wait and were never folded.           *)
LEMMA MergeOnce ==
    ASSUME TypeOK, AtMostOnce, NEW k \in Key, NEW D \in SUBSET Op,
           stored' = [stored EXCEPT ![k] = Merged(k, stored[k], D)],
           D \cap stored[k].folded = {}, D \cap Waiting(k)' = {},
           \A j \in Key : Waiting(j)' \subseteq Waiting(j)
    PROVE  /\ AtMostOnce'
           /\ \A j \in Key : stored'[j].raw \cup stored'[j].folded \subseteq
                 stored[j].raw \cup stored[j].folded \cup (IF j = k THEN D ELSE {})
<1>1. stored[k] \in SeriesState /\ \A j \in Key : j # k => stored'[j] = stored[j]
  BY DEF TypeOK
<1>2. stored'[k] = Merged(k, stored[k], D)
  BY DEF TypeOK
<1>3. stored'[k].folded = stored[k].folded /\ stored'[k].raw \subseteq stored[k].raw \cup D
  BY <1>1, <1>2, MergedFacts
<1>4. ASSUME NEW j \in Key
      PROVE  /\ stored'[j].raw \cap stored'[j].folded = {}
             /\ Waiting(j)' \cap (stored'[j].raw \cup stored'[j].folded) = {}
  <2>1. CASE j = k
    BY <1>3, <2>1 DEF AtMostOnce
  <2>2. CASE j # k
    BY <1>1, <2>2 DEF AtMostOnce
  <2> QED
    BY <2>1, <2>2
<1>5. AtMostOnce'
  BY <1>4 DEF AtMostOnce
<1>6. ASSUME NEW j \in Key
      PROVE  stored'[j].raw \cup stored'[j].folded \subseteq
                 stored[j].raw \cup stored[j].folded \cup (IF j = k THEN D ELSE {})
  BY <1>1, <1>3
<1> QED
  BY <1>5, <1>6

(* A buffered write waits in one place. *)
LEMMA BufferWriteCount ==
    ASSUME TypeOK, PoolInv, CountInv, NEW w \in Writer, BufferWrite(w)
    PROVE  CountInv'
<1> DEFINE k == stamped[w].key  op == stamped[w].op
<1>1. /\ k \in Key /\ op \in Op /\ stamped[w] # Nil
      /\ \A j \in Key : Buffered(j)' = IF j = k THEN Buffered(j) \cup {op} ELSE Buffered(j)
      /\ \A f \in Flusher, j \in Key : InFlight(f, j)' = InFlight(f, j)
  BY BufferWriteHolds DEF BufferWrite
<1>2. \A j \in Key : /\ op \notin Known(j) /\ op \notin Buffered(j)
                     /\ \A f \in Flusher : op \notin InFlight(f, j)
  BY <1>1, StampedIsNew
<1>3. \A j \in Key : acked'[j] = IF j = k THEN acked[j] \cup {op} ELSE acked[j]
  BY <1>1 DEF BufferWrite, TypeOK
<1>4. stored' = stored
  BY DEF BufferWrite
<1>5. KnownStamps' /\ FreshStamps'
  <2>1. \A j \in Key : Known(j)' \subseteq Known(j) \cup (IF j = k THEN {op} ELSE {})
    BY <1>3, <1>4 DEF Known
  <2>2. clock' = clock /\ stamped' = [stamped EXCEPT ![w] = Nil]
    BY DEF BufferWrite
  <2> QED
    BY <1>1, <2>1, <2>2, StampsWritten DEF CountInv
<1>6. WaitingOnce'
  <2> SUFFICES ASSUME NEW j \in Key
      PROVE  /\ Buffered(j)' \subseteq acked'[j]
             /\ \A f \in Flusher : /\ InFlight(f, j)' \subseteq acked'[j]
                                   /\ InFlight(f, j)' \cap Buffered(j)' = {}
             /\ \A f, g \in Flusher : f # g => InFlight(f, j)' \cap InFlight(g, j)' = {}
    BY DEF WaitingOnce
  <2>1. /\ Buffered(j) \subseteq acked[j]
        /\ \A f \in Flusher : /\ InFlight(f, j) \subseteq acked[j]
                              /\ InFlight(f, j) \cap Buffered(j) = {}
        /\ \A f, g \in Flusher : f # g => InFlight(f, j) \cap InFlight(g, j) = {}
    BY DEF CountInv, WaitingOnce
  <2>2. Buffered(j)' \subseteq acked'[j]
    BY <1>1, <1>3, <2>1
  <2>3. ASSUME NEW f \in Flusher
        PROVE  InFlight(f, j)' \subseteq acked'[j] /\ InFlight(f, j)' \cap Buffered(j)' = {}
    <3>1. InFlight(f, j)' = InFlight(f, j) /\ op \notin InFlight(f, j)
      BY <1>1, <1>2
    <3> QED
      BY <1>1, <1>3, <2>1, <3>1
  <2>4. \A f, g \in Flusher : f # g => InFlight(f, j)' \cap InFlight(g, j)' = {}
    BY <1>1, <2>1
  <2> QED
    BY <2>2, <2>3, <2>4
<1>7. AtMostOnce'
  <2>1. \A j \in Key : Waiting(j)' \subseteq Waiting(j) \cup {op}
    BY <1>1 DEF Waiting
  <2>2. \A j \in Key : op \notin stored[j].raw \cup stored[j].folded
    BY <1>2 DEF Known
  <2> QED
    BY <1>4, <2>1, <2>2 DEF CountInv, AtMostOnce
<1> QED
  BY <1>5, <1>6, <1>7 DEF CountInv

(* A direct write waits nowhere. *)
LEMMA DirectCount ==
    ASSUME TypeOK, CountInv, NEW w \in Writer, DirectWrite(w) \/ DirectFail(w)
    PROVE  CountInv'
<1> DEFINE k == stamped[w].key  op == stamped[w].op
<1>1. k \in Key /\ op \in Op /\ {op} \in SUBSET Op /\ stamped[w] # Nil
  BY StampedType DEF DirectWrite, DirectFail
<1>2. \A j \in Key : /\ op \notin Known(j) /\ op \notin Buffered(j)
                     /\ \A f \in Flusher : op \notin InFlight(f, j)
  BY <1>1, StampedIsNew
<1>3. \A j \in Key : /\ acked[j] \subseteq acked'[j]
                     /\ acked'[j] \subseteq acked[j] \cup (IF j = k THEN {op} ELSE {})
  BY <1>1 DEF DirectWrite, DirectFail, TypeOK
<1>4. stored' = stored \/ stored' = [stored EXCEPT ![k] = Merged(k, stored[k], {op})]
  BY DEF DirectWrite, DirectFail
<1>5. /\ \A j \in Key : Buffered(j)' = Buffered(j)
      /\ \A f \in Flusher, j \in Key : InFlight(f, j)' = InFlight(f, j)
  BY HoldsStable DEF DirectWrite, DirectFail, bufferVars, flushVars
<1>6. \A j \in Key : Waiting(j)' = Waiting(j) /\ op \notin Waiting(j)
  BY <1>2, <1>5 DEF Waiting
<1>7. /\ AtMostOnce'
      /\ \A j \in Key : stored'[j].raw \cup stored'[j].folded \subseteq
            stored[j].raw \cup stored[j].folded \cup (IF j = k THEN {op} ELSE {})
  <2>1. CASE stored' = stored
    BY <1>6, <2>1 DEF CountInv, AtMostOnce
  <2>2. CASE stored' = [stored EXCEPT ![k] = Merged(k, stored[k], {op})]
    <3>1. PICK i \in Key : i = k
      BY <1>1
    <3>2. {op} \cap stored[i].folded = {} /\ {op} \cap Waiting(i)' = {}
      BY <1>2, <1>6, <3>1 DEF Known
    <3>3. stored' = [stored EXCEPT ![i] = Merged(i, stored[i], {op})]
      BY <2>2, <3>1
    <3>4. \A j \in Key : Waiting(j)' \subseteq Waiting(j)
      BY <1>6
    <3>5. PICK D \in SUBSET Op : D = {op}
      BY <1>1
    <3>6. D \cap stored[i].folded = {} /\ D \cap Waiting(i)' = {}
          /\ stored' = [stored EXCEPT ![i] = Merged(i, stored[i], D)]
      BY <3>2, <3>3, <3>5
    <3>7. /\ AtMostOnce'
          /\ \A j \in Key : stored'[j].raw \cup stored'[j].folded \subseteq
                stored[j].raw \cup stored[j].folded \cup (IF j = i THEN D ELSE {})
      BY <3>4, <3>6, MergeOnce DEF CountInv
    <3> QED
      BY <3>1, <3>5, <3>7
  <2> QED
    BY <1>4, <2>1, <2>2
<1>8. KnownStamps' /\ FreshStamps'
  <2>1. \A j \in Key : Known(j)' \subseteq Known(j) \cup (IF j = k THEN {op} ELSE {})
    BY <1>3, <1>7 DEF Known
  <2>2. clock' = clock /\ stamped' = [stamped EXCEPT ![w] = Nil]
    BY DEF DirectWrite, DirectFail
  <2> QED
    BY <1>1, <2>1, <2>2, StampsWritten DEF CountInv
<1>9. WaitingOnce'
  BY <1>3, <1>5 DEF CountInv, WaitingOnce
<1> QED
  BY <1>7, <1>8, <1>9 DEF CountInv

(* A step of a flush that moves held operations and writes none.           *)
LEMMA MoveCount ==
    ASSUME TypeOK, CountInv, WaitingOnce', stored' = stored, acked' = acked,
           clock' = clock, stamped' = stamped,
           \A j \in Key : Waiting(j)' \subseteq Waiting(j)
    PROVE  CountInv'
<1>1. KnownStamps' /\ FreshStamps'
  <2>1. \A j \in Key : Known(j)' \subseteq Known(j)
    BY DEF Known
  <2> QED
    BY <2>1, StampsStable DEF CountInv
<1>2. AtMostOnce'
  BY DEF CountInv, AtMostOnce
<1> QED
  BY <1>1, <1>2 DEF CountInv

(* A swap moves what waits and copies nothing. *)
LEMMA FlushTakeCount ==
    ASSUME TypeOK, PoolInv, CountInv, NEW f \in Flusher, FlushTake(f)
    PROVE  CountInv'
<1>1. /\ \A k \in Key : Buffered(k)' = {}
      /\ \A g \in Flusher, k \in Key :
            InFlight(g, k)' = IF g = f THEN Buffered(k) ELSE InFlight(g, k)
  BY FlushTakeHolds
<1>2. acked' = acked /\ stored' = stored /\ clock' = clock /\ stamped' = stamped
  BY DEF FlushTake
<1>3. WaitingOnce'
  <2> SUFFICES ASSUME NEW j \in Key
      PROVE  /\ Buffered(j)' \subseteq acked'[j]
             /\ \A g \in Flusher : /\ InFlight(g, j)' \subseteq acked'[j]
                                   /\ InFlight(g, j)' \cap Buffered(j)' = {}
             /\ \A g, h \in Flusher : g # h => InFlight(g, j)' \cap InFlight(h, j)' = {}
    BY DEF WaitingOnce
  <2> QED
    BY <1>1, <1>2 DEF CountInv, WaitingOnce
<1>4. \A j \in Key : Waiting(j)' \subseteq Waiting(j)
  BY <1>1 DEF Waiting
<1> QED
  BY <1>2, <1>3, <1>4, MoveCount

(* What a flush stores was not stored before and waits no more. *)
LEMMA FlushStoreCount ==
    ASSUME TypeOK, PoolInv, CountInv, NEW f \in Flusher, NEW k \in Key,
           FlushMerge(f, k) \/ FlushFail(f, k)
    PROVE  CountInv'
<1>1. acked' = acked /\ clock' = clock /\ stamped' = stamped
  BY DEF FlushMerge, FlushFail
<1>2. /\ \A j \in Key : Buffered(j)' = Buffered(j)
      /\ \A g \in Flusher, j \in Key :
            InFlight(g, j)' \subseteq InFlight(g, j) /\ InFlight(f, k)' = {}
      /\ stored' = stored \/ stored' = [stored EXCEPT ![k] = Merged(k, stored[k], InFlight(f, k))]
  BY FlushMergeHolds, FlushFailHolds
<1>3. WaitingOnce'
  <2> SUFFICES ASSUME NEW j \in Key
      PROVE  /\ Buffered(j)' \subseteq acked'[j]
             /\ \A g \in Flusher : /\ InFlight(g, j)' \subseteq acked'[j]
                                   /\ InFlight(g, j)' \cap Buffered(j)' = {}
             /\ \A g, h \in Flusher : g # h => InFlight(g, j)' \cap InFlight(h, j)' = {}
    BY DEF WaitingOnce
  <2>1. /\ Buffered(j) \subseteq acked[j]
        /\ \A g \in Flusher : /\ InFlight(g, j) \subseteq acked[j]
                              /\ InFlight(g, j) \cap Buffered(j) = {}
        /\ \A g, h \in Flusher : g # h => InFlight(g, j) \cap InFlight(h, j) = {}
    BY DEF CountInv, WaitingOnce
  <2> QED
    BY <1>1, <1>2, <2>1
<1>4. \A j \in Key : Waiting(j)' \subseteq Waiting(j)
  BY <1>2 DEF Waiting
<1>5. CASE stored' = stored
  BY <1>1, <1>3, <1>4, <1>5, MoveCount
<1>6. CASE stored' = [stored EXCEPT ![k] = Merged(k, stored[k], InFlight(f, k))]
  <2> DEFINE D == InFlight(f, k)
  <2>1. D \in SUBSET Op /\ D \subseteq acked[k] /\ D \subseteq Waiting(k)
    BY DEF CountInv, WaitingOnce, TypeOK, Waiting
  <2>2. D \cap stored[k].folded = {}
    BY <2>1 DEF CountInv, AtMostOnce
  <2>3. D \cap Waiting(k)' = {}
    <3>1. D \cap Buffered(k) = {} /\ \A g \in Flusher : g # f => D \cap InFlight(g, k) = {}
      BY DEF CountInv, WaitingOnce
    <3> QED
      BY <1>2, <3>1 DEF Waiting
  <2> HIDE DEF D
  <2>4. stored' = [stored EXCEPT ![k] = Merged(k, stored[k], D)]
    BY <1>6 DEF D
  <2>5. /\ AtMostOnce'
        /\ \A j \in Key : stored'[j].raw \cup stored'[j].folded \subseteq
              stored[j].raw \cup stored[j].folded \cup (IF j = k THEN D ELSE {})
    BY <1>4, <2>1, <2>2, <2>3, <2>4, MergeOnce DEF CountInv
  <2>6. \A j \in Key : Known(j)' \subseteq Known(j)
    BY <1>1, <2>1, <2>5 DEF Known
  <2>7. KnownStamps' /\ FreshStamps'
    BY <1>1, <2>6, StampsStable DEF CountInv
  <2> QED
    BY <1>3, <2>5, <2>7 DEF CountInv
<1> QED
  BY <1>2, <1>5, <1>6

(* A compaction moves raw operations to buckets. *)
LEMMA CompactCount ==
    ASSUME TypeOK, CountInv, NEW k \in Key, NEW c \in Cutoff, Compact(k, c)
    PROVE  CountInv'
<1>1. acked' = acked /\ clock' = clock /\ stamped' = stamped
      /\ UNCHANGED <<items, heap, work>>
  BY DEF Compact, bufferVars, flushVars
<1>2. /\ \A j \in Key : Buffered(j)' = Buffered(j)
      /\ \A f \in Flusher, j \in Key : InFlight(f, j)' = InFlight(f, j)
  BY <1>1, HoldsStable
<1>3. \A j \in Key : Waiting(j)' = Waiting(j)
  BY <1>2 DEF Waiting
<1>4. \A j \in Key : stored'[j] = IF j = k THEN Compacted(stored[k], c) ELSE stored[j]
  BY DEF Compact, TypeOK
<1>5. stored[k] \in SeriesState
  BY DEF TypeOK
<1>6. stored'[k].raw \cup stored'[k].folded = stored[k].raw \cup stored[k].folded
  BY <1>4, <1>5, CompactedFacts
<1>7. stored'[k].raw \cap stored'[k].folded = {}
  <2>1. stored[k].raw \cap stored[k].folded = {}
    BY DEF CountInv, AtMostOnce
  <2> QED
    BY <1>4, <1>5, <2>1, CompactedFacts
<1>8. \A j \in Key : Known(j)' \subseteq Known(j)
  BY <1>1, <1>4, <1>6 DEF Known
<1>9. AtMostOnce'
  BY <1>3, <1>4, <1>6, <1>7 DEF CountInv, AtMostOnce
<1>10. KnownStamps' /\ FreshStamps'
  BY <1>1, <1>8, StampsStable DEF CountInv
<1>11. WaitingOnce'
  BY <1>1, <1>2 DEF CountInv, WaitingOnce
<1> QED
  BY <1>9, <1>10, <1>11 DEF CountInv

(* Nothing is counted at the start. *)
LEMMA InitCount == Init => CountInv
<1> SUFFICES ASSUME Init
             PROVE  CountInv
  OBVIOUS
<1>1. \A k \in Key : Known(k) = {} /\ Buffered(k) = {} /\ \A f \in Flusher : InFlight(f, k) = {}
  BY DEF Init, Known, Buffered, InFlight, Holding, NoWork, NoOps, Empty
<1>2. \A k \in Key : Waiting(k) = {}
  BY <1>1 DEF Waiting
<1>3. KnownStamps /\ FreshStamps
  BY <1>1 DEF Init, KnownStamps, FreshStamps
<1>4. WaitingOnce
  BY <1>1 DEF WaitingOnce
<1>5. AtMostOnce
  BY <1>2 DEF Init, AtMostOnce, Empty
<1> QED
  BY <1>3, <1>4, <1>5 DEF CountInv

(* Steps that move no operation anywhere. *)
LEMMA QuietCount ==
    ASSUME TypeOK, CountInv, \A k \in Key : Buffered(k)' = Buffered(k),
           \A f \in Flusher, k \in Key : InFlight(f, k)' = InFlight(f, k),
           UNCHANGED <<stored, acked, clock, stamped>>
    PROVE  CountInv'
<1>1. WaitingOnce'
  BY DEF CountInv, WaitingOnce
<1>2. \A j \in Key : Waiting(j)' \subseteq Waiting(j)
  BY DEF Waiting
<1> QED
  BY <1>1, <1>2, MoveCount

(* Every step keeps the count. *)
LEMMA NextCount == TypeOK /\ PoolInv /\ CountInv /\ [Next]_vars => CountInv'
<1> SUFFICES ASSUME TypeOK, PoolInv, CountInv, [Next]_vars
             PROVE  CountInv'
  OBVIOUS
<1>1. ASSUME UNCHANGED <<items, heap, work, stored, acked, clock, stamped>>
      PROVE  CountInv'
  BY <1>1, HoldsStable, QuietCount
<1>2. ASSUME NEW w \in Writer, Stamp(w)
      PROVE  CountInv'
  <2>1. KnownStamps' /\ FreshStamps'
    BY <1>2, StampCount DEF CountInv
  <2>2. UNCHANGED <<items, heap, work, stored, acked>>
    BY <1>2 DEF Stamp, bufferVars, flushVars
  <2>3. /\ \A k \in Key : Buffered(k)' = Buffered(k)
        /\ \A f \in Flusher, k \in Key : InFlight(f, k)' = InFlight(f, k)
    BY <2>2, HoldsStable
  <2>4. WaitingOnce' /\ AtMostOnce'
    BY <2>2, <2>3 DEF CountInv, WaitingOnce, AtMostOnce, Waiting
  <2> QED
    BY <2>1, <2>4 DEF CountInv
<1>3. ASSUME NEW f \in Flusher, FlushRecycle(f)
      PROVE  CountInv'
  <2>1. UNCHANGED <<stored, acked, clock, stamped>>
    BY <1>3 DEF FlushRecycle
  <2> QED
    BY <1>3, <2>1, FlushRecycleHolds, QuietCount
<1>4. ASSUME NEW f \in Flusher, FlushCall(f) \/ FlushReturn(f) \/ FlushDone(f)
      PROVE  UNCHANGED <<items, heap, work, stored, acked, clock, stamped>>
  BY <1>4 DEF FlushCall, FlushReturn, FlushDone, bufferVars
<1>5. ASSUME CloseStore \/ LoopExit
      PROVE  UNCHANGED <<items, heap, work, stored, acked, clock, stamped>>
  BY <1>5 DEF CloseStore, LoopExit, bufferVars
<1>6. ASSUME NEW r \in Reader, Load(r) \/ Clone(r) \/ ReadDone(r)
      PROVE  UNCHANGED <<items, heap, work, stored, acked, clock, stamped>>
  BY <1>6 DEF Load, Clone, ReadDone, bufferVars, flushVars
<1>7. ASSUME UNCHANGED vars
      PROVE  UNCHANGED <<items, heap, work, stored, acked, clock, stamped>>
  BY <1>7 DEF vars
<1> QED
  BY <1>1, <1>2, <1>3, <1>4, <1>5, <1>6, <1>7, BufferWriteCount, DirectCount,
     FlushTakeCount, FlushStoreCount, CompactCount DEF Next, FlushStep

(* No operation is both raw and inside a bucket, and none that still waits *)
(* for a merge has been merged: nothing an aggregate adds is added twice.  *)
THEOREM CountedAtMostOnce == Spec => []AtMostOnce
<1>1. CountInv => AtMostOnce
  BY DEF CountInv
<1>2. Init /\ TypeOK => CountInv
  BY InitCount
<1> QED
  BY <1>1, <1>2, NextCount, InitPool, NextPool, TypeCorrect, PTL DEF Spec

(* No two writes of a process carry the same clock.                        *)
THEOREM StampsAreDistinct == Spec => []DistinctStamps
<1>1. CountInv => DistinctStamps
  BY DEF CountInv, KnownStamps, FreshStamps, Known, DistinctStamps
<1> QED
  BY <1>1, InitCount, NextCount, InitPool, NextPool, TypeCorrect, PTL DEF Spec

-----------------------------------------------------------------------------
(* Last write wins.  A merge accounts for every operation given to it: it  *)
(* keeps it or keeps a newer one of its second.                            *)
LEMMA LargestExists ==
    ASSUME NEW N \in Nat, NEW C \in SUBSET (0..N), C # {}
    PROVE  \E m \in C : \A x \in C : x <= m
<1> DEFINE R == OpToRel(<, Nat)
           T == {N - x : x \in C}
<1>1. T \subseteq Nat /\ T # {}
  <2>1. \A x \in C : x \in Int /\ 0 <= x /\ x <= N
    OBVIOUS
  <2>2. \A x \in C : N - x \in Nat
    BY <2>1
  <2> QED
    BY <2>2
<1>2. PICK y \in T : \A z \in T : <<z, y>> \notin R
  BY <1>1, NatLessThanWellFounded, WFMin
<1>3. PICK m \in C : y = N - m
  BY <1>2
<1>4. ASSUME NEW x \in C
      PROVE  x <= m
  <2>1. N - x \in T /\ N - x \in Nat /\ y \in Nat
    BY <1>1
  <2>2. ~(N - x < y)
    BY <1>2, <2>1 DEF OpToRel
  <2> QED
    BY <1>3, <2>2
<1> QED
  BY <1>4

(* Operations whose clocks identify them, all of this replica. *)
Distinct(S) ==
    \A a, b \in S : a.replica = Me /\ (a.clock = b.clock => a = b)

(* A merge keeps each operation, or of samples one of its second that is   *)
(* newer.                                                                  *)
LEMMA MergeKeeps ==
    ASSUME NEW k \in Key, NEW s \in SeriesState, NEW D \in SUBSET Op, Distinct(s.raw \cup D)
    PROVE  \A p \in s.raw \cup D : \E q \in Merged(k, s, D).raw :
              q = p \/ (k \in SampleKey /\ q.at = p.at /\ Newer(q, p))
<1> SUFFICES ASSUME NEW p \in s.raw \cup D
             PROVE  \E q \in Merged(k, s, D).raw :
                       q = p \/ (k \in SampleKey /\ q.at = p.at /\ Newer(q, p))
  OBVIOUS
<1> DEFINE M == s.raw \cup D
<1>1. M \subseteq Op
  BY DEF SeriesState
<1>2. \A x \in M : x.clock \in 0..MaxClock /\ x.replica \in Nat
  <2>1. \A x \in Op : x.clock \in 1..MaxClock /\ x.replica \in Replica
    BY DEF Op
  <2>2. \A x \in Op : x.clock \in 0..MaxClock
    BY <2>1, MaxClockAssumption
  <2>3. \A x \in Op : x.replica \in Nat
    BY <2>1, ReplicaAssumption
  <2> QED
    BY <1>1, <2>2, <2>3
<1>3. CASE k \in SampleKey
  <2> DEFINE C == {x.clock : x \in {y \in M : y.at = p.at}}
  <2>1. C \in SUBSET (0..MaxClock) /\ C # {}
    BY <1>2
  <2>2. PICK m \in C : \A x \in C : x <= m
    BY <2>1, LargestExists, MaxClockAssumption
  <2>3. PICK q \in M : q.at = p.at /\ q.clock = m
    BY <2>2
  <2>4. \A r \in M : r.at = p.at => r.clock <= q.clock
    BY <2>2, <2>3
  <2>5. \A r \in M : r.at = p.at => ~Newer(r, q) /\ (SameStamp(r, q) => r = q)
    <3> SUFFICES ASSUME NEW r \in M, r.at = p.at
                 PROVE  ~Newer(r, q) /\ (SameStamp(r, q) => r = q)
      OBVIOUS
    <3>1. r.clock <= q.clock /\ r.clock \in Nat /\ q.clock \in Nat
      BY <1>2, <2>4
    <3>2. r.clock = q.clock => r = q
      BY DEF Distinct
    <3>3. ~(q.replica > q.replica)
      BY <1>2
    <3> QED
      BY <3>1, <3>2, <3>3 DEF Newer, SameStamp
  <2>6. q \in MergeSamples(s.raw, D)
    BY <2>3, <2>5 DEF MergeSamples
  <2>7. Merged(k, s, D).raw = MergeSamples(s.raw, D)
    BY <1>3, KeyKinds DEF Merged, MergedRaw
  <2>8. q = p \/ Newer(q, p)
    <3>1. p.clock <= q.clock /\ p.clock \in Nat /\ q.clock \in Nat
      BY <1>2, <2>4
    <3>2. p.clock = q.clock => p = q
      BY DEF Distinct
    <3> QED
      BY <3>1, <3>2 DEF Newer
  <2> QED
    BY <1>3, <2>3, <2>6, <2>7, <2>8
<1>4. CASE k \in CounterKey
  <2>1. Merged(k, s, D).raw = s.raw \cup D
    BY <1>4, KeyKinds DEF Merged, MergedRaw, MergeCounters
  <2> QED
    BY <2>1
<1>5. CASE k \in SketchKey
  <2>1. Merged(k, s, D).raw = MergeSketches(s.raw, D)
    BY <1>5, KeyKinds DEF Merged, MergedRaw
  <2>2. \A r \in M : SameStamp(r, p) => r = p
    BY DEF Distinct, SameStamp
  <2>3. \A r \in Op : r.value \in Nat
    BY ValueAssumption DEF Op
  <2>4. ~(p.value > p.value)
    BY <1>1, <2>3
  <2>5. p \in MergeSketches(s.raw, D)
    BY <2>2, <2>4 DEF MergeSketches
  <2> QED
    BY <2>1, <2>5
<1> QED
  BY <1>3, <1>4, <1>5 DEF Key

(* What a step does to the series of a key: nothing, a merge of distinct   *)
(* operations, or a compaction.                                            *)
MergeStep(k) ==
    \E D \in SUBSET Op : /\ stored'[k] = Merged(k, stored[k], D)
                         /\ Distinct(stored[k].raw \cup D)

CompactStep(k) == \E c \in Cutoff : stored'[k] = Compacted(stored[k], c)

(* Acknowledged and stored operations have clocks of their own. *)
LEMMA KnownDistinct ==
    ASSUME CountInv, NEW k \in Key, NEW D, D \subseteq acked[k]
    PROVE  Distinct(stored[k].raw \cup D)
<1>1. stored[k].raw \cup D \subseteq Known(k)
  BY DEF Known
<1> QED
  BY <1>1 DEF CountInv, KnownStamps, Distinct

(* A step leaves a series, merges into it, or compacts it. *)
LEMMA StoreSteps ==
    ASSUME TypeOK, PoolInv, CountInv, [Next]_vars, NEW k \in Key
    PROVE  stored'[k] = stored[k] \/ MergeStep(k) \/ CompactStep(k)
<1>1. ASSUME NEW w \in Writer, DirectWrite(w) \/ DirectFail(w)
      PROVE  stored'[k] = stored[k] \/ MergeStep(k)
  <2> DEFINE op == stamped[w].op
  <2>1. stamped[w] # Nil /\ stamped[w].key \in Key /\ op \in Op /\ {op} \in SUBSET Op
    BY <1>1, StampedType DEF DirectWrite, DirectFail
  <2>2. stored' = stored \/
        stored' = [stored EXCEPT ![stamped[w].key] = Merged(stamped[w].key, @, {op})]
    BY <1>1 DEF DirectWrite, DirectFail
  <2>3. stored'[k] = stored[k] \/ stored'[k] = Merged(k, stored[k], {op})
    BY <2>1, <2>2 DEF TypeOK
  <2>4. Distinct(stored[k].raw \cup {op})
    <3>1. \A a \in stored[k].raw : a.replica = Me /\ a.clock # op.clock
      BY <2>1 DEF CountInv, KnownStamps, FreshStamps, Known
    <3>2. \A a, b \in stored[k].raw : a.clock = b.clock => a = b
      BY DEF CountInv, KnownStamps, Known
    <3>3. op.replica = Me
      BY <2>1 DEF CountInv, FreshStamps
    <3> QED
      BY <3>1, <3>2, <3>3 DEF Distinct
  <2> QED
    BY <2>1, <2>3, <2>4 DEF MergeStep
<1>2. ASSUME NEW f \in Flusher, NEW j \in Key, FlushMerge(f, j) \/ FlushFail(f, j)
      PROVE  stored'[k] = stored[k] \/ MergeStep(k)
  <2>1. stored' = stored \/ stored' = [stored EXCEPT ![j] = Merged(j, stored[j], InFlight(f, j))]
    BY <1>2, FlushMergeHolds, FlushFailHolds
  <2>2. stored'[k] = stored[k] \/ stored'[k] = Merged(k, stored[k], InFlight(f, k))
    BY <2>1 DEF TypeOK
  <2>3. InFlight(f, k) \subseteq acked[k] /\ acked[k] \subseteq Op
    BY DEF CountInv, WaitingOnce, TypeOK
  <2>4. Distinct(stored[k].raw \cup InFlight(f, k))
    BY <2>3, KnownDistinct
  <2> QED
    BY <2>2, <2>3, <2>4 DEF MergeStep
<1>3. ASSUME NEW j \in Key, NEW c \in Cutoff, Compact(j, c)
      PROVE  stored'[k] = stored[k] \/ CompactStep(k)
  BY <1>3 DEF Compact, CompactStep, TypeOK
<1>4. ASSUME NEW w \in Writer, Stamp(w) \/ BufferWrite(w)
      PROVE  stored' = stored
  BY <1>4 DEF Stamp, BufferWrite
<1>5. ASSUME NEW f \in Flusher, FlushCall(f) \/ FlushTake(f) \/ FlushRecycle(f)
                                \/ FlushReturn(f) \/ FlushDone(f)
      PROVE  stored' = stored
  BY <1>5 DEF FlushCall, FlushTake, FlushRecycle, FlushReturn, FlushDone
<1>6. ASSUME CloseStore \/ LoopExit \/ UNCHANGED vars
      PROVE  stored' = stored
  BY <1>6 DEF CloseStore, LoopExit, vars
<1>7. ASSUME NEW r \in Reader, Load(r) \/ Clone(r) \/ ReadDone(r)
      PROVE  stored' = stored
  BY <1>7 DEF Load, Clone, ReadDone
<1> QED
  BY <1>1, <1>2, <1>3, <1>4, <1>5, <1>6, <1>7 DEF Next, FlushStep

(* A stored sample stays, is folded, or gives way to a newer one of its    *)
(* second.                                                                 *)
LEMMA OlderStep ==
    ASSUME TypeOK, PoolInv, CountInv, [Next]_vars, NEW k \in SampleKey, NEW o \in stored[k].raw
    PROVE  \/ o \in stored'[k].raw \cup stored'[k].folded
           \/ \E p \in stored'[k].raw : p.at = o.at /\ Newer(p, o)
<1>1. k \in Key /\ stored[k] \in SeriesState
  BY DEF Key, TypeOK
<1>2. CASE stored'[k] = stored[k]
  BY <1>2
<1>3. CASE MergeStep(k)
  <2>1. PICK D \in SUBSET Op : /\ stored'[k] = Merged(k, stored[k], D)
                               /\ Distinct(stored[k].raw \cup D)
    BY <1>3 DEF MergeStep
  <2> QED
    BY <1>1, <2>1, MergeKeeps
<1>4. CASE CompactStep(k)
  BY <1>1, <1>4, CompactedFacts DEF CompactStep
<1> QED
  BY <1>1, <1>2, <1>3, <1>4, StoreSteps

(* Last write wins in the store: a stored sample is only ever replaced by  *)
(* a newer one of its second, or folded into a bucket.                     *)
THEOREM StoredNeverOlder == Spec => NeverOlder
<1>1. TypeOK /\ PoolInv /\ CountInv /\ [Next]_vars =>
        [\A k \in SampleKey : \A o \in stored[k].raw :
            \/ o \in stored'[k].raw \cup stored'[k].folded
            \/ \E p \in stored'[k].raw : p.at = o.at /\ Newer(p, o)]_vars
  BY OlderStep
<1> QED
  BY <1>1, InitCount, NextCount, InitPool, NextPool, TypeCorrect, PTL DEF Spec, NeverOlder

=============================================================================
