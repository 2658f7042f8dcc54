--------------------------- MODULE TrendDB_ledger ---------------------------
(***************************************************************************)
(* Where acknowledged operations go, and what reads return of them, for    *)
(* every value of the constants.                                           *)
(*                                                                         *)
(*  1. No silent loss (TrendDB!NoSilentLoss).  An acknowledged operation   *)
(*     starts out waiting or accounted for; one that waits keeps waiting,  *)
(*     is merged, or is dropped by a failed flush; one that is accounted   *)
(*     for stays so through every merge and compaction.                    *)
(*  2. Flushes (TrendDB!FlushSettles).  An operation enters the buffer     *)
(*     only when its call returns, so one that left the buffer never comes *)
(*     back to it: that is what a Flush that returned nil can answer for.  *)
(*  3. The ledger (TrendDB!LedgerSpec).  One that a failed flush gave up   *)
(*     waits nowhere any more: with that the three places of Ledger.tla    *)
(*     are apart, and every step of TrendDB is a step of the ledger or     *)
(*     leaves it alone.                                                    *)
(*  4. Reads.  db.load and buffer.clone look at the store and at the       *)
(*     buffer at two moments, with any number of writes, flushes and       *)
(*     compactions in between: no operation is then counted twice          *)
(*     (TrendDB!ReadCountsOnce), and none that was acknowledged before the *)
(*     read is missed unless a flush took it out of the buffer meanwhile   *)
(*     (TrendDB!ReadMissesOnlyFlushed).                                    *)
(***************************************************************************)
EXTENDS TrendDB_proofs

(* Clocks and replicas are numbers. *)
LEMMA StampTypes == \A o \in Op : o.clock \in Nat /\ o.replica \in Nat
<1>1. \A o \in Op : o.clock \in 1..MaxClock /\ o.replica \in Replica
  BY DEF Op
<1>2. \A o \in Op : o.clock \in Nat
  BY <1>1, MaxClockAssumption
<1>3. \A o \in Op : o.replica \in Nat
  BY <1>1, ReplicaAssumption
<1> QED
  BY <1>2, <1>3

(* The last-write-wins order is transitive. *)
LEMMA NewerTransitive ==
    ASSUME NEW a \in Op, NEW b \in Op, NEW c \in Op, Newer(a, b), Newer(b, c)
    PROVE  Newer(a, c)
<1>1. /\ a.clock \in Nat /\ b.clock \in Nat /\ c.clock \in Nat
      /\ a.replica \in Nat /\ b.replica \in Nat /\ c.replica \in Nat
  BY StampTypes
<1> QED
  BY <1>1 DEF Newer

(* A merge accounts for what it is given. *)
LEMMA MergeAccounts ==
    ASSUME NEW k \in Key, NEW s \in SeriesState, NEW D \in SUBSET Op,
           Distinct(s.raw \cup D), NEW o \in D
    PROVE  Accounts(k, Merged(k, s, D), o)
  BY MergeKeeps DEF Accounts

(* What a series accounts for, a merge into it or a compaction of it does. *)
LEMMA AccountsStable ==
    ASSUME TypeOK, PoolInv, CountInv, [Next]_vars, NEW k \in Key, NEW o \in Op,
           Accounts(k, stored[k], o)
    PROVE  Accounts(k, stored'[k], o)
<1>1. stored[k] \in SeriesState
  BY DEF TypeOK
<1>2. PICK p \in stored[k].raw \cup stored[k].folded :
         p = o \/ (k \in SampleKey /\ p.at = o.at /\ Newer(p, o))
  BY DEF Accounts
<1>3. p \in Op
  BY <1>1, <1>2 DEF SeriesState
<1>4. CASE stored'[k] = stored[k]
  BY <1>4
<1>5. CASE MergeStep(k)
  <2>1. PICK D \in SUBSET Op : /\ stored'[k] = Merged(k, stored[k], D)
                               /\ Distinct(stored[k].raw \cup D)
    BY <1>5 DEF MergeStep
  <2>2. /\ stored'[k].folded = stored[k].folded
        /\ stored'[k].raw \subseteq stored[k].raw \cup D
    BY <1>1, <2>1, MergedFacts
  <2>3. CASE p \in stored[k].folded
    BY <1>2, <2>2, <2>3 DEF Accounts
  <2>4. CASE p \in stored[k].raw
    <3>1. PICK q \in stored'[k].raw :
             q = p \/ (k \in SampleKey /\ q.at = p.at /\ Newer(q, p))
      BY <1>1, <2>1, <2>4, MergeKeeps
    <3>2. q \in Op
      BY <1>1, <2>2 DEF SeriesState
    <3>3. q = o \/ (k \in SampleKey /\ q.at = o.at /\ Newer(q, o))
      BY <1>2, <1>3, <3>1, <3>2, NewerTransitive
    <3> QED
      BY <3>3 DEF Accounts
  <2> QED
    BY <1>2, <2>3, <2>4
<1>6. CASE CompactStep(k)
  <2>1. stored'[k].raw \cup stored'[k].folded = stored[k].raw \cup stored[k].folded
    BY <1>1, <1>6, CompactedFacts DEF CompactStep
  <2> QED
    BY <1>2, <2>1 DEF Accounts
<1> QED
  BY <1>4, <1>5, <1>6, StoreSteps

-----------------------------------------------------------------------------
(* An operation settled or still waiting after the step. *)
Settled(k, o) == o \in Waiting(k) \cup dropped[k] \/ Accounts(k, stored[k], o)

(* A merge or a failure of flusher f: what f held is merged or dropped.    *)
LEMMA StoreSettles ==
    ASSUME TypeOK, PoolInv, CountInv, NEW f \in Flusher, NEW j \in Key,
           FlushMerge(f, j) \/ FlushFail(f, j), NEW k \in Key, NEW o \in Waiting(k)
    PROVE  Settled(k, o)'
<1>1. stored[k] \in SeriesState /\ acked[k] \subseteq Op
  BY DEF TypeOK
<1>2. \A i \in Key : Buffered(i)' = Buffered(i)
  BY FlushMergeHolds, FlushFailHolds
<1>3. \A g \in Flusher : g # f => InFlight(g, k)' = InFlight(g, k)
  BY FlushMergeHolds, FlushFailHolds
<1>4. CASE o \notin InFlight(f, k)
  BY <1>2, <1>3, <1>4 DEF Settled, Waiting
<1>5. CASE o \in InFlight(f, k)
  <2>1. InFlight(f, k) \in SUBSET Op /\ Distinct(stored[k].raw \cup InFlight(f, k))
    <3>1. InFlight(f, k) \subseteq acked[k]
      BY DEF CountInv, WaitingOnce
    <3> QED
      BY <1>1, <3>1, KnownDistinct
  <2>2. CASE stored' = [stored EXCEPT ![j] = Merged(j, stored[j], InFlight(f, j))] /\ j = k
    <3>1. stored'[k] = Merged(k, stored[k], InFlight(f, k))
      BY <2>2 DEF TypeOK
    <3>2. Accounts(k, Merged(k, stored[k], InFlight(f, k)), o)
      <4>1. PICK D \in SUBSET Op : D = InFlight(f, k)
        BY <2>1
      <4>2. Accounts(k, Merged(k, stored[k], D), o)
        BY <1>1, <1>5, <2>1, <4>1, MergeAccounts
      <4> QED
        BY <4>1, <4>2
    <3>3. Accounts(k, stored'[k], o)
      BY <3>1, <3>2
    <3> QED
      BY <3>3 DEF Settled, Accounts
  <2>3. CASE FlushMerge(f, j) /\ j # k
    <3>1. InFlight(f, k)' = InFlight(f, k)
      BY <2>3, FlushMergeHolds
    <3> QED
      BY <1>5, <3>1 DEF Settled, Waiting
  <2>4. CASE o \in dropped'[k]
    BY <2>4 DEF Settled
  <2>5. CASE FlushMerge(f, j)
    <3>1. stored' = [stored EXCEPT ![j] = Merged(j, stored[j], InFlight(f, j))]
      BY <2>5, FlushMergeHolds
    <3> QED
      BY <2>2, <2>3, <2>5, <3>1
  <2>6. CASE FlushFail(f, j)
    <3>1. \/ dropped'[k] = dropped[k] \cup InFlight(f, k)
          \/ /\ stored' = [stored EXCEPT ![j] = Merged(j, stored[j], InFlight(f, j))]
             /\ j = k
      BY <2>6, FlushFailHolds
    <3> QED
      BY <1>5, <2>2, <2>4, <3>1
  <2> QED
    BY <2>5, <2>6
<1> QED
  BY <1>4, <1>5

(* One step of the others leaves a waiting operation waiting.              *)
LEMMA WaitingStays ==
    ASSUME TypeOK, PoolInv, [Next]_vars, NEW k \in Key, NEW o \in Waiting(k)
    PROVE  \/ o \in Waiting(k)'
           \/ \E f \in Flusher, j \in Key : FlushMerge(f, j) \/ FlushFail(f, j)
<1>1. ASSUME UNCHANGED <<items, heap, work>>
      PROVE  o \in Waiting(k)'
  BY <1>1, HoldsStable DEF Waiting
<1>2. ASSUME NEW w \in Writer, BufferWrite(w)
      PROVE  o \in Waiting(k)'
  BY <1>2, BufferWriteHolds DEF Waiting
<1>3. ASSUME NEW w \in Writer, Stamp(w) \/ DirectWrite(w) \/ DirectFail(w)
      PROVE  UNCHANGED <<items, heap, work>>
  BY <1>3 DEF Stamp, DirectWrite, DirectFail, bufferVars, flushVars
<1>4. ASSUME NEW f \in Flusher, FlushTake(f)
      PROVE  o \in Waiting(k)'
  <2>1. /\ InFlight(f, k) = {} /\ InFlight(f, k)' = Buffered(k)
        /\ \A g \in Flusher : g # f => InFlight(g, k)' = InFlight(g, k)
    BY <1>4, FlushTakeHolds
  <2> QED
    BY <2>1 DEF Waiting
<1>5. ASSUME NEW f \in Flusher, FlushRecycle(f)
      PROVE  o \in Waiting(k)'
  BY <1>5, FlushRecycleHolds DEF Waiting
<1>6. ASSUME NEW f \in Flusher, FlushCall(f) \/ FlushReturn(f) \/ FlushDone(f)
      PROVE  UNCHANGED <<items, heap, work>>
  BY <1>6 DEF FlushCall, FlushReturn, FlushDone, bufferVars
<1>7. ASSUME CloseStore \/ LoopExit \/ UNCHANGED vars
      PROVE  UNCHANGED <<items, heap, work>>
  BY <1>7 DEF CloseStore, LoopExit, bufferVars, vars
<1>8. ASSUME NEW r \in Reader, Load(r) \/ Clone(r) \/ ReadDone(r)
      PROVE  UNCHANGED <<items, heap, work>>
  BY <1>8 DEF Load, Clone, ReadDone, bufferVars, flushVars
<1>9. ASSUME NEW j \in Key, NEW c \in Cutoff, Compact(j, c)
      PROVE  UNCHANGED <<items, heap, work>>
  BY <1>9 DEF Compact, bufferVars, flushVars
<1> QED
  BY <1>1, <1>2, <1>3, <1>4, <1>5, <1>6, <1>7, <1>8, <1>9 DEF Next, FlushStep

-----------------------------------------------------------------------------
(* A write is acknowledged into the buffer or into the store.              *)
LEMMA AckSettled ==
    ASSUME TypeOK, PoolInv, CountInv, [Next]_vars, NEW k \in Key, NEW o \in acked'[k],
           o \notin acked[k]
    PROVE  Settled(k, o)'
<1>1. ASSUME NEW w \in Writer, BufferWrite(w)
      PROVE  Settled(k, o)'
  <2>1. acked'[k] \subseteq acked[k] \cup (IF k = stamped[w].key THEN {stamped[w].op} ELSE {})
    BY <1>1, BufferWriteHolds DEF BufferWrite, TypeOK
  <2>2. k = stamped[w].key /\ o = stamped[w].op
    BY <2>1
  <2>3. o \in Buffered(k)'
    BY <1>1, <2>2, BufferWriteHolds
  <2> QED
    BY <2>3 DEF Settled, Waiting
<1>2. ASSUME NEW w \in Writer, DirectWrite(w)
      PROVE  Settled(k, o)'
  <2>1. stamped[w] # Nil /\ stamped[w].key \in Key /\ stamped[w].op \in Op
    BY <1>2, StampedType DEF DirectWrite
  <2>2. acked'[k] \subseteq acked[k] \cup (IF k = stamped[w].key THEN {stamped[w].op} ELSE {})
    BY <1>2, <2>1 DEF DirectWrite, TypeOK
  <2>3. k = stamped[w].key /\ o = stamped[w].op
    BY <2>2
  <2>4. stored'[k] = Merged(k, stored[k], {o}) /\ stored[k] \in SeriesState
    BY <1>2, <2>3 DEF DirectWrite, TypeOK
  <2>5. Distinct(stored[k].raw \cup {o})
    <3>1. \A a \in stored[k].raw : a.replica = Me /\ a.clock # o.clock
      BY <2>1, <2>3 DEF CountInv, KnownStamps, FreshStamps, Known
    <3>2. \A a, b \in stored[k].raw : a.clock = b.clock => a = b
      BY DEF CountInv, KnownStamps, Known
    <3>3. o.replica = Me
      BY <2>1, <2>3 DEF CountInv, FreshStamps
    <3> QED
      BY <3>1, <3>2, <3>3 DEF Distinct
  <2>6. Accounts(k, stored'[k], o)
    BY <2>1, <2>3, <2>4, <2>5, MergeAccounts
  <2> QED
    BY <2>6 DEF Settled, Accounts
<1>3. ASSUME NEW w \in Writer, Stamp(w) \/ DirectFail(w)
      PROVE  acked' = acked
  BY <1>3 DEF Stamp, DirectFail
<1>4. ASSUME NEW f \in Flusher, FlushCall(f) \/ FlushTake(f) \/ FlushRecycle(f)
                                \/ FlushReturn(f) \/ FlushDone(f)
      PROVE  acked' = acked
  BY <1>4 DEF FlushCall, FlushTake, FlushRecycle, FlushReturn, FlushDone
<1>5. ASSUME NEW f \in Flusher, NEW j \in Key, FlushMerge(f, j) \/ FlushFail(f, j)
      PROVE  acked' = acked
  BY <1>5 DEF FlushMerge, FlushFail
<1>6. ASSUME CloseStore \/ LoopExit \/ UNCHANGED vars
      PROVE  acked' = acked
  BY <1>6 DEF CloseStore, LoopExit, vars
<1>7. ASSUME NEW r \in Reader, Load(r) \/ Clone(r) \/ ReadDone(r)
      PROVE  acked' = acked
  BY <1>7 DEF Load, Clone, ReadDone
<1>8. ASSUME NEW j \in Key, NEW c \in Cutoff, Compact(j, c)
      PROVE  acked' = acked
  BY <1>8 DEF Compact
<1> QED
  BY <1>1, <1>2, <1>3, <1>4, <1>5, <1>6, <1>7, <1>8 DEF Next, FlushStep

(* Dropped operations are remembered. *)
LEMMA DroppedGrows ==
    ASSUME TypeOK, PoolInv, [Next]_vars, NEW k \in Key
    PROVE  dropped[k] \subseteq dropped'[k]
<1>1. ASSUME NEW f \in Flusher, NEW j \in Key, FlushFail(f, j)
      PROVE  dropped[k] \subseteq dropped'[k]
  BY <1>1, FlushFailHolds
<1>2. ASSUME NEW w \in Writer, Stamp(w) \/ BufferWrite(w) \/ DirectWrite(w) \/ DirectFail(w)
      PROVE  dropped' = dropped
  BY <1>2 DEF Stamp, BufferWrite, DirectWrite, DirectFail
<1>3. ASSUME NEW f \in Flusher, FlushCall(f) \/ FlushTake(f) \/ FlushRecycle(f)
                                \/ FlushReturn(f) \/ FlushDone(f)
      PROVE  dropped' = dropped
  BY <1>3 DEF FlushCall, FlushTake, FlushRecycle, FlushReturn, FlushDone
<1>4. ASSUME NEW f \in Flusher, NEW j \in Key, FlushMerge(f, j)
      PROVE  dropped' = dropped
  BY <1>4 DEF FlushMerge
<1>5. ASSUME CloseStore \/ LoopExit \/ UNCHANGED vars
      PROVE  dropped' = dropped
  BY <1>5 DEF CloseStore, LoopExit, vars
<1>6. ASSUME NEW r \in Reader, Load(r) \/ Clone(r) \/ ReadDone(r)
      PROVE  dropped' = dropped
  BY <1>6 DEF Load, Clone, ReadDone
<1>7. ASSUME NEW j \in Key, NEW c \in Cutoff, Compact(j, c)
      PROVE  dropped' = dropped
  BY <1>7 DEF Compact
<1> QED
  BY <1>1, <1>2, <1>3, <1>4, <1>5, <1>6, <1>7 DEF Next, FlushStep

(* No step loses an accepted write silently. *)
LEMMA NextLoss ==
    TypeOK /\ PoolInv /\ CountInv /\ NoSilentLoss /\ [Next]_vars => NoSilentLoss'
<1> SUFFICES ASSUME TypeOK, PoolInv, CountInv, NoSilentLoss, [Next]_vars
             PROVE  NoSilentLoss'
  OBVIOUS
<1> SUFFICES ASSUME NEW k \in Key, NEW o \in acked'[k]
             PROVE  Settled(k, o)'
  BY DEF NoSilentLoss, Settled
<1>1. CASE o \notin acked[k]
  BY <1>1, AckSettled
<1>2. CASE o \in acked[k]
  <2>1. Settled(k, o) /\ o \in Op
    BY <1>2 DEF NoSilentLoss, Settled, TypeOK
  <2>2. CASE Accounts(k, stored[k], o)
    <3>1. Accounts(k, stored'[k], o)
      BY <2>1, <2>2, AccountsStable
    <3> QED
      BY <3>1 DEF Settled, Accounts
  <2>3. CASE o \in dropped[k]
    BY <2>3, DroppedGrows DEF Settled
  <2>4. CASE o \in Waiting(k)
    <3>1. CASE o \in Waiting(k)'
      BY <3>1 DEF Settled
    <3>2. CASE \E f \in Flusher, j \in Key : FlushMerge(f, j) \/ FlushFail(f, j)
      BY <2>4, <3>2, StoreSettles
    <3> QED
      BY <2>4, <3>1, <3>2, WaitingStays
  <2> QED
    BY <2>1, <2>2, <2>3, <2>4 DEF Settled
<1> QED
  BY <1>1, <1>2

(* A write whose call returned nil is waiting in memory, accounted for by  *)
(* the stored series, or was given up by a flush that reported an error.   *)
THEOREM NothingLostSilently == Spec => []NoSilentLoss
<1>1. Init => NoSilentLoss
  BY DEF Init, NoOps, NoSilentLoss
<1> QED
  BY <1>1, NextLoss, InitCount, NextCount, InitPool, NextPool, TypeCorrect, PTL DEF Spec

-----------------------------------------------------------------------------
(* A step that moves no operation. *)
Quiet ==
    /\ UNCHANGED <<stored, acked, dropped>>
    /\ \A k \in Key : Buffered(k)' = Buffered(k)
    /\ \A f \in Flusher, k \in Key : InFlight(f, k)' = InFlight(f, k)

(* The steps that move operations, and the others. *)
LEMMA StepKinds ==
    ASSUME TypeOK, PoolInv, [Next]_vars
    PROVE  \/ \E w \in Writer : BufferWrite(w) \/ DirectWrite(w) \/ DirectFail(w)
           \/ \E f \in Flusher : FlushTake(f)
           \/ \E f \in Flusher, k \in Key : FlushMerge(f, k) \/ FlushFail(f, k)
           \/ \E k \in Key, c \in Cutoff : Compact(k, c)
           \/ Quiet
<1>1. ASSUME UNCHANGED <<items, heap, work, stored, acked, dropped>>
      PROVE  Quiet
  BY <1>1, HoldsStable DEF Quiet
<1>2. ASSUME NEW w \in Writer, Stamp(w)
      PROVE  UNCHANGED <<items, heap, work, stored, acked, dropped>>
  BY <1>2 DEF Stamp, bufferVars, flushVars
<1>3. ASSUME NEW f \in Flusher, FlushRecycle(f)
      PROVE  Quiet
  <2>1. UNCHANGED <<stored, acked, dropped>>
    BY <1>3 DEF FlushRecycle
  <2> QED
    BY <1>3, <2>1, FlushRecycleHolds DEF Quiet
<1>4. ASSUME NEW f \in Flusher, FlushCall(f) \/ FlushReturn(f) \/ FlushDone(f)
      PROVE  UNCHANGED <<items, heap, work, stored, acked, dropped>>
  BY <1>4 DEF FlushCall, FlushReturn, FlushDone, bufferVars
<1>5. ASSUME CloseStore \/ LoopExit \/ UNCHANGED vars
      PROVE  UNCHANGED <<items, heap, work, stored, acked, dropped>>
  BY <1>5 DEF CloseStore, LoopExit, bufferVars, vars
<1>6. ASSUME NEW r \in Reader, Load(r) \/ Clone(r) \/ ReadDone(r)
      PROVE  UNCHANGED <<items, heap, work, stored, acked, dropped>>
  BY <1>6 DEF Load, Clone, ReadDone, bufferVars, flushVars
<1> QED
  BY <1>1, <1>2, <1>3, <1>4, <1>5, <1>6 DEF Next, FlushStep

(* A step of a writer: what becomes of its operation.                      *)
LEMMA WriterHolds ==
    ASSUME TypeOK, PoolInv, CountInv, NEW w \in Writer,
           BufferWrite(w) \/ DirectWrite(w) \/ DirectFail(w)
    PROVE  /\ stamped[w] # Nil /\ stamped[w].key \in Key /\ stamped[w].op \in Op
           /\ \A j \in Key : stamped[w].op \notin acked[j] \cup Waiting(j)
           /\ \A f \in Flusher, j \in Key : InFlight(f, j)' = InFlight(f, j)
           /\ \A j \in Key : j # stamped[w].key =>
                 acked'[j] = acked[j] /\ Buffered(j)' = Buffered(j)
           /\ dropped' = dropped
<1>1. stamped[w] # Nil /\ stamped[w].key \in Key /\ stamped[w].op \in Op
  BY StampedType DEF BufferWrite, DirectWrite, DirectFail
<1>2. \A j \in Key : stamped[w].op \notin acked[j] \cup Waiting(j)
  BY <1>1, StampedIsNew DEF Known, Waiting
<1>3. \A j \in Key : j # stamped[w].key => acked'[j] = acked[j]
  BY <1>1 DEF BufferWrite, DirectWrite, DirectFail, TypeOK
<1>4. dropped' = dropped
  BY DEF BufferWrite, DirectWrite, DirectFail
<1>5. CASE BufferWrite(w)
  BY <1>1, <1>2, <1>3, <1>4, <1>5, BufferWriteHolds
<1>6. CASE DirectWrite(w) \/ DirectFail(w)
  <2>1. UNCHANGED <<items, heap, work>>
    BY <1>6 DEF DirectWrite, DirectFail, bufferVars, flushVars
  <2> QED
    BY <1>1, <1>2, <1>3, <1>4, <2>1, HoldsStable
<1> QED
  BY <1>5, <1>6

(* What each of the three kinds of write does to its own key. *)
LEMMA WriteHolds ==
    ASSUME TypeOK, PoolInv, NEW w \in Writer, NEW k \in Key, stamped[w].key = k
    PROVE  /\ BufferWrite(w) => /\ acked'[k] = acked[k] \cup {stamped[w].op}
                                /\ Buffered(k)' = Buffered(k) \cup {stamped[w].op}
           /\ DirectWrite(w) => /\ acked'[k] = acked[k] \cup {stamped[w].op}
                                /\ Buffered(k)' = Buffered(k)
           /\ DirectFail(w)  => /\ acked'[k] = acked[k]
                                /\ Buffered(k)' = Buffered(k)
<1>1. BufferWrite(w) \/ DirectWrite(w) => acked'[k] = acked[k] \cup {stamped[w].op}
  BY DEF BufferWrite, DirectWrite, TypeOK
<1>2. DirectFail(w) => acked'[k] = acked[k]
  BY DEF DirectFail
<1>3. DirectWrite(w) \/ DirectFail(w) => Buffered(k)' = Buffered(k)
  BY DEF DirectWrite, DirectFail, bufferVars, Buffered, Holding
<1>4. BufferWrite(w) => Buffered(k)' = Buffered(k) \cup {stamped[w].op}
  BY BufferWriteHolds
<1> QED
  BY <1>1, <1>2, <1>3, <1>4

(* An acknowledged operation stays acknowledged, and one that is not in    *)
(* the buffer does not get into it.                                        *)
LEMMA NoReturn ==
    ASSUME TypeOK, PoolInv, CountInv, [Next]_vars, NEW k \in Key
    PROVE  /\ acked[k] \subseteq acked'[k]
           /\ acked[k] \cap Buffered(k)' \subseteq Buffered(k)
<1>1. ASSUME NEW w \in Writer, BufferWrite(w) \/ DirectWrite(w) \/ DirectFail(w)
      PROVE  /\ acked[k] \subseteq acked'[k]
             /\ acked[k] \cap Buffered(k)' \subseteq Buffered(k)
  BY <1>1, WriterHolds, WriteHolds
<1>2. ASSUME NEW f \in Flusher, FlushTake(f)
      PROVE  /\ acked[k] \subseteq acked'[k]
             /\ acked[k] \cap Buffered(k)' \subseteq Buffered(k)
  <2>1. acked' = acked
    BY <1>2 DEF FlushTake
  <2> QED
    BY <1>2, <2>1, FlushTakeHolds
<1>3. ASSUME NEW f \in Flusher, NEW j \in Key, FlushMerge(f, j) \/ FlushFail(f, j)
      PROVE  acked' = acked /\ Buffered(k)' = Buffered(k)
  <2>1. acked' = acked
    BY <1>3 DEF FlushMerge, FlushFail
  <2> QED
    BY <1>3, <2>1, FlushMergeHolds, FlushFailHolds
<1>4. ASSUME NEW j \in Key, NEW c \in Cutoff, Compact(j, c)
      PROVE  acked' = acked /\ Buffered(k)' = Buffered(k)
  <2>1. acked' = acked /\ UNCHANGED <<items, heap, work>>
    BY <1>4 DEF Compact, bufferVars, flushVars
  <2> QED
    BY <2>1, HoldsStable
<1>5. CASE Quiet
  BY <1>5 DEF Quiet
<1> QED
  BY <1>1, <1>2, <1>3, <1>4, <1>5, StepKinds

-----------------------------------------------------------------------------
(* A flush owes what was acknowledged when it was called; once it has      *)
(* swapped the buffer, none of that is in the buffer.                      *)
OwedGone ==
    \A f \in Flusher, k \in Key :
        /\ owed[f][k] \subseteq acked[k]
        /\ phase[f] \in {"merging", "returned"} => owed[f][k] \cap Buffered(k) = {}

(* How the phase and the debt of a flush change.                           *)
LEMMA OwedSteps ==
    ASSUME TypeOK, [Next]_vars, NEW f \in Flusher
    PROVE  \/ owed'[f] = owed[f] /\ phase'[f] = phase[f]
           \/ owed'[f] = acked /\ phase'[f] = "called"
           \/ owed'[f] = NoOps
           \/ owed'[f] = owed[f] /\ phase'[f] = "exited"
           \/ FlushTake(f) /\ owed'[f] = owed[f]
           \/ owed'[f] = owed[f] /\ phase[f] = "merging" /\ phase'[f] = "returned"
<1>1. ASSUME NEW w \in Writer, Stamp(w) \/ BufferWrite(w) \/ DirectWrite(w) \/ DirectFail(w)
      PROVE  owed' = owed /\ phase' = phase
  BY <1>1 DEF Stamp, BufferWrite, DirectWrite, DirectFail, flushVars
<1>2. ASSUME NEW r \in Reader, Load(r) \/ Clone(r) \/ ReadDone(r)
      PROVE  owed' = owed /\ phase' = phase
  BY <1>2 DEF Load, Clone, ReadDone, flushVars
<1>3. ASSUME NEW k \in Key, NEW c \in Cutoff, Compact(k, c)
      PROVE  owed' = owed /\ phase' = phase
  BY <1>3 DEF Compact, flushVars
<1>4. ASSUME NEW g \in Flusher, FlushCall(g)
      PROVE  \/ owed'[f] = owed[f] /\ phase'[f] = phase[f]
             \/ owed'[f] = acked /\ phase'[f] = "called"
  BY <1>4 DEF FlushCall, TypeOK
<1>5. ASSUME NEW g \in Flusher, FlushTake(g)
      PROVE  owed'[f] = owed[f] /\ (g = f \/ phase'[f] = phase[f])
  BY <1>5 DEF FlushTake, TypeOK
<1>6. ASSUME NEW g \in Flusher, NEW k \in Key, FlushMerge(g, k)
      PROVE  owed' = owed /\ phase' = phase
  BY <1>6 DEF FlushMerge
<1>7. ASSUME NEW g \in Flusher, NEW k \in Key, FlushFail(g, k)
      PROVE  owed'[f] = NoOps \/ (owed'[f] = owed[f] /\ phase'[f] = phase[f])
  BY <1>7 DEF FlushFail, TypeOK
<1>8. ASSUME NEW g \in Flusher, FlushRecycle(g)
      PROVE  owed' = owed /\ phase' = phase
  BY <1>8 DEF FlushRecycle
<1>9. ASSUME NEW g \in Flusher, FlushReturn(g)
      PROVE  /\ owed'[f] = owed[f]
             /\ phase'[f] = phase[f] \/ (phase[f] = "merging" /\ phase'[f] = "returned")
  BY <1>9 DEF FlushReturn, TypeOK
<1>10. ASSUME NEW g \in Flusher, FlushDone(g)
       PROVE  owed'[f] = NoOps \/ (owed'[f] = owed[f] /\ phase'[f] = phase[f])
  BY <1>10 DEF FlushDone, TypeOK
<1>11. ASSUME CloseStore \/ LoopExit
       PROVE  owed'[f] = owed[f] /\ (phase'[f] = phase[f] \/ phase'[f] = "exited")
  BY <1>11 DEF CloseStore, LoopExit, TypeOK
<1>12. CASE UNCHANGED vars
  BY <1>12 DEF vars
<1> QED
  BY <1>1, <1>2, <1>3, <1>4, <1>5, <1>6, <1>7, <1>8, <1>9, <1>10, <1>11, <1>12
     DEF Next, FlushStep

(* Nothing is owed at the start. *)
LEMMA InitOwed == Init => OwedGone
  BY DEF Init, OwedGone, NoOps

(* Every step keeps account of what the flushes owe. *)
LEMMA NextOwed == TypeOK /\ PoolInv /\ CountInv /\ OwedGone /\ [Next]_vars => OwedGone'
<1> SUFFICES ASSUME TypeOK, PoolInv, CountInv, OwedGone, [Next]_vars,
                    NEW f \in Flusher, NEW k \in Key
             PROVE  /\ owed'[f][k] \subseteq acked'[k]
                    /\ phase'[f] \in {"merging", "returned"} =>
                          owed'[f][k] \cap Buffered(k)' = {}
  BY DEF OwedGone
<1>1. /\ acked[k] \subseteq acked'[k]
      /\ acked[k] \cap Buffered(k)' \subseteq Buffered(k)
  BY NoReturn
<1>2. /\ owed[f][k] \subseteq acked[k]
      /\ phase[f] \in {"merging", "returned"} => owed[f][k] \cap Buffered(k) = {}
  BY DEF OwedGone
<1>3. CASE owed'[f] = owed[f] /\ phase'[f] = phase[f]
  BY <1>1, <1>2, <1>3
<1>4. CASE owed'[f] = acked /\ phase'[f] = "called"
  BY <1>1, <1>4
<1>5. CASE owed'[f] = NoOps
  BY <1>5 DEF NoOps
<1>6. CASE owed'[f] = owed[f] /\ phase'[f] = "exited"
  BY <1>1, <1>2, <1>6
<1>7. CASE FlushTake(f) /\ owed'[f] = owed[f]
  <2>1. Buffered(k)' = {}
    BY <1>7, FlushTakeHolds
  <2> QED
    BY <1>1, <1>2, <1>7, <2>1
<1>8. CASE owed'[f] = owed[f] /\ phase[f] = "merging" /\ phase'[f] = "returned"
  BY <1>1, <1>2, <1>8
<1> QED
  BY <1>3, <1>4, <1>5, <1>6, <1>7, <1>8, OwedSteps

(* When Flush returns nil, whatever was acknowledged before it was called  *)
(* is accounted for by the store, or another flush holds it or has lost    *)
(* it: none of it is left in the buffer.                                   *)
THEOREM FlushAnswers == Spec => []FlushSettles
<1>1. TypeOK /\ PoolInv /\ NoSilentLoss /\ OwedGone => FlushSettles
  <2> SUFFICES ASSUME PoolInv, NoSilentLoss, OwedGone,
                      NEW f \in Flusher, phase[f] = "returned",
                      NEW k \in Key, NEW o \in owed[f][k]
               PROVE  \/ Accounts(k, stored[k], o)
                      \/ o \in dropped[k]
                      \/ \E g \in Flusher \ {f} : o \in InFlight(g, k)
    BY DEF FlushSettles
  <2>1. o \in acked[k] /\ o \notin Buffered(k)
    BY DEF OwedGone
  <2>2. InFlight(f, k) = {}
    BY DEF PoolInv, IdleHoldsNothing, InFlight, Holding, NoWork
  <2>3. o \in Waiting(k) \cup dropped[k] \/ Accounts(k, stored[k], o)
    BY <2>1 DEF NoSilentLoss
  <2> QED
    BY <2>1, <2>2, <2>3 DEF Waiting
<1> QED
  BY <1>1, InitOwed, NextOwed, NothingLostSilently, InitCount, NextCount, InitPool, NextPool,
     TypeCorrect, PTL DEF Spec

-----------------------------------------------------------------------------
(* What a failed flush gave up was acknowledged and waits nowhere; without *)
(* a buffer nothing ever waits.                                            *)
DroppedApart ==
    \A k \in Key : dropped[k] \subseteq acked[k] /\ dropped[k] \cap Waiting(k) = {}

(* What a merge or a failure of a flush does to the waiting operations of  *)
(* a key: some leave, and those given up are among them.                   *)
LEMMA SettleHolds ==
    ASSUME TypeOK, PoolInv, CountInv, NEW f \in Flusher, NEW j \in Key,
           FlushMerge(f, j) \/ FlushFail(f, j), NEW k \in Key
    PROVE  /\ acked'[k] = acked[k]
           /\ Waiting(k)' \subseteq Waiting(k)
           /\ dropped[k] \subseteq dropped'[k]
           /\ dropped'[k] \subseteq dropped[k] \cup (Waiting(k) \ Waiting(k)')
<1>1. acked' = acked
  BY DEF FlushMerge, FlushFail
<1>2. /\ Buffered(k)' = Buffered(k)
      /\ \A g \in Flusher : g # f => InFlight(g, k)' = InFlight(g, k)
      /\ InFlight(f, k)' \subseteq InFlight(f, k)
  BY FlushMergeHolds, FlushFailHolds
<1>3. Waiting(k)' \subseteq Waiting(k)
  BY <1>2 DEF Waiting
<1>4. CASE FlushMerge(f, j)
  <2>1. dropped' = dropped
    BY <1>4 DEF FlushMerge
  <2> QED
    BY <1>1, <1>3, <2>1
<1>5. CASE FlushFail(f, j)
  <2>1. /\ InFlight(f, k)' = {}
        /\ dropped'[k] = dropped[k] \/ dropped'[k] = dropped[k] \cup InFlight(f, k)
    BY <1>5, FlushFailHolds
  <2>2. InFlight(f, k) \subseteq Waiting(k)
    BY DEF Waiting
  <2>3. /\ InFlight(f, k) \cap Buffered(k) = {}
        /\ \A g \in Flusher : g # f => InFlight(f, k) \cap InFlight(g, k) = {}
    BY DEF CountInv, WaitingOnce
  <2>4. InFlight(f, k) \cap Waiting(k)' = {}
    BY <1>2, <2>1, <2>3 DEF Waiting
  <2> QED
    BY <1>1, <1>3, <2>1, <2>2, <2>4
<1> QED
  BY <1>4, <1>5

(* The operations of a key after a step of the ledger.                     *)
SettleStep == \A k \in Key : /\ acked'[k] = acked[k]
                             /\ Waiting(k)' \subseteq Waiting(k)
                             /\ dropped[k] \subseteq dropped'[k]
                             /\ dropped'[k] \subseteq dropped[k] \cup (Waiting(k) \ Waiting(k)')

AcceptStep ==
    \E k \in Key, op \in Op :
        /\ op \notin acked[k] /\ op \notin Waiting(k)
        /\ \A j \in Key \ {k} : acked'[j] = acked[j] /\ Waiting(j)' = Waiting(j)
        /\ acked'[k] = acked[k] \cup {op}
        /\ Waiting(k)' = Waiting(k) \cup {op} \/ Waiting(k)' = Waiting(k)
        /\ dropped' = dropped

RestStep ==
    \A k \in Key : /\ acked'[k] = acked[k] /\ Waiting(k)' = Waiting(k)
                   /\ dropped'[k] = dropped[k]

(* A step accepts a write, settles some, or does neither. *)
LEMMA LedgerSteps ==
    ASSUME TypeOK, PoolInv, CountInv, [Next]_vars
    PROVE  SettleStep \/ AcceptStep \/ RestStep
<1>1. ASSUME NEW w \in Writer, BufferWrite(w) \/ DirectWrite(w) \/ DirectFail(w)
      PROVE  AcceptStep \/ RestStep
  <2>1. PICK k \in Key, op \in Op : k = stamped[w].key /\ op = stamped[w].op
    BY <1>1, WriterHolds
  <2>2. /\ op \notin acked[k] /\ op \notin Waiting(k) /\ dropped' = dropped
        /\ \A j \in Key \ {k} : acked'[j] = acked[j] /\ Waiting(j)' = Waiting(j)
        /\ \A f \in Flusher : InFlight(f, k)' = InFlight(f, k)
    BY <1>1, <2>1, WriterHolds DEF Waiting
  <2>3. CASE BufferWrite(w)
    <3>1. acked'[k] = acked[k] \cup {op} /\ Buffered(k)' = Buffered(k) \cup {op}
      BY <2>1, <2>3, WriteHolds
    <3>2. Waiting(k)' = Waiting(k) \cup {op}
      BY <2>2, <3>1 DEF Waiting
    <3> QED
      BY <2>2, <3>1, <3>2 DEF AcceptStep
  <2>4. CASE DirectWrite(w)
    <3>1. acked'[k] = acked[k] \cup {op} /\ Buffered(k)' = Buffered(k)
      BY <2>1, <2>4, WriteHolds
    <3>2. Waiting(k)' = Waiting(k)
      BY <2>2, <3>1 DEF Waiting
    <3> QED
      BY <2>2, <3>1, <3>2 DEF AcceptStep
  <2>5. CASE DirectFail(w)
    <3>1. acked'[k] = acked[k] /\ Buffered(k)' = Buffered(k)
      BY <2>1, <2>5, WriteHolds
    <3>2. Waiting(k)' = Waiting(k)
      BY <2>2, <3>1 DEF Waiting
    <3> QED
      BY <2>2, <3>1, <3>2 DEF RestStep
  <2> QED
    BY <1>1, <2>3, <2>4, <2>5
<1>2. ASSUME NEW f \in Flusher, FlushTake(f)
      PROVE  RestStep
  <2>1. acked' = acked /\ dropped' = dropped
    BY <1>2 DEF FlushTake
  <2>2. ASSUME NEW k \in Key
        PROVE  Waiting(k)' = Waiting(k)
    <3>1. /\ Buffered(k)' = {} /\ InFlight(f, k) = {}
          /\ InFlight(f, k)' = Buffered(k)
          /\ \A g \in Flusher : g # f => InFlight(g, k)' = InFlight(g, k)
      BY <1>2, FlushTakeHolds
    <3> QED
      BY <3>1 DEF Waiting
  <2> QED
    BY <2>1, <2>2 DEF RestStep
<1>3. ASSUME NEW f \in Flusher, NEW j \in Key, FlushMerge(f, j) \/ FlushFail(f, j)
      PROVE  SettleStep
  BY <1>3, SettleHolds DEF SettleStep
<1>4. ASSUME NEW j \in Key, NEW c \in Cutoff, Compact(j, c)
      PROVE  RestStep
  <2>1. acked' = acked /\ dropped' = dropped /\ UNCHANGED <<items, heap, work>>
    BY <1>4 DEF Compact, bufferVars, flushVars
  <2> QED
    BY <2>1, HoldsStable DEF RestStep, Waiting
<1>5. CASE Quiet
  BY <1>5 DEF Quiet, RestStep, Waiting
<1> QED
  BY <1>1, <1>2, <1>3, <1>4, <1>5, StepKinds

(* Nothing is dropped at the start. *)
LEMMA InitDropped == Init => DroppedApart
  BY DEF Init, DroppedApart, NoOps

(* What a failed flush dropped waits nowhere, whatever the step. *)
LEMMA NextDropped ==
    TypeOK /\ PoolInv /\ CountInv /\ DroppedApart /\ [Next]_vars => DroppedApart'
<1> SUFFICES ASSUME TypeOK, PoolInv, CountInv, DroppedApart, [Next]_vars, NEW k \in Key
             PROVE  dropped'[k] \subseteq acked'[k] /\ dropped'[k] \cap Waiting(k)' = {}
  BY DEF DroppedApart
<1>1. dropped[k] \subseteq acked[k] /\ dropped[k] \cap Waiting(k) = {}
  BY DEF DroppedApart
<1>2. Waiting(k) \subseteq acked[k]
  BY DEF CountInv, WaitingOnce, Waiting
<1>3. CASE SettleStep
  BY <1>1, <1>2, <1>3 DEF SettleStep
<1>4. CASE AcceptStep
  <2>1. PICK i \in Key, op \in Op :
           /\ op \notin acked[i]
           /\ \A j \in Key \ {i} : acked'[j] = acked[j] /\ Waiting(j)' = Waiting(j)
           /\ acked'[i] = acked[i] \cup {op}
           /\ Waiting(i)' = Waiting(i) \cup {op} \/ Waiting(i)' = Waiting(i)
           /\ dropped' = dropped
    BY <1>4 DEF AcceptStep
  <2>2. CASE k = i
    BY <1>1, <2>1, <2>2
  <2>3. CASE k # i
    BY <1>1, <2>1, <2>3
  <2> QED
    BY <2>2, <2>3
<1>5. CASE RestStep
  BY <1>1, <1>5 DEF RestStep
<1> QED
  BY <1>3, <1>4, <1>5, LedgerSteps

-----------------------------------------------------------------------------
(* The refinement.  The ledger's variables are sets of pairs; what is kept *)
(* is whatever was acknowledged and is neither waiting nor lost.           *)
accepted == Pairs(acked)
waiting  == Pairs([k \in Key |-> Waiting(k)])
kept     == Pairs([k \in Key |-> {o \in acked[k] \ (Waiting(k) \cup dropped[k]) :
                                      Accounts(k, stored[k], o)}])
lost     == Pairs(dropped)

(* The pairs of a family of sets are its members with their keys. *)
LEMMA InPairs ==
    ASSUME NEW F
    PROVE  /\ \A k \in Key : \A o : <<k, o>> \in Pairs(F) <=> o \in F[k]
           /\ \A e \in Pairs(F) : \E k \in Key : \E o \in F[k] : e = <<k, o>>
  BY DEF Pairs

(* Two sets of pairs are compared key by key.                              *)
LEMMA SamePairs ==
    ASSUME NEW F, NEW G, \A k \in Key : F[k] = G[k]
    PROVE  Pairs(F) = Pairs(G)
  BY DEF Pairs

KeptRest == kept = accepted \ (waiting \cup lost)

(* The writes neither waiting nor lost are those the series accounts for. *)
LEMMA KeptIs == NoSilentLoss => KeptRest
<1> SUFFICES ASSUME NoSilentLoss
             PROVE  KeptRest
  OBVIOUS
<1> DEFINE F == [k \in Key |-> {o \in acked[k] \ (Waiting(k) \cup dropped[k]) :
                                    Accounts(k, stored[k], o)}]
           G == [k \in Key |-> Waiting(k)]
<1>1. \A k \in Key : F[k] = acked[k] \ (G[k] \cup dropped[k])
  BY DEF NoSilentLoss
<1> HIDE DEF F, G
<1>2. Pairs(F) = Pairs(acked) \ (Pairs(G) \cup Pairs(dropped))
  BY <1>1, InPairs
<1> QED
  BY <1>2 DEF F, G, KeptRest, kept, accepted, waiting, lost

(* The initial states map to the ledger's. *)
LEMMA LedgerInit == Init => Promise!Init
<1> SUFFICES ASSUME Init
             PROVE  accepted = {} /\ waiting = {} /\ kept = {} /\ lost = {}
  BY DEF Promise!Init, accepted, waiting, kept, lost
<1>1. \A k \in Key : acked[k] = {} /\ dropped[k] = {} /\ Waiting(k) = {}
  BY DEF Init, NoOps, NoWork, Waiting, Buffered, InFlight, Holding
<1> DEFINE F == [k \in Key |-> {o \in acked[k] \ (Waiting(k) \cup dropped[k]) :
                                    Accounts(k, stored[k], o)}]
           G == [k \in Key |-> Waiting(k)]
<1>2. \A k \in Key : F[k] = {} /\ G[k] = {}
  BY <1>1
<1> HIDE DEF F, G
<1>3. Pairs(acked) = {} /\ Pairs(dropped) = {} /\ Pairs(F) = {} /\ Pairs(G) = {}
  BY <1>1, <1>2, InPairs
<1> QED
  BY <1>3 DEF accepted, waiting, kept, lost, F, G

(* The three kinds of step, on the sets of pairs.                          *)
LEMMA RestPairs ==
    ASSUME RestStep
    PROVE  accepted' = accepted /\ waiting' = waiting /\ lost' = lost
<1> DEFINE G == [k \in Key |-> Waiting(k)]
           H == [k \in Key |-> Waiting(k)']
<1>1. \A k \in Key : /\ acked'[k] = acked[k] /\ dropped'[k] = dropped[k]
                     /\ H[k] = G[k]
  BY DEF RestStep
<1> HIDE DEF G, H
<1>2. /\ Pairs(acked') = Pairs(acked) /\ Pairs(dropped') = Pairs(dropped)
      /\ Pairs(H) = Pairs(G)
  BY <1>1, SamePairs
<1> QED
  BY <1>2 DEF accepted, waiting, lost, G, H, Pairs

(* A step that accepts a write adds one pair to the ledger's. *)
LEMMA AcceptPairs ==
    ASSUME AcceptStep
    PROVE  \E e \in Key \X Op :
              /\ e \notin accepted /\ e \notin waiting
              /\ accepted' = accepted \cup {e}
              /\ waiting' = waiting \cup {e} \/ waiting' = waiting
              /\ lost' = lost
<1> DEFINE G == [k \in Key |-> Waiting(k)]
           H == [k \in Key |-> Waiting(k)']
<1>1. PICK k \in Key, op \in Op :
        /\ op \notin acked[k] /\ op \notin G[k]
        /\ \A j \in Key \ {k} : acked'[j] = acked[j] /\ H[j] = G[j]
        /\ acked'[k] = acked[k] \cup {op}
        /\ H[k] = G[k] \cup {op} \/ H[k] = G[k]
        /\ dropped' = dropped
  BY DEF AcceptStep
<1> HIDE DEF G, H
<1>2. <<k, op>> \notin Pairs(acked) /\ <<k, op>> \notin Pairs(G)
  BY <1>1, InPairs
<1>3. Pairs(acked') = Pairs(acked) \cup {<<k, op>>}
  BY <1>1 DEF Pairs
<1>4. CASE H[k] = G[k]
  <2>1. Pairs(H) = Pairs(G)
    BY <1>1, <1>4, SamePairs
  <2> QED
    BY <1>1, <1>2, <1>3, <2>1 DEF accepted, waiting, lost, G, H, Pairs
<1>5. CASE H[k] = G[k] \cup {op}
  <2>1. Pairs(H) = Pairs(G) \cup {<<k, op>>}
    BY <1>1, <1>5 DEF Pairs
  <2> QED
    BY <1>1, <1>2, <1>3, <2>1 DEF accepted, waiting, lost, G, H, Pairs
<1> QED
  BY <1>1, <1>4, <1>5

(* A step that settles writes takes pairs from those that wait, and loses  *)
(* no others.                                                              *)
LEMMA SettlePairs ==
    ASSUME SettleStep
    PROVE  /\ accepted' = accepted
           /\ waiting' \subseteq waiting
           /\ lost \subseteq lost'
           /\ lost' \subseteq lost \cup (waiting \ waiting')
<1> DEFINE G == [k \in Key |-> Waiting(k)]
           H == [k \in Key |-> Waiting(k)']
<1>1. \A k \in Key : /\ acked'[k] = acked[k]
                     /\ H[k] \subseteq G[k]
                     /\ dropped[k] \subseteq dropped'[k]
                     /\ dropped'[k] \subseteq dropped[k] \cup (G[k] \ H[k])
  BY DEF SettleStep
<1> HIDE DEF G, H
<1>2. Pairs(acked') = Pairs(acked)
  BY <1>1, SamePairs
<1>3. Pairs(H) \subseteq Pairs(G) /\ Pairs(dropped) \subseteq Pairs(dropped')
  BY <1>1 DEF Pairs
<1>4. Pairs(dropped') \subseteq Pairs(dropped) \cup (Pairs(G) \ Pairs(H))
  BY <1>1, InPairs
<1> QED
  BY <1>2, <1>3, <1>4 DEF accepted, waiting, lost, G, H, Pairs

(* The three places are apart.                                             *)
PlacesApart == waiting \subseteq accepted /\ lost \subseteq accepted /\ waiting \cap lost = {}

(* A write waits, is lost, or neither; never both. *)
LEMMA PlacesAre == CountInv /\ DroppedApart => PlacesApart
<1> SUFFICES ASSUME CountInv, DroppedApart
             PROVE  PlacesApart
  OBVIOUS
<1> DEFINE G == [k \in Key |-> Waiting(k)]
<1>1. \A k \in Key : G[k] \subseteq acked[k] /\ dropped[k] \subseteq acked[k]
                     /\ G[k] \cap dropped[k] = {}
  BY DEF CountInv, WaitingOnce, Waiting, DroppedApart
<1> HIDE DEF G
<1>2. /\ Pairs(G) \subseteq Pairs(acked) /\ Pairs(dropped) \subseteq Pairs(acked)
      /\ Pairs(G) \cap Pairs(dropped) = {}
  BY <1>1, InPairs
<1> QED
  BY <1>2 DEF PlacesApart, accepted, waiting, lost, G

(* Every step is a step of the ledger or a stutter. *)
LEMMA LedgerStep ==
    TypeOK /\ PoolInv /\ CountInv /\ PlacesApart /\ KeptRest /\ KeptRest' /\ [Next]_vars
        => [Promise!Next]_(Promise!ledger)
<1> SUFFICES ASSUME TypeOK, PoolInv, CountInv, PlacesApart, KeptRest, KeptRest', [Next]_vars
             PROVE  \/ \E e \in Key \X Op :
                          /\ e \notin accepted
                          /\ accepted' = accepted \cup {e}
                          /\ \/ waiting' = waiting \cup {e} /\ kept' = kept
                             \/ waiting' = waiting /\ kept' = kept \cup {e}
                          /\ lost' = lost
                    \/ \E M \in SUBSET waiting : \E N \in SUBSET waiting :
                          /\ M \cap N = {}
                          /\ waiting' = waiting \ (M \cup N)
                          /\ kept' = kept \cup M
                          /\ lost' = lost \cup N
                          /\ accepted' = accepted
                    \/ UNCHANGED <<accepted, waiting, kept, lost>>
  BY DEF Promise!Next, Promise!Accept, Promise!Settle, Promise!ledger,
         accepted, waiting, kept, lost
<1>1. /\ kept = accepted \ (waiting \cup lost) /\ kept' = accepted' \ (waiting' \cup lost')
      /\ waiting \subseteq accepted /\ lost \subseteq accepted /\ waiting \cap lost = {}
  BY DEF KeptRest, PlacesApart
<1>2. CASE RestStep
  BY <1>1, <1>2, RestPairs
<1>3. CASE AcceptStep
  <2>1. PICK e \in Key \X Op : /\ e \notin accepted /\ e \notin waiting
                               /\ accepted' = accepted \cup {e}
                               /\ waiting' = waiting \cup {e} \/ waiting' = waiting
                               /\ lost' = lost
    BY <1>3, AcceptPairs
  <2>2. CASE waiting' = waiting \cup {e}
    <3>1. kept' = kept
      BY <1>1, <2>1, <2>2
    <3> QED
      BY <2>1, <2>2, <3>1
  <2>3. CASE waiting' = waiting
    <3>1. kept' = kept \cup {e}
      BY <1>1, <2>1, <2>3
    <3> QED
      BY <2>1, <2>3, <3>1
  <2> QED
    BY <2>1, <2>2, <2>3
<1>4. CASE SettleStep
  <2> DEFINE N == lost' \ lost
             M == waiting \ (waiting' \cup N)
  <2>1. /\ accepted' = accepted /\ waiting' \subseteq waiting /\ lost \subseteq lost'
        /\ lost' \subseteq lost \cup (waiting \ waiting')
    BY <1>4, SettlePairs
  <2>2. M \in SUBSET waiting /\ N \in SUBSET waiting /\ M \cap N = {}
    BY <2>1
  <2>3. waiting' = waiting \ (M \cup N) /\ lost' = lost \cup N
    BY <2>1
  <2>4. kept' = kept \cup M
    BY <1>1, <2>1
  <2> QED
    BY <2>1, <2>2, <2>3, <2>4
<1> QED
  BY <1>2, <1>3, <1>4, LedgerSteps

(* The DB implements the ledger: an acknowledged write goes from waiting   *)
(* to kept or lost, once, and what the stored series account for they      *)
(* account for ever after, through every merge and compaction.             *)
THEOREM TrendImplementsLedger == Spec => LedgerSpec
<1>1. CountInv /\ DroppedApart => PlacesApart
  BY PlacesAre
<1>2. NoSilentLoss => KeptRest
  BY KeptIs
<1> QED
  BY <1>1, <1>2, LedgerInit, LedgerStep, InitDropped, NextDropped, NothingLostSilently,
     InitCount, NextCount, InitPool, NextPool, TypeCorrect, PTL
     DEF Spec, LedgerSpec, Promise!Spec

-----------------------------------------------------------------------------
(* A series accounts for what it did before operations were merged into it. *)
LEMMA MergeStillAccounts ==
    ASSUME NEW k \in Key, NEW s \in SeriesState, NEW D \in SUBSET Op,
           Distinct(s.raw \cup D), NEW o \in Op, Accounts(k, s, o)
    PROVE  Accounts(k, Merged(k, s, D), o)
<1>1. PICK p \in s.raw \cup s.folded : p = o \/ (k \in SampleKey /\ p.at = o.at /\ Newer(p, o))
  BY DEF Accounts
<1>2. CASE p \in s.folded
  BY <1>1, <1>2, MergedFacts DEF Accounts
<1>3. CASE p \in s.raw
  <2>1. PICK q \in Merged(k, s, D).raw : q = p \/ (k \in SampleKey /\ q.at = p.at /\ Newer(q, p))
    BY <1>3, MergeKeeps
  <2>2. p \in Op /\ q \in Op
    BY <1>3, MergedFacts DEF SeriesState
  <2>3. q = o \/ (k \in SampleKey /\ q.at = o.at /\ Newer(q, o))
    BY <1>1, <2>1, <2>2, NewerTransitive
  <2> QED
    BY <2>3 DEF Accounts
<1> QED
  BY <1>1, <1>2, <1>3

-----------------------------------------------------------------------------
(* Which operations the history and the store get to know in a step: none, *)
(* or the one a writer has stamped.                                        *)
Tells(w) ==
    /\ stamped[w] # Nil /\ clock' = clock /\ stamped' = [stamped EXCEPT ![w] = Nil]
    /\ \A k \in Key : /\ Known(k)' \subseteq Known(k) \cup {stamped[w].op}
                      /\ Buffered(k)' \subseteq Buffered(k) \cup {stamped[w].op}

TellsNothing ==
    /\ clock' = clock /\ stamped' = stamped
    /\ \A k \in Key : Known(k)' \subseteq Known(k) /\ Buffered(k)' \subseteq Buffered(k)

(* Merging operations the history knows tells nothing. *)
LEMMA MergeTells ==
    ASSUME TypeOK, NEW i \in Key, NEW D \in SUBSET Op,
           stored' = stored \/ stored' = [stored EXCEPT ![i] = Merged(i, stored[i], D)],
           NEW k \in Key
    PROVE  stored'[k].raw \cup stored'[k].folded \subseteq
               stored[k].raw \cup stored[k].folded \cup (IF k = i THEN D ELSE {})
<1>1. CASE stored' = stored
  BY <1>1
<1>2. CASE stored' = [stored EXCEPT ![i] = Merged(i, stored[i], D)]
  <2>1. stored'[k] = IF k = i THEN Merged(i, stored[i], D) ELSE stored[k]
    BY <1>2 DEF TypeOK
  <2>2. stored[i] \in SeriesState
    BY DEF TypeOK
  <2> QED
    BY <2>1, <2>2, MergedFacts
<1> QED
  BY <1>1, <1>2

(* A step makes an operation known or makes none known. *)
LEMMA KnownSteps ==
    ASSUME TypeOK, PoolInv, CountInv, [Next]_vars
    PROVE  (\E w \in Writer : Stamp(w) \/ Tells(w)) \/ TellsNothing
<1>1. ASSUME NEW w \in Writer, BufferWrite(w) \/ DirectWrite(w) \/ DirectFail(w)
      PROVE  Tells(w)
  <2>1. PICK i \in Key, op \in Op : i = stamped[w].key /\ op = stamped[w].op
    BY <1>1, WriterHolds
  <2>2. /\ stamped[w] # Nil /\ clock' = clock /\ stamped' = [stamped EXCEPT ![w] = Nil]
    BY <1>1 DEF BufferWrite, DirectWrite, DirectFail
  <2>3. \A k \in Key : /\ acked'[k] \subseteq acked[k] \cup {op}
                       /\ Buffered(k)' \subseteq Buffered(k) \cup {op}
    <3>1. \A k \in Key : k # i => acked'[k] = acked[k] /\ Buffered(k)' = Buffered(k)
      BY <1>1, <2>1, WriterHolds
    <3>2. acked'[i] \subseteq acked[i] \cup {op} /\ Buffered(i)' \subseteq Buffered(i) \cup {op}
      BY <1>1, <2>1, WriteHolds
    <3> QED
      BY <3>1, <3>2
  <2>4. stored' = stored \/ stored' = [stored EXCEPT ![i] = Merged(i, stored[i], {op})]
    BY <1>1, <2>1 DEF BufferWrite, DirectWrite, DirectFail
  <2>5. \A k \in Key : stored'[k].raw \cup stored'[k].folded \subseteq
                           stored[k].raw \cup stored[k].folded \cup {op}
    <3>1. PICK D \in SUBSET Op : D = {op}
      OBVIOUS
    <3>2. stored' = stored \/ stored' = [stored EXCEPT ![i] = Merged(i, stored[i], D)]
      BY <2>4, <3>1
    <3> QED
      BY <3>1, <3>2, MergeTells
  <2> QED
    BY <2>1, <2>2, <2>3, <2>5 DEF Tells, Known
<1>2. ASSUME UNCHANGED <<clock, stamped, acked, stored>>,
             \A k \in Key : Buffered(k)' \subseteq Buffered(k)
      PROVE  TellsNothing
  BY <1>2 DEF TellsNothing, Known
<1>3. ASSUME UNCHANGED <<items, heap, work, clock, stamped, acked, stored>>
      PROVE  TellsNothing
  BY <1>2, <1>3, HoldsStable
<1>4. ASSUME NEW f \in Flusher, FlushTake(f)
      PROVE  TellsNothing
  <2>1. UNCHANGED <<clock, stamped, acked, stored>>
    BY <1>4 DEF FlushTake
  <2> QED
    BY <1>2, <1>4, <2>1, FlushTakeHolds
<1>5. ASSUME NEW f \in Flusher, FlushRecycle(f)
      PROVE  TellsNothing
  <2>1. UNCHANGED <<clock, stamped, acked, stored>>
    BY <1>5 DEF FlushRecycle
  <2> QED
    BY <1>2, <1>5, <2>1, FlushRecycleHolds
<1>6. ASSUME NEW f \in Flusher, NEW i \in Key, FlushMerge(f, i) \/ FlushFail(f, i)
      PROVE  TellsNothing
  <2>1. UNCHANGED <<clock, stamped, acked>>
    BY <1>6 DEF FlushMerge, FlushFail
  <2>2. \A k \in Key : Buffered(k)' = Buffered(k)
    BY <1>6, FlushMergeHolds, FlushFailHolds
  <2>3. stored' = stored \/ stored' = [stored EXCEPT ![i] = Merged(i, stored[i], InFlight(f, i))]
    BY <1>6, FlushMergeHolds, FlushFailHolds
  <2>4. InFlight(f, i) \subseteq acked[i] /\ InFlight(f, i) \in SUBSET Op
    BY DEF CountInv, WaitingOnce, TypeOK
  <2>5. PICK D \in SUBSET Op : D = InFlight(f, i)
    BY <2>4
  <2>6. \A k \in Key : stored'[k].raw \cup stored'[k].folded \subseteq Known(k)
    <3>1. stored' = stored \/ stored' = [stored EXCEPT ![i] = Merged(i, stored[i], D)]
      BY <2>3, <2>5
    <3> QED
      BY <2>4, <2>5, <3>1, MergeTells DEF Known
  <2> QED
    BY <2>1, <2>2, <2>6 DEF TellsNothing, Known
<1>7. ASSUME NEW i \in Key, NEW c \in Cutoff, Compact(i, c)
      PROVE  TellsNothing
  <2>1. UNCHANGED <<items, heap, work, clock, stamped, acked>>
    BY <1>7 DEF Compact, bufferVars, flushVars
  <2>2. \A k \in Key : stored'[k] = IF k = i THEN Compacted(stored[i], c) ELSE stored[k]
    BY <1>7 DEF Compact, TypeOK
  <2>3. stored[i] \in SeriesState
    BY DEF TypeOK
  <2>4. \A k \in Key : stored'[k].raw \cup stored'[k].folded \subseteq Known(k)
    BY <2>2, <2>3, CompactedFacts DEF Known
  <2> QED
    BY <2>1, <2>4, HoldsStable DEF TellsNothing, Known
<1>8. ASSUME NEW f \in Flusher, FlushCall(f) \/ FlushReturn(f) \/ FlushDone(f)
      PROVE  UNCHANGED <<items, heap, work, clock, stamped, acked, stored>>
  BY <1>8 DEF FlushCall, FlushReturn, FlushDone, bufferVars
<1>9. ASSUME CloseStore \/ LoopExit \/ UNCHANGED vars
      PROVE  UNCHANGED <<items, heap, work, clock, stamped, acked, stored>>
  BY <1>9 DEF CloseStore, LoopExit, bufferVars, vars
<1>10. ASSUME NEW r \in Reader, Load(r) \/ Clone(r) \/ ReadDone(r)
       PROVE  UNCHANGED <<items, heap, work, clock, stamped, acked, stored>>
  BY <1>10 DEF Load, Clone, ReadDone, bufferVars, flushVars
<1> QED
  BY <1>1, <1>3, <1>4, <1>5, <1>6, <1>7, <1>8, <1>9, <1>10 DEF Next, FlushStep

-----------------------------------------------------------------------------
(* A set of operations of key k whose clocks still identify them, beside   *)
(* whatever is known under the key and whatever is stamped.                *)
Identified(S, k) ==
    /\ \A o \in S : o.clock <= clock /\ o.replica = Me
    /\ \A o \in S : \A p \in S \cup Known(k) : o.clock = p.clock => o = p
    /\ \A w \in Writer : stamped[w] # Nil => \A o \in S : o.clock # stamped[w].op.clock

(* Operations that their clocks identify stay identified. *)
LEMMA IdentifiedStays ==
    ASSUME TypeOK, PoolInv, CountInv, [Next]_vars,
           NEW k \in Key, NEW S \in SUBSET Op, Identified(S, k)
    PROVE  Identified(S, k)'
<1>1. ASSUME NEW w \in Writer, Stamp(w)
      PROVE  Identified(S, k)'
  <2>1. clock' = clock + 1 /\ clock \in Nat /\ acked' = acked /\ stored' = stored
    BY <1>1 DEF Stamp, TypeOK
  <2>2. Known(k)' = Known(k)
    BY <2>1 DEF Known
  <2>3. \A v \in Writer : v # w => stamped'[v] = stamped[v]
    BY <1>1 DEF Stamp, TypeOK
  <2>4. stamped'[w].op.clock = clock + 1
    BY <1>1, <2>1 DEF Stamp, TypeOK
  <2>5. \A o \in S : o.clock \in Nat
    BY StampTypes
  <2>6. \A o \in S : o.clock <= clock /\ o.replica = Me
    BY DEF Identified
  <2>7. \A o \in S : o.clock <= clock + 1 /\ o.clock # clock + 1
    BY <2>1, <2>5, <2>6
  <2>8. \A v \in Writer : stamped'[v] # Nil => \A o \in S : o.clock # stamped'[v].op.clock
    BY <2>3, <2>4, <2>7 DEF Identified
  <2> QED
    BY <2>1, <2>2, <2>6, <2>7, <2>8 DEF Identified
<1>2. ASSUME NEW w \in Writer, Tells(w)
      PROVE  Identified(S, k)'
  <2>1. /\ clock' = clock /\ stamped[w] # Nil
        /\ Known(k)' \subseteq Known(k) \cup {stamped[w].op}
    BY <1>2 DEF Tells
  <2>2. \A v \in Writer : stamped'[v] # Nil => stamped'[v] = stamped[v]
    BY <1>2 DEF Tells, TypeOK
  <2> QED
    BY <2>1, <2>2 DEF Identified
<1>3. CASE TellsNothing
  BY <1>3 DEF TellsNothing, Identified
<1> QED
  BY <1>1, <1>2, <1>3, KnownSteps

(* Nothing of it gets into the buffer any more.                            *)
LEMMA IdentifiedAway ==
    ASSUME TypeOK, PoolInv, CountInv, [Next]_vars,
           NEW k \in Key, NEW S \in SUBSET Op, Identified(S, k)
    PROVE  S \cap Buffered(k)' \subseteq Buffered(k)
<1>1. ASSUME NEW w \in Writer, Tells(w)
      PROVE  S \cap Buffered(k)' \subseteq Buffered(k)
  BY <1>1 DEF Tells, Identified
<1>2. ASSUME NEW w \in Writer, Stamp(w)
      PROVE  Buffered(k)' = Buffered(k)
  BY <1>2 DEF Stamp, bufferVars, Buffered, Holding
<1>3. CASE TellsNothing
  BY <1>3 DEF TellsNothing
<1> QED
  BY <1>1, <1>2, <1>3, KnownSteps

-----------------------------------------------------------------------------
(* Without a buffer nothing waits and nothing is given up.                 *)
Unbuffered == ~buffered => \A k \in Key : Waiting(k) = {} /\ dropped[k] = {}

(* Nothing waits at the start. *)
LEMMA InitUnbuffered == Init => Unbuffered
  BY DEF Init, Unbuffered, NoOps, NoWork, Waiting, Buffered, InFlight, Holding

(* No step changes whether the DB buffers. *)
LEMMA BufferedFixed == [Next]_vars => buffered' = buffered
<1> SUFFICES ASSUME [Next]_vars
             PROVE  buffered' = buffered
  OBVIOUS
<1>1. ASSUME NEW w \in Writer, Stamp(w) \/ BufferWrite(w) \/ DirectWrite(w) \/ DirectFail(w)
      PROVE  buffered' = buffered
  BY <1>1 DEF Stamp, BufferWrite, DirectWrite, DirectFail, switches
<1>2. ASSUME NEW f \in Flusher, FlushCall(f) \/ FlushTake(f) \/ FlushRecycle(f)
                                \/ FlushReturn(f) \/ FlushDone(f)
      PROVE  buffered' = buffered
  BY <1>2 DEF FlushCall, FlushTake, FlushRecycle, FlushReturn, FlushDone, switches
<1>3. ASSUME NEW f \in Flusher, NEW k \in Key, FlushMerge(f, k) \/ FlushFail(f, k)
      PROVE  buffered' = buffered
  BY <1>3 DEF FlushMerge, FlushFail, switches
<1>4. ASSUME CloseStore \/ LoopExit \/ UNCHANGED vars
      PROVE  buffered' = buffered
  BY <1>4 DEF CloseStore, LoopExit, switches, vars
<1>5. ASSUME NEW r \in Reader, Load(r) \/ Clone(r) \/ ReadDone(r)
      PROVE  buffered' = buffered
  BY <1>5 DEF Load, Clone, ReadDone, switches
<1>6. ASSUME NEW k \in Key, NEW c \in Cutoff, Compact(k, c)
      PROVE  buffered' = buffered
  BY <1>6 DEF Compact, switches
<1> QED
  BY <1>1, <1>2, <1>3, <1>4, <1>5, <1>6 DEF Next, FlushStep

(* Without a buffer nothing ever waits. *)
LEMMA NextUnbuffered ==
    TypeOK /\ PoolInv /\ CountInv /\ Unbuffered /\ [Next]_vars => Unbuffered'
<1> SUFFICES ASSUME TypeOK, PoolInv, CountInv, Unbuffered, [Next]_vars, ~buffered,
                    NEW k \in Key
             PROVE  Waiting(k)' = {} /\ dropped'[k] = {}
  BY BufferedFixed DEF Unbuffered
<1>1. Waiting(k) = {} /\ dropped[k] = {}
  BY DEF Unbuffered
<1>2. ASSUME NEW w \in Writer, BufferWrite(w) \/ DirectWrite(w) \/ DirectFail(w)
      PROVE  Waiting(k)' = {} /\ dropped'[k] = {}
  <2>1. UNCHANGED <<items, heap, work, dropped>>
    BY <1>2 DEF BufferWrite, DirectWrite, DirectFail, bufferVars, flushVars
  <2> QED
    BY <1>1, <2>1, HoldsStable DEF Waiting
<1>3. ASSUME NEW f \in Flusher, FlushTake(f)
      PROVE  Waiting(k)' = {} /\ dropped'[k] = {}
  <2>1. dropped' = dropped
    BY <1>3 DEF FlushTake
  <2>2. \A g \in Flusher : InFlight(g, k)' = {}
    BY <1>1, <1>3, FlushTakeHolds DEF Waiting
  <2>3. Buffered(k)' = {}
    BY <1>3, FlushTakeHolds
  <2> QED
    BY <1>1, <2>1, <2>2, <2>3 DEF Waiting
<1>4. ASSUME NEW f \in Flusher, NEW j \in Key, FlushMerge(f, j) \/ FlushFail(f, j)
      PROVE  Waiting(k)' = {} /\ dropped'[k] = {}
  BY <1>1, <1>4, SettleHolds
<1>5. ASSUME NEW j \in Key, NEW c \in Cutoff, Compact(j, c)
      PROVE  Waiting(k)' = {} /\ dropped'[k] = {}
  <2>1. UNCHANGED <<items, heap, work, dropped>>
    BY <1>5 DEF Compact, bufferVars, flushVars
  <2> QED
    BY <1>1, <2>1, HoldsStable DEF Waiting
<1>6. CASE Quiet
  BY <1>1, <1>6 DEF Quiet, Waiting
<1> QED
  BY <1>2, <1>3, <1>4, <1>5, <1>6, StepKinds

-----------------------------------------------------------------------------
(* The operations a read in progress has seen. *)
Seen(r) == reads[r].view.raw \cup reads[r].view.folded

(* What the buffer still holds has not been folded into what was loaded,   *)
(* so that cloning it on top counts nothing twice; what was acknowledged   *)
(* before the read is missing only if a flush took it.                     *)
ReadHolds(r) ==
    /\ Seen(r) \in SUBSET Op /\ reads[r].key \in Key
    /\ Identified(Seen(r), reads[r].key)
    /\ reads[r].must \subseteq acked[reads[r].key]
    /\ ~buffered => Missed(r) = {}
    /\ reads[r].step = "loaded" => reads[r].view.folded \cap Buffered(reads[r].key) = {}
    /\ reads[r].step = "done" => Missed(r) \cap Buffered(reads[r].key) = {}

ReadInv == \A r \in Reader : reads[r].step # "idle" => ReadHolds(r)

(* What a read has loaded is a series and what it must see are operations. *)
LEMMA ReadType ==
    ASSUME TypeOK, NEW r \in Reader, reads[r].step # "idle"
    PROVE  /\ reads[r].key \in Key /\ reads[r].view \in SeriesState
           /\ reads[r].must \subseteq Op
           /\ Seen(r) \in SUBSET Op
<1>1. reads[r] \in [step : {"loaded", "done"}, key : Key, view : SeriesState, must : SUBSET Op]
  BY DEF TypeOK, Read, NoRead
<1> QED
  BY <1>1 DEF Seen, SeriesState

(* A step leaves a read, loads for it, clones for it, or ends it. *)
LEMMA ReadSteps ==
    ASSUME TypeOK, [Next]_vars, NEW r \in Reader
    PROVE  reads'[r] = reads[r] \/ Load(r) \/ Clone(r) \/ reads'[r] = NoRead
<1>1. ASSUME NEW w \in Writer, Stamp(w) \/ BufferWrite(w) \/ DirectWrite(w) \/ DirectFail(w)
      PROVE  reads' = reads
  BY <1>1 DEF Stamp, BufferWrite, DirectWrite, DirectFail
<1>2. ASSUME NEW f \in Flusher, FlushCall(f) \/ FlushTake(f) \/ FlushRecycle(f)
                                \/ FlushReturn(f) \/ FlushDone(f)
      PROVE  reads' = reads
  BY <1>2 DEF FlushCall, FlushTake, FlushRecycle, FlushReturn, FlushDone
<1>3. ASSUME NEW f \in Flusher, NEW k \in Key, FlushMerge(f, k) \/ FlushFail(f, k)
      PROVE  reads' = reads
  BY <1>3 DEF FlushMerge, FlushFail
<1>4. ASSUME CloseStore \/ LoopExit \/ UNCHANGED vars
      PROVE  reads' = reads
  BY <1>4 DEF CloseStore, LoopExit, vars
<1>5. ASSUME NEW q \in Reader, Load(q) \/ Clone(q) \/ ReadDone(q)
      PROVE  \/ reads'[r] = reads[r]
             \/ q = r /\ (Load(r) \/ Clone(r))
             \/ reads'[r] = NoRead
  BY <1>5 DEF Load, Clone, ReadDone, TypeOK
<1>6. ASSUME NEW k \in Key, NEW c \in Cutoff, Compact(k, c)
      PROVE  reads' = reads
  BY <1>6 DEF Compact
<1> QED
  BY <1>1, <1>2, <1>3, <1>4, <1>5, <1>6 DEF Next, FlushStep

(* A read that does not move is not disturbed by what the others do.       *)
LEMMA ReadRests ==
    ASSUME TypeOK, PoolInv, CountInv, [Next]_vars, NEW r \in Reader,
           reads'[r] = reads[r], ReadHolds(r)
    PROVE  ReadHolds(r)'
<1>1. PICK k \in Key, S \in SUBSET Op : k = reads[r].key /\ S = Seen(r)
  BY DEF ReadHolds
<1>2. Identified(S, k)
  BY <1>1 DEF ReadHolds
<1>3. Identified(S, k)' /\ S \cap Buffered(k)' \subseteq Buffered(k)
  BY <1>2, IdentifiedStays, IdentifiedAway
<1>4. Seen(r)' = S /\ reads'[r].key = k
  BY <1>1 DEF Seen
<1>5. /\ reads'[r].must \subseteq acked'[k]
      /\ acked[k] \cap Buffered(k)' \subseteq Buffered(k)
  BY <1>1, NoReturn DEF ReadHolds
<1>6. Missed(r)' = Missed(r)
  BY DEF Missed, Accounts
<1>7. ~buffered' => Missed(r)' = {}
  BY <1>6, BufferedFixed DEF ReadHolds
<1>8. reads'[r].step = "loaded" => reads'[r].view.folded \cap Buffered(k)' = {}
  <2>1. reads[r].view.folded \subseteq S
    BY <1>1 DEF Seen
  <2> QED
    BY <1>1, <1>3, <2>1 DEF ReadHolds
<1>9. reads'[r].step = "done" => Missed(r)' \cap Buffered(k)' = {}
  <2>1. Missed(r) \subseteq acked[k]
    BY <1>1 DEF ReadHolds, Missed
  <2> QED
    BY <1>1, <1>5, <1>6, <2>1 DEF ReadHolds
<1>10. Identified(Seen(r), reads[r].key)'
  BY <1>3, <1>4 DEF Identified, Known
<1> QED
  BY <1>1, <1>4, <1>5, <1>7, <1>8, <1>9, <1>10 DEF ReadHolds

(* A snapshot just loaded, with what waits, accounts for all that was      *)
(* acknowledged.                                                           *)
LEMMA LoadHolds ==
    ASSUME TypeOK, PoolInv, CountInv, NoSilentLoss, Unbuffered, NEW r \in Reader, Load(r)
    PROVE  ReadHolds(r)'
<1>1. PICK k \in Key : reads'[r] = [step |-> "loaded", key |-> k, view |-> stored[k],
                                    must |-> acked[k]]
  BY DEF Load, TypeOK
<1>2. UNCHANGED <<stored, buffered, clock, stamped, acked, items, heap>>
  BY DEF Load, switches, bufferVars
<1>3. /\ Seen(r)' = stored[k].raw \cup stored[k].folded
      /\ Missed(r)' = {o \in acked[k] : ~Accounts(k, stored[k], o)}
  BY <1>1 DEF Seen, Missed, Accounts
<1>4. stored[k] \in SeriesState /\ Seen(r)' \in SUBSET Op
  BY <1>3 DEF TypeOK, SeriesState
<1>5. /\ Buffered(k)' = Buffered(k)
      /\ \A j \in Key : Known(j)' = Known(j)
  BY <1>2 DEF Buffered, Holding, Known
<1>6. Identified(Seen(r), reads[r].key)'
  <2>1. Seen(r)' \subseteq Known(k)
    BY <1>3 DEF Known
  <2>2. /\ \A o \in Seen(r)' : o.clock <= clock /\ o.replica = Me
        /\ \A o \in Seen(r)' : \A p \in Seen(r)' \cup Known(k) : o.clock = p.clock => o = p
    BY <2>1 DEF CountInv, KnownStamps
  <2>3. \A w \in Writer : stamped[w] # Nil => \A o \in Seen(r)' : o.clock # stamped[w].op.clock
    BY <2>1 DEF CountInv, FreshStamps
  <2>4. Known(reads[r].key)' = Known(k)
    BY <1>1, <1>2 DEF Known
  <2> QED
    BY <1>2, <2>2, <2>3, <2>4 DEF Identified
<1>7. ~buffered => Missed(r)' = {}
  BY <1>3 DEF Unbuffered, NoSilentLoss
<1>8. stored[k].folded \cap Buffered(k) = {}
  BY DEF CountInv, AtMostOnce, Waiting
<1>9. Buffered(reads[r].key)' = Buffered(k)
  BY <1>1, <1>2 DEF Buffered, Holding
<1> QED
  BY <1>1, <1>2, <1>4, <1>6, <1>7, <1>8, <1>9 DEF ReadHolds

(* The clone of the buffer adds only what the snapshot has not counted. *)
LEMMA CloneHolds ==
    ASSUME TypeOK, PoolInv, CountInv, NEW r \in Reader, Clone(r), ReadHolds(r)
    PROVE  /\ ReadHolds(r)'
           /\ reads'[r].view.folded = reads[r].view.folded
           /\ reads'[r].view.raw \subseteq reads[r].view.raw \cup Buffered(reads[r].key)
<1>1. PICK k \in Key : k = reads[r].key
  BY DEF ReadHolds
<1>2. PICK v \in SeriesState : v = reads[r].view
  BY ReadType DEF Clone
<1>3. PICK D \in SUBSET Op : D = Buffered(k) /\ D \subseteq acked[k]
  BY DEF CountInv, WaitingOnce, TypeOK
<1>4. reads'[r] = [step |-> "done", key |-> k, must |-> reads[r].must,
                   view |-> Merged(k, v, D)]
  BY <1>1, <1>2, <1>3 DEF Clone, TypeOK, Buffered
<1>5. UNCHANGED <<stored, buffered, clock, stamped, acked, items, heap>>
  BY DEF Clone, switches, bufferVars
<1>6. PICK S \in SUBSET Op : S = Seen(r) /\ S = v.raw \cup v.folded
  BY <1>2 DEF Seen, SeriesState
<1>7. Identified(S, k)
  BY <1>1, <1>6 DEF ReadHolds
<1>8. Merged(k, v, D) \in SeriesState /\ Merged(k, v, D).folded = v.folded
      /\ Merged(k, v, D).raw \subseteq v.raw \cup D
  BY MergedFacts
<1>9. Seen(r)' \subseteq S \cup D /\ Seen(r)' \in SUBSET Op
  BY <1>4, <1>6, <1>8 DEF Seen
<1>10. D \subseteq Known(k)
  BY <1>3 DEF Known
<1>11. \A o \in S \cup D : \A p \in S \cup D \cup Known(k) :
          o.replica = Me /\ o.clock <= clock /\ (o.clock = p.clock => o = p)
  <2>1. \A o \in D : \A p \in Known(k) : o.replica = Me /\ o.clock <= clock
                                         /\ (o.clock = p.clock => o = p)
    BY <1>10 DEF CountInv, KnownStamps
  <2>2. \A o \in S : \A p \in S \cup Known(k) : o.replica = Me /\ o.clock <= clock
                                                /\ (o.clock = p.clock => o = p)
    BY <1>7 DEF Identified
  <2> QED
    BY <1>10, <2>1, <2>2
<1>12. Distinct(v.raw \cup D)
  BY <1>6, <1>11 DEF Distinct
<1>13. Identified(Seen(r), reads[r].key)'
  <2>1. \A w \in Writer : stamped[w] # Nil => \A o \in S \cup D : o.clock # stamped[w].op.clock
    BY <1>7, <1>10 DEF Identified, CountInv, FreshStamps
  <2>2. Known(reads[r].key)' = Known(k)
    BY <1>4, <1>5 DEF Known
  <2>3. \A o \in Seen(r)' : o.clock <= clock /\ o.replica = Me
    BY <1>9, <1>11
  <2>4. \A o \in Seen(r)' : \A p \in Seen(r)' \cup Known(k) : o.clock = p.clock => o = p
    BY <1>9, <1>11
  <2> QED
    BY <1>5, <1>9, <2>1, <2>2, <2>3, <2>4 DEF Identified
<1>14. Missed(r)' = {o \in reads[r].must : ~Accounts(k, Merged(k, v, D), o)}
  BY <1>4 DEF Missed, Accounts
<1>15. reads[r].must \subseteq Op /\ reads[r].must \subseteq acked[k]
  BY <1>1 DEF ReadHolds, TypeOK
<1>16. Missed(r)' \subseteq Missed(r)
  <2>1. \A o \in Op : Accounts(k, v, o) => Accounts(k, Merged(k, v, D), o)
    BY <1>12, MergeStillAccounts
  <2>2. Missed(r) = {o \in reads[r].must : ~Accounts(k, v, o)}
    BY <1>1, <1>2 DEF Missed
  <2> QED
    BY <1>14, <1>15, <2>1, <2>2
<1>17. Missed(r)' \cap D = {}
  <2>1. \A o \in D : Accounts(k, Merged(k, v, D), o)
    BY <1>12, MergeAccounts
  <2> QED
    BY <1>14, <2>1
<1>18. Buffered(reads[r].key)' = D
  BY <1>3, <1>4, <1>5 DEF Buffered, Holding
<1>19. ReadHolds(r)'
  <2>1. ~buffered => Missed(r)' = {}
    BY <1>16 DEF ReadHolds
  <2> QED
    BY <1>4, <1>5, <1>9, <1>13, <1>15, <1>17, <1>18, <2>1 DEF ReadHolds
<1> QED
  BY <1>1, <1>2, <1>3, <1>4, <1>8, <1>19

-----------------------------------------------------------------------------
(* No read is under way at the start. *)
LEMMA InitRead == Init => ReadInv /\ ReadCountsOnce
  BY DEF Init, ReadInv, ReadCountsOnce, NoRead, Empty

(* Every step keeps what reads hold, and counts nothing twice. *)
LEMMA NextRead ==
    TypeOK /\ PoolInv /\ CountInv /\ NoSilentLoss /\ Unbuffered /\ ReadInv /\ ReadCountsOnce
        /\ [Next]_vars => ReadInv' /\ ReadCountsOnce'
<1> SUFFICES ASSUME TypeOK, PoolInv, CountInv, NoSilentLoss, Unbuffered, ReadInv,
                    ReadCountsOnce, [Next]_vars, NEW r \in Reader
             PROVE  /\ reads'[r].step # "idle" => ReadHolds(r)'
                    /\ reads'[r].view.raw \cap reads'[r].view.folded = {}
  BY DEF ReadInv, ReadCountsOnce
<1>1. reads[r].view.raw \cap reads[r].view.folded = {}
  BY DEF ReadCountsOnce
<1>2. CASE reads'[r] = reads[r]
  BY <1>1, <1>2, ReadRests DEF ReadInv
<1>3. CASE Load(r)
  <2>1. \E k \in Key : reads'[r].view = stored[k]
    BY <1>3 DEF Load, TypeOK
  <2>2. \A k \in Key : stored[k].raw \cap stored[k].folded = {}
    BY DEF CountInv, AtMostOnce
  <2> QED
    BY <1>3, <2>1, <2>2, LoadHolds
<1>4. CASE Clone(r)
  <2>1. reads[r].step = "loaded" /\ ReadHolds(r)
    BY <1>4 DEF Clone, ReadInv
  <2>2. reads[r].view.folded \cap Buffered(reads[r].key) = {}
    BY <2>1 DEF ReadHolds
  <2> QED
    BY <1>1, <1>4, <2>1, <2>2, CloneHolds
<1>5. CASE reads'[r] = NoRead
  BY <1>5 DEF NoRead, Empty
<1> QED
  BY <1>2, <1>3, <1>4, <1>5, ReadSteps

(* No operation is in what a read returns both as a raw point and inside a *)
(* bucket, whatever happened between its two snapshots.                    *)
THEOREM ReadsCountOnce == Spec => []ReadCountsOnce
  BY InitRead, NextRead, InitUnbuffered, NextUnbuffered, NothingLostSilently,
     InitCount, NextCount, InitPool, NextPool, TypeCorrect, PTL DEF Spec

(* A finished read misses an operation acknowledged before it began only   *)
(* if there is a buffer and a flush has taken the operation out of it.     *)
THEOREM ReadsMissOnlyFlushed == Spec => []ReadMissesOnlyFlushed
<1>1. ReadInv => ReadMissesOnlyFlushed
  <2> SUFFICES ASSUME ReadInv, NEW r \in Reader, reads[r].step = "done",
                      NEW o \in Missed(r)
               PROVE  buffered /\ o \notin Buffered(reads[r].key)
    BY DEF ReadMissesOnlyFlushed
  <2>1. ReadHolds(r)
    BY DEF ReadInv
  <2> QED
    BY <2>1 DEF ReadHolds
<1> QED
  BY <1>1, InitRead, NextRead, InitUnbuffered, NextUnbuffered, NothingLostSilently,
     InitCount, NextCount, InitPool, NextPool, TypeCorrect, PTL DEF Spec

=============================================================================
