------------------------------- MODULE TrendDB -------------------------------
(***************************************************************************)
(* One DB of the trend library: handles writing through db.buffer, the     *)
(* background flushLoop, callers of Flush and Close, readers, and          *)
(* compaction, over one byte store (db.go, compact.go).                    *)
(*                                                                         *)
(* Every goroutine step between two lock or store operations is one        *)
(* action.  buffer.mu makes a buffer operation atomic, store.Update and    *)
(* store.Load are atomic (the Store contract of store.go); the swap of the *)
(* buffer, each merge of a swapped series, and its recycling are separate  *)
(* steps, and that is where the interleavings are.                         *)
(*                                                                         *)
(* A series is abstracted to the operations it holds (module Series).  A   *)
(* *pending is an object with an identity: items, the maps flushes work    *)
(* on, and the spare list refer to it, so that aliasing can happen.        *)
(*                                                                         *)
(* A definition marked "Deviation" is not part of the specification: it is *)
(* a plausible wrong version of the definition after it, kept to show that *)
(* a property tells the two apart.                                         *)
(***************************************************************************)
EXTENDS Series, Sequences

CONSTANTS
    SampleKey, CounterKey, SketchKey, \* store keys "s:...", "c:...", "h:..."
    Modes,        \* values of `buffered`: is there a db.buffer (WithFlushEvery)
    Writer,       \* goroutines calling Set, Add on a handle
    Caller,       \* goroutines calling db.Flush
    Loop,         \* the goroutine of flushLoop
    Closer,       \* the goroutine calling db.Close
    Reader,       \* goroutines calling Values or Range
    Me,           \* db.replica
    Cutoff,       \* instants compaction may compute as its cutoff
    StoreFaults,  \* may the store refuse a call (connection, context, disk)?
    Pending,      \* addresses of *pending objects
    Nil           \* the nil *pending, and a writer with nothing to write

Key     == SampleKey \cup CounterKey \cup SketchKey
Flusher == Caller \cup {Loop, Closer}

ASSUME KeyKinds ==
    /\ SampleKey \cap (CounterKey \cup SketchKey) = {}
    /\ CounterKey \cap SketchKey = {}
ASSUME ModesAssumption == Modes \subseteq BOOLEAN
ASSUME MeAssumption == Me \in Replica
ASSUME CutoffAssumption == Cutoff \subseteq Nat
ASSUME FaultsAssumption == StoreFaults \in BOOLEAN
ASSUME NilAssumption == Nil \notin Pending
ASSUME FlusherAssumption == Loop # Closer /\ Loop \notin Caller /\ Closer \notin Caller

VARIABLES
    stored,    \* the byte store: the series under each key
    closed,    \* the store no longer serves: Close has closed it
    cancelled, \* db.done() has been called
    buffered,  \* db.buffer # nil; never changes
    clock,     \* db.clock
    stamped,   \* per writer: the operation stamped and not yet written
    items,     \* buffer.items: the object of each key
    spare,     \* buffer.spare: the free list
    heap,      \* what each *pending object holds
    phase,     \* per flusher: where in Flush it is
    work,      \* per flusher: the swapped-out map it still has to merge
    used,      \* per flusher: the merged object it has to recycle
    reads,     \* per reader: the read in progress
    acked,     \* history: the writes whose call returned nil
    dropped,   \* history: the acknowledged writes a failed flush gave up
    owed       \* history: per flusher, what was acknowledged when it was called

vars == <<stored, closed, cancelled, buffered, clock, stamped, items, spare,
          heap, phase, work, used, reads, acked, dropped, owed>>
bufferVars  == <<items, spare, heap>>
flushVars   == <<phase, work, used, owed>>
switches    == <<closed, cancelled, buffered>>

-----------------------------------------------------------------------------
(* What merging delta into the series s of key k leaves (pending.Merge):   *)
(* the key's prefix decides which of the three kinds its deltas hold.      *)
MergedRaw(k, raw, delta) ==
    CASE k \in SampleKey  -> MergeSamples(raw, delta)
      [] k \in CounterKey -> MergeCounters(raw, delta)
      [] k \in SketchKey  -> MergeSketches(raw, delta)

Merged(k, s, delta) == [raw |-> MergedRaw(k, s.raw, delta), folded |-> s.folded]

NoWork  == [k \in Key |-> Nil]
NoOps   == [k \in Key |-> {}]
NoRead  == [step |-> "idle", key |-> Nil, view |-> Empty, must |-> {}]

(* Every object some goroutine or the buffer can still reach. *)
Reachable ==
    {items[k] : k \in Key} \cup {used[f] : f \in Flusher}
        \cup {work[f][k] : f \in Flusher, k \in Key}
        \cup {spare[i] : i \in 1..Len(spare)}

Holding(o) == IF o = Nil THEN {} ELSE heap[o]

(* store.Update may fail: the store refuses, Close has closed it, or Close *)
(* has cancelled the context of flushLoop.                                 *)
MayFail(f) == StoreFaults \/ closed \/ (f = Loop /\ cancelled)

Init ==
    /\ stored = [k \in Key |-> Empty]
    /\ closed = FALSE
    /\ cancelled = FALSE
    /\ buffered \in Modes
    /\ clock = 0
    /\ stamped = [w \in Writer |-> Nil]
    /\ items = NoWork
    /\ spare = <<>>
    /\ heap = [o \in Pending |-> {}]
    /\ phase = [f \in Flusher |-> IF f = Loop /\ ~buffered THEN "exited" ELSE "idle"]
    /\ work = [f \in Flusher |-> NoWork]
    /\ used = [f \in Flusher |-> Nil]
    /\ reads = [r \in Reader |-> NoRead]
    /\ acked = NoOps
    /\ dropped = NoOps
    /\ owed = [f \in Flusher |-> NoOps]

-----------------------------------------------------------------------------
(* Deviation: the clock is read and written back, not added to atomically. *)
StampRacily(w) ==
    /\ stamped[w] = Nil
    /\ clock < MaxClock
    /\ \E k \in Key, t \in Time, v \in Value :
          stamped' = [stamped EXCEPT ![w] =
              [key |-> k, op |-> [at |-> t, clock |-> clock + 1, replica |-> Me, value |-> v]]]
    /\ clock' \in {clock, clock + 1}
    /\ UNCHANGED <<stored, switches, bufferVars, flushVars, reads, acked, dropped>>

(* Writers.  Set and Add stamp the write with db.clock.Add(1) and only then *)
(* take the buffer's lock: writes reach the buffer in any order.           *)
Stamp(w) ==
    /\ stamped[w] = Nil
    /\ clock < MaxClock
    /\ clock' = clock + 1
    /\ \E k \in Key, t \in Time, v \in Value :
          stamped' = [stamped EXCEPT ![w] =
              [key |-> k, op |-> [at |-> t, clock |-> clock', replica |-> Me, value |-> v]]]
    /\ UNCHANGED <<stored, switches, bufferVars, flushVars, reads, acked, dropped>>

(* Deviation: every write installs a new object for its key.               *)
SlotAlwaysNew(k) == Pending \ Reachable

(* buffer.series: the key's object; else the last spare; else a new one.   *)
Slot(k) ==
    IF items[k] # Nil THEN {items[k]}
    ELSE IF spare # <<>> THEN {spare[Len(spare)]}
    ELSE Pending \ Reachable

(* addSample, addCounter, addSketch under buffer.mu; the call returns nil. *)
BufferWrite(w) ==
    /\ buffered
    /\ stamped[w] # Nil
    /\ LET k == stamped[w].key  op == stamped[w].op IN
       /\ \E o \in Slot(k) :
             /\ items' = [items EXCEPT ![k] = o]
             /\ heap' = [heap EXCEPT ![o] = @ \cup {op}]
       /\ spare' = IF items[k] = Nil /\ spare # <<>>
                   THEN SubSeq(spare, 1, Len(spare) - 1) ELSE spare
       /\ acked' = [acked EXCEPT ![k] = @ \cup {op}]
    /\ stamped' = [stamped EXCEPT ![w] = Nil]
    /\ UNCHANGED <<stored, switches, clock, flushVars, reads, dropped>>

(* Without a buffer the write is merged before the call returns. *)
DirectWrite(w) ==
    /\ ~buffered
    /\ ~closed
    /\ stamped[w] # Nil
    /\ LET k == stamped[w].key  op == stamped[w].op IN
       /\ stored' = [stored EXCEPT ![k] = Merged(k, @, {op})]
       /\ acked' = [acked EXCEPT ![k] = @ \cup {op}]
    /\ stamped' = [stamped EXCEPT ![w] = Nil]
    /\ UNCHANGED <<switches, clock, bufferVars, flushVars, reads, dropped>>

(* The merge returns an error, and so does the call.  The store may have   *)
(* applied it all the same: the reply is what was lost.                    *)
DirectFail(w) ==
    /\ ~buffered
    /\ StoreFaults \/ closed
    /\ stamped[w] # Nil
    /\ LET k == stamped[w].key  op == stamped[w].op IN
       stored' \in {stored} \cup
           (IF closed THEN {} ELSE {[stored EXCEPT ![k] = Merged(k, @, {op})]})
    /\ stamped' = [stamped EXCEPT ![w] = Nil]
    /\ UNCHANGED <<switches, clock, bufferVars, flushVars, reads, acked, dropped>>

-----------------------------------------------------------------------------
(* Flush, run by flushLoop on a tick, by a caller, or by Close, which      *)
(* cancels the loop's context first.  The select of flushLoop may pick a   *)
(* tick although its context is done.                                      *)
FlushCall(f) ==
    /\ phase[f] = "idle"
    /\ phase' = [phase EXCEPT ![f] = "called"]
    /\ cancelled' = (cancelled \/ f = Closer)
    /\ owed' = [owed EXCEPT ![f] = acked]
    /\ UNCHANGED <<stored, closed, buffered, clock, stamped, bufferVars, work,
                   used, reads, acked, dropped>>

(* Deviation: the map is handed out but not replaced.                      *)
FlushTakeShared(f) ==
    /\ phase[f] = "called"
    /\ phase' = [phase EXCEPT ![f] = "merging"]
    /\ work' = [work EXCEPT ![f] = items]
    /\ UNCHANGED <<stored, switches, clock, stamped, bufferVars, used, reads,
                   acked, dropped, owed>>

(* Deviation: a flush that finds another one at work leaves it the job.    *)
FlushTakeWhenAlone(f) ==
    /\ phase[f] = "called"
    /\ IF \E g \in Flusher \ {f} : phase[g] = "merging"
       THEN /\ phase' = [phase EXCEPT ![f] = "returned"]
            /\ UNCHANGED <<work, items>>
       ELSE /\ phase' = [phase EXCEPT ![f] = "merging"]
            /\ work' = [work EXCEPT ![f] = items]
            /\ items' = NoWork
    /\ UNCHANGED <<stored, switches, clock, stamped, spare, heap, used, reads,
                   acked, dropped, owed>>

(* buffer.flush: swap the map under the lock. *)
FlushTake(f) ==
    /\ phase[f] = "called"
    /\ phase' = [phase EXCEPT ![f] = "merging"]
    /\ work' = [work EXCEPT ![f] = items]
    /\ items' = NoWork
    /\ UNCHANGED <<stored, switches, clock, stamped, spare, heap, used, reads,
                   acked, dropped, owed>>

(* db.merge of one swapped series, in the map's (random) order. *)
FlushMerge(f, k) ==
    /\ phase[f] = "merging"
    /\ used[f] = Nil
    /\ work[f][k] # Nil
    /\ ~closed
    /\ stored' = [stored EXCEPT ![k] = Merged(k, @, heap[work[f][k]])]
    /\ used' = [used EXCEPT ![f] = work[f][k]]
    /\ work' = [work EXCEPT ![f][k] = Nil]
    /\ UNCHANGED <<switches, clock, stamped, bufferVars, phase, reads, acked,
                   dropped, owed>>

(* Deviation: no Reset.                                                    *)
FlushRecycleDirty(f) ==
    /\ used[f] # Nil
    /\ spare' = Append(spare, used[f])
    /\ used' = [used EXCEPT ![f] = Nil]
    /\ UNCHANGED <<stored, switches, clock, stamped, items, heap, phase, work,
                   reads, acked, dropped, owed>>

(* Deviation: recycle is also called when nothing was merged.              *)
FlushRecycleNil(f) ==
    /\ phase[f] = "merging"
    /\ heap' = [o \in Pending |-> IF o = used[f] THEN {} ELSE heap[o]]
    /\ spare' = Append(spare, used[f])
    /\ used' = [used EXCEPT ![f] = Nil]
    /\ UNCHANGED <<stored, switches, clock, stamped, items, phase, work, reads,
                   acked, dropped, owed>>

(* buffer.recycle: Reset (the object is this flush's alone, so doing it    *)
(* before taking the lock cannot be observed), then append to spare.       *)
FlushRecycle(f) ==
    /\ used[f] # Nil
    /\ heap' = [heap EXCEPT ![used[f]] = {}]
    /\ spare' = Append(spare, used[f])
    /\ used' = [used EXCEPT ![f] = Nil]
    /\ UNCHANGED <<stored, switches, clock, stamped, items, phase, work, reads,
                   acked, dropped, owed>>

(* The swapped series a failing Flush has not recycled. *)
Garbage(f) == {work[f][k] : k \in Key} \ {Nil}

(* Deviation: the loop returns on an error.                                *)
FlushFailEndsLoop(f, k) ==
    /\ phase[f] = "merging"
    /\ used[f] = Nil
    /\ work[f][k] # Nil
    /\ MayFail(f)
    /\ dropped' = [j \in Key |-> dropped[j] \cup Holding(work[f][j])]
    /\ heap' = [o \in Pending |-> IF o \in Garbage(f) THEN {} ELSE heap[o]]
    /\ work' = [work EXCEPT ![f] = NoWork]
    /\ phase' = [phase EXCEPT ![f] = IF f = Loop THEN "exited" ELSE "idle"]
    /\ owed' = [owed EXCEPT ![f] = NoOps]
    /\ UNCHANGED <<stored, switches, clock, stamped, items, spare, used, reads, acked>>

(* Deviation: the merge is tried again until it succeeds.                  *)
FlushFailRetries(f, k) ==
    /\ phase[f] = "merging"
    /\ used[f] = Nil
    /\ work[f][k] # Nil
    /\ MayFail(f)
    /\ UNCHANGED vars

(* A merge returns an error, whether the store applied it or not: Flush    *)
(* returns at once and the swapped map, with the failed series and those   *)
(* not reached yet, is garbage.  Close returns without closing the store.  *)
FlushFail(f, k) ==
    /\ phase[f] = "merging"
    /\ used[f] = Nil
    /\ work[f][k] # Nil
    /\ MayFail(f)
    /\ \E applied \in BOOLEAN :
          /\ applied => ~closed
          /\ stored' = IF applied
                       THEN [stored EXCEPT ![k] = Merged(k, @, heap[work[f][k]])]
                       ELSE stored
          /\ dropped' = [j \in Key |->
                            IF applied /\ j = k THEN dropped[j]
                            ELSE dropped[j] \cup Holding(work[f][j])]
    /\ heap' = [o \in Pending |-> IF o \in Garbage(f) THEN {} ELSE heap[o]]
    /\ work' = [work EXCEPT ![f] = NoWork]
    /\ phase' = [phase EXCEPT ![f] = "idle"]
    /\ owed' = [owed EXCEPT ![f] = NoOps]
    /\ UNCHANGED <<switches, clock, stamped, items, spare, used, reads, acked>>

(* The range over the map is over: Flush returns nil. *)
FlushReturn(f) ==
    /\ phase[f] = "merging"
    /\ used[f] = Nil
    /\ work[f] = NoWork
    /\ phase' = [phase EXCEPT ![f] = "returned"]
    /\ UNCHANGED <<stored, switches, clock, stamped, bufferVars, work, used,
                   reads, acked, dropped, owed>>

(* The loop and a caller can flush again. *)
FlushDone(f) ==
    /\ f # Closer
    /\ phase[f] = "returned"
    /\ phase' = [phase EXCEPT ![f] = "idle"]
    /\ owed' = [owed EXCEPT ![f] = NoOps]
    /\ UNCHANGED <<stored, switches, clock, stamped, bufferVars, work, used,
                   reads, acked, dropped>>

(* Deviation: Close waits for an empty buffer.                             *)
CloseStoreWhenDrained ==
    /\ phase[Closer] = "returned"
    /\ items = NoWork
    /\ phase' = [phase EXCEPT ![Closer] = "exited"]
    /\ closed' \in BOOLEAN
    /\ UNCHANGED <<stored, cancelled, buffered, clock, stamped, bufferVars,
                   work, used, reads, acked, dropped, owed>>

(* Close: the flush succeeded, store.Close().  A store that an adapter was *)
(* given (own = false) is left open, and the memory store serves after its *)
(* Close: flushes, writes, reads and compactions may then go on.           *)
CloseStore ==
    /\ phase[Closer] = "returned"
    /\ phase' = [phase EXCEPT ![Closer] = "exited"]
    /\ closed' \in BOOLEAN
    /\ UNCHANGED <<stored, cancelled, buffered, clock, stamped, bufferVars,
                   work, used, reads, acked, dropped, owed>>

(* flushLoop: case <-ctx.Done(). *)
LoopExit ==
    /\ phase[Loop] = "idle"
    /\ cancelled
    /\ phase' = [phase EXCEPT ![Loop] = "exited"]
    /\ UNCHANGED <<stored, switches, clock, stamped, bufferVars, work, used,
                   reads, acked, dropped, owed>>

-----------------------------------------------------------------------------
(* Readers.  db.load reads the store first and clones the buffered tail    *)
(* afterwards, under another lock; the iterators then read the result.     *)
Load(r) ==
    /\ reads[r].step = "idle"
    /\ ~closed
    /\ \E k \in Key :
          reads' = [reads EXCEPT ![r] =
              [step |-> "loaded", key |-> k, view |-> stored[k], must |-> acked[k]]]
    /\ UNCHANGED <<stored, switches, clock, stamped, bufferVars, flushVars,
                   acked, dropped>>

(* Deviation: nothing stored, nothing to read.                             *)
CloneOntoStored(r) ==
    /\ reads[r].step = "loaded"
    /\ LET k == reads[r].key  v == reads[r].view IN
       reads' = [reads EXCEPT ![r] =
           [step |-> "done", key |-> k, must |-> reads[r].must,
            view |-> IF v = Empty THEN v ELSE Merged(k, v, Holding(items[k]))]]
    /\ UNCHANGED <<stored, switches, clock, stamped, bufferVars, flushVars,
                   acked, dropped>>

Clone(r) ==
    /\ reads[r].step = "loaded"
    /\ LET k == reads[r].key IN
       reads' = [reads EXCEPT ![r] =
           [step |-> "done", key |-> k, must |-> reads[r].must,
            view |-> Merged(k, reads[r].view, Holding(items[k]))]]
    /\ UNCHANGED <<stored, switches, clock, stamped, bufferVars, flushVars,
                   acked, dropped>>

ReadDone(r) ==
    /\ reads[r].step = "done"
    /\ reads' = [reads EXCEPT ![r] = NoRead]
    /\ UNCHANGED <<stored, switches, clock, stamped, bufferVars, flushVars,
                   acked, dropped>>

(* db.compact, by this process's compactLoop or a handle's Compact, or by  *)
(* another process on the same store: one atomic Update.                   *)
Compact(k, c) ==
    /\ ~closed
    /\ stored' = [stored EXCEPT ![k] = Compacted(@, c)]
    /\ UNCHANGED <<switches, clock, stamped, bufferVars, flushVars, reads,
                   acked, dropped>>

-----------------------------------------------------------------------------
FlushStep(f) ==
    \/ FlushTake(f)
    \/ \E k \in Key : FlushMerge(f, k) \/ FlushFail(f, k)
    \/ FlushRecycle(f)
    \/ FlushReturn(f)
    \/ FlushDone(f)

Next ==
    \/ \E w \in Writer : Stamp(w) \/ BufferWrite(w) \/ DirectWrite(w) \/ DirectFail(w)
    \/ \E f \in Flusher : FlushCall(f) \/ FlushStep(f)
    \/ CloseStore
    \/ LoopExit
    \/ \E r \in Reader : Load(r) \/ Clone(r) \/ ReadDone(r)
    \/ \E k \in Key, c \in Cutoff : Compact(k, c)

Spec == Init /\ [][Next]_vars

(* The ticker keeps ticking and flushLoop is never starved; a Flush or a   *)
(* Close that was called runs to its end, because every store call returns *)
(* and the buffer's lock is fair.  select chooses at random among its      *)
(* ready cases, so a cancelled loop does not pick the tick for ever.       *)
(* Nobody has to write, read, flush or close.                              *)
Fairness ==
    /\ WF_vars(FlushCall(Loop))
    /\ \A f \in Flusher : WF_vars(FlushStep(f))
    /\ WF_vars(CloseStore)
    /\ SF_vars(LoopExit)

FairSpec == Spec /\ Fairness

-----------------------------------------------------------------------------
(* Vocabulary of the properties. *)

(* The series accounts for the operation: it is kept, folded into a        *)
(* bucket, or (samples) a newer write to the same second has won.          *)
Accounts(k, s, o) ==
    \E p \in s.raw \cup s.folded :
        p = o \/ (k \in SampleKey /\ p.at = o.at /\ Newer(p, o))

Buffered(k) == Holding(items[k])

InFlight(f, k) == Holding(work[f][k])

Waiting(k) == Buffered(k) \cup UNION {InFlight(f, k) : f \in Flusher}

(* What the read in progress of r was bound to include, and does not.      *)
Missed(r) == {o \in reads[r].must : ~Accounts(reads[r].key, reads[r].view, o)}

-----------------------------------------------------------------------------
(* Types of all the variables. *)
Write == [key : Key, op : Op]
Read  == {NoRead} \cup [step : {"loaded", "done"}, key : Key,
                        view : SeriesState, must : SUBSET Op]

TypeOK ==
    /\ stored \in [Key -> SeriesState]
    /\ closed \in BOOLEAN /\ cancelled \in BOOLEAN /\ buffered \in BOOLEAN
    /\ clock \in 0..MaxClock
    /\ stamped \in [Writer -> Write \cup {Nil}]
    /\ items \in [Key -> Pending \cup {Nil}]
    /\ spare \in Seq(Pending)
    /\ heap \in [Pending -> SUBSET Op]
    /\ phase \in [Flusher -> {"idle", "called", "merging", "returned", "exited"}]
    /\ work \in [Flusher -> [Key -> Pending \cup {Nil}]]
    /\ used \in [Flusher -> Pending \cup {Nil}]
    /\ reads \in [Reader -> Read]
    /\ acked \in [Key -> SUBSET Op]
    /\ dropped \in [Key -> SUBSET Op]
    /\ owed \in [Flusher -> [Key -> SUBSET Op]]

(* No two places of one kind refer to the same object. *)
NoAlias ==
    /\ \A j, k \in Key : items[j] # Nil /\ items[j] = items[k] => j = k
    /\ \A f, g \in Flusher, j, k \in Key :
          work[f][j] # Nil /\ work[f][j] = work[g][k] => f = g /\ j = k
    /\ \A f, g \in Flusher : used[f] # Nil /\ used[f] = used[g] => f = g
    /\ \A i, j \in 1..Len(spare) : spare[i] = spare[j] => i = j

(* The buffer, the maps flushes work on, what they recycle, and the free   *)
(* list share no object.                                                   *)
Apart ==
    /\ \A k \in Key : items[k] # Nil =>
          \A f \in Flusher : items[k] # used[f] /\ \A j \in Key : items[k] # work[f][j]
    /\ \A f \in Flusher : used[f] # Nil =>
          \A g \in Flusher, k \in Key : used[f] # work[g][k]
    /\ \A i \in 1..Len(spare) :
          /\ \A k \in Key : spare[i] # items[k]
          /\ \A f \in Flusher : spare[i] # used[f] /\ \A k \in Key : spare[i] # work[f][k]

InUse(o) ==
    \/ \E k \in Key : items[k] = o
    \/ \E f \in Flusher : used[f] = o \/ \E k \in Key : work[f][k] = o

FreeIsEmpty == \A o \in Pending : ~InUse(o) => heap[o] = {}

(* An object of the pool is reachable from one place only, and a free one  *)
(* holds nothing: the Reset outside buffer.mu, the reuse from spare and    *)
(* the unlocked reads of a swapped map are then free of races, and no      *)
(* write is filed under two keys.                                          *)
ExclusivePending == NoAlias /\ Apart /\ FreeIsEmpty

(* No two writes of a process ever carry the same clock, under any key:    *)
(* a set union of counter operations, and a sketch's map by stamp, then    *)
(* never collapse two of them into one.                                    *)
DistinctStamps ==
    /\ \A j, k \in Key : \A o \in acked[j], p \in acked[k] :
          o.clock = p.clock => o = p /\ j = k
    /\ \A w \in Writer : stamped[w] # Nil =>
          /\ \A k \in Key : \A o \in acked[k] : o.clock # stamped[w].op.clock
          /\ \A v \in Writer \ {w} :
                stamped[v] # Nil => stamped[v].op.clock # stamped[w].op.clock

(* No silent loss: a write whose call returned nil is waiting in memory,   *)
(* or accounted for by the stored series, or was given up by a flush that  *)
(* reported an error, whatever flushes, reuses of the pool, failures and   *)
(* compactions came in between.                                            *)
NoSilentLoss ==
    \A k \in Key : \A o \in acked[k] :
        o \in Waiting(k) \cup dropped[k] \/ Accounts(k, stored[k], o)

(* No double counting: no operation is both raw and inside a bucket, and   *)
(* what still waits for a merge has not been merged already (merging it    *)
(* again after a compaction would count it twice).                         *)
AtMostOnce ==
    \A k \in Key :
        /\ stored[k].raw \cap stored[k].folded = {}
        /\ Waiting(k) \cap (stored[k].raw \cup stored[k].folded) = {}

(* "Flush writes buffered deltas": when Flush returns nil, nothing         *)
(* acknowledged before the call is left in the buffer: it is in the store, *)
(* or another flush holds it or has lost it.                               *)
FlushSettles ==
    \A f \in Flusher : phase[f] = "returned" =>
        \A k \in Key : \A o \in owed[f][k] :
            \/ Accounts(k, stored[k], o)
            \/ o \in dropped[k]
            \/ \E g \in Flusher \ {f} : o \in InFlight(g, k)

(* Last write wins in the store: whatever the order in which writers and   *)
(* concurrent flushes reach it, a stored sample gives way only to a newer  *)
(* one of its second, or moves to a bucket.                                *)
NeverOlder ==
    [][\A k \in SampleKey : \A o \in stored[k].raw :
          \/ o \in stored'[k].raw \cup stored'[k].folded
          \/ \E p \in stored'[k].raw : p.at = o.at /\ Newer(p, o)]_vars

(* A read joins two snapshots taken at different moments; no operation     *)
(* may be in it both as a raw point and inside a bucket.                   *)
ReadCountsOnce ==
    \A r \in Reader : reads[r].view.raw \cap reads[r].view.folded = {}

(* A read misses an acknowledged write only when a flush carries it: never *)
(* without a buffer, and never while the write sits in the buffer.         *)
ReadMissesOnlyFlushed ==
    \A r \in Reader : reads[r].step = "done" =>
        \A o \in Missed(r) : buffered /\ o \notin Buffered(reads[r].key)

(* Every acknowledged write is settled by the background loop, unless      *)
(* Close stops it first.                                                   *)
EveryWriteSettles ==
    \A k \in Key, o \in Op :
        o \in acked[k] ~> (Accounts(k, stored[k], o) \/ o \in dropped[k] \/ cancelled)

(* Every call of Close comes to an end, with store.Close called or with an *)
(* error, also one that tries again after an error.                        *)
CloseReturns == phase[Closer] = "called" ~> phase[Closer] \in {"idle", "exited"}

(* The goroutine of flushLoop ends after Close, whatever it was doing.     *)
LoopStops == cancelled ~> phase[Loop] = "exited"

-----------------------------------------------------------------------------
(* The DB implements the ledger of Ledger.tla. *)
Pairs(f) == UNION {{k} \X f[k] : k \in Key}

Promise == INSTANCE Ledger WITH
    Entry    <- Key \X Op,
    accepted <- Pairs(acked),
    waiting  <- Pairs([k \in Key |-> Waiting(k)]),
    kept     <- Pairs([k \in Key |-> {o \in acked[k] \ (Waiting(k) \cup dropped[k]) :
                                          Accounts(k, stored[k], o)}]),
    lost     <- Pairs(dropped)

(* Every acknowledged write goes from waiting to kept or lost, once, and   *)
(* what is kept stays kept through every later merge and compaction.       *)
LedgerSpec == Promise!Spec

-----------------------------------------------------------------------------
(* "Close flushes pending writes and closes resources" (db.go:79): when    *)
(* Close has returned nil, no write acknowledged before it was called has  *)
(* been lost.                                                              *)
CloseFlushes ==
    phase[Closer] = "exited" => \A k \in Key : owed[Closer][k] \cap dropped[k] = {}

(* A value that was Set is visible to Values while it is buffered          *)
(* (db_test.go:46-48): a read includes what was acknowledged before it.    *)
ReadYourWrites == \A r \in Reader : reads[r].step = "done" => Missed(r) = {}

=============================================================================
