# trend: a verification project

TLA+ models of [kelindar/trend](../src), a Go library that stores time series
(samples, counters, sketches) behind a small byte-store interface, with TLC
configurations that check them on small instances and theorems that the TLA+
proof system checks for every instance.

## 1. Inventory

| Component | State | Operations | Talks to |
|---|---|---|---|
| DB and handles (`db.go`, `samples.go`, `counters.go`, `sketches.go`, `option.go`) | logical clock, replica id, seen keys | Set, Add, Values, Range, Compact, Flush, Close | buffer, store |
| Write buffer (`db.go:206-297`) | `items` (key to `*pending`), `spare` (free list), a mutex | addSample/Counter/Sketch, flush (swap), clone, recycle | called by writers, flushes and reads |
| Flush loop (`db.go:105-116`) | a ticker, a context that Close cancels | Flush on every tick | buffer, store |
| Merge and compaction (`series.go`, `*_state.go`) | the columns of a series, its buckets | Merge, Compact, Reset | pure functions, run inside `Store.Update` |
| Compaction (`compact.go`) | lease per key | compact, compactLoop | store, lease |
| Codec (`codec.go`, `block.go`) | the bytes of a series | append, marshal, scan | used inside `Store.Update` and by reads |
| Iterators and aggregates (`samples.go`, `counters.go`, `sketches.go`, `agg.go`) | one loaded series | Values, Range | codec |
| Sketch values (`sketch_state.go`) | bins, counts, exact values | addExact, addApprox, merge, collapse, quantile | merge, aggregates |
| Store contract (`store.go`) | bytes per key | Load, atomic Update, Delete, Close | implemented by the adapters |
| Memory, Redis, BuntDB, SQLite (`storage/`) | bytes per key, leases | the contract, Lease | |
| Read-through cache (`storage/cached`) | a cache store over a primary | Load fills, Update invalidates | two stores |
| Machine id (`machine/`) | none | host identity | |

What is hard here, and what makes each part correct:

- **Writers, three kinds of flushers, readers and compaction run concurrently**
  on one buffer and one store, and only single buffer or store operations are
  atomic. A write is stamped before it takes the buffer's lock; Flush swaps the
  buffer in one step and merges its series one by one afterwards; a read takes
  its two snapshots under different locks. Correct means: no acknowledged write
  disappears without an error, none is counted twice, and the newest sample of a
  second wins in whatever order writes arrive.
- **Failures.** A store call may fail with or without effect. A failing Flush
  drops everything it has not merged; the loop ignores the error. Close cancels
  the context of a flush that may be half way.
- **Object reuse.** A merged `*pending` is reset outside the lock and goes to a
  free list: it must never be reachable from two places, and never come back
  with old data.
- **Liveness.** The loop must survive failures, must end after Close, and Close
  must come back.
- **Time and identity.** The clock restarts at zero with the process; leases
  expire; a cache may be filled with a value that has just been replaced.

`PROJECT.json` lists these one by one as hazards, with the line where each bites
and the properties that cover it.

## 2. Modules

| Module | What it is | Uses |
|---|---|---|
| `Series` | the merge and compaction algebra, on sets of operations | |
| `TrendDB` | the DB in one process: buffer, flushes, Close, reads, over an atomic store | `Series`; implements `Ledger` |
| `Ledger` | what a DB promises about accepted writes | |
| `SeriesLog` | what one stored series promises: atomic merges and compactions | `Series` |
| `Cluster` | many goroutines and processes over one shared store, with its cache, leases and non-atomic Update | `Series`; implements `SeriesLog` |
| `Segments`, `Scan`, `StoredSeries` | the bytes of a series, its iterators, and its life under merges and compactions | each extends the one before; implements `SeriesLog` |
| `Sketch` | the distributions: bins, their limit, their bytes, quantiles | |
| `MCTrendDB`, `MCCluster`, `MCStoredSeries`, `MCSketch` | small instances for TLC | |
| `TrendDB_proofs`, `TrendDB_ledger` | theorems about `TrendDB`: types, pool and stamps; loss, flushes, the ledger and reads | the second extends the first |
| `Sketch_proofs` | theorems about `Sketch`: sums over bags, bins and their limit, quantiles | |
| `StoredSeries_proofs`, `StoredSeries_scans` | theorems about the bytes of a series; about what its iterators yield | the second extends the first |
| `Cluster_proofs`, `Cluster_counts` | theorems about `Cluster`: the log and its leases; counts, last writes and reads | the second extends the first |

`SeriesLog` is where the models meet. `TrendDB` takes a store whose `Update` is
one atomic merge of a series; `Cluster` shows that the adapters provide that,
with the read and the write of an Update as separate steps of competing
processes; `StoredSeries` shows that the merge function, over encoded segments
and with its fast path, computes it.

### Series: the merge and compaction algebra

A write is an operation `[at, clock, replica, value]`: the second it is filed
under, its stamp and its value. A series is `[raw, folded]`: the operations kept
one by one, and those that compaction has added to a bucket. The code keeps only
an aggregate per bucket; the set of what went in is what the properties are
about, and which bucket an operation went to is a function of its second. An
operation in both sets is one that aggregates count twice.

`MergeSamples` is last write wins per second by (clock, replica); `MergeCounters`
is a set union; `MergeSketches` keeps the largest value per stamp (the code
compares the bits of the floats; values here are numbers in that order). A merge
leaves `folded` alone because the deltas a DB merges never carry buckets.
`Compacted` moves the raw operations before the cutoff to the buckets.

### TrendDB: the database in front of one store

| Variable | In the code |
|---|---|
| `stored` | the byte store: the series under each key |
| `closed`, `cancelled`, `buffered` | Close has closed the store, which no longer serves; `db.done()` called; `db.buffer != nil` |
| `clock` | `db.clock` |
| `stamped` | a writer between `db.clock.Add(1)` and the buffer's lock or the merge |
| `items`, `spare`, `heap` | `buffer.items`, `buffer.spare`, the contents of every `*pending` |
| `phase`, `work`, `used` | each flusher: where it is in Flush, the swapped map it still ranges over, the object it is about to recycle |
| `reads` | each reader between and after the two steps of `db.load` |
| `acked`, `dropped`, `owed` | history: writes acknowledged; acknowledged writes a failed flush gave up; per flusher what was acknowledged when it was called |

| Action | In the code |
|---|---|
| `Stamp` | Set/Add up to `db.clock.Add(1)` |
| `BufferWrite` | addSample/addCounter/addSketch with `series` and `get`, one critical section |
| `DirectWrite`, `DirectFail` | the write without a buffer: merge, then nil or the error |
| `FlushCall` | a tick, a caller's Flush, or Close, which cancels the loop first |
| `FlushTake` | `buffer.flush`: the swap |
| `FlushMerge`, `FlushFail` | one `db.merge` of the range over the map, in any order |
| `FlushRecycle` | `Reset` and the append to `spare` |
| `FlushReturn`, `FlushDone` | the end of the range; the caller or the loop goes on |
| `CloseStore` | `store.Close()` after Close's own flush succeeded: the store is closed, or goes on serving |
| `LoopExit` | `case <-ctx.Done()` |
| `Load`, `Clone`, `ReadDone` | `db.load`: the store, then the buffered tail merged in, then the iterator is used up |
| `Compact` | `db.compact`, by anyone, with any cutoff |

Choices worth knowing:

- `store.Load` and `store.Update` are atomic, which is the contract of `store.go`.
  With `StoreFaults` every call may fail, before or after it took effect. Without
  it, calls fail only on a closed store, or for the loop's flush, once its context
  is cancelled. An adapter that ignores the context (the memory store) has fewer
  behaviours than the model.
- `store.Close` stops a store that the adapter opened itself. One it was given
  (`own = false` in `redis.go`, `buntdb.go`, `sqlite.go`) it leaves open, and the
  memory store answers after its Close too. `CloseStore` allows both: after it,
  either every call fails, or merges, writes, loads and compactions go on.
- A failed `Load` of a reader changes nothing and is a stuttering step. So are a
  compaction that fails without effect or is turned off. A compaction whose reply
  is lost is `Compact`. The lease is left out (it is in `Cluster`): `Compact` is
  unrestricted, so the properties hold whether or not leases exclude anybody.
- A `*pending` has an address from `Pending`, so that aliasing can happen.
  A new object is any address nothing refers to. When a Flush fails, what it
  swapped is garbage and its addresses become free. Enough addresses must be
  given that a writer never waits for one; the configurations do so.
- After an error Close can be called again; `CloseReturns` and `FlushSettles` speak of
  every call. A second Close after a successful one is not modelled.
- The codec is abstracted away: that the fast path, which appends a block of late
  points to the stored bytes, has the effect of the merge is shown by `StoredSeries`.
- `MaxClock` bounds the clock and with it the number of writes.

Definitions marked "Deviation" are not part of the specification. Each is a
plausible wrong version of the definition after it (a missing Reset, a merge that
lets the last arrival win, a swap that does not replace the map) and is kept to show
which property tells the two apart; `PROJECT.json` pairs them under "mutants".

### Ledger: what a DB promises

Accepted writes are waiting, kept or lost. A write leaves the waiting room once
and what is kept stays kept. `TrendDB!LedgerSpec` instantiates it with: accepted
= `acked`, waiting = what the buffer and the swapped maps hold, lost = `dropped`,
kept = the other acknowledged operations that the stored series accounts for. To
account for an operation is to keep it, to have folded it into a bucket, or, for
samples, to keep a newer one of its second.

### Cluster: processes over one shared store

One series, `store`, under one key. `config` says which deployment it is: the
kind of the series, whether `Update` is exclusive or optimistic, whether a
read-through cache is in front, which lease there is, whether the replica id of a
process may come back after a restart (`WithReplica` gives the same one; a machine and
PID can repeat) or is always new, and which client is a goroutine of which process. `MCCluster` lists the deployments that the adapters
are: memory (no lease), BuntDB (one process), SQLite (one process, or several
whose second transaction is refused as busy), Redis (WATCH, a token lease).

| Action | In the code |
|---|---|
| `Set` | Set or Add, stamped with the clock and replica of its process, up to `store.Update` |
| `Compact`, `Acquire` | `db.compact` with its lease, free or expired |
| `UpdateRead`, `UpdateWrite` | the two halves of an adapter's Update, around the merge function (`Merged`) |
| `UpdateRefused` | EXEC refused because the key changed, a busy or rolled back transaction, a server out of reach: an error, nothing written |
| `UpdateUnanswered` | written, but the answer is lost: an error |
| `Invalidate` | `cache.Delete` after a successful Update |
| `LoadHit`, `LoadMiss`, `LoadPrimary`, `LoadFill`, `LoadReturn` | `cached.Load`, step by step |
| `Release`, `Expire` | the deferred release, the lease's time to live; a release can fail |
| `Evict` | an entry of the cache leaves by its lifetime or size |
| `Restart` | a process dies and starts again: clock zero, an empty cache, its transaction rolled back, its lease left behind |

Every write of `Cluster` goes straight to the store, as without
`WithFlushEvery`; a flush's merge is the same Update. `written`, `adds`, `acked`,
`after`, `seen`, `overlap`, `lapsed` and `retired` are history variables: no
action of the code reads them, except that a new process has an id not in
`retired` when ids are derived.

### Segments, Scan, StoredSeries: bytes and iterators

`stored` is the series as `codec.go` lays it out: segments of at most
`SegmentSize` raw operations or buckets, with their first and last second, and
columns coded as differences modulo `Word`; seconds, clocks and replica ids are
words (`WordAssumption`), as they are `uint64` in the code. `Merge` is `series.append` of a delta
of one process, including the fast path that writes it behind the stored
segments without decoding them; `Compact` decodes, folds and encodes. A map in
the code lists the operations of one second in any order, and so does the model.
A bucket carries `parts`, the groups of operations it was aggregated from, in
order: for samples one part per operation, for counters and sketches one part,
since they keep one sum or one sketch. Every aggregate (Sum, Count, Min, Max,
Mean, First, Last) is a function of the parts.

`Scan` has the iterators as functions from segments to the list of elements
yielded: `sampleValues`, `sampleRange`, `counterValues`, `counterRange` and the
four of sketches, with their skipping of segments by interval, grouping by span,
what they do at the end, and what they do when the consumer leaves the loop at
its p-th element. The in-memory iterators the repository keeps beside them
(`sampleData.rangeValues` and so on) are the reference they are compared with.

### Sketch: distributions

Compaction folds observations into stored buckets of at most `MaxBins` bins; a
read builds a sketch from raw observations and buckets in any order (`view`), exact
until it meets a bucket. Gamma is 2 and observations are integers, counted in
thirds of the bound of the smallest bin, so that bins, their bounds and their
representative values are integers and the relative error is a third; the range of
keys, `MinKey` to `MaxKey`, is a parameter, and observations are assumed to lie in
it (the code's keys are ints, which no float64 exceeds). Collapsing, the coding of
bins, merging and the walk of `approximateQuantile` are those of the code. `folded`
and `seen` record the observations themselves.

## 3. Runs

| Run | Instance | Properties | States |
|---|---|---|---|
| Core | 2 writers, 2 writes, sample and counter key, with and without buffer, loop and Close, store faults, compaction | `TypeOK` `DistinctStamps` `NoSilentLoss` `AtMostOnce` `NeverOlder` `LedgerSpec` | 120,995 |
| Pool | 2 writers, 3 writes, 1 key, 3 objects, caller + loop + Close, store faults | `ExclusivePending` `FlushSettles` | 931,431 |
| Reads | 1 writer, 2 writes, sample and sketch key, a reader, loop and Close, compaction, with and without buffer | `ReadCountsOnce` `ReadMissesOnlyFlushed` | 963,877 |
| Live | 1 writer, 2 writes, 1 key, loop and Close, store faults, compaction; fairness | `EveryWriteSettles` `CloseReturns` `LoopStops` | 31,840 |
| Scan | one series of each kind, 4 writes in deltas of up to 2, segments of 2, buckets of 2 seconds, words of 16, seconds 0..3 and uint64(-1), 2 cutoffs | `WellFormed` `RedeliveryHarmless` `EachPartOnce` `ReferenceAgrees` `FirstAndLast` `SketchesInOrder` `LeavesTheLoop` `LogSpec` | 38,321 |
| Sketch | 2 stored buckets of at most 2 bins, 4 folded observations and 2 raw ones, of both signs and several sizes | `StoredDecodes` `BucketsCanonical` `ViewCanonical` `QuantileAccurate` | 83,531 |
| Cluster | 2 goroutines in one process or two, 21 deployments, 4 calls, 2 writes per process, a restart | `TypeOK` `WritesShown` `AddsCounted` `SequentialReads` `LeaseHolds` `LastWriteWinsLocally` `LogSpec` | 6,299,797 |
| RangeStops | as Scan | `RangeLeavesTheLoop` is violated | |
| CacheStale | Redis with its cache, one process, no restart | `ReadsOwnUpdates` is violated | |
| RestartLoses | the same, with a restart | `LastWriteWins` is violated | |
| CloseLoses | as Core, 1 writer, buffer, no store faults | `CloseFlushes` is violated | |
| ReadGap | as Reads, buffer | `ReadYourWrites` is violated | |

Bounds. Two writes are what it takes to be out of order, to meet in one second,
or to be on both sides of a swap or a compaction; Pool has a third so that an
object is recycled and used again while two flushes are under way. Two seconds
and a cutoff between them give a point that is folded and one that is not. Two
keys give a flush that fails half way through its map. Objects: one per key in
the buffer plus one per series a flush holds or recycles; with 2 writes at most
2 are non-empty, and emptied ones are reused before new ones are taken.
Scan needs more than two operations so that there are full and partial segments,
and two writes after a compaction; its last second is the word of a time before
1970, and its intervals are all pairs of seconds, those that begin before 1970 and
end after it (falling as words, hence empty) among them.
Sketch needs three sizes of bin for two bins, so that one is
collapsed, on both sides of zero.
Cluster's four calls are enough for two writes, a compaction and a read, or
for a read that overlaps a write and one after both; three replica ids, with the
middle one first, let a restart raise or lower the id. One value suffices there:
what is told apart is the stamp.
Writers, objects and clients are interchangeable and the safety runs use that
symmetry; Live uses none. Scan and Sketch have no deadlock: a compaction or a read is always
possible. Deadlock is not checked in the runs of `TrendDB` and `Cluster`: a DB that
is closed, or whose writers have used up the clock or the calls, rightly stops.

Fairness (`Fairness` in `TrendDB`). The ticker keeps ticking and the loop's
goroutine is scheduled: weak fairness of `FlushCall(Loop)`. A Flush that has been
called runs on, since store calls return and the mutex is fair: weak fairness of
each flusher's `FlushStep` and of `CloseStore`. `select` picks at random among
its ready cases, so a cancelled loop does not take the tick for ever: strong
fairness of `LoopExit`. Nobody is obliged to write, read, flush or close.

### What the five violations show

- **CloseFlushes.** "Close flushes pending writes" (`db.go:79`). The loop has
  swapped the buffer; Close cancels its context, finds an empty buffer, and
  returns nil; the loop's merge fails on the cancelled context or the closed
  store, and its error is discarded. The acknowledged write is lost. With an
  adapter that ignores the context and can still be used after Close, it survives.
- **ReadYourWrites.** `db_test.go:46-48` expects a Set that returned to be seen by
  the next Values. When a flush runs at the same time, the write can be in
  neither snapshot: the store was read before the merge and the buffer after the
  swap. `ReadMissesOnlyFlushed` shows that this is the only way to miss one.
- **RangeLeavesTheLoop.** Values and Range return Go iterators (`README.md:20` of
  the library). When the consumer of a Range over samples or counters leaves its
  loop, the scan stops with a group in hand, and the code after it yields that
  group once more (`samples.go:187`, `counters.go:212`), which a range statement
  answers with a panic. `LeavesTheLoop` shows that the other iterators stop.
- **ReadsOwnUpdates.** `cached_test.go:70-75` expects a Load to return what the
  Update before it wrote. A Load that missed before the Update and fills the cache
  after it puts the old value back. `SequentialReads` shows that
  this takes calls that overlap within one process: without overlap, or without
  a cache, reads show what their process wrote.
- **LastWriteWins.** Samples are last-write-wins (`README.md:17`). Clocks start
  at zero in every process and do not advance with what is read, so a later Set
  from a restarted or another process can lose. `LastWriteWinsLocally`
  shows that it holds between the writes of one run of one process.

What else the runs of this part say. The lease protects nothing the series needs:
`LogSpec`, `WritesShown` and `AddsCounted` hold also when BuntDB's or SQLite's
unconditional release frees a lease that somebody else has taken over; only
Redis' token keeps compactions exclusive (`LeaseHolds`). A replica id that comes back
costs counts after a restart, since an Add may repeat a stamp: `AddsCounted` holds as
long as ids are new with each process, and where they repeat, until a restart. After a late write, older than a
bucket, scans of samples and counters may yield out of order and twice for one
second; `ReferenceAgrees` and `FirstAndLast` hold without late writes, and
`EachPartOnce` always.

## 4. Theorems

All but the last of the first table are about `TrendDB!Spec`, for every number of keys, writers, callers,
readers, objects, seconds and values, from the named assumptions on the constants
(kinds of keys are disjoint, times, values and replicas are numbers, the loop,
Close and callers are different goroutines). Every safety property that the runs
check of `TrendDB` is proved.

| Theorem | States | Argument |
|---|---|---|
| `TypeCorrect` | `Spec => []TypeOK` | inductive as it stands |
| `PoolIsExclusive` | `Spec => []ExclusivePending` | with `IdleHoldsNothing`: a flusher outside its range holds no object. Without it a swap could overwrite a map still in use |
| `StampsAreDistinct` | `Spec => []DistinctStamps` | part of `CountInv` |
| `CountedAtMostOnce` | `Spec => []AtMostOnce` | `CountInv`: clocks identify what is acknowledged or stored (`KnownStamps`), a stamp not written yet is new (`FreshStamps`), an operation waits in one place only (`WaitingOnce`), and `AtMostOnce` itself. Merging what waited cannot touch a bucket because it was not stored; it stops waiting because it waited in one place. That objects are exclusive is needed to know what a step does to what is held |
| `StoredNeverOlder` | `Spec => NeverOlder` | every step leaves a series, merges distinct operations into it, or compacts it (`StoreSteps`); a merge keeps each operation or a newer one of its second (`MergeKeeps`, by taking the largest clock, `LargestExists`) |
| `NothingLostSilently` | `Spec => []NoSilentLoss` | what a series accounts for, it accounts for after any step (`AccountsStable`, from `MergeKeeps` and the transitivity of `Newer`); what waits keeps waiting unless a merge stores it or a failure drops it (`WaitingStays`, `StoreSettles`) |
| `FlushAnswers` | `Spec => []FlushSettles` | `OwedInv`: while a flusher is between its call and its return, each write it owes is accounted for, dropped, buffered (before the swap only), or in the hands of some flush. A write in another flush's hands never comes back to the buffer (`NoReturn`), so that at the return only the four excuses are left |
| `TrendImplementsLedger` | `Spec => LedgerSpec` | refinement: a buffered or direct write maps to `Accept`, a merge or a failure of a flush to `Settle`, all else stutters (`LedgerSteps`, `LedgerStep`). That the three places stay apart needs `AtMostOnce`, `NoSilentLoss` and `DroppedApart`: what a failed flush dropped waits nowhere, and the ledger's kept writes stay kept by `AccountsStable` |
| `ReadsCountOnce` | `Spec => []ReadCountsOnce` | `ReadInv`: what a reader loaded was stored, so each of its operations still accounts for itself in the store (`MergeStillAccounts`), and no two operations share a clock (`Identified`). Hence the tail it clones, which is not stored, shares nothing with the buckets of the snapshot |
| `ReadsMissOnlyFlushed` | `Spec => []ReadMissesOnlyFlushed` | `ReadInv` again: what a reader must see is accounted for in its snapshot, or waited at that moment. Without a buffer nothing waits (`Unbuffered`); what is still buffered at the clone is in the clone |
| `Ledger!LedgerBalanced` | `Ledger!Spec => []Balanced` | inductive |

Those of `Cluster_proofs` and `Cluster_counts` are about `Cluster!Spec`, for every
number of processes, clients, calls and restarts and every set of deployments.

| Theorem | States | Argument |
|---|---|---|
| `ClusterImplementsLog` | `Spec => LogSpec` | refinement: a write's `Put` is `SeriesLog`'s `Write` or `Fold`, everything else stutters (`PutIsLogStep`, `SeriesKept`). It rests on `IInv`: a client between the read and the write of an exclusive Update has the lock and holds what the store has (`Locks`); of an optimistic one, it holds what the store has unless its watch has noticed (`Watches`); what is being acknowledged is written (`Taken`) |
| `WritesStayShown` | `Spec => []WritesShown` | `SInv`: raw samples have one point a second and raw sketch observations one value a stamp (`RawShape`), and a merge keeps each or puts something not older in its place (`MergeSamplesShow`, `MergeSketchesShow`) |
| `LeasesHold` | `Spec => []LeaseHolds` | inductive with the types: only its holder's token frees a lease, and expiry is recorded in `lapsed` |
| `TypeCorrect` | `Spec => []TypeOK` | inductive with `Taken`: what is acknowledged has been written |
| `AddsCountOnce` | `Spec => []AddsCounted` | `StampInv`: processes keep replica ids of their own (`Ids`), a new id is one never used (`Retired`), an operation on its way carries the id of its process (`Writing`) and a clock not above it, and no two operations, on their way or written, share a stamp (`Stamps`). So each `Put` adds an operation the store does not have, and a merge drops none (`MergeAdds`): `Counted` says that the written operations are as many as the writes and are what the series holds |
| `LastWriteOfAProcessWins` | `Spec => []LastWriteWinsLocally` | `Ordered`: of a pair in `after` with one replica id the later has the higher clock, and once it is written the earlier is not raw. It cannot come back, since what is written is not written again |
| `ProcessesReadTheirWrites` | `Spec => []SequentialReads` | `OwnInv`: without overlap a process has one call under way (`OneCall`), its cache and what is about to fill it show all it has had acknowledged (`CacheShows`), and so does what its reads have loaded (`Loading`). An acknowledgement empties the cache in the same step; what is read of the store shows everything by `WritesShown` |

`AddsCounted` and `LastWriteWinsLocally` speak of stamps that are given once, and
`SequentialReads` behind a cache of the writes of one process. So they assume
`DistinctIds`: processes (more exactly DBs) have replica ids of their own. The
code gives a DB the id of its machine and PID, or what `WithReplica` was given;
two DBs that one process opens on one store without `WithReplica` share an id.
An id that outlives a restart repeats clocks, hence the second half of `FreshStamps`.
`WithReplica` gives such an id. A derived one is machine and PID (`machine/machine.go:34-36`),
which nothing in the code keeps from coming around: a PID is used again, and a process
in a restarted container may have the PID it had. That this does not
happen is an assumption on the environment. It is named in the deployment: `repeats` says
whether a process may start again with its old id, and the deployments with it are
part of the Cluster run. Where ids do not repeat, a new one is `\notin retired`. An id that
passes from one process to another is not modelled.

Those of `StoredSeries_proofs` are about `StoredSeries!Spec`, for every size of
segment, width of word, span and cutoff of compaction and length of deltas. They
assume that seconds, replica ids and clocks are words: of a larger one the coding
modulo a word loses the difference.

| Theorem | States | Argument |
|---|---|---|
| `SeriesInv` | `Spec => []IInv` | `BytesInv`: the bytes are encodings of chunks (`Encoded`), raw points are distinct, in time order, one a second for samples, and at or before the last second of some segment (`Covered`), buckets increase. `ClockInv`: clocks only move on, so an operation is known by its clock. `LastInv`: each operation of the last delta is in the series or stands behind a newer one of the same delta, the one of its second with the largest clock (`NewestStays`) |
| `BytesWellFormed` | `Spec => []WellFormed` | what is decoded of a segment is the chunk it was made from (`SegmentDecodes`), so its header agrees with its items (`ItemsOfSegment`) |
| `BytesImplementLog` | `Spec => LogSpec` | refinement: `Merge` maps to `SeriesLog`'s `Write` and `Compact` to its `Fold`, on the operations that the bytes decode to. If a delta is decoded and merged, any listing of the merged set in time order decodes to that set (`MergeByDecoding`). If it is appended as it is, every operation in it is later than all raw ones, since these are covered by segments that `canAppend` has looked at; so the merge would have dropped none (`MergeByAppending`). A compaction's pass over the raw list moves those before the cutoff to the map of buckets and keeps the others (`CompactMovesOps`) |
| `SecondDeliveryHarmless` | `Spec => []RedeliveryHarmless` | something of the last delta is raw, hence covered, hence `canAppend` refuses it; decoding and merging it changes nothing (`MergedAgain`), by `LastInv` and because operations have clocks of their own |

These rest on lemmas about the coding itself: differences modulo a word and
running sums are inverse (`UndeltaDelta`), cutting a list into chunks and
flattening gives the list (`ChunksOfList`), `FlattenSeq` of a list put together is
what its parts flatten to (`FlattenConcat`), and an append is read back behind what
was there (`DecodedAppend`). `Covered` is why a fast path that looks at headers
only is safe. It needs the raw points to lie in time order within a segment, and
no compaction to leave a raw point that no header spans.

`LogSpec` is thus proved of both, `Cluster` and `StoredSeries`: the steps of
competing processes are atomic merges, and the merge of the bytes is the merge
of the algebra.

Those of `StoredSeries_scans` are about the same specification, for every span,
width of groups and length of a segment.

| Theorem | States | Argument |
|---|---|---|
| `BucketsBeforePoints` | `Spec => []ScanInv` | inductive on top of `IInv`, see below |
| `PartsOnce` | `Spec => []EachPartOnce` | what a scan meets in the segments it decodes, cut to the interval, is what all segments hold of it (`StreamIsWithin`: a segment it skips has nothing of it, since its header spans its items). An iterator loses and repeats none of it: it has yielded, and holds in the group it is at, the parts it was given (`FoldKeepsParts`); the map of `sketchMixedRange` likewise, a group at a time (`MixedCounts`); and the merge of two lists by time takes each element once (`ByTimeCounts`, with the loop's invariant `MergePass`) |
| `ScansAgree` | `Spec => []ReferenceAgrees` | while no write was late, the stored order of items, buckets before raw points, is their order in time (`BucketsFirst`), hence what the merge by time of the in-memory iterators gives (`ByTimeInOrder`, `StreamIsReference`); from equal lists the folds build equal groups |
| `SamplesInOrder` | `Spec => []FirstAndLast` | so the parts of samples come in time order: within a bucket by `BucketsSorted`, from bucket to bucket since each holds operations of its own span (`BucketsAtHome`), from buckets to raw points by the horizon (`StoredChrono`). Cutting to an interval and grouping keep the order |
| `ScannedSketchesInOrder` | `Spec => []SketchesInOrder` | the keys of the map of groups are sorted, each once (`MixedGroupsSorted`); on the paths without a map, the raw points alone and the buckets alone are in time order already (`ItemsOfKind`) |
| `ScanLeavesTheLoop` | `Spec => []LeavesTheLoop` | a consumer of patience p is refused after p elements and not before (`RefusedAfter`), and the loops test it before they go on |

`ScanInv` is needed because `IInv` says what the decoded series is, and an
iterator reads segments in the order they were written. Its parts: the segments
hold the buckets first and the raw points behind them (`LaidOut`), what is folded is
before the horizon, and without a late write what is raw is not before it; every
bucket holds operations of the span it stands for, in time order for samples as
long as no write was late. A late write breaks the last and the order in time
(its operation is folded behind newer ones), which is why `ReferenceAgrees` and
`FirstAndLast` are stated without it, and `EachPartOnce` and `SketchesInOrder` with it.

Those of `Sketch_proofs` are about `Sketch!Spec`, for every set of observations,
range of keys, number of buckets and limit of bins, including a limit of none. They
assume that every observation other than zero has a bin (`KeyAssumption`) and that
`Nil` is not the bytes of a sketch.

| Theorem | States | Argument |
|---|---|---|
| `SketchStoredDecodes` | `Spec => []StoredDecodes` | `SketchInv`: every stored bucket and the sketch of a read stand for their observations (`Sketched`), so their counts add up and their bins are within the limit |
| `SketchBucketsCanonical` | `Spec => []BucketsCanonical` | within the limit, a value that is `Binned` has just the kept bins (`HeldIsKept`, `SketchedIsSketchOf`), see below. What is decoded of the bytes are the bins that were coded (`BinsSurvive`) |
| `SketchViewCanonical` | `Spec => []ViewCanonical` | the same of a read: it is exact and holds what it has seen, or it is `Sketched` (`AnySketch`); adding, binning and merging keep that (`AddExactSketched`, `ApproximateSketched`, `MergeBytesSketched`) |
| `SketchQuantiles` | `Spec => []QuantileAccurate` | each rank has one observation (`RankExists`, `RankedIs`). The negative bins, counted from zero down, zero with all that was collapsed, and the positive bins divide the ranks as the observations do (`Sections`), and within a side the bin that is found is the observation's (`NegativeRank`, `PositiveRank`, `ZeroRank`), because what is kept reaches outwards from zero (`KeptOutwards`). Bins are narrow (`BinValueClose`), and clamping to the least and largest observation brings an answer nearer (`ClampCloser`). Of an exact sketch: it can be sorted (`ListSortable`), and in a sorted list the place is the rank (`SortedByRank`) |

That a value has the largest bins of its observations is not inductive: between two
collapses it has more, and a bin that was collapsed once comes back when another of
its observations arrives, short of those that went to zero. `Binned` is what is kept
throughout: each of the largest bins, up to the limit, is complete, and the rest is in
other bins or in zero. Adding or merging keeps it whatever was collapsed before, since
a bin that is kept of the union is kept of each part it occurs in (`KeptOfPart`), hence
complete in both. A collapse takes the smallest bin while there are more than the limit,
which is none of the kept ones (`SmallestNotLargest`).

Under these are sums over bags. The fold that the community modules define a sum by picks
the elements of a set in a chosen order; it is a recursion over sets, of which one
shows that a solution exists and that all give one value (`SumExists`, `SumsAgree`).
From there on sums are used by `SumAdds` and `SumDisjoint` alone. No induction
principle is cited (the provers cannot instantiate one); `NatUpTo` and `FiniteUpTo` give it
as a fact about the set of numbers, or of subsets, that something holds of, from the
existence of least elements.

So every safety property that a passing run checks is proved. Only model-checked are
the liveness properties of `TrendDB` (`EveryWriteSettles`, `CloseReturns`, `LoopStops`):
liveness under fairness and ENABLED are out of the prover's reach.

## 5. What is not modelled

Not modelled, and why:

- **Bytes below a column**: varints, S2 compression, the XOR coding of floats and
  the rejection of malformed input. They are pure functions with round-trip
  tests; what segments and differences do to a series is in `Segments`.
- **Floating point**: values are numbers in the order of the code's comparisons;
  rounding, NaN and the logarithm of a sketch's key stay out.
- **Stored exact sketches and `storedSketch`**: compaction only ever stores
  approximate ones, and only tests write the others. `storedSketch` decodes the
  same format a second time without building the bins.
- **compactLoop**: its timer, jitter and set of seen keys. `Compact` is an action
  anyone may take at any time instead.
- **Delete of a primary store**: the DB never calls it. In the memory store it does not
  take the lock of Update. The cache's Delete is `Invalidate`.
- **The memory store as a primary loses entries** by lifetime (24 hours by default)
  and size; it is a cache by design. `Cluster` lets only the cache evict.
- **Errors of Load** change nothing and are stuttering steps.
- **URLs, options, the registry of schemes, `migrate`, the machine id and the
  benchmarks**: configuration and I/O. Of a machine id it matters whether it is
  new with each process; `repeats` and `NewReplica` have both cases.
