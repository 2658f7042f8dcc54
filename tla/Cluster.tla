------------------------------- MODULE Cluster -------------------------------
(***************************************************************************)
(* Processes over one shared store: the DBs of several processes, each     *)
(* with its clock, replica id and read-through cache (storage/cached), and *)
(* their goroutines, which write, read and compact one series.  The        *)
(* adapters differ in two ways that matter here:                           *)
(*   exclusive  - Update excludes every other from its read to its write   *)
(*                (the mutex of memory, the transaction of buntdb, the one *)
(*                connection of sqlite), or it fails when the key changed  *)
(*                meanwhile (redis WATCH; sqlite between processes, where  *)
(*                the second transaction is refused as busy);              *)
(*   lease      - none (memory), released whoever holds it (buntdb,        *)
(*                sqlite), or released by token (redis).                   *)
(* Writes go to the store at once; the buffer in front is TrendDB's part.  *)
(***************************************************************************)
EXTENDS Series

CONSTANTS Process,      \* processes that have opened the store
          Client,       \* goroutines
          Config,       \* the deployments to consider
          Cutoff,       \* seconds compaction may cut at
          MaxRestarts,  \* bound: restarts of processes
          MaxCalls,     \* bound: calls of clients
          Nil

Kinds == {"sample", "counter", "sketch"}

ASSUME ConfigAssumption ==
    Config \subseteq [kind : Kinds, exclusive : BOOLEAN, cached : BOOLEAN, repeats : BOOLEAN,
                      lease : {"none", "any", "token"}, home : [Client -> Process],
                      ids : [Process -> Replica]]
ASSUME CutoffAssumption == Cutoff \subseteq Nat
ASSUME BoundAssumption == MaxRestarts \in Nat /\ MaxCalls \in Nat
ASSUME NilAssumption == Nil \notin Op /\ Nil \notin Client /\ Nil \notin SeriesState

VARIABLES
    config,    \* the deployment; never changes
    store,     \* the series under the key
    exists,    \* is there a value under the key
    locked,    \* the client inside an exclusive Update
    cache,     \* per process: the cached value
    clock,     \* per process: db.clock
    replica,   \* per process: db.replica
    lease,     \* the client whose lease the store holds
    step,      \* per client: where its call is
    op,        \* per client: the operation it writes, Nil in a compaction
    held,      \* per client: the value it has read
    changed,   \* per client: was the key written since (WATCH)
    written,   \* history: the operations the store has taken
    adds,      \* history: how many writes the store has taken
    acked,     \* history: the operations whose call returned nil
    after,     \* history: pairs <<w, o>>: the call of o began after w was acked
    seen,      \* history: per reader, what its process had acked when it began
    overlap,   \* history: processes in which two calls have overlapped
    lapsed,    \* history: clients whose lease expired while they compacted
    retired,   \* history: replica ids in use so far
    restarts, calls  \* bounds

dbVars == <<clock, replica, retired, restarts>>
leaseVars == <<lease, lapsed>>
callVars == <<after, seen, overlap, calls>>
storeVars == <<store, exists, written, adds>>

vars == <<config, store, exists, locked, cache, clock, replica, lease, step, op, held,
          changed, written, adds, acked, after, seen, overlap, lapsed, retired, restarts, calls>>

Home(c) == config.home[c]
Peers(c) == {d \in Client : Home(d) = Home(c)}

Steps == {"idle", "update", "write", "invalidate", "release", "load", "fill", "loaded"}

Init ==
    /\ config \in Config
    /\ store = Empty
    /\ exists = FALSE
    /\ locked = Nil
    /\ cache = [p \in Process |-> Nil]
    /\ clock = [p \in Process |-> 0]
    /\ replica = config.ids
    /\ lease = Nil
    /\ step = [c \in Client |-> "idle"]
    /\ op = [c \in Client |-> Nil]
    /\ held = [c \in Client |-> Empty]
    /\ changed = [c \in Client |-> FALSE]
    /\ written = {} /\ adds = 0 /\ acked = {} /\ after = {}
    /\ seen = [c \in Client |-> {}]
    /\ overlap = {} /\ lapsed = {}
    /\ retired = {replica[p] : p \in Process}
    /\ restarts = 0 /\ calls = 0

-----------------------------------------------------------------------------
(* A call begins. *)
Begin(c) ==
    /\ step[c] = "idle"
    /\ calls < MaxCalls
    /\ calls' = calls + 1
    /\ overlap' = IF \E d \in Peers(c) : step[d] # "idle" THEN overlap \cup {Home(c)} ELSE overlap

Own(c) == {o \in acked : o.replica = replica[Home(c)]}

(* db.clock.Add(1), and the replica of the process. *)
Stamp(c, at, value) ==
    /\ op' = [op EXCEPT ![c] = [at |-> at, clock |-> clock[Home(c)] + 1,
                                replica |-> replica[Home(c)], value |-> value]]
    /\ clock' = [clock EXCEPT ![Home(c)] = @ + 1]

(* Samples.Set, Counters.Add, Sketches.Add up to store.Update. *)
Set(c, at, value) ==
    /\ clock[Home(c)] < MaxClock
    /\ Begin(c)
    /\ Stamp(c, at, value)
    /\ after' = after \cup {<<w, op'[c]>> : w \in {o \in acked : o.at = at}}
    /\ step' = [step EXCEPT ![c] = "update"]
    /\ UNCHANGED <<config, storeVars, locked, cache, replica, retired, restarts, leaseVars,
                   held, changed, acked, seen>>

(* The lease of the store, which must be free (or has expired). *)
Acquire(c) ==
    /\ lease = Nil
    /\ lease' = c
    /\ lapsed' = lapsed \ {c}

(* db.compact: with the lease, over a store that has them. *)
Compact(c) ==
    /\ Begin(c)
    /\ IF config.lease = "none" THEN UNCHANGED leaseVars ELSE Acquire(c)
    /\ step' = [step EXCEPT ![c] = "update"]
    /\ UNCHANGED <<config, storeVars, locked, cache, dbVars, op, held, changed, acked, after, seen>>

(* Update reads the old value. *)
UpdateRead(c) ==
    /\ step[c] = "update"
    /\ config.exclusive => locked = Nil
    /\ locked' = IF config.exclusive THEN c ELSE Nil
    /\ held' = [held EXCEPT ![c] = store]
    /\ changed' = [changed EXCEPT ![c] = FALSE]
    /\ step' = [step EXCEPT ![c] = "write"]
    /\ UNCHANGED <<config, storeVars, cache, dbVars, leaseVars, op, acked, callVars>>

(* The merge functions of db.merge and db.compact, over what was read. *)
Merged(c, cutoff) ==
    LET delta == {op[c]}
    IN  IF op[c] = Nil THEN Compacted(held[c], cutoff)
        ELSE [held[c] EXCEPT !.raw =
                 CASE config.kind = "sample"  -> MergeSamples(@, delta)
                   [] config.kind = "counter" -> MergeCounters(@, delta)
                   [] config.kind = "sketch"  -> MergeSketches(@, delta)]

(* The store takes the new value; every watch on the key fails from now on.*)
Put(c, cutoff) ==
    /\ store' = Merged(c, cutoff)
    /\ exists' = TRUE
    /\ written' = IF op[c] = Nil THEN written ELSE written \cup {op[c]}
    /\ adds' = IF op[c] = Nil THEN adds ELSE adds + 1
    /\ changed' = [d \in Client |-> step[d] = "write" /\ d # c]

(* Deviation: the watch is not looked at. *)
MayWriteAlways(c) == TRUE

MayWrite(c) == config.exclusive \/ ~changed[c]

Compacting(c) == op[c] = Nil /\ step[c] \in {"update", "write", "invalidate", "release"}

(* A call that ends with the error err, or without one; a compaction still *)
(* has its lease to release.                                               *)
Return(c, err) ==
    /\ step' = [step EXCEPT ![c] =
                  IF op[c] = Nil /\ config.lease # "none" THEN "release" ELSE "idle"]
    /\ acked' = IF op[c] = Nil \/ err THEN acked ELSE acked \cup {op[c]}
    /\ op' = [op EXCEPT ![c] = Nil]
    /\ held' = [held EXCEPT ![c] = Empty]

(* The write of Update; store.Update of the cached store then has its      *)
(* entry to delete.                                                        *)
UpdateWrite(c, cutoff) ==
    /\ step[c] = "write"
    /\ MayWrite(c)
    /\ Put(c, cutoff)
    /\ locked' = Nil
    /\ IF config.cached
       THEN step' = [step EXCEPT ![c] = "invalidate"] /\ UNCHANGED <<acked, op, held>>
       ELSE Return(c, FALSE)
    /\ UNCHANGED <<config, cache, dbVars, leaseVars, callVars>>

(* Deviation: a failed transaction is taken for a success. *)
UpdateRefusedNil(c) ==
    /\ step[c] = "write"
    /\ locked' = Nil
    /\ Return(c, FALSE)
    /\ UNCHANGED <<config, storeVars, cache, dbVars, leaseVars, changed, callVars>>

(* Update fails and writes nothing: redis refuses (the key changed) or     *)
(* cannot be reached, sqlite is busy, the transaction is rolled back.      *)
UpdateRefused(c) ==
    /\ step[c] = "write"
    /\ locked' = Nil
    /\ Return(c, TRUE)
    /\ UNCHANGED <<config, storeVars, cache, dbVars, leaseVars, changed, callVars>>

(* The store wrote and the answer is lost: an error, and Update of the     *)
(* cached store leaves its entry.                                          *)
UpdateUnanswered(c, cutoff) ==
    /\ step[c] = "write"
    /\ ~config.exclusive
    /\ MayWrite(c)
    /\ Put(c, cutoff)
    /\ Return(c, TRUE)
    /\ UNCHANGED <<config, locked, cache, dbVars, leaseVars, callVars>>

(* Deviation: the entry stays. *)
InvalidateNothing(c) ==
    /\ step[c] = "invalidate"
    /\ cache' = cache
    /\ Return(c, FALSE)
    /\ UNCHANGED <<config, storeVars, locked, dbVars, leaseVars, changed, callVars>>

(* cache.Delete of the cached store's Update. *)
Invalidate(c) ==
    /\ step[c] = "invalidate"
    /\ cache' = [cache EXCEPT ![Home(c)] = Nil]
    /\ Return(c, FALSE)
    /\ UNCHANGED <<config, storeVars, locked, dbVars, leaseVars, changed, callVars>>

-----------------------------------------------------------------------------
(* Deviation: redis deletes the lease without comparing the token. *)
FreedAnyway(c) == Nil

(* What a release leaves: redis compares the token, the others do not.     *)
Freed(c) == IF config.lease = "token" /\ lease # c THEN lease ELSE Nil

(* The deferred release of db.compact; an error of it is ignored. *)
Release(c) ==
    /\ step[c] = "release"
    /\ lease' \in {Freed(c), lease}
    /\ lapsed' = lapsed \ {c}
    /\ step' = [step EXCEPT ![c] = "idle"]
    /\ UNCHANGED <<config, storeVars, locked, cache, dbVars, op, held, changed, acked, callVars>>

(* leaseTTL has passed. *)
Expire ==
    /\ lease # Nil
    /\ lease' = Nil
    /\ lapsed' = lapsed \cup {c \in {lease} : Compacting(c)}
    /\ UNCHANGED <<config, storeVars, locked, cache, dbVars, step, op, held, changed, acked,
                   callVars>>

-----------------------------------------------------------------------------
(* Load of the cached store: the entry ... *)
LoadHit(c) ==
    /\ Begin(c)
    /\ seen' = [seen EXCEPT ![c] = Own(c)]
    /\ config.cached /\ cache[Home(c)] # Nil
    /\ held' = [held EXCEPT ![c] = cache[Home(c)]]
    /\ step' = [step EXCEPT ![c] = "loaded"]
    /\ UNCHANGED <<config, storeVars, locked, cache, dbVars, leaseVars, op, changed, acked, after>>

(* ... or none (and always without a cache): *)
LoadMiss(c) ==
    /\ Begin(c)
    /\ seen' = [seen EXCEPT ![c] = Own(c)]
    /\ config.cached => cache[Home(c)] = Nil
    /\ step' = [step EXCEPT ![c] = "load"]
    /\ UNCHANGED <<config, storeVars, locked, cache, dbVars, leaseVars, op, held, changed, acked,
                   after>>

(* the primary is read, *)
LoadPrimary(c) ==
    /\ step[c] = "load"
    /\ held' = [held EXCEPT ![c] = store]
    /\ step' = [step EXCEPT ![c] = IF config.cached /\ exists THEN "fill" ELSE "loaded"]
    /\ UNCHANGED <<config, storeVars, locked, cache, dbVars, leaseVars, op, changed, acked,
                   callVars>>

(* and what was read fills the cache. *)
LoadFill(c) ==
    /\ step[c] = "fill"
    /\ cache' = [cache EXCEPT ![Home(c)] = held[c]]
    /\ step' = [step EXCEPT ![c] = "loaded"]
    /\ UNCHANGED <<config, storeVars, locked, dbVars, leaseVars, op, held, changed, acked, callVars>>

LoadReturn(c) ==
    /\ step[c] = "loaded"
    /\ step' = [step EXCEPT ![c] = "idle"]
    /\ held' = [held EXCEPT ![c] = Empty]
    /\ seen' = [seen EXCEPT ![c] = {}]
    /\ UNCHANGED <<config, storeVars, locked, cache, dbVars, leaseVars, op, changed, acked, after,
                   overlap, calls>>

(* The cache drops an entry: its lifetime or its size. *)
Evict(p) ==
    /\ cache[p] # Nil
    /\ cache' = [cache EXCEPT ![p] = Nil]
    /\ UNCHANGED <<config, storeVars, locked, dbVars, leaseVars, step, op, held, changed, acked,
                   callVars>>

(* Deviation: the replica id is that of the machine, without the PID.      *)
NewReplicaOfHost(p, r) == r = replica[p]

(* The replica id of a process that starts again.  It is new, or that of   *)
(* the process before it where ids repeat: WithReplica gives one for good, *)
(* and the machine and PID of machine.ID can come around (a restarted      *)
(* container).  That they do not, when ids do not repeat, is an assumption *)
(* on the environment, which machine.ID does not check.                    *)
NewReplica(p, r) == r \notin retired \/ (config.repeats /\ r = replica[p])

(* A process dies and its program is started again: New with clock zero,   *)
(* its replica, an empty cache.                                            *)
(* What it was writing is rolled back; its lease stays.  (The memory       *)
(* store, the one without a lease, would die with its process.)            *)
Restart(p) ==
    LET gone == {c \in Client : Home(c) = p}
    IN  /\ restarts < MaxRestarts
        /\ gone # {}
        /\ config.lease # "none"
        /\ restarts' = restarts + 1
        /\ clock' = [clock EXCEPT ![p] = 0]
        /\ \E r \in Replica :
              /\ NewReplica(p, r)
              /\ replica' = [replica EXCEPT ![p] = r]
              /\ retired' = retired \cup {r}
        /\ cache' = [cache EXCEPT ![p] = Nil]
        /\ step' = [c \in Client |-> IF c \in gone THEN "idle" ELSE step[c]]
        /\ op' = [c \in Client |-> IF c \in gone THEN Nil ELSE op[c]]
        /\ held' = [c \in Client |-> IF c \in gone THEN Empty ELSE held[c]]
        /\ seen' = [c \in Client |-> IF c \in gone THEN {} ELSE seen[c]]
        /\ locked' = IF locked \in gone THEN Nil ELSE locked
        /\ lapsed' = lapsed \ gone
        /\ overlap' = overlap \ {p}
        /\ UNCHANGED <<config, storeVars, lease, changed, acked, after, calls>>

ClientStep(c) ==
    \/ \E at \in Time, value \in Value : Set(c, at, value)
    \/ Compact(c)
    \/ UpdateRead(c)
    \/ \E cutoff \in Cutoff : UpdateWrite(c, cutoff)
    \/ UpdateRefused(c)
    \/ \E cutoff \in Cutoff : UpdateUnanswered(c, cutoff)
    \/ Invalidate(c)
    \/ Release(c)
    \/ LoadHit(c)
    \/ LoadMiss(c)
    \/ LoadPrimary(c)
    \/ LoadFill(c)
    \/ LoadReturn(c)

Next ==
    \/ \E c \in Client : ClientStep(c)
    \/ \E p \in Process : Evict(p) \/ Restart(p)
    \/ Expire

Spec == Init /\ [][Next]_vars

-----------------------------------------------------------------------------
Pairs == Op \X Op

(* The types of the variables, and what ties a client's step to the lock.  *)
TypeOK ==
    /\ config \in Config
    /\ store \in SeriesState /\ exists \in BOOLEAN
    /\ locked \in Client \cup {Nil}
    /\ cache \in [Process -> SeriesState \cup {Nil}]
    /\ clock \in [Process -> 0..MaxClock]
    /\ replica \in [Process -> Replica] /\ retired \subseteq Replica
    /\ lease \in Client \cup {Nil} /\ lapsed \subseteq Client
    /\ step \in [Client -> Steps]
    /\ op \in [Client -> Op \cup {Nil}]
    /\ held \in [Client -> SeriesState]
    /\ changed \in [Client -> BOOLEAN]
    /\ written \subseteq Op /\ adds \in Nat /\ acked \subseteq written
    /\ after \subseteq Pairs
    /\ seen \in [Client -> SUBSET Op]
    /\ overlap \subseteq Process
    /\ restarts \in 0..MaxRestarts /\ calls \in 0..MaxCalls

Log == INSTANCE SeriesLog WITH kind <- config.kind, raw <- store.raw, folded <- store.folded

(* The read and the write of an Update, interleaved with those of other    *)
(* clients and processes, are one atomic merge or compaction of the series *)
(* (SeriesLog): no update is lost.                                         *)
LogSpec == Log!Spec

(* What the store took, and so everything a call acknowledged, stays in it *)
(* or stands behind a newer point, through the refused and unanswered      *)
(* updates, compactions and restarts of all the processes.                 *)
WritesShown == Log!NothingLost

(* No two processes have been given the same replica id (WithReplica), or  *)
(* have the same machine and PID.                                          *)
DistinctIds == \A p, q \in Process : config.ids[p] = config.ids[q] => p = q

(* No stamp has been given twice: each process has a replica id of its     *)
(* own, and where ids repeat none has restarted its clock.                 *)
FreshStamps == DistinctIds /\ (config.repeats => restarts = 0)

(* Every Add the store took counts, exactly once, for all the processes,   *)
(* restarts and compactions, as long as no stamp is given twice.           *)
AddsCounted ==
    (config.kind # "sample" /\ FreshStamps) =>
        /\ Cardinality(store.raw \cup store.folded) = adds
        /\ store.raw \cap store.folded = {}

(* A read shows what its own process had acknowledged when it began,       *)
(* if there is no cache, or the calls of the process never overlapped and  *)
(* its replica id is its own.                                              *)
SequentialReads ==
    \A c \in Client :
        (step[c] = "loaded" /\ (config.cached => DistinctIds /\ Home(c) \notin overlap)) =>
            \A o \in seen[c] : Log!Shown(config.kind, held[c].raw \cup held[c].folded, o)

(* A compaction whose lease has not expired still has it: no other process *)
(* releases it (redis).                                                    *)
LeaseHolds ==
    config.lease = "token" =>
        \A c \in Client : Compacting(c) => lease = c \/ c \in lapsed

(* The older of two points is shown though the younger was acknowledged.   *)
Overruled(w, o) ==
    /\ config.kind = "sample"
    /\ o \in acked /\ o.at = w.at
    /\ w \in store.raw /\ o \notin store.raw \cup store.folded

(* The last write wins among the writes of one run of a process.           *)
LastWriteWinsLocally ==
    \A pair \in after :
        (pair[1].replica = pair[2].replica /\ FreshStamps) => ~Overruled(pair[1], pair[2])

(* README.md: last-write-wins values.  Does not hold across processes or   *)
(* restarts: clocks start at zero and never learn of each other.           *)
LastWriteWins == \A pair \in after : ~Overruled(pair[1], pair[2])

(* cached_test.go: a Load after an Update returns what it wrote.  Does not *)
(* hold when another Load of the process was under way.                    *)
ReadsOwnUpdates ==
    \A c \in Client :
        step[c] = "loaded" =>
            \A o \in seen[c] : Log!Shown(config.kind, held[c].raw \cup held[c].folded, o)

=============================================================================
