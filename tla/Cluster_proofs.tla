---------------------------- MODULE Cluster_proofs ----------------------------
(***************************************************************************)
(* Theorems about Cluster and their proofs, for any number of processes,   *)
(* clients, restarts and calls, and every mixture of deployments.          *)
(***************************************************************************)
EXTENDS Cluster, TLAPS

-----------------------------------------------------------------------------
(* The inductive invariant: besides the types, a client between the read   *)
(* and the write of its Update holds the value of the store, unless its    *)
(* watch has noticed, and what is being acknowledged has been written.     *)
Locks ==
    config.exclusive =>
        \A c \in Client : step[c] = "write" => locked = c /\ held[c] = store

Watches ==
    ~config.exclusive =>
        \A c \in Client : (step[c] = "write" /\ ~changed[c]) => held[c] = store

Taken == \A c \in Client : (step[c] = "invalidate" /\ op[c] # Nil) => op[c] \in written

IInv == TypeOK /\ Locks /\ Watches /\ Taken

(* What the fields of a deployment are. *)
LEMMA ConfigFacts ==
    ASSUME config \in Config
    PROVE  /\ config.kind \in Kinds
           /\ config.exclusive \in BOOLEAN /\ config.cached \in BOOLEAN
           /\ config.repeats \in BOOLEAN
           /\ config.lease \in {"none", "any", "token"}
           /\ config.home \in [Client -> Process]
           /\ config.ids \in [Process -> Replica]
  BY ConfigAssumption

(* The fields of an operation, as numbers. *)
LEMMA OpFacts ==
    ASSUME NEW o \in Op
    PROVE  o.at \in Nat /\ o.clock \in Nat /\ o.replica \in Nat /\ o.value \in Nat
<1>1. o.at \in Time /\ o.clock \in 1..MaxClock /\ o.replica \in Replica /\ o.value \in Value
  BY DEF Op
<1>2. o.clock \in Nat
  BY <1>1, MaxClockAssumption
<1> QED
  BY <1>1, <1>2, TimeAssumption, ReplicaAssumption, ValueAssumption

(* pending.Merge of one operation: a series again, with its buckets, and   *)
(* nothing but the old points and the new one.                             *)
LEMMA MergedType ==
    ASSUME TypeOK, NEW c \in Client, NEW cutoff \in Cutoff
    PROVE  Merged(c, cutoff) \in SeriesState
<1>1. CASE op[c] = Nil
  BY <1>1 DEF Merged, Compacted, TypeOK, SeriesState
<1>2. CASE op[c] # Nil
  <2> DEFINE r == held[c].raw
  <2>1. op[c] \in Op /\ r \subseteq Op /\ held[c].folded \subseteq Op
    BY <1>2 DEF TypeOK, SeriesState
  <2>2. MergeSamples(r, {op[c]}) \subseteq Op
    BY <2>1 DEF MergeSamples
  <2>3. MergeCounters(r, {op[c]}) \subseteq Op
    BY <2>1 DEF MergeCounters
  <2>4. MergeSketches(r, {op[c]}) \subseteq Op
    BY <2>1 DEF MergeSketches
  <2>5. config.kind \in Kinds
    BY ConfigFacts DEF TypeOK
  <2>6. CASE config.kind = "sample"
    <3>1. Merged(c, cutoff) = [held[c] EXCEPT !.raw = MergeSamples(r, {op[c]})]
      BY <1>2, <2>6 DEF Merged
    <3> QED
      BY <3>1, <2>2 DEF TypeOK, SeriesState
  <2>7. CASE config.kind = "counter"
    <3>1. Merged(c, cutoff) = [held[c] EXCEPT !.raw = MergeCounters(r, {op[c]})]
      BY <1>2, <2>7 DEF Merged
    <3> QED
      BY <3>1, <2>3 DEF TypeOK, SeriesState
  <2>8. CASE config.kind = "sketch"
    <3>1. Merged(c, cutoff) = [held[c] EXCEPT !.raw = MergeSketches(r, {op[c]})]
      BY <1>2, <2>8 DEF Merged
    <3> QED
      BY <3>1, <2>4 DEF TypeOK, SeriesState
  <2> QED
    BY <2>5, <2>6, <2>7, <2>8 DEF Kinds
<1> QED
  BY <1>1, <1>2

-----------------------------------------------------------------------------
(* Type correctness. *)
LEMMA TypeInit == Init => TypeOK
<1> SUFFICES ASSUME Init PROVE TypeOK
  OBVIOUS
<1>1. Empty \in SeriesState
  BY DEF Empty, SeriesState
<1>2. config.ids \in [Process -> Replica]
  BY ConfigFacts DEF Init
<1>3. replica \in [Process -> Replica] /\ retired \subseteq Replica
  BY <1>2 DEF Init
<1>4. 0 \in 0..MaxClock /\ 0 \in 0..MaxRestarts /\ 0 \in 0..MaxCalls
  BY MaxClockAssumption, BoundAssumption
<1> QED
  BY <1>1, <1>3, <1>4 DEF Init, TypeOK, Steps

(* What Return leaves is well typed. *)
LEMMA ReturnType ==
    ASSUME TypeOK, NEW c \in Client, NEW err \in BOOLEAN, Return(c, err)
    PROVE  /\ step' \in [Client -> Steps]
           /\ op' \in [Client -> Op \cup {Nil}]
           /\ held' \in [Client -> SeriesState]
           /\ acked' \subseteq acked \cup {o \in {op[c]} : o # Nil}
<1>1. Empty \in SeriesState
  BY DEF Empty, SeriesState
<1> QED
  BY <1>1 DEF Return, TypeOK, Steps

(* So is what Put leaves. *)
LEMMA PutType ==
    ASSUME TypeOK, NEW c \in Client, NEW cutoff \in Cutoff, Put(c, cutoff)
    PROVE  /\ store' \in SeriesState /\ exists' \in BOOLEAN
           /\ written' \subseteq Op /\ written \subseteq written'
           /\ op[c] # Nil => op[c] \in written'
           /\ adds' \in Nat
           /\ changed' \in [Client -> BOOLEAN]
<1>1. store' \in SeriesState
  BY MergedType DEF Put
<1>2. \A d \in Client : (step[d] = "write" /\ d # c) \in BOOLEAN
  OBVIOUS
<1> QED
  BY <1>1, <1>2 DEF Put, TypeOK

(* Set keeps the types. *)
LEMMA SetType ==
    ASSUME TypeOK, NEW c \in Client, NEW at \in Time, NEW value \in Value, Set(c, at, value)
    PROVE  TypeOK'
<1> DEFINE o == [at |-> at, clock |-> clock[Home(c)] + 1,
                 replica |-> replica[Home(c)], value |-> value]
<1>1. Home(c) \in Process
  BY ConfigFacts DEF TypeOK, Home
<1>2. clock[Home(c)] + 1 \in 1..MaxClock /\ clock[Home(c)] + 1 \in 0..MaxClock
  BY <1>1, MaxClockAssumption DEF TypeOK, Set
<1>3. o \in Op
  BY <1>1, <1>2 DEF TypeOK, Op
<1>4. op' = [op EXCEPT ![c] = o] /\ op'[c] = o
  BY DEF Set, Stamp, TypeOK
<1>5. op' \in [Client -> Op \cup {Nil}] /\ clock' \in [Process -> 0..MaxClock]
  BY <1>1, <1>2, <1>3, <1>4 DEF TypeOK, Set, Stamp
<1>6. after' \subseteq Pairs
  BY <1>3, <1>4 DEF TypeOK, Set, Pairs
<1>7. overlap' \subseteq Process /\ calls' \in 0..MaxCalls
  BY <1>1, BoundAssumption DEF TypeOK, Set, Begin
<1>8. step' \in [Client -> Steps]
  BY DEF TypeOK, Set, Steps
<1> QED
  BY <1>5, <1>6, <1>7, <1>8 DEF TypeOK, Set, storeVars, leaseVars

(* A compaction's call keeps them. *)
LEMMA CompactType ==
    ASSUME TypeOK, NEW c \in Client, Compact(c)
    PROVE  TypeOK'
<1>1. Home(c) \in Process
  BY ConfigFacts DEF TypeOK, Home
<1>2. overlap' \subseteq Process /\ calls' \in 0..MaxCalls
  BY <1>1, BoundAssumption DEF TypeOK, Compact, Acquire, Begin
<1>3. step' \in [Client -> Steps] /\ lease' \in Client \cup {Nil} /\ lapsed' \subseteq Client
  BY DEF TypeOK, Compact, Acquire, Steps, leaseVars
<1> QED
  BY <1>2, <1>3 DEF TypeOK, Compact, Acquire, storeVars, dbVars

(* The steps of an Update keep them. *)
LEMMA UpdateType ==
    ASSUME TypeOK, Taken, NEW c \in Client
    PROVE  /\ UpdateRead(c) => TypeOK'
           /\ \A cutoff \in Cutoff : UpdateWrite(c, cutoff) => TypeOK'
           /\ UpdateRefused(c) => TypeOK'
           /\ \A cutoff \in Cutoff : UpdateUnanswered(c, cutoff) => TypeOK'
           /\ Invalidate(c) => TypeOK'
<1> USE DEF storeVars, dbVars, leaseVars, callVars
<1>1. ASSUME UpdateRead(c) PROVE TypeOK'
  <2>1. locked' \in Client \cup {Nil}
    BY <1>1 DEF UpdateRead
  <2> QED
    BY <1>1, <2>1 DEF UpdateRead, TypeOK, Steps
<1>2. ASSUME NEW cutoff \in Cutoff, UpdateWrite(c, cutoff) PROVE TypeOK'
  <2>1. Put(c, cutoff)
    BY <1>2 DEF UpdateWrite
  <2>2. CASE config.cached
    BY <1>2, <2>1, <2>2, PutType DEF UpdateWrite, TypeOK, Steps
  <2>3. CASE ~config.cached
    <3>1. Return(c, FALSE)
      BY <1>2, <2>3 DEF UpdateWrite
    <3>2. acked' \subseteq written'
      BY <3>1, <2>1, ReturnType, PutType DEF TypeOK
    <3> QED
      BY <1>2, <2>1, <3>1, <3>2, ReturnType, PutType DEF UpdateWrite, TypeOK
  <2> QED
    BY <2>2, <2>3
<1>3. ASSUME UpdateRefused(c) PROVE TypeOK'
  <2>1. Return(c, TRUE) /\ acked' = acked
    BY <1>3 DEF UpdateRefused, Return
  <2> QED
    BY <1>3, <2>1, ReturnType DEF UpdateRefused, TypeOK
<1>4. ASSUME NEW cutoff \in Cutoff, UpdateUnanswered(c, cutoff) PROVE TypeOK'
  <2>1. Return(c, TRUE) /\ acked' = acked /\ Put(c, cutoff)
    BY <1>4 DEF UpdateUnanswered, Return
  <2> QED
    BY <1>4, <2>1, ReturnType, PutType DEF UpdateUnanswered, TypeOK
<1>5. ASSUME Invalidate(c) PROVE TypeOK'
  <2>1. Return(c, FALSE)
    BY <1>5 DEF Invalidate
  <2>2. acked' \subseteq written
    BY <1>5, <2>1, ReturnType DEF Invalidate, TypeOK, Taken
  <2>3. Home(c) \in Process /\ cache' \in [Process -> SeriesState \cup {Nil}]
    BY <1>5, ConfigFacts DEF Invalidate, TypeOK, Home
  <2> QED
    BY <1>5, <2>1, <2>2, <2>3, ReturnType DEF Invalidate, TypeOK
<1> QED
  BY <1>1, <1>2, <1>3, <1>4, <1>5

(* The steps of a Load keep them. *)
LEMMA LoadType ==
    ASSUME TypeOK, NEW c \in Client
    PROVE  /\ LoadHit(c) => TypeOK'
           /\ LoadMiss(c) => TypeOK'
           /\ LoadPrimary(c) => TypeOK'
           /\ LoadFill(c) => TypeOK'
           /\ LoadReturn(c) => TypeOK'
<1> USE DEF storeVars, dbVars, leaseVars, callVars
<1>1. Home(c) \in Process
  BY ConfigFacts DEF TypeOK, Home
<1>2. Begin(c) => overlap' \subseteq Process /\ calls' \in 0..MaxCalls
  BY <1>1, BoundAssumption DEF TypeOK, Begin
<1>3. Own(c) \subseteq Op
  BY DEF TypeOK, Own
<1>4. ASSUME LoadHit(c) PROVE TypeOK'
  <2>1. cache[Home(c)] \in SeriesState
    BY <1>1, <1>4 DEF LoadHit, TypeOK
  <2> QED
    BY <1>2, <1>3, <1>4, <2>1 DEF LoadHit, TypeOK, Steps
<1>5. ASSUME LoadMiss(c) PROVE TypeOK'
  BY <1>2, <1>3, <1>5 DEF LoadMiss, TypeOK, Steps
<1>6. ASSUME LoadPrimary(c) PROVE TypeOK'
  BY <1>6 DEF LoadPrimary, TypeOK, Steps
<1>7. ASSUME LoadFill(c) PROVE TypeOK'
  <2>1. cache' \in [Process -> SeriesState \cup {Nil}]
    BY <1>1, <1>7 DEF LoadFill, TypeOK
  <2> QED
    BY <1>7, <2>1 DEF LoadFill, TypeOK, Steps
<1>8. ASSUME LoadReturn(c) PROVE TypeOK'
  <2>1. Empty \in SeriesState
    BY DEF Empty, SeriesState
  <2> QED
    BY <1>8, <2>1 DEF LoadReturn, TypeOK, Steps
<1> QED
  BY <1>4, <1>5, <1>6, <1>7, <1>8

(* A release, an eviction, a restart and an expiry keep them. *)
LEMMA OtherType ==
    ASSUME TypeOK
    PROVE  /\ \A c \in Client : Release(c) => TypeOK'
           /\ \A p \in Process : Evict(p) => TypeOK'
           /\ \A p \in Process : Restart(p) => TypeOK'
           /\ Expire => TypeOK'
<1> USE DEF storeVars, dbVars, leaseVars, callVars
<1>1. ASSUME NEW c \in Client, Release(c) PROVE TypeOK'
  BY <1>1 DEF Release, Freed, TypeOK, Steps
<1>2. ASSUME NEW p \in Process, Evict(p) PROVE TypeOK'
  BY <1>2 DEF Evict, TypeOK
<1>3. ASSUME NEW p \in Process, Restart(p) PROVE TypeOK'
  <2>1. Empty \in SeriesState
    BY DEF Empty, SeriesState
  <2>2. restarts' \in 0..MaxRestarts /\ 0 \in 0..MaxClock
    BY <1>3, BoundAssumption, MaxClockAssumption DEF Restart, TypeOK
  <2>3. /\ step' \in [Client -> Steps]
        /\ op' \in [Client -> Op \cup {Nil}]
        /\ held' \in [Client -> SeriesState]
        /\ seen' \in [Client -> SUBSET Op]
    BY <1>3, <2>1 DEF Restart, TypeOK, Steps
  <2>4. /\ replica' \in [Process -> Replica] /\ retired' \subseteq Replica
        /\ clock' \in [Process -> 0..MaxClock]
        /\ cache' \in [Process -> SeriesState \cup {Nil}]
    BY <1>3, <2>2 DEF Restart, TypeOK
  <2>5. locked' \in Client \cup {Nil} /\ lapsed' \subseteq Client /\ overlap' \subseteq Process
    BY <1>3 DEF Restart, TypeOK
  <2> QED
    BY <1>3, <2>2, <2>3, <2>4, <2>5 DEF Restart, TypeOK
<1>4. ASSUME Expire PROVE TypeOK'
  <2>1. lapsed' \subseteq Client
    BY <1>4 DEF Expire, TypeOK
  <2> QED
    BY <1>4, <2>1 DEF Expire, TypeOK
<1> QED
  BY <1>1, <1>2, <1>3, <1>4

(* Every step keeps them. *)
LEMMA TypeStep == TypeOK /\ Taken /\ [Next]_vars => TypeOK'
<1> SUFFICES ASSUME TypeOK, Taken, [Next]_vars PROVE TypeOK'
  OBVIOUS
<1>1. CASE UNCHANGED vars
  BY <1>1 DEF vars, TypeOK
<1>2. ASSUME NEW c \in Client, ClientStep(c) PROVE TypeOK'
  BY <1>2, SetType, CompactType, UpdateType, LoadType, OtherType DEF ClientStep
<1>3. ASSUME NEW p \in Process, Evict(p) \/ Restart(p) PROVE TypeOK'
  BY <1>3, OtherType
<1>4. CASE Expire
  BY <1>4, OtherType
<1> QED
  BY <1>1, <1>2, <1>3, <1>4 DEF Next

-----------------------------------------------------------------------------
(* The steps that neither read nor write the store for an Update: who is   *)
(* between its read and its write stays there or ends, and the value, the  *)
(* watches and what is being acknowledged stay.                            *)
Unrelated(c) ==
    \/ \E at \in Time, value \in Value : Set(c, at, value)
    \/ Compact(c) \/ UpdateRefused(c) \/ Invalidate(c) \/ Release(c)
    \/ LoadHit(c) \/ LoadMiss(c) \/ LoadPrimary(c) \/ LoadFill(c) \/ LoadReturn(c)

(* A client's step that is not one of its Update leaves the store and the  *)
(* other clients alone.                                                    *)
LEMMA UnrelatedFacts ==
    ASSUME TypeOK, NEW c \in Client, Unrelated(c)
    PROVE  /\ UNCHANGED <<config, store, written, changed>>
           /\ step'[c] \notin {"write", "invalidate"}
           /\ \A d \in Client \ {c} :
                 step'[d] = step[d] /\ held'[d] = held[d] /\ op'[d] = op[d]
           /\ \A d \in Client \ {c} : step[d] = "write" /\ locked = d => locked' = d \/ step[c] = "write"
<1> USE DEF storeVars, dbVars, leaseVars, callVars
<1>1. CASE \E at \in Time, value \in Value : Set(c, at, value)
  BY <1>1 DEF Set, Stamp, TypeOK
<1>2. CASE Compact(c)
  BY <1>2 DEF Compact, Acquire, TypeOK
<1>3. CASE UpdateRefused(c)
  BY <1>3 DEF UpdateRefused, Return, TypeOK
<1>4. CASE Invalidate(c)
  BY <1>4 DEF Invalidate, Return, TypeOK
<1>5. CASE Release(c)
  BY <1>5 DEF Release, TypeOK
<1>6. CASE LoadHit(c)
  BY <1>6 DEF LoadHit, TypeOK
<1>7. CASE LoadMiss(c)
  BY <1>7 DEF LoadMiss, TypeOK
<1>8. CASE LoadPrimary(c)
  BY <1>8 DEF LoadPrimary, TypeOK
<1>9. CASE LoadFill(c)
  BY <1>9 DEF LoadFill, TypeOK
<1>10. CASE LoadReturn(c)
  BY <1>10 DEF LoadReturn, TypeOK
<1> QED
  BY <1>1, <1>2, <1>3, <1>4, <1>5, <1>6, <1>7, <1>8, <1>9, <1>10 DEF Unrelated

(* Every step is one of those, one of the three of an Update, or one that  *)
(* leaves the Updates of the processes that live on as they are.           *)
LEMMA Steps4 ==
    ASSUME [Next]_vars
    PROVE  \/ \E c \in Client : Unrelated(c)
           \/ \E c \in Client : UpdateRead(c)
           \/ \E c \in Client, cutoff \in Cutoff : UpdateWrite(c, cutoff)
           \/ \E c \in Client, cutoff \in Cutoff : UpdateUnanswered(c, cutoff)
           \/ \E p \in Process : Restart(p)
           \/ \E p \in Process : Evict(p)
           \/ Expire
           \/ UNCHANGED vars
  BY DEF Next, ClientStep, Unrelated

(* The write of an Update, answered or not. *)
LEMMA PutFacts ==
    ASSUME TypeOK, NEW c \in Client, NEW cutoff \in Cutoff,
           UpdateWrite(c, cutoff) \/ UpdateUnanswered(c, cutoff)
    PROVE  /\ Put(c, cutoff) /\ MayWrite(c) /\ step[c] = "write"
           /\ config' = config
           /\ step'[c] # "write"
           /\ step'[c] = "invalidate" => op'[c] = op[c]
           /\ \A d \in Client \ {c} :
                 step'[d] = step[d] /\ held'[d] = held[d] /\ op'[d] = op[d]
<1>1. CASE UpdateWrite(c, cutoff)
  <2>1. CASE config.cached
    BY <1>1, <2>1 DEF UpdateWrite, TypeOK
  <2>2. CASE ~config.cached
    BY <1>1, <2>2 DEF UpdateWrite, Return, TypeOK
  <2> QED
    BY <2>1, <2>2
<1>2. CASE UpdateUnanswered(c, cutoff)
  BY <1>2 DEF UpdateUnanswered, Return, TypeOK
<1> QED
  BY <1>1, <1>2

(* The invariant holds at the start. *)
LEMMA IInvInit == Init => IInv
  BY TypeInit DEF Init, IInv, Locks, Watches, Taken

(* Every step keeps the invariant. *)
LEMMA IInvStep == IInv /\ [Next]_vars => IInv'
<1> SUFFICES ASSUME IInv, [Next]_vars PROVE IInv'
  OBVIOUS
<1> USE DEF storeVars, dbVars, leaseVars, callVars
<1>1. TypeOK /\ Locks /\ Watches /\ Taken /\ TypeOK'
  BY TypeStep DEF IInv
<1>2. ASSUME NEW c \in Client, Unrelated(c) PROVE Locks' /\ Watches' /\ Taken'
  <2>1. Locks'
    BY <1>1, <1>2, UnrelatedFacts, NilAssumption DEF Locks
  <2>2. Watches' /\ Taken'
    BY <1>1, <1>2, UnrelatedFacts DEF Watches, Taken
  <2> QED
    BY <2>1, <2>2
<1>3. ASSUME NEW c \in Client, UpdateRead(c) PROVE Locks' /\ Watches' /\ Taken'
  <2>1. /\ UNCHANGED <<config, store, written, op>>
        /\ step'[c] = "write" /\ held'[c] = store /\ changed'[c] = FALSE
        /\ config.exclusive => locked = Nil /\ locked' = c
        /\ \A d \in Client \ {c} :
              step'[d] = step[d] /\ held'[d] = held[d] /\ changed'[d] = changed[d]
    BY <1>1, <1>3 DEF UpdateRead, TypeOK
  <2>2. Locks'
    BY <1>1, <2>1, NilAssumption DEF Locks
  <2>3. Watches' /\ Taken'
    BY <1>1, <2>1 DEF Watches, Taken
  <2> QED
    BY <2>2, <2>3
<1>4. ASSUME NEW c \in Client, NEW cutoff \in Cutoff,
             UpdateWrite(c, cutoff) \/ UpdateUnanswered(c, cutoff)
      PROVE  Locks' /\ Watches' /\ Taken'
  <2>1. /\ Put(c, cutoff) /\ step[c] = "write" /\ config' = config
        /\ step'[c] # "write"
        /\ step'[c] = "invalidate" => op'[c] = op[c]
        /\ \A d \in Client \ {c} :
              step'[d] = step[d] /\ held'[d] = held[d] /\ op'[d] = op[d]
    BY <1>1, <1>4, PutFacts
  <2>2. /\ written \subseteq written'
        /\ op[c] # Nil => op[c] \in written'
        /\ \A d \in Client \ {c} : step[d] = "write" => changed'[d]
    BY <1>1, <2>1, PutType DEF Put
  <2>3. Locks'
    BY <1>1, <2>1 DEF Locks
  <2>4. Watches' /\ Taken'
    BY <1>1, <2>1, <2>2 DEF Watches, Taken
  <2> QED
    BY <2>3, <2>4
<1>5. ASSUME NEW p \in Process, Restart(p) PROVE Locks' /\ Watches' /\ Taken'
  <2>1. /\ UNCHANGED <<config, store, written, changed>>
        /\ \A d \in Client :
              \/ step'[d] = "idle"
              \/ /\ step'[d] = step[d] /\ held'[d] = held[d] /\ op'[d] = op[d]
                 /\ locked = d => locked' = d
    BY <1>1, <1>5 DEF Restart, TypeOK
  <2> QED
    BY <1>1, <2>1 DEF Locks, Watches, Taken
<1>6. ASSUME NEW p \in Process, Evict(p) PROVE Locks' /\ Watches' /\ Taken'
  BY <1>1, <1>6 DEF Evict, Locks, Watches, Taken
<1>7. CASE Expire
  BY <1>1, <1>7 DEF Expire, IInv, Locks, Watches, Taken
<1>8. CASE UNCHANGED vars
  BY <1>1, <1>8 DEF vars, IInv, Locks, Watches, Taken
<1> QED
  BY <1>1, <1>2, <1>3, <1>4, <1>5, <1>6, <1>7, <1>8, Steps4 DEF IInv

(* The invariant holds. *)
LEMMA Invariance == Spec => []IInv
  BY IInvInit, IInvStep, PTL DEF Spec

(* Every variable keeps its type, and nothing is acknowledged that the     *)
(* store has not taken.                                                    *)
THEOREM TypeCorrect == Spec => []TypeOK
<1>1. IInv => TypeOK
  BY DEF IInv
<1> QED
  BY <1>1, Invariance, PTL

-----------------------------------------------------------------------------
(* What is written over is what was read: exclusively, or watched. *)
LEMMA Fresh ==
    ASSUME IInv, NEW c \in Client, step[c] = "write", MayWrite(c)
    PROVE  held[c] = store
<1>1. config.exclusive \in BOOLEAN
  BY ConfigFacts DEF IInv, TypeOK
<1> QED
  BY <1>1 DEF IInv, Locks, Watches, MayWrite

(* A Put is an atomic merge or an atomic compaction of the series. *)
LEMMA PutIsLogStep ==
    ASSUME IInv, NEW c \in Client, NEW cutoff \in Cutoff, Put(c, cutoff), held[c] = store,
           config' = config
    PROVE  Log!Next
<1>0. store \in SeriesState /\ config.kind \in Kinds /\ TypeOK
  BY ConfigFacts DEF IInv, TypeOK
<1>1. CASE op[c] = Nil
  <2>1. /\ store' = Compacted(store, cutoff) /\ written' = written
    BY <1>1 DEF Put, Merged
  <2>2. /\ store'.raw = {o \in store.raw : o.at >= cutoff}
        /\ store'.folded = store.folded \cup {o \in store.raw : o.at < cutoff}
    BY <2>1 DEF Compacted
  <2>3. cutoff \in Nat /\ \A o \in store.raw : o.at \in Nat
    BY <1>0, CutoffAssumption, OpFacts DEF SeriesState
  <2>4. \A o \in store.raw : o.at >= cutoff \/ o.at < cutoff
    BY <2>3
  <2>5. \A o \in store.raw : o.at < cutoff => ~(o.at >= cutoff)
    BY <2>3
  <2>6. store.raw \ store'.raw = {o \in store.raw : o.at < cutoff}
    BY <2>2, <2>4, <2>5
  <2>7. \A gone \in store.raw \ store'.raw, kept \in store'.raw : gone.at < kept.at
    BY <2>2, <2>3, <2>6
  <2> QED
    BY <2>1, <2>2, <2>6, <2>7 DEF Log!Next, Log!Fold
<1>2. CASE op[c] # Nil
  <2>1. {op[c]} \in SUBSET written' /\ written' = written \cup {op[c]}
    BY <1>2 DEF Put
  <2>2. /\ config.kind = "sample" => store' = [store EXCEPT !.raw = MergeSamples(@, {op[c]})]
        /\ config.kind = "counter" => store' = [store EXCEPT !.raw = MergeCounters(@, {op[c]})]
        /\ config.kind = "sketch" => store' = [store EXCEPT !.raw = MergeSketches(@, {op[c]})]
    BY <1>2 DEF Put, Merged
  <2>3. store'.folded = store.folded
    BY <1>0, <2>2 DEF Kinds, SeriesState
  <2>4. /\ config.kind = "sample" => store'.raw = MergeSamples(store.raw, {op[c]})
        /\ config.kind = "counter" => store'.raw = MergeCounters(store.raw, {op[c]})
        /\ config.kind = "sketch" => store'.raw = MergeSketches(store.raw, {op[c]})
    BY <1>0, <2>2 DEF SeriesState
  <2>5. store'.raw = Log!MergedRaw(config.kind, store.raw, {op[c]})
    BY <1>0, <2>4 DEF Log!MergedRaw, Kinds, Log!MergeSamples, Log!MergeCounters,
       Log!MergeSketches, MergeSamples, MergeCounters, MergeSketches, Log!Newer, Newer,
       Log!SameStamp, SameStamp
  <2> QED
    BY <2>1, <2>3, <2>5 DEF Log!Next, Log!Write
<1> QED
  BY <1>1, <1>2

(* Whatever else happens leaves the series alone. *)
LEMMA SeriesKept ==
    ASSUME IInv, [Next]_vars
    PROVE  \/ \E c \in Client, cutoff \in Cutoff :
                 Put(c, cutoff) /\ held[c] = store /\ config' = config
           \/ UNCHANGED <<config, store, written>>
<1>0. TypeOK
  BY DEF IInv
<1> USE DEF storeVars, dbVars, leaseVars, callVars
<1>1. ASSUME NEW c \in Client, NEW cutoff \in Cutoff,
             UpdateWrite(c, cutoff) \/ UpdateUnanswered(c, cutoff)
      PROVE  Put(c, cutoff) /\ held[c] = store /\ config' = config
  BY <1>0, <1>1, PutFacts, Fresh
<1>2. ASSUME NEW c \in Client, UpdateRead(c) PROVE UNCHANGED <<config, store, written>>
  BY <1>2 DEF UpdateRead
<1>3. ASSUME NEW p \in Process, Restart(p) \/ Evict(p) PROVE UNCHANGED <<config, store, written>>
  BY <1>3 DEF Restart, Evict
<1>4. Expire => UNCHANGED <<config, store, written>>
  BY DEF Expire
<1>5. (UNCHANGED vars) => UNCHANGED <<config, store, written>>
  BY DEF vars
<1> QED
  BY <1>0, <1>1, <1>2, <1>3, <1>4, <1>5, Steps4, UnrelatedFacts

(* An empty store maps to an empty log. *)
LEMMA LogInit == Init => Log!Init
<1> SUFFICES ASSUME Init PROVE Log!Init
  OBVIOUS
<1>1. config.kind \in Kinds
  BY ConfigFacts DEF Init
<1> QED
  BY <1>1 DEF Init, Log!Init, Log!Kinds, Kinds, Empty

(* Every step is a step of the log or a stutter. *)
LEMMA LogStep == IInv /\ [Next]_vars => [Log!Next]_(Log!vars)
<1> SUFFICES ASSUME IInv, [Next]_vars PROVE [Log!Next]_(Log!vars)
  OBVIOUS
<1>1. CASE \E c \in Client, cutoff \in Cutoff :
              Put(c, cutoff) /\ held[c] = store /\ config' = config
  BY <1>1, PutIsLogStep
<1>2. CASE UNCHANGED <<config, store, written>>
  BY <1>2 DEF Log!vars
<1> QED
  BY <1>1, <1>2, SeriesKept

(* However the reads and writes of Updates interleave, between goroutines  *)
(* and between processes, with refusals, lost answers and restarts, the    *)
(* stored series is the atomic log of SeriesLog: no update is lost.        *)
THEOREM ClusterImplementsLog == Spec => LogSpec
  BY LogInit, LogStep, Invariance, PTL DEF Spec, LogSpec, Log!Spec

-----------------------------------------------------------------------------
(* A compaction holds its lease until it releases it or the lease expires. *)
LEMMA LeaseStep == IInv /\ LeaseHolds /\ [Next]_vars => LeaseHolds'
<1> SUFFICES ASSUME IInv, LeaseHolds, [Next]_vars PROVE LeaseHolds'
  OBVIOUS
<1>a. config' = config
  BY SeriesKept
<1> SUFFICES ASSUME config.lease = "token", NEW d \in Client, Compacting(d)'
             PROVE  (lease = d \/ d \in lapsed)'
  BY <1>a DEF LeaseHolds
<1> USE DEF storeVars, dbVars, leaseVars, callVars
<1>0. TypeOK /\ (Compacting(d) => lease = d \/ d \in lapsed)
  BY DEF IInv, LeaseHolds
<1>1. ASSUME NEW c \in Client, NEW at \in Time, NEW value \in Value, Set(c, at, value)
      PROVE  (lease = d \/ d \in lapsed)'
  <2>1. op' = [op EXCEPT ![c] = op'[c]] /\ op'[c] \in Op
    <3>1. Home(c) \in Process
      BY <1>0, ConfigFacts DEF TypeOK, Home
    <3>2. clock[Home(c)] + 1 \in 1..MaxClock
      BY <1>0, <1>1, <3>1, MaxClockAssumption DEF TypeOK, Set
    <3> QED
      BY <1>0, <1>1, <3>1, <3>2 DEF TypeOK, Set, Stamp, Op
  <2>2. d # c
    BY <2>1, NilAssumption DEF Compacting
  <2> QED
    BY <1>0, <1>1, <2>1, <2>2 DEF Set, Compacting, TypeOK
<1>2. ASSUME NEW c \in Client, Compact(c) PROVE (lease = d \/ d \in lapsed)'
  BY <1>0, <1>2, NilAssumption DEF Compact, Acquire, Compacting, TypeOK
<1>3. ASSUME NEW c \in Client, UpdateRead(c) PROVE (lease = d \/ d \in lapsed)'
  BY <1>0, <1>3 DEF UpdateRead, Compacting, TypeOK
<1>4. ASSUME NEW c \in Client, NEW cutoff \in Cutoff,
             UpdateWrite(c, cutoff) \/ UpdateUnanswered(c, cutoff)
      PROVE  (lease = d \/ d \in lapsed)'
  <2>1. UNCHANGED <<lease, lapsed>> /\ step[c] = "write"
    BY <1>4 DEF UpdateWrite, UpdateUnanswered
  <2>2. d # c => step'[d] = step[d] /\ op'[d] = op[d]
    BY <1>0, <1>4, PutFacts
  <2>3. d = c => op[c] = Nil
    <3>1. step'[c] \in {"release", "idle", "invalidate"}
      BY <1>0, <1>4 DEF UpdateWrite, UpdateUnanswered, Return, TypeOK
    <3>2. step'[c] = "release" => op[c] = Nil
      BY <1>0, <1>4 DEF UpdateWrite, UpdateUnanswered, Return, TypeOK
    <3> QED
      BY <1>0, <1>4, <3>1, <3>2, PutFacts DEF Compacting
  <2> QED
    BY <1>0, <2>1, <2>2, <2>3 DEF Compacting
<1>5. ASSUME NEW c \in Client, UpdateRefused(c) PROVE (lease = d \/ d \in lapsed)'
  BY <1>0, <1>5 DEF UpdateRefused, Return, Compacting, TypeOK
<1>6. ASSUME NEW c \in Client, Invalidate(c) PROVE (lease = d \/ d \in lapsed)'
  BY <1>0, <1>6 DEF Invalidate, Return, Compacting, TypeOK
<1>7. ASSUME NEW c \in Client, Release(c) PROVE (lease = d \/ d \in lapsed)'
  BY <1>0, <1>7 DEF Release, Freed, Compacting, TypeOK
<1>8. ASSUME NEW c \in Client,
             LoadHit(c) \/ LoadMiss(c) \/ LoadPrimary(c) \/ LoadFill(c) \/ LoadReturn(c)
      PROVE  (lease = d \/ d \in lapsed)'
  BY <1>0, <1>8 DEF LoadHit, LoadMiss, LoadPrimary, LoadFill, LoadReturn, Compacting, TypeOK
<1>9. ASSUME NEW p \in Process, Restart(p) PROVE (lease = d \/ d \in lapsed)'
  BY <1>0, <1>9 DEF Restart, Compacting, TypeOK
<1>10. ASSUME NEW p \in Process, Evict(p) PROVE (lease = d \/ d \in lapsed)'
  BY <1>0, <1>10 DEF Evict, Compacting
<1>11. CASE Expire
  BY <1>0, <1>11 DEF Expire, Compacting
<1>12. CASE UNCHANGED vars
  BY <1>0, <1>12 DEF vars, Compacting
<1> QED
  BY <1>1, <1>2, <1>3, <1>4, <1>5, <1>6, <1>7, <1>8, <1>9, <1>10, <1>11, <1>12
     DEF Next, ClientStep

(* With the tokens of redis nobody releases the lease of another process:  *)
(* a compaction runs under its own lease unless that has expired.          *)
THEOREM LeasesHold == Spec => []LeaseHolds
<1>1. Init => LeaseHolds
  BY DEF Init, LeaseHolds, Compacting
<1> QED
  BY <1>1, Invariance, LeaseStep, PTL DEF Spec

-----------------------------------------------------------------------------
(* Newer is a strict order on stamps. *)
LEMMA NewerFacts ==
    ASSUME NEW a \in Op, NEW b \in Op, NEW c \in Op
    PROVE  /\ ~Newer(a, a)
           /\ Newer(a, b) => ~Newer(b, a) /\ ~SameStamp(a, b) /\ ~SameStamp(b, a)
           /\ SameStamp(a, b) => ~Newer(a, b) /\ ~Newer(b, a)
           /\ ~Newer(a, b) /\ ~Newer(b, a) => SameStamp(a, b)
           /\ ~Newer(a, b) /\ ~Newer(b, c) => ~Newer(a, c)
<1>1. /\ a.clock \in Nat /\ b.clock \in Nat /\ c.clock \in Nat
      /\ a.replica \in Nat /\ b.replica \in Nat /\ c.replica \in Nat
  BY OpFacts
<1> QED
  BY <1>1 DEF Newer, SameStamp

(* The raw points a merge leaves: one a second (samples), one value a      *)
(* stamp (sketches).                                                       *)
OnePoint(raw) == \A p, q \in raw : p.at = q.at => p = q
OneValue(raw) == \A p, q \in raw : (p.at = q.at /\ SameStamp(p, q)) => p.value = q.value

(* Merging a sample leaves one point a second. *)
LEMMA MergeSamplesOne ==
    ASSUME NEW r \in SUBSET Op, NEW d \in Op, OnePoint(r)
    PROVE  OnePoint(MergeSamples(r, {d}))
<1> DEFINE M == MergeSamples(r, {d})
<1> SUFFICES ASSUME NEW p \in M, NEW q \in M, p.at = q.at PROVE p = q
  BY DEF OnePoint
<1>1. p \in r \cup {d} /\ q \in r \cup {d}
  BY DEF MergeSamples
<1>2. ~Newer(p, q) /\ ~Newer(q, p)
  BY <1>1 DEF MergeSamples
<1>3. SameStamp(p, q) /\ SameStamp(q, p)
  BY <1>1, <1>2, NewerFacts
<1>4. (p \in r /\ q \in r) \/ (p \notin r /\ q \notin r)
  BY <1>1, <1>3 DEF MergeSamples
<1> QED
  BY <1>1, <1>4 DEF OnePoint

(* It keeps every point or puts one of its second in its place that is not *)
(* older.                                                                  *)
LEMMA MergeSamplesShow ==
    ASSUME NEW r \in SUBSET Op, NEW d \in Op, OnePoint(r), NEW p \in r \cup {d}
    PROVE  \E q \in MergeSamples(r, {d}) : q.at = p.at /\ ~Newer(p, q)
<1> DEFINE M == MergeSamples(r, {d})
<1>0. p \in Op
  OBVIOUS
<1>1. CASE p \in M
  BY <1>0, <1>1, NewerFacts
<1>2. CASE p \notin M
  <2>1. PICK q \in r \cup {d} : q.at = p.at /\ (Newer(q, p) \/ (q \in r /\ p \notin r /\ SameStamp(q, p)))
    BY <1>2 DEF MergeSamples
  <2>2. ~Newer(p, q) /\ p # q /\ q \in Op
    BY <1>0, <2>1, NewerFacts
  <2>3. \A x \in r \cup {d} : x.at = p.at => x = p \/ x = q
    BY <2>1, <2>2 DEF OnePoint
  <2>4. \A x \in r \cup {d} : x.at = q.at => ~(Newer(x, q) \/ (x \in r /\ q \notin r /\ SameStamp(x, q)))
    <3> SUFFICES ASSUME NEW x \in r \cup {d}, x.at = q.at
                 PROVE  ~(Newer(x, q) \/ (x \in r /\ q \notin r /\ SameStamp(x, q)))
      OBVIOUS
    <3>1. x = p \/ x = q
      BY <2>1, <2>3
    <3>2. CASE x = q
      BY <2>2, <3>2, NewerFacts
    <3>3. CASE x = p
      BY <1>0, <2>1, <2>2, <3>3, NewerFacts
    <3> QED
      BY <3>1, <3>2, <3>3
  <2>5. q \in M
    BY <2>4 DEF MergeSamples
  <2> QED
    BY <2>1, <2>2, <2>5
<1> QED
  BY <1>1, <1>2

(* Merging a sketch observation leaves one value a stamp, and drops only a *)
(* smaller one of the same stamp.                                          *)
LEMMA MergeSketchesShow ==
    ASSUME NEW r \in SUBSET Op, NEW d \in Op, OneValue(r), NEW p \in r \cup {d}
    PROVE  /\ OneValue(MergeSketches(r, {d}))
           /\ \/ p \in MergeSketches(r, {d})
              \/ \E q \in MergeSketches(r, {d}) :
                    q.at = p.at /\ SameStamp(q, p) /\ q.value > p.value
<1> DEFINE M == MergeSketches(r, {d})
<1>0. \A x \in r \cup {d} : x.value \in Nat
  BY OpFacts
<1>1. M \subseteq r \cup {d}
  BY DEF MergeSketches
<1>2. ASSUME NEW x \in M, NEW y \in M, x.at = y.at, SameStamp(x, y) PROVE x.value = y.value
  <2>1. SameStamp(y, x)
    BY <1>2 DEF SameStamp
  <2>2. ~(x.value > y.value) /\ ~(y.value > x.value)
    BY <1>1, <1>2, <2>1 DEF MergeSketches
  <2>3. x.value \in Nat /\ y.value \in Nat
    BY <1>0, <1>1
  <2> QED
    BY <2>2, <2>3
<1>3. ASSUME p \notin M PROVE \E q \in M : q.at = p.at /\ SameStamp(q, p) /\ q.value > p.value
  <2>1. PICK q \in r \cup {d} : q.at = p.at /\ SameStamp(q, p) /\ q.value > p.value
    BY <1>3 DEF MergeSketches
  <2>2. \A x \in r \cup {d} : (x.at = q.at /\ SameStamp(x, q)) => ~(x.value > q.value)
    <3> SUFFICES ASSUME NEW x \in r \cup {d}, x.at = q.at, SameStamp(x, q) PROVE ~(x.value > q.value)
      OBVIOUS
    <3>1. x.at = p.at /\ SameStamp(x, p) /\ SameStamp(p, q) /\ SameStamp(p, x) /\ SameStamp(q, x)
      BY <2>1 DEF SameStamp
    <3>2. CASE q \in r /\ x \in r
      BY <1>0, <3>2 DEF OneValue
    <3>3. CASE q \in r /\ x = d
      <4>1. p \in r => p.value = q.value
        BY <2>1, <3>1, <3>3 DEF OneValue
      <4>2. p = d
        BY <1>0, <2>1, <4>1
      <4> QED
        BY <1>0, <2>1, <3>3, <4>2
    <3>4. CASE q = d /\ x = d
      BY <1>0, <3>4
    <3>5. CASE q = d /\ x \in r
      <4>1. p = d \/ p.value = x.value
        BY <3>1, <3>5 DEF OneValue
      <4> QED
        BY <1>0, <2>1, <3>5, <4>1
    <3> QED
      BY <3>2, <3>3, <3>4, <3>5
  <2> QED
    BY <2>1, <2>2 DEF MergeSketches
<1> QED
  BY <1>2, <1>3 DEF OneValue

(* What the raw points are, by kind. *)
RawShape ==
    /\ config.kind = "sample" => OnePoint(store.raw)
    /\ config.kind = "sketch" => OneValue(store.raw)

SInv == RawShape /\ WritesShown

(* What a write puts in the store shows all that it showed, and the        *)
(* operation.                                                              *)
LEMMA PutShows ==
    ASSUME IInv, SInv, NEW c \in Client, NEW cutoff \in Cutoff, Put(c, cutoff),
           held[c] = store, config' = config
    PROVE  SInv'
<1> DEFINE k == config.kind
           all == store.raw \cup store.folded
           d == op[c]
<1> USE DEF Log!Newer, Newer, Log!SameStamp, SameStamp
<1>0. store \in SeriesState /\ k \in Kinds /\ TypeOK /\ store'.raw \subseteq Op
      /\ store'.folded \subseteq Op
  BY ConfigFacts, PutType DEF IInv, TypeOK, SeriesState
<1>1. \A o \in written : Log!Shown(k, all, o)
  BY DEF SInv, WritesShown, Log!NothingLost
<1>2. CASE d = Nil
  <2>1. store' = Compacted(store, cutoff) /\ written' = written
    BY <1>2 DEF Put, Merged
  <2>2. cutoff \in Nat /\ \A o \in store.raw : o.at \in Nat
    BY <1>0, CutoffAssumption, OpFacts DEF SeriesState
  <2>3. store'.raw \subseteq store.raw /\ store'.raw \cup store'.folded = all
    BY <2>1, <2>2 DEF Compacted
  <2>4. WritesShown'
    BY <1>1, <2>1, <2>3 DEF WritesShown, Log!NothingLost
  <2>5. RawShape'
    BY <2>3 DEF SInv, RawShape, OnePoint, OneValue
  <2> QED
    BY <2>4, <2>5 DEF SInv
<1>3. CASE d # Nil
  <2>1. d \in Op /\ written' = written \cup {d} /\ store.raw \in SUBSET Op
    BY <1>0, <1>3 DEF Put, TypeOK, SeriesState
  <2>2. store'.folded = store.folded
    BY <1>0, <1>3 DEF Put, Merged, Kinds, SeriesState
  <2>3. CASE k = "sample"
    <3>1. store'.raw = MergeSamples(store.raw, {d}) /\ OnePoint(store.raw)
      BY <1>0, <1>3, <2>3 DEF Put, Merged, SeriesState, SInv, RawShape
    <3>2. OnePoint(store'.raw)
      BY <2>1, <3>1, MergeSamplesOne
    <3>3. ASSUME NEW o \in Op, NEW p \in all \cup {d}, p.at = o.at, ~Newer(o, p)
          PROVE  \E q \in store'.raw \cup store'.folded : q.at = o.at /\ ~Newer(o, q)
      <4>1. CASE p \in store.folded
        BY <2>2, <3>3, <4>1
      <4>2. CASE p \in store.raw \cup {d}
        <5>1. PICK q \in store'.raw : q.at = p.at /\ ~Newer(p, q)
          BY <2>1, <3>1, <4>2, MergeSamplesShow
        <5>2. p \in Op /\ q \in Op
          BY <1>0, <2>1, <4>2
        <5>3. ~Newer(o, q)
          BY <3>3, <5>1, <5>2, NewerFacts
        <5> QED
          BY <3>3, <5>1, <5>3
      <4> QED
        BY <4>1, <4>2
    <3>4. ASSUME NEW o \in written' PROVE Log!Shown(k, store'.raw \cup store'.folded, o)
      <4>1. o \in Op
        BY <1>0, <2>1 DEF TypeOK
      <4>2. \E p \in all \cup {d} : p.at = o.at /\ ~Newer(o, p)
        <5>1. CASE o \in all \cup {d}
          BY <4>1, <5>1, NewerFacts
        <5>2. CASE o \notin all \cup {d}
          <6>1. Log!Shown(k, all, o)
            BY <1>1, <2>1, <5>2
          <6> QED
            BY <2>3, <5>2, <6>1 DEF Log!Shown
        <5> QED
          BY <5>1, <5>2
      <4>3. \E q \in store'.raw \cup store'.folded : q.at = o.at /\ ~Newer(o, q)
        BY <3>3, <4>1, <4>2
      <4> QED
        BY <2>3, <4>3 DEF Log!Shown
    <3> QED
      BY <2>3, <3>2, <3>4 DEF SInv, RawShape, WritesShown, Log!NothingLost
  <2>4. CASE k = "counter"
    <3>1. store'.raw = store.raw \cup {d}
      BY <1>0, <1>3, <2>4 DEF Put, Merged, MergeCounters, SeriesState
    <3>2. \A o \in written' : o \in store'.raw \cup store'.folded
      BY <1>1, <2>1, <2>2, <2>4, <3>1 DEF Log!Shown
    <3> QED
      BY <2>4, <3>2 DEF SInv, RawShape, WritesShown, Log!NothingLost, Log!Shown
  <2>5. CASE k = "sketch"
    <3>1. store'.raw = MergeSketches(store.raw, {d}) /\ OneValue(store.raw)
      BY <1>0, <1>3, <2>5 DEF Put, Merged, SeriesState, SInv, RawShape
    <3>2. OneValue(store'.raw)
      BY <2>1, <3>1, MergeSketchesShow
    <3>3. ASSUME NEW o \in Op, NEW p \in all \cup {d}, p.at = o.at, SameStamp(p, o),
                 p = o \/ p.value > o.value
          PROVE  \E q \in store'.raw \cup store'.folded :
                    q.at = o.at /\ SameStamp(q, o) /\ (q = o \/ q.value > o.value)
      <4>1. CASE p \in store.folded
        BY <2>2, <3>3, <4>1
      <4>2. CASE p \in store.raw \cup {d}
        <5>1. PICK q \in store'.raw : q = p \/ (q.at = p.at /\ SameStamp(q, p) /\ q.value > p.value)
          BY <2>1, <3>1, <4>2, MergeSketchesShow
        <5>2. p.value \in Nat /\ q.value \in Nat /\ o.value \in Nat
          BY <1>0, <2>1, <4>2, OpFacts
        <5>3. q.at = o.at /\ SameStamp(q, o) /\ (q = o \/ q.value > o.value)
          BY <3>3, <5>1, <5>2
        <5> QED
          BY <5>3
      <4> QED
        BY <4>1, <4>2
    <3>4. ASSUME NEW o \in written' PROVE Log!Shown(k, store'.raw \cup store'.folded, o)
      <4>1. o \in Op
        BY <1>0, <2>1 DEF TypeOK
      <4>2. \E p \in all \cup {d} : p.at = o.at /\ SameStamp(p, o) /\ (p = o \/ p.value > o.value)
        BY <1>1, <2>1, <2>5 DEF Log!Shown
      <4>3. \E q \in store'.raw \cup store'.folded :
                q.at = o.at /\ SameStamp(q, o) /\ (q = o \/ q.value > o.value)
        BY <3>3, <4>1, <4>2
      <4> QED
        BY <2>5, <4>3 DEF Log!Shown
    <3> QED
      BY <2>5, <3>2, <3>4 DEF SInv, RawShape, WritesShown, Log!NothingLost
  <2> QED
    BY <1>0, <2>3, <2>4, <2>5 DEF Kinds
<1> QED
  BY <1>2, <1>3

(* Nothing the store took is ever lost again, only stands behind a newer   *)
(* point of its second (or a larger one of its stamp), for every number of *)
(* processes and whatever their clocks and replica ids are.                *)
THEOREM WritesStayShown == Spec => []WritesShown
<1>1. Init => SInv
  BY DEF Init, Empty, SInv, RawShape, OnePoint, OneValue, WritesShown, Log!NothingLost
<1>2. IInv /\ SInv /\ [Next]_vars => SInv'
  <2> SUFFICES ASSUME IInv, SInv, [Next]_vars PROVE SInv'
    OBVIOUS
  <2>1. CASE UNCHANGED <<config, store, written>>
    BY <2>1 DEF SInv, RawShape, WritesShown, Log!NothingLost
  <2> QED
    BY <2>1, SeriesKept, PutShows
<1>3. SInv => WritesShown
  BY DEF SInv
<1> QED
  BY <1>1, <1>2, <1>3, Invariance, PTL DEF Spec

=============================================================================
