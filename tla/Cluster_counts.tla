---------------------------- MODULE Cluster_counts ----------------------------
(***************************************************************************)
(* More theorems about Cluster: what stamps, a process's own clock and its *)
(* cache guarantee.  Every Add counts once, the last write of a process    *)
(* wins over its earlier ones, and a process reads its own writes.         *)
(***************************************************************************)
EXTENDS Cluster_proofs, FiniteSetTheorems

-----------------------------------------------------------------------------
(* The inductive invariant of the stamps.  Processes with ids of their own *)
(* keep ids of their own,                                                  *)
Ids == DistinctIds => \A p, q \in Process : replica[p] = replica[q] => p = q

(* ids in use or in the store are not given out as new ones,               *)
Retired ==
    /\ \A p \in Process : replica[p] \in retired
    /\ \A o \in written : o.replica \in retired

(* an operation is being written by the process that stamped it,           *)
Writing ==
    \A c \in Client :
        op[c] # Nil => /\ step[c] \in {"update", "write", "invalidate"}
                       /\ op[c].replica = replica[Home(c)]

(* its stamp is no larger than the clock of its process, and no other      *)
(* operation, on its way or in the store, has it.                          *)
WrittenBelow ==
    \A p \in Process : \A o \in written : o.replica = replica[p] => o.clock <= clock[p]
PendingBelow == \A c \in Client : op[c] # Nil => op[c].clock <= clock[Home(c)]
PendingApart ==
    \A c, d \in Client : (op[c] # Nil /\ op[d] # Nil /\ SameStamp(op[c], op[d])) => c = d
PendingNew ==
    \A c \in Client :
        (op[c] # Nil /\ step[c] # "invalidate") => \A o \in written : ~SameStamp(o, op[c])
WrittenApart == \A o, p \in written : SameStamp(o, p) => o = p

Stamps ==
    FreshStamps => WrittenBelow /\ PendingBelow /\ PendingApart /\ PendingNew /\ WrittenApart

StampInv == Ids /\ Retired /\ Writing /\ Stamps

-----------------------------------------------------------------------------
(* A step that neither stamps nor stores anything. *)
Quiet ==
    /\ UNCHANGED <<config, store, exists, written, adds, clock, replica, retired, restarts, after>>
    /\ \A d \in Client :
          op'[d] # Nil => /\ op'[d] = op[d]
                          /\ step'[d] \in {"update", "write", "invalidate"}
                          /\ step[d] = "invalidate" => step'[d] = "invalidate"

(* The steps that write nothing, make no operation and hand out no stamp. *)
LEMMA QuietStep ==
    ASSUME TypeOK, Writing, NEW c \in Client,
           \/ Compact(c) \/ UpdateRead(c) \/ UpdateRefused(c) \/ Invalidate(c) \/ Release(c)
           \/ LoadHit(c) \/ LoadMiss(c) \/ LoadPrimary(c) \/ LoadFill(c) \/ LoadReturn(c)
    PROVE  Quiet
<1> USE DEF storeVars, dbVars, leaseVars, callVars, Quiet
<1>1. CASE Compact(c)
  <2>1. op[c] = Nil
    BY <1>1 DEF Compact, Begin, Writing
  <2> QED
    BY <1>1, <2>1 DEF Compact, Writing, TypeOK
<1>2. CASE UpdateRead(c)
  BY <1>2 DEF UpdateRead, Writing, TypeOK
<1>3. CASE UpdateRefused(c)
  BY <1>3 DEF UpdateRefused, Return, Writing, TypeOK
<1>4. CASE Invalidate(c)
  BY <1>4 DEF Invalidate, Return, Writing, TypeOK
<1>5. CASE Release(c)
  BY <1>5 DEF Release, Writing, TypeOK
<1>6. CASE LoadHit(c)
  BY <1>6 DEF LoadHit, Begin, Writing, TypeOK
<1>7. CASE LoadMiss(c)
  BY <1>7 DEF LoadMiss, Begin, Writing, TypeOK
<1>8. CASE LoadPrimary(c)
  BY <1>8 DEF LoadPrimary, Writing, TypeOK
<1>9. CASE LoadFill(c)
  BY <1>9 DEF LoadFill, Writing, TypeOK
<1>10. CASE LoadReturn(c)
  BY <1>10 DEF LoadReturn, Writing, TypeOK
<1> QED
  BY <1>1, <1>2, <1>3, <1>4, <1>5, <1>6, <1>7, <1>8, <1>9, <1>10

(* The steps, as far as stamps go. *)
LEMMA StampSteps ==
    ASSUME TypeOK, Writing, [Next]_vars
    PROVE  \/ \E c \in Client, at \in Time, value \in Value : Set(c, at, value)
           \/ \E c \in Client, cutoff \in Cutoff :
                 UpdateWrite(c, cutoff) \/ UpdateUnanswered(c, cutoff)
           \/ \E p \in Process : Restart(p)
           \/ Quiet
<1>1. ASSUME NEW p \in Process, Evict(p) PROVE Quiet
  BY <1>1 DEF Evict, Quiet, Writing, storeVars, dbVars, callVars
<1>2. Expire => Quiet
  BY DEF Expire, Quiet, Writing, storeVars, dbVars, callVars
<1>3. (UNCHANGED vars) => Quiet
  BY DEF vars, Quiet, Writing
<1> QED
  BY <1>1, <1>2, <1>3, QuietStep DEF Next, ClientStep

(* What Set does to the clock, and the operation it stamps. *)
LEMMA SetFacts ==
    ASSUME TypeOK, NEW c \in Client, NEW at \in Time, NEW value \in Value, Set(c, at, value)
    PROVE  /\ UNCHANGED <<config, store, exists, written, adds, acked, replica, retired, restarts>>
           /\ Home(c) \in Process
           /\ op'[c] \in Op /\ op'[c].at = at
           /\ op'[c].clock = clock[Home(c)] + 1
           /\ op'[c].replica = replica[Home(c)]
           /\ step'[c] = "update"
           /\ clock'[Home(c)] = clock[Home(c)] + 1
           /\ \A p \in Process : p # Home(c) => clock'[p] = clock[p]
           /\ \A d \in Client \ {c} : op'[d] = op[d] /\ step'[d] = step[d]
           /\ after' = after \cup {<<w, op'[c]>> : w \in {o \in acked : o.at = at}}
<1> DEFINE o == [at |-> at, clock |-> clock[Home(c)] + 1,
                 replica |-> replica[Home(c)], value |-> value]
<1>1. Home(c) \in Process
  BY ConfigFacts DEF TypeOK, Home
<1>2. clock[Home(c)] + 1 \in 1..MaxClock
  BY <1>1, MaxClockAssumption DEF TypeOK, Set
<1>3. o \in Op
  BY <1>1, <1>2 DEF TypeOK, Op
<1>4. op' = [op EXCEPT ![c] = o] /\ op'[c] = o
  BY DEF Set, Stamp, TypeOK
<1>5. clock' = [clock EXCEPT ![Home(c)] = @ + 1]
  BY DEF Set, Stamp
<1> QED
  BY <1>1, <1>3, <1>4, <1>5 DEF Set, TypeOK, storeVars

(* A process that restarts keeps its replica id or gets an unused one; its *)
(* clients have nothing on the way any more.                               *)
LEMMA RestartFacts ==
    ASSUME TypeOK, NEW p \in Process, Restart(p)
    PROVE  /\ UNCHANGED <<config, store, exists, written, adds, acked, after>>
           /\ restarts' = restarts + 1 /\ restarts' # 0
           /\ replica'[p] \in retired' /\ retired \subseteq retired'
           /\ replica'[p] \notin retired \/ replica'[p] = replica[p]
           /\ ~config.repeats => replica'[p] \notin retired
           /\ \A q \in Process : q # p => replica'[q] = replica[q] /\ clock'[q] = clock[q]
           /\ \A d \in Client : IF Home(d) = p
                                THEN step'[d] = "idle" /\ op'[d] = Nil
                                ELSE step'[d] = step[d] /\ op'[d] = op[d]
<1>1. restarts' = restarts + 1 /\ restarts' # 0
  BY BoundAssumption DEF Restart, TypeOK
<1>2. PICK r \in Replica : /\ NewReplica(p, r)
                           /\ replica' = [replica EXCEPT ![p] = r]
                           /\ retired' = retired \cup {r}
  BY DEF Restart
<1> QED
  BY <1>1, <1>2 DEF Restart, NewReplica, TypeOK, storeVars

(* What the write of an Update leaves of the stamps. *)
LEMMA WriteFacts ==
    ASSUME TypeOK, NEW c \in Client, NEW cutoff \in Cutoff,
           UpdateWrite(c, cutoff) \/ UpdateUnanswered(c, cutoff)
    PROVE  /\ Put(c, cutoff) /\ step[c] = "write"
           /\ UNCHANGED <<config, clock, replica, retired, restarts, after>>
           /\ op'[c] # Nil => step'[c] = "invalidate" /\ op'[c] = op[c]
           /\ \A d \in Client \ {c} : op'[d] = op[d] /\ step'[d] = step[d]
<1>1. UNCHANGED <<config, clock, replica, retired, restarts, after>>
  BY DEF UpdateWrite, UpdateUnanswered, dbVars, callVars
<1>2. op'[c] # Nil => step'[c] = "invalidate"
  BY DEF UpdateWrite, UpdateUnanswered, Return, TypeOK
<1> QED
  BY <1>1, <1>2, PutFacts

(* Nothing is stamped at the start. *)
LEMMA StampInit == Init => StampInv
<1> SUFFICES ASSUME Init PROVE StampInv
  OBVIOUS
<1>1. Ids
  BY DEF Init, Ids, DistinctIds
<1> QED
  BY <1>1 DEF Init, StampInv, Retired, Writing, Stamps, WrittenBelow, PendingBelow,
     PendingApart, PendingNew, WrittenApart

(* No stamp was given twice before, if none has been after a step. *)
LEMMA FreshBefore ==
    ASSUME TypeOK, [Next]_vars, FreshStamps'
    PROVE  FreshStamps
<1>1. config' = config /\ (restarts' = restarts \/ restarts' # 0)
  <2>1. \A p \in Process : Restart(p) => config' = config /\ restarts' # 0
    BY RestartFacts
  <2>2. ASSUME NEW c \in Client, ClientStep(c) PROVE config' = config /\ restarts' = restarts
    BY <2>2 DEF ClientStep, Set, Compact, UpdateRead, UpdateWrite, UpdateRefused,
       UpdateUnanswered, Invalidate, Release, LoadHit, LoadMiss, LoadPrimary, LoadFill,
       LoadReturn, dbVars
  <2> QED
    BY <2>1, <2>2 DEF Next, Evict, Expire, dbVars, vars
<1>2. 0 \in Nat /\ restarts \in Nat
  BY BoundAssumption DEF TypeOK
<1> QED
  BY <1>1, <1>2 DEF FreshStamps, DistinctIds

(* Set stamps its operation with the id and the next clock of its process. *)
LEMMA StampsSet ==
    ASSUME TypeOK, StampInv, NEW c \in Client, NEW at \in Time, NEW value \in Value,
           Set(c, at, value)
    PROVE  StampInv'
<1> DEFINE h == Home(c)
           new == op'[c]
<1>1. /\ UNCHANGED <<config, written, replica, retired, restarts>>
      /\ h \in Process /\ new \in Op /\ new.clock = clock[h] + 1 /\ new.replica = replica[h]
      /\ step'[c] = "update"
      /\ clock'[h] = clock[h] + 1 /\ \A p \in Process : p # h => clock'[p] = clock[p]
      /\ \A d \in Client \ {c} : op'[d] = op[d] /\ step'[d] = step[d]
  BY SetFacts
<1>2. Ids' /\ Retired' /\ (DistinctIds' => DistinctIds)
  BY <1>1 DEF StampInv, Ids, Retired, DistinctIds
<1>3. Writing'
  BY <1>1 DEF StampInv, Writing, Home
<1>4. ASSUME FreshStamps'
      PROVE  (WrittenBelow /\ PendingBelow /\ PendingApart /\ PendingNew /\ WrittenApart)'
  <2>1. /\ WrittenBelow /\ PendingBelow /\ PendingApart /\ PendingNew /\ WrittenApart
        /\ DistinctIds
    BY <1>1, <1>4 DEF FreshStamps, DistinctIds, StampInv, Stamps
  <2>2. /\ \A p \in Process : clock[p] \in Nat
        /\ \A o \in written : o.clock \in Nat
        /\ \A d \in Client : op[d] # Nil => op[d].clock \in Nat
        /\ \A d \in Client : Home(d) \in Process /\ Home(d)' = Home(d)
    BY <1>1, OpFacts, ConfigFacts, MaxClockAssumption DEF TypeOK, Home
  <2>3. WrittenBelow' /\ WrittenApart'
    BY <1>1, <2>1, <2>2 DEF WrittenBelow, WrittenApart
  <2>4. PendingBelow'
    BY <1>1, <2>1, <2>2 DEF PendingBelow
  <2>5. PendingNew'
    BY <1>1, <2>1, <2>2 DEF PendingNew, WrittenBelow, SameStamp
  <2>6. ASSUME NEW d \in Client \ {c}, op[d] # Nil, op[d].replica = replica[h]
        PROVE  op[d].clock # new.clock
    <3>1. Home(d) = h
      BY <1>1, <2>1, <2>2, <2>6 DEF StampInv, Writing, Ids
    <3> QED
      BY <1>1, <2>1, <2>2, <2>6, <3>1 DEF PendingBelow
  <2>7. PendingApart'
    BY <1>1, <2>1, <2>6 DEF PendingApart, SameStamp
  <2> QED
    BY <2>3, <2>4, <2>5, <2>7
<1> QED
  BY <1>2, <1>3, <1>4 DEF StampInv, Stamps

(* A write of the store stores the operation that was stamped. *)
LEMMA StampsWrite ==
    ASSUME TypeOK, StampInv, NEW c \in Client, NEW cutoff \in Cutoff,
           UpdateWrite(c, cutoff) \/ UpdateUnanswered(c, cutoff)
    PROVE  StampInv'
<1> DEFINE d == op[c]
<1>1. /\ Put(c, cutoff) /\ step[c] = "write"
      /\ UNCHANGED <<config, clock, replica, retired, restarts>>
      /\ op'[c] # Nil => step'[c] = "invalidate" /\ op'[c] = d
      /\ \A e \in Client \ {c} : op'[e] = op[e] /\ step'[e] = step[e]
  BY WriteFacts
<1>2. \A o \in written' : o \in written \/ (d # Nil /\ o = d)
  BY <1>1 DEF Put
<1>3. d # Nil => d.replica = replica[Home(c)] /\ Home(c) \in Process
  BY ConfigFacts DEF StampInv, Writing, TypeOK, Home
<1>4. Ids' /\ Retired'
  BY <1>1, <1>2, <1>3 DEF StampInv, Ids, Retired, DistinctIds
<1>5. Writing'
  BY <1>1 DEF StampInv, Writing, Home
<1>6. ASSUME FreshStamps'
      PROVE  (WrittenBelow /\ PendingBelow /\ PendingApart /\ PendingNew /\ WrittenApart)'
  <2>1. /\ WrittenBelow /\ PendingBelow /\ PendingApart /\ PendingNew /\ WrittenApart
        /\ DistinctIds
    BY <1>1, <1>6 DEF FreshStamps, DistinctIds, StampInv, Stamps
  <2>2. WrittenBelow'
    BY <1>1, <1>2, <1>3, <2>1 DEF WrittenBelow, PendingBelow, StampInv, Ids
  <2>3. PendingBelow' /\ PendingApart'
    BY <1>1, <2>1 DEF PendingBelow, PendingApart, Home
  <2>4. PendingNew'
    BY <1>1, <1>2, <2>1 DEF PendingNew, PendingApart
  <2>5. WrittenApart'
    BY <1>1, <1>2, <2>1 DEF WrittenApart, PendingNew, SameStamp
  <2> QED
    BY <2>2, <2>3, <2>4, <2>5
<1> QED
  BY <1>4, <1>5, <1>6 DEF StampInv, Stamps

(* A restart takes an id of its own, or one given again when clocks have   *)
(* moved on.                                                               *)
LEMMA StampsRestart ==
    ASSUME TypeOK, StampInv, NEW p \in Process, Restart(p)
    PROVE  StampInv'
<1>1. /\ UNCHANGED <<config, written>>
      /\ restarts' # 0
      /\ replica'[p] \in retired' /\ retired \subseteq retired'
      /\ replica'[p] \notin retired \/ replica'[p] = replica[p]
      /\ ~config.repeats => replica'[p] \notin retired
      /\ \A q \in Process : q # p => replica'[q] = replica[q] /\ clock'[q] = clock[q]
      /\ \A d \in Client : IF Home(d) = p THEN step'[d] = "idle" /\ op'[d] = Nil
                           ELSE step'[d] = step[d] /\ op'[d] = op[d]
  BY RestartFacts
<1>2. Ids' /\ Retired'
  BY <1>1 DEF StampInv, Ids, Retired, DistinctIds
<1>3. \A d \in Client : Home(d) \in Process /\ Home(d)' = Home(d)
  BY <1>1, ConfigFacts DEF TypeOK, Home
<1>4. Writing'
  BY <1>1, <1>3 DEF StampInv, Writing
<1>5. ASSUME FreshStamps'
      PROVE  (WrittenBelow /\ PendingBelow /\ PendingApart /\ PendingNew /\ WrittenApart)'
  <2>1. ~config.repeats
    BY <1>1, <1>5 DEF FreshStamps
  <2>2. WrittenBelow /\ PendingBelow /\ PendingApart /\ PendingNew /\ WrittenApart
    BY <1>1, <1>5, <2>1 DEF FreshStamps, DistinctIds, StampInv, Stamps
  <2>3. WrittenBelow'
    BY <1>1, <2>1, <2>2 DEF WrittenBelow, StampInv, Retired
  <2>4. PendingBelow'
    BY <1>1, <1>3, <2>2 DEF PendingBelow
  <2>5. PendingApart' /\ PendingNew' /\ WrittenApart'
    BY <1>1, <2>2 DEF PendingApart, PendingNew, WrittenApart
  <2> QED
    BY <2>3, <2>4, <2>5
<1> QED
  BY <1>2, <1>4, <1>5 DEF StampInv, Stamps

(* The other steps leave the stamps alone. *)
LEMMA StampsQuiet ==
    ASSUME StampInv, Quiet
    PROVE  StampInv'
<1>1. Ids' /\ Retired' /\ Writing'
  BY DEF Quiet, StampInv, Ids, Retired, Writing, DistinctIds, Home
<1>2. Stamps'
  BY DEF Quiet, StampInv, Stamps, FreshStamps, DistinctIds, WrittenBelow, PendingBelow,
     PendingApart, PendingNew, WrittenApart, Home
<1> QED
  BY <1>1, <1>2 DEF StampInv

(* The stamps stay apart through every step. *)
LEMMA StampStep == IInv /\ StampInv /\ [Next]_vars => StampInv'
<1> SUFFICES ASSUME IInv, StampInv, [Next]_vars PROVE StampInv'
  OBVIOUS
<1>1. TypeOK /\ Writing
  BY DEF IInv, StampInv
<1> QED
  BY <1>1, StampSteps, StampsSet, StampsWrite, StampsRestart, StampsQuiet

(* Operations on their way and written never share a stamp. *)
LEMMA StampsHold == Spec => []StampInv
  BY StampInit, StampStep, Invariance, PTL DEF Spec

-----------------------------------------------------------------------------
(* The inductive invariant of the count: as many operations as writes, and *)
(* the series holds each of them (but the samples it has replaced) once.   *)
Counted ==
    FreshStamps =>
        /\ IsFiniteSet(written) /\ Cardinality(written) = adds
        /\ store.raw \cup store.folded \subseteq written
        /\ config.kind # "sample" =>
              /\ store.raw \cup store.folded = written
              /\ store.raw \cap store.folded = {}

(* The merge of one operation with a stamp of its own leaves out only      *)
(* samples.                                                                *)
LEMMA MergeAdds ==
    ASSUME TypeOK, NEW c \in Client, NEW cutoff \in Cutoff, op[c] # Nil, held[c] = store,
           \A o, p \in store.raw \cup {op[c]} : SameStamp(o, p) => o = p
    PROVE  /\ Merged(c, cutoff).folded = store.folded
           /\ Merged(c, cutoff).raw \subseteq store.raw \cup {op[c]}
           /\ config.kind = "sample" => Merged(c, cutoff).raw = MergeSamples(store.raw, {op[c]})
           /\ config.kind # "sample" => Merged(c, cutoff).raw = store.raw \cup {op[c]}
<1> DEFINE r == store.raw
           d == op[c]
<1>1. config.kind \in Kinds /\ store \in SeriesState
  BY ConfigFacts DEF TypeOK
<1>2. Merged(c, cutoff) = [store EXCEPT !.raw =
                              CASE config.kind = "sample"  -> MergeSamples(@, {d})
                                [] config.kind = "counter" -> MergeCounters(@, {d})
                                [] config.kind = "sketch"  -> MergeSketches(@, {d})]
  BY DEF Merged
<1>3. /\ Merged(c, cutoff).folded = store.folded
      /\ config.kind = "sample" => Merged(c, cutoff).raw = MergeSamples(r, {d})
      /\ config.kind = "counter" => Merged(c, cutoff).raw = MergeCounters(r, {d})
      /\ config.kind = "sketch" => Merged(c, cutoff).raw = MergeSketches(r, {d})
  BY <1>1, <1>2 DEF SeriesState
<1>4. MergeSamples(r, {d}) \subseteq r \cup {d} /\ MergeCounters(r, {d}) = r \cup {d}
  BY DEF MergeSamples, MergeCounters
<1>5. MergeSketches(r, {d}) = r \cup {d}
  <2>1. \A o \in r \cup {d} : o \in Op
    BY <1>1 DEF TypeOK, SeriesState
  <2>2. \A o \in r \cup {d} : ~(o.value > o.value)
    BY <2>1, OpFacts
  <2> QED
    BY <2>2 DEF MergeSketches
<1> QED
  BY <1>1, <1>3, <1>4, <1>5 DEF Kinds

(* Every step keeps the count of what is written and what the series holds. *)
LEMMA CountedStep == IInv /\ StampInv /\ Counted /\ [Next]_vars => Counted'
<1> SUFFICES ASSUME IInv, StampInv, Counted, [Next]_vars, FreshStamps'
             PROVE  /\ IsFiniteSet(written') /\ Cardinality(written') = adds'
                    /\ store'.raw \cup store'.folded \subseteq written'
                    /\ config'.kind # "sample" =>
                          /\ store'.raw \cup store'.folded = written'
                          /\ store'.raw \cap store'.folded = {}
  BY DEF Counted
<1>0. TypeOK /\ Writing /\ FreshStamps /\ WrittenApart /\ PendingNew
  BY FreshBefore DEF IInv, StampInv, Stamps
<1>1. /\ IsFiniteSet(written) /\ Cardinality(written) = adds
      /\ store.raw \cup store.folded \subseteq written
      /\ config.kind # "sample" =>
            /\ store.raw \cup store.folded = written
            /\ store.raw \cap store.folded = {}
  BY <1>0 DEF Counted
<1>2. ASSUME NEW c \in Client, NEW cutoff \in Cutoff,
             UpdateWrite(c, cutoff) \/ UpdateUnanswered(c, cutoff)
      PROVE  /\ IsFiniteSet(written') /\ Cardinality(written') = adds'
             /\ store'.raw \cup store'.folded \subseteq written'
             /\ config'.kind # "sample" =>
                   /\ store'.raw \cup store'.folded = written'
                   /\ store'.raw \cap store'.folded = {}
  <2> DEFINE d == op[c]
  <2>1. Put(c, cutoff) /\ step[c] = "write" /\ MayWrite(c) /\ config' = config
    BY <1>0, <1>2, PutFacts
  <2>2. held[c] = store /\ store' = Merged(c, cutoff)
    BY <2>1, Fresh DEF Put
  <2>3. CASE d = Nil
    <3>1. written' = written /\ adds' = adds /\ store' = Compacted(store, cutoff)
      BY <2>1, <2>2, <2>3 DEF Put, Merged
    <3>2. cutoff \in Nat /\ \A o \in store.raw : o.at \in Nat
      BY <1>0, CutoffAssumption, OpFacts DEF TypeOK, SeriesState
    <3>3. /\ store'.raw \cup store'.folded = store.raw \cup store.folded
          /\ store.raw \cap store.folded = {} => store'.raw \cap store'.folded = {}
      BY <3>1, <3>2 DEF Compacted
    <3> QED
      BY <1>1, <2>1, <3>1, <3>3
  <2>4. CASE d # Nil
    <3>1. written' = written \cup {d} /\ adds' = adds + 1
      BY <2>1, <2>4 DEF Put
    <3>2. \A o \in written : ~SameStamp(o, d)
      BY <1>0, <2>1, <2>4 DEF PendingNew
    <3>3. d \notin written /\ \A o, p \in written \cup {d} : SameStamp(o, p) => o = p
      BY <1>0, <3>2 DEF WrittenApart, SameStamp
    <3>4. IsFiniteSet(written') /\ Cardinality(written') = adds'
      BY <1>1, <3>1, <3>3, FS_AddElement
    <3>5. /\ store'.folded = store.folded
          /\ store'.raw \subseteq store.raw \cup {d}
          /\ config.kind # "sample" => store'.raw = store.raw \cup {d}
      BY <1>0, <1>1, <2>2, <2>4, <3>3, MergeAdds
    <3> QED
      BY <1>1, <2>1, <3>1, <3>3, <3>4, <3>5
  <2> QED
    BY <2>3, <2>4
<1>3. ASSUME NEW c \in Client, NEW at \in Time, NEW value \in Value, Set(c, at, value)
      PROVE  UNCHANGED <<config, store, written, adds>>
  BY <1>0, <1>3, SetFacts
<1>4. ASSUME NEW p \in Process, Restart(p)
      PROVE  UNCHANGED <<config, store, written, adds>>
  BY <1>0, <1>4, RestartFacts
<1>5. CASE UNCHANGED <<config, store, written, adds>>
  BY <1>1, <1>5
<1> QED
  BY <1>0, <1>2, <1>3, <1>4, <1>5, StampSteps DEF Quiet

(* The written operations are as many as the writes, and are what the      *)
(* series holds.                                                           *)
LEMMA CountHolds == Spec => []Counted
<1>1. Init => Counted
  <2>1. IsFiniteSet({}) /\ Cardinality({}) = 0
    BY FS_EmptySet
  <2> QED
    BY <2>1 DEF Init, Empty, Counted
<1> QED
  BY <1>1, CountedStep, StampsHold, Invariance, PTL DEF Spec

(* Every Add the store took is in the series exactly once, and the series  *)
(* has nothing else, whatever was refused, unanswered, compacted or        *)
(* restarted, for any number of processes with replica ids of their own.   *)
THEOREM AddsCountOnce == Spec => []AddsCounted
<1>1. Counted => AddsCounted
  BY DEF Counted, AddsCounted
<1> QED
  BY <1>1, CountHolds, PTL

-----------------------------------------------------------------------------
(* The inductive invariant of last-write-wins: of two writes of one run of *)
(* a process to one second, the later has the higher clock, and once it is *)
(* in the store the earlier is not shown any more.                         *)
Ordered ==
    \A pair \in after :
        /\ pair[1].at = pair[2].at
        /\ pair[1] \in written
        /\ (pair[1].replica = pair[2].replica /\ FreshStamps) =>
              /\ pair[1].clock < pair[2].clock
              /\ config.kind = "sample" /\ pair[2] \in written => pair[1] \notin store.raw

(* A new operation comes after those acknowledged to its process, with a   *)
(* higher clock.                                                           *)
LEMMA OrderedSet ==
    ASSUME IInv, StampInv, Ordered, NEW c \in Client, NEW at \in Time, NEW value \in Value,
           Set(c, at, value)
    PROVE  Ordered'
<1> DEFINE new == op'[c]
           h == Home(c)
<1>1. /\ UNCHANGED <<config, store, written, restarts>>
      /\ h \in Process /\ new \in Op /\ new.at = at
      /\ new.clock = clock[h] + 1 /\ new.replica = replica[h]
      /\ after' = after \cup {<<w, new>> : w \in {o \in acked : o.at = at}}
  BY SetFacts DEF IInv
<1>2. FreshStamps' => FreshStamps /\ WrittenBelow
  BY <1>1 DEF FreshStamps, DistinctIds, StampInv, Stamps
<1>3. ASSUME NEW w \in acked, w.at = at
      PROVE  /\ w.at = new.at /\ w \in written'
             /\ (w.replica = new.replica /\ FreshStamps') => w.clock < new.clock /\ new \notin written'
  <2>1. w \in written /\ w \in Op
    BY <1>3 DEF IInv, TypeOK
  <2>2. clock[h] \in Nat /\ \A o \in written : o.clock \in Nat
    BY <1>1, OpFacts, MaxClockAssumption DEF IInv, TypeOK
  <2>3. FreshStamps' => \A o \in written : o.replica = replica[h] => o.clock < new.clock
    BY <1>1, <1>2, <2>2 DEF WrittenBelow
  <2>4. ~(new.clock < new.clock)
    BY <1>1, <2>2
  <2> QED
    BY <1>1, <1>3, <2>1, <2>3, <2>4
<1>4. ASSUME NEW pair \in after
      PROVE  /\ pair[1].at = pair[2].at /\ pair[1] \in written'
             /\ (pair[1].replica = pair[2].replica /\ FreshStamps') =>
                   /\ pair[1].clock < pair[2].clock
                   /\ config'.kind = "sample" /\ pair[2] \in written' => pair[1] \notin store'.raw
  BY <1>1, <1>2 DEF Ordered
<1>5. \A pair \in after' : pair \in after \/ \E w \in acked : w.at = at /\ pair = <<w, new>>
  BY <1>1
<1> QED
  BY <1>3, <1>4, <1>5 DEF Ordered

(* A write of the store puts the later of a pair in the place of the       *)
(* earlier.                                                                *)
LEMMA OrderedWrite ==
    ASSUME IInv, StampInv, Counted, Ordered, NEW c \in Client, NEW cutoff \in Cutoff,
           UpdateWrite(c, cutoff) \/ UpdateUnanswered(c, cutoff)
    PROVE  Ordered'
<1> DEFINE d == op[c]
<1>1. /\ Put(c, cutoff) /\ step[c] = "write" /\ MayWrite(c)
      /\ UNCHANGED <<config, restarts, after>>
  BY PutFacts, WriteFacts DEF IInv
<1>2. held[c] = store /\ store' = Merged(c, cutoff) /\ written \subseteq written'
  BY <1>1, Fresh DEF Put
<1> SUFFICES ASSUME NEW pair \in after, pair[1].replica = pair[2].replica, FreshStamps,
                    pair[1].at = pair[2].at, pair[1].clock < pair[2].clock,
                    pair[1] \in written, config.kind = "sample", pair[2] \in written'
             PROVE  pair[1] \notin store'.raw
  BY <1>1, <1>2 DEF Ordered, FreshStamps, DistinctIds
<1>3. /\ pair[2] \in written => pair[1] \notin store.raw
      /\ WrittenApart /\ PendingNew /\ store.raw \subseteq written
      /\ pair[1] \in Op /\ pair[2] \in Op
  BY DEF Ordered, StampInv, Stamps, Counted, IInv, TypeOK, Pairs
<1>4. CASE d = Nil
  <2>1. written' = written /\ store'.raw \subseteq store.raw
    BY <1>1, <1>2, <1>4 DEF Put, Merged, Compacted
  <2> QED
    BY <1>3, <2>1
<1>5. CASE d # Nil
  <2>1. written' = written \cup {d} /\ \A o \in written : ~SameStamp(o, d)
    BY <1>1, <1>3, <1>5 DEF Put, PendingNew
  <2>2. d \notin written /\ \A o, p \in store.raw \cup {d} : SameStamp(o, p) => o = p
    BY <1>3, <2>1 DEF WrittenApart, SameStamp
  <2>3. store'.raw = MergeSamples(store.raw, {d})
    BY <1>2, <1>5, <2>2, MergeAdds DEF IInv
  <2>4. CASE pair[2] \in written
    BY <1>3, <2>2, <2>3, <2>4 DEF MergeSamples
  <2>5. CASE pair[2] = d
    <3>1. d.clock > pair[1].clock
      BY <1>3, <2>5, OpFacts
    <3> QED
      BY <2>3, <2>5, <3>1 DEF MergeSamples, Newer
  <2> QED
    BY <2>1, <2>4, <2>5
<1> QED
  BY <1>4, <1>5

(* Every step keeps the pairs in the order of their clocks. *)
LEMMA OrderedStep == IInv /\ StampInv /\ Counted /\ Ordered /\ [Next]_vars => Ordered'
<1> SUFFICES ASSUME IInv, StampInv, Counted, Ordered, [Next]_vars PROVE Ordered'
  OBVIOUS
<1>1. TypeOK /\ Writing /\ (FreshStamps' => FreshStamps)
  BY FreshBefore DEF IInv, StampInv
<1>2. ASSUME UNCHANGED <<config, store, written, after>> PROVE Ordered'
  BY <1>1, <1>2 DEF Ordered
<1>3. ASSUME NEW p \in Process, Restart(p) PROVE Ordered'
  BY <1>1, <1>2, <1>3, RestartFacts
<1> QED
  BY <1>1, <1>2, <1>3, StampSteps, OrderedSet, OrderedWrite DEF Quiet

(* Of two writes of one run of a process to one second, the later one is   *)
(* shown once it was acknowledged, whatever other processes write between  *)
(* and however their updates are refused and retried.                      *)
THEOREM LastWriteOfAProcessWins == Spec => []LastWriteWinsLocally
<1>1. Init => Ordered
  BY DEF Init, Ordered
<1>2. Ordered /\ IInv => LastWriteWinsLocally
  BY DEF Ordered, IInv, TypeOK, LastWriteWinsLocally, Overruled
<1> QED
  BY <1>1, <1>2, OrderedStep, CountHolds, StampsHold, Invariance, PTL DEF Spec

-----------------------------------------------------------------------------
(* The inductive invariant of a process that reads its own writes.  While  *)
(* no two calls of a process have overlapped there is one at a time,       *)
OneCall ==
    \A c, d \in Client :
        (Home(c) = Home(d) /\ Home(c) \notin overlap /\ step[c] # "idle" /\ step[d] # "idle") => c = d

(* so that its cache, and what is about to fill it, shows what it has had  *)
(* acknowledged,                                                           *)
ShowsOwn(p, s) ==
    \A o \in acked : o.replica = replica[p] => Log!Shown(config.kind, s.raw \cup s.folded, o)

CacheShows ==
    (config.cached /\ DistinctIds) =>
        \A p \in Process \ overlap :
            /\ cache[p] # Nil => ShowsOwn(p, cache[p])
            /\ \A c \in Client : (Home(c) = p /\ step[c] = "fill") => ShowsOwn(p, held[c])

(* and so does what a read of it has loaded.                               *)
Answers(c) == config.cached => DistinctIds /\ Home(c) \notin overlap

Loading ==
    \A c \in Client :
        /\ step[c] \in {"load", "fill", "loaded"} => seen[c] \subseteq written
        /\ (step[c] \in {"fill", "loaded"} /\ Answers(c)) =>
              \A o \in seen[c] : Log!Shown(config.kind, held[c].raw \cup held[c].folded, o)

OwnInv == OneCall /\ CacheShows /\ Loading

(* A step of one client: the other clients and the other processes keep    *)
(* what they hold, and only an answer acknowledges anything.               *)
LEMMA OthersStay ==
    ASSUME TypeOK, NEW c \in Client, ClientStep(c)
    PROVE  /\ config' = config /\ replica' = replica
           /\ written \subseteq written'
           /\ overlap \subseteq overlap'
           /\ \A d \in Client \ {c} : step'[d] = step[d] /\ held'[d] = held[d] /\ seen'[d] = seen[d]
           /\ \A p \in Process : p # Home(c) => cache'[p] = cache[p]
           /\ acked' \subseteq acked \cup {o \in {op[c]} : o # Nil}
           /\ (config.cached /\ step[c] # "invalidate") => acked' = acked
<1> USE DEF storeVars, dbVars, leaseVars, callVars
<1>1. ASSUME NEW at \in Time, NEW value \in Value, Set(c, at, value)
      PROVE  /\ UNCHANGED <<config, replica, written, acked, held, seen, cache>>
             /\ overlap \subseteq overlap'
             /\ \A d \in Client \ {c} : step'[d] = step[d]
  BY <1>1 DEF Set, Begin, TypeOK
<1>2. Compact(c) => /\ UNCHANGED <<config, replica, written, acked, held, seen, cache>>
                    /\ overlap \subseteq overlap'
                    /\ \A d \in Client \ {c} : step'[d] = step[d]
  BY DEF Compact, Begin, TypeOK
<1>3. (UpdateRead(c) \/ Release(c)) =>
          /\ UNCHANGED <<config, replica, written, acked, seen, cache, overlap>>
          /\ \A d \in Client \ {c} : step'[d] = step[d] /\ held'[d] = held[d]
  BY DEF UpdateRead, Release, TypeOK
<1>4. ASSUME NEW cutoff \in Cutoff, UpdateWrite(c, cutoff) \/ UpdateUnanswered(c, cutoff)
      PROVE  /\ UNCHANGED <<config, replica, seen, cache, overlap>>
             /\ written \subseteq written'
             /\ acked' \subseteq acked \cup {o \in {op[c]} : o # Nil}
             /\ config.cached => acked' = acked
             /\ \A d \in Client \ {c} : step'[d] = step[d] /\ held'[d] = held[d]
  <2>1. Put(c, cutoff) /\ \A d \in Client \ {c} : step'[d] = step[d] /\ held'[d] = held[d]
    BY <1>4, PutFacts
  <2>2. /\ UNCHANGED <<config, replica, seen, cache, overlap>>
        /\ acked' \subseteq acked \cup {o \in {op[c]} : o # Nil}
        /\ config.cached => acked' = acked
    BY <1>4 DEF UpdateWrite, UpdateUnanswered, Return
  <2> QED
    BY <2>1, <2>2 DEF Put
<1>5. UpdateRefused(c) =>
          /\ UNCHANGED <<config, replica, written, acked, seen, cache, overlap>>
          /\ \A d \in Client \ {c} : step'[d] = step[d] /\ held'[d] = held[d]
  BY DEF UpdateRefused, Return, TypeOK
<1>6. Invalidate(c) =>
          /\ UNCHANGED <<config, replica, written, seen, overlap>>
          /\ acked' \subseteq acked \cup {o \in {op[c]} : o # Nil}
          /\ step[c] = "invalidate"
          /\ \A d \in Client \ {c} : step'[d] = step[d] /\ held'[d] = held[d]
          /\ \A p \in Process : p # Home(c) => cache'[p] = cache[p]
  BY DEF Invalidate, Return, TypeOK
<1>7. (LoadHit(c) \/ LoadMiss(c)) =>
          /\ UNCHANGED <<config, replica, written, acked, cache>>
          /\ overlap \subseteq overlap'
          /\ \A d \in Client \ {c} : step'[d] = step[d] /\ held'[d] = held[d] /\ seen'[d] = seen[d]
  BY DEF LoadHit, LoadMiss, Begin, TypeOK
<1>8. (LoadPrimary(c) \/ LoadFill(c) \/ LoadReturn(c)) =>
          /\ UNCHANGED <<config, replica, written, acked, overlap>>
          /\ \A d \in Client \ {c} : step'[d] = step[d] /\ held'[d] = held[d] /\ seen'[d] = seen[d]
          /\ \A p \in Process : p # Home(c) => cache'[p] = cache[p]
  BY DEF LoadPrimary, LoadFill, LoadReturn, TypeOK
<1> QED
  BY <1>1, <1>2, <1>3, <1>4, <1>5, <1>6, <1>7, <1>8 DEF ClientStep

(* The calls that begin, and those that were under way. *)
LEMMA BeginFacts ==
    ASSUME TypeOK, NEW c \in Client, ClientStep(c)
    PROVE  \/ step[c] = "idle" /\ \A d \in Client :
                 (Home(d) = Home(c) /\ step[d] # "idle") => Home(c) \in overlap'
           \/ step[c] # "idle"
  BY DEF ClientStep, Set, Compact, UpdateRead, UpdateWrite, UpdateRefused, UpdateUnanswered,
     Invalidate, Release, LoadHit, LoadMiss, LoadPrimary, LoadFill, LoadReturn, Begin, Peers

(* Without overlap, a process never has two calls under way. *)
LEMMA OneCallStep == TypeOK /\ OneCall /\ [Next]_vars => OneCall'
<1> SUFFICES ASSUME TypeOK, OneCall, [Next]_vars PROVE OneCall'
  OBVIOUS
<1>1. ASSUME NEW c \in Client, ClientStep(c) PROVE OneCall'
  <2>1. /\ config' = config /\ overlap \subseteq overlap'
        /\ \A d \in Client \ {c} : step'[d] = step[d]
    BY <1>1, OthersStay
  <2> QED
    BY <1>1, <2>1, BeginFacts DEF OneCall, Home
<1>2. ASSUME NEW p \in Process, Restart(p) PROVE OneCall'
  <2>1. /\ config' = config /\ overlap' = overlap \ {p}
        /\ \A d \in Client : IF Home(d) = p THEN step'[d] = "idle" ELSE step'[d] = step[d]
    BY <1>2, RestartFacts DEF Restart
  <2> QED
    BY <2>1 DEF OneCall, Home
<1>3. ASSUME UNCHANGED <<config, overlap, step>> PROVE OneCall'
  BY <1>3 DEF OneCall, Home
<1>4. (\E p \in Process : Evict(p)) \/ Expire \/ UNCHANGED vars => UNCHANGED <<config, overlap, step>>
  BY DEF Evict, Expire, vars, callVars
<1> QED
  BY <1>1, <1>2, <1>3, <1>4 DEF Next

(* The client's own part: the steps of a Load, or none of them. *)
LEMMA OwnStep ==
    ASSUME TypeOK, NEW c \in Client, ClientStep(c)
    PROVE  \/ LoadHit(c) \/ LoadMiss(c) \/ LoadPrimary(c) \/ LoadFill(c)
           \/ /\ step'[c] \notin {"load", "fill", "loaded"}
              /\ cache' = cache \/ cache' = [cache EXCEPT ![Home(c)] = Nil]
              /\ step[c] = "invalidate" => cache' = [cache EXCEPT ![Home(c)] = Nil]
<1>1. (\E at \in Time, value \in Value : Set(c, at, value)) =>
         step'[c] = "update" /\ cache' = cache /\ step[c] = "idle"
  BY DEF Set, Begin, TypeOK
<1>2. Compact(c) => step'[c] = "update" /\ cache' = cache /\ step[c] = "idle"
  BY DEF Compact, Begin, TypeOK
<1>3. (UpdateRead(c) \/ Release(c)) =>
         step'[c] \in {"write", "idle"} /\ cache' = cache /\ step[c] # "invalidate"
  BY DEF UpdateRead, Release, TypeOK
<1>4. (UpdateRefused(c) \/ \E cutoff \in Cutoff : UpdateWrite(c, cutoff) \/ UpdateUnanswered(c, cutoff)) =>
         /\ step'[c] \in {"invalidate", "release", "idle"} /\ cache' = cache
         /\ step[c] # "invalidate"
  BY DEF UpdateRefused, UpdateWrite, UpdateUnanswered, Return, TypeOK
<1>5. Invalidate(c) =>
         step'[c] \in {"release", "idle"} /\ cache' = [cache EXCEPT ![Home(c)] = Nil]
  BY DEF Invalidate, Return, TypeOK
<1>6. LoadReturn(c) => step'[c] = "idle" /\ cache' = cache /\ step[c] # "invalidate"
  BY DEF LoadReturn, TypeOK
<1> QED
  BY <1>1, <1>2, <1>3, <1>4, <1>5, <1>6 DEF ClientStep

(* What a client does to the cache of its process leaves it showing all    *)
(* that was acknowledged.                                                  *)
LEMMA CacheClient ==
    ASSUME IInv, StampInv, OwnInv, WritesShown, NEW c \in Client, ClientStep(c)
    PROVE  CacheShows'
<1> DEFINE h == Home(c)
<1>0. /\ TypeOK /\ acked \subseteq written
      /\ h \in Process
      /\ \A d \in Client : Home(d)' = Home(d)
  BY OthersStay, ConfigFacts DEF IInv, TypeOK, Home
<1>1. /\ config' = config /\ replica' = replica /\ overlap \subseteq overlap'
      /\ \A d \in Client \ {c} : step'[d] = step[d] /\ held'[d] = held[d]
      /\ \A p \in Process : p # h => cache'[p] = cache[p]
      /\ acked' \subseteq acked \cup {o \in {op[c]} : o # Nil}
      /\ (config.cached /\ step[c] # "invalidate") => acked' = acked
  BY <1>0, OthersStay
<1> SUFFICES ASSUME config.cached, DistinctIds, NEW p \in Process \ overlap'
             PROVE  /\ cache'[p] # Nil => ShowsOwn(p, cache[p])'
                    /\ \A d \in Client : (Home(d) = p /\ step'[d] = "fill") => ShowsOwn(p, held[d])'
  BY <1>0, <1>1 DEF CacheShows, DistinctIds
<1>2. /\ cache[p] # Nil => ShowsOwn(p, cache[p])
      /\ \A d \in Client : (Home(d) = p /\ step[d] = "fill") => ShowsOwn(p, held[d])
  BY <1>1 DEF OwnInv, CacheShows
<1>3. CASE p # h
  <2>1. op[c] # Nil => op[c].replica # replica[p]
    BY <1>0, <1>3 DEF StampInv, Ids, Writing
  <2>2. \A o \in acked' : o.replica = replica[p] => o \in acked
    BY <1>1, <2>1
  <2> QED
    BY <1>1, <1>2, <1>3, <2>2 DEF ShowsOwn
<1>4. CASE p = h /\ step[c] = "invalidate"
  <2>1. cache' = [cache EXCEPT ![h] = Nil] /\ step'[c] # "fill"
    BY <1>0, <1>4, OwnStep DEF LoadHit, LoadMiss, LoadPrimary, LoadFill, Begin
  <2>2. cache'[p] = Nil
    BY <1>0, <1>4, <2>1 DEF TypeOK
  <2>3. \A d \in Client : Home(d) = p /\ step[d] = "fill" => FALSE
    BY <1>1, <1>4 DEF OwnInv, OneCall
  <2> QED
    BY <1>1, <2>1, <2>2, <2>3
<1>5. CASE p = h /\ step[c] # "invalidate"
  <2>1. acked' = acked
    BY <1>1, <1>5
  <2>2. ASSUME NEW d \in Client, d # c, Home(d) = p, step'[d] = "fill"
        PROVE  ShowsOwn(p, held[d])'
    BY <1>1, <1>2, <2>1, <2>2 DEF ShowsOwn
  <2>3. CASE LoadPrimary(c)
    <3>1. cache' = cache /\ held'[c] = store
      BY <1>0, <2>3 DEF LoadPrimary, TypeOK
    <3>2. \A o \in acked : Log!Shown(config.kind, store.raw \cup store.folded, o)
      BY <1>0 DEF WritesShown, Log!NothingLost
    <3>3. ShowsOwn(p, held[c])'
      BY <1>1, <2>1, <3>1, <3>2 DEF ShowsOwn
    <3>4. cache'[p] # Nil => ShowsOwn(p, cache[p])'
      BY <1>1, <1>2, <2>1, <3>1 DEF ShowsOwn
    <3> QED
      BY <2>2, <3>3, <3>4
  <2>4. CASE LoadFill(c)
    <3>1. cache'[p] = held[c] /\ step'[c] # "fill" /\ step[c] = "fill"
      BY <1>0, <1>5, <2>4 DEF LoadFill, TypeOK
    <3>2. ShowsOwn(p, held[c])
      BY <1>2, <1>5, <3>1
    <3>3. ShowsOwn(p, cache[p])'
      BY <1>1, <2>1, <3>1, <3>2 DEF ShowsOwn
    <3> QED
      BY <2>2, <3>1, <3>3
  <2>5. CASE ~LoadPrimary(c) /\ ~LoadFill(c)
    <3>1. step'[c] # "fill" /\ (cache' = cache \/ cache' = [cache EXCEPT ![h] = Nil])
      BY <1>0, <2>5, OwnStep DEF LoadHit, LoadMiss, TypeOK
    <3>2. cache'[p] = cache[p] \/ cache'[p] = Nil
      BY <1>0, <1>5, <3>1 DEF TypeOK
    <3>3. cache'[p] # Nil => ShowsOwn(p, cache[p])'
      BY <1>1, <1>2, <2>1, <3>2 DEF ShowsOwn
    <3> QED
      BY <2>2, <3>1, <3>3
  <2> QED
    BY <2>3, <2>4, <2>5
<1> QED
  BY <1>3, <1>4, <1>5

(* So with what its reads have loaded and are about to fill the cache with. *)
LEMMA LoadingClient ==
    ASSUME IInv, StampInv, OwnInv, WritesShown, NEW c \in Client, ClientStep(c)
    PROVE  Loading'
<1> DEFINE h == Home(c)
<1>0. /\ TypeOK /\ acked \subseteq written
      /\ h \in Process
  BY ConfigFacts DEF IInv, TypeOK, Home
<1>1. /\ config' = config /\ overlap \subseteq overlap' /\ written \subseteq written'
      /\ \A d \in Client \ {c} : step'[d] = step[d] /\ held'[d] = held[d] /\ seen'[d] = seen[d]
      /\ \A d \in Client : Answers(d)' => Answers(d)
  BY <1>0, OthersStay DEF Answers, DistinctIds, Home
<1> SUFFICES ASSUME NEW d \in Client, step'[d] \in {"load", "fill", "loaded"}
             PROVE  /\ seen'[d] \subseteq written'
                    /\ (step'[d] \in {"fill", "loaded"} /\ Answers(d)) =>
                          \A o \in seen'[d] :
                              Log!Shown(config.kind, held'[d].raw \cup held'[d].folded, o)
  BY <1>1 DEF Loading
<1>2. CASE d # c
  BY <1>1, <1>2 DEF OwnInv, Loading
<1>3. CASE d = c
  <2>1. CASE LoadHit(c)
    <3>1. /\ config.cached /\ cache[h] # Nil /\ held'[c] = cache[h] /\ seen'[c] = Own(c)
      BY <1>0, <2>1 DEF LoadHit, TypeOK
    <3>2. Answers(c) => ShowsOwn(h, cache[h])
      BY <1>0, <3>1 DEF OwnInv, CacheShows, Answers
    <3> QED
      BY <1>0, <1>1, <1>3, <3>1, <3>2 DEF ShowsOwn, Own
  <2>2. CASE LoadMiss(c)
    <3>1. seen'[c] = Own(c) /\ step'[c] = "load"
      BY <1>0, <2>2 DEF LoadMiss, TypeOK
    <3> QED
      BY <1>0, <1>1, <1>3, <3>1 DEF Own
  <2>3. CASE LoadPrimary(c)
    <3>1. seen'[c] = seen[c] /\ held'[c] = store /\ step[c] = "load"
      BY <1>0, <2>3 DEF LoadPrimary, callVars, TypeOK
    <3>2. seen[c] \subseteq written
      BY <3>1 DEF OwnInv, Loading
    <3> QED
      BY <1>1, <1>3, <3>1, <3>2 DEF WritesShown, Log!NothingLost
  <2>4. CASE LoadFill(c)
    <3>1. seen'[c] = seen[c] /\ held'[c] = held[c] /\ step[c] = "fill"
      BY <2>4 DEF LoadFill, callVars
    <3> QED
      BY <1>1, <1>3, <3>1 DEF OwnInv, Loading
  <2> QED
    BY <1>0, <1>3, <2>1, <2>2, <2>3, <2>4, OwnStep
<1> QED
  BY <1>2, <1>3

(* A restart empties the cache of its process and ends its calls; under a  *)
(* new replica id the writes before it are not the process's own.          *)
LEMMA OwnRestart ==
    ASSUME IInv, StampInv, OwnInv, NEW p \in Process, Restart(p)
    PROVE  CacheShows' /\ Loading'
<1>1. /\ UNCHANGED <<config, written, acked>>
      /\ \A q \in Process : q # p => replica'[q] = replica[q]
      /\ \A d \in Client : IF Home(d) = p THEN step'[d] = "idle" ELSE step'[d] = step[d]
  BY RestartFacts DEF IInv
<1>2. /\ overlap' = overlap \ {p}
      /\ cache'[p] = Nil /\ \A q \in Process : q # p => cache'[q] = cache[q]
      /\ \A d \in Client : Home(d) # p => held'[d] = held[d] /\ seen'[d] = seen[d]
  BY DEF Restart, IInv, TypeOK
<1>3. CacheShows'
  <2> SUFFICES ASSUME config.cached, DistinctIds, NEW q \in Process \ overlap'
               PROVE  /\ cache'[q] # Nil => ShowsOwn(q, cache[q])'
                      /\ \A d \in Client : (Home(d) = q /\ step'[d] = "fill") => ShowsOwn(q, held[d])'
    BY <1>1 DEF CacheShows, DistinctIds, Home
  <2>1. CASE q = p
    BY <1>1, <1>2, <2>1
  <2>2. CASE q # p
    <3>1. /\ cache[q] # Nil => ShowsOwn(q, cache[q])
          /\ \A d \in Client : (Home(d) = q /\ step[d] = "fill") => ShowsOwn(q, held[d])
      BY <1>2, <2>2 DEF OwnInv, CacheShows
    <3> QED
      BY <1>1, <1>2, <2>2, <3>1 DEF ShowsOwn
  <2> QED
    BY <2>1, <2>2
<1>4. Loading'
  <2> SUFFICES ASSUME NEW d \in Client, step'[d] \in {"load", "fill", "loaded"}
               PROVE  /\ seen'[d] \subseteq written'
                      /\ (step'[d] \in {"fill", "loaded"} /\ Answers(d)') =>
                            \A o \in seen'[d] :
                                Log!Shown(config.kind, held'[d].raw \cup held'[d].folded, o)
    BY <1>1 DEF Loading
  <2>1. Home(d) # p
    BY <1>1
  <2>2. Answers(d)' => Answers(d)
    BY <1>1, <1>2, <2>1 DEF Answers, DistinctIds, Home
  <2> QED
    BY <1>1, <1>2, <2>1, <2>2 DEF OwnInv, Loading
<1> QED
  BY <1>3, <1>4

(* Every step keeps a process reading its own writes. *)
LEMMA OwnStays == IInv /\ StampInv /\ WritesShown /\ OwnInv /\ [Next]_vars => OwnInv'
<1> SUFFICES ASSUME IInv, StampInv, WritesShown, OwnInv, [Next]_vars PROVE OwnInv'
  OBVIOUS
<1>1. OneCall' /\ TypeOK
  BY OneCallStep DEF IInv, OwnInv
<1>2. ASSUME NEW p \in Process, Evict(p) PROVE CacheShows' /\ Loading'
  <2>1. /\ UNCHANGED <<config, replica, step, held, acked, written, seen, overlap>>
        /\ \A q \in Process : cache'[q] = cache[q] \/ cache'[q] = Nil
    BY <1>1, <1>2 DEF Evict, TypeOK, storeVars, dbVars, callVars
  <2>2. CacheShows'
    BY <2>1 DEF OwnInv, CacheShows, ShowsOwn, DistinctIds, Home
  <2>3. Loading'
    BY <2>1 DEF OwnInv, Loading, Answers, DistinctIds, Home
  <2> QED
    BY <2>2, <2>3
<1>3. ASSUME UNCHANGED <<config, replica, step, held, acked, written, seen, overlap, cache>>
      PROVE  CacheShows' /\ Loading'
  <2>1. CacheShows'
    BY <1>3 DEF OwnInv, CacheShows, ShowsOwn, DistinctIds, Home
  <2>2. Loading'
    BY <1>3 DEF OwnInv, Loading, Answers, DistinctIds, Home
  <2> QED
    BY <2>1, <2>2
<1>4. Expire \/ UNCHANGED vars =>
         UNCHANGED <<config, replica, step, held, acked, written, seen, overlap, cache>>
  BY DEF Expire, vars, storeVars, dbVars, callVars
<1> QED
  BY <1>1, <1>2, <1>3, <1>4, CacheClient, LoadingClient, OwnRestart DEF Next, OwnInv

(* A read shows every write its own process had acknowledged before, for   *)
(* any number of processes and clients: without a cache always, with one   *)
(* while the calls of the process do not overlap.                          *)
THEOREM ProcessesReadTheirWrites == Spec => []SequentialReads
<1>1. Init => OwnInv
  BY DEF Init, OwnInv, OneCall, CacheShows, Loading
<1>2. OwnInv => SequentialReads
  BY DEF OwnInv, Loading, Answers, SequentialReads
<1> QED
  BY <1>1, <1>2, OwnStays, WritesStayShown, StampsHold, Invariance, PTL DEF Spec

=============================================================================
