---------------------------- MODULE RouterProofs ----------------------------
(***************************************************************************)
(* TLAPS proofs about Router, for any number of workers, aircraft and      *)
(* updates.  NewestWins is not inductive: between Load and Store a worker  *)
(* merges into a local copy.  What makes it hold is that the per-ICAO      *)
(* mutex keeps every other worker from storing meanwhile, so that the copy *)
(* is the sample, or the sample has been swept away.                       *)
(***************************************************************************)
EXTENDS Router, SequenceTheorems, FiniteSetTheorems, TLAPS

-----------------------------------------------------------------------------
(* The inductive invariant.                                                *)

(* The locals a worker uses are set at the places where it uses them.      *)
LocalsSet ==
    \A w \in Workers :
        /\ pc[w] \in {"lock", "load", "store"} => update[w] # None
        /\ pc[w] \in {"count", "emit"} => out[w] # None /\ todo[w] # << >>

(* A worker between Lock and Unlock holds the mutex of its aircraft.       *)
HoldsLock ==
    \A w \in Workers :
        pc[w] \in {"load", "store"} => icaoLocks[update[w].icao] = w

(* The copy a worker is about to merge into is the sample, unless the      *)
(* sweeper has deleted that one.                                           *)
CopyIsCurrent ==
    \A w \in Workers :
        pc[w] = "store" /\ samples[update[w].icao] # None
            => item[w] = samples[update[w].icao]

(* rec is at least as new as each of us, field by field.                   *)
Covers(rec, us) ==
    \A u \in us : \A f \in Fields :
        (f \notin Unflagged => u.at[f].has) =>
            u.at[f].ts <= rec.at[f].ts
                          + (IF f = "Squawk" THEN SquawkHold ELSE 0)

(* The copy covers what was merged into the sample, deleted or not.        *)
CopyCovers ==
    \A w \in Workers :
        pc[w] = "store" /\ item[w] # None
            => Covers(item[w], fed[update[w].icao])

IInv ==
    /\ TypeOK
    /\ LocalsSet
    /\ HoldsLock
    /\ CopyIsCurrent
    /\ CopyCovers
    /\ NewestWins

-----------------------------------------------------------------------------
(* What MergePlaneLocations does to a record.                              *)

(* Merging two records of the right shape gives one of the right shape.    *)
LEMMA MergeType ==
    ASSUME NEW p \in PlaneLocation, NEW n \in PlaneLocation
    PROVE  Merge(p, n) \in PlaneLocation
<1>1. ASSUME NEW f \in Fields
      PROVE  MergeEntry(p.at[f], n.at[f], f) \in Entry
  <2>1. p.at[f] \in Entry /\ n.at[f] \in Entry
    BY <1>1 DEF PlaneLocation
  <2>2. (f \in FlagSetting \/ p.at[f].has) \in BOOLEAN
    BY <2>1 DEF Entry, FlagSetting
  <2> QED
    BY <2>1, <2>2 DEF MergeEntry, Entry
<1>2. [f \in Fields |-> MergeEntry(p.at[f], n.at[f], f)] \in [Fields -> Entry]
  BY <1>1
<1> QED
  BY <1>2 DEF Merge, PlaneLocation

(* Merging never makes a field older: MergeEntry takes an entry only when  *)
(* it is newer.                                                            *)
LEMMA MergeMonotone ==
    ASSUME NEW p \in PlaneLocation, NEW n \in PlaneLocation, NEW f \in Fields
    PROVE  p.at[f].ts <= Merge(p, n).at[f].ts
<1>1. p.at[f] \in Entry /\ n.at[f] \in Entry
  BY DEF PlaneLocation
<1>2. Merge(p, n).at[f] = MergeEntry(p.at[f], n.at[f], f)
  BY DEF Merge
<1> QED
  BY <1>1, <1>2 DEF MergeEntry, Takes, Entry

(* The merged record is as new as both of its arguments: it covers all     *)
(* that the first one covers, and the second one too.                      *)
LEMMA MergeCovers ==
    ASSUME NEW p \in PlaneLocation, NEW n \in PlaneLocation,
           NEW us \in SUBSET PlaneLocation, Covers(p, us)
    PROVE  Covers(Merge(p, n), us \union {n})
<1>1. SUFFICES ASSUME NEW u \in us \union {n}, NEW f \in Fields,
                      f \notin Unflagged => u.at[f].has
               PROVE  u.at[f].ts <= Merge(p, n).at[f].ts
                          + (IF f = "Squawk" THEN SquawkHold ELSE 0)
  BY DEF Covers
<1>2. /\ p.at[f] \in Entry /\ n.at[f] \in Entry /\ u.at[f] \in Entry
      /\ Merge(p, n).at[f] \in Entry
  BY MergeType DEF PlaneLocation
<1>3. p.at[f].ts <= Merge(p, n).at[f].ts
  BY MergeMonotone
<1>4. CASE u \in us
  BY <1>1, <1>2, <1>3, <1>4, SquawkHoldAssumption DEF Covers, Entry
<1>5. CASE u = n
  <2>1. Merge(p, n).at[f] = MergeEntry(p.at[f], n.at[f], f)
    BY DEF Merge
  <2> QED
    BY <1>1, <1>2, <1>5, <2>1, SquawkHoldAssumption
    DEF MergeEntry, Takes, Entry
<1> QED
  BY <1>4, <1>5

(* A record covers itself, so a first update is covered by its sample.     *)
LEMMA CoversSelf ==
    ASSUME NEW n \in PlaneLocation
    PROVE  Covers(n, {n})
<1>1. ASSUME NEW f \in Fields PROVE n.at[f] \in Entry
  BY DEF PlaneLocation
<1> QED
  BY <1>1, SquawkHoldAssumption DEF Covers, Entry

(* The three handlers have something to emit, and emit to known places.    *)
LEMMA HandlersType ==
    \A h \in {handleNewUpdate, handleSignificantUpdate,
              handleInsignificantUpdate} :
        h \in Seq(Queues \union Streams) /\ h # << >>
BY SMTT(30) DEF handleNewUpdate, handleSignificantUpdate, handleInsignificantUpdate,
       Only, Queues, Streams

-----------------------------------------------------------------------------
(* The initial state satisfies the inductive invariant.                    *)
LEMMA InitIInv == Init => IInv
<1> SUFFICES ASSUME Init PROVE IInv
  OBVIOUS
<1>1. TypeOK
  BY RouterAssumption DEF Init, TypeOK
<1>2. LocalsSet /\ HoldsLock /\ CopyIsCurrent /\ CopyCovers
  BY DEF Init, LocalsSet, HoldsLock, CopyIsCurrent, CopyCovers
<1>3. NewestWins
  BY DEF Init, NewestWins, CachedIcaos, Cached
<1> QED
  BY <1>1, <1>2, <1>3 DEF IInv

(* The shape of the state is preserved by every step.                      *)
LEMMA TypeStep ==
    ASSUME TypeOK, LocalsSet, Next
    PROVE  TypeOK'
<1> USE RouterAssumption
<1>1. ASSUME NEW u \in Updates, DeliverUpdate(u) PROVE TypeOK'
  BY <1>1 DEF TypeOK, DeliverUpdate, Deliver, cacheVars, workerVars, dsVars
<1>2. CASE DeliverJunk
  BY <1>2 DEF TypeOK, DeliverJunk, Deliver, cacheVars, workerVars, dsVars
<1>3. CASE Signal
  BY <1>3 DEF TypeOK, Signal, cacheVars, workerVars, dsVars
<1>4. CASE Listener
  BY <1>4 DEF TypeOK, Listener, ListenerDone, CloseNats, cacheVars,
              workerVars, dsVars
<1>5. ASSUME NEW w \in Workers, WorkerStep(w) PROVE TypeOK'
  <2> USE DEF envVars, cacheVars, workerVars, dsVars
  <2>1. CASE Receive(w)
    <3>1. incoming' \in Seq(Updates \union {Junk})
      BY <2>1 DEF TypeOK, Receive
    <3>2. incoming # << >> => Head(incoming) \in Updates \union {Junk}
      BY DEF TypeOK
    <3>3. /\ update' \in [Workers -> Updates \union {None}]
          /\ pc' \in [Workers -> {"idle", "lock", "load", "store", "count",
                                  "emit", "ended"}]
      <4>1. CASE Head(incoming) = Junk
        BY <2>1, <4>1 DEF TypeOK, Receive
      <4>2. CASE Head(incoming) # Junk
        <5>1. PICK m \in Updates : update' = [update EXCEPT ![w] = m]
          BY <2>1, <3>2, <4>2 DEF Receive
        <5>2. pc' = [pc EXCEPT ![w] = "lock"]
          BY <2>1, <4>2 DEF Receive, Goto
        <5> QED
          BY <5>1, <5>2 DEF TypeOK
      <4> QED
        BY <4>1, <4>2
    <3> QED
      BY <2>1, <3>1, <3>3 DEF TypeOK, Receive
  <2>2. CASE EndWorker(w)
    BY <2>2 DEF TypeOK, EndWorker, Goto
  <2>3. CASE LockIcao(w)
    BY <2>3 DEF TypeOK, LockIcao, Goto
  <2>4. CASE LoadSample(w)
    <3>1. update[w].icao \in Icaos
      BY <2>4 DEF TypeOK, LocalsSet, LoadSample, PlaneLocation
    <3> QED
      BY <2>4, <3>1 DEF TypeOK, LoadSample, Goto
  <2>5. CASE StoreNew(w)
    <3>1. update[w] \in Updates /\ update[w] \in PlaneLocation
      BY <2>5 DEF TypeOK, LocalsSet, StoreNew
    <3> QED
      BY <2>5, <3>1, HandlersType
      DEF TypeOK, StoreNew, StoreAndUnlock, Goto
  <2>6. CASE StoreMerged(w)
    <3>1. /\ update[w] \in Updates /\ update[w] \in PlaneLocation
          /\ update[w].icao \in Icaos
          /\ item[w] \in PlaneLocation
      BY <2>6 DEF TypeOK, LocalsSet, StoreMerged, PlaneLocation
    <3>2. Merge(item[w], update[w]) \in PlaneLocation
      BY <3>1, MergeType
    <3>3. fed[update[w].icao] \union {update[w]} \in SUBSET Updates
      BY <3>1 DEF TypeOK
    <3> QED
      BY <2>6, <3>1, <3>2, <3>3, HandlersType
      DEF TypeOK, StoreMerged, StoreAndUnlock, Goto
  <2>7. CASE Reject(w)
    BY <2>7 DEF TypeOK, Reject, Goto
  <2>8. CASE CountNew(w)
    BY <2>8 DEF TypeOK, CountNew, Goto
  <2>9. ASSUME EmitNext(w)
        PROVE  /\ todo' \in [Workers -> Seq(Queues \union Streams)]
               /\ pc' \in [Workers -> {"idle", "lock", "load", "store",
                                       "count", "emit", "ended"}]
               /\ out[w] \in PlaneLocation
    <3>1. todo[w] \in Seq(Queues \union Streams) /\ todo[w] # << >>
      BY <2>9 DEF TypeOK, LocalsSet, EmitNext
    <3>2. Tail(todo[w]) \in Seq(Queues \union Streams)
      BY <3>1
    <3> QED
      BY <2>9, <3>2 DEF TypeOK, LocalsSet, EmitNext, Goto
  <2>10. CASE Publish(w)
    <3>1. sent' \subseteq [to : Queues, loc : PlaneLocation]
      BY <2>9, <2>10 DEF TypeOK, Publish
    <3> QED
      BY <2>9, <2>10, <3>1 DEF TypeOK, Publish
  <2>11. CASE AddToStream(w)
    <3>1. Only(out[w].tag # "repeat", <<out[w]>>) \in Seq(PlaneLocation)
      BY <2>9, <2>11 DEF AddToStream, Only
    <3>2. ASSUME NEW s \in Seq(PlaneLocation), NEW t \in Seq(PlaneLocation)
          PROVE  s \o t \in Seq(PlaneLocation)
      OBVIOUS
    <3>3. dsLow' \in Seq(PlaneLocation) /\ dsHigh' \in Seq(PlaneLocation)
      <4> DEFINE keep == Only(out[w].tag # "repeat", <<out[w]>>)
      <4>1. \/ dsLow' = dsLow \o keep /\ dsHigh' = dsHigh
            \/ dsHigh' = dsHigh \o keep /\ dsLow' = dsLow
        BY <2>11 DEF AddToStream
      <4>2. keep \in Seq(PlaneLocation)
        BY <3>1
      <4> HIDE DEF keep
      <4>3. /\ dsLow \in Seq(PlaneLocation) /\ dsHigh \in Seq(PlaneLocation)
            /\ dsLow \o keep \in Seq(PlaneLocation)
            /\ dsHigh \o keep \in Seq(PlaneLocation)
        BY <4>2, <3>2 DEF TypeOK
      <4> QED
        BY <4>1, <4>3, Zenon
    <3> QED
      BY <2>9, <2>11, <3>3 DEF TypeOK, AddToStream
  <2> QED
    BY <1>5, <2>1, <2>2, <2>3, <2>4, <2>5, <2>6, <2>7, <2>8, <2>10, <2>11
    DEF WorkerStep
<1>6. CASE DrainStream
  <2>1. /\ dsLow' \in Seq(PlaneLocation) /\ dsHigh' \in Seq(PlaneLocation)
        /\ stored' \subseteq PlaneLocation
    <3>1. ASSUME NEW s \in Seq(PlaneLocation), s # << >>
          PROVE  Head(s) \in PlaneLocation /\ Tail(s) \in Seq(PlaneLocation)
      BY <3>1
    <3> QED
      BY <1>6, <3>1, Zenon DEF TypeOK, DrainStream
  <2> QED
    BY <1>6, <2>1 DEF TypeOK, DrainStream, envVars, cacheVars, workerVars
<1>7. ASSUME NEW i \in Icaos, GrowOld(i) PROVE TypeOK'
  BY <1>7 DEF TypeOK, GrowOld, envVars, workerVars, dsVars
<1>8. CASE Sweeper
  <2>1. ASSUME NEW i \in Icaos, SweepDecide(i) PROVE TypeOK'
    BY <2>1 DEF TypeOK, SweepDecide, envVars, workerVars, dsVars
  <2>2. CASE SweepDelete
    BY <2>2 DEF TypeOK, SweepDelete, envVars, workerVars, dsVars
  <2> QED
    BY <1>8, <2>1, <2>2 DEF Sweeper
<1>9. CASE Terminated
  BY <1>9 DEF TypeOK, Terminated, vars, envVars, cacheVars, workerVars, dsVars
<1> QED
  BY <1>1, <1>2, <1>3, <1>4, <1>5, <1>6, <1>7, <1>8, <1>9 DEF Next

(* Covers, spelled the way NewestWins states it.                           *)
LEMMA NewestIsCovers ==
    NewestWins <=> \A i \in CachedIcaos : Covers(samples[i], fed[i])
BY DEF NewestWins, Covers

(* A step that leaves the cache, the mutexes and the workers alone, or     *)
(* only deletes samples, preserves the rest of the invariant.              *)
LEMMA FrameStep ==
    ASSUME IInv, TypeOK', UNCHANGED <<fed, icaoLocks, workerVars>>,
           \A i \in Icaos : samples'[i] = samples[i] \/ samples'[i] = None
    PROVE  IInv'
<1>1. LocalsSet' /\ HoldsLock'
  BY DEF IInv, LocalsSet, HoldsLock, workerVars
<1>2. CopyIsCurrent'
  <2>1. ASSUME NEW w \in Workers, pc[w] = "store"
        PROVE  update[w].icao \in Icaos
    BY <2>1, RouterAssumption DEF IInv, TypeOK, LocalsSet, PlaneLocation
  <2> QED
    BY <2>1 DEF IInv, CopyIsCurrent, workerVars
<1>3. CopyCovers'
  BY DEF IInv, CopyCovers, Covers, workerVars
<1>4. NewestWins'
  <2>1. ASSUME NEW i \in Icaos, samples'[i] # None
        PROVE  Covers(samples[i], fed[i]) /\ samples'[i] = samples[i]
    BY <2>1, NewestIsCovers DEF IInv, CachedIcaos, Cached
  <2> QED
    BY <2>1 DEF NewestWins, Covers, CachedIcaos, Cached
<1> QED
  BY <1>1, <1>2, <1>3, <1>4 DEF IInv

(* A worker that has an update under way knows its aircraft.               *)
LEMMA UpdateHasIcao ==
    ASSUME IInv, NEW w \in Workers, pc[w] \in {"lock", "load", "store"}
    PROVE  update[w] \in PlaneLocation /\ update[w].icao \in Icaos
<1>1. update[w] \in Updates
  BY DEF IInv, TypeOK, LocalsSet
<1>2. update[w] \in PlaneLocation
  BY <1>1, RouterAssumption
<1> QED
  BY <1>2 DEF PlaneLocation

(* handleMsg with an update that may be stored: under the mutex the sample *)
(* is what the worker loaded, or nothing, and rec covers it all.           *)
LEMMA StoreStep ==
    ASSUME IInv, TypeOK', NEW w \in Workers, NEW rec, NEW us,
           pc[w] = "store", StoreAndUnlock(w, rec, us), Covers(rec, us),
           NEW l \in {"count", "emit"}, pc' = [pc EXCEPT ![w] = l],
           rec # None, NEW h, h # << >>, todo' = [todo EXCEPT ![w] = h]
    PROVE  IInv'
<1> DEFINE i == update[w].icao
<1>1. i \in Icaos /\ update' = update /\ item' = item
  BY RouterAssumption DEF IInv, TypeOK, LocalsSet, PlaneLocation, StoreAndUnlock
<1>2. /\ \A j \in Icaos \ {i} : /\ samples'[j] = samples[j]
                                 /\ fed'[j] = fed[j]
                                 /\ icaoLocks'[j] = icaoLocks[j]
      /\ samples'[i] = rec /\ fed'[i] = us /\ out'[w] = rec
      /\ \A v \in Workers \ {w} : out'[v] = out[v]
  BY <1>1 DEF StoreAndUnlock, IInv, TypeOK
<1>3. /\ pc'[w] = l /\ todo'[w] = h
      /\ \A v \in Workers \ {w} : pc'[v] = pc[v] /\ todo'[v] = todo[v]
  BY DEF IInv, TypeOK
(* No other worker is between Lock and Unlock of this aircraft.            *)
<1>4. ASSUME NEW v \in Workers, pc'[v] \in {"load", "store"}
      PROVE  v # w /\ pc'[v] = pc[v] /\ update[v].icao \in Icaos \ {i}
  <2>1. v # w /\ pc'[v] = pc[v]
    BY <1>3, <1>4
  <2>2. icaoLocks[update[v].icao] = v /\ icaoLocks[i] = w
    BY <1>4, <2>1 DEF IInv, HoldsLock
  <2>3. update[v].icao \in Icaos
    BY <1>4, <2>1, UpdateHasIcao
  <2> QED
    BY <2>1, <2>2, <2>3
<1> HIDE DEF i
<1>5. LocalsSet'
  BY <1>1, <1>2, <1>3 DEF IInv, LocalsSet
<1>6. HoldsLock'
  BY <1>1, <1>2, <1>4 DEF IInv, HoldsLock
<1>7. CopyIsCurrent'
  BY <1>1, <1>2, <1>4 DEF IInv, CopyIsCurrent
<1>8. CopyCovers'
  <2>1. SUFFICES ASSUME NEW v \in Workers, pc'[v] = "store", item[v] # None
                 PROVE  Covers(item[v], fed'[update[v].icao])
    BY <1>1 DEF CopyCovers, Covers
  <2>2. Covers(item[v], fed[update[v].icao])
    BY <1>4, <2>1 DEF IInv, CopyCovers
  <2> QED
    BY <1>2, <1>4, <2>1, <2>2
<1>9. NewestWins'
  <2>1. ASSUME NEW j \in Icaos, samples'[j] # None
        PROVE  Covers(samples'[j], fed'[j])
    <3>1. CASE j = i
      BY <1>2, <3>1
    <3>2. CASE j # i
      BY <1>2, <2>1, <3>2, NewestIsCovers DEF IInv, CachedIcaos, Cached
    <3> QED
      BY <3>1, <3>2
  <2> QED
    BY <2>1 DEF NewestWins, Covers, CachedIcaos, Cached
<1> QED
  BY <1>5, <1>6, <1>7, <1>8, <1>9 DEF IInv

(* A worker's step that stores nothing.                                    *)
LEMMA LocalStep ==
    ASSUME IInv, TypeOK', NEW w \in Workers, samples' = samples, fed' = fed,
           \/ Receive(w) \/ EndWorker(w) \/ LockIcao(w) \/ LoadSample(w)
           \/ Reject(w) \/ CountNew(w) \/ Publish(w) \/ AddToStream(w)
    PROVE  IInv'
<1> USE DEF cacheVars
<1>1. LocalsSet'
  <2>1. CASE Receive(w)
    <3>1. CASE Head(incoming) = Junk
      BY <2>1, <3>1 DEF IInv, LocalsSet, Receive
    <3>2. CASE Head(incoming) # Junk
      <4>1. incoming # << >> /\ incoming \in Seq(Updates \union {Junk})
        BY <2>1 DEF Receive, IInv, TypeOK
      <4>2. PICK m \in Updates : update' = [update EXCEPT ![w] = m]
        BY <2>1, <3>2, <4>1 DEF Receive
      <4>3. m # None
        BY <4>2, RouterAssumption
      <4> QED
        BY <2>1, <3>2, <4>2, <4>3
        DEF IInv, TypeOK, LocalsSet, Receive, Goto
    <3> QED
      BY <3>1, <3>2
  <2>2. CASE EndWorker(w)
    BY <2>2 DEF IInv, TypeOK, LocalsSet, EndWorker, Goto
  <2>3. CASE LockIcao(w)
    BY <2>3 DEF IInv, TypeOK, LocalsSet, LockIcao, Goto
  <2>4. CASE LoadSample(w)
    BY <2>4 DEF IInv, TypeOK, LocalsSet, LoadSample, Goto
  <2>5. CASE Reject(w)
    BY <2>5 DEF IInv, TypeOK, LocalsSet, Reject, Goto
  <2>6. CASE CountNew(w)
    BY <2>6 DEF IInv, TypeOK, LocalsSet, CountNew, Goto
  <2>7. ASSUME EmitNext(w), out' = out, update' = update PROVE LocalsSet'
    <3>1. todo[w] \in Seq(Queues \union Streams) /\ todo[w] # << >>
      BY <2>7 DEF IInv, TypeOK, LocalsSet, EmitNext
    <3>2. Len(todo[w]) # 1 => Tail(todo[w]) # << >>
      <4>1. Len(todo[w]) \in Nat \ {0} /\ Len(Tail(todo[w])) = Len(todo[w]) - 1
        BY <3>1, HeadTailProperties, EmptySeq
      <4>2. Len(<< >>) = 0
        BY EmptySeq
      <4>3. Len(todo[w]) # 1 => Len(Tail(todo[w])) # 0
        BY <4>1
      <4> QED
        BY <4>2, <4>3, Zenon
    <3> QED
      BY <2>7, <3>2 DEF IInv, TypeOK, LocalsSet, EmitNext, Goto
  <2>8. CASE Publish(w)
    BY <2>7, <2>8 DEF Publish
  <2>9. CASE AddToStream(w)
    BY <2>7, <2>9 DEF AddToStream
  <2> QED
    BY <2>1, <2>2, <2>3, <2>4, <2>5, <2>6, <2>8, <2>9
<1>2. ASSUME NEW v \in Workers, pc[v] \in {"lock", "load", "store"}
      PROVE  update[v].icao \in Icaos
  BY <1>2, RouterAssumption DEF IInv, TypeOK, LocalsSet, PlaneLocation
<1>3. HoldsLock' /\ CopyIsCurrent' /\ CopyCovers'
  <2>1. CASE Receive(w)
    <3>1. /\ \A v \in Workers \ {w} : pc'[v] = pc[v] /\ update'[v] = update[v]
          /\ pc'[w] \notin {"load", "store"}
          /\ icaoLocks' = icaoLocks /\ item' = item
      <4>1. CASE Head(incoming) = Junk
        BY <2>1, <4>1 DEF Receive
      <4>2. CASE Head(incoming) # Junk
        <5>1. PICK m : update' = [update EXCEPT ![w] = m]
          BY <2>1, <4>2 DEF Receive
        <5> QED
          BY <2>1, <4>2, <5>1 DEF IInv, TypeOK, Receive, Goto
      <4> QED
        BY <4>1, <4>2
    <3> QED
      BY <3>1 DEF IInv, HoldsLock, CopyIsCurrent, CopyCovers, Covers
  <2>2. CASE EndWorker(w)
    BY <2>2
    DEF IInv, TypeOK, HoldsLock, CopyIsCurrent, CopyCovers, Covers,
        EndWorker, Goto
  <2>3. CASE LockIcao(w)
    <3>1. /\ \A v \in Workers \ {w} : pc'[v] = pc[v]
          /\ pc'[w] = "load"
          /\ update' = update /\ item' = item
      BY <2>3 DEF IInv, TypeOK, LockIcao, Goto
    <3>2. HoldsLock'
      BY <1>2, <2>3, <3>1, RouterAssumption
      DEF IInv, TypeOK, HoldsLock, LockIcao
    <3> QED
      BY <3>1, <3>2 DEF IInv, CopyIsCurrent, CopyCovers, Covers
  <2>4. CASE LoadSample(w)
    <3>1. /\ \A v \in Workers \ {w} : pc'[v] = pc[v] /\ item'[v] = item[v]
          /\ pc[w] = "load"
          /\ pc'[w] = "store" /\ item'[w] = samples[update[w].icao]
          /\ update' = update /\ icaoLocks' = icaoLocks
      BY <2>4 DEF IInv, TypeOK, LoadSample, Goto
    <3>2. HoldsLock' /\ CopyIsCurrent'
      BY <3>1 DEF IInv, HoldsLock, CopyIsCurrent
    <3>3. item'[w] # None => Covers(item'[w], fed[update[w].icao])
      BY <1>2, <3>1, NewestIsCovers DEF IInv, CachedIcaos, Cached
    <3>4. CopyCovers'
      <4>1. SUFFICES ASSUME NEW v \in Workers, pc'[v] = "store",
                            item'[v] # None
                     PROVE  Covers(item'[v], fed[update[v].icao])
        BY <3>1 DEF CopyCovers, Covers
      <4>2. CASE v = w
        BY <3>3, <4>1, <4>2
      <4>3. CASE v # w
        BY <3>1, <4>1, <4>3 DEF IInv, CopyCovers
      <4> QED
        BY <4>2, <4>3
    <3> QED
      BY <3>2, <3>4
  <2>5. CASE Reject(w)
    <3>1. /\ \A v \in Workers \ {w} : pc'[v] = pc[v]
          /\ pc[w] = "store" /\ pc'[w] = "idle"
          /\ update' = update /\ item' = item
          /\ icaoLocks' = [icaoLocks EXCEPT ![update[w].icao] = None]
      BY <2>5 DEF IInv, TypeOK, Reject, Goto
    <3>2. HoldsLock'
      BY <1>2, <3>1 DEF IInv, TypeOK, HoldsLock
    <3> QED
      BY <3>1, <3>2 DEF IInv, CopyIsCurrent, CopyCovers, Covers
  <2>6. CASE CountNew(w)
    BY <2>6
    DEF IInv, TypeOK, HoldsLock, CopyIsCurrent, CopyCovers, Covers,
        CountNew, Goto
  <2>7. CASE Publish(w) \/ AddToStream(w)
    <3>1. /\ \A v \in Workers \ {w} : pc'[v] = pc[v]
          /\ pc'[w] \notin {"load", "store"}
          /\ update' = update /\ item' = item /\ icaoLocks' = icaoLocks
      BY <2>7 DEF IInv, TypeOK, Publish, AddToStream, EmitNext, Goto
    <3> QED
      BY <3>1 DEF IInv, HoldsLock, CopyIsCurrent, CopyCovers, Covers
  <2> QED
    BY <2>1, <2>2, <2>3, <2>4, <2>5, <2>6, <2>7
<1>4. NewestWins'
  BY DEF IInv, NewestWins, CachedIcaos, Cached
<1> QED
  BY <1>1, <1>3, <1>4 DEF IInv

(* Every step preserves the inductive invariant.                           *)
LEMMA StepIInv == IInv /\ [Next]_vars => IInv'
<1> SUFFICES ASSUME IInv, [Next]_vars PROVE IInv'
  OBVIOUS
<1>1. TypeOK'
  <2>1. CASE Next
    BY <2>1, TypeStep DEF IInv
  <2>2. CASE UNCHANGED vars
    BY <2>2 DEF IInv, TypeOK, vars, envVars, cacheVars, workerVars, dsVars
  <2> QED
    BY <2>1, <2>2
<1>2. ASSUME NEW u \in Updates, DeliverUpdate(u) PROVE IInv'
  BY <1>1, <1>2, FrameStep DEF DeliverUpdate, Deliver, cacheVars
<1>3. CASE DeliverJunk \/ Signal \/ Listener
  BY <1>1, <1>3, FrameStep
  DEF DeliverJunk, Deliver, Signal, Listener, ListenerDone, CloseNats,
      cacheVars
<1>4. ASSUME NEW w \in Workers, WorkerStep(w) PROVE IInv'
  <2>1. CASE StoreNew(w)
    <3>1. update[w] \in PlaneLocation /\ update[w] # None
      BY <2>1, RouterAssumption DEF IInv, TypeOK, LocalsSet, StoreNew
    <3>2. Covers(update[w], {update[w]})
      BY <3>1, CoversSelf
    <3> QED
      BY <1>1, <2>1, <3>1, <3>2, StoreStep, HandlersType DEF StoreNew, Goto
  <2>2. CASE StoreMerged(w)
    <3> DEFINE u == update[w]
    <3>1. /\ u \in PlaneLocation /\ u.icao \in Icaos
          /\ item[w] \in PlaneLocation
      BY <2>2, RouterAssumption
      DEF IInv, TypeOK, LocalsSet, StoreMerged, PlaneLocation
    <3>2. fed[u.icao] \in SUBSET PlaneLocation
      BY <3>1, RouterAssumption DEF IInv, TypeOK
    <3>3. Covers(item[w], fed[u.icao])
      BY <2>2 DEF IInv, CopyCovers, StoreMerged
    <3>4. Covers(Merge(item[w], u), fed[u.icao] \union {u})
      BY <3>1, <3>2, <3>3, MergeCovers
    <3>5. Merge(item[w], u) # None
      BY <3>1, MergeType, RouterAssumption
    <3>6. PICK h \in {handleSignificantUpdate, handleInsignificantUpdate} :
             todo' = [todo EXCEPT ![w] = h]
      BY <2>2 DEF StoreMerged
    <3>7. h # << >>
      BY HandlersType
    <3>8. /\ pc[w] = "store"
          /\ StoreAndUnlock(w, Merge(item[w], u), fed[u.icao] \union {u})
          /\ pc' = [pc EXCEPT ![w] = "emit"]
      BY <2>2 DEF StoreMerged, Goto
    <3> HIDE DEF u
    <3> QED
      BY <1>1, <3>4, <3>5, <3>6, <3>7, <3>8, StoreStep
  <2>3. CASE \/ Receive(w) \/ EndWorker(w) \/ LockIcao(w) \/ LoadSample(w)
             \/ Reject(w) \/ CountNew(w) \/ Publish(w) \/ AddToStream(w)
    <3>1. samples' = samples /\ fed' = fed
      BY <2>3 DEF Receive, EndWorker, LockIcao, LoadSample, Reject, CountNew,
                  Publish, AddToStream, cacheVars
    <3> QED
      BY <1>1, <2>3, <3>1, LocalStep
  <2> QED
    BY <1>4, <2>1, <2>2, <2>3 DEF WorkerStep
<1>5. CASE DrainStream
  BY <1>1, <1>5, FrameStep DEF DrainStream, cacheVars
<1>6. ASSUME NEW i \in Icaos, GrowOld(i) PROVE IInv'
  BY <1>1, <1>6, FrameStep DEF GrowOld
<1>7. CASE Sweeper
  <2>1. \A i \in Icaos : samples'[i] = samples[i] \/ samples'[i] = None
    BY <1>7 DEF Sweeper, SweepDecide, SweepDelete, IInv, TypeOK
  <2> QED
    BY <1>1, <1>7, <2>1, FrameStep DEF Sweeper, SweepDecide, SweepDelete
<1>8. CASE UNCHANGED vars
  BY <1>1, <1>8, FrameStep DEF vars, cacheVars
<1> QED
  BY <1>2, <1>3, <1>4, <1>5, <1>6, <1>7, <1>8 DEF Next, Terminated

-----------------------------------------------------------------------------
(* The variables of the router keep their types, for any instance.         *)
THEOREM TypeCorrect == Spec => []TypeOK
<1>1. IInv => TypeOK
  BY DEF IInv
<1> QED
  BY InitIInv, StepIInv, <1>1, PTL DEF Spec

(* No update that a worker of pw_router merged is ever lost to a staler    *)
(* one, whatever the number of workers, aircraft and updates and whatever  *)
(* the sweeper deletes between a Load and the Store that follows it.       *)
THEOREM UpdatesNotLost == Spec => []NewestWins
<1>1. IInv => NewestWins
  BY DEF IInv
<1> QED
  BY InitIInv, StepIInv, <1>1, PTL DEF Spec

(* No step replaces a cached value by an older one: a worker that stores   *)
(* has loaded what it replaces, under the mutex.                           *)
LEMMA StepNeverOlder ==
    ASSUME IInv, [Next]_vars, NEW i \in Icaos, Cached(i), samples'[i] # None,
           NEW f \in Fields
    PROVE  samples'[i].at[f].ts >= samples[i].at[f].ts
<1>1. samples[i] \in PlaneLocation /\ samples[i].at[f].ts \in Nat
  BY DEF IInv, TypeOK, Cached, PlaneLocation, Entry
<1>2. CASE samples'[i] = samples[i]
  BY <1>1, <1>2
<1>3. ASSUME NEW w \in Workers, StoreNew(w)
      PROVE  samples'[i] = samples[i]
  BY <1>3 DEF IInv, TypeOK, CopyIsCurrent, Cached, StoreNew, StoreAndUnlock
<1>4. ASSUME NEW w \in Workers, StoreMerged(w), samples'[i] # samples[i]
      PROVE  samples'[i].at[f].ts >= samples[i].at[f].ts
  <2>1. i = update[w].icao /\ samples'[i] = Merge(item[w], update[w])
    BY <1>4 DEF IInv, TypeOK, StoreMerged, StoreAndUnlock
  <2>2. item[w] = samples[i]
    BY <1>4, <2>1 DEF IInv, CopyIsCurrent, Cached, StoreMerged
  <2>3. update[w] \in PlaneLocation
    BY <1>4, RouterAssumption DEF IInv, TypeOK, LocalsSet, StoreMerged
  <2>4. Merge(samples[i], update[w]).at[f].ts \in Nat
    BY <1>1, <2>3, MergeType DEF PlaneLocation, Entry
  <2>5. samples[i].at[f].ts <= Merge(samples[i], update[w]).at[f].ts
    BY <1>1, <2>3, MergeMonotone
  <2> QED
    BY <1>1, <2>1, <2>2, <2>4, <2>5
<1>5. \/ \E w \in Workers : StoreNew(w) \/ StoreMerged(w)
      \/ samples'[i] = samples[i]
  <2> USE DEF cacheVars
  <2>1. CASE UNCHANGED vars
    BY <2>1 DEF vars
  <2>2. ASSUME NEW w \in Workers, WorkerStep(w),
               ~ StoreNew(w), ~ StoreMerged(w)
        PROVE  samples' = samples
    BY <2>2 DEF WorkerStep, Receive, EndWorker, LockIcao, LoadSample, Reject,
                CountNew, Publish, AddToStream
  <2>3. CASE Sweeper
    BY <2>3 DEF Sweeper, SweepDecide, SweepDelete, IInv, TypeOK
  <2>4. CASE \/ \E u \in Updates : DeliverUpdate(u)
             \/ DeliverJunk \/ Signal \/ Listener \/ DrainStream
             \/ \E j \in Icaos : GrowOld(j)
    BY <2>4 DEF DeliverUpdate, DeliverJunk, Deliver, Signal, Listener,
                ListenerDone, CloseNats, DrainStream, GrowOld
  <2> QED
    BY <2>1, <2>2, <2>3, <2>4 DEF Next, Terminated
<1> QED
  BY <1>2, <1>3, <1>4, <1>5

(* While an aircraft stays in pw_router's cache, none of its field groups  *)
(* is ever replaced by an older value.                                     *)
THEOREM SamplesNeverOlder == Spec => NeverOlder
<1>1. IInv /\ [Next]_vars =>
          [\A i \in Icaos :
              Cached(i) /\ samples'[i] # None =>
                 \A f \in Fields : samples'[i].at[f].ts >= samples[i].at[f].ts
          ]_vars
  BY StepNeverOlder
<1> QED
  BY InitIInv, StepIInv, <1>1, PTL DEF Spec, NeverOlder
-----------------------------------------------------------------------------
(* What the router reports of its cache.  Neither half is inductive: a     *)
(* merged record can be stored after the sweeper deleted the sample it was *)
(* merged into, and the gauge moves after the store and before the         *)
(* deletion.                                                               *)

(* The aircraft i has been announced, or is about to be.                   *)
AnnouncedOf(i) ==
    \/ \E m \in sent : m.to = "low" /\ m.loc.icao = i
    \/ \E w \in Workers :
          /\ pc[w] \in {"count", "emit"}
          /\ \E k \in 1 .. Len(todo[w]) : todo[w][k] = "low"
          /\ update[w].icao = i
    \/ ~ natsOpen

(* Records are filed, merged and published under their own ICAO.           *)
IcaosAgree ==
    /\ \A i \in CachedIcaos : samples[i].icao = i
    /\ \A w \in Workers :
          /\ pc[w] = "store" /\ item[w] # None
                => item[w].icao = update[w].icao
          /\ pc[w] \in {"count", "emit"} => out[w].icao = update[w].icao

(* What was loaded was announced, even if it is deleted before the store.  *)
CopyAnnounced ==
    \A w \in Workers :
        pc[w] = "store" /\ item[w] # None => AnnouncedOf(update[w].icao)

Counting == {w \in Workers : pc[w] = "count"}

(* The gauge, the aircraft stored and not yet counted in, and the one      *)
(* counted out and not yet deleted are together no more than the cache.    *)
GaugeBooks ==
    /\ IsFiniteSet(CachedIcaos)
    /\ IsFiniteSet(Counting)
    /\ evicting # None => evicting \in CachedIcaos
    /\ cacheEntries + Cardinality(Counting)
          + (IF evicting # None THEN 1 ELSE 0) <= Cardinality(CachedIcaos)

RInv == IInv /\ IcaosAgree /\ Announced /\ CopyAnnounced /\ GaugeBooks

LEMMA AnnouncedIsOf == Announced <=> \A i \in CachedIcaos : AnnouncedOf(i)
BY DEF Announced, AnnouncedOf

LEMMA InitRInv == Init => RInv
<1> SUFFICES ASSUME Init PROVE RInv
  OBVIOUS
<1>1. CachedIcaos = {} /\ Counting = {}
  BY DEF Init, CachedIcaos, Cached, Counting
<1>2. GaugeBooks
  BY <1>1, FS_EmptySet DEF Init, GaugeBooks
<1> QED
  BY <1>1, <1>2, InitIInv
  DEF Init, RInv, IcaosAgree, Announced, CopyAnnounced

(* handleNewUpdate starts with the low-rate queue.                         *)
LEMMA NewStartsLow ==
    Len(handleNewUpdate) \in Nat \ {0} /\ handleNewUpdate[1] = "low"
BY DEF handleNewUpdate, Only

(* Publishing the head of a list either announces or keeps what is to do.  *)
LEMMA EmitKeepsLow ==
    ASSUME NEW S, NEW s \in Seq(S), s # << >>, Head(s) # "low",
           NEW k \in 1 .. Len(s), s[k] = "low"
    PROVE  /\ Len(s) # 1
           /\ k - 1 \in 1 .. Len(Tail(s)) /\ Tail(s)[k - 1] = "low"
OBVIOUS


(* A worker's step leaves the locals of the others alone.                  *)
LEMMA OthersUntouched ==
    ASSUME TypeOK, NEW v \in Workers, WorkerStep(v),
           NEW w \in Workers, w # v
    PROVE  /\ pc'[w] = pc[w] /\ update'[w] = update[w] /\ item'[w] = item[w]
           /\ out'[w] = out[w] /\ todo'[w] = todo[w]
<1> USE DEF Goto, TypeOK
<1>1. CASE Receive(v)
  BY <1>1 DEF Receive
<1>2. CASE EndWorker(v) \/ LockIcao(v) \/ LoadSample(v) \/ Reject(v)
           \/ CountNew(v)
  BY <1>2 DEF EndWorker, LockIcao, LoadSample, Reject, CountNew
<1>3. CASE StoreNew(v) \/ StoreMerged(v)
  <2>1. PICK h : todo' = [todo EXCEPT ![v] = h]
    BY <1>3 DEF StoreNew, StoreMerged
  <2>2. PICK r : out' = [out EXCEPT ![v] = r]
    BY <1>3 DEF StoreNew, StoreMerged, StoreAndUnlock
  <2>3. PICK l : pc' = [pc EXCEPT ![v] = l]
    BY <1>3 DEF StoreNew, StoreMerged
  <2>4. update' = update /\ item' = item
    BY <1>3 DEF StoreNew, StoreMerged, StoreAndUnlock
  <2> QED
    BY <2>1, <2>2, <2>3, <2>4
<1>4. CASE Publish(v) \/ AddToStream(v)
  BY <1>4 DEF Publish, AddToStream, EmitNext
<1> QED
  BY <1>1, <1>2, <1>3, <1>4 DEF WorkerStep

(* Every step that is not a worker's leaves all workers alone.             *)
LEMMA WorkersUntouched ==
    ASSUME [Next]_vars, \A v \in Workers : ~ WorkerStep(v)
    PROVE  UNCHANGED <<workerVars, sent>> /\ (natsOpen' => natsOpen)
<1> USE DEF cacheVars, envVars
<1>1. CASE UNCHANGED vars
  BY <1>1 DEF vars
<1>2. CASE \/ \E u \in Updates : DeliverUpdate(u)
           \/ DeliverJunk \/ Signal \/ Listener
  BY <1>2 DEF DeliverUpdate, DeliverJunk, Deliver, Signal, Listener,
              ListenerDone, CloseNats
<1>3. CASE DrainStream \/ Sweeper \/ \E j \in Icaos : GrowOld(j)
  BY <1>3 DEF DrainStream, Sweeper, SweepDecide, SweepDelete, GrowOld
<1> QED
  BY <1>1, <1>2, <1>3 DEF Next, Terminated

(* An announcement made or owed stays made or owed: only publishing        *)
(* removes "low" from a worker's list.                                     *)
LEMMA AnnouncedStable ==
    ASSUME IInv, IcaosAgree, [Next]_vars, NEW i \in Icaos, AnnouncedOf(i)
    PROVE  AnnouncedOf(i)'
<1>1. CASE \A v \in Workers : ~ WorkerStep(v)
  BY <1>1, WorkersUntouched DEF AnnouncedOf, workerVars
<1>2. ASSUME NEW v \in Workers, WorkerStep(v) PROVE AnnouncedOf(i)'
  <2>1. sent \subseteq sent' /\ natsOpen' = natsOpen
    BY <1>2 DEF WorkerStep, Receive, EndWorker, LockIcao, LoadSample,
                StoreNew, StoreMerged, StoreAndUnlock, Reject, CountNew,
                Publish, AddToStream, envVars
  <2>2. CASE ~ natsOpen \/ \E m \in sent : m.to = "low" /\ m.loc.icao = i
    BY <2>1, <2>2 DEF AnnouncedOf
  <2>3. ASSUME NEW w \in Workers, pc[w] \in {"count", "emit"},
               NEW k \in 1 .. Len(todo[w]), todo[w][k] = "low",
               update[w].icao = i, natsOpen
        PROVE  AnnouncedOf(i)'
    <3>1. CASE w # v
      <4>1. /\ pc'[w] = pc[w] /\ update'[w] = update[w]
            /\ todo'[w] = todo[w]
        BY <1>2, <3>1, OthersUntouched DEF IInv
      <4> QED
        BY <2>3, <4>1 DEF AnnouncedOf
    <3>2. CASE w = v /\ CountNew(w)
      <4>1. pc'[w] = "emit" /\ UNCHANGED <<update, todo>>
        BY <3>2 DEF CountNew, Goto, IInv, TypeOK
      <4> QED
        BY <2>3, <4>1 DEF AnnouncedOf
    <3>3. CASE w = v /\ (Publish(w) \/ AddToStream(w))
      <4>1. /\ todo[w] \in Seq(Queues \union Streams) /\ todo[w] # << >>
            /\ update' = update /\ pc[w] = "emit"
            /\ todo'[w] = Tail(todo[w])
            /\ pc'[w] = IF Len(todo[w]) = 1 THEN "idle" ELSE "emit"
        BY <3>3 DEF Publish, AddToStream, EmitNext, Goto, IInv, TypeOK,
                    LocalsSet
      <4>2. CASE Head(todo[w]) = "low"
        <5>1. AddToStream(w) => Head(todo[w]) \in {"ds_low", "ds_high"}
          BY Zenon DEF AddToStream
        <5>2. Publish(w)
          BY <3>3, <4>2, <5>1
        <5>3. sent' = sent \union {[to |-> "low", loc |-> out[w]]}
          BY <2>3, <4>2, <5>2 DEF Publish
        <5>4. out[w].icao = i
          BY <2>3, <4>1 DEF IcaosAgree
        <5> DEFINE m == [to |-> "low", loc |-> out[w]]
        <5>5. m \in sent' /\ m.to = "low" /\ m.loc.icao = i
          BY <5>3, <5>4
        <5> HIDE DEF m
        <5> QED
          BY <5>5 DEF AnnouncedOf
      <4>3. CASE Head(todo[w]) # "low"
        <5>1. /\ Len(todo[w]) # 1
              /\ k - 1 \in 1 .. Len(Tail(todo[w]))
              /\ Tail(todo[w])[k - 1] = "low"
          BY <2>3, <4>1, <4>3, EmitKeepsLow
        <5> QED
          BY <2>3, <4>1, <5>1 DEF AnnouncedOf
      <4> QED
        BY <4>2, <4>3
    <3> QED
      BY <1>2, <2>3, <3>1, <3>2, <3>3
      DEF WorkerStep, Receive, EndWorker, LockIcao, LoadSample, StoreNew,
          StoreMerged, Reject
  <2> QED
    BY <2>2, <2>3 DEF AnnouncedOf
<1> QED
  BY <1>1, <1>2

(* Merge keeps the ICAO of the record it merges into.                      *)
LEMMA MergeIcao ==
    ASSUME NEW p, NEW n
    PROVE  Merge(p, n).icao = p.icao
BY DEF Merge

LEMMA StepIcaosAgree ==
    ASSUME IInv, IInv', IcaosAgree, [Next]_vars
    PROVE  IcaosAgree'
<1>1. CASE \A v \in Workers : ~ WorkerStep(v)
  <2>1. /\ \A i \in Icaos : samples'[i] = samples[i] \/ samples'[i] = None
        /\ UNCHANGED workerVars
    <3>1. CASE Sweeper
      BY <3>1 DEF Sweeper, SweepDecide, SweepDelete, IInv, TypeOK
    <3>2. CASE ~ Sweeper
      BY <1>1, <3>2
      DEF Next, vars, DeliverUpdate, DeliverJunk, Deliver, Signal, Listener,
          ListenerDone, CloseNats, DrainStream, GrowOld, Terminated, cacheVars
    <3> QED
      BY <3>1, <3>2
  <2> QED
    BY <2>1 DEF IcaosAgree, CachedIcaos, Cached, workerVars
<1>2. ASSUME NEW v \in Workers, WorkerStep(v) PROVE IcaosAgree'
  <2>1. ASSUME NEW w \in Workers, w # v
        PROVE  /\ pc'[w] = pc[w] /\ update'[w] = update[w]
               /\ item'[w] = item[w] /\ out'[w] = out[w]
    BY <1>2, <2>1, OthersUntouched DEF IInv
  <2>2. CASE StoreNew(v) \/ StoreMerged(v)
    <3>1. PICK rec : /\ rec.icao = update[v].icao
                     /\ \E us : StoreAndUnlock(v, rec, us)
      <4>1. CASE StoreNew(v)
        BY <4>1 DEF StoreNew
      <4>2. CASE StoreMerged(v)
        BY <4>2, MergeIcao DEF StoreMerged, IcaosAgree
      <4> QED
        BY <2>2, <4>1, <4>2
    <3>2. /\ samples' = [samples EXCEPT ![update[v].icao] = rec]
          /\ out' = [out EXCEPT ![v] = rec]
          /\ update' = update /\ item' = item
      BY <3>1 DEF StoreAndUnlock
    <3>3. pc'[v] \in {"count", "emit"}
      BY <2>2 DEF StoreNew, StoreMerged, Goto, IInv, TypeOK
    <3>4. \A i \in CachedIcaos' : samples'[i].icao = i
      BY <3>1, <3>2 DEF IcaosAgree, CachedIcaos, Cached, IInv, TypeOK
    <3> QED
      BY <2>1, <3>1, <3>2, <3>3, <3>4 DEF IcaosAgree, IInv, TypeOK
  <2>3. CASE ~ StoreNew(v) /\ ~ StoreMerged(v)
    <3>1. samples' = samples /\ out' = out
      BY <1>2, <2>3 DEF WorkerStep, Receive, EndWorker, LockIcao, LoadSample,
                        Reject, CountNew, Publish, AddToStream, cacheVars
    <3>2. CASE LoadSample(v)
      <4>1. /\ pc'[v] = "store" /\ item'[v] = samples[update[v].icao]
            /\ update' = update
        BY <3>2 DEF LoadSample, Goto, IInv, TypeOK
      <4>2. update[v].icao \in Icaos
        BY <3>2, RouterAssumption
        DEF IInv, TypeOK, LocalsSet, PlaneLocation, LoadSample
      <4>3. item'[v] # None => item'[v].icao = update'[v].icao
        BY <4>1, <4>2 DEF IcaosAgree, CachedIcaos, Cached
      <4> QED
        BY <2>1, <3>1, <4>1, <4>3 DEF IcaosAgree, CachedIcaos, Cached
    <3>3. CASE CountNew(v) \/ Publish(v) \/ AddToStream(v)
      <4>1. /\ pc[v] \in {"count", "emit"} /\ pc'[v] # "store"
            /\ update' = update
        BY <3>3 DEF CountNew, Publish, AddToStream, EmitNext, Goto, IInv,
                    TypeOK
      <4> QED
        BY <2>1, <3>1, <4>1 DEF IcaosAgree, CachedIcaos, Cached
    <3>4. CASE Receive(v) \/ EndWorker(v) \/ LockIcao(v) \/ Reject(v)
      <4>1. pc'[v] \notin {"store", "count", "emit"}
        BY <3>4 DEF Receive, EndWorker, LockIcao, Reject, Goto, IInv, TypeOK
      <4> QED
        BY <2>1, <3>1, <4>1 DEF IcaosAgree, CachedIcaos, Cached
    <3> QED
      BY <1>2, <2>3, <3>2, <3>3, <3>4 DEF WorkerStep
  <2> QED
    BY <2>2, <2>3
<1> QED
  BY <1>1, <1>2

(* A sample is only stored for an aircraft whose announcement is made or   *)
(* owed: by the worker that stores it, or since it was loaded.             *)
LEMMA StepAnnounced ==
    ASSUME RInv, IInv', [Next]_vars
    PROVE  Announced' /\ CopyAnnounced'
<1>1. ASSUME NEW i \in Icaos, AnnouncedOf(i) PROVE AnnouncedOf(i)'
  BY <1>1, AnnouncedStable DEF RInv
<1>2. ASSUME NEW i \in CachedIcaos' PROVE AnnouncedOf(i)'
  <2>1. CASE i \in CachedIcaos
    BY <1>1, <2>1, AnnouncedIsOf DEF RInv, CachedIcaos
  <2>2. CASE i \notin CachedIcaos
    <3>1. i \in Icaos /\ samples[i] = None /\ samples'[i] # None
      BY <1>2, <2>2 DEF CachedIcaos, Cached
    <3>2. PICK w \in Workers : StoreNew(w) \/ StoreMerged(w)
      <4>1. CASE Sweeper
        BY <3>1, <4>1 DEF Sweeper, SweepDecide, SweepDelete, RInv, IInv,
                          TypeOK
      <4> QED
        BY <3>1, <4>1
        DEF Next, vars, DeliverUpdate, DeliverJunk, Deliver, Signal, Listener,
            ListenerDone, CloseNats, DrainStream, GrowOld, Terminated,
            cacheVars, WorkerStep, Receive, EndWorker, LockIcao, LoadSample,
            Reject, CountNew, Publish, AddToStream
    <3>3. i = update[w].icao /\ update' = update
      BY <3>1, <3>2 DEF StoreNew, StoreMerged, StoreAndUnlock, RInv, IInv,
                        TypeOK
    <3>4. CASE StoreNew(w)
      <4>1. pc'[w] = "count" /\ todo'[w] = handleNewUpdate
        BY <3>4 DEF StoreNew, Goto, RInv, IInv, TypeOK
      <4> QED
        BY <3>3, <4>1, NewStartsLow DEF AnnouncedOf
    <3>5. CASE StoreMerged(w)
      BY <1>1, <3>1, <3>3, <3>5 DEF StoreMerged, RInv, CopyAnnounced
    <3> QED
      BY <3>2, <3>4, <3>5
  <2> QED
    BY <2>1, <2>2
<1>3. ASSUME NEW w \in Workers, pc'[w] = "store", item'[w] # None
      PROVE  AnnouncedOf(update[w].icao)'
  <2>1. CASE LoadSample(w)
    <3>1. /\ item'[w] = samples[update[w].icao] /\ update' = update
          /\ samples' = samples
      BY <2>1 DEF LoadSample, RInv, IInv, TypeOK, cacheVars
    <3>2. update[w].icao \in Icaos
      BY <2>1, RouterAssumption
      DEF RInv, IInv, TypeOK, LocalsSet, PlaneLocation, LoadSample
    <3> QED
      BY <1>2, <1>3, <3>1, <3>2 DEF CachedIcaos, Cached
  <2>2. CASE ~ LoadSample(w)
    <3>1. pc[w] = "store" /\ item'[w] = item[w] /\ update'[w] = update[w]
      <4>1. CASE \A v \in Workers : ~ WorkerStep(v)
        BY <1>3, <4>1, WorkersUntouched DEF workerVars
      <4>2. ASSUME NEW v \in Workers, WorkerStep(v), v # w
            PROVE  /\ pc[w] = "store" /\ item'[w] = item[w]
                   /\ update'[w] = update[w]
        BY <1>3, <4>2, OthersUntouched DEF RInv, IInv
      <4>3. ~ WorkerStep(w)
        BY <1>3, <2>2
        DEF WorkerStep, Receive, EndWorker, LockIcao, StoreNew, StoreMerged,
            Reject, CountNew, Publish, AddToStream, EmitNext, Goto, RInv,
            IInv, TypeOK
      <4> QED
        BY <4>1, <4>2, <4>3
    <3>2. update[w].icao \in Icaos
      BY <3>1, RouterAssumption
      DEF RInv, IInv, TypeOK, LocalsSet, PlaneLocation
    <3> QED
      BY <1>1, <1>3, <3>1, <3>2 DEF RInv, CopyAnnounced
  <2> QED
    BY <2>1, <2>2
<1> QED
  BY <1>2, <1>3 DEF Announced, CopyAnnounced, AnnouncedOf

(* What a step does to the cache and to the workers that have still to     *)
(* count: the gauge, Counting and the cache move one at a time.            *)
LEMMA StepGauge ==
    ASSUME RInv, IInv', [Next]_vars
    PROVE  GaugeBooks'
<1> DEFINE Due == IF evicting # None THEN 1 ELSE 0
<1>1. /\ IsFiniteSet(CachedIcaos) /\ IsFiniteSet(Counting)
      /\ Cardinality(CachedIcaos) \in Nat /\ Cardinality(Counting) \in Nat
      /\ Due \in 0 .. 1 /\ cacheEntries \in Int
      /\ cacheEntries + Cardinality(Counting) + Due
            <= Cardinality(CachedIcaos)
  BY FS_CardinalityType DEF RInv, GaugeBooks, IInv, TypeOK
<1> HIDE DEF Due
<1>2. ASSUME UNCHANGED <<samples, pc, evicting, cacheEntries>>
      PROVE  GaugeBooks'
  BY <1>2 DEF RInv, GaugeBooks, CachedIcaos, Cached, Counting
<1>3. ASSUME NEW w \in Workers, WorkerStep(w) PROVE GaugeBooks'
  <2>1. \A v \in Workers \ {w} : pc'[v] = pc[v]
    BY <1>3, OthersUntouched DEF RInv, IInv
  <2>2. evicting' = evicting /\ Due' = Due
    BY <1>3 DEF WorkerStep, Receive, EndWorker, LockIcao, LoadSample,
                StoreNew, StoreMerged, StoreAndUnlock, Reject, CountNew,
                Publish, AddToStream, cacheVars, Due
  <2>3. CASE StoreNew(w)
    <3> DEFINE i == update[w].icao
    <3>1. /\ i \in Icaos /\ samples[i] = None
          /\ samples' = [samples EXCEPT ![i] = update[w]]
          /\ update[w] # None
          /\ pc[w] = "store" /\ pc'[w] = "count"
          /\ cacheEntries' = cacheEntries
      BY <2>3, RouterAssumption
      DEF StoreNew, StoreAndUnlock, Goto, RInv, IInv, TypeOK, LocalsSet,
          PlaneLocation, CopyIsCurrent
    <3> HIDE DEF i
    <3>2. /\ CachedIcaos' = CachedIcaos \union {i} /\ i \notin CachedIcaos
          /\ Counting' = Counting \union {w} /\ w \notin Counting
      BY <2>1, <3>1 DEF CachedIcaos, Cached, Counting, RInv, IInv, TypeOK
    <3>3. /\ IsFiniteSet(CachedIcaos') /\ IsFiniteSet(Counting')
          /\ Cardinality(CachedIcaos') = Cardinality(CachedIcaos) + 1
          /\ Cardinality(Counting') = Cardinality(Counting) + 1
      BY <1>1, <3>2, FS_AddElement
    <3>4. cacheEntries' + Cardinality(Counting') + Due'
            <= Cardinality(CachedIcaos')
      BY <1>1, <2>2, <3>1, <3>3
    <3> QED
      BY <2>2, <3>2, <3>3, <3>4 DEF RInv, GaugeBooks, Due
  <2>4. CASE StoreMerged(w)
    <3> DEFINE i == update[w].icao
               rec == Merge(item[w], update[w])
    <3>1. /\ i \in Icaos /\ rec # None
      <4>1. /\ item[w] \in PlaneLocation /\ update[w] \in PlaneLocation
            /\ update[w].icao \in Icaos
        <5>1. pc[w] = "store" /\ item[w] # None
          BY <2>4 DEF StoreMerged
        <5>2. item[w] \in PlaneLocation
          BY <5>1 DEF RInv, IInv, TypeOK
        <5> QED
          BY <5>1, <5>2, UpdateHasIcao DEF RInv
      <4>2. rec \in PlaneLocation
        BY <4>1, MergeType
      <4> QED
        BY <4>1, <4>2, RouterAssumption
    <3>2. /\ samples' = [samples EXCEPT ![i] = rec]
          /\ pc[w] = "store" /\ pc'[w] = "emit"
          /\ cacheEntries' = cacheEntries
      BY <2>4 DEF StoreMerged, StoreAndUnlock, Goto, RInv, IInv, TypeOK
    <3> HIDE DEF i, rec
    <3>3. CachedIcaos' = CachedIcaos \union {i} /\ Counting' = Counting
      BY <2>1, <3>1, <3>2 DEF CachedIcaos, Cached, Counting, RInv, IInv,
                              TypeOK
    <3>4. /\ IsFiniteSet(CachedIcaos')
          /\ Cardinality(CachedIcaos') \in Nat
          /\ Cardinality(CachedIcaos') >= Cardinality(CachedIcaos)
      <4>1. CASE i \in CachedIcaos
        <5>1. CachedIcaos' = CachedIcaos
          BY <3>3, <4>1
        <5> QED
          BY <1>1, <5>1
      <4>2. CASE i \notin CachedIcaos
        <5>1. Cardinality(CachedIcaos') = Cardinality(CachedIcaos) + 1
          BY <1>1, <3>3, <4>2, FS_AddElement
        <5>2. IsFiniteSet(CachedIcaos')
          BY <1>1, <3>3, FS_AddElement
        <5> QED
          BY <1>1, <5>1, <5>2
      <4> QED
        BY <4>1, <4>2
    <3>5. cacheEntries' + Cardinality(Counting') + Due'
            <= Cardinality(CachedIcaos')
      BY <1>1, <2>2, <3>2, <3>3, <3>4
    <3> QED
      BY <1>1, <2>2, <3>3, <3>4, <3>5 DEF RInv, GaugeBooks, Due
  <2>5. CASE CountNew(w)
    <3>1. /\ pc[w] = "count" /\ pc'[w] = "emit" /\ samples' = samples
          /\ cacheEntries' = cacheEntries + 1
      BY <2>5 DEF CountNew, Goto, RInv, IInv, TypeOK
    <3>2. /\ CachedIcaos' = CachedIcaos
          /\ Counting' = Counting \ {w} /\ w \in Counting
      BY <2>1, <3>1 DEF CachedIcaos, Cached, Counting
    <3>3. /\ IsFiniteSet(Counting')
          /\ Cardinality(Counting') = Cardinality(Counting) - 1
      BY <1>1, <3>2, FS_RemoveElement
    <3>4. cacheEntries' + Cardinality(Counting') + Due'
            <= Cardinality(CachedIcaos')
      BY <1>1, <2>2, <3>1, <3>2, <3>3
    <3> QED
      BY <1>1, <2>2, <3>2, <3>3, <3>4 DEF RInv, GaugeBooks, Due
  <2>6. CASE ~ StoreNew(w) /\ ~ StoreMerged(w) /\ ~ CountNew(w)
    <3>1. /\ samples' = samples /\ cacheEntries' = cacheEntries
          /\ pc[w] # "count" /\ pc'[w] # "count"
      <4>1. CASE Receive(w)
        BY <4>1 DEF Receive, Goto, cacheVars, RInv, IInv, TypeOK
      <4>2. CASE EndWorker(w) \/ LockIcao(w) \/ LoadSample(w) \/ Reject(w)
        BY <4>2 DEF EndWorker, LockIcao, LoadSample, Reject, Goto, cacheVars,
                    RInv, IInv, TypeOK
      <4>3. CASE Publish(w) \/ AddToStream(w)
        BY <4>3 DEF Publish, AddToStream, EmitNext, Goto, cacheVars, RInv,
                    IInv, TypeOK
      <4> QED
        BY <1>3, <2>6, <4>1, <4>2, <4>3 DEF WorkerStep
    <3>2. CachedIcaos' = CachedIcaos /\ Counting' = Counting
      BY <2>1, <3>1 DEF CachedIcaos, Cached, Counting
    <3> QED
      BY <2>2, <3>1, <3>2 DEF RInv, GaugeBooks
  <2> QED
    BY <2>3, <2>4, <2>5, <2>6
<1>4. ASSUME NEW i \in Icaos, SweepDecide(i) PROVE GaugeBooks'
  <2>1. /\ samples' = samples /\ pc' = pc /\ i \in CachedIcaos
        /\ evicting = None /\ evicting' = i
        /\ cacheEntries' = cacheEntries - 1
    BY <1>4 DEF SweepDecide, workerVars, CachedIcaos
  <2>2. CachedIcaos' = CachedIcaos /\ Counting' = Counting
    BY <2>1 DEF CachedIcaos, Cached, Counting
  <2>3. Due = 0 /\ Due' \in 0 .. 1
    BY <2>1 DEF Due
  <2>4. cacheEntries' + Cardinality(Counting') + Due'
          <= Cardinality(CachedIcaos')
    BY <1>1, <2>1, <2>2, <2>3
  <2> QED
    BY <1>1, <2>1, <2>2, <2>4 DEF GaugeBooks, Due
<1>5. CASE SweepDelete
  <2>1. /\ evicting # None /\ evicting' = None /\ pc' = pc
        /\ samples' = [samples EXCEPT ![evicting] = None]
        /\ cacheEntries' = cacheEntries
        /\ evicting \in CachedIcaos
    BY <1>5 DEF SweepDelete, workerVars, RInv, GaugeBooks
  <2>2. CachedIcaos' = CachedIcaos \ {evicting} /\ Counting' = Counting
    BY <2>1 DEF CachedIcaos, Cached, Counting, RInv, IInv, TypeOK
  <2>3. /\ IsFiniteSet(CachedIcaos')
        /\ Cardinality(CachedIcaos') = Cardinality(CachedIcaos) - 1
    BY <1>1, <2>1, <2>2, FS_RemoveElement
  <2>4. Due = 1 /\ Due' = 0
    BY <2>1 DEF Due
  <2>5. cacheEntries' + Cardinality(Counting') + Due'
          <= Cardinality(CachedIcaos')
    BY <1>1, <2>1, <2>2, <2>3, <2>4
  <2> QED
    BY <1>1, <2>1, <2>2, <2>3, <2>5 DEF GaugeBooks, Due
<1> QED
  BY <1>2, <1>3, <1>4, <1>5
  DEF Next, vars, DeliverUpdate, DeliverJunk, Deliver, Signal, Listener,
      ListenerDone, CloseNats, DrainStream, GrowOld, Sweeper, Terminated,
      cacheVars, workerVars

LEMMA StepRInv == RInv /\ [Next]_vars => RInv'
BY StepIInv, StepIcaosAgree, StepAnnounced, StepGauge DEF RInv

(* Whatever the workers, the sweeper and a shutdown do in which order, an  *)
(* aircraft in pw_router's cache has been announced on the low-rate feed   *)
(* or is about to be, unless the connection is closed, and the gauge never *)
(* claims more aircraft than are cached.                                   *)
THEOREM CacheIsReported == Spec => []CacheReported
<1>1. RInv => CacheReported
  <2> SUFFICES ASSUME RInv PROVE GaugeNotAbove /\ Announced
    BY DEF CacheReported
  <2>1. /\ Cardinality(CachedIcaos) \in Nat /\ Cardinality(Counting) \in Nat
        /\ cacheEntries \in Int
    BY FS_CardinalityType DEF RInv, GaugeBooks, IInv, TypeOK
  <2> QED
    BY <2>1 DEF RInv, GaugeBooks, GaugeNotAbove
<1> QED
  BY InitRInv, StepRInv, <1>1, PTL DEF Spec
=============================================================================
