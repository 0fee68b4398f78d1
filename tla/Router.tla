------------------------------- MODULE Router -------------------------------
(***************************************************************************)
(* pw_router: workers take location updates off one channel, merge each    *)
(* into the record of its aircraft under a per-ICAO mutex, and publish the *)
(* merged record after releasing it.  A sweeper forgets old records at     *)
(* the same time, without taking that mutex.  A signal shuts it all down.  *)
(*                                                                         *)
(* Sources: cmd/pw_router/worker.go, main.go, natsmq.go, clickhouse.go.    *)
(* syncSamples is used here through its operations; what goes on inside    *)
(* them is the subject of module ForgetfulMap.                             *)
(***************************************************************************)
EXTENDS PlaneLocations, Sequences, FiniteSets

CONSTANTS
    Workers,        \* the num-workers goroutines running worker.run
    Updates,        \* the updates NATS delivers, each once, in any order
    Junk,           \* a message handleMsg drops: bad JSON, no ICAO, Removed
    MaxJunk,        \* bound: how many of those arrive
    ChanCap,        \* capacity of incomingMessages (1000 in the code)
    Spread,         \* --spread-updates
    ClickHouse,     \* --clickhouse
    DsCap,          \* capacity of a DataStream channel (1000 and 2000)
    MaxSweeps,      \* bound: evictions the sweeper decides on
    None            \* no worker, no record

ASSUME RouterAssumption ==
    /\ Updates \subseteq PlaneLocation
    /\ None \notin Workers \union PlaneLocation
    /\ Junk \notin PlaneLocation
    /\ ChanCap \in Nat \ {0} /\ DsCap \in Nat \ {0}
    /\ MaxSweeps \in Nat /\ MaxJunk \in Nat
    /\ Spread \in BOOLEAN /\ ClickHouse \in BOOLEAN

VARIABLES
    undelivered,    \* updates NATS has still to deliver
    junkLeft,       \* droppable messages NATS may still deliver
    incoming,       \* the channel incomingMessages
    listener,       \* the goroutine of natsIoRouter.listen
    signal,         \* progress of the goroutine that waits for SIGTERM
    natsOpen,       \* the outgoing connection is open
    samples,        \* syncSamples: icao -> record or None
    old,            \* the sample is older than update-age
    evicting,       \* the key sweep() has decided to evict, or None
    sweepsLeft,
    cacheEntries,   \* the gauge pw_router_cache_planes_count
    icaoLocks,      \* holder of each per-ICAO mutex
    pc, update, item, out, todo,   \* locals of each worker
    sent,           \* what was published where
    dsLow, dsHigh,  \* the channels of the DataStream
    stored,         \* rows handed to ClickHouse
    fed             \* history: the updates merged into each sample

envVars    == <<undelivered, junkLeft, incoming, listener, signal, natsOpen>>
cacheVars  == <<samples, old, evicting, sweepsLeft, cacheEntries, fed>>
dsVars     == <<dsLow, dsHigh, stored>>
workerVars == <<pc, update, item, out, todo>>
vars == <<envVars, cacheVars, icaoLocks, workerVars, sent, dsVars>>

-----------------------------------------------------------------------------
Queues == {"low", "high", "tile_low", "tile_high"}
Streams == {"ds_low", "ds_high"}

Only(c, s) == IF c THEN s ELSE << >>

(* Mutant: an aircraft seen first is published as an ordinary update.      *)
handleNewUpdateQuiet == <<"high">> \o Only(Spread, <<"tile_high">>)

(* What each of the three handlers emits, in order.  handleNewUpdate does  *)
(* not feed the DataStream.                                                *)
handleNewUpdate ==
    <<"low", "high">> \o Only(Spread, <<"tile_low", "tile_high">>)

handleSignificantUpdate ==
    <<"low", "high">> \o Only(Spread, <<"tile_low", "tile_high">>)
                      \o Only(ClickHouse, <<"ds_low">>)

handleInsignificantUpdate ==
    <<"high">> \o Only(Spread, <<"tile_high">>)
               \o Only(ClickHouse, <<"ds_high">>)

Cached(i) == samples[i] # None

CachedIcaos == {i \in Icaos : Cached(i)}

-----------------------------------------------------------------------------
Init ==
    /\ undelivered = Updates
    /\ junkLeft = MaxJunk
    /\ incoming = << >>
    /\ listener = "run"
    /\ signal = "none"
    /\ natsOpen = TRUE
    /\ samples = [i \in Icaos |-> None]
    /\ old = [i \in Icaos |-> FALSE]
    /\ evicting = None
    /\ sweepsLeft = MaxSweeps
    /\ cacheEntries = 0
    /\ icaoLocks = [i \in Icaos |-> None]
    /\ pc = [w \in Workers |-> "idle"]
    /\ update = [w \in Workers |-> None]
    /\ item = [w \in Workers |-> None]
    /\ out = [w \in Workers |-> None]
    /\ todo = [w \in Workers |-> << >>]
    /\ sent = {}
    /\ dsLow = << >> /\ dsHigh = << >> /\ stored = {}
    /\ fed = [i \in Icaos |-> {}]

-----------------------------------------------------------------------------
(* The listener goroutine: NATS subscription to incomingMessages.          *)

Deliver(m) ==
    /\ listener = "run"
    /\ Len(incoming) < ChanCap
    /\ incoming' = Append(incoming, m)
    /\ UNCHANGED <<listener, signal, natsOpen, cacheVars, icaoLocks,
                   workerVars, sent, dsVars>>

DeliverUpdate(u) ==
    /\ u \in undelivered
    /\ Deliver(u)
    /\ undelivered' = undelivered \ {u}
    /\ UNCHANGED junkLeft

DeliverJunk ==
    /\ junkLeft > 0
    /\ Deliver(Junk)
    /\ junkLeft' = junkLeft - 1
    /\ UNCHANGED undelivered

(* Shutdown: the signal goroutine hands doneChan to the listener, which    *)
(* closes the connection in a goroutine of its own; then the context ends. *)
Signal ==
    /\ signal = "none"
    /\ signal' = "closing"
    /\ UNCHANGED <<undelivered, junkLeft, incoming, listener, natsOpen,
                   cacheVars, icaoLocks, workerVars, sent, dsVars>>

ListenerDone ==
    /\ signal = "closing"
    /\ listener = "run"
    /\ listener' = "draining"
    /\ signal' = "cancelled"
    /\ UNCHANGED <<undelivered, junkLeft, incoming, natsOpen, cacheVars,
                   icaoLocks, workerVars, sent, dsVars>>

CloseNats ==
    /\ listener = "draining"
    /\ listener' = "done"
    /\ natsOpen' = FALSE
    /\ UNCHANGED <<undelivered, junkLeft, incoming, signal, cacheVars,
                   icaoLocks, workerVars, sent, dsVars>>

-----------------------------------------------------------------------------
(* worker.run and handleMsg.                                               *)

Goto(w, l) == pc' = [pc EXCEPT ![w] = l]

(* Mutant: handleMsg goes on with a message it should have dropped.        *)
ReceiveUnfiltered(w) ==
    /\ pc[w] = "idle"
    /\ incoming # << >>
    /\ incoming' = Tail(incoming)
    /\ update' = [update EXCEPT ![w] = Head(incoming)]
    /\ Goto(w, "lock")
    /\ UNCHANGED <<undelivered, junkLeft, listener, signal, natsOpen,
                   cacheVars, icaoLocks, item, out, todo, sent, dsVars>>

(* run: the select takes a message.  A droppable one ends handleMsg early. *)
Receive(w) ==
    /\ pc[w] = "idle"
    /\ incoming # << >>
    /\ incoming' = Tail(incoming)
    /\ IF Head(incoming) = Junk
       THEN UNCHANGED <<pc, update>>
       ELSE /\ update' = [update EXCEPT ![w] = Head(incoming)]
            /\ Goto(w, "lock")
    /\ UNCHANGED <<undelivered, junkLeft, listener, signal, natsOpen,
                   cacheVars, icaoLocks, item, out, todo, sent, dsVars>>

(* run: the select takes ctx.Done().                                       *)
EndWorker(w) ==
    /\ pc[w] = "idle"
    /\ signal = "cancelled"
    /\ Goto(w, "ended")
    /\ UNCHANGED <<envVars, cacheVars, icaoLocks, update, item, out, todo,
                   sent, dsVars>>

(* Mutant: no mutual exclusion per aircraft.                               *)
LockIcaoFree(w) ==
    /\ pc[w] = "lock"
    /\ icaoLocks' = [icaoLocks EXCEPT ![update[w].icao] = w]
    /\ Goto(w, "load")
    /\ UNCHANGED <<envVars, cacheVars, update, item, out, todo, sent, dsVars>>

LockIcao(w) ==
    /\ pc[w] = "lock"
    /\ icaoLocks[update[w].icao] = None
    /\ icaoLocks' = [icaoLocks EXCEPT ![update[w].icao] = w]
    /\ Goto(w, "load")
    /\ UNCHANGED <<envVars, cacheVars, update, item, out, todo, sent, dsVars>>

LoadSample(w) ==
    /\ pc[w] = "load"
    /\ item' = [item EXCEPT ![w] = samples[update[w].icao]]
    /\ Goto(w, "store")
    /\ UNCHANGED <<envVars, cacheVars, icaoLocks, update, out, todo, sent,
                   dsVars>>

(* Store, which also makes the sample young again, and Unlock.             *)
StoreAndUnlock(w, rec, updates) ==
    LET i == update[w].icao
    IN  /\ samples' = [samples EXCEPT ![i] = rec]
        /\ old' = [old EXCEPT ![i] = FALSE]
        /\ fed' = [fed EXCEPT ![i] = updates]
        /\ icaoLocks' = [icaoLocks EXCEPT ![i] = None]
        /\ out' = [out EXCEPT ![w] = rec]
        /\ UNCHANGED <<envVars, evicting, sweepsLeft, cacheEntries, update,
                       item, sent, dsVars>>

StoreNew(w) ==
    /\ pc[w] = "store"
    /\ item[w] = None
    /\ StoreAndUnlock(w, update[w], {update[w]})
    /\ todo' = [todo EXCEPT ![w] = handleNewUpdate]
    /\ Goto(w, "count")

StoreMerged(w) ==
    LET u == update[w]
    IN  /\ pc[w] = "store"
        /\ item[w] # None
        /\ IsLocationPossible(item[w], u)
        /\ StoreAndUnlock(w, Merge(item[w], u), fed[u.icao] \union {u})
        /\ todo' = [todo EXCEPT ![w] = IF isSignificant(item[w], u)
                                       THEN handleSignificantUpdate
                                       ELSE handleInsignificantUpdate]
        /\ Goto(w, "emit")

(* Mutant: the early return of an impossible update keeps the mutex.       *)
RejectKeepingLock(w) ==
    /\ pc[w] = "store"
    /\ item[w] # None
    /\ ~ IsLocationPossible(item[w], update[w])
    /\ Goto(w, "idle")
    /\ UNCHANGED <<envVars, cacheVars, icaoLocks, update, item, out, todo,
                   sent, dsVars>>

Reject(w) ==
    /\ pc[w] = "store"
    /\ item[w] # None
    /\ ~ IsLocationPossible(item[w], update[w])
    /\ icaoLocks' = [icaoLocks EXCEPT ![update[w].icao] = None]
    /\ Goto(w, "idle")
    /\ UNCHANGED <<envVars, cacheVars, update, item, out, todo, sent, dsVars>>

(* handleNewUpdate counts the aircraft after the mutex is released.        *)
CountNew(w) ==
    /\ pc[w] = "count"
    /\ cacheEntries' = cacheEntries + 1
    /\ Goto(w, "emit")
    /\ UNCHANGED <<envVars, samples, old, evicting, sweepsLeft, fed,
                   icaoLocks, update, item, out, todo, sent, dsVars>>

EmitNext(w) ==
    /\ pc[w] = "emit"
    /\ todo' = [todo EXCEPT ![w] = Tail(todo[w])]
    /\ Goto(w, IF Len(todo[w]) = 1 THEN "idle" ELSE "emit")

(* publishLocationUpdate: an error is logged and the handler goes on.      *)
Publish(w) ==
    /\ EmitNext(w)
    /\ Head(todo[w]) \in Queues
    /\ sent' = IF natsOpen
               THEN sent \union {[to |-> Head(todo[w]), loc |-> out[w]]}
               ELSE sent
    /\ UNCHANGED <<envVars, cacheVars, icaoLocks, update, item, out, dsVars>>

(* AddLow and AddHigh block while the stream's channel is full.            *)
AddToStream(w) ==
    /\ EmitNext(w)
    /\ LET keep == Only(out[w].tag # "repeat", <<out[w]>>)
       IN  \/ /\ Head(todo[w]) = "ds_low"
              /\ Len(dsLow \o keep) <= DsCap
              /\ dsLow' = dsLow \o keep
              /\ UNCHANGED dsHigh
           \/ /\ Head(todo[w]) = "ds_high"
              /\ Len(dsHigh \o keep) <= DsCap
              /\ dsHigh' = dsHigh \o keep
              /\ UNCHANGED dsLow
    /\ UNCHANGED <<envVars, cacheVars, icaoLocks, update, item, out, sent,
                   stored>>

(* handleQueue: one goroutine per stream batches rows for ClickHouse.      *)
DrainStream ==
    /\ \/ /\ dsLow # << >>
          /\ stored' = stored \union {Head(dsLow)}
          /\ dsLow' = Tail(dsLow)
          /\ UNCHANGED dsHigh
       \/ /\ dsHigh # << >>
          /\ stored' = stored \union {Head(dsHigh)}
          /\ dsHigh' = Tail(dsHigh)
          /\ UNCHANGED dsLow
    /\ UNCHANGED <<envVars, cacheVars, icaoLocks, workerVars, sent>>

-----------------------------------------------------------------------------
(* The sweeper of syncSamples, with the router's pre-eviction action.      *)

GrowOld(i) ==
    /\ Cached(i) /\ ~ old[i]
    /\ sweepsLeft > 0
    /\ old' = [old EXCEPT ![i] = TRUE]
    /\ UNCHANGED <<envVars, samples, evicting, sweepsLeft, cacheEntries, fed,
                   icaoLocks, workerVars, sent, dsVars>>

(* Mutant: the pre-eviction action does not count the aircraft out.        *)
SweepDecideUncounted(i) ==
    /\ evicting = None
    /\ sweepsLeft > 0
    /\ Cached(i) /\ old[i]
    /\ evicting' = i
    /\ sweepsLeft' = sweepsLeft - 1
    /\ UNCHANGED <<envVars, samples, old, cacheEntries, fed, icaoLocks,
                   workerVars, sent, dsVars>>

SweepDecide(i) ==
    /\ evicting = None
    /\ sweepsLeft > 0
    /\ Cached(i) /\ old[i]
    /\ evicting' = i
    /\ cacheEntries' = cacheEntries - 1
    /\ sweepsLeft' = sweepsLeft - 1
    /\ UNCHANGED <<envVars, samples, old, fed, icaoLocks, workerVars, sent,
                   dsVars>>

(* Delete removes whatever the key holds by now.                           *)
SweepDelete ==
    /\ evicting # None
    /\ samples' = [samples EXCEPT ![evicting] = None]
    /\ old' = [old EXCEPT ![evicting] = FALSE]
    /\ evicting' = None
    /\ UNCHANGED <<envVars, sweepsLeft, cacheEntries, fed, icaoLocks,
                   workerVars, sent, dsVars>>

-----------------------------------------------------------------------------
WorkerStep(w) ==
    \/ Receive(w) \/ EndWorker(w)
    \/ LockIcao(w) \/ LoadSample(w)
    \/ StoreNew(w) \/ StoreMerged(w) \/ Reject(w)
    \/ CountNew(w) \/ Publish(w) \/ AddToStream(w)

Listener == ListenerDone \/ CloseNats

Sweeper == (\E i \in Icaos : SweepDecide(i)) \/ SweepDelete

Stopped ==
    /\ \A w \in Workers : pc[w] = "ended"
    /\ listener = "done"

(* wg.Wait() returns and run() ends: nothing is left to do.                *)
Terminated == Stopped /\ UNCHANGED vars

Next ==
    \/ \E u \in Updates : DeliverUpdate(u)
    \/ DeliverJunk
    \/ Signal
    \/ Listener
    \/ \E w \in Workers : WorkerStep(w)
    \/ DrainStream
    \/ \E i \in Icaos : GrowOld(i)
    \/ Sweeper
    \/ Terminated

Spec == Init /\ [][Next]_vars

(* Every goroutine the router starts is scheduled: the workers, the        *)
(* listener, the stream writers.  A Go mutex and a blocked channel send    *)
(* are served in turn, hence strong fairness for a worker waiting on one.  *)
(* The signal, the arrival of messages and ageing are not promised.        *)
Fairness ==
    /\ WF_vars(Listener)
    /\ WF_vars(DrainStream)
    /\ \A w \in Workers :
          /\ WF_vars(WorkerStep(w))
          /\ SF_vars(LockIcao(w))
          /\ SF_vars(AddToStream(w))

FairSpec == Spec /\ Fairness

-----------------------------------------------------------------------------
TypeOK ==
    /\ undelivered \subseteq Updates
    /\ junkLeft \in Nat
    /\ incoming \in Seq(Updates \union {Junk})
    /\ listener \in {"run", "draining", "done"}
    /\ signal \in {"none", "closing", "cancelled"}
    /\ natsOpen \in BOOLEAN
    /\ samples \in [Icaos -> PlaneLocation \union {None}]
    /\ old \in [Icaos -> BOOLEAN]
    /\ evicting \in Icaos \union {None}
    /\ sweepsLeft \in Nat
    /\ cacheEntries \in Int
    /\ icaoLocks \in [Icaos -> Workers \union {None}]
    /\ pc \in [Workers -> {"idle", "lock", "load", "store", "count",
                           "emit", "ended"}]
    /\ update \in [Workers -> Updates \union {None}]
    /\ item \in [Workers -> PlaneLocation \union {None}]
    /\ out \in [Workers -> PlaneLocation \union {None}]
    /\ todo \in [Workers -> Seq(Queues \union Streams)]
    /\ sent \subseteq [to : Queues, loc : PlaneLocation]
    /\ dsLow \in Seq(PlaneLocation) /\ dsHigh \in Seq(PlaneLocation)
    /\ stored \subseteq PlaneLocation
    /\ fed \in [Icaos -> SUBSET Updates]

(* No update a worker merged is lost: for every group of fields the sample *)
(* is at least as new as each update merged into it, although several      *)
(* workers merge updates of one aircraft and the sweeper deletes samples   *)
(* between the Load and the Store of handleMsg.  Squawk 0 may lag by the   *)
(* hold time.                                                              *)
NewestWins ==
    \A i \in CachedIcaos : \A u \in fed[i] : \A f \in Fields :
        (f \notin Unflagged => u.at[f].has) =>
            u.at[f].ts <= samples[i].at[f].ts
                          + (IF f = "Squawk" THEN SquawkHold ELSE 0)

(* While a sample stays cached, no group of its fields is ever replaced by *)
(* an older value, whatever the order in which workers store.              *)
NeverOlder ==
    [][\A i \in Icaos :
          Cached(i) /\ samples'[i] # None =>
              \A f \in Fields : samples'[i].at[f].ts >= samples[i].at[f].ts
      ]_vars

(* Each aircraft in the cache has been announced on the low-rate queue, or *)
(* a worker still has that to do, or the connection was closed first:      *)
(* subscribers of the low feed are never left unaware of an aircraft.      *)
Announced ==
    \A i \in CachedIcaos :
        \/ \E m \in sent : m.to = "low" /\ m.loc.icao = i
        \/ \E w \in Workers :
              /\ pc[w] \in {"count", "emit"}
              /\ \E k \in 1 .. Len(todo[w]) : todo[w][k] = "low"
              /\ update[w].icao = i
        \/ ~ natsOpen

(* The gauge never shows more aircraft than the cache holds: an aircraft   *)
(* is counted after it is stored and counted out before it is deleted.     *)
GaugeNotAbove == cacheEntries <= Cardinality(CachedIcaos)

(* What the router tells others of its cache: an aircraft in it has been   *)
(* announced unless the connection is closed, and the gauge does not claim *)
(* more aircraft than there are.                                           *)
CacheReported == Announced /\ GaugeNotAbove

(* After a signal every worker ends, and with it the process: no worker is *)
(* left behind on a mutex or on a full stream channel.                     *)
ShutdownCompletes == (signal # "none") ~> Stopped

(* Every update a worker takes off the channel is dealt with: the worker   *)
(* is eventually free again.                                               *)
WorkersComeBack ==
    \A w \in Workers : pc[w] = "lock" ~> pc[w] \in {"idle", "ended"}

=============================================================================
