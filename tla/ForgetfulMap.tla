---------------------------- MODULE ForgetfulMap ----------------------------
(***************************************************************************)
(* The maps that forget (ForgetfulSyncMap): the planes of the tracker, the *)
(* keys of the dedupe filter, the samples of the router, the list of the   *)
(* websocket broker.  An entry is a marble, which holds the time of the    *)
(* store and the value.  All maps of a process share one pool of marbles,  *)
(* marbleBag: Store takes marbles from it, Delete puts them back.  Any     *)
(* goroutine calls Load and Store; a sweeper per map deletes what is old.  *)
(*                                                                         *)
(* Source: lib/dedupe/forgetfulmap/map.go.  The steps are those in which   *)
(* memory that others see is read or written: sync.Map and sync.Pool are   *)
(* atomic, the fields of a marble are not protected.                       *)
(***************************************************************************)
EXTENDS Naturals, FiniteSets, Functions

CONSTANTS
    Maps, Keys,
    MapOf,          \* the map each key belongs to
    Marbles, Callers,
    MaxStores,      \* bound: calls of Store in all
    Nil

ASSUME ForgetfulMapAssumption ==
    /\ MapOf \in [Keys -> Maps]
    /\ Nil \notin Keys \union Marbles
    /\ MaxStores \in Nat

VARIABLES
    lookup,     \* the sync.Maps: the marble each key has
    bag,        \* marbleBag: how often it holds each marble
    marble,     \* each marble: the key its value was stored under, its age
    call,       \* what each caller is in the middle of
    sweep,      \* each sweeper: its step, its key and marble, what is left
    timer,      \* each map's time.Timer
    storesLeft

mapVars == <<lookup, bag, marble, call, sweep, timer, storesLeft>>

Call(op, k, x, raced) == [op |-> op, key |-> k, ptr |-> x, raced |-> raced]
Sweep(at, k, x, left) == [at |-> at, key |-> k, ptr |-> x, left |-> left]

Idle == Call("idle", Nil, Nil, FALSE)
Resting == Sweep("rest", Nil, Nil, {})

MapInit ==
    /\ lookup = [k \in Keys |-> Nil]
    /\ bag = [x \in Marbles |-> 0]
    /\ marble = [x \in Marbles |-> [key |-> Nil, old |-> FALSE]]
    /\ call = [c \in Callers |-> Idle]
    /\ sweep = [m \in Maps |-> Resting]
    /\ timer = [m \in Maps |-> "armed"]
    /\ storesLeft = MaxStores

-----------------------------------------------------------------------------
(* Memory nothing points to, which is what the allocator hands out.        *)
Unreachable(x) ==
    /\ bag[x] = 0
    /\ x \notin Range(lookup)
    /\ \A c \in Callers : call[c].ptr # x
    /\ \A m \in Maps : sweep[m].ptr # x

(* Store: marbleBag.Get, and the marble is filled.  Mutants: the pool      *)
(* hands a marble out and keeps it; the value is not written.              *)
StoreGetKeeps(c, k) ==
    /\ call[c].op = "idle"
    /\ storesLeft > 0
    /\ \E x \in Marbles :
          /\ bag[x] > 0 \/ Unreachable(x)
          /\ marble' = [marble EXCEPT ![x] = [key |-> k, old |-> FALSE]]
          /\ call' = [call EXCEPT ![c] = Call("store", k, x, FALSE)]
    /\ storesLeft' = storesLeft - 1
    /\ UNCHANGED <<lookup, bag, sweep, timer>>

StoreGetUnfilled(c, k) ==
    /\ call[c].op = "idle"
    /\ storesLeft > 0
    /\ \E x \in Marbles :
          /\ \/ bag[x] > 0 /\ bag' = [bag EXCEPT ![x] = @ - 1]
             \/ Unreachable(x) /\ UNCHANGED bag
          /\ call' = [call EXCEPT ![c] = Call("store", k, x, FALSE)]
    /\ storesLeft' = storesLeft - 1
    /\ UNCHANGED <<lookup, marble, sweep, timer>>

StoreGet(c, k) ==
    /\ call[c].op = "idle"
    /\ storesLeft > 0
    /\ \E x \in Marbles :
          /\ \/ bag[x] > 0 /\ bag' = [bag EXCEPT ![x] = @ - 1]
             \/ Unreachable(x) /\ UNCHANGED bag
          /\ marble' = [marble EXCEPT ![x] = [key |-> k, old |-> FALSE]]
          /\ call' = [call EXCEPT ![c] = Call("store", k, x, FALSE)]
    /\ storesLeft' = storesLeft - 1
    /\ UNCHANGED <<lookup, sweep, timer>>

(* Store: lookup.Store.                                                    *)
StoreKey(c) ==
    /\ call[c].op = "store"
    /\ lookup' = [lookup EXCEPT ![call[c].key] = call[c].ptr]
    /\ call' = [call EXCEPT ![c] = Idle]
    /\ UNCHANGED <<bag, marble, sweep, timer, storesLeft>>

(* A deletion has put the marble into the pool and not yet taken the key   *)
(* out of the map.                                                         *)
HalfDeleted(x) == \E m \in Maps : sweep[m].at = "delete" /\ sweep[m].ptr = x

(* Load: lookup.Load; Range reads its entries in the same two steps.       *)
LoadKey(c, k) ==
    /\ call[c].op = "idle"
    /\ lookup[k] # Nil
    /\ call' = [call EXCEPT ![c] =
                   Call("load", k, lookup[k], HalfDeleted(lookup[k]))]
    /\ UNCHANGED <<lookup, bag, marble, sweep, timer, storesLeft>>

(* Load: the value of the marble is read and returned.                     *)
LoadValue(c) ==
    /\ call[c].op = "load"
    /\ call' = [call EXCEPT ![c] = Idle]
    /\ UNCHANGED <<lookup, bag, marble, sweep, timer, storesLeft>>

-----------------------------------------------------------------------------
(* The timer fires: sweep starts to go through the map.                    *)
SweepStart(m) ==
    /\ timer[m] = "armed"
    /\ timer' = [timer EXCEPT ![m] = "fired"]
    /\ sweep' = [sweep EXCEPT ![m] =
                    Sweep("visit", Nil, Nil, {k \in Keys : MapOf[k] = m})]
    /\ UNCHANGED <<lookup, bag, marble, call, storesLeft>>

(* One key of the Range: if it is forgettable, it will be deleted.         *)
SweepKey(m, k) ==
    /\ sweep[m].at = "visit"
    /\ k \in sweep[m].left
    /\ sweep' = [sweep EXCEPT ![m] =
                    Sweep(IF lookup[k] # Nil /\ marble[lookup[k]].old
                          THEN "load" ELSE "visit",
                          k, Nil, sweep[m].left \ {k})]
    /\ UNCHANGED <<lookup, bag, marble, call, timer, storesLeft>>

(* Delete: the marble is looked up again; nobody else deletes the key.     *)
DeleteLoad(m) ==
    /\ sweep[m].at = "load"
    /\ sweep' = [sweep EXCEPT ![m] =
                    Sweep("put", sweep[m].key, lookup[sweep[m].key],
                          sweep[m].left)]
    /\ UNCHANGED <<lookup, bag, marble, call, timer, storesLeft>>

(* Delete: marbleBag.Put, while the key still has the marble.  A load that *)
(* has the marble in its hands is raced.  Mutant: the marble is put twice. *)
DeletePutTwice(m) ==
    /\ sweep[m].at = "put"
    /\ bag' = [bag EXCEPT ![sweep[m].ptr] = @ + 2]
    /\ sweep' = [sweep EXCEPT ![m] =
                    Sweep("delete", sweep[m].key, sweep[m].ptr,
                          sweep[m].left)]
    /\ call' = [c \in Callers |->
                   IF call[c].op = "load" /\ call[c].ptr = sweep[m].ptr
                   THEN Call("load", call[c].key, call[c].ptr, TRUE)
                   ELSE call[c]]
    /\ UNCHANGED <<lookup, marble, timer, storesLeft>>

DeletePut(m) ==
    /\ sweep[m].at = "put"
    /\ bag' = [bag EXCEPT ![sweep[m].ptr] = @ + 1]
    /\ sweep' = [sweep EXCEPT ![m] =
                    Sweep("delete", sweep[m].key, sweep[m].ptr,
                          sweep[m].left)]
    /\ call' = [c \in Callers |->
                   IF call[c].op = "load" /\ call[c].ptr = sweep[m].ptr
                   THEN Call("load", call[c].key, call[c].ptr, TRUE)
                   ELSE call[c]]
    /\ UNCHANGED <<lookup, marble, timer, storesLeft>>

(* Delete: lookup.Delete.                                                  *)
DeleteKey(m) ==
    /\ sweep[m].at = "delete"
    /\ lookup' = [lookup EXCEPT ![sweep[m].key] = Nil]
    /\ sweep' = [sweep EXCEPT ![m] =
                    Sweep("visit", Nil, Nil, sweep[m].left)]
    /\ UNCHANGED <<bag, marble, call, timer, storesLeft>>

(* The sweep is over; the timer is set again.  Mutant: it is not.          *)
SweepEndOnce(m) ==
    /\ sweep[m].at = "visit"
    /\ sweep[m].left = {}
    /\ sweep' = [sweep EXCEPT ![m] = Resting]
    /\ UNCHANGED <<lookup, bag, marble, call, timer, storesLeft>>

SweepEnd(m) ==
    /\ sweep[m].at = "visit"
    /\ sweep[m].left = {}
    /\ sweep' = [sweep EXCEPT ![m] = Resting]
    /\ timer' = [timer EXCEPT ![m] = "armed"]
    /\ UNCHANGED <<lookup, bag, marble, call, storesLeft>>

(* Stop stops the timer; one that has fired is set again by its sweep.     *)
Stop(m) ==
    /\ timer[m] = "armed"
    /\ timer' = [timer EXCEPT ![m] = "stopped"]
    /\ UNCHANGED <<lookup, bag, marble, call, sweep, storesLeft>>

(* A value grows old.                                                      *)
GrowOld(k) ==
    /\ lookup[k] # Nil
    /\ ~ marble[lookup[k]].old
    /\ marble' = [marble EXCEPT ![lookup[k]] =
                     [key |-> marble[lookup[k]].key, old |-> TRUE]]
    /\ UNCHANGED <<lookup, bag, call, sweep, timer, storesLeft>>

-----------------------------------------------------------------------------
Sweeper(m) ==
    \/ SweepStart(m) \/ \E k \in Keys : SweepKey(m, k)
    \/ DeleteLoad(m) \/ DeletePut(m) \/ DeleteKey(m) \/ SweepEnd(m)

MapNext ==
    \/ \E c \in Callers : \/ \E k \in Keys : StoreGet(c, k) \/ LoadKey(c, k)
                          \/ StoreKey(c) \/ LoadValue(c)
    \/ \E m \in Maps : Sweeper(m) \/ Stop(m)
    \/ \E k \in Keys : GrowOld(k)

MapSpec == MapInit /\ [][MapNext]_mapVars

(* Timers fire and the goroutine they start runs.                          *)
MapFairSpec == MapSpec /\ \A m \in Maps : WF_mapVars(Sweeper(m))

-----------------------------------------------------------------------------
(* Type invariant.                                                         *)
MapTypeOK ==
    /\ lookup \in [Keys -> Marbles \union {Nil}]
    /\ bag \in [Marbles -> 0 .. 1]
    /\ marble \in [Marbles -> [key : Keys \union {Nil}, old : BOOLEAN]]
    /\ call \in [Callers -> [op : {"idle", "store", "load"},
                             key : Keys \union {Nil},
                             ptr : Marbles \union {Nil}, raced : BOOLEAN]]
    /\ sweep \in [Maps -> [at : {"rest", "visit", "load", "put", "delete"},
                           key : Keys \union {Nil},
                           ptr : Marbles \union {Nil}, left : SUBSET Keys]]
    /\ timer \in [Maps -> {"armed", "fired", "stopped"}]
    /\ storesLeft \in Nat

(* Two entries, of one map or of two, share a marble at most while the     *)
(* deletion of one of them is half done: Delete puts the marble into the   *)
(* pool before it takes the key out of the map.                            *)
SharedOnlyWhileDeleting ==
    \A k, j \in Keys :
        (k # j /\ lookup[k] # Nil /\ lookup[k] = lookup[j])
            => HalfDeleted(lookup[k])

(* A Load that is about to return the value of another key has run into a  *)
(* deletion of its own; without one, Load returns what Store was given.    *)
WrongOnlyByDelete ==
    \A c \in Callers :
        (call[c].op = "load" /\ marble[call[c].ptr].key # call[c].key)
            => call[c].raced

(* What is old is forgotten in the end, by sweep after sweep, until the    *)
(* map is stopped; a store makes a key young again.                        *)
OldIsForgotten ==
    \A k \in Keys :
        (lookup[k] # Nil /\ marble[lookup[k]].old)
            ~> (\/ lookup[k] = Nil \/ ~ marble[lookup[k]].old
                \/ timer[MapOf[k]] = "stopped")
=============================================================================
