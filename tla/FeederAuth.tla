----------------------------- MODULE FeederAuth -----------------------------
(***************************************************************************)
(* How runway admits feeders: the FeederCache with its three RWMutexes and *)
(* its refresher, and the life of each TLS connection through the stunnel  *)
(* listener, Authenticate, and the BEAST or the MLAT handler.              *)
(*                                                                         *)
(* Sources: lib/feederauth/feedercache.go, lib/stunnel/listener.go,        *)
(* cmd/runway/customs.go, lib/mlatbridge/mlatbridge.go (handler),          *)
(* lib/producer/common.go (poison pill, Stop, Cleanup).                    *)
(*                                                                         *)
(* A read-locked section reads one map and is one step, enabled while no   *)
(* writer holds the mutex.  Write-locked sections that nest are one step   *)
(* per Lock.  A feeder's label stands for the label set of its Prometheus  *)
(* counter, which the registry keeps unique.                               *)
(***************************************************************************)
EXTENDS Integers, FiniteSets

CONSTANTS
    Keys,           \* API keys
    Labels,         \* labels a feeder may carry in ATC
    Conns,          \* TLS connections, each one attempt
    KeyOf,          \* the API key (SNI) a connection presents
    ProtoOf,        \* the listener it comes in on
    RateWindow,     \* seconds between connections of a feeder (30)
    ForgetAfter,    \* age at which cleanup drops a connection time (60)
    MaxClock,       \* bound: the clock stops there
    MaxRefreshes,   \* bound: feeder lists fetched
    None

Protocols == {"BEAST", "MLAT"}

ASSUME FeederAuthAssumption ==
    /\ KeyOf \in [Conns -> Keys]
    /\ ProtoOf \in [Conns -> Protocols]
    /\ RateWindow \in Nat /\ ForgetAfter \in Nat
    /\ MaxClock \in Nat /\ MaxRefreshes \in Nat
    /\ None \notin Labels \union Conns \union Nat \union {"refresher"}
    /\ "refresher" \notin Conns

VARIABLES
    feeders,        \* f.feeders: key -> label, None when not authorised
    connected,      \* f.feedersConnected
    connTime,       \* f.feederConnectionTime
    muFeeders, muConnected, muTime,   \* write holders of the mutexes
    now,
    refresher,      \* pc of the goroutine running fetchFeeders
    fetched,        \* the feeder list it decoded
    refreshesLeft,
    pc, label,      \* each connection: where it is, the feeder Get returned
    pill,           \* the poison pill ticker of each connection
    registry        \* counters registered with Prometheus

cacheVars == <<feeders, connected, connTime>>
muVars    == <<muFeeders, muConnected, muTime>>
refVars   == <<refresher, fetched, refreshesLeft>>
connVars  == <<pc, label, pill, registry>>
vars == <<cacheVars, muVars, now, refVars, connVars>>

-----------------------------------------------------------------------------
Slot(c) == <<KeyOf[c], ProtoOf[c]>>

Counter(c) == <<KeyOf[c], ProtoOf[c], label[c]>>

FeederLists == [Keys -> Labels \union {None}]

Goto(c, l) == pc' = [pc EXCEPT ![c] = l]

Init ==
    /\ feeders \in [Keys -> Labels]
    /\ connected = {}
    /\ connTime = [s \in Keys \X Protocols |-> None]
    /\ muFeeders = None /\ muConnected = None /\ muTime = None
    /\ now = 0
    /\ refresher = "idle" /\ fetched = feeders
    /\ refreshesLeft = MaxRefreshes
    /\ pc = [c \in Conns |-> "dialling"]
    /\ label = [c \in Conns |-> None]
    /\ pill = [c \in Conns |-> "off"]
    /\ registry = {}

-----------------------------------------------------------------------------
(* handleIncoming: the handshake succeeds or the connection is closed.     *)
Handshake(c) ==
    /\ pc[c] = "dialling"
    /\ Goto(c, "valid") \/ Goto(c, "closed")
    /\ UNCHANGED <<cacheVars, muVars, now, refVars, label, pill, registry>>

(* Authenticate: three separately locked checks.                           *)
Check(c, from, mu, ok, to) ==
    /\ pc[c] = from
    /\ mu = None
    /\ Goto(c, IF ok THEN to ELSE "closed")
    /\ UNCHANGED <<cacheVars, muVars, now, refVars, label, pill, registry>>

IsValid(c) ==
    Check(c, "valid", muFeeders, feeders[KeyOf[c]] # None, "connected")

IsConnected(c) ==
    Check(c, "connected", muConnected, Slot(c) \notin connected, "frequent")

TooFrequent(c) ==
    connTime[Slot(c)] # None /\ connTime[Slot(c)] > now - RateWindow

IsConnectingTooFrequently(c) ==
    Check(c, "frequent", muTime, ~ TooFrequent(c), "get")

(* The handler looks the feeder up, which may have gone meanwhile.         *)
Get(c) ==
    /\ pc[c] = "get"
    /\ muFeeders = None
    /\ IF feeders[KeyOf[c]] = None
       THEN Goto(c, "closed") /\ UNCHANGED label
       ELSE /\ Goto(c, "set")
            /\ label' = [label EXCEPT ![c] = feeders[KeyOf[c]]]
    /\ UNCHANGED <<cacheVars, muVars, now, refVars, pill, registry>>

(* SetConnected locks muFeederConnectionTime, then muFeedersConnected.     *)
LockConnectionTime(c) ==
    /\ pc[c] = "set"
    /\ muTime = None
    /\ muTime' = c
    /\ Goto(c, "set2")
    /\ UNCHANGED <<cacheVars, muFeeders, muConnected, now, refVars, label,
                   pill, registry>>

(* Mutant: a missing deferred Unlock.                                      *)
SetConnectedNoUnlock(c) ==
    /\ pc[c] = "set2"
    /\ muConnected = None
    /\ connTime' = [connTime EXCEPT ![Slot(c)] = now]
    /\ connected' = connected \union {Slot(c)}
    /\ Goto(c, IF ProtoOf[c] = "MLAT" THEN "dial" ELSE "register")
    /\ UNCHANGED <<feeders, muVars, now, refVars, label, pill, registry>>

SetConnected(c) ==
    /\ pc[c] = "set2"
    /\ muConnected = None
    /\ connTime' = [connTime EXCEPT ![Slot(c)] = now]
    /\ connected' = connected \union {Slot(c)}
    /\ muTime' = None
    /\ Goto(c, IF ProtoOf[c] = "MLAT" THEN "dial" ELSE "register")
    /\ UNCHANGED <<feeders, muFeeders, muConnected, now, refVars, label, pill,
                   registry>>

(* MLAT: FID looks the feeder up again, then the mlat server is dialled.   *)
Dial(c) ==
    /\ pc[c] = "dial"
    /\ muFeeders = None
    /\ \/ feeders[KeyOf[c]] # None /\ Goto(c, "register")
       \/ Goto(c, "unset")
    /\ UNCHANGED <<cacheVars, muVars, now, refVars, label, pill, registry>>

(* prometheus.Register refuses a counter that is registered already.  The  *)
(* BEAST handler then returns as it is; the MLAT handler's deferred        *)
(* SetDisconnected still runs.                                             *)
RegisterFails(c) ==
    /\ pc[c] = "register"
    /\ Counter(c) \in registry
    /\ Goto(c, IF ProtoOf[c] = "MLAT" THEN "unset" ELSE "failed")
    /\ UNCHANGED <<cacheVars, muVars, now, refVars, label, pill, registry>>

(* Mutant: registration errors are ignored.                                *)
RegisterUnchecked(c) ==
    /\ pc[c] = "register"
    /\ registry' = registry \union {Counter(c)}
    /\ pill' = [pill EXCEPT ![c] = "ticking"]
    /\ Goto(c, "serve")
    /\ UNCHANGED <<cacheVars, muVars, now, refVars, label>>

Register(c) ==
    /\ pc[c] = "register"
    /\ Counter(c) \notin registry
    /\ registry' = registry \union {Counter(c)}
    /\ pill' = [pill EXCEPT ![c] = "ticking"]
    /\ Goto(c, "serve")
    /\ UNCHANGED <<cacheVars, muVars, now, refVars, label>>

(* The poison pill ticker finds the API key revoked.  For MLAT it cancels  *)
(* the connection's context.  For BEAST it calls Stop(), a send on an      *)
(* unbuffered channel that a producer made WithConnection never reads.     *)
TakePoisonPill(c) ==
    /\ pill[c] = "ticking"
    /\ muFeeders = None
    /\ feeders[KeyOf[c]] = None
    /\ pill' = [pill EXCEPT ![c] = IF ProtoOf[c] = "MLAT"
                                   THEN "cancelled" ELSE "stopping"]
    /\ UNCHANGED <<cacheVars, muVars, now, refVars, pc, label, registry>>

(* The peer goes away, or the context of an MLAT bridge was cancelled.     *)
(* BEAST runs Cleanup: the ticker is cancelled, SetDisconnected, then the  *)
(* counter; MLAT runs its deferred calls: the counter, SetDisconnected.    *)
EndServing(c) ==
    /\ pc[c] = "serve"
    /\ Goto(c, IF ProtoOf[c] = "MLAT" THEN "unregister" ELSE "unset")
    /\ pill' = [pill EXCEPT ![c] = IF @ = "ticking" THEN "cancelled" ELSE @]
    /\ UNCHANGED <<cacheVars, muVars, now, refVars, label, registry>>

(* Mutant: the clean-up forgets the connection flag.                       *)
SetDisconnectedKeepsFlag(c) ==
    /\ pc[c] = "unset"
    /\ muConnected = None
    /\ Goto(c, IF ProtoOf[c] = "MLAT" THEN "closed" ELSE "unregister")
    /\ UNCHANGED <<cacheVars, muVars, now, refVars, label, pill, registry>>

SetDisconnected(c) ==
    /\ pc[c] = "unset"
    /\ muConnected = None
    /\ connected' = connected \ {Slot(c)}
    /\ Goto(c, IF ProtoOf[c] = "MLAT" THEN "closed" ELSE "unregister")
    /\ UNCHANGED <<feeders, connTime, muVars, now, refVars, label, pill,
                   registry>>

Unregister(c) ==
    /\ pc[c] = "unregister"
    /\ registry' = registry \ {Counter(c)}
    /\ Goto(c, IF ProtoOf[c] = "MLAT" THEN "unset" ELSE "closed")
    /\ UNCHANGED <<cacheVars, muVars, now, refVars, label, pill>>

-----------------------------------------------------------------------------
(* fetchFeeders, run by RunOnTicker every minute; a failed request or a    *)
(* bad answer leaves everything as it was.                                 *)
Fetch ==
    /\ refresher = "idle"
    /\ refreshesLeft > 0
    /\ fetched' \in FeederLists
    /\ refresher' = "feeders"
    /\ refreshesLeft' = refreshesLeft - 1
    /\ UNCHANGED <<cacheVars, muVars, now, connVars>>

(* populate locks muFeeders, muFeedersConnected, muFeederConnectionTime.   *)
LockFeeders ==
    /\ refresher = "feeders"
    /\ muFeeders = None
    /\ muFeeders' = "refresher"
    /\ refresher' = "connected"
    /\ UNCHANGED <<cacheVars, muConnected, muTime, now, fetched,
                   refreshesLeft, connVars>>

(* Mutant: the second Lock is on the wrong mutex.                          *)
LockConnectedWrongMutex ==
    /\ refresher = "connected"
    /\ muTime = None
    /\ muTime' = "refresher"
    /\ refresher' = "time"
    /\ UNCHANGED <<cacheVars, muFeeders, muConnected, now, fetched,
                   refreshesLeft, connVars>>

LockConnected ==
    /\ refresher = "connected"
    /\ muConnected = None
    /\ muConnected' = "refresher"
    /\ refresher' = "time"
    /\ UNCHANGED <<cacheVars, muFeeders, muTime, now, fetched,
                   refreshesLeft, connVars>>

(* The body of populate, cleanup() included, and the deferred Unlocks.     *)
Populate ==
    /\ refresher = "time"
    /\ muTime = None
    /\ feeders' = fetched
    /\ connTime' = [s \in DOMAIN connTime |->
                      IF connTime[s] # None /\ connTime[s] < now - ForgetAfter
                      THEN None ELSE connTime[s]]
    /\ muFeeders' = None /\ muConnected' = None
    /\ refresher' = "idle"
    /\ UNCHANGED <<connected, muTime, now, fetched, refreshesLeft, connVars>>

Tick ==
    /\ now < MaxClock
    /\ now' = now + 1
    /\ UNCHANGED <<cacheVars, muVars, refVars, connVars>>

-----------------------------------------------------------------------------
(* The steps a connection's goroutine takes by itself.                     *)
Advance(c) ==
    \/ IsValid(c) \/ IsConnected(c) \/ IsConnectingTooFrequently(c)
    \/ Get(c) \/ LockConnectionTime(c) \/ SetConnected(c)
    \/ Dial(c) \/ Register(c) \/ RegisterFails(c)
    \/ SetDisconnected(c) \/ Unregister(c)

Refresh == LockFeeders \/ LockConnected \/ Populate

Next ==
    \/ \E c \in Conns : \/ Handshake(c) \/ Advance(c)
                        \/ TakePoisonPill(c) \/ EndServing(c)
    \/ Fetch \/ Refresh
    \/ Tick

Spec == Init /\ [][Next]_vars

(* The goroutines of connections and of the refresher are scheduled, and   *)
(* one waiting for a mutex gets it when it is released again and again     *)
(* (Go's RWMutex does not starve a waiter).  Nothing obliges a peer to     *)
(* connect or to hang up, or ATC to answer.                                *)
Fairness == SF_vars(Refresh) /\ \A c \in Conns : SF_vars(Advance(c))

FairSpec == Spec /\ Fairness

-----------------------------------------------------------------------------
Places == {"dialling", "valid", "connected", "frequent", "get", "set", "set2",
           "dial", "register", "serve", "unset", "unregister", "failed",
           "closed"}

TypeOK ==
    /\ feeders \in FeederLists /\ fetched \in FeederLists
    /\ connected \subseteq Keys \X Protocols
    /\ connTime \in [Keys \X Protocols -> Nat \union {None}]
    /\ muFeeders \in {"refresher", None}
    /\ muConnected \in {"refresher", None}
    /\ muTime \in Conns \union {None}
    /\ now \in Nat
    /\ refresher \in {"idle", "feeders", "connected", "time"}
    /\ refreshesLeft \in Nat
    /\ pc \in [Conns -> Places]
    /\ label \in [Conns -> Labels \union {None}]
    /\ pill \in [Conns -> {"off", "ticking", "stopping", "cancelled"}]
    /\ registry \subseteq Keys \X Protocols \X (Labels \union {None})

(* Places where the counter of a connection is registered.                 *)
Registered(c) ==
    \/ pc[c] \in {"serve", "unregister"}
    \/ pc[c] = "unset" /\ ProtoOf[c] = "BEAST"

(* Although Authenticate and SetConnected can be overtaken, no two         *)
(* connections of a feeder are served under one label set: registering the *)
(* counter is what keeps the second one out, and it stays registered for   *)
(* as long as the connection is served.                                    *)
OneServedPerCounter ==
    \A c, d \in Conns :
        Registered(c) /\ Registered(d) /\ Counter(c) = Counter(d) => c = d

(* Places from which a connection still gets to its SetDisconnected, and   *)
(* the one at which a BEAST connection leaves its mark behind.             *)
WillUnmark(c) ==
    \/ pc[c] \in {"dial", "register", "serve", "unset", "failed"}
    \/ pc[c] = "unregister" /\ ProtoOf[c] = "MLAT"

(* A feeder marked connected has a connection that will unmark it, except  *)
(* after a BEAST registration failed: no other way of ending a connection  *)
(* leaves a feeder locked out as "already connected".                      *)
FlagAccounted ==
    \A s \in connected : \E c \in Conns : Slot(c) = s /\ WillUnmark(c)

(* populate and SetConnected wait for each other: each holds the mutex the *)
(* other one wants.                                                        *)
Deadlocked == refresher = "time" /\ \E c \in Conns : pc[c] = "set2"

Settled(c) == pc[c] \in {"serve", "failed", "closed"}

(* Every authenticated attempt is settled in the end, served or refused,   *)
(* unless populate and SetConnected have deadlocked: their opposite lock   *)
(* order is the only way for the cache to hang.                            *)
AttemptsSettle ==
    \A c \in Conns : pc[c] = "valid" ~> (Settled(c) \/ Deadlocked)

-----------------------------------------------------------------------------
(* What a comment says and the code does not do.                           *)

(* ticker.go: RunOnTicker runs its function every period "until the        *)
(* returned function is called": a refresh that has begun comes to an end. *)
RefreshCompletes == refresher = "feeders" ~> refresher = "idle"
=============================================================================
