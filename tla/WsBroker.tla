------------------------------ MODULE WsBroker ------------------------------
(***************************************************************************)
(* pw_ws_broker: NATS workers put every location into a global list and    *)
(* send it to the channel of each connected client.  Each client has a     *)
(* reader goroutine that turns requests into commands and a handler        *)
(* goroutine that selects on commands, locations and a ticker, keeps the   *)
(* subscriptions, and batches one location per aircraft between ticks.     *)
(*                                                                         *)
(* Sources: cmd/pw_ws_broker/web.go, nats.go, broker.go.                   *)
(*                                                                         *)
(* A write to the client succeeds or fails (sendPlaneMessage, 3 seconds);  *)
(* a failure ends the handler.  A request of a type that only asks for a   *)
(* reply is "list" when the reader sends the command itself and "async"    *)
(* when it starts a goroutine to do so (search, history, tick).            *)
(***************************************************************************)
EXTENDS Integers, Sequences, SequencesExt, FiniteSets

CONSTANTS
    Clients,        \* websocket connections
    Workers,        \* goroutines of PwWsBrokerNats.consume
    Icaos, Tiles,
    Updates,        \* the locations NATS delivers, each once
    Requests,       \* what each client may ask for
    MaxRequests,    \* bound: requests per client
    MaxForgets,     \* bound: locations that age or are forgotten
    OutCap,         \* capacity of outChan (500 in the code)
    None

HighLow == {"_low", "_high"}

(* The subscriptions a client may hold, and the names of bare tiles.       *)
Grid == (Tiles \union {"all"}) \X HighLow
GridNames == Tiles \union {""}

(* A location: n tells the updates of an aircraft apart, feed is the queue *)
(* it came in on (the code passes it beside the location).                 *)
Location == [icao : Icaos, tile : Tiles \union {""}, feed : HighLow, n : Nat]

(* The requests the reader understands; a key may name no tile at all.     *)
Request ==
    [type : {"sub", "unsub"}, key : Grid \union Tiles \union {None}]
        \union [type : {"set"}, keys : SUBSET (Grid \union {None})]
        \union [type : {"grid"}, tile : GridNames \union {None}]
        \union [type : {"list", "async", "exit"}]

ASSUME WsBrokerAssumption ==
    /\ Updates \subseteq Location
    /\ Requests \in [Clients -> SUBSET Request]
    /\ None \notin Clients \union Location \union Grid \union GridNames
    /\ IsFiniteSet(Clients) /\ IsFiniteSet(Icaos)
    /\ MaxRequests \in Nat /\ MaxForgets \in Nat /\ OutCap \in Nat \ {0}

VARIABLES
    batching,       \* --send-tick is positive
    undelivered,    \* locations NATS has still to deliver
    globalList,     \* ClientList.globalList: icao -> location or None
    stale,          \* aircraft whose location is beyond snapshot-max-age
    forgetsLeft,
    clients,        \* ClientList.clients
    outChan, closed,  \* each client's channel, and whether it is closed
    wpc, msg,       \* each worker: where it is, the location it sends round
    left, to,       \* ... the clients still to visit, the one it sends to
    handler,        \* where each planeProtocolHandler is
    subs, locationMessages, icaoIdLookup,   \* its locals
    reader, cmds, spawned, requestsLeft,    \* the goroutines feeding cmdChan
    subscriptions,  \* the gauge pw_ws_broker_subscriptions
    synced, known, wanted, cut   \* history, see the properties

natsVars   == <<undelivered, wpc, msg, left, to, cut>>
listVars   == <<globalList, stale, forgetsLeft>>
chanVars   == <<clients, outChan, closed>>
batchVars  == <<locationMessages, icaoIdLookup, known, wanted>>
readerVars == <<reader, cmds, spawned, requestsLeft>>
vars == <<batching, natsVars, listVars, chanVars, handler, subs, batchVars,
          readerVars, subscriptions, synced>>

-----------------------------------------------------------------------------
(* The canonical subscription matcher, and its use on stored locations.    *)
tileMatchesSubs(s, tile, highLow) ==
    <<tile, highLow>> \in s \/ <<"all", highLow>> \in s

locationMatchesSubs(s, loc) ==
    \E highLow \in HighLow : tileMatchesSubs(s, loc.tile, highLow)

Stored == {globalList[i] : i \in Icaos} \ {None}

(* One entry per aircraft: a later location replaces the one that waits.   *)
Batch == [list : Seq(Location \union {None}), at : [Icaos -> Nat]]

NoBatch == [list |-> << >>, at |-> [i \in Icaos |-> 0]]

PendingBatch(c) == [list |-> locationMessages[c], at |-> icaoIdLookup[c]]

AddToBatch(b, loc) ==
    IF b.at[loc.icao] # 0
    THEN [b EXCEPT !.list[b.at[loc.icao]] = loc]
    ELSE [list |-> Append(b.list, loc),
          at   |-> [b.at EXCEPT ![loc.icao] = Len(b.list) + 1]]

(* The same for a set of them, one of each aircraft, in any order.         *)
AddAllToBatch(b, locs) ==
    LET new == SetToSeq({loc \in locs : b.at[loc.icao] = 0})
        old == {loc \in locs : b.at[loc.icao] # 0}
    IN  [list |-> [k \in DOMAIN b.list |->
                      IF \E loc \in old : b.at[loc.icao] = k
                      THEN CHOOSE loc \in old : b.at[loc.icao] = k
                      ELSE b.list[k]] \o new,
         at   |-> [i \in Icaos |->
                      IF \E k \in DOMAIN new : new[k].icao = i
                      THEN Len(b.list) + (CHOOSE k \in DOMAIN new : new[k].icao = i)
                      ELSE b.at[i]]]

SetBatch(c, b) ==
    /\ locationMessages' = [locationMessages EXCEPT ![c] = b.list]
    /\ icaoIdLookup' = [icaoIdLookup EXCEPT ![c] = b.at]

IcaosOf(list) == {list[k].icao : k \in {j \in DOMAIN list : list[j] # None}}

Init ==
    /\ batching \in BOOLEAN
    /\ undelivered = Updates
    /\ globalList = [i \in Icaos |-> None]
    /\ stale = {} /\ forgetsLeft = MaxForgets
    /\ clients = {} /\ closed = {}
    /\ outChan = [c \in Clients |-> << >>]
    /\ wpc = [w \in Workers |-> "idle"]
    /\ msg = [w \in Workers |-> None]
    /\ left = [w \in Workers |-> {}]
    /\ to = [w \in Workers |-> None]
    /\ handler = [c \in Clients |-> "new"]
    /\ subs = [c \in Clients |-> {}]
    /\ locationMessages = [c \in Clients |-> << >>]
    /\ icaoIdLookup = [c \in Clients |-> NoBatch.at]
    /\ reader = [c \in Clients |-> "read"]
    /\ cmds = [c \in Clients |-> << >>]
    /\ spawned = [c \in Clients |-> 0]
    /\ requestsLeft = [c \in Clients |-> MaxRequests]
    /\ subscriptions = [k \in Grid |-> 0]
    /\ synced = [c \in Clients |-> {}]
    /\ known = [c \in Clients |-> {}]
    /\ wanted = [c \in Clients |-> {}]
    /\ cut = {}

-----------------------------------------------------------------------------
(* A NATS worker: processMessage, which is SendLocationUpdate.             *)

globalListUpdate(w) ==
    /\ wpc[w] = "idle"
    /\ \E u \in undelivered :
          /\ undelivered' = undelivered \ {u}
          /\ msg' = [msg EXCEPT ![w] = u]
          /\ globalList' = [globalList EXCEPT ![u.icao] = u]
          /\ stale' = stale \ {u.icao}
    /\ wpc' = [wpc EXCEPT ![w] = "range"]
    /\ UNCHANGED <<batching, left, to, cut, forgetsLeft, chanVars, handler,
                   subs, batchVars, readerVars, subscriptions, synced>>

(* sync.Map.Range sees the clients that are listed when it starts.         *)
StartRange(w) ==
    /\ wpc[w] = "range"
    /\ wpc' = [wpc EXCEPT ![w] = "next"]
    /\ left' = [left EXCEPT ![w] = clients]
    /\ UNCHANGED <<batching, undelivered, msg, to, cut, listVars, chanVars,
                   handler, subs, batchVars, readerVars, subscriptions, synced>>

(* It passes over a client that has been deleted since.                    *)
VisitClient(w, c) ==
    /\ wpc[w] = "next"
    /\ c \in left[w]
    /\ left' = [left EXCEPT ![w] = @ \ {c}]
    /\ IF c \in clients
       THEN /\ wpc' = [wpc EXCEPT ![w] = "send"]
            /\ to' = [to EXCEPT ![w] = c]
       ELSE UNCHANGED <<wpc, to>>
    /\ UNCHANGED <<batching, undelivered, msg, cut, listVars, chanVars,
                   handler, subs, batchVars, readerVars, subscriptions, synced>>

Sent(w) ==
    /\ wpc' = [wpc EXCEPT ![w] = "next"]
    /\ to' = [to EXCEPT ![w] = None]

(* The send blocks while the channel is full.                              *)
SendToClient(w) ==
    /\ wpc[w] = "send"
    /\ to[w] \notin closed
    /\ Len(outChan[to[w]]) < OutCap
    /\ outChan' = [outChan EXCEPT ![to[w]] = Append(@, msg[w])]
    /\ Sent(w)
    /\ UNCHANGED <<batching, undelivered, msg, left, cut, listVars, clients,
                   closed, handler, subs, batchVars, readerVars,
                   subscriptions, synced>>

(* A send on a closed channel panics, also one that was waiting.  The      *)
(* callback recovers and returns false, which ends the Range.              *)
SendPanics(w) ==
    /\ wpc[w] = "send"
    /\ to[w] \in closed
    /\ left' = [left EXCEPT ![w] = {}]
    /\ cut' = cut \union {msg[w]}
    /\ Sent(w)
    /\ UNCHANGED <<batching, undelivered, msg, listVars, chanVars, handler,
                   subs, batchVars, readerVars, subscriptions, synced>>

EndRange(w) ==
    /\ wpc[w] = "next"
    /\ left[w] = {}
    /\ wpc' = [wpc EXCEPT ![w] = "idle"]
    /\ msg' = [msg EXCEPT ![w] = None]
    /\ UNCHANGED <<batching, undelivered, left, to, cut, listVars, chanVars,
                   handler, subs, batchVars, readerVars, subscriptions, synced>>

(* The location of an aircraft passes snapshot-max-age, then the global    *)
(* list forgets it.                                                        *)
GrowStale(i) ==
    /\ forgetsLeft > 0
    /\ globalList[i] # None
    /\ IF i \in stale
       THEN /\ globalList' = [globalList EXCEPT ![i] = None]
            /\ stale' = stale \ {i}
       ELSE stale' = stale \union {i} /\ UNCHANGED globalList
    /\ forgetsLeft' = forgetsLeft - 1
    /\ UNCHANGED <<batching, natsVars, chanVars, handler, subs, batchVars,
                   readerVars, subscriptions, synced>>

-----------------------------------------------------------------------------
(* servePlanes: addClient, Handle, removeClient.                           *)

addClient(c) ==
    /\ handler[c] = "new"
    /\ clients' = clients \union {c}
    /\ handler' = [handler EXCEPT ![c] = "loop"]
    /\ UNCHANGED <<batching, natsVars, listVars, outChan, closed, subs,
                   batchVars, readerVars, subscriptions, synced>>

(* Mutant: the channel is left open.                                       *)
CloseOutChanForgotten(c) ==
    /\ handler[c] = "remove"
    /\ handler' = [handler EXCEPT ![c] = "delete"]
    /\ UNCHANGED <<batching, natsVars, listVars, chanVars, subs, batchVars,
                   readerVars, subscriptions, synced>>

(* removeClient closes the channel, then deletes the client.               *)
CloseOutChan(c) ==
    /\ handler[c] = "remove"
    /\ closed' = closed \union {c}
    /\ handler' = [handler EXCEPT ![c] = "delete"]
    /\ UNCHANGED <<batching, natsVars, listVars, clients, outChan, subs,
                   batchVars, readerVars, subscriptions, synced>>

DeleteClient(c) ==
    /\ handler[c] = "delete"
    /\ clients' = clients \ {c}
    /\ handler' = [handler EXCEPT ![c] = "gone"]
    /\ UNCHANGED <<batching, natsVars, listVars, outChan, closed, subs,
                   batchVars, readerVars, subscriptions, synced>>

-----------------------------------------------------------------------------
(* The reader goroutine: cmdChan is unbuffered, so a command waits in the  *)
(* goroutine that sends it until the handler takes it.                     *)

(* AddSub asks for the planes of what it subscribes to.  That is a name    *)
(* like tile35_high, which is no tile's, unless the client left the suffix *)
(* out and the subscription fails.                                         *)
CommandsFor(r) ==
    IF r.type = "sub"
    THEN <<r, [type |-> "grid",
               tile |-> IF r.key \in Tiles THEN r.key ELSE None]>>
    ELSE <<r>>

ReadRequest(c, r) ==
    /\ handler[c] # "new"
    /\ reader[c] = "read"
    /\ cmds[c] = << >>
    /\ requestsLeft[c] > 0
    /\ requestsLeft' = [requestsLeft EXCEPT ![c] = @ - 1]
    /\ IF r.type = "async"
       THEN spawned' = [spawned EXCEPT ![c] = @ + 1] /\ UNCHANGED cmds
       ELSE cmds' = [cmds EXCEPT ![c] = CommandsFor(r)] /\ UNCHANGED spawned
    /\ UNCHANGED <<batching, natsVars, listVars, chanVars, handler, subs,
                   batchVars, reader, subscriptions, synced>>

(* Mutant: the reader ends without telling the handler.                    *)
ReadErrorSilent(c) ==
    /\ handler[c] # "new"
    /\ reader[c] = "read"
    /\ cmds[c] = << >>
    /\ reader' = [reader EXCEPT ![c] = "ending"]
    /\ UNCHANGED <<batching, natsVars, listVars, chanVars, handler, subs,
                   batchVars, cmds, spawned, requestsLeft, subscriptions,
                   synced>>

(* The connection is closed or fails: one last command, then the end.      *)
ReadError(c) ==
    /\ handler[c] # "new"
    /\ reader[c] = "read"
    /\ cmds[c] = << >>
    /\ cmds' = [cmds EXCEPT ![c] = <<[type |-> "exit"]>>]
    /\ reader' = [reader EXCEPT ![c] = "ending"]
    /\ UNCHANGED <<batching, natsVars, listVars, chanVars, handler, subs,
                   batchVars, spawned, requestsLeft, subscriptions, synced>>

-----------------------------------------------------------------------------
(* The handler: one iteration of its select loop.                          *)

(* sendAck, sendError and sendPlaneMessage write under writeMu, with a     *)
(* deadline; a write that fails makes the loop break after the iteration.  *)
Writes(c) ==
    \/ UNCHANGED handler
    \/ handler' = [handler EXCEPT ![c] = "broken"]

Takes(c, type) ==
    /\ handler[c] = "loop"
    /\ cmds[c] # << >>
    /\ Head(cmds[c]).type = type
    /\ cmds' = [cmds EXCEPT ![c] = Tail(@)]
    /\ UNCHANGED <<batching, natsVars, listVars, chanVars, reader, spawned,
                   requestsLeft>>

(* The handler returns and with it go its local variables.                 *)
Return(c) ==
    /\ handler' = [handler EXCEPT ![c] = "remove"]
    /\ subs' = [subs EXCEPT ![c] = {}]
    /\ synced' = [synced EXCEPT ![c] = {}]
    /\ known' = [known EXCEPT ![c] = {}]
    /\ wanted' = [wanted EXCEPT ![c] = {}]
    /\ SetBatch(c, NoBatch)

(* "exit" returns from the middle of the loop.                             *)
Exit(c) ==
    /\ Takes(c, "exit")
    /\ Return(c)
    /\ UNCHANGED subscriptions

Subscribe(c) ==
    LET k == Head(cmds[c]).key
    IN  /\ Takes(c, "sub")
        /\ Writes(c)
        /\ IF k \in Grid
           THEN /\ subs' = [subs EXCEPT ![c] = @ \union {k}]
                /\ wanted' = [wanted EXCEPT ![c] = @ \union {k}]
                /\ subscriptions' = [subscriptions EXCEPT ![k] = @ + 1]
           ELSE UNCHANGED <<subs, wanted, subscriptions>>
        /\ UNCHANGED <<locationMessages, icaoIdLookup, known, synced>>

(* Mutant: the gauge goes down for a tile that was not subscribed.         *)
UnsubscribeUnchecked(c) ==
    LET k == Head(cmds[c]).key
    IN  /\ Takes(c, "unsub")
        /\ Writes(c)
        /\ IF k \in Grid
           THEN subscriptions' = [subscriptions EXCEPT ![k] = @ - 1]
           ELSE UNCHANGED subscriptions
        /\ subs' = [subs EXCEPT ![c] = @ \ {k}]
        /\ synced' = [synced EXCEPT ![c] = @ \ {k}]
        /\ UNCHANGED batchVars

Unsubscribe(c) ==
    LET k == Head(cmds[c]).key
    IN  /\ Takes(c, "unsub")
        /\ Writes(c)
        /\ IF k \in subs[c]
           THEN subscriptions' = [subscriptions EXCEPT ![k] = @ - 1]
           ELSE UNCHANGED subscriptions
        /\ subs' = [subs EXCEPT ![c] = @ \ {k}]
        /\ synced' = [synced EXCEPT ![c] = @ \ {k}]
        /\ UNCHANGED batchVars

(* The gauge counts up what is new in a set of subscriptions and down what *)
(* is gone from it.                                                        *)
Recount(c, new) ==
    subscriptions' = [k \in Grid |->
        subscriptions[k] + (IF k \in new \ subs[c] THEN 1 ELSE 0)
                         - (IF k \in subs[c] \ new THEN 1 ELSE 0)]

(* Mutant: the snapshot looks at one suffix only.                          *)
SnapshotLowOnly(s) ==
    {loc \in Stored : /\ loc.icao \notin stale
                      /\ tileMatchesSubs(s, loc.tile, "_low")}

(* The locations a snapshot for subscriptions s holds.                     *)
Snapshot(s) ==
    {loc \in Stored : loc.icao \notin stale /\ locationMatchesSubs(s, loc)}

(* Mutant: the batch of the old subscriptions is kept.                     *)
ClearedBatchKept(c) == PendingBatch(c)

(* Go's clear() of a slice zeroes its elements and keeps its length.       *)
ClearedBatch(c) ==
    [list |-> [k \in DOMAIN locationMessages[c] |-> None],
     at   |-> [i \in Icaos |-> 0]]

(* Mutant: unknown tiles are let through.                                  *)
SetSubscribedTilesUnchecked(c) ==
    LET new == Head(cmds[c]).keys
    IN  /\ Takes(c, "set")
        /\ Writes(c)
        /\ Recount(c, new)
        /\ subs' = [subs EXCEPT ![c] = new]
        /\ synced' = [synced EXCEPT ![c] = new]
        /\ wanted' = [wanted EXCEPT ![c] = new]
        /\ SetBatch(c, AddAllToBatch(ClearedBatch(c), Snapshot(new)))
        /\ known' = [known EXCEPT ![c] = {loc.icao : loc \in Snapshot(new)}]

(* All tiles are validated first; then subscriptions are replaced, the     *)
(* waiting batch dropped, and the snapshot sent and put into the batch.    *)
SetSubscribedTiles(c) ==
    LET new == Head(cmds[c]).keys
    IN  /\ Takes(c, "set")
        /\ Writes(c)
        /\ IF new \subseteq Grid
           THEN /\ Recount(c, new)
                /\ subs' = [subs EXCEPT ![c] = new]
                /\ synced' = [synced EXCEPT ![c] = new]
                /\ wanted' = [wanted EXCEPT ![c] = new]
                /\ SetBatch(c, AddAllToBatch(ClearedBatch(c), Snapshot(new)))
                /\ known' = [known EXCEPT ![c] =
                                {loc.icao : loc \in Snapshot(new)}]
           ELSE UNCHANGED <<subs, batchVars, subscriptions, synced>>

(* The name of a tile adds what is on that tile to the batch.              *)
GridPlanes(c) ==
    LET t == Head(cmds[c]).tile
    IN  /\ Takes(c, "grid")
        /\ IF t \in GridNames
           THEN /\ SetBatch(c, AddAllToBatch(PendingBatch(c),
                                  {loc \in Stored : loc.tile = t}))
                /\ wanted' = [wanted EXCEPT ![c] = @ \union ({t} \X HighLow)]
                /\ UNCHANGED <<handler, known>>
           ELSE Writes(c) /\ UNCHANGED batchVars
        /\ UNCHANGED <<subs, subscriptions, synced>>

(* SubscribeList: a reply and no more.                                     *)
Reply(c) ==
    /\ Takes(c, "list")
    /\ Writes(c)
    /\ UNCHANGED <<subs, batchVars, subscriptions, synced>>

(* Search, history and tick adjustment: the command of a goroutine that    *)
(* the reader has started.                                                 *)
ReplyAsync(c) ==
    /\ handler[c] = "loop"
    /\ spawned[c] > 0
    /\ spawned' = [spawned EXCEPT ![c] = @ - 1]
    /\ Writes(c)
    /\ UNCHANGED <<batching, natsVars, listVars, chanVars, subs, batchVars,
                   reader, cmds, requestsLeft, subscriptions, synced>>

(* A location from outChan: batched, or written at once without batching.  *)
TakeLocation(c) ==
    LET loc == Head(outChan[c])
    IN  /\ handler[c] = "loop"
        /\ outChan[c] # << >>
        /\ outChan' = [outChan EXCEPT ![c] = Tail(@)]
        /\ IF ~ tileMatchesSubs(subs[c], loc.tile, loc.feed)
           THEN UNCHANGED <<handler, batchVars>>
           ELSE IF batching
           THEN /\ SetBatch(c, AddToBatch(PendingBatch(c), loc))
                /\ UNCHANGED <<handler, known, wanted>>
           ELSE /\ Writes(c)
                /\ known' = [known EXCEPT ![c] = @ \union {loc.icao}]
                /\ UNCHANGED <<locationMessages, icaoIdLookup, wanted>>
        /\ UNCHANGED <<batching, natsVars, listVars, clients, closed, subs,
                       readerVars, subscriptions, synced>>

(* Mutant: the lookup outlives the batch it points into.                   *)
SendTickKeepsLookup(c) ==
    /\ handler[c] = "loop"
    /\ locationMessages[c] # << >>
    /\ Writes(c)
    /\ known' = [known EXCEPT ![c] = @ \union IcaosOf(locationMessages[c])]
    /\ locationMessages' = [locationMessages EXCEPT ![c] = << >>]
    /\ wanted' = [wanted EXCEPT ![c] = subs[c]]
    /\ UNCHANGED <<batching, natsVars, listVars, chanVars, subs, icaoIdLookup,
                   readerVars, subscriptions, synced>>

SendTick(c) ==
    /\ handler[c] = "loop"
    /\ locationMessages[c] # << >>
    /\ Writes(c)
    /\ known' = [known EXCEPT ![c] = @ \union IcaosOf(locationMessages[c])]
    /\ SetBatch(c, NoBatch)
    /\ wanted' = [wanted EXCEPT ![c] = subs[c]]
    /\ UNCHANGED <<batching, natsVars, listVars, chanVars, subs, readerVars,
                   subscriptions, synced>>

(* After the loop broke: the gauge forgets the client's subscriptions.     *)
ForgetSubs(c) ==
    /\ handler[c] = "broken"
    /\ Recount(c, {})
    /\ Return(c)
    /\ UNCHANGED <<batching, natsVars, listVars, chanVars, readerVars>>

-----------------------------------------------------------------------------
Fanout(w) ==
    \/ StartRange(w) \/ \E c \in Clients : VisitClient(w, c)
    \/ SendToClient(w) \/ SendPanics(w) \/ EndRange(w)

Command(c) ==
    \/ Exit(c) \/ Subscribe(c) \/ Unsubscribe(c) \/ SetSubscribedTiles(c)
    \/ GridPlanes(c) \/ Reply(c)

removeClient(c) == ForgetSubs(c) \/ CloseOutChan(c) \/ DeleteClient(c)

Handle(c) ==
    \/ ReadError(c) \/ \E r \in Requests[c] : ReadRequest(c, r)
    \/ Command(c) \/ ReplyAsync(c) \/ TakeLocation(c) \/ SendTick(c)

(* A connection that speaks the protocol: a client joins, is handled and   *)
(* leaves.  One that does not is closed and changes nothing.               *)
servePlanes(c) == addClient(c) \/ Handle(c) \/ removeClient(c)

Next ==
    \/ \E w \in Workers : globalListUpdate(w) \/ Fanout(w)
    \/ \E i \in Icaos : GrowStale(i)
    \/ \E c \in Clients : servePlanes(c)

Spec == Init /\ [][Next]_vars

(* Workers and handlers are scheduled; select picks among its ready cases  *)
(* at random, so none of them is passed over for ever, and senders blocked *)
(* on a channel are served in turn.  No client is obliged to ask or leave. *)
Fairness ==
    /\ \A w \in Workers : SF_vars(Fanout(w))
    /\ \A c \in Clients :
          /\ SF_vars(Command(c)) /\ SF_vars(TakeLocation(c))
          /\ WF_vars(removeClient(c))

FairSpec == Spec /\ Fairness

-----------------------------------------------------------------------------
TypeOK ==
    /\ batching \in BOOLEAN
    /\ undelivered \subseteq Updates
    /\ globalList \in [Icaos -> Location \union {None}]
    /\ stale \subseteq Icaos /\ forgetsLeft \in Nat
    /\ clients \subseteq Clients /\ closed \subseteq Clients
    /\ outChan \in [Clients -> Seq(Updates)]
    /\ wpc \in [Workers -> {"idle", "range", "next", "send"}]
    /\ msg \in [Workers -> Updates \union {None}]
    /\ left \in [Workers -> SUBSET Clients]
    /\ to \in [Workers -> Clients \union {None}]
    /\ handler \in [Clients -> {"new", "loop", "broken", "remove", "delete",
                                "gone"}]
    /\ subs \in [Clients -> SUBSET Grid]
    /\ \A c \in Clients : PendingBatch(c) \in Batch
    /\ reader \in [Clients -> {"read", "ending"}]
    /\ \A c \in Clients : \A k \in DOMAIN cmds[c] : cmds[c][k] \in Request
    /\ spawned \in [Clients -> Nat] /\ requestsLeft \in [Clients -> Nat]
    /\ subscriptions \in [Grid -> Int]
    /\ synced \in [Clients -> SUBSET Grid]
    /\ known \in [Clients -> SUBSET Icaos]
    /\ wanted \in [Clients -> SUBSET ((GridNames \union {"all"}) \X HighLow)]
    /\ cut \subseteq Updates

Listening == {c \in Clients : handler[c] = "loop"}

(* The gauge of a tile never falls below the number of clients that are    *)
(* subscribed to it, whatever mixture of requests they send: it goes down  *)
(* only for a subscription that is given up.                               *)
GaugeNotBelow ==
    \A k \in Grid : Cardinality({c \in Listening : k \in subs[c]})
                         <= subscriptions[k]

(* A batch holds one location per aircraft and icaoIdLookup points at it,  *)
(* through snapshots, cleared batches and ticks.                           *)
OnePerAircraft ==
    \A c \in Listening :
        LET list == locationMessages[c]
            at == icaoIdLookup[c]
        IN  /\ \A k \in DOMAIN list : list[k] # None => at[list[k].icao] = k
            /\ \A i \in Icaos : at[i] # 0 =>
                  at[i] \in DOMAIN list /\ list[at[i]] # None
                                       /\ list[at[i]].icao = i

(* What a client's handler keeps agrees with itself: its tiles and its     *)
(* batch with their types, the batch with its index, the gauge of a tile   *)
(* with its subscribers.                                                   *)
ClientStateSound == TypeOK /\ GaugeNotBelow /\ OnePerAircraft

(* A client is sent nothing it did not want since the last tick: after it  *)
(* replaced its subscriptions no location of the old ones is sent.  wanted *)
(* is what it was subscribed to or asked for since then.                   *)
OnlyWanted ==
    \A c \in Listening : \A k \in DOMAIN locationMessages[c] :
        locationMessages[c][k] # None =>
            locationMatchesSubs(wanted[c], locationMessages[c][k])

(* What is still on its way to a client about aircraft i.                  *)
InTransit(c, i) ==
    \/ i \in IcaosOf(locationMessages[c])
    \/ \E k \in DOMAIN outChan[c] : outChan[c][k].icao = i
    \/ \E w \in Workers :
          /\ msg[w] # None
          /\ msg[w].icao = i
          /\ wpc[w] = "range" \/ c \in left[w] \/ to[w] = c

Missed(c, i) ==
    /\ globalList[i] # None
    /\ i \notin stale
    /\ tileMatchesSubs(synced[c], globalList[i].tile, globalList[i].feed)
    /\ i \notin known[c]
    /\ ~ InTransit(c, i)

(* A client that set its tiles misses no recent aircraft on them: each was *)
(* in the snapshot, has been sent since, or is on its way, however the     *)
(* request interleaves with the workers.  The exception: a worker met the  *)
(* closed channel of another client while it sent that location round.     *)
NoneMissed ==
    \A c \in Listening : \A i \in Icaos :
        Missed(c, i) => globalList[i] \in cut

(* A worker gets through the list of clients, although any of them may be  *)
(* slow, full or gone.                                                     *)
FanOutEnds == \A w \in Workers : wpc[w] = "range" ~> wpc[w] = "idle"

(* A client whose connection is lost is removed in the end.                *)
LostClientsLeave ==
    \A c \in Clients : reader[c] = "ending" ~> handler[c] = "gone"
=============================================================================
