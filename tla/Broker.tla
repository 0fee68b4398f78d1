------------------------------- MODULE Broker -------------------------------
(***************************************************************************)
(* The life of pw_ws_broker (cmd/pw_ws_broker/main.go, broker.go, nats.go) *)
(* on top of lib/nats_io: the connections, the two subscriptions with      *)
(* their buffered channels and workers, the web server, a search that asks *)
(* the ATC API, and the end.  What a location does to the clients is       *)
(* WsBroker.                                                               *)
(*                                                                         *)
(* The NATS client is external: it puts a message into the channel of a    *)
(* subscription or, when that is full, drops it and reports a slow         *)
(* consumer once for every run of drops; errors that are about no          *)
(* subscription are reported with a nil one.  It does not close a channel. *)
(***************************************************************************)
EXTENDS Integers, Sequences, FiniteSets

CONSTANTS FeedWorkers,    \* the goroutines of one consume
          QueueDepth,     \* nats_io.Server.QueueDepth
          MaxBrokerMsgs,  \* bound: locations published
          MaxBrokerErrs   \* bound: errors about no subscription

Feeds == {"_low", "_high"}
Directions == {"incoming", "outgoing"}
Locations == {"location", "garbage"}    \* "garbage" does not unmarshal

VARIABLES stage,      \* main: "connect", "setup", "wait", "close web", "close nats", "ended"
          link,       \* the nats_io.Server of the feeds: direction -> "nil", "up", "closed"
          rpc,        \* whether natsRpc is set
          consumer,   \* per feed: "start", "subscribed", "failed"
          channels,   \* feeds whose channel NatsErrHandler goes through
          ch,         \* per feed: the channel of its subscription
          worker,     \* per feed and worker: "idle" or the location it handles
          slow,       \* feeds whose last message was dropped
          reports,    \* calls of NatsErrHandler under way: "slow" or "server"
          dropped,    \* the counter of dropped messages
          lost,       \* feeds that lost a message
          web,        \* "start", "listening", "exiting", "closed"
          search,     \* a search: "none", "range", "request", "sent", "answered"
          budget      \* messages and errors still to come

brokerVars == <<stage, link, rpc, consumer, channels, ch, worker, slow, reports,
                dropped, lost, web, search, budget>>

queueVars == <<ch, worker, slow, lost>>

BrokerInit ==
    /\ stage = "connect" /\ link = [d \in Directions |-> "nil"] /\ rpc = FALSE
    /\ consumer = [f \in Feeds |-> "start"] /\ channels = {}
    /\ ch = [f \in Feeds |-> << >>]
    /\ worker = [f \in Feeds |-> [w \in FeedWorkers |-> "idle"]]
    /\ slow = {} /\ reports = << >> /\ dropped = 0 /\ lost = {}
    /\ web = "start" /\ search = "none"
    /\ budget = [msgs |-> MaxBrokerMsgs, errs |-> MaxBrokerErrs]

-----------------------------------------------------------------------------
(* Server.Connect: incoming, then outgoing; the first that fails ends it   *)
(* and leaves the other as it is.                                          *)
Connected ==
    {[incoming |-> i, outgoing |-> IF i = "up" THEN o ELSE "nil"] :
        i \in {"nil", "up"}, o \in {"nil", "up"}}

(* The input and the connection for requests; an error of the second is    *)
(* not looked at.                                                          *)
NewBroker ==
    /\ stage = "connect"
    /\ link' \in Connected
    /\ rpc' \in BOOLEAN
    /\ stage' = IF link'["outgoing"] = "up" THEN "setup" ELSE "ended"
    /\ UNCHANGED <<consumer, channels, queueVars, reports, dropped, web, search, budget>>

(* Setup fails without the certificate, and the deferred Close runs; or    *)
(* Run starts the goroutines.                                              *)
Setup ==
    /\ stage = "setup"
    /\ \/ stage' = "wait" /\ UNCHANGED link
       \/ stage' = "ended" /\ link' = [d \in Directions |-> "closed"]
    /\ UNCHANGED <<rpc, consumer, channels, queueVars, reports, dropped, web, search, budget>>

Alive == stage \notin {"connect", "setup", "ended"}

(* consume: Subscribe notes the channel before it subscribes; a consume    *)
(* whose Subscribe fails returns, and the broker goes on without its feed. *)
Subscribed(f) ==
    /\ Alive /\ consumer[f] = "start"
    /\ \E s \in {"subscribed", "failed"} : consumer' = [consumer EXCEPT ![f] = s]
    /\ channels' = channels \cup {f}
    /\ UNCHANGED <<stage, link, rpc, queueVars, reports, dropped, web, search, budget>>

(* External: a message arrives for a subscription.                         *)
Deliver(f, m) ==
    /\ Alive /\ consumer[f] = "subscribed" /\ link["incoming"] = "up"
    /\ budget.msgs > 0 /\ budget' = [budget EXCEPT !.msgs = @ - 1]
    /\ IF Len(ch[f]) < QueueDepth
       THEN /\ ch' = [ch EXCEPT ![f] = Append(@, m)] /\ slow' = slow \ {f}
            /\ UNCHANGED <<reports, lost>>
       ELSE /\ lost' = lost \cup {f} /\ slow' = slow \cup {f}
            /\ reports' = IF f \in slow THEN reports ELSE Append(reports, "slow")
            /\ UNCHANGED ch
    /\ UNCHANGED <<stage, link, rpc, consumer, channels, worker, dropped, web, search>>

(* External: the server reports an error that is about no subscription.    *)
ServerError ==
    /\ Alive /\ budget.errs > 0 /\ budget' = [budget EXCEPT !.errs = @ - 1]
    /\ reports' = Append(reports, "server")
    /\ UNCHANGED <<stage, link, rpc, consumer, channels, queueVars, dropped, web, search>>

(* Mutant: the other errors are counted.                                   *)
CountsOther(report) == report = "server"

(* errors.Is(err, nats.ErrSlowConsumer), with the counter set by           *)
(* NewPwWsBrokerNats.                                                      *)
Counts(report) == report = "slow"

(* It looks at the subscription of every error for each channel it knows:  *)
(* one without subscription ends the process once a channel is noted.      *)
NatsErrHandler ==
    /\ Alive /\ reports # << >>
    /\ reports' = Tail(reports)
    /\ stage' = IF Head(reports) = "server" /\ channels # {} THEN "ended" ELSE stage
    /\ dropped' = IF Counts(Head(reports)) THEN dropped + 1 ELSE dropped
    /\ UNCHANGED <<link, rpc, consumer, channels, queueVars, web, search, budget>>

(* A worker of consume takes a message ...                                 *)
TakeMessage(f, w) ==
    /\ Alive /\ worker[f][w] = "idle" /\ ch[f] # << >>
    /\ worker' = [worker EXCEPT ![f][w] = Head(ch[f])]
    /\ ch' = [ch EXCEPT ![f] = Tail(@)]
    /\ UNCHANGED <<stage, link, rpc, consumer, channels, slow, reports, dropped, lost, web, search, budget>>

(* Mutant: a message that does not unmarshal ends the worker.              *)
AfterMessageReturns(m) == IF m = "garbage" THEN "returned" ELSE "idle"

(* ... and has it sent to the clients, or skips it, and goes on.           *)
AfterMessage(m) == "idle"

ProcessMessage(f, w) ==
    /\ Alive /\ worker[f][w] \in Locations
    /\ worker' = [worker EXCEPT ![f][w] = AfterMessage(@)]
    /\ UNCHANGED <<stage, link, rpc, consumer, channels, ch, slow, reports, dropped, lost, web, search, budget>>

-----------------------------------------------------------------------------
(* performSearch looks through the global list and asks the ATC API for    *)
(* airports if there is a connection for it.                               *)
StartSearch ==
    /\ Alive /\ web = "listening" /\ search = "none" /\ search' = "range"
    /\ UNCHANGED <<stage, link, rpc, consumer, channels, queueVars, reports, dropped, web, budget>>

SearchAircraft ==
    /\ Alive /\ search = "range"
    /\ search' = IF rpc THEN "request" ELSE "answered"
    /\ UNCHANGED <<stage, link, rpc, consumer, channels, queueVars, reports, dropped, web, budget>>

(* Server.Request is refused at once, or waits.                            *)
RequestAirports ==
    /\ Alive /\ search = "request" /\ search' \in {"sent", "answered"}
    /\ UNCHANGED <<stage, link, rpc, consumer, channels, queueVars, reports, dropped, web, budget>>

(* Mutant: the request has no time-out.                                    *)
TimeoutNever == FALSE

(* The second that performSearch gives the request.                        *)
Timeout == search = "sent"

(* A reply, which the API need not send, or the end of the time.           *)
ApiReplies ==
    /\ Alive /\ search = "sent" /\ search' = "answered"
    /\ UNCHANGED <<stage, link, rpc, consumer, channels, queueVars, reports, dropped, web, budget>>

TimeOut ==
    /\ Alive /\ Timeout /\ search' = "answered"
    /\ UNCHANGED <<stage, link, rpc, consumer, channels, queueVars, reports, dropped, web, budget>>

SearchStep == SearchAircraft \/ RequestAirports \/ TimeOut

-----------------------------------------------------------------------------
(* listenAndServe: it listens, or fails at once or later; either way it    *)
(* waits to send on exitChan.                                              *)
ListenAndServe ==
    /\ Alive
    /\ \/ web = "start" /\ web' \in {"listening", "exiting"}
       \/ web = "listening" /\ web' = "exiting"
    /\ UNCHANGED <<stage, link, rpc, consumer, channels, queueVars, reports, dropped, search, budget>>

(* Mutant: only the signal is waited for.                                  *)
WaitExitNever == FALSE /\ UNCHANGED brokerVars

(* Wait: a receive from exitChan, or a signal.                             *)
WaitExit ==
    /\ stage = "wait" /\ web = "exiting" /\ stage' = "close web"
    /\ UNCHANGED <<link, rpc, consumer, channels, queueVars, reports, dropped, web, search, budget>>

WaitSignal ==
    /\ stage = "wait" /\ stage' = "close web"
    /\ UNCHANGED <<link, rpc, consumer, channels, queueVars, reports, dropped, web, search, budget>>

CloseWeb ==
    /\ stage = "close web" /\ stage' = "close nats" /\ web' = "closed"
    /\ UNCHANGED <<link, rpc, consumer, channels, queueVars, reports, dropped, search, budget>>

(* Server.Close drains incoming and closes outgoing, and main returns.     *)
CloseNats ==
    /\ stage = "close nats" /\ stage' = "ended"
    /\ link' = [d \in Directions |-> "closed"]
    /\ UNCHANGED <<rpc, consumer, channels, queueVars, reports, dropped, web, search, budget>>

BrokerNext ==
    \/ NewBroker \/ Setup \/ ServerError \/ NatsErrHandler
    \/ \E f \in Feeds :
          \/ Subscribed(f) \/ \E m \in Locations : Deliver(f, m)
          \/ \E w \in FeedWorkers : TakeMessage(f, w) \/ ProcessMessage(f, w)
    \/ StartSearch \/ SearchStep \/ ApiReplies
    \/ ListenAndServe \/ WaitExit \/ WaitSignal \/ CloseWeb \/ CloseNats

(* ------------------------------------------------------------ properties *)

(* A feed loses locations only when its channel is full, and then the      *)
(* counter tells it or a call of the handler is about to: the connection   *)
(* has its counter before the first subscription.                          *)
DropsReported == Alive /\ lost # {} => dropped > 0 \/ \E k \in DOMAIN reports : reports[k] = "slow"

(* A location that reached a channel is handled although others are        *)
(* garbage: the workers outlive what they cannot read.                     *)
FeedServed == (\E f \in Feeds : ch[f] # << >>) ~> (\A f \in Feeds : ch[f] = << >>) \/ stage = "ended"

(* A search is answered although the ATC API says nothing (it answers no   *)
(* airport search whose query of the database failed).                     *)
SearchAnswered == search = "range" ~> search = "answered" \/ stage = "ended"

(* A broker whose web server is gone does not live on.                     *)
WebFailureEnds == web = "exiting" ~> stage = "ended"
=============================================================================
