-------------------------------- MODULE MCBus --------------------------------
(***************************************************************************)
(* The parts that talk over the message bus or beside the frames: the tap, *)
(* the repeater of the producer, the ATC API with the accounting of feeds, *)
(* and the life of the websocket broker.                                   *)
(* They share nothing in this instance: a behaviour runs one of them,      *)
(* chosen at the start, and leaves the others alone.  The ATC API is run   *)
(* twice, with requests and with the updates of accounting: all they have  *)
(* in common is that a worker busy with the one is late for the other, and *)
(* how late a worker is nothing bounds.                                    *)
(***************************************************************************)
EXTENDS Tap, Repeater, Accounting, Broker

VARIABLE part

atcVars == <<apiVars, accountVars>>
vars == <<part, tapVars, repeatVars, atcVars, brokerVars>>

Subjects == {"search.airport", "search.route", "enrich.aircraft", "enrich.routes",
             "feeder.list", "other"}

OneRequest == [id : {1}, subject : Subjects]

Parts == {"tap", "repeater", "asks", "updates", "broker"}

Init == part \in Parts /\ TapInit /\ RepeatInit /\ ApiInit /\ AccountInit /\ BrokerInit

(* Only the variables of part p change.                                    *)
Only(p) ==
    /\ part = p /\ UNCHANGED part
    /\ p # "tap" => UNCHANGED tapVars
    /\ p # "repeater" => UNCHANGED repeatVars
    /\ p \notin {"asks", "updates"} => UNCHANGED atcVars
    /\ p # "broker" => UNCHANGED brokerVars

Next ==
    \/ Only("tap") /\ TapNext
    \/ Only("repeater") /\ RepeatNext
    \/ Only("asks") /\ ApiNext /\ UNCHANGED accountVars
    \/ Only("updates") /\ AccountNext /\ \A r \in Asked : r \notin bus'
    \/ Only("broker") /\ BrokerNext

(* Weak fairness of an action of a part, in the behaviours that run it.    *)
TapFair ==
    /\ \A i \in Ingests : WF_tapVars(part = "tap" /\ IngestStep(i))
    /\ \A t \in Tappers : WF_tapVars(part = "tap" /\ TapperStep(t))
                          /\ WF_tapVars(part = "tap" /\ ReadTap(t))

RepeatFair ==
    /\ WF_repeatVars(part = "repeater" /\ RepeatTick)
    /\ WF_repeatVars(part = "repeater" /\ (NewTicker \/ GoRepeat))
    /\ \A f \in Frame : WF_repeatVars(part = "repeater" /\ Goes(f))

(* Nothing is owed of the updates of accounting: they may stay where they  *)
(* are for good.                                                           *)
AtcFair ==
    \A w \in ApiWorkers :
        WF_atcVars(part = "asks" /\ WorkerStep(w) /\ UNCHANGED accountVars)

(* The goroutines of the broker run and the time-out of a request fires;   *)
(* no signal, no error of the server and no end of the web server is owed. *)
BrokerFair ==
    /\ \A f \in Feeds, w \in FeedWorkers :
          WF_brokerVars(part = "broker" /\ (TakeMessage(f, w) \/ ProcessMessage(f, w)))
    /\ WF_brokerVars(part = "broker" /\ SearchStep)
    /\ WF_brokerVars(part = "broker" /\ (WaitExit \/ CloseWeb \/ CloseNats))

Spec == Init /\ [][Next]_vars /\ TapFair /\ RepeatFair /\ AtcFair /\ BrokerFair

(* Books kept by several goroutines at once balance: the list of taps has  *)
(* no loose end, a repeater one ticker, a counted frame a report that was  *)
(* sent or is under way, and a dropped message of the broker its count.    *)
BooksBalance == ListIntact /\ OneTicker /\ ReportedOrUnderway /\ DropsReported

(* What is left ends: a removed tap in every pw_ingest, a tapper that      *)
(* disconnects, the repetition of an aircraft no longer heard, a broker    *)
(* whose web server has failed.                                            *)
EndsWhenLeft == TapTakenBack /\ DisconnectEnds /\ FallsSilent /\ WebFailureEnds

(* What is asked is answered, the database searches of the ATC API apart,  *)
(* whose requester gets its answer by the time-out; and a feed is worked   *)
(* off in spite of messages that do not decode.                            *)
AskedIsAnswered == AnsweredUnlessSearch /\ SearchAnswered /\ FeedServed
==============================================================================
