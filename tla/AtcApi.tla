------------------------------- MODULE AtcApi -------------------------------
(***************************************************************************)
(* cmd/pw_atc_api: answers requests on the NATS bus from the database.     *)
(* Its subscriptions share the queue group atc-api, so one of them takes   *)
(* each message, and a subscription handles one message after the other.   *)
(* Rows, queries and JSON are abstracted to whether the database answered. *)
(***************************************************************************)
EXTENDS Integers, Sequences, FiniteSets

CONSTANTS ApiWorkers,   \* num-workers
          Asked,        \* the requests others make, [id, subject]
          Feeders,      \* api keys
          MaxDbFaults   \* bound on queries that fail

ASSUME AtcApiAssumption == \A r \in Asked : r.subject # "feeder.update-stats"

VARIABLES api,          \* starting, serving or exited
          bus,          \* messages nobody has taken yet
          handling,          \* per worker: the message it handles, or NoJob
          answer,       \* per request id: the replies it got
          lastSeen,     \* feeders.last_seen
          dbFaults,
          settled       \* per feeder: the newest of its updates that was written,
                        \* refused by the database or lost

apiVars == <<api, bus, handling, answer, lastSeen, dbFaults, settled>>

NoJob == [id |-> 0, subject |-> "none"]

Ids == {r.id : r \in Asked}

ApiInit ==
    /\ api = "starting" /\ bus = {} /\ handling = [w \in ApiWorkers |-> NoJob]
    /\ answer = [r \in Ids |-> <<>>]
    /\ lastSeen = [k \in Feeders |-> 0]
    /\ dbFaults = 0 /\ settled = [k \in Feeders |-> 0]

DbFails == dbFaults < MaxDbFaults /\ dbFaults' = dbFaults + 1

(* connectDatabase: opening never talks to the server, so the loop ends    *)
(* after one round whatever its ping says; the last ping decides.          *)
StartApi ==
    /\ api = "starting"
    /\ \/ api' = "serving" /\ UNCHANGED dbFaults
       \/ api' = "exited" /\ DbFails
    /\ UNCHANGED <<bus, handling, answer, lastSeen, settled>>

(* A requester sends; NATS keeps nothing for later subscribers.            *)
Request(r) ==
    /\ api = "serving" /\ answer[r.id] = <<>>
    /\ \A m \in bus \cup {handling[w] : w \in ApiWorkers} : m.id # r.id
    /\ bus' = bus \cup {r}
    /\ UNCHANGED <<api, handling, answer, lastSeen, dbFaults, settled>>

(* The queue group hands a message to one subscription of its subject.     *)
Take(w) ==
    /\ api = "serving" /\ handling[w] = NoJob
    /\ \E r \in bus : handling' = [handling EXCEPT ![w] = r] /\ bus' = bus \ {r}
    /\ UNCHANGED <<api, answer, lastSeen, dbFaults, settled>>

(* Mutant: a feeder list that cannot be read is not answered.              *)
RepliesListSilent(subject, ok) ==
    IF subject = "feeder.list" /\ ~ok THEN <<>>
    ELSE IF ok THEN <<"rows">> ELSE <<"empty">>

(* What each handler replies, with the database well and with an error:    *)
(* the airport search gives up without a word, enrichment sends what is    *)
(* empty, the list of feeders says that the request failed.                *)
Replies(subject, ok) ==
    CASE subject = "search.airport" -> IF ok THEN <<"rows">> ELSE <<>>
      [] subject = "search.route"   -> <<"unimplemented">>
      [] subject = "enrich.aircraft" -> IF ok THEN <<"rows">> ELSE <<"empty">>
      [] subject = "enrich.routes"  -> IF ok THEN <<"rows">> ELSE <<"empty">>
      [] subject = "feeder.list"    -> IF ok THEN <<"rows">> ELSE <<"failed">>
      [] OTHER                      -> <<"unsupported">>

Queries(subject) == subject \in {"search.airport", "enrich.aircraft", "enrich.routes", "feeder.list"}

(* searchHandler, enrichHandler, feederHandler: one query, one reply.      *)
Reply(w) ==
    /\ handling[w] # NoJob /\ handling[w].subject # "feeder.update-stats"
    /\ \E ok \in BOOLEAN :
        /\ ok \/ Queries(handling[w].subject)
        /\ IF ok THEN UNCHANGED dbFaults ELSE DbFails
        /\ answer' = [answer EXCEPT ![handling[w].id] = @ \o Replies(handling[w].subject, ok)]
    /\ handling' = [handling EXCEPT ![w] = NoJob]
    /\ UNCHANGED <<api, bus, lastSeen, settled>>

SettledWith(m) ==
    settled' = [settled EXCEPT ![m.key] = IF m.seen > @ THEN m.seen ELSE @]

(* feederHandler, update-stats: the last seen time of a feeder is written  *)
(* whatever is there; an error is logged.  The message was published, not  *)
(* requested: it has no reply subject and both replies fail.               *)
UpdateStats(w) ==
    /\ handling[w].subject = "feeder.update-stats"
    /\ \/ lastSeen' = [lastSeen EXCEPT ![handling[w].key] = handling[w].seen] /\ UNCHANGED dbFaults
       \/ DbFails /\ UNCHANGED lastSeen
    /\ SettledWith(handling[w])
    /\ handling' = [handling EXCEPT ![w] = NoJob]
    /\ UNCHANGED <<api, bus, answer>>

WorkerStep(w) == Take(w) \/ Reply(w) \/ UpdateStats(w)

ApiNext == StartApi \/ (\E r \in Asked : Request(r)) \/ (\E w \in ApiWorkers : WorkerStep(w))

(* ------------------------------------------------------------ properties *)

(* A request that has reached the bus gets a reply, if only one that says  *)
(* nothing was found or that it failed, unless it searches for an airport: *)
(* no other error path forgets to reply.                                   *)
AnsweredUnlessSearch ==
    \A r \in Asked :
        (r \in bus /\ r.subject # "search.airport") ~> answer[r.id] # <<>>
=============================================================================
