-------------------------------- MODULE Sink ---------------------------------
(***************************************************************************)
(* lib/sink and lib/export/location.go: the way of a change of an aircraft *)
(* to the message bus.  The handlers of the tracker change the plane field *)
(* by field and call OnEvent, which puts the plane itself (not a copy) in  *)
(* the send list, or publishes at once when there is no collect delay.     *)
(* The ticker swaps the list and publishes every plane of it; the record   *)
(* is put together field by field, each under the lock of the plane, so a  *)
(* handler may run in between.                                             *)
(*                                                                         *)
(* Two fields stand for the thirty of the record; a field is the number of *)
(* times it was set.                                                       *)
(***************************************************************************)
EXTENDS Integers, FiniteSets

CONSTANTS Aircraft, Handlers,
          MaxChanges,   \* bound on the frames handled
          MaxDelay      \* 10 s: the longest pause between attempts to connect

VARIABLES collect,      \* sendDelay > 0, from the flags
          sinkPc,       \* the sink: "connect", "run", "failed", "closed", "stopped"
          delay,        \* the pause before the next attempt to connect
          craft,        \* the planes: field -> how often it was set
          job,          \* per handler and for the ticker: what it is doing
          sendList,     \* Sink.sendList, by aircraft
          batch,        \* list of sendLocationList
          owed,         \* what OnEvent was called for
          sent,         \* the newest of each field that was published
          changes, refused  \* frames handled; publications the bus refused

sinkVars == <<collect, sinkPc, delay, craft, job, sendList, batch, owed, sent, changes, refused>>

Zero == [a |-> 0, b |-> 0]
Ticker == "ticker"
Free == [at |-> "idle", icao |-> "none", rec |-> Zero]

Later(r, s) == [f \in {"a", "b"} |-> IF r[f] < s[f] THEN s[f] ELSE r[f]]

SinkInit ==
    /\ collect \in BOOLEAN /\ sinkPc = "connect" /\ delay = 1
    /\ craft = [i \in Aircraft |-> Zero]
    /\ job = [p \in Handlers \cup {Ticker} |-> Free]
    /\ sendList = {} /\ batch = {} /\ changes = 0 /\ refused = {}
    /\ owed = [i \in Aircraft |-> Zero] /\ sent = [i \in Aircraft |-> Zero]

UnchangedData == UNCHANGED <<collect, craft, job, sendList, batch, owed, sent, changes, refused>>

(* NewNatsSink: attempts with a growing pause, then an error.              *)
Connected == sinkPc = "connect" /\ sinkPc' = "run" /\ UNCHANGED delay /\ UnchangedData

ConnectFails ==
    /\ sinkPc = "connect"
    /\ IF delay > MaxDelay THEN sinkPc' = "failed" /\ UNCHANGED delay
       ELSE delay' = delay + 1 /\ UNCHANGED sinkPc
    /\ UnchangedData

UnchangedSink == UNCHANGED <<collect, sinkPc, delay>>

(* The handler of a frame sets one field, then the other.                  *)
SetFirst(h) ==
    /\ sinkPc # "connect" /\ sinkPc # "failed" /\ job[h].at = "idle" /\ changes < MaxChanges
    /\ \E i \in Aircraft :
        /\ craft' = [craft EXCEPT ![i].a = @ + 1]
        /\ job' = [job EXCEPT ![h] = [at |-> "set", icao |-> i, rec |-> Zero]]
    /\ changes' = changes + 1
    /\ UnchangedSink /\ UNCHANGED <<sendList, batch, owed, sent, refused>>

SetSecond(h) ==
    /\ job[h].at = "set"
    /\ craft' = [craft EXCEPT ![job[h].icao].b = @ + 1]
    /\ job' = [job EXCEPT ![h].at = "event"]
    /\ UnchangedSink /\ UNCHANGED <<sendList, batch, owed, sent, changes, refused>>

(* Mutant: an aircraft that is being sent is not put in the list.          *)
ListedSkipping(i) == sendList \cup ({i} \ (batch \cup {job[Ticker].icao}))

(* sendList[icao] = the event: one entry per aircraft                      *)
Listed(i) == sendList \cup {i}

OnEvent(h) ==
    /\ job[h].at = "event"
    /\ LET i == job[h].icao
       IN  /\ owed' = [owed EXCEPT ![i] = craft[i]]
           /\ IF collect
              THEN sendList' = Listed(i) /\ job' = [job EXCEPT ![h] = Free]
              ELSE job' = [job EXCEPT ![h].at = "read"] /\ UNCHANGED sendList
    /\ UnchangedSink /\ UNCHANGED <<craft, batch, sent, changes, refused>>

(* Mutant: a list of one aircraft is left for a later tick.                *)
SwapListFull ==
    /\ sinkPc \in {"run", "closed"} /\ collect
    /\ job[Ticker].at = "idle" /\ batch = {} /\ Cardinality(sendList) > 1
    /\ batch' = sendList /\ sendList' = {}
    /\ UnchangedSink /\ UNCHANGED <<craft, job, owed, sent, changes, refused>>

(* A tick: sendLocationList takes the list under its mutex.                *)
SwapList ==
    /\ sinkPc \in {"run", "closed"} /\ collect
    /\ job[Ticker].at = "idle" /\ batch = {} /\ sendList # {}
    /\ batch' = sendList /\ sendList' = {}
    /\ UnchangedSink /\ UNCHANGED <<craft, job, owed, sent, changes, refused>>

NextOfBatch ==
    /\ job[Ticker].at = "idle"
    /\ \E i \in batch :
        /\ batch' = batch \ {i}
        /\ job' = [job EXCEPT ![Ticker] = [at |-> "read", icao |-> i, rec |-> Zero]]
    /\ UnchangedSink /\ UNCHANGED <<craft, sendList, owed, sent, changes, refused>>

(* NewPlaneLocation reads one field, then the other.                       *)
ReadField(p) ==
    /\ job[p].at \in {"read", "read2"}
    /\ LET i == job[p].icao
       IN  job' = [job EXCEPT ![p] = IF @.at = "read"
                                     THEN [@ EXCEPT !.at = "read2", !.rec.a = craft[i].a]
                                     ELSE [@ EXCEPT !.at = "publish", !.rec.b = craft[i].b]]
    /\ UnchangedSink /\ UNCHANGED <<craft, sendList, batch, owed, sent, changes, refused>>

(* PublishJson: the error of a connection that was closed, or that is lost *)
(* and has no room left in its buffer, is dropped.                         *)
Publish(p) ==
    /\ job[p].at = "publish"
    /\ LET i == job[p].icao
       IN  \/ /\ sinkPc = "run"
              /\ sent' = [sent EXCEPT ![i] = Later(@, job[p].rec)]
              /\ UNCHANGED refused
           \/ refused' = refused \cup {i} /\ UNCHANGED sent
    /\ job' = [job EXCEPT ![p] = Free]
    /\ UnchangedSink /\ UNCHANGED <<craft, sendList, batch, owed, changes>>

(* Stop: the connection is closed before the ticker is stopped; what the   *)
(* list holds then is never sent.                                          *)
CloseDest == sinkPc = "run" /\ sinkPc' = "closed" /\ UNCHANGED delay /\ UnchangedData

StopTicker == sinkPc = "closed" /\ collect /\ sinkPc' = "stopped" /\ UNCHANGED delay /\ UnchangedData

SendStep == SwapList \/ NextOfBatch \/ ReadField(Ticker) \/ Publish(Ticker)

HandlerStep(h) == SetSecond(h) \/ OnEvent(h) \/ ReadField(h) \/ Publish(h)

SinkNext ==
    \/ Connected \/ ConnectFails \/ CloseDest \/ StopTicker
    \/ SwapList \/ NextOfBatch \/ ReadField(Ticker) \/ Publish(Ticker)
    \/ \E h \in Handlers :
        SetFirst(h) \/ SetSecond(h) \/ OnEvent(h) \/ ReadField(h) \/ Publish(h)

(* ------------------------------------------------------------ properties *)

(* Although a plane changes while its record is put together and while the *)
(* list is swapped, what was published is the plane as it is whenever the  *)
(* handlers and the sink are quiet; only a publication the bus refused or  *)
(* Stop makes an exception.                                                *)
Settled ==
    sendList = {} /\ batch = {} /\ (\A p \in DOMAIN job : job[p].at = "idle")
      /\ refused = {} /\ sinkPc = "run"
    => sent = craft

(* Once the frames end the bus has all of it: no aircraft stays in a list. *)
Delivered == <>[](sent = craft \/ refused # {} \/ sinkPc # "run")
=============================================================================
