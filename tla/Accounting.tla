----------------------------- MODULE Accounting -----------------------------
(***************************************************************************)
(* lib/middleware/accounting.go of pw_ingest, composed with pw_atc_api     *)
(* over the bus: each frame marks its feeder as seen, and once a minute    *)
(* the feeder's time goes by way of atcUpdateQueue to the database.  Both  *)
(* queues drop what they cannot hold.  Stop closes them one right after    *)
(* the other, while queueHandler may still send to the second.  Nothing    *)
(* bounds the time an update takes: it may wait in the client of NATS, for *)
(* a worker and for the database, and outlive the process that sent it.    *)
(***************************************************************************)
EXTENDS AtcApi

CONSTANTS HandleDepth, UpdateDepth,     \* 1000 each
          Minute,
          MaxClock,                     \* bound on the clock
          RestartTimes                  \* bound: when pw_ingest may be restarted

ASSUME AccountingAssumption == Minute \in Nat

VARIABLES now,
          handleQueue, atcUpdateQueue,
          lastAtcUpdate,                \* of the stats of each feeder
          closed, panicked,
          started                       \* when pw_ingest was restarted, 0 if it was not

accountVars == <<now, handleQueue, atcUpdateQueue, lastAtcUpdate, closed, panicked, started>>

NeverReported == [k \in Feeders |-> 0 - Minute - 1]

AccountInit ==
    /\ now = 1 /\ handleQueue = <<>> /\ atcUpdateQueue = <<>>
    /\ lastAtcUpdate = NeverReported
    /\ closed = FALSE /\ panicked = FALSE /\ started = 0

(* Handle, by any decode worker: on a closed queue the send panics.        *)
HandleFrame(k) ==
    /\ ~panicked
    /\ IF closed THEN panicked' = TRUE /\ UNCHANGED handleQueue
       ELSE /\ Len(handleQueue) < HandleDepth
            /\ handleQueue' = Append(handleQueue, k) /\ UNCHANGED panicked
    /\ UNCHANGED <<now, atcUpdateQueue, lastAtcUpdate, closed, started, apiVars>>

(* Mutant: a feeder counts as reported although its update was dropped.    *)
CountFrameDropped ==
    /\ ~panicked /\ handleQueue # <<>>
    /\ LET k    == Head(handleQueue)
           due  == now > lastAtcUpdate[k] + Minute
           room == Len(atcUpdateQueue) < UpdateDepth
       IN  /\ panicked' = (due /\ closed)
           /\ atcUpdateQueue' = IF due /\ ~closed /\ room
                                THEN Append(atcUpdateQueue, [key |-> k, seen |-> now])
                                ELSE atcUpdateQueue
           /\ lastAtcUpdate' = [lastAtcUpdate EXCEPT ![k] = IF due THEN now ELSE @]
    /\ handleQueue' = Tail(handleQueue)
    /\ UNCHANGED <<now, closed, started, apiVars>>

(* Mutant: every frame is reported, not one a minute.                      *)
CountFrameAlways ==
    /\ ~panicked /\ handleQueue # <<>>
    /\ LET k    == Head(handleQueue)
           room == Len(atcUpdateQueue) < UpdateDepth
       IN  /\ panicked' = closed
           /\ atcUpdateQueue' = IF ~closed /\ room
                                THEN Append(atcUpdateQueue, [key |-> k, seen |-> now])
                                ELSE atcUpdateQueue
           /\ lastAtcUpdate' = [lastAtcUpdate EXCEPT ![k] = IF ~closed /\ room THEN now ELSE @]
    /\ handleQueue' = Tail(handleQueue)
    /\ UNCHANGED <<now, closed, started, apiVars>>

(* queueHandler: lastSeen of the stats is the time now, and goes along.    *)
CountFrame ==
    /\ ~panicked /\ handleQueue # <<>>
    /\ LET k    == Head(handleQueue)
           due  == now > lastAtcUpdate[k] + Minute
           room == Len(atcUpdateQueue) < UpdateDepth
       IN  /\ panicked' = (due /\ closed)
           /\ atcUpdateQueue' = IF due /\ ~closed /\ room
                                THEN Append(atcUpdateQueue, [key |-> k, seen |-> now])
                                ELSE atcUpdateQueue
           /\ lastAtcUpdate' = [lastAtcUpdate EXCEPT ![k] =
                                    IF due /\ ~closed /\ room THEN now ELSE @]
    /\ handleQueue' = Tail(handleQueue)
    /\ UNCHANGED <<now, closed, started, apiVars>>

Message(u) == [id |-> 0, subject |-> "feeder.update-stats", key |-> u.key, seen |-> u.seen]

(* atcUpdateQueueHandler publishes; without a subscriber a message is gone. *)
PublishStats ==
    /\ ~panicked /\ atcUpdateQueue # <<>>
    /\ LET msg == Message(Head(atcUpdateQueue))
       IN  IF api = "serving" THEN bus' = bus \cup {msg} /\ UNCHANGED settled
           ELSE SettledWith(msg) /\ UNCHANGED bus
    /\ atcUpdateQueue' = Tail(atcUpdateQueue)
    /\ UNCHANGED <<now, handleQueue, lastAtcUpdate, closed, panicked, started,
                   api, handling, answer, lastSeen, dbFaults>>

StopAccounting ==
    /\ ~closed /\ ~panicked /\ closed' = TRUE
    /\ UNCHANGED <<now, handleQueue, atcUpdateQueue, lastAtcUpdate, panicked, started, apiVars>>

(* The process ends, in whatever way, and another one is started: what it  *)
(* had in its queues is lost, what it knew of the feeders forgotten; what  *)
(* it published goes on.  Bound: once, at one of RestartTimes.             *)
Restart ==
    /\ started = 0 /\ now \in RestartTimes /\ started' = now
    /\ handleQueue' = <<>> /\ atcUpdateQueue' = <<>>
    /\ lastAtcUpdate' = NeverReported
    /\ closed' = FALSE /\ panicked' = FALSE
    /\ UNCHANGED <<now, apiVars>>

(* The messages about a feeder on their way to the database                *)
Underway(k) ==
    {m \in bus \cup {handling[w] : w \in ApiWorkers} \cup
           {Message(atcUpdateQueue[i]) : i \in DOMAIN atcUpdateQueue} :
        m.subject = "feeder.update-stats" /\ m.key = k}

AccountTick ==
    /\ now < MaxClock /\ now' = now + 1
    /\ UNCHANGED <<handleQueue, atcUpdateQueue, lastAtcUpdate, closed, panicked, started, apiVars>>

AccountStep == CountFrame \/ PublishStats

AccountNext ==
    \/ AccountStep \/ StopAccounting \/ Restart \/ AccountTick
    \/ (\E k \in Feeders : HandleFrame(k))
    \/ ApiNext /\ UNCHANGED accountVars

(* ------------------------------------------------------------ properties *)

(* What accounting takes for reported is on its way to the database or got *)
(* as far as the bus or the database let it: an update that the full queue *)
(* dropped is made up for by the next frame.                               *)
ReportedOrUnderway ==
    \A k \in Feeders :
        LET reported == lastAtcUpdate[k]
        IN  reported > settled[k] => \E m \in Underway(k) : m.seen = reported

(* Several workers write what they took from the queue group without a     *)
(* look at what is there, so an update that others overtook puts a feeder  *)
(* back to an earlier time.  Two updates of a process are a minute apart:  *)
(* a feeder is put back only by an update that was late by more than the   *)
(* minute, or that was sent before pw_ingest was restarted.                *)
PutBackOnlyLate ==
    [][\A k \in Feeders :
          \/ lastSeen'[k] >= lastSeen[k]
          \/ now > lastSeen'[k] + Minute
          \/ lastSeen'[k] <= started]_lastSeen
=============================================================================
