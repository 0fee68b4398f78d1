------------------------------- MODULE Ingest -------------------------------
(***************************************************************************)
(* The ingest process: producers read frames into pooled objects and put   *)
(* them on a channel; decode workers take them through the middlewares     *)
(* (dedupe, ingest tap) to the plane they belong to and release them; and  *)
(* the tracker adds, removes and stops all of it.                          *)
(*                                                                         *)
(* Sources: lib/tracker/input.go, tracker.go; lib/producer/common.go,      *)
(* beast.go; lib/tracker/beast/main.go; lib/dedupe/dedupe.go;              *)
(* lib/middleware/ingest_tap.go; cmd/pw_ingest/main.go.                    *)
(*                                                                         *)
(* What a frame says is one of Payloads; what handling it does to the      *)
(* plane is left to module Plane.  A send on a closed channel ends the     *)
(* process, except in AddEvent, which recovers.  The producers here have   *)
(* no keep-alive repeater (module Repeater), which would put a frame on    *)
(* their channel again after its release.                                  *)
(***************************************************************************)
EXTENDS Integers, Sequences, SequencesExt, FiniteSets

CONSTANTS
    Producers,
    NameOf,         \* Producer.String(), by which producers are removed
    KindsOf,        \* the ways in which a producer may get its data
    Workers,        \* the decode workers of each producer
    Payloads,
    Bad,            \* payloads that do not decode
    Icaos, IcaoOf,  \* None: a payload from which no address follows
    Objects,        \* beast frames of beastPool
    MaxReads,       \* bound: frames each producer reads in all
    MaxForgets,     \* bound: payloads and planes that grow old
    OutCap, TapCap, \* capacities of Producer.out and IngestTap.queue (100)
    None

Kinds == {"fetcher", "listener", "files", "connection"}

ASSUME IngestAssumption ==
    /\ IsFiniteSet(Producers)
    /\ KindsOf \in [Producers -> SUBSET Kinds]
    /\ Bad \subseteq Payloads
    /\ IcaoOf \in [Payloads -> Icaos \union {None}]
    /\ None \notin Objects \union Payloads \union Icaos
    /\ MaxReads \in [Producers -> Nat] /\ MaxForgets \in Nat
    /\ OutCap \in Nat \ {0} /\ TapCap \in Nat \ {0}

VARIABLES
    kind,           \* how each producer gets its data
    pool,           \* objects that are free
    content,        \* what each object says; Release clears it
    marked,         \* objects with hasDecoded set that hold nothing decoded
    reader, hold,   \* the goroutine that reads, the frame it is adding
    readsLeft,
    life,           \* where the producer's run function is
    commands,       \* producers with a goroutine that receives from cmdChan
    out, closed,    \* Producer.out
    at, obj,        \* each decode worker: where it is and its frame
    seen,           \* Filter.list
    tapped,         \* the tap has a condition
    tapOpen, tapQueue,  \* IngestTap.queue, and what processQueue has of it
    planeList, currentPlanes, evicting,   \* the planes and their gauge
    forgetsLeft,
    producers, gone,    \* Tracker.producers; those whose waiter is done
    finishDone, ctl,    \* Finish, in Wait and in Stop
    stopCalls,      \* the goroutines in which Finish stops things
    exited,         \* "no", "clean", "forced" or "panic"
    passed, raced   \* history, see DuplicatesOnlyByRace

poolVars == <<pool, content, marked>>
prodVars == <<kind, reader, hold, readsLeft, life, commands, out, closed>>
workVars == <<at, obj>>
dedupeVars == <<seen, passed, raced>>
tapVars == <<tapped, tapOpen, tapQueue>>
planeVars == <<planeList, currentPlanes, evicting>>
ctlVars == <<producers, gone, finishDone, stopCalls, ctl>>
vars == <<poolVars, prodVars, workVars, dedupeVars, tapVars, planeVars,
          forgetsLeft, ctlVars, exited>>

Crew == Producers \X Workers

(* Wait runs in main, Stop in the goroutine StopOnCancel starts; each may  *)
(* call Finish, which stops the producers and the tap.                     *)
Routines == {"Wait", "Stop"}
Stoppable == Producers \union {"tap"}

Init ==
    /\ kind \in [Producers -> Kinds]
    /\ \A p \in Producers : kind[p] \in KindsOf[p]
    /\ pool = Objects
    /\ content = [o \in Objects |-> None] /\ marked = {}
    /\ reader = [p \in Producers |->
                    IF kind[p] = "fetcher" THEN "dial" ELSE "read"]
    /\ hold = [p \in Producers |-> None]
    /\ readsLeft = MaxReads
    /\ life = [p \in Producers |-> "run"]
    /\ commands = {p \in Producers : kind[p] # "connection"}
    /\ out = [p \in Producers |-> << >>]
    /\ closed = {}
    /\ at = [w \in Crew |-> "take"]
    /\ obj = [w \in Crew |-> None]
    /\ seen = {} /\ passed = [k \in Payloads |-> 0] /\ raced = {}
    /\ tapped = FALSE /\ tapOpen = TRUE
    /\ tapQueue = << >>
    /\ planeList = {} /\ currentPlanes = 0 /\ evicting = None
    /\ forgetsLeft = MaxForgets
    /\ producers = SetToSeq(Producers) /\ gone = {}
    /\ finishDone = FALSE /\ stopCalls = {}
    /\ ctl = [r \in Routines |-> IF r = "Wait" THEN "producers" ELSE "idle"]
    /\ exited = "no"

-----------------------------------------------------------------------------
(* Producers.                                                              *)

(* isWorking: the fetcher has not handled its command to exit.             *)
Working(p) == life[p] \in {"run", "exit"}

(* fetcher: dialling holds wLock, so it is one step.  After a failure, as  *)
(* after the end of a connection, the goroutine asks whether to go on; it  *)
(* has asked before it dials, and may dial once more after the exit.       *)
Dial(p) ==
    /\ reader[p] = "dial"
    /\ \E next \in {"read", IF Working(p) THEN "dial" ELSE "end"} :
          reader' = [reader EXCEPT ![p] = next]
    /\ UNCHANGED <<kind, poolVars, hold, readsLeft, life, commands, out,
                   closed, workVars, dedupeVars, tapVars, planeVars,
                   forgetsLeft, ctlVars, exited>>

(* beastScanner: NewFrame takes an object from the pool and fills it, but  *)
(* leaves hasDecoded as it was; what is no Mode S message the scanner      *)
(* gives back at once.                                                     *)
ReadFrame(p) ==
    /\ reader[p] = "read"
    /\ hold[p] = None
    /\ readsLeft[p] > 0
    /\ \E o \in pool, k \in Payloads :
          /\ pool' = pool \ {o}
          /\ content' = [content EXCEPT ![o] = k]
          /\ hold' = [hold EXCEPT ![p] = o]
    /\ readsLeft' = [readsLeft EXCEPT ![p] = @ - 1]
    /\ UNCHANGED <<marked, kind, reader, life, commands, out, closed, workVars,
                   dedupeVars, tapVars, planeVars, forgetsLeft, ctlVars,
                   exited>>

(* AddEvent waits for room; on a closed channel it recovers and the frame  *)
(* is garbage, which leaves its memory free to be another frame.           *)
AddEvent(p) ==
    /\ hold[p] # None
    /\ \/ /\ p \notin closed
          /\ Len(out[p]) < OutCap
          /\ out' = [out EXCEPT ![p] = Append(@, hold[p])]
          /\ UNCHANGED poolVars
       \/ /\ p \in closed
          /\ pool' = pool \union {hold[p]}
          /\ content' = [content EXCEPT ![hold[p]] = None]
          /\ marked' = marked \ {hold[p]}
          /\ UNCHANGED out
    /\ hold' = [hold EXCEPT ![p] = None]
    /\ UNCHANGED <<kind, reader, readsLeft, life, commands, closed, workVars,
                   dedupeVars, tapVars, planeVars, forgetsLeft, ctlVars,
                   exited>>

(* The data of a connection end.  A fetcher dials again unless it was      *)
(* stopped; a listener waits for another connection; the producer of one   *)
(* connection has nothing left to do.                                      *)
EndOfData(p) ==
    /\ reader[p] = "read"
    /\ hold[p] = None
    /\ \/ /\ kind[p] = "fetcher"
          /\ reader' = [reader EXCEPT ![p] =
                           IF Working(p) THEN "dial" ELSE "end"]
          /\ UNCHANGED life
       \/ /\ kind[p] = "connection"
          /\ reader' = [reader EXCEPT ![p] = "end"]
          /\ life' = [life EXCEPT ![p] = "cleanup"]
    /\ UNCHANGED <<kind, poolVars, hold, readsLeft, commands, out, closed,
                   workVars, dedupeVars, tapVars, planeVars, forgetsLeft,
                   ctlVars, exited>>

(* The last file is read, or could not be opened: its goroutine cleans up, *)
(* whether or not the one that receives commands still waits for them.     *)
readFiles(p) ==
    /\ kind[p] = "files"
    /\ reader[p] = "read"
    /\ hold[p] = None
    /\ reader' = [reader EXCEPT ![p] = "end"]
    /\ life' = [life EXCEPT ![p] = "cleanup"]
    /\ UNCHANGED <<kind, poolVars, hold, readsLeft, commands, out, closed,
                   workVars, dedupeVars, tapVars, planeVars, forgetsLeft,
                   ctlVars, exited>>

(* WithListener: net.Listen fails, before anybody receives commands.       *)
ListenFails(p) ==
    /\ kind[p] = "listener"
    /\ reader[p] = "read" /\ hold[p] = None /\ readsLeft[p] = MaxReads[p]
    /\ life[p] = "run" /\ p \in commands
    /\ reader' = [reader EXCEPT ![p] = "end"]
    /\ life' = [life EXCEPT ![p] = "cleanup"]
    /\ commands' = commands \ {p}
    /\ UNCHANGED <<kind, poolVars, hold, readsLeft, out, closed, workVars,
                   dedupeVars, tapVars, planeVars, forgetsLeft, ctlVars,
                   exited>>

(* Stop meets the goroutine that receives from cmdChan, which ends.  For   *)
(* files that is all; a listener is closed and its run function returns,   *)
(* while its connections are read on; a fetcher has still to get wLock.    *)
Stop(p) ==
    /\ p \in commands
    /\ \E r \in Routines :
          /\ <<r, p>> \in stopCalls
          /\ stopCalls' = stopCalls \ {<<r, p>>}
    /\ commands' = commands \ {p}
    /\ life' = [life EXCEPT ![p] =
                   CASE kind[p] = "fetcher"  -> "exit"
                     [] kind[p] = "listener" -> "cleanup"
                     [] OTHER                  -> @]
    /\ UNCHANGED <<kind, poolVars, reader, hold, readsLeft, out, closed,
                   workVars, dedupeVars, tapVars, planeVars, forgetsLeft,
                   producers, gone, finishDone, ctl, exited>>

(* fetcher: once no dial is under way, working is FALSE.                   *)
CloseConnection(p) ==
    /\ life[p] = "exit"
    /\ life' = [life EXCEPT ![p] = "cleanup"]
    /\ UNCHANGED <<kind, poolVars, reader, hold, readsLeft, commands, out,
                   closed, workVars, dedupeVars, tapVars, planeVars,
                   forgetsLeft, ctlVars, exited>>

(* Mutant: the channel stays open.                                         *)
CleanupKeepsOpen(p) ==
    /\ life[p] = "cleanup"
    /\ life' = [life EXCEPT ![p] = "ended"]
    /\ UNCHANGED <<kind, poolVars, reader, hold, readsLeft, commands, out,
                   closed, workVars, dedupeVars, tapVars, planeVars,
                   forgetsLeft, ctlVars, exited>>

Cleanup(p) ==
    /\ life[p] = "cleanup"
    /\ closed' = closed \union {p}
    /\ life' = [life EXCEPT ![p] = "ended"]
    /\ UNCHANGED <<kind, poolVars, reader, hold, readsLeft, commands, out,
                   workVars, dedupeVars, tapVars, planeVars, forgetsLeft,
                   ctlVars, exited>>

-----------------------------------------------------------------------------
(* decodeQueue, one worker w = <<p, n>>.                                   *)

Goto(w, place) == at' = [at EXCEPT ![w] = place]

(* beast.Release: the frame is cleared and back in the pool.               *)
Release(w) ==
    /\ pool' = pool \union {obj[w]}
    /\ content' = [content EXCEPT ![obj[w]] = None]
    /\ marked' = marked \ {obj[w]}
    /\ obj' = [obj EXCEPT ![w] = None]

(* The next frame; one that does not decode is released at once.  One that *)
(* is marked as decoded is not decoded at all.                             *)
Take(w) ==
    /\ at[w] = "take"
    /\ out[w[1]] # << >>
    /\ LET o == Head(out[w[1]])
       IN  IF content[o] \in Bad /\ o \notin marked
           THEN /\ pool' = pool \union {o}
                /\ content' = [content EXCEPT ![o] = None]
                /\ UNCHANGED <<marked, workVars>>
           ELSE /\ obj' = [obj EXCEPT ![w] = o]
                /\ Goto(w, "check")
                /\ UNCHANGED poolVars
    /\ out' = [out EXCEPT ![w[1]] = Tail(@)]
    /\ UNCHANGED <<kind, reader, hold, readsLeft, life, commands, closed,
                   dedupeVars, tapVars, planeVars, forgetsLeft, ctlVars,
                   exited>>

(* The channel is closed and empty: the worker reports that it is done.    *)
EndOfQueue(w) ==
    /\ at[w] = "take"
    /\ out[w[1]] = << >> /\ w[1] \in closed
    /\ Goto(w, "done")
    /\ UNCHANGED <<poolVars, prodVars, obj, dedupeVars, tapVars, planeVars,
                   forgetsLeft, ctlVars, exited>>

(* Filter.Handle looks the payload up, then adds it.  Mutant: the frame of *)
(* a duplicate is released and still handled.                              *)
HasKeyReleased(w) ==
    /\ at[w] = "check"
    /\ IF content[obj[w]] \in seen
       THEN /\ pool' = pool \union {obj[w]}
            /\ Goto(w, "load")
            /\ UNCHANGED <<content, marked, obj>>
       ELSE Goto(w, "add") /\ UNCHANGED <<poolVars, obj>>
    /\ UNCHANGED <<prodVars, dedupeVars, tapVars, planeVars, forgetsLeft,
                   ctlVars, exited>>

(* Worker w has looked payload k up, found it new, and not added it yet.   *)
Adds(w, k) == at[w] = "add" /\ content[obj[w]] = k

HasKey(w) ==
    /\ at[w] = "check"
    /\ IF content[obj[w]] \in seen
       THEN Release(w) /\ Goto(w, "take") /\ UNCHANGED raced
       ELSE /\ Goto(w, "add")
            /\ raced' = IF \E v \in Crew \ {w} : Adds(v, content[obj[w]])
                        THEN raced \union {content[obj[w]]} ELSE raced
            /\ UNCHANGED <<poolVars, obj>>
    /\ UNCHANGED <<prodVars, seen, passed, tapVars, planeVars, forgetsLeft,
                   ctlVars, exited>>

(* Mutant: the payload is not remembered.                                  *)
AddKeyForgotten(w) ==
    /\ at[w] = "add"
    /\ passed' = [passed EXCEPT ![content[obj[w]]] = @ + 1]
    /\ Goto(w, "tap")
    /\ UNCHANGED <<poolVars, prodVars, obj, seen, raced, tapVars, planeVars,
                   forgetsLeft, ctlVars, exited>>

AddKey(w) ==
    /\ at[w] = "add"
    /\ seen' = seen \union {content[obj[w]]}
    /\ passed' = [passed EXCEPT ![content[obj[w]]] = @ + 1]
    /\ Goto(w, "tap")
    /\ UNCHANGED <<poolVars, prodVars, obj, raced, tapVars, planeVars,
                   forgetsLeft, ctlVars, exited>>

(* IngestTap.Handle queues the frame itself, not a copy; a full queue      *)
(* drops it, a closed one panics.                                          *)
Tap(w) ==
    /\ at[w] = "tap"
    /\ IF tapped /\ ~ tapOpen
       THEN exited' = "panic" /\ UNCHANGED <<at, tapQueue>>
       ELSE /\ tapQueue' = IF tapped /\ Len(tapQueue) < TapCap
                           THEN Append(tapQueue, obj[w]) ELSE tapQueue
            /\ Goto(w, "load")
            /\ UNCHANGED exited
    /\ UNCHANGED <<poolVars, prodVars, obj, dedupeVars, tapped, tapOpen,
                   planeVars, forgetsLeft, ctlVars>>

(* Mutant: the address is taken from the bytes, decoded or not.            *)
LoadPlaneUnread(w) ==
    /\ at[w] = "load"
    /\ LET icao == IcaoOf[content[obj[w]]]
       IN  IF icao = None
           THEN Release(w) /\ Goto(w, "take")
           ELSE /\ Goto(w, IF icao \in planeList THEN "handle" ELSE "store")
                /\ UNCHANGED <<poolVars, obj>>
    /\ UNCHANGED <<prodVars, dedupeVars, tapVars, planeVars,
                   forgetsLeft, ctlVars, exited>>

(* A frame without an address is dropped, as one is that was not decoded:  *)
(* Icao of an undecoded frame is 0.  GetPlane looks the plane up, then     *)
(* makes one if there was none.                                            *)
LoadPlane(w) ==
    /\ at[w] = "load"
    /\ LET icao == IcaoOf[content[obj[w]]]
       IN  IF icao = None \/ obj[w] \in marked
           THEN Release(w) /\ Goto(w, "take")
           ELSE /\ Goto(w, IF icao \in planeList THEN "handle" ELSE "store")
                /\ UNCHANGED <<poolVars, obj>>
    /\ UNCHANGED <<prodVars, dedupeVars, tapVars, planeVars,
                   forgetsLeft, ctlVars, exited>>

(* Mutant: the plane is not counted.                                       *)
StorePlaneUncounted(w) ==
    /\ at[w] = "store"
    /\ planeList' = planeList \union {IcaoOf[content[obj[w]]]}
    /\ Goto(w, "handle")
    /\ UNCHANGED <<poolVars, prodVars, obj, dedupeVars, tapVars,
                   currentPlanes, evicting, forgetsLeft, ctlVars, exited>>

StorePlane(w) ==
    /\ at[w] = "store"
    /\ currentPlanes' = currentPlanes + 1
    /\ planeList' = planeList \union {IcaoOf[content[obj[w]]]}
    /\ Goto(w, "handle")
    /\ UNCHANGED <<poolVars, prodVars, obj, dedupeVars, tapVars, evicting,
                   forgetsLeft, ctlVars, exited>>

(* HandleModeSFrame, then Release.                                         *)
HandleFrame(w) ==
    /\ at[w] = "handle"
    /\ Release(w)
    /\ Goto(w, "take")
    /\ UNCHANGED <<prodVars, dedupeVars, tapVars, planeVars, forgetsLeft,
                   ctlVars, exited>>

-----------------------------------------------------------------------------
(* The goroutines beside the workers.                                      *)

(* IngestTap.requestHandler: the first condition is added, or the last one *)
(* removed.                                                                *)
TapRequest ==
    /\ tapped' = ~ tapped
    /\ UNCHANGED <<poolVars, prodVars, workVars, dedupeVars, tapOpen,
                   tapQueue, planeVars, forgetsLeft, ctlVars, exited>>

(* IngestTap.processQueue, in eight goroutines: one of the queued frames   *)
(* is matched and sent with what it says by now.  The worker may have      *)
(* released it: then a condition with an address decodes a frame that is   *)
(* cleared, which sets its hasDecoded in the pool.                         *)
TapSend ==
    /\ \E i \in 1 .. Len(tapQueue) :
          /\ tapQueue' = RemoveAt(tapQueue, i)
          /\ marked' \in {marked, IF tapped /\ tapQueue[i] \in pool
                                  THEN marked \union {tapQueue[i]} ELSE marked}
    /\ UNCHANGED <<pool, content, prodVars, workVars, dedupeVars, tapped,
                   tapOpen, planeVars, forgetsLeft, ctlVars, exited>>

(* The sweeper of the dedupe filter forgets a payload.  The race of two    *)
(* workers that have looked it up and not yet added it goes on.            *)
ForgetKey(k) ==
    /\ forgetsLeft > 0
    /\ k \in seen
    /\ seen' = seen \ {k}
    /\ passed' = [passed EXCEPT ![k] = 0]
    /\ raced' = IF \E v, w \in Crew : v # w /\ Adds(v, k) /\ Adds(w, k)
                THEN raced ELSE raced \ {k}
    /\ forgetsLeft' = forgetsLeft - 1
    /\ UNCHANGED <<poolVars, prodVars, workVars, tapVars, planeVars, ctlVars,
                   exited>>

(* The sweeper of planeList: the pre-eviction action, then the deletion.   *)
EvictPlane(i) ==
    /\ evicting = None
    /\ forgetsLeft > 0
    /\ i \in planeList
    /\ evicting' = i
    /\ currentPlanes' = currentPlanes - 1
    /\ forgetsLeft' = forgetsLeft - 1
    /\ UNCHANGED <<poolVars, prodVars, workVars, dedupeVars, tapVars,
                   planeList, ctlVars, exited>>

(* Mutant: the deletion is counted as well.                                *)
DeletePlaneCounted ==
    /\ evicting # None
    /\ planeList' = planeList \ {evicting}
    /\ evicting' = None
    /\ currentPlanes' = currentPlanes - 1
    /\ UNCHANGED <<poolVars, prodVars, workVars, dedupeVars, tapVars,
                   forgetsLeft, ctlVars, exited>>

DeletePlane ==
    /\ evicting # None
    /\ planeList' = planeList \ {evicting}
    /\ evicting' = None
    /\ UNCHANGED <<poolVars, prodVars, workVars, dedupeVars, tapVars,
                   currentPlanes, forgetsLeft, ctlVars, exited>>

-----------------------------------------------------------------------------
(* The tracker.                                                            *)

WorkersDone(p) == \A n \in Workers : at[<<p, n>>] = "done"

(* AddProducer's waiter: all workers are done, the first producer of that  *)
(* name is removed.                                                        *)
removeProducer(p) ==
    /\ p \notin gone
    /\ WorkersDone(p)
    /\ gone' = gone \union {p}
    /\ producers' =
          LET same == {k \in DOMAIN producers :
                          NameOf[producers[k]] = NameOf[p]}
              first == CHOOSE k \in same : \A j \in same : k <= j
          IN  IF same = {} THEN producers ELSE RemoveAt(producers, first)
    /\ UNCHANGED <<poolVars, prodVars, workVars, dedupeVars, tapVars,
                   planeVars, forgetsLeft, finishDone, stopCalls, ctl, exited>>

Proceed(r, place) == ctl' = [ctl EXCEPT ![r] = place]

LeaveTracker ==
    UNCHANGED <<poolVars, prodVars, workVars, dedupeVars, tapped, tapQueue,
                planeVars, forgetsLeft, producers, gone>>

Signal ==
    /\ ctl["Stop"] = "idle"
    /\ Proceed("Stop", "check")
    /\ LeaveTracker
    /\ UNCHANGED <<tapOpen, finishDone, stopCalls, exited>>

(* Finish reads finishDone, then sets it and starts to stop things.        *)
FinishCheck(r) ==
    /\ ctl[r] = "check"
    /\ Proceed(r, IF finishDone THEN "drain" ELSE "start")
    /\ LeaveTracker
    /\ UNCHANGED <<tapOpen, finishDone, stopCalls, exited>>

(* Every producer and every middleware is stopped in its own goroutine.    *)
FinishStart(r) ==
    /\ ctl[r] = "start"
    /\ finishDone' = TRUE
    /\ stopCalls' =
          stopCalls \union ({r} \X (Range(producers) \union {"tap"}))
    /\ Proceed(r, "stopping")
    /\ LeaveTracker
    /\ UNCHANGED <<tapOpen, exited>>

(* IngestTap.Stop: a channel that is closed twice panics.                  *)
CloseTap(r) ==
    /\ <<r, "tap">> \in stopCalls
    /\ stopCalls' = stopCalls \ {<<r, "tap">>}
    /\ tapOpen' = FALSE
    /\ exited' = IF tapOpen THEN exited ELSE "panic"
    /\ LeaveTracker
    /\ UNCHANGED <<finishDone, ctl>>

(* All that was stopped has stopped, and what the tap queued is sent.      *)
FinishEnd(r) ==
    /\ ctl[r] = "stopping"
    /\ \A c \in stopCalls : c[1] # r
    /\ tapQueue = << >>
    /\ Proceed(r, "drain")
    /\ LeaveTracker
    /\ UNCHANGED <<tapOpen, finishDone, stopCalls, exited>>

(* Mutant: Wait does not wait for the producers.                           *)
WaitForProducersNot ==
    /\ ctl["Wait"] = "producers"
    /\ Proceed("Wait", "check")
    /\ LeaveTracker
    /\ UNCHANGED <<tapOpen, finishDone, stopCalls, exited>>

(* Wait: all producers' waiters are done, then Finish.                     *)
WaitForProducers ==
    /\ ctl["Wait"] = "producers"
    /\ gone = Producers
    /\ Proceed("Wait", "check")
    /\ LeaveTracker
    /\ UNCHANGED <<tapOpen, finishDone, stopCalls, exited>>

(* After Wait main returns; after Stop StopOnCancel does.                  *)
Drained(r) ==
    /\ ctl[r] = "drain"
    /\ r = "Stop" => gone = Producers
    /\ Proceed(r, "returned")
    /\ exited' = IF r = "Wait" THEN "clean" ELSE exited
    /\ LeaveTracker
    /\ UNCHANGED <<tapOpen, finishDone, stopCalls>>

(* StopOnCancel: five seconds have passed, or a second signal came.        *)
ForceExit ==
    /\ ctl["Stop"] # "idle"
    /\ exited' = "forced"
    /\ LeaveTracker
    /\ UNCHANGED <<tapOpen, finishDone, stopCalls, ctl>>

-----------------------------------------------------------------------------
Shut(p) == Stop(p) \/ CloseConnection(p) \/ Cleanup(p) \/ removeProducer(p)

decodeQueue(w) ==
    \/ Take(w) \/ EndOfQueue(w) \/ HasKey(w) \/ AddKey(w) \/ Tap(w)
    \/ LoadPlane(w) \/ StorePlane(w) \/ HandleFrame(w)

Finish(r) ==
    \/ FinishCheck(r) \/ FinishStart(r) \/ CloseTap(r) \/ FinishEnd(r)
    \/ Drained(r)

Terminated == exited # "no" /\ UNCHANGED vars

Next ==
    \/ /\ exited = "no"
       /\ \/ \E p \in Producers : \/ Dial(p) \/ ReadFrame(p)
                                  \/ AddEvent(p) \/ EndOfData(p) \/ readFiles(p)
                                  \/ ListenFails(p) \/ Shut(p)
          \/ \E w \in Crew : decodeQueue(w)
          \/ TapRequest \/ TapSend \/ DeletePlane
          \/ \E k \in Payloads : ForgetKey(k)
          \/ \E i \in Icaos : EvictPlane(i)
          \/ Signal \/ WaitForProducers \/ ForceExit
          \/ \E r \in Routines : Finish(r)
    \/ Terminated

Spec == Init /\ [][Next]_vars

(* Goroutines are scheduled and net.Dial returns; files have an end.  Data *)
(* need not come, and neither a signal nor the exit that is forced.        *)
Running(A) == exited = "no" /\ A

Fairness ==
    /\ \A p \in Producers :
          /\ WF_vars(Running(AddEvent(p))) /\ WF_vars(Running(Shut(p)))
          /\ WF_vars(Running(readFiles(p)))
    /\ \A w \in Crew : WF_vars(Running(decodeQueue(w)))
    /\ WF_vars(Running(TapSend)) /\ WF_vars(Running(WaitForProducers))
    /\ \A r \in Routines : WF_vars(Running(Finish(r)))

FairSpec == Spec /\ Fairness

-----------------------------------------------------------------------------
(* Type invariant.  The gauge of planes, in particular, is never negative. *)
TypeOK ==
    /\ kind \in [Producers -> Kinds]
    /\ pool \subseteq Objects
    /\ content \in [Objects -> Payloads \union {None}]
    /\ marked \subseteq Objects
    /\ reader \in [Producers -> {"dial", "read", "end"}]
    /\ hold \in [Producers -> Objects \union {None}]
    /\ readsLeft \in [Producers -> Nat]
    /\ life \in [Producers -> {"run", "exit", "cleanup", "ended"}]
    /\ commands \subseteq Producers
    /\ out \in [Producers -> Seq(Objects)]
    /\ closed \subseteq Producers
    /\ at \in [Crew -> {"take", "check", "add", "tap", "load", "store",
                        "handle", "done"}]
    /\ obj \in [Crew -> Objects \union {None}]
    /\ seen \subseteq Payloads /\ raced \subseteq Payloads
    /\ passed \in [Payloads -> Nat]
    /\ {tapped, tapOpen} \subseteq BOOLEAN
    /\ tapQueue \in Seq(Objects) /\ Len(tapQueue) <= TapCap
    /\ planeList \subseteq Icaos /\ currentPlanes \in Nat
    /\ evicting \in Icaos \union {None}
    /\ forgetsLeft \in Nat
    /\ producers \in Seq(Producers) /\ gone \subseteq Producers
    /\ finishDone \in BOOLEAN /\ stopCalls \subseteq Routines \X Stoppable
    /\ ctl \in [Routines -> {"idle", "producers", "check", "start",
                             "stopping", "drain", "returned"}]
    /\ exited \in {"no", "clean", "forced", "panic"}

(* The places a frame is worked on in: with the producer, on its channel,  *)
(* or with one of its workers.  The tap's queue is none of them.           *)
Places(o) ==
    {<<"reader", p>> : p \in {q \in Producers : hold[q] = o}}
        \union {<<"channel", x>> : x \in {y \in Producers \X (1 .. OutCap) :
                    y[2] <= Len(out[y[1]]) /\ out[y[1]][y[2]] = o}}
        \union {<<"worker", w>> : w \in {v \in Crew : obj[v] = o}}

(* A pooled frame has one owner among the producers, their channels and    *)
(* the workers: none of them uses one that was released, nor one that      *)
(* another of them has (input.go releases on every path, once).  The       *)
(* exception is the tap, which keeps frames in its queue that their worker *)
(* has released since, against the rule of beast.NewFrame.                 *)
OwnedOnce ==
    \A o \in Objects :
        Cardinality(Places(o)) = IF o \in pool THEN 0 ELSE 1

(* Within the time the dedupe filter remembers, a message goes on twice    *)
(* only if two workers looked it up before either had added it.            *)
DuplicatesOnlyByRace == \A k \in Payloads : passed[k] > 1 => k \in raced

(* No plane goes uncounted: the gauge is at least the number of planes     *)
(* that are not on their way out, whatever workers and sweeper do at once. *)
PlanesCounted == Cardinality(planeList \ {evicting}) <= currentPlanes

(* What the tap does to a frame after its release reaches no plane: the    *)
(* next frame in a marked object goes to a worker undecoded, and is lost   *)
(* there; it does not bring a plane what it never read.                    *)
UnreadDropped ==
    \A w \in Crew : at[w] \in {"store", "handle"} => obj[w] \notin marked

(* Everything pooled or counted is accounted for: a frame has one owner,   *)
(* the tap apart, what the tap spoils is dropped, and the gauge of planes  *)
(* is not below the planes that are there to stay.                         *)
Accounted == TypeOK /\ OwnedOnce /\ UnreadDropped /\ PlanesCounted

(* A process that ends by itself leaves no frame behind: what producers    *)
(* queued is through the workers when Wait returns.                        *)
NothingLeftBehind ==
    exited = "clean" =>
        /\ \A p \in Producers : out[p] = << >>
        /\ \A w \in Crew : at[w] = "done"

(* Stop of a producer that has no goroutine receiving commands blocks.     *)
Unstoppable == \E c \in stopCalls : c[2] \in Producers \ commands

(* After a signal, and when the input has ended, the process ends by       *)
(* itself, frames in flight, full channels and dialling fetchers           *)
(* notwithstanding, unless a producer cannot be stopped (a connection, a   *)
(* failed listener): that takes the forced exit of StopOnCancel.           *)
ShutdownCompletes ==
    (ctl["Stop"] # "idle" \/ closed = Producers)
        ~> (exited # "no" \/ Unstoppable)
=============================================================================
