-------------------------------- MODULE Runway --------------------------------
(***************************************************************************)
(* The life of cmd/runway: two TLS listeners (lib/stunnel), one for BEAST  *)
(* and one for MLAT, each with a ticker that reloads the certificate and a *)
(* loop that accepts; a context that every listener cancels on its way     *)
(* out; the tracker, stopped by a signal (StopOnCancel) or when main       *)
(* reaches Wait.                                                           *)
(*                                                                         *)
(* A certificate is the number of its issue; the pair of files on the disk *)
(* is 0 while only one of them has been replaced, which does not load.     *)
(* Whom handleIncoming lets in is the subject of FeederAuth, what Finish   *)
(* does to the workers that of Ingest.  A connection that Accept reports   *)
(* as failed, with the listener open, changes nothing.                     *)
(***************************************************************************)
EXTENDS Integers, FiniteSets

CONSTANTS Connections,    \* feeders' connections
          MaxIssue        \* bound on the certificates issued

Listeners == {"beast", "mlat"}

VARIABLES authenticator,  \* feederauth.New gave a cache, not an error
          listener,       \* per listener: "new", "loaded", "open", "closing", "returned"
          accepting,      \* per listener: its accept loop, "off", "on", "ended"
          reloading,      \* per listener: its ticker, "off", "on", "cancelled", "ended"
          cert,           \* per listener: Listener.cert, 0 is nil
          disk, issued,   \* the files, the newest issue
          feed,           \* per connection: where it is, and at which listener
          served,         \* per connection: the certificate of its handshake
          cancelled,      \* the context
          onCancel,       \* StopOnCancel: "wait", "stopping", "returned"
          stopper,        \* its goroutine calling Stop: "off", "finish", "drain", "done"
          finished,       \* Tracker.finishDone
          stopped,        \* the producers Finish was told to stop
          mainPc,         \* runDaemon: "listeners", "producers", "finish", "over"
          exited          \* the process has ended

runwayVars == <<authenticator, listener, accepting, reloading, cert, disk, issued, feed, served,
                cancelled, onCancel, stopper, finished, stopped, mainPc, exited>>
listenVars == <<listener, accepting, reloading, cert>>
feedVars == <<feed, served>>
endVars == <<onCancel, stopper, finished, stopped, mainPc, exited>>

NoLink == [at |-> "none", to |-> "beast"]

RunwayInit ==
    /\ authenticator \in BOOLEAN
    /\ listener = [l \in Listeners |-> "new"] /\ accepting = [l \in Listeners |-> "off"]
    /\ reloading = [l \in Listeners |-> "off"] /\ cert = [l \in Listeners |-> 0]
    /\ disk \in {0, 1} /\ issued = 1
    /\ feed = [c \in Connections |-> NoLink] /\ served = [c \in Connections |-> 1]
    /\ cancelled = FALSE /\ onCancel = "wait" /\ stopper = "off"
    /\ finished = FALSE /\ stopped = {} /\ mainPc = "listeners" /\ exited = FALSE

Producers == {c \in Connections : feed[c].at = "producing"}

(* ----------------------------------------------------------- a listener *)

(* Mutant: a listener that ends does not cancel the context.               *)
ReturnedAlone(l) ==
    /\ listener' = [listener EXCEPT ![l] = "returned"]
    /\ UNCHANGED cancelled

(* The listener's goroutine in runDaemon returns: its deferred cancel.     *)
Returned(l) ==
    /\ listener' = [listener EXCEPT ![l] = "returned"]
    /\ cancelled' = TRUE

(* ListenForIncomingPlaneWatchBeast and -MLAT: no authenticator, no NATS   *)
(* or a certificate that does not load is the end; NewListener loads it.   *)
StartListener(l) ==
    /\ ~exited /\ listener[l] = "new"
    /\ \/ Returned(l) /\ UNCHANGED cert
       \/ /\ authenticator /\ disk # 0
          /\ cert' = [cert EXCEPT ![l] = disk]
          /\ listener' = [listener EXCEPT ![l] = "loaded"]
          /\ UNCHANGED cancelled
    /\ UNCHANGED <<authenticator, accepting, reloading, disk, issued, feedVars, endVars>>

(* Mutant: the ticker goes on when the port cannot be listened on.         *)
ListenLeaky(l) ==
    /\ ~exited /\ listener[l] = "loaded"
    /\ \/ /\ listener' = [listener EXCEPT ![l] = "open"]
          /\ accepting' = [accepting EXCEPT ![l] = "on"]
          /\ reloading' = [reloading EXCEPT ![l] = "on"]
          /\ UNCHANGED cancelled
       \/ /\ reloading' = [reloading EXCEPT ![l] = "on"]
          /\ Returned(l) /\ UNCHANGED accepting
    /\ UNCHANGED <<authenticator, cert, disk, issued, feedVars, endVars>>

(* Listen starts the ticker, then opens the port: if that fails the        *)
(* deferred cancelTicker runs, and the loop of accepts is never started.   *)
Listen(l) ==
    /\ ~exited /\ listener[l] = "loaded"
    /\ \/ /\ listener' = [listener EXCEPT ![l] = "open"]
          /\ accepting' = [accepting EXCEPT ![l] = "on"]
          /\ reloading' = [reloading EXCEPT ![l] = "on"]
          /\ UNCHANGED cancelled
       \/ /\ reloading' = [reloading EXCEPT ![l] = "cancelled"]
          /\ Returned(l) /\ UNCHANGED accepting
    /\ UNCHANGED <<authenticator, cert, disk, issued, feedVars, endVars>>

(* Mutant: what was read is stored before the error is looked at.          *)
ReloadCertificateUnchecked(l) ==
    /\ ~exited /\ reloading[l] \in {"on", "cancelled"}
    /\ cert' = [cert EXCEPT ![l] = disk]
    /\ UNCHANGED <<authenticator, listener, accepting, reloading, disk, issued, feedVars, cancelled, endVars>>

(* ReloadCertificate on the ticker; select may still choose the tick when  *)
(* the ticker is cancelled.                                                *)
ReloadCertificate(l) ==
    /\ ~exited /\ reloading[l] \in {"on", "cancelled"} /\ disk # 0
    /\ cert' = [cert EXCEPT ![l] = disk]
    /\ UNCHANGED <<authenticator, listener, accepting, reloading, disk, issued, feedVars, cancelled, endVars>>

TickerEnds(l) ==
    /\ ~exited /\ reloading[l] = "cancelled"
    /\ reloading' = [reloading EXCEPT ![l] = "ended"]
    /\ UNCHANGED <<authenticator, listener, accepting, cert, disk, issued, feedVars, cancelled, endVars>>

(* The context is done: the port is closed, with what waits to be          *)
(* accepted.                                                               *)
CloseListener(l) ==
    /\ ~exited /\ listener[l] = "open" /\ cancelled
    /\ listener' = [listener EXCEPT ![l] = "closing"]
    /\ feed' = [c \in Connections |->
                   IF feed[c] = [at |-> "waiting", to |-> l] THEN [at |-> "gone", to |-> l] ELSE feed[c]]
    /\ UNCHANGED <<authenticator, accepting, reloading, cert, disk, issued, served, cancelled, endVars>>

AcceptClosed(l) ==
    /\ ~exited /\ listener[l] = "closing" /\ accepting[l] = "on"
    /\ accepting' = [accepting EXCEPT ![l] = "ended"]
    /\ UNCHANGED <<authenticator, listener, reloading, cert, disk, issued, feedVars, cancelled, endVars>>

(* wg.Wait, then the deferred cancelTicker.                                *)
ListenReturns(l) ==
    /\ ~exited /\ listener[l] = "closing" /\ accepting[l] = "ended"
    /\ Returned(l)
    /\ reloading' = [reloading EXCEPT ![l] = "cancelled"]
    /\ UNCHANGED <<authenticator, accepting, cert, disk, issued, feedVars, endVars>>

(* --------------------------------------------------------- connections *)

Connect(c, l) ==
    /\ ~exited /\ feed[c].at = "none" /\ listener[l] = "open"
    /\ feed' = [feed EXCEPT ![c] = [at |-> "waiting", to |-> l]]
    /\ UNCHANGED <<authenticator, listenVars, disk, issued, served, cancelled, endVars>>

Accept(c) ==
    /\ ~exited /\ feed[c].at = "waiting" /\ accepting[feed[c].to] = "on"
    /\ feed' = [feed EXCEPT ![c].at = "handshake"]
    /\ UNCHANGED <<authenticator, listenVars, disk, issued, served, cancelled, endVars>>

(* handleIncoming, in a goroutine nobody waits for: the handshake takes    *)
(* the certificate of the moment (GetCertificate); a deadline, a failure   *)
(* or the authentication may end it, else the handler turns BEAST into a   *)
(* producer of the tracker and MLAT into a bridge.                         *)
Handler(l) == IF l = "beast" THEN "producing" ELSE "bridged"

HandleIncoming(c) ==
    /\ ~exited /\ feed[c].at = "handshake"
    /\ served' = [served EXCEPT ![c] = cert[feed[c].to]]
    /\ \E next \in {Handler(feed[c].to), "gone"} : feed' = [feed EXCEPT ![c].at = next]
    /\ UNCHANGED <<authenticator, listenVars, disk, issued, cancelled, endVars>>

(* The feeder leaves.                                                      *)
Leave(c) ==
    /\ ~exited /\ feed[c].at \in {"producing", "bridged"}
    /\ feed' = [feed EXCEPT ![c].at = "gone"]
    /\ UNCHANGED <<authenticator, listenVars, disk, issued, served, cancelled, endVars>>

(* A producer that Finish stopped ends.                                    *)
ProducerStops(c) ==
    /\ ~exited /\ c \in stopped \cap Producers
    /\ feed' = [feed EXCEPT ![c].at = "gone"]
    /\ UNCHANGED <<authenticator, listenVars, disk, issued, served, cancelled, endVars>>

(* The operator replaces the two files, one after the other.               *)
Renew ==
    /\ ~exited
    /\ \/ disk # 0 /\ issued < MaxIssue /\ disk' = 0 /\ issued' = issued + 1
       \/ disk = 0 /\ disk' = issued /\ UNCHANGED issued
    /\ UNCHANGED <<authenticator, listenVars, feedVars, cancelled, endVars>>

(* -------------------------------------------------------------- the end *)

UnchangedWork == UNCHANGED <<authenticator, listenVars, disk, issued, feedVars>>

(* Finish: once; it stops the producers there are at this moment.          *)
Finished ==
    /\ finished' = TRUE
    /\ stopped' = IF finished THEN stopped ELSE Producers

(* StopOnCancel: the first signal starts Stop and the five seconds, the    *)
(* second one ends the process.                                            *)
Signal ==
    /\ ~exited
    /\ \/ /\ onCancel = "wait" /\ onCancel' = "stopping" /\ stopper' = "finish" /\ UNCHANGED exited
       \/ onCancel = "stopping" /\ exited' = TRUE /\ UNCHANGED <<onCancel, stopper>>
    /\ UNCHANGED <<finished, stopped, mainPc, cancelled>> /\ UnchangedWork

StopFinishes ==
    /\ ~exited /\ stopper = "finish" /\ stopper' = "drain" /\ Finished
    /\ UNCHANGED <<onCancel, mainPc, exited, cancelled>> /\ UnchangedWork

StopDrained ==
    /\ ~exited /\ stopper = "drain" /\ Producers = {} /\ stopper' = "done"
    /\ UNCHANGED <<onCancel, finished, stopped, mainPc, exited, cancelled>> /\ UnchangedWork

(* exitChan: StopOnCancel returns and its callback cancels the context.    *)
CancelAfterStop ==
    /\ ~exited /\ onCancel = "stopping" /\ stopper = "done"
    /\ onCancel' = "returned" /\ cancelled' = TRUE
    /\ UNCHANGED <<stopper, finished, stopped, mainPc, exited>> /\ UnchangedWork

(* Mutant: the five seconds count only until Finish has returned.          *)
ForceExitEarly ==
    /\ ~exited /\ onCancel = "stopping" /\ stopper = "finish" /\ exited' = TRUE
    /\ UNCHANGED <<onCancel, stopper, finished, stopped, mainPc, cancelled>> /\ UnchangedWork

(* Five seconds after the signal the process ends, whatever hangs.         *)
ForceExit ==
    /\ ~exited /\ onCancel # "wait" /\ exited' = TRUE
    /\ UNCHANGED <<onCancel, stopper, finished, stopped, mainPc, cancelled>> /\ UnchangedWork

(* runDaemon: wg.Wait for both listeners, trk.Wait for the producers, then *)
(* Finish, and main returns.                                               *)
MainStep ==
    /\ ~exited
    /\ \/ /\ mainPc = "listeners" /\ \A l \in Listeners : listener[l] = "returned"
          /\ mainPc' = "producers" /\ UNCHANGED <<finished, stopped, exited>>
       \/ /\ mainPc = "producers" /\ Producers = {}
          /\ mainPc' = "finish" /\ UNCHANGED <<finished, stopped, exited>>
       \/ mainPc = "finish" /\ Finished /\ mainPc' = "over" /\ UNCHANGED exited
       \/ mainPc = "over" /\ exited' = TRUE /\ UNCHANGED <<mainPc, finished, stopped>>
    /\ UNCHANGED <<onCancel, stopper, cancelled>> /\ UnchangedWork

ListenerStep(l) ==
    StartListener(l) \/ Listen(l) \/ TickerEnds(l) \/ CloseListener(l) \/ AcceptClosed(l) \/ ListenReturns(l)

ConnectionStep(c) == Accept(c) \/ HandleIncoming(c) \/ ProducerStops(c)
EndStep == StopFinishes \/ StopDrained \/ CancelAfterStop

RunwayNext ==
    \/ \E l \in Listeners : ListenerStep(l)
    \/ \E l \in Listeners : ReloadCertificate(l)
    \/ \E c \in Connections : ConnectionStep(c)
    \/ \E c \in Connections : Leave(c)
    \/ \E c \in Connections, l \in Listeners : Connect(c, l)
    \/ Renew \/ Signal \/ EndStep \/ ForceExit \/ MainStep

(* ------------------------------------------------------------ properties *)

(* Every handshake is served a whole certificate, also while the operator  *)
(* replaces the files and a reload fails half way.                         *)
ServedWhole == \A c \in Connections : served[c] # 0

(* Runway does not go on with half of its doors: when one listener ends,   *)
(* because it failed or was stopped, the other one does too.               *)
BothOrNone ==
    (\E l \in Listeners : listener[l] = "returned")
        ~> (exited \/ \A l \in Listeners : listener[l] = "returned")

(* The reloading of certificates ends with the listeners, also when a port *)
(* could not be opened.                                                    *)
ReloadingEnds ==
    (\A l \in Listeners : listener[l] = "returned")
        ~> (exited \/ \A l \in Listeners : reloading[l] \in {"off", "ended"})

(* A signal ends the process, although a connection in the middle of its   *)
(* handshake becomes a producer after Finish has stopped the others and is *)
(* told by nobody to stop.                                                 *)
SignalEnds == onCancel = "stopping" ~> exited
=============================================================================
