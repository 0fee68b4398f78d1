----------------------------- MODULE MlatBridge ------------------------------
(***************************************************************************)
(* lib/mlatbridge/mlatbridge.go: the bridge of one feeder to its MLAT      *)
(* server.  Two simplexBridge goroutines copy bytes, one each way; a third *)
(* asks every five seconds whether the feeder is still valid and cancels   *)
(* the context if not.  Reads and writes have a deadline of a second and   *)
(* are tried again.  Whoever ends closes both connections.                 *)
(***************************************************************************)
EXTENDS Integers, FiniteSets

CONSTANTS Stalling,     \* the sides that may stop reading what they are sent
          MaxBytes      \* bound on the bytes each side sends

Sides == {"feeder", "mlat"}
Other(s) == IF s = "feeder" THEN "mlat" ELSE "feeder"

VARIABLES arrived,         \* bytes that came from a side
          taken,        \* bytes read from it, and
          forwarded,    \* how many of them the other side was given
          stalled,      \* the sides that do not read
          copy,         \* the goroutine that reads from a side: "read", "write", "done"
          open,         \* the connections that are open
          ctxDone,      \* connCtx
          valid,        \* the feeder is on the list
          pill          \* the ticker runs

bridgeVars == <<arrived, taken, forwarded, stalled, copy, open, ctxDone, valid, pill>>

(* handler: both connections are there, the goroutines are started.        *)
BridgeInit ==
    /\ arrived = [s \in Sides |-> 0] /\ taken = [s \in Sides |-> 0]
    /\ forwarded = [s \in Sides |-> 0]
    /\ stalled = {} /\ open = Sides /\ ctxDone = FALSE /\ valid = TRUE /\ pill = TRUE
    /\ copy = [s \in Sides |-> "read"]

Sends(s) ==
    /\ s \in open /\ arrived[s] < MaxBytes /\ arrived' = [arrived EXCEPT ![s] = @ + 1]
    /\ UNCHANGED <<taken, forwarded, stalled, copy, open, ctxDone, valid, pill>>

Stalls(s) ==
    /\ s \in Stalling \ stalled /\ stalled' = stalled \cup {s}
    /\ UNCHANGED <<arrived, taken, forwarded, copy, open, ctxDone, valid, pill>>

Hangup(s) ==
    /\ s \in open /\ open' = open \ {s}
    /\ UNCHANGED <<arrived, taken, forwarded, stalled, copy, ctxDone, valid, pill>>

Invalidated ==
    /\ valid /\ valid' = FALSE
    /\ UNCHANGED <<arrived, taken, forwarded, stalled, copy, open, ctxDone, pill>>

(* The deferred functions of simplexBridge close both connections.         *)
End(s) ==
    /\ copy' = [copy EXCEPT ![s] = "done"] /\ open' = {}
    /\ UNCHANGED <<arrived, taken, forwarded, stalled, valid, pill>>

SeesCancel(s) == copy[s] = "read" /\ ctxDone /\ UNCHANGED ctxDone /\ End(s)

ReadFails(s) ==
    /\ copy[s] = "read" /\ s \notin open
    /\ ctxDone' = TRUE /\ End(s)

(* Read gives some of the bytes that are there; with none it times out.    *)
Reads(s) ==
    /\ copy[s] = "read" /\ ~ctxDone /\ s \in open /\ taken[s] < arrived[s]
    /\ \E n \in taken[s] + 1 .. arrived[s] : taken' = [taken EXCEPT ![s] = n]
    /\ copy' = [copy EXCEPT ![s] = "write"]
    /\ UNCHANGED <<arrived, forwarded, stalled, open, ctxDone, valid, pill>>

(* Mutant: a short write counts as a write of the whole buffer.            *)
AfterWriteWhole(s, n) == [copy EXCEPT ![s] = "read"]

AfterWrite(s, n) == IF n = taken[s] THEN [copy EXCEPT ![s] = "read"] ELSE copy

(* Write takes some of the rest; a stalled side takes nothing, and the     *)
(* loop goes on after the deadline without a look at the context.          *)
Writes(s) ==
    /\ copy[s] = "write" /\ Other(s) \in open \ stalled
    /\ \E n \in forwarded[s] + 1 .. taken[s] :
        /\ forwarded' = [forwarded EXCEPT ![s] = n]
        /\ copy' = AfterWrite(s, n)
    /\ UNCHANGED <<arrived, taken, stalled, open, ctxDone, valid, pill>>

WriteFails(s) ==
    /\ copy[s] = "write" /\ Other(s) \notin open
    /\ ctxDone' = TRUE /\ End(s)

(* Mutant: the ticker ends, but does not cancel.                           *)
PoisonNoCancel ==
    /\ pill /\ (ctxDone \/ ~valid)
    /\ pill' = FALSE /\ UNCHANGED ctxDone
    /\ UNCHANGED <<arrived, taken, forwarded, stalled, copy, open, valid>>

(* RunOnTickerWithContext: the pill, and its end with the context.         *)
Poison ==
    /\ pill /\ (ctxDone \/ ~valid)
    /\ IF ctxDone THEN pill' = FALSE /\ UNCHANGED ctxDone ELSE ctxDone' = TRUE /\ UNCHANGED pill
    /\ UNCHANGED <<arrived, taken, forwarded, stalled, copy, open, valid>>

CopyStep(s) == SeesCancel(s) \/ ReadFails(s) \/ Reads(s) \/ Writes(s) \/ WriteFails(s)

BridgeNext ==
    \/ Invalidated \/ Poison
    \/ \E s \in Sides :
        \/ Sends(s) \/ Stalls(s) \/ Hangup(s)
        \/ SeesCancel(s) \/ ReadFails(s) \/ Reads(s) \/ Writes(s) \/ WriteFails(s)

(* ------------------------------------------------------------ properties *)

(* Short writes and deadlines lose and repeat nothing: when a goroutine    *)
(* goes back to reading, the other side has had every byte it took.        *)
NoByteLost == \A s \in Sides : copy[s] = "read" => forwarded[s] = taken[s]

(* The comment in simplexBridge: the write loop "still respects ctx via    *)
(* deadlines".  The bridge of a feeder that is no longer valid ends: both  *)
(* goroutines, the ticker and the connections.                             *)
BridgeEnds == ~valid ~> (\A s \in Sides : copy[s] = "done") /\ ~pill /\ open = {}
=============================================================================
