---------------------------- MODULE HaproxyClient ----------------------------
(***************************************************************************)
(* lib/haproxy/haproxy.go: one goroutine owns the connection to HAProxy's  *)
(* runtime API; callers hand it a command over an unbuffered channel and   *)
(* wait for the answer.  A command that fails leaves the connection as it  *)
(* is: only the keep-alive, sent when no command came for a second, closes *)
(* it and dials again.  HAProxy (external) may close the connection and be *)
(* away for a while.                                                       *)
(***************************************************************************)
EXTENDS Integers, FiniteSets

CONSTANTS Callers, MaxAsked, MaxAway   \* bounds on commands and on outages

VARIABLES hap,          \* run: "dial", "prompt", "session", "done"
          link,         \* hap.conn: "none", "up", "cut"
          server,       \* HAProxy listens
          caller,       \* per caller: "idle", "send", "panic"
          hapCtx,       \* "open", "cancelled", "closed" (the command channel)
          asked, away

hcVars == <<hap, link, server, caller, hapCtx, asked, away>>

HcInit ==
    /\ hap = "dial" /\ link = "none" /\ server \in BOOLEAN
    /\ caller = [c \in Callers |-> "idle"]
    /\ hapCtx = "open" /\ asked = 0 /\ away = 0

ServerLeaves ==
    /\ away < MaxAway /\ away' = away + 1
    /\ server' \in BOOLEAN
    /\ link' = IF link = "up" THEN "cut" ELSE link
    /\ UNCHANGED <<hap, caller, hapCtx, asked>>

ServerReturns == ~server /\ server' = TRUE /\ UNCHANGED <<hap, link, caller, hapCtx, asked, away>>

(* run: the loop around net.Dial does not look at the context.             *)
Dial ==
    /\ hap = "dial" /\ server
    /\ hap' = "prompt" /\ link' = "up"
    /\ UNCHANGED <<server, caller, hapCtx, asked, away>>

EnterPrompt ==
    /\ hap = "prompt"
    /\ hap' = IF link = "up" THEN "session" ELSE "dial"
    /\ link' = IF link = "up" THEN "up" ELSE "none"
    /\ UNCHANGED <<server, caller, hapCtx, asked, away>>

(* Command: hands the command over; on a closed channel that is a panic.   *)
Ask(c) ==
    /\ caller[c] = "idle" /\ asked < MaxAsked
    /\ asked' = asked + 1
    /\ caller' = [caller EXCEPT ![c] = IF hapCtx = "closed" THEN "panic" ELSE "send"]
    /\ UNCHANGED <<hap, link, server, hapCtx, away>>

(* sessionLoop takes a command and sends the answer or the error back.     *)
Exec(c) ==
    /\ hap = "session" /\ caller[c] = "send"
    /\ caller' = [caller EXCEPT ![c] = "idle"]
    /\ UNCHANGED <<hap, link, server, hapCtx, asked, away>>

(* Mutant: an error of the keep-alive is logged like that of a command.    *)
KeepAliveLogs ==
    /\ hap = "session" /\ \A c \in Callers : caller[c] # "send"
    /\ link = "cut" /\ UNCHANGED <<hap, link, server, caller, hapCtx, asked, away>>

(* The timer starts again with every command.                              *)
KeepAlive ==
    /\ hap = "session" /\ \A c \in Callers : caller[c] # "send"
    /\ link = "cut" /\ hap' = "dial" /\ link' = "none"
    /\ UNCHANGED <<server, caller, hapCtx, asked, away>>

(* Mutant: the end of the context is treated like a lost connection.       *)
SessionDoneDials ==
    /\ hap = "session" /\ hapCtx # "open"
    /\ hap' = "dial" /\ link' = "none"
    /\ UNCHANGED <<server, caller, hapCtx, asked, away>>

SessionDone ==
    /\ hap = "session" /\ hapCtx # "open"
    /\ hap' = "done" /\ link' = "none"
    /\ UNCHANGED <<server, caller, hapCtx, asked, away>>

(* Close cancels the context, waits for run and closes the channel; a      *)
(* caller that still wants to send panics.                                 *)
Cancel == hapCtx = "open" /\ hapCtx' = "cancelled" /\ UNCHANGED <<hap, link, server, caller, asked, away>>

CloseChannel ==
    /\ hapCtx = "cancelled" /\ hap = "done" /\ hapCtx' = "closed"
    /\ caller' = [c \in Callers |-> IF caller[c] = "send" THEN "panic" ELSE caller[c]]
    /\ UNCHANGED <<hap, link, server, asked, away>>

HcNext ==
    \/ ServerLeaves \/ ServerReturns \/ Dial \/ EnterPrompt \/ KeepAlive \/ SessionDone
    \/ Cancel \/ CloseChannel \/ \E c \in Callers : Ask(c) \/ Exec(c)

(* HAProxy comes back, and the goroutine does not stop by itself.          *)
RunStep == Dial \/ EnterPrompt \/ KeepAlive \/ \E c \in Callers : Exec(c)

(* ------------------------------------------------------------ properties *)

(* A connection that HAProxy closed is replaced, whoever met the error     *)
(* first, and every command that was handed over is answered.              *)
Recovers == <>[](hapCtx # "open" \/ (link = "up" /\ \A c \in Callers : caller[c] # "send"))

(* Close comes to its end although run may be dialling, waiting for the    *)
(* prompt or answering commands when the context is cancelled.             *)
CloseEnds == hapCtx = "cancelled" ~> hapCtx = "closed"
=============================================================================
