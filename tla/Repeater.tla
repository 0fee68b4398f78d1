------------------------------ MODULE Repeater ------------------------------
(***************************************************************************)
(* lib/producer/repeater.go: WithKeepAliveRepeater repeats the last frame  *)
(* of an aircraft every 30 seconds for an hour.  processor replaces the    *)
(* ticker and the end of the repetition of an aircraft without a lock,     *)
(* while the goroutines of earlier frames, repeat, read them; those never  *)
(* end, as a stopped ticker does not close its channel.  One aircraft, the *)
(* others are independent; nobody calls stop of the repeater.              *)
(***************************************************************************)
EXTENDS Integers, FiniteSets

CONSTANTS MaxRefresh,   \* bound on the frames of the aircraft
          Duration,     \* an hour and a minute
          LastHeard     \* bound on the time of the last frame

ASSUME RepeaterAssumption == Duration \in Nat

VARIABLES clock,
          ka,           \* the keepAlive: its ticker (0 for none yet) and until
          running,      \* tickers that have not been stopped
          goes,         \* per frame: its goroutine, [state, ticker, tick]
          step          \* processor: wait, stopped (the old ticker) or set (the new one)

repeatVars == <<clock, ka, running, goes, step>>

Frame == 1 .. MaxRefresh

NoGo == [state |-> "none", ticker |-> 0, tick |-> 0]

RepeatInit ==
    /\ clock = 0 /\ running = {} /\ step = "wait"
    /\ ka = [ticker |-> 0, until |-> 0]
    /\ goes = [n \in Frame |-> NoGo]

(* Mutant: the ticker of the frame before keeps running.                   *)
RefreshKeepsOld ==
    /\ step = "wait" /\ ka.ticker < MaxRefresh /\ clock < LastHeard
    /\ step' = "stopped"
    /\ UNCHANGED <<clock, ka, running, goes>>

(* processor: a frame arrives; ka.stop() if there is a repetition already, *)
Refresh ==
    /\ step = "wait" /\ ka.ticker < MaxRefresh /\ clock < LastHeard
    /\ running' = running \ {ka.ticker}
    /\ step' = "stopped"
    /\ UNCHANGED <<clock, ka, goes>>

(* a new ticker,                                                           *)
NewTicker ==
    /\ step = "stopped"
    /\ ka' = [ka EXCEPT !.ticker = @ + 1]
    /\ running' = running \cup {ka.ticker + 1}
    /\ step' = "set"
    /\ UNCHANGED <<clock, goes>>

(* a new end, and a goroutine.                                             *)
GoRepeat ==
    /\ step = "set"
    /\ ka' = [ka EXCEPT !.until = clock + Duration]
    /\ goes' = [goes EXCEPT ![ka.ticker].state = "born"]
    /\ step' = "wait"
    /\ UNCHANGED <<clock, running>>

(* repeat: range evaluates ka.repeater.C when the goroutine starts.        *)
Start(n) ==
    /\ goes[n].state = "born"
    /\ goes' = [goes EXCEPT ![n] = [state |-> "range", ticker |-> ka.ticker, tick |-> 0]]
    /\ UNCHANGED <<clock, ka, running, step>>

(* A tick of a ticker that runs; its goroutine compares it with the end,   *)
Tick(n) ==
    /\ goes[n].state = "range" /\ goes[n].ticker \in running
    /\ goes' = [goes EXCEPT ![n].state = "ticked", ![n].tick = clock]
    /\ UNCHANGED <<clock, ka, running, step>>

(* Mutant: nothing is done about a repetition that has expired.            *)
JudgeGoesOn(n) ==
    /\ goes[n].state = "ticked"
    /\ goes' = [goes EXCEPT ![n].state = "range"]
    /\ UNCHANGED <<clock, ka, running, step>>

(* which adds the event again, or finds it expired                         *)
Judge(n) ==
    /\ goes[n].state = "ticked"
    /\ goes' = [goes EXCEPT ![n].state = IF goes[n].tick > ka.until THEN "expired" ELSE "range"]
    /\ UNCHANGED <<clock, ka, running, step>>

(* and stops the ticker the keepAlive has by now.                          *)
StopExpired(n) ==
    /\ goes[n].state = "expired"
    /\ running' = running \ {ka.ticker}
    /\ goes' = [goes EXCEPT ![n].state = "range"]
    /\ UNCHANGED <<clock, ka, step>>

(* The clock goes on until the last repetition can have expired.           *)
RepeatTick ==
    /\ clock < (IF step = "wait" THEN LastHeard + Duration + 1 ELSE LastHeard)
    /\ clock' = clock + 1
    /\ UNCHANGED <<ka, running, goes, step>>

Goes(n) == Start(n) \/ Tick(n) \/ Judge(n) \/ StopExpired(n)

RepeatNext == Refresh \/ NewTicker \/ GoRepeat \/ RepeatTick \/ \E n \in Frame : Goes(n)

(* ------------------------------------------------------------ properties *)

(* However often the aircraft is heard, one ticker repeats its last frame: *)
(* a frame that arrives while another is being judged leaves no second.    *)
OneTicker == Cardinality(running) <= 1

(* Once an aircraft is silent its repetition ends: no ticker runs for ever *)
(* because the goroutine that should stop it read a later one.             *)
FallsSilent == <>[](step = "wait" => running = {})
=============================================================================
