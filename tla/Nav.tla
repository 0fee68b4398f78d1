--------------------------------- MODULE Nav ---------------------------------
(***************************************************************************)
(* lib/tracker/nav.go: the navigation state of one aircraft.  TC29 (target *)
(* state) is taken as it comes; a BDS 4,0 reply is only inferred to be one *)
(* and is taken when a TC29 or an earlier reply backs it.  Every setter    *)
(* holds the lock of the plane, but two workers may apply two messages in  *)
(* the other order: a message may be up to Skew older than the clock.      *)
(* A value that is not there (a nil pointer) is None; the autopilot modes  *)
(* are one value, which hides that a reply keeps three of them.            *)
(***************************************************************************)
EXTENDS Integers, Sequences

CONSTANTS NavMessages,  \* what is received: [kind, mcp, fms, qnh, heading, modes]
          NavExpiry,    \* a minute
          Tolerance,    \* 32 feet
          Skew,         \* how late a message is applied
          NavTime, NavHeard \* bounds on the clock and on the number of messages

ASSUME NavAssumption ==
    /\ NavMessages \subseteq [kind : STRING, mcp : Int, fms : Int, qnh : Int,
                              heading : Int, modes : Int]
    /\ NavExpiry \in Nat /\ Tolerance \in Nat /\ Skew \in Nat

VARIABLES nav,          \* navTracking
          ehs,          \* ehsTracking: the values of BDS 5,0 and 6,0
          heard,        \* the messages in the order they were applied
          navNow, navSeen   \* the clock, Plane.lastSeen

navVars == <<nav, ehs, heard, navNow, navSeen>>

None == -1
Absent == [val |-> None, by |-> 0]

(* by is the number of the message a value was taken from.                 *)
NavInit ==
    /\ nav = [mcp |-> Absent, fms |-> Absent, qnh |-> Absent, heading |-> Absent,
              modes |-> Absent, ts |-> None,
              tc29TS |-> None, tc29SelAlt |-> None, tc29FMS |-> FALSE, last40 |-> 0]
    /\ ehs = [track |-> Absent, speed |-> Absent, ts |-> None]
    /\ heard = <<>> /\ navNow = 0 /\ navSeen = 0

(* setIntPtr, setFloatPtr, setModes after the test for nil                 *)
Take(old, v) == IF v = None THEN old ELSE [val |-> v, by |-> Len(heard) + 1]

Away(a, b) == IF a < b THEN b - a ELSE a - b

near(a, b) == a # None /\ Away(a, b) <= Tolerance

setTargetState(m) ==
    nav' = [nav EXCEPT
        !.fms = Take(@, m.fms),
        !.mcp = IF m.fms = None THEN Take(@, m.mcp) ELSE @,
        !.tc29TS = IF m.fms # None \/ m.mcp # None THEN m.ts ELSE @,
        !.tc29SelAlt = IF m.fms # None THEN m.fms ELSE IF m.mcp # None THEN m.mcp ELSE @,
        !.tc29FMS = IF m.fms # None THEN TRUE ELSE IF m.mcp # None THEN FALSE ELSE @,
        !.qnh = Take(@, m.qnh), !.heading = Take(@, m.heading), !.modes = Take(@, m.modes),
        !.ts = m.ts]

tc29Current(t) == nav.tc29TS # None /\ Away(t, nav.tc29TS) <= NavExpiry

sameValues(a, b) == a.mcp = b.mcp /\ a.fms = b.fms /\ a.qnh = b.qnh

(* Mutant: the age of the last reply is not looked at.                     *)
SeenTwiceEver(m) == nav.last40 # 0 /\ sameValues(heard[nav.last40], m)

(* The seen-twice rule: the last reply, accepted or not, said the same.    *)
SeenTwice(m) ==
    /\ nav.last40 # 0
    /\ m.ts - heard[nav.last40].ts <= NavExpiry
    /\ sameValues(heard[nav.last40], m)

Accepted(m) ==
    \/ tc29Current(m.ts) /\ near(IF nav.tc29FMS THEN m.fms ELSE m.mcp, nav.tc29SelAlt)
    \/ SeenTwice(m)

setBds40(m) ==
    IF m.mcp = None /\ m.fms = None /\ m.qnh = None THEN UNCHANGED nav
    ELSE LET n == [nav EXCEPT !.last40 = Len(heard) + 1]
         IN  nav' = IF ~Accepted(m) THEN n
                    ELSE IF tc29Current(m.ts)
                    THEN [n EXCEPT !.fms = Take(@, m.fms), !.ts = m.ts]
                    ELSE [n EXCEPT !.fms = Take(@, m.fms), !.mcp = Take(@, m.mcp),
                                   !.qnh = Take(@, m.qnh), !.modes = Take(@, m.modes),
                                   !.ts = m.ts]

(* A message is handled: lastSeen is its time, whatever it was before.     *)
Hear ==
    \E m \in NavMessages, late \in 0 .. Skew :
        LET r == [kind |-> m.kind, mcp |-> m.mcp, fms |-> m.fms, qnh |-> m.qnh,
                  heading |-> m.heading, modes |-> m.modes, ts |-> navNow - late]
        IN  /\ late <= navNow /\ Len(heard) < NavHeard
            /\ heard' = Append(heard, r)
            /\ navSeen' = r.ts
            /\ \/ m.kind = "tc29" /\ setTargetState(r) /\ UNCHANGED ehs
               \/ m.kind = "bds40" /\ setBds40(r) /\ UNCHANGED ehs
               \/ m.kind = "bds50" /\ ehs' = [ehs EXCEPT !.track = Take(@, m.heading), !.ts = r.ts]
                  /\ UNCHANGED nav
               \/ m.kind = "bds60" /\ ehs' = [ehs EXCEPT !.speed = Take(@, m.heading), !.ts = r.ts]
                  /\ UNCHANGED nav
               \/ m.kind = "other" /\ UNCHANGED <<nav, ehs>>
            /\ UNCHANGED navNow

NavTick == navNow < NavTime /\ navNow' = navNow + 1 /\ UNCHANGED <<nav, ehs, heard, navSeen>>

NavNext == Hear \/ NavTick

(* ------------------------------------------------------------ properties *)

(* The message i was backed when it was applied: a TC29 within the expiry  *)
(* has an altitude near one of its own, or an equal reply came before it.  *)
Backed(i) ==
    \E j \in 1 .. i - 1 :
        /\ Away(heard[i].ts, heard[j].ts) <= NavExpiry
        /\ \/ /\ heard[j].kind = "tc29"
              /\ \/ heard[j].fms # None /\ near(heard[i].fms, heard[j].fms)
                 \/ heard[j].mcp # None /\ near(heard[i].mcp, heard[j].mcp)
           \/ heard[j].kind = "bds40" /\ sameValues(heard[i], heard[j])

(* A wrong register read as 4,0 never becomes a false selected altitude by *)
(* itself: whatever is shown and came from a 4,0 reply was backed by an    *)
(* independent message of the last minute, however the messages arrived.   *)
Corroborated ==
    \A f \in {"mcp", "fms", "qnh", "modes"} :
        nav[f] # Absent /\ heard[nav[f].by].kind = "bds40" => Backed(nav[f].by)
=============================================================================
