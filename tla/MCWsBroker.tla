----------------------------- MODULE MCWsBroker -----------------------------
(* Instances of WsBroker for TLC: two clients and one NATS worker.         *)
EXTENDS WsBroker

CONSTANTS c1, c2, v1, a, b, t1, t2

Loc(i, t, f, k) == [icao |-> i, tile |-> t, feed |-> f, n |-> k]

(* One aircraft moves from a tile to the next.                             *)
Moves == {Loc(a, t1, "_high", 1), Loc(a, t2, "_high", 2)}

Sub(k) == [type |-> "sub", key |-> k]
Unsub(k) == [type |-> "unsub", key |-> k]
SetTiles(ks) == [type |-> "set", keys |-> ks]
High(t) == <<t, "_high">>

AllRequests ==
    {Sub(High(t1)), Sub(t1), Unsub(High(t1)),
     SetTiles({High(t1)}), SetTiles({High("all")}), SetTiles({None}),
     [type |-> "grid", tile |-> t1],
     [type |-> "list"], [type |-> "async"]}
SetRequests == {SetTiles({High(t1)}), SetTiles({High("all")})}

(* One client tries everything, the other one only listens and leaves.     *)
OneAsks == [c \in Clients |-> IF c = c1 THEN AllRequests ELSE {}]
OneSets == [c \in Clients |-> IF c = c1 THEN SetRequests ELSE {}]
=============================================================================
