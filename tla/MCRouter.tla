------------------------------ MODULE MCRouter ------------------------------
(* Instances of Router for TLC.                                            *)
EXTENDS Router, TLC

CONSTANTS w1, w2, p1, p2, p3, t1, t2, a, b

WorkerSymmetry == Permutations(Workers)

(* Three positions on a line from west to east; p2 is in the next tile.    *)
Order(p) == CASE p = p1 -> 1 [] p = p3 -> 2 [] OTHER -> 3
East(p, q) ==
    CASE Order(p) = Order(q) -> 0 [] Order(p) < Order(q) -> 90 [] OTHER -> 270
InTile(p) == IF p = p2 THEN t2 ELSE t1

E(v, t) == [has |-> TRUE, val |-> v, ts |-> t]
U(v, t) == [has |-> FALSE, val |-> v, ts |-> t]

Rec(i, entries, tl, last, tg) ==
    [icao  |-> i,
     at    |-> [f \in Fields |-> IF f \in DOMAIN entries
                                 THEN entries[f] ELSE NoEntry],
     tile  |-> tl, last |-> last, since |-> 1, name |-> 0, tag |-> tg]

(* Receiver 1 sees the whole aircraft, receiver 2 only part of it and      *)
(* reports an old position with newer data, or flies the other way.        *)
FullEarly ==
    Rec(a, [Location |-> E(p1, 1), Heading |-> E(90, 1),
            Altitude |-> E(1000, 1), Squawk |-> U(1200, 1)], t1, 1, "feeder")
FullLate ==
    Rec(a, [Location |-> E(p2, 2), Heading |-> E(90, 2),
            Altitude |-> E(1005, 3), OnGround |-> E(0, 1)], t2, 3, "feeder")
Partial ==
    Rec(a, [Location |-> E(p1, 1), Altitude |-> E(1100, 2),
            Squawk |-> U(0, 4), FlightStatus |-> E(1, 2)], t1, 2, "repeat")
Behind ==
    Rec(a, [Location |-> E(p1, 1), Heading |-> E(270, 4),
            Velocity |-> E(5, 2)], t1, 4, "feeder")

FourOfOne == {FullEarly, FullLate, Partial, Behind}
ThreeOfOne == {FullEarly, FullLate, Partial}
=============================================================================
