---------------------------- MODULE MCFeederAuth ----------------------------
(* Instances of FeederAuth for TLC: one feeder that dials in repeatedly.   *)
EXTENDS FeederAuth

CONSTANTS k, c1, c2, c3

OneKey == [c \in Conns |-> k]
AllBeast == [c \in Conns |-> "BEAST"]
Mixed == [c \in Conns |-> IF c = c3 THEN "MLAT" ELSE "BEAST"]
=============================================================================
