------------------------------ MODULE MCIngest ------------------------------
(* Instances of Ingest for TLC.                                            *)
EXTENDS Ingest

CONSTANTS p1, p2, m1, m2, i1

OwnNames == [p \in Producers |-> p]
AnyKind == [p \in Producers |->
               IF p = p1 THEN Kinds ELSE {"connection"}]
OneAircraft == [k \in Payloads |-> IF k \in Bad THEN None ELSE i1]
TwoReads == [p \in Producers |-> IF p = p1 THEN 2 ELSE 1]
=============================================================================
