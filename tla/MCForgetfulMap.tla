--------------------------- MODULE MCForgetfulMap ---------------------------
(* The tracker's map of planes, with one aircraft, and the dedupe filter's *)
(* map, with one message.                                                  *)
EXTENDS ForgetfulMap

CONSTANTS icao, message, planeList, list

TwoMaps == [k \in Keys |-> IF k = icao THEN planeList ELSE list]
=============================================================================
