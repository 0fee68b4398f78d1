------------------------------- MODULE Layout -------------------------------
(***************************************************************************)
(* lib/tracker/mode_s/describe.go: the tables from which a frame is drawn  *)
(* bit by bit, and what Describe shows of it.  They state independently of *)
(* the decoder where each field lies.  A row is <<name, start, end>>, bits *)
(* counted from 0, the end not included; rows the source leaves without a  *)
(* name carry an abbreviation of their long name.                          *)
(***************************************************************************)
EXTENDS Adsb

featureDF17FlightName == <<
    <<"TC", 32, 37>>, <<"CAT", 37, 40>>, <<"CHAR", 40, 46>>,
    <<"CHAR", 46, 52>>, <<"CHAR", 52, 58>>, <<"CHAR", 58, 64>>,
    <<"CHAR", 64, 70>>, <<"CHAR", 70, 76>>, <<"CHAR", 76, 82>>,
    <<"CHAR", 82, 88>> >>

featureDF17SurfacePosition == <<
    <<"TC", 32, 37>>, <<"MOV", 37, 44>>, <<"HB", 44, 45>>, <<"HD", 45, 52>>,
    <<"??", 52, 53>>, <<"CPR", 53, 54>>, <<"LAT", 54, 71>>,
    <<"LON", 71, 88>> >>

featureDF17AirPosition == <<
    <<"TC", 32, 37>>, <<"SS", 37, 39>>, <<"NICb", 39, 40>>,
    <<"AC", 40, 52>>, <<"TI", 52, 53>>, <<"CPR", 53, 54>>,
    <<"LAT", 54, 71>>, <<"LON", 71, 88>> >>

(* Mutant: the unknown part starts a bit late.                             *)
featureDF17AirVelocityUnknownLate == <<
    <<"TC", 32, 37>>, <<"SUB", 37, 40>>, <<"??", 41, 88>> >>

featureDF17AirVelocityUnknown == <<
    <<"TC", 32, 37>>, <<"SUB", 37, 40>>, <<"??", 40, 88>> >>

featureDF17AirVelocityGroundSpeed == <<
    <<"TC", 32, 37>>, <<"SUB", 37, 40>>, <<"IC", 40, 41>>,
    <<"IFR", 41, 42>>, <<"NACv", 42, 45>>, <<"EWD", 45, 46>>,
    <<"EWV", 46, 56>>, <<"NSD", 56, 57>>, <<"NSV", 57, 67>>,
    <<"VSRC", 67, 68>>, <<"VRS", 68, 69>>, <<"VR", 69, 78>>,
    <<"??", 78, 80>>, <<"HAED", 80, 81>>, <<"HAEV", 81, 88>> >>

featureDF17AirVelocityAirSpeed == <<
    <<"TC", 32, 37>>, <<"SUB", 37, 40>>, <<"IC", 40, 41>>,
    <<"IFR", 41, 42>>, <<"NACv", 42, 45>>, <<"HB", 45, 46>>,
    <<"HD", 46, 56>>, <<"AB", 56, 57>>, <<"AS", 57, 67>>,
    <<"VSRC", 67, 68>>, <<"VRS", 68, 69>>, <<"VR", 69, 78>>,
    <<"??", 78, 80>>, <<"HAED", 80, 81>>, <<"HAEV", 81, 88>> >>

Adsb23 == <<
    <<"TC", 32, 37>>, <<"SUB", 37, 40>>, <<"ID", 40, 53>>,
    <<"-", 53, 88>> >>

Adsb29v1 == <<
    <<"VDA", 39, 41>>, <<"TAT", 41, 42>>, <<"BCF", 42, 43>>,
    <<"TAC", 43, 45>>, <<"VMI", 45, 47>>, <<"TALT", 47, 57>>,
    <<"HDA", 57, 59>>, <<"THDG", 59, 68>>, <<"THI", 68, 69>>,
    <<"HMI", 69, 71>>, <<"NACp", 71, 75>>, <<"NICb", 75, 76>>,
    <<"SIL", 76, 78>>, <<"RES", 78, 83>>, <<"CM", 83, 85>>,
    <<"EID", 85, 88>> >>

Adsb29v2 == <<
    <<"SILs", 39, 40>>, <<"SRC", 40, 41>>, <<"alt", 41, 52>>,
    <<"baro", 52, 61>>, <<"HST", 61, 62>>, <<"SGN", 62, 63>>,
    <<"hdg", 63, 71>>, <<"NACp", 71, 75>>, <<"NICb", 75, 76>>,
    <<"SIL", 76, 78>>, <<"MST", 78, 79>>, <<"ap", 79, 80>>,
    <<"vnav", 80, 81>>, <<"ah", 81, 82>>, <<"ADSR", 82, 83>>,
    <<"APP", 83, 84>>, <<"tcas", 84, 85>>, <<"lnav", 85, 86>>,
    <<"RES", 86, 88>> >>

Adsb31Air == <<
    <<"CC", 40, 56>>, <<"OM", 56, 72>>, <<"Ver", 72, 75>>,
    <<"NICa", 75, 76>>, <<"NACp", 76, 80>>, <<"GVA", 80, 82>>,
    <<"SIL", 82, 84>>, <<"NICx", 84, 85>>, <<"HRD", 85, 86>>,
    <<"SILs", 86, 87>>, <<"RES", 87, 88>> >>

Adsb31Surface == <<
    <<"CC", 40, 52>>, <<"APLW", 52, 56>>, <<"OM", 56, 72>>,
    <<"Ver", 72, 75>>, <<"NICa", 75, 76>>, <<"NACp", 76, 80>>,
    <<"RES", 80, 82>>, <<"SIL", 82, 84>>, <<"TRK/HDG", 84, 85>>,
    <<"HRD", 85, 86>>, <<"SILs", 86, 87>>, <<"RES", 87, 88>> >>

Bds10 == <<
    <<"BDS#", 32, 40>>, <<"Conf", 40, 41>>, <<"??", 41, 46>>,
    <<"OCC", 46, 47>>, <<"??ACAS", 47, 48>>, <<"ModeSver", 48, 55>>,
    <<"Enhanced", 55, 56>>, <<"CAP", 56, 57>>, <<"ELM Up", 57, 60>>,
    <<"ELM Dn", 60, 64>>, <<"ID Cap", 64, 65>>, <<"SCS", 65, 66>>,
    <<"SIC", 66, 67>>, <<"GICB", 67, 68>>, <<"??ACAS", 68, 72>>,
    <<"DTE", 72, 88>> >>

Bds17 == <<
    <<"F01", 32, 33>>, <<"F02", 33, 34>>, <<"F03", 34, 35>>,
    <<"F04", 35, 36>>, <<"F05", 36, 37>>, <<"F06", 37, 38>>,
    <<"F07", 38, 39>>, <<"F08", 39, 40>>, <<"F09", 40, 41>>,
    <<"F11", 41, 42>>, <<"F11", 42, 43>>, <<"F12", 43, 44>>,
    <<"F13", 44, 45>>, <<"F14", 45, 46>>, <<"F15", 46, 47>>,
    <<"F16", 47, 48>>, <<"F17", 48, 49>>, <<"F18", 49, 50>>,
    <<"F19", 50, 51>>, <<"F20", 51, 52>>, <<"F21", 52, 53>>,
    <<"F22", 53, 54>>, <<"F23", 54, 55>>, <<"F24", 55, 56>>,
    <<"F25", 56, 57>>, <<"F26", 57, 58>>, <<"F27", 58, 59>>,
    <<"F28", 59, 60>>, <<"F29", 60, 61>>, <<"??", 61, 88>> >>

Bds20 == <<
    <<"BDS#", 32, 40>>, <<"CHAR", 40, 46>>, <<"CHAR", 46, 52>>,
    <<"CHAR", 52, 58>>, <<"CHAR", 58, 64>>, <<"CHAR", 64, 70>>,
    <<"CHAR", 70, 76>>, <<"CHAR", 76, 82>>, <<"CHAR", 82, 88>> >>

Bds30 == <<
    <<"BDS#", 32, 40>>, <<"A RA", 40, 54>>, <<"RA C", 54, 58>>,
    <<"RA T", 58, 59>>, <<"MT", 59, 60>>, <<"TTI", 60, 62>>,
    <<"TID", 62, 86>>, <<"??", 86, 88>> >>

Frame0 == <<
    <<"DF", 0, 5>>, <<"VS", 5, 6>>, <<"CC", 6, 7>>, <<"-", 7, 8>>,
    <<"SL", 8, 11>>, <<"-", 11, 13>>, <<"RI", 13, 17>>, <<"-", 17, 20>>,
    <<"AC", 20, 32>>, <<"AP", 32, 56>> >>

Frame4 == <<
    <<"DF", 0, 5>>, <<"FS", 5, 8>>, <<"DR", 8, 13>>, <<"UM", 13, 19>>,
    <<"AC", 19, 32>>, <<"AP", 32, 56>> >>

Frame5 == <<
    <<"DF", 0, 5>>, <<"FS", 5, 8>>, <<"DR", 8, 13>>, <<"UM", 13, 19>>,
    <<"ID", 19, 32>>, <<"AP", 32, 56>> >>

(* Mutant: the capability drawn one bit short and the address one early.   *)
Frame11Early == <<
    <<"DF", 0, 5>>, <<"CA", 5, 7>>, <<"AA", 7, 32>>, <<"PI", 32, 56>> >>

Frame11 == <<
    <<"DF", 0, 5>>, <<"CA", 5, 8>>, <<"AA", 8, 32>>, <<"PI", 32, 56>> >>

Frame16 == <<
    <<"DF", 0, 5>>, <<"VS", 5, 6>>, <<"-", 6, 8>>, <<"SL", 8, 11>>,
    <<"-", 11, 13>>, <<"RI", 13, 17>>, <<"-", 17, 19>>, <<"AC", 19, 32>>,
    <<"MV", 32, 88>>, <<"AP", 88, 112>> >>

Frame17 == <<
    <<"DF", 0, 5>>, <<"CA", 5, 8>>, <<"AA", 8, 32>>, <<"ME", 32, 88>>,
    <<"PI", 88, 112>> >>

Frame18 == <<
    <<"DF", 0, 5>>, <<"CA", 5, 8>>, <<"AA", 8, 32>>, <<"ME", 32, 88>>,
    <<"CRC", 88, 112>> >>

Frame19 == <<
    <<"DF", 0, 5>> >>

Frame20 == <<
    <<"DF", 0, 5>>, <<"FS", 5, 8>>, <<"DR", 8, 13>>, <<"UM", 13, 19>>,
    <<"AC", 19, 32>>, <<"MB", 32, 88>>, <<"AP", 88, 112>> >>

Frame21 == <<
    <<"DF", 0, 5>>, <<"FS", 5, 8>>, <<"DR", 8, 13>>, <<"UM", 13, 19>>,
    <<"ID", 19, 32>>, <<"MB", 32, 88>>, <<"AP", 88, 112>> >>

Frame24 == <<
    <<"DF", 0, 2>>, <<"-", 2, 3>>, <<"KE", 3, 4>>, <<"ND", 4, 8>>,
    <<"MD", 8, 88>>, <<"AP", 88, 112>> >>

Adsb28Status == << <<"EID", 40, 43>>, <<"ID", 43, 56>>, <<"-", 56, 88>> >>

TypeRow == <<"TC", 32, 37>>
SubRow(n) == <<"SUB", 37, n>>

(* The rows of the ME field by type code.                                  *)
asdbFeatures(tc) ==
    CASE tc \in 1 .. 4       -> featureDF17FlightName
      [] tc \in SurfaceTypes -> featureDF17SurfacePosition
      [] tc \in AirTypes     -> featureDF17AirPosition
      [] tc = 19             -> << <<"??", 37, 88>> >>
      [] tc = 23             -> Adsb23
      [] tc = 28             -> << TypeRow, SubRow(40), <<"??", 40, 88>> >>
      [] tc = 29             -> << TypeRow, SubRow(39), <<"??", 39, 88>> >>
      [] tc = 31             -> << TypeRow, SubRow(40), <<"CCC", 40, 88>> >>
      [] OTHER               -> <<>>

(* The table the last of these rows has for the sub type; <<>> is none.    *)
(* Those of the velocity message start over at the type code, in front of  *)
(* the row they belong to.                                                 *)
asdbSubFeatures(tc, sub) ==
    CASE tc = 19 -> CASE sub \in {1, 2} -> featureDF17AirVelocityGroundSpeed
                      [] sub \in {3, 4} -> featureDF17AirVelocityAirSpeed
                      [] OTHER          -> featureDF17AirVelocityUnknown
      [] tc = 28 -> IF sub = 1 THEN Adsb28Status ELSE << <<"??", 40, 88>> >>
      [] tc = 29 -> CASE sub = 0 -> Adsb29v1
                      [] sub = 1 -> Adsb29v2
                      [] OTHER   -> << <<"??", 39, 88>> >>
      [] tc = 31 /\ sub = 0 -> Adsb31Air
      [] tc = 31 /\ sub = 1 -> Adsb31Surface
      [] OTHER   -> <<>>

bdsFeatures(bds) ==
    CASE bds = "1.0" -> Bds10 [] bds = "1.7" -> Bds17
      [] bds = "2.0" -> Bds20 [] bds = "3.0" -> Bds30
      [] OTHER       -> <<>>

frameFeatures(df) ==
    CASE df = 0  -> Frame0  [] df = 4  -> Frame4  [] df = 5  -> Frame5
      [] df = 11 -> Frame11 [] df = 16 -> Frame16 [] df = 17 -> Frame17
      [] df = 18 -> Frame18 [] df = 19 -> Frame19 [] df = 20 -> Frame20
      [] df = 21 -> Frame21 [] df = 24 -> Frame24 [] OTHER   -> <<>>

(* formatBitString: the table a field has for this message; <<>> is none.  *)
(* Only DF17, 20 and 21 choose one, so the ME field of a DF18 has none.    *)
SubTable(df, row, tc, bds) ==
    CASE row[1] = "ME" /\ df = 17 -> asdbFeatures(tc)
      [] row[1] = "MB"            -> bdsFeatures(bds)
      [] OTHER                    -> <<>>

(* The rows drawn, in order: a row with a table is drawn as its table.     *)
AdsbRows(tc, sub) ==
    LET rows   == asdbFeatures(tc)
        deeper == asdbSubFeatures(tc, sub)
    IN  IF deeper = <<>> THEN rows ELSE SubSeq(rows, 1, Len(rows) - 1) \o deeper

DrawnRows(df, tc, sub, bds) ==
    LET rows == frameFeatures(df)
        drawn[k \in 0 .. Len(rows)] ==
            IF k = 0 THEN <<>>
            ELSE LET t == SubTable(df, rows[k], tc, bds)
                 IN  drawn[k - 1] \o (IF t = <<>> THEN << rows[k] >>
                                      ELSE IF rows[k][1] = "ME" THEN AdsbRows(tc, sub) ELSE t)
    IN  drawn[Len(rows)]

(* Each row starts where the last ended, the first at start.               *)
AddsUp(rows, start) ==
    \A k \in 1 .. Len(rows) : rows[k][2] = IF k = 1 THEN start ELSE rows[k - 1][3]

(* The counters of formatBitString: the levels at which it warns that the  *)
(* fields do not add up or do not end with the field they belong to.       *)
Warns(df, tc, sub, bds) ==
    LET top       == frameFeatures(df)
        second(k) == SubTable(df, top[k], tc, bds)
        Last(t)   == t[Len(t)]
    IN  (IF AddsUp(top, 0) THEN {} ELSE {"top"}) \cup
        UNION {IF second(k) = <<>> THEN {}
               ELSE (IF AddsUp(second(k), top[k][2]) THEN {} ELSE {"second"}) \cup
                    (IF Last(second(k))[3] = top[k][3] THEN {} ELSE {"end"}) \cup
                    (IF top[k][1] = "MB" \/ AddsUp(asdbSubFeatures(tc, sub), Last(second(k))[2])
                     THEN {} ELSE {"third"}) : k \in DOMAIN top}

(* Describe and showAdsb: the groups of fields shown for each format.      *)
AdsbShows(tc, sub) ==
    CASE tc \in 1 .. 4        -> {"category", "flight"}
      [] tc \in SurfaceTypes  -> {"velocity", "heading", "latlon"}
      [] tc \in AirTypes      -> {"air", "altitude", "latlon"}
      [] tc = 19              -> {"hae"} \cup (IF sub \in 1 .. 4
                                 THEN {"nacv", "heading", "velocity", "rate"} ELSE {})
      [] tc = 23 /\ sub = 7   -> {"squawk"}
      [] tc = 28 /\ sub = 1   -> {"squawk", "alert"}
      [] tc = 29              -> {"alert"}
      [] tc = 31              -> {"status"} \cup (IF sub = 1 THEN {"size", "nacv"} ELSE {})
      [] OTHER                -> {}

DescribeShows(df) ==
    CASE df = 0  -> {"vertical", "crosslink", "sensitivity", "reply", "altitude", "icao"}
      [] df = 4  -> {"flightstatus", "request", "utility", "altitude", "icao"}
      [] df = 5  -> {"flightstatus", "request", "utility", "identity", "icao"}
      [] df = 11 -> {"capability", "icao"}
      [] df = 16 -> {"vertical", "sensitivity", "reply", "altitude", "icao"}
      [] df \in {17, 18} -> {"capability", "icao", "adsb"}
      [] df = 20 -> {"flightstatus", "altitude", "commb", "icao"}
      [] df = 21 -> {"flightstatus", "identity", "commb", "icao"}
      [] OTHER   -> {}

(* parse: the decoders it runs for each format.                            *)
ParseDecodes(df) ==
    CASE df = 0  -> {"icao", "vertical", "crosslink", "sensitivity", "reply", "altitude"}
      [] df = 4  -> {"icao", "flightstatus", "request", "utility", "altitude"}
      [] df = 5  -> {"icao", "flightstatus", "request", "utility", "identity"}
      [] df = 11 -> {"icao", "capability"}
      [] df = 16 -> {"icao", "vertical", "altitude", "reply", "sensitivity"}
      [] df \in {17, 18} -> {"icao", "capability", "adsb"}
      [] df = 20 -> {"icao", "flightstatus", "altitude", "commb"}
      [] df = 21 -> {"icao", "flightstatus", "identity", "commb"}
      [] OTHER   -> {}
=============================================================================
