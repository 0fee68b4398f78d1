-------------------------------- MODULE Adsb --------------------------------
(***************************************************************************)
(* lib/tracker/mode_s/decode-adsb.go: the message of an extended squitter  *)
(* (DF17 and DF18), and what frame.go derives from its fields.  Each       *)
(* ...Fields operator gives the raw fields one message type reads, with    *)
(* the shifts and masks of the code, by the name describe.go gives them.   *)
(***************************************************************************)
EXTENDS ModeS

MessageType(msg) == Sel(msg[4], 3, 5)

SurfaceTypes == 5 .. 8
AirTypes == (9 .. 18) \cup (20 .. 22)
GnssTypes == 20 .. 22

(* messageSubType: two bits in a target state, none where the bits carry   *)
(* something else.                                                         *)
MessageSubType(msg) ==
    LET tc == MessageType(msg)
    IN  IF tc \in (1 .. 18) \cup (20 .. 22) THEN 0
        ELSE IF tc = 29 THEN Sel(msg[4], 1, 2) ELSE Sel(msg[4], 0, 3)

(* Mutant: the lowest bit of the longitude's upper byte not masked off.    *)
LatLonFieldsUnmasked(msg) ==
    [CPR |-> Sel(msg[6], 2, 1),
     LAT |-> Sel(msg[6], 0, 2) * 2 ^ 15 + msg[7] * 2 ^ 7 + msg[8] \div 2,
     LON |-> msg[8] * 2 ^ 16 + msg[9] * 2 ^ 8 + msg[10]]

(* decodeAdsbLatLon                                                        *)
LatLonFields(msg) ==
    [CPR |-> Sel(msg[6], 2, 1),
     LAT |-> Sel(msg[6], 0, 2) * 2 ^ 15 + msg[7] * 2 ^ 7 + msg[8] \div 2,
     LON |-> (msg[8] % 2) * 2 ^ 16 + msg[9] * 2 ^ 8 + msg[10]]

CategoryFields(msg) == [CAT |-> Sel(msg[4], 0, 3)]

SurfaceFields(msg) ==
    [MOV |-> (Byte(msg[4] * 16) + msg[5] \div 16) % 128,
     HB  |-> Sel(msg[5], 3, 1),
     HD  |-> (Byte(msg[5] * 16) + msg[6] \div 16) % 128]

AirFields(msg) ==
    [SS   |-> Sel(msg[4], 1, 2),
     NICb |-> msg[4] % 2,
     AC   |-> msg[5] * 16 + msg[6] \div 16,
     TI   |-> Sel(msg[6], 3, 1)]

VelocityFields(msg) ==
    [IC   |-> Sel(msg[5], 7, 1),
     IFR  |-> Sel(msg[5], 6, 1),
     NACv |-> Sel(msg[5], 3, 3),
     VRS  |-> Sel(msg[8], 3, 1),
     VR   |-> Sel(msg[8], 0, 3) * 64 + msg[9] \div 4,
     HAED |-> Sel(msg[10], 7, 1),
     HAEV |-> Sel(msg[10], 0, 7)]

GroundSpeedFields(msg) ==
    [EWD  |-> Sel(msg[5], 2, 1),
     EWV  |-> Sel(msg[5], 0, 2) * 256 + msg[6],
     NSD  |-> Sel(msg[7], 7, 1),
     NSV  |-> Sel(msg[7], 0, 7) * 8 + msg[8] \div 32,
     VSRC |-> Sel(msg[8], 4, 1)]

(* The air speed is shifted within a byte, which loses its upper bits; of  *)
(* the heading the upper seven bits are kept.                              *)
AirSpeedFields(msg) ==
    [HB |-> Sel(msg[5], 2, 1),
     HD |-> Sel(msg[5], 0, 2) * 32 + msg[6] \div 8,
     AS |-> Byte(Sel(msg[7], 0, 7) * 8) + msg[8] \div 32]

EmergencyFields(msg) == [EID |-> Sel(msg[5], 5, 3)]

(* Type 31: what every sub type is read for, and the capabilities: sixteen *)
(* bits of an airborne report, twelve and the size of the airframe of a    *)
(* surface report.                                                         *)
StatusFields(msg) ==
    [OM   |-> msg[7] * 256 + msg[8],
     Ver  |-> Sel(msg[9], 5, 3),
     NICa |-> Sel(msg[9], 4, 1),
     NACp |-> Sel(msg[9], 0, 4),
     GVA  |-> Sel(msg[10], 6, 2),
     SIL  |-> Sel(msg[10], 4, 2),
     NICx |-> Sel(msg[10], 3, 1),
     HRD  |-> Sel(msg[10], 2, 1)]

CapabilityFields(msg) ==
    CASE Sel(msg[4], 0, 3) = 0 -> [CC |-> msg[5] * 256 + msg[6]]
      [] Sel(msg[4], 0, 3) = 1 -> [CC |-> msg[5] * 16 + msg[6] \div 16, APLW |-> msg[6] % 16]
      [] OTHER                 -> <<>>

(* decodeTargetStateStatusV2: every part of the target state is optional.  *)
(* Heading in 256ths of 180 degrees, pressure in tenths of a millibar.     *)
TargetState(msg) ==
    LET alt == BitsAt(msg, 42, 52)
        qnh == BitsAt(msg, 53, 61)
        selected == IF alt = 0 THEN NoValue ELSE (alt - 1) * 32
    IN  [mcp     |-> IF BitAt(msg, 41) = 0 THEN selected ELSE NoValue,
         fms     |-> IF BitAt(msg, 41) = 1 THEN selected ELSE NoValue,
         baro    |-> IF qnh = 0 THEN NoValue ELSE 8000 + (qnh - 1) * 8,
         heading |-> IF BitAt(msg, 62) = 1 THEN BitsAt(msg, 63, 71) ELSE NoValue,
         NACp    |-> BitsAt(msg, 72, 75),
         SIL     |-> BitsAt(msg, 77, 78),
         modes   |-> IF BitAt(msg, 79) = 0 THEN {}
                     ELSE {b \in {80, 81, 82, 84, 86} : BitAt(msg, b) = 1},
         tcas    |-> BitAt(msg, 85) = 1]

(* ------------------------------------------------------- derived values - *)

(* calcSurfaceSpeed, in eighths of a knot.                                 *)
CalcSurfaceSpeed(v) ==
    CASE v = 0 \/ v > 124 -> NoValue
      [] v = 124          -> 1400
      [] v \in 109 .. 123 -> ((v - 109) * 5 + 100) * 8
      [] v \in 94 .. 108  -> ((v - 94) * 2 + 70) * 8
      [] v \in 39 .. 93   -> (v - 39 + 15) * 8
      [] v \in 13 .. 38   -> (v - 13) * 4 + 16
      [] v \in 9 .. 12    -> (v - 9) * 2 + 8
      [] OTHER            -> v - 1

(* The altitude of an airborne position in feet: 0 says there is none.     *)
(* Metres become feet by 3.28084, rounded towards zero.                    *)
AdsbAltitude(tc, ac) ==
    IF tc \in GnssTypes THEN (ac * 328084) \div 100000 ELSE DecodeAC12(ac)

(* The vertical rate in feet per minute.                                   *)
VerticalRate(vr, sign) ==
    IF vr = 0 THEN NoValue ELSE (IF sign = 1 THEN -1 ELSE 1) * (vr - 1) * 64

(* A component of the speed over ground, in knots: one less than the field *)
(* whether or not the field says "no data"; times four when supersonic.    *)
SpeedComponent(raw, sub) == (raw - 1) * (IF sub = 2 THEN 4 ELSE 1)

(* The components the heading is computed from: one less again, and signed *)
(* by the direction bits.                                                  *)
HeadingComponent(raw, sub, direction) ==
    (IF direction = 1 THEN -1 ELSE 1) * (SpeedComponent(raw, sub) - 1)

(* haeDelta in feet; the subtraction is done in a byte.                    *)
HaeDelta(haed, haev) ==
    (IF haed = 0 THEN 25 ELSE -25) * Byte(haev + 255)

(* Where a message says the aircraft is.                                   *)
AdsbGround(tc, sub) ==
    IF tc \in SurfaceTypes \/ (tc = 31 /\ sub = 1) THEN "ground"
    ELSE IF tc \in AirTypes \cup {19} \/ (tc = 31 /\ sub = 0) THEN "air"
    ELSE "unknown"

(* Capability class codes, present when the two upper bits are clear.      *)
CapabilityClass(sub, cc) ==
    [valid    |-> cc < 16384,
     tcas     |-> sub = 0 /\ Sel(cc, 13, 1) = 1,
     in1090   |-> Sel(cc, 12, 1) = 1,
     uat      |-> IF sub = 0 THEN Sel(cc, 5, 1) = 1 ELSE Sel(cc, 8, 1) = 1,
     lowPower |-> sub = 1 /\ Sel(cc, 9, 1) = 1,
     NACv     |-> IF sub = 1 THEN Sel(cc, 5, 3) ELSE NoValue,
     NICc     |-> IF sub = 1 THEN Sel(cc, 4, 1) ELSE NoValue]

(* decodeAdsb: the groups of fields a message of this type reads.          *)
AdsbReads(tc, sub) ==
    CASE tc \in 1 .. 4        -> {"category", "flight"}
      [] tc \in SurfaceTypes  -> {"latlon", "surface", "velocity", "heading"}
      [] tc \in AirTypes      -> {"latlon", "air", "altitude"}
      [] tc = 19              -> {"rate", "hae", "nacv"}
                                    \cup (IF sub \in 1 .. 4 THEN {"velocity", "heading"} ELSE {})
      [] tc = 23 /\ sub = 7   -> {"squawk"}
      [] tc = 28 /\ sub = 1   -> {"squawk", "alert"}
      [] tc = 29 /\ sub = 0   -> {"alert"}
      [] tc = 29 /\ sub = 1   -> {"target", "nacp"}
      [] tc = 31              -> {"status", "nacp"} \cup (IF sub = 1 THEN {"size", "nacv"} ELSE {})
      [] OTHER                -> {}

-----------------------------------------------------------------------------
(***************************************************************************)
(* lib/tracker/mode_s/frame.go: what a decoded frame is asked for.  Texts  *)
(* are reduced to what the code or the reader tells apart by them: whether *)
(* a code is assigned, and what kind of thing it names.                    *)
(***************************************************************************)

(* downlinkFormatTable: the formats with a name.                           *)
NamedFormats == {0, 4, 5, 11} \cup (16 .. 22) \cup {24}

(* flightStatusTable, replyInformationField, downlinkRequestField: what    *)
(* the text of each code says.                                             *)
FlightStatusText(fs) ==
    CASE fs \in {6, 7}    -> "not assigned"
      [] fs \in {2, 3, 4} -> "alert"
      [] OTHER            -> "normal"

ReplyInformationText(ri) ==
    CASE ri \in {1, 5, 6, 7, 15} -> "not assigned"
      [] ri \in {0, 2, 3, 4}     -> "tcas"
      [] OTHER                   -> "airspeed"

DownlinkRequestText(dr) ==
    CASE dr \in 8 .. 14 -> "not assigned"
      [] dr = 20        -> ""
      [] dr < 8         -> "comm-b"
      [] OTHER          -> "elm segments"

(* aircraftCategory and wakeVortex: the kind of vehicle, by type code and  *)
(* category.                                                               *)
AircraftCategory(tc, cat) ==
    CASE tc = 1 -> "reserved"
      [] tc \in 2 .. 4 /\ cat = 0 -> "no information"
      [] tc = 4 -> IF cat = 7 THEN "rotorcraft" ELSE "aeroplane"
      [] tc = 3 -> IF cat = 5 THEN "reserved" ELSE "light or unmanned"
      [] tc = 2 -> CASE cat \in {1, 2} -> "surface vehicle"
                     [] cat \in 3 .. 5 -> "obstacle"
                     [] OTHER          -> "reserved"

WakeVortex(tc, cat) ==
    CASE tc = 1 -> "reserved"
      [] tc > 4 -> "unknown"
      [] tc \in 2 .. 4 /\ cat = 0 -> "no information"
      [] tc = 4 -> IF cat = 7 THEN "rotorcraft" ELSE "aeroplane"
      [] tc = 3 -> IF cat = 5 THEN "reserved" ELSE "light or unmanned"
      [] tc = 2 -> CASE cat \in {1, 3} -> "surface vehicle"
                     [] cat = 2        -> "?"
                     [] OTHER          -> "obstacle"

(* MessageTypeString                                                       *)
MessageTypeString(tc, sub) ==
    CASE tc \in 1 .. 4            -> "identification"
      [] tc \in 5 .. 8            -> "surface position"
      [] tc \in 9 .. 18           -> "airborne position (barometric)"
      [] tc \in 20 .. 22          -> "airborne position (GNSS)"
      [] tc = 19                  -> IF sub \in 1 .. 4 THEN "velocity" ELSE "velocity (unknown)"
      [] tc = 23                  -> IF sub = 7 THEN "test with squawk" ELSE "test"
      [] tc = 24 /\ sub = 1       -> "surface system status"
      [] tc = 28                  -> IF sub = 1 THEN "emergency" ELSE
                                     IF sub = 2 THEN "TCAS RA" ELSE "emergency (unknown)"
      [] tc = 29                  -> IF sub < 2 THEN "target state" ELSE "target state (unknown)"
      [] tc = 31 /\ sub \in {0, 1} -> "operational status"
      [] OTHER                    -> "unknown"

(* Altitude, Velocity, Heading, VerticalRate, OnGround and their Must and  *)
(* Str forms: a value only behind its valid flag, which decoding sets.     *)
Accessor(decoded, valid, value) == IF decoded /\ valid THEN value ELSE NoValue

(* SquawkIdentity: code 0000 reads as no squawk.                           *)
SquawkIdentity(identity) == IF identity = 0 THEN NoValue ELSE identity

(* ContainmentRadiusLimit in tenths of a metre; NoValue is the error.      *)
ContainmentRadiusLimit(tc, nicA, nicB) ==
    CASE tc \in {0, 18, 22} -> NoValue
      [] tc \in {9, 20}     -> 75
      [] tc \in {10, 21}    -> 250
      [] tc = 11            -> IF nicA THEN 750 ELSE 1852
      [] tc = 12            -> 3704
      [] tc = 13            -> IF nicB = 0 THEN 9260 ELSE IF nicA THEN 11112 ELSE 5556
      [] tc = 14            -> 18520
      [] tc = 15            -> 37040
      [] tc = 16            -> IF nicA THEN 74080 ELSE 148160
      [] tc = 17            -> 370400
      [] OTHER              -> 0

(* NavigationIntegrityCategory: type 10 has an empty case.                 *)
NavigationIntegrityCategory(tc, nicA) ==
    CASE tc \in {0, 18, 22} -> NoValue
      [] tc \in {9, 20}     -> 11
      [] tc = 21            -> 10
      [] tc = 11            -> IF nicA THEN 9 ELSE 8
      [] tc \in 12 .. 15    -> 19 - tc
      [] tc = 16            -> IF nicA THEN 3 ELSE 2
      [] tc = 17            -> 1
      [] OTHER              -> 0

(* GetAirplaneLengthWidth: <<length, width>> in tenths of a metre.         *)
AirplaneLengthWidth == <<
    <<150, 230>>, <<250, 285>>, <<250, 340>>, <<350, 330>>, <<350, 380>>,
    <<450, 395>>, <<450, 450>>, <<550, 450>>, <<550, 520>>, <<650, 595>>,
    <<650, 670>>, <<750, 725>>, <<750, 800>>, <<850, 800>>, <<850, 900>> >>

(* DecodeAuIcaoRegistration: three characters of an alphabet of 36, from   *)
(* the number of the address in the Australian block; <<>> is the error.   *)
AuStart == 124 * 65536
AuEnd == 127 * 65536

(* Mutant: the middle character not taken off before the first.            *)
DecodeAuIcaoRegistrationCarry(icao) ==
    LET n  == icao - AuStart
        c3 == n % 36
        c2 == (n - c3) % 36
    IN  IF icao < AuStart \/ icao > AuEnd THEN <<>>
        ELSE <<((n - c3) \div 1296) % 36, c2, c3>>

DecodeAuIcaoRegistration(icao) ==
    LET n  == icao - AuStart
        c3 == n % 36
        c2 == ((n - c3) \div 36) % 36
        c1 == ((n - c3 - c2 * 36) \div 1296) % 36
    IN  IF icao < AuStart \/ icao > AuEnd THEN <<>> ELSE <<c1, c2, c3>>
=============================================================================
