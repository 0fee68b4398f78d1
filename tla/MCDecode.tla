------------------------------ MODULE MCDecode ------------------------------
(***************************************************************************)
(* The pure functions of the program, each run over its inputs.  A state   *)
(* is one input of one experiment; the experiments are independent.        *)
(***************************************************************************)
EXTENDS PlaneLocations, Layout, CommB, Positions, Streams

VARIABLES test, input

vars == <<test, input>>

(* The parameters of PlaneLocations, of which only the course check runs.  *)
NoBearing(p, q) == 0
AnyTile(p) == CHOOSE t \in Tiles : TRUE

(* How many inputs each experiment has.                                    *)
Size == [bearing |-> 129600, crc |-> 112 * 112, code |-> 8192,
         header  |-> 11 * 32, squitter |-> 256 * 48, resolve |-> 8 * 9 * 16,
         register |-> 3072, table |-> 128, air |-> 357 * 52, surface |-> 177 * 36,
         tile |-> 361, fid |-> 400, registration |-> 5315, beast |-> 1024, sbs |-> 240,
         cut |-> 5 * 81 * 7, age |-> 6561]

Init == input = 0 /\ test \in DOMAIN Size

NextInput == input' = (input + 1) % Size[test] /\ UNCHANGED test

Next == NextInput

Spec == Init /\ [][Next]_vars

(* ---------------------------------------------------------- PlaneLocations *)

Angle360 == LET d == Abs(input \div 360 - (input % 360)) IN IF d <= 180 THEN d ELSE 360 - d

Accepted == AbsDeltaBearing(input \div 360, input % 360) < 90

(* A position that lies 90 degrees or more off the reported course is      *)
(* never accepted by IsLocationPossible, for any pair of directions.       *)
OffCourseRejected == test = "bearing" => (Accepted => Angle360 < 90)

(* ----------------------------------------------------------------- ModeS *)

(* The remainder of a message by long division, one bit at a time.         *)
Remainder(bits, len) ==
    LET r[b \in 0 .. len] ==
            IF b = 0 THEN {}
            ELSE LET last == r[b - 1]
                     top  == (23 \in last) # (b \in bits)
                     up   == Low(Shl(last, 1), 24)
                 IN  IF top THEN Xor(up, Low(Poly, 24)) ELSE up
    IN  r[len]

(* Any one or two wrong bits of a 112 bit message, and any run of up to 24 *)
(* wrong bits, leave a parity that is not zero: checkCrc refuses a DF17    *)
(* damaged so.  The code works on the exclusive or of message and damage,  *)
(* so the damage alone decides; CrcIsDivision is what makes that so.       *)
CrcDetects ==
    LET i == input \div 112 + 1
        j == (input % 112) + 1
    IN  test = "crc" /\ i <= j =>
            /\ DecodeChecksum({i, j}, LongBytes) # {}
            /\ j - i < 24 => DecodeChecksum(i .. j, LongBytes) # {}

(* The table-driven calculateCRC is division by the generator, for every   *)
(* message of one or two bits and so, by linearity, for all.               *)
CrcIsDivision ==
    LET i == input \div 112 + 1
        j == (input % 112) + 1
    IN  test = "crc" /\ i <= j /\ j <= 88 => CalculateCRC({i, j}, 11) = Remainder({i, j}, 88)

PulseNames == {PulseOrder[i] : i \in 1 .. 13} \ {"X"}

Readable == {p \in SUBSET PulseNames : ModeAToModeC(p) # NoValue}

(* Each altitude from -1200 to 126700 ft has one Gillham code, and flips   *)
(* of a single pulse lead from it to its neighbour above: an encoder       *)
(* caught between two steps is read as one of them.                        *)
GillhamIsGray ==
    LET p == Pulses(input)
        h == ModeAToModeC(p)
    IN  /\ test = "code" /\ input = 0 =>
              /\ {ModeAToModeC(q) : q \in Readable} = -12 .. 1267
              /\ Cardinality(Readable) = 1280
        /\ test = "code" /\ h # NoValue /\ h < 1267 =>
              Cardinality({x \in PulseNames : ModeAToModeC(Xor(p, {x})) = h + 1}) = 1

(* The 12 bit altitude of an ADS-B position and the 13 bit altitude of a   *)
(* surveillance reply are read alike where both have a reading; the one    *)
(* that cannot report an error reports no altitude, 0.                     *)
AltitudeFieldsAgree ==
    test = "code" /\ Sel(input, 6, 1) = 0 =>
        DecodeAC12(Sel(input, 7, 6) * 64 + Sel(input, 0, 6))
            = IF DecodeAC13(input) = NoValue THEN 0 ELSE DecodeAC13(input)

PulseWeight == [A1 |-> 1000, A2 |-> 2000, A4 |-> 4000, B1 |-> 100, B2 |-> 200, B4 |-> 400,
                C1 |-> 10, C2 |-> 20, C4 |-> 40, D1 |-> 1, D2 |-> 2, D4 |-> 4]

SumWeights(p) ==
    LET s[i \in 0 .. 13] ==
            IF i = 0 THEN 0
            ELSE s[i - 1] + (IF PulseOrder[i] \in p THEN PulseWeight[PulseOrder[i]] ELSE 0)
    IN  s[13]

(* The squawk of a reply is what the pulses of its identity code spell, by *)
(* the pulse order the altitude decoder uses: the two readings of the same *)
(* thirteen bits name the same pulses.                                     *)
SquawkSpellsPulses ==
    test = "code" => DecodeSquawk(input \div 256, input % 256) = SumWeights(Pulses(input))

(* -------------------------------------------------------- Adsb and Layout *)

(* A message of 14 bytes with one bit set besides what base gives.         *)
OneBit(base, bit) ==
    [i \in 0 .. 13 |-> IF i = bit \div 8 THEN (IF i \in DOMAIN base THEN base[i] ELSE 0)
                                                + 2 ^ (7 - (bit % 8))
                       ELSE IF i \in DOMAIN base THEN base[i] ELSE 0]

Described(row, msg) == BitsAt(msg, row[2] + 1, row[3])

(* Of the rows, those with a field of their name hold what the field does. *)
Agree(rows, fields, msg) ==
    \A k \in 1 .. Len(rows) :
        rows[k][1] \in DOMAIN fields => fields[rows[k][1]] = Described(rows[k], msg)

Undrawn(rows, fields) == DOMAIN fields \ {rows[k][1] : k \in 1 .. Len(rows)}

HeaderFormats == <<0, 4, 5, 11, 16, 17, 18, 20, 21, 24, 19>>

(* The header fields of every format lie where describe.go draws them, and *)
(* its rows add up.  Left out: the altitude of a DF0, drawn one bit short, *)
(* and the unused capability of formats that do not have one.              *)
HeaderWhereDescribed ==
    LET df   == HeaderFormats[input \div 32 + 1]
        msg  == OneBit([i \in {0} |-> 0], input % 32)
        rows == SelectSeq(frameFeatures(df), LAMBDA r : ~(df = 0 /\ r[1] = "AC") /\ df # 24)
    IN  test = "header" => Agree(rows, HeaderFields(msg), msg) /\ AddsUp(frameFeatures(df), 0)

Type == input \div 384
Sub == (input \div 48) % 8
SquitterBit == 40 + (input % 48)
Squitter == OneBit([i \in {4} |-> 8 * Type + Sub], SquitterBit)
SquitterRows == AdsbRows(MessageType(Squitter), MessageSubType(Squitter))

(* The bits the decoder takes for each field of an extended squitter are   *)
(* those describe.go draws for it, bit by bit.  Left out: the air speed,   *)
(* whose upper bits the decoder drops, the air heading, of which it keeps  *)
(* seven bits, and the squawk of a test message, drawn three bits early.   *)
(* Of a status report every field the decoder reads is drawn, except that  *)
(* it takes for the vertical accuracy and the cross-check also the bits    *)
(* that the surface table calls reserved and TRK/HDG, and that the tables  *)
(* leave out the reserved types.                                           *)
SquitterWhereDescribed ==
    LET s == Squitter
        Rows(out) == SelectSeq(SquitterRows, LAMBDA r : r[1] \notin out)
    IN  test = "squitter" =>
            /\ Type \in 1 .. 4 => Agree(SquitterRows, CategoryFields(s), s)
            /\ Type \in SurfaceTypes \cup AirTypes => Agree(SquitterRows, LatLonFields(s), s)
            /\ Type \in SurfaceTypes => Agree(SquitterRows, SurfaceFields(s), s)
            /\ Type \in AirTypes => Agree(SquitterRows, AirFields(s), s)
            /\ Type = 19 => Agree(SquitterRows, VelocityFields(s), s)
            /\ Type = 19 /\ Sub \in {1, 2} => Agree(SquitterRows, GroundSpeedFields(s), s)
            /\ Type = 19 /\ Sub \in {3, 4} => Agree(Rows({"HD", "AS"}), AirSpeedFields(s), s)
            /\ Type = 28 /\ Sub = 1 =>
                  /\ Agree(SquitterRows, EmergencyFields(s), s)
                  /\ Agree(SquitterRows, [ID |-> (s[5] % 32) * 256 + s[6]], s)
            /\ Type = 31 =>
                  /\ Agree(SquitterRows, StatusFields(s), s)
                  /\ Agree(SquitterRows, CapabilityFields(s), s)
                  /\ Sub \in {0, 1} => Undrawn(SquitterRows, StatusFields(s)) =
                                          IF Sub = 1 THEN {"GVA", "NICx"} ELSE {}
            /\ Type = 29 /\ MessageSubType(s) = 1 =>
                  LET t == TargetState(s)
                  IN  /\ Agree(SquitterRows, [NACp |-> t.NACp, SIL |-> t.SIL], s)
                      /\ \A k \in 1 .. Len(SquitterRows) :
                             LET r == SquitterRows[k]
                                 v == Described(r, s)
                             IN  v # 0 =>
                                 /\ r[1] = "alt" => t.mcp = (v - 1) * 32 /\ t.fms = NoValue
                                 /\ r[1] = "baro" => t.baro = 8000 + (v - 1) * 8
                                 /\ r[1] = "tcas" => t.tcas

(* What is drawn of a message has every bit once and in order, and what    *)
(* Describe shows of a frame is decoded for its format: nothing shown is   *)
(* left over from a field the decoder never read.  Two exceptions: the     *)
(* counters of formatBitString, which should notice rows that do not add   *)
(* up, warn of every velocity message, whose rows do, as its tables start  *)
(* over at the type code; and of a target state the alert is shown, which  *)
(* the decoder reads for the first of its sub types only.                  *)
ShownIsDecoded ==
    LET sub == MessageSubType(Squitter)
    IN  /\ test = "squitter" =>
              /\ AddsUp(DrawnRows(17, Type, sub, NoRegister), 0)
              /\ Warns(17, Type, sub, NoRegister) = IF Type = 19 THEN {"second", "third"} ELSE {}
              /\ AdsbShows(Type, sub) \ AdsbReads(Type, sub) =
                     IF Type = 29 /\ sub # 0 THEN {"alert"} ELSE {}
        /\ test = "header" => \A df \in 0 .. 24 :
              DescribeShows(df) \subseteq ParseDecodes(df) /\ (DescribeShows(df) # {} => df \in NamedFormats)
        /\ test = "header" => \A b \in {"1.0", "1.7", "2.0", "3.0", NoRegister} :
              AddsUp(DrawnRows(20, 0, 0, b), 0) /\ Warns(20, 0, 0, b) = {}

(* ----------------------------------------------------------------- CommB *)

RegisterSets == << {}, {"4.0"}, {"5.0"}, {"6.0"}, {"4.0", "5.0"}, {"4.0", "6.0"},
                   {"5.0", "6.0"}, EhsRegisters, NoReport >>

(* ResolveCommB gives a register the reply could be, or none: with several *)
(* candidates never one the aircraft's own report rules out, and never 4,0 *)
(* by comparing speeds, which the tracker would take for a selected        *)
(* altitude.                                                               *)
ResolvedIsOffered ==
    LET c     == RegisterSets[(input % 8) + 1]
        known == RegisterSets[((input \div 8) % 9) + 1]
        b     == input \div 72
        r     == ResolveCommB(c, known, b % 2 = 1, Sel(b, 1, 1) = 1, Sel(b, 2, 1) = 1, Sel(b, 3, 1) = 1)
    IN  test = "resolve" =>
            /\ r = NoRegister \/ r \in c
            /\ Cardinality(c) > 1 /\ known # NoReport => r = NoRegister \/ r \in known
            /\ r = "4.0" => c = {"4.0"} \/ c \cap known = {"4.0"}

(* A reply of 56 bits in which the given values stand at the given bits:   *)
(* <<last bit, value>>.                                                    *)
Reply(parts) ==
    [i \in 0 .. 6 |->
        LET bits[b \in 0 .. 8] ==
                IF b = 0 THEN 0
                ELSE 2 * bits[b - 1] +
                     (IF \E p \in parts : /\ p[1] - (8 * i + b) \in 0 .. 15
                                          /\ (p[2] \div 2 ^ (p[1] - (8 * i + b))) % 2 = 1
                      THEN 1 ELSE 0)
        IN  bits[8]]

(* Two's complement of v in a field of width bits.                         *)
Signed(v, width) == v % 2 ^ width

(* A register an aircraft fills in is among the candidates its reply       *)
(* leaves, with the values it was filled with: a selected altitude with a  *)
(* pressure setting, a track and a ground speed, a heading and an air      *)
(* speed, of either sign.  (A reply that sets nothing below bit 28 can be  *)
(* taken for the report of common usage registers and is not tried.)       *)
EhsRoundTrip ==
    LET v    == input % 1024
        r40  == Reply({<<1, 1>>, <<13, 3 * v>>, <<27, 1>>, <<39, v + 1>>})
        r50  == Reply({<<12, 1>>, <<23, Signed(v - 512, 11)>>, <<24, 1>>, <<34, v % 301>>,
                       <<46, 1>>, <<56, (v % 301) \div 2 + 75>>})
        r60  == Reply({<<1, 1>>, <<12, Signed(512 - v, 11)>>, <<13, 1>>, <<23, v % 501>>,
                       <<46, 1>>, <<56, Signed((v % 200) - 100, 10)>>})
    IN  test = "register" =>
            CASE input < 1024 -> /\ "4.0" \in DecodeCommB(r40, TRUE).candidates
                             /\ Bds40(r40)[1].v = 3 * v /\ Bds40(r40)[3].v = v + 1
                             /\ Bds40(r40)[2].v = NoValue
              [] input \in 1024 .. 2047 ->
                     /\ "5.0" \in DecodeCommB(r50, TRUE).candidates
                     /\ Bds50(r50)[2].v = v - 512 /\ Bds50(r50)[3].v = v % 301
                     /\ Bds50(r50)[1].v = NoValue
              [] OTHER -> /\ "6.0" \in DecodeCommB(r60, TRUE).candidates
                          /\ Bds60(r60)[1].v = 512 - v /\ Bds60(r60)[2].v = v % 501
                          /\ Bds60(r60)[5].v = (v % 200) - 100

(* ------------------------------------------------------------------- Adsb *)

Worse(r, s) == r # NoValue /\ s # NoValue /\ r < s

(* The tables of frame.go and the code beside them say the same: surface   *)
(* speeds rise with their code; the sizes of airframes do; a code whose    *)
(* text is "not assigned" is one the decoder refuses, and one whose text   *)
(* is an alert raises it; a position type with a wider containment radius  *)
(* never has a higher integrity category (type 10, whose case is empty,    *)
(* left out); vehicle and wake tables name the same kind, surface vehicles *)
(* and obstacles apart.                                                    *)
TablesAgree ==
    test = "table" =>
        /\ input \in 1 .. 123 => CalcSurfaceSpeed(input) < CalcSurfaceSpeed(input + 1)
        /\ input \in 1 .. 14 => LET a == AirplaneLengthWidth[input]
                                b == AirplaneLengthWidth[input + 1]
                            IN  a[1] <= b[1] /\ (a[1] = b[1] => a[2] < b[2])
        /\ input \in 0 .. 7 => /\ DecodeFlightStatus(input).err = (FlightStatusText(input) = "not assigned")
                            /\ DecodeFlightStatus(input).alert = (FlightStatusText(input) = "alert")
        /\ input \in 0 .. 15 => DecodeReplyInformation(input) = (ReplyInformationText(input) = "not assigned")
        /\ input \in 0 .. 31 => DecodeDownLinkRequest(input) = (DownlinkRequestText(input) = "not assigned")
        /\ input \in AirTypes \ {10} => \A tc \in AirTypes \ {10}, a, b \in BOOLEAN, s \in 0 .. 1 :
              Worse(ContainmentRadiusLimit(input, a, s), ContainmentRadiusLimit(tc, b, s)) =>
                  NavigationIntegrityCategory(input, a) >= NavigationIntegrityCategory(tc, b)
        /\ input \in 8 .. 39 /\ input \div 8 # 2 => AircraftCategory(input \div 8, input % 8) = WakeVortex(input \div 8, input % 8)
        /\ input \in 16 .. 23 => AircraftCategory(2, input % 8) \in {"reserved", "surface vehicle", "obstacle", "no information"}

(* Registrations of Australian addresses repeat only after 36^3 of them.   *)
RegistrationsDiffer ==
    LET k == 37 * input
        r == DecodeAuIcaoRegistration(AuStart + k)
    IN  test = "registration" =>
            IF AuStart + k > AuEnd THEN r = <<>>
            ELSE (r[1] * 36 + r[2]) * 36 + r[3] = k % 46656

(* -------------------------------------------------------------- Positions *)

(* The encoder of the standard: a position in tenths of a degree, in zones *)
(* of range/60 (even) or range/59 (odd) degrees of latitude.               *)
EncodeFraction(tenths, zones, range) ==
    LET f == (tenths * zones) % (10 * range)
    IN  ((2 * Resolution * f + 10 * range) \div (20 * range)) % Resolution

Encode(lat, lon, odd, range) ==
    [lat |-> EncodeFraction(lat, 60 - odd, range),
     lon |-> EncodeFraction(lon, CprNFunction(100 * lat, odd), range)]

Near(a, b, slack) == a - b \in -slack .. slack

(* The longitude is compared around the circle.                            *)
NearLon(a, b, slack) == Near(a, b, slack) \/ Near(a - 360000, b, slack) \/ Near(a + 360000, b, slack)

AtZoneEdge(milli) == \E i \in DOMAIN NLTable : Near(AbsMilli(milli), NLTable[i], 3)

RoundTrip(decoded, lat, lon) ==
    IF decoded = NoDecode THEN AtZoneEdge(100 * lat)
    ELSE /\ Near(decoded.lat, 100 * lat, 3)
         /\ AtZoneEdge(100 * lat) \/ NearLon(decoded.lon, 100 * lon, 25)

(* An airborne position encoded as an even and an odd half is decoded back *)
(* to itself, from pole to pole and around the date line, whichever half   *)
(* is the older; only at the edge of a zone may it be refused.             *)
AirRoundTrip ==
    LET lat == 5 * (input \div 52) - 890
        lon == 70 * (input % 52) - 1800
    IN  test = "air" => \A oddOlder \in BOOLEAN :
            RoundTrip(DecodeGlobalAir(Encode(lat, lon, 0, 360), Encode(lat, lon, 1, 360), oddOlder), lat, lon)

OnEarth(lat, lon) == lat \in -90000 .. 90000 /\ lon \in -180000 .. 180000

(* A surface position is decoded back to itself with any reference within  *)
(* 40 degrees of it.                                                       *)
SurfaceRoundTrip ==
    LET lat == 10 * (input \div 36) - 880
        lon == 100 * (input % 36) - 1800
    IN  test = "surface" => \A dlat, dlon \in {-40, 0, 40}, oddOlder \in BOOLEAN :
            LET refLat == 100 * lat + 1000 * dlat
                refLon == 100 * lon + 1000 * dlon
            IN  OnEarth(refLat, refLon) /\ ~(refLat = 0 /\ refLon = 0) =>
                RoundTrip(DecodeSurface(Encode(lat, lon, 0, 90), Encode(lat, lon, 1, 90),
                                        oddOlder, refLat, refLon), lat, lon)

(* ----------------------------------------------------- Positions, Streams *)

Alone(hits) == \E x \in hits : hits = {x}

(* Every position short of the date line lies in exactly one tile, so the  *)
(* tile a lookup gives does not depend on the order Go visits its map in,  *)
(* and no position is lost to the consumers of tiles.                      *)
OneTile ==
    LET lat == 5 * input - 900
    IN  test = "tile" => \A lon \in -180 .. 179 :
            /\ Alone(LookupTileManual(lat, 10 * lon))
            /\ TileUnknown \notin LookupTileManual(lat, 10 * lon)
            /\ lat < 900 => TileUnknown \notin LookupTile(lat, 10 * lon)

(* A flight information region belongs to at most one server: the region   *)
(* of a feeder does not depend on the order Go visits its map in, and the  *)
(* bridge and the proxy agree about it.                                    *)
OneRegion == test = "fid" => Alone(GetMLATRegionByFID(input - 1))

Beast(type, bits) ==
    <<Esc, type>> \o [k \in 1 .. MsgLen(type) - 2 |-> IF (bits \div 2 ^ (k % 10)) % 2 = 1 THEN Esc ELSE k]

Escaped(msg) ==
    LET e[k \in 1 .. Len(msg)] ==
            IF k = 1 THEN <<Esc>>
            ELSE e[k - 1] \o (IF msg[k] = Esc THEN <<Esc, Esc>> ELSE <<msg[k]>>)
    IN  e[Len(msg)]

(* ScanBeast gives back the messages of a stream, whatever bytes of them   *)
(* are escapes, after noise at its start; a message within the last fifty  *)
(* bytes waits for more.                                                   *)
BeastRecovered ==
    LET a == Beast(49 + (input % 4), input)
        b == Beast(49 + ((input \div 4) % 4), 1023 - input)
        stream == <<7, 7>> \o Escaped(a) \o Escaped(b) \o [k \in 1 .. 50 |-> 0]
    IN  test = "beast" =>
            /\ ScanAll(stream, 4) = <<a, b>>
            /\ NewBeastFrame(a) = CASE a[2] = 49 -> "mode ac" [] a[2] = 52 -> "config" [] OTHER -> "mode s"
            /\ a[2] = 51 => Len(BeastBody(a)) = LongBytes
            /\ a[2] = 50 => Len(BeastBody(a)) = ShortBytes

(* An SBS1 line with all of its fields gives every field its message       *)
(* carries; a shorter line never gives one it does not have; and the lines *)
(* on which the parser panics are those that end one field short of one it *)
(* reads, or have a short address.                                         *)
SbsFieldsFound ==
    LET fields == input % 24
        kind   == (input \div 24) % 10
        p(icao) == SbsParse(fields, kind, icao)
    IN  test = "sbs" =>
            /\ fields = 22 => p("hex") = [result |-> "ok", fields |-> SbsReads(kind)]
            /\ p("hex").result = "ok" => \A f \in p("hex").fields : f < fields
            /\ p("hex").result = "panic" => fields \in {4, 6, 7} \cup SbsReads(kind)

(* ---------------------------------------------------------------- Streams *)

Line(kind, key, num) == [kind |-> kind, key |-> key, num |-> num]

(* The reply about a table with some rows, of keys that may be equal and   *)
(* with two counters each, and a blank line at its end, and how many of    *)
(* its lines arrived whole.                                                *)
TableReply ==
    LET rows == input % 5
        keys == (input \div 5) % 81
    IN  <<Line("header", 0, rows)>> \o
        [i \in 1 .. rows |-> Line("row", (keys \div 3 ^ (i - 1)) % 3, <<10 * i, 120 + i>>)] \o
        <<Line("blank", 0, 0)>>

Arrived == LET some == input \div 405 IN IF some < Len(TableReply) THEN some ELSE Len(TableReply)

(* What arrived of the line after them: nothing, or some beginning of it.  *)
Parts ==
    {<<>>} \cup IF Arrived = Len(TableReply) THEN {} ELSE {<<c>> : c \in CutsOf(TableReply[Arrived + 1])}

(* The counters c are the counters whole, up to some byte of the text.     *)
BeginningOf(c, whole) ==
    /\ Len(c) \in 1 .. Len(whole)
    /\ \A k \in 1 .. Len(c) - 1 : c[k] = whole[k]
    /\ \E d \in 0 .. 2 : c[Len(c)] = whole[Len(c)] \div 10 ^ d

(* HAProxy goes away in the middle of a reply and the scanner hands over   *)
(* what it has: ShowTable never takes a table that lacks a row for the     *)
(* table, which would make the feeders it does not list look as if they    *)
(* were gone.  The exceptions are the last row, which when it is cut may   *)
(* be taken with fewer counters or a number without its last digits, and   *)
(* any row cut in the name of a counter, which ends the program.  A whole  *)
(* reply is taken.                                                         *)
CutTableRefused ==
    LET whole == LastOf(RowsOf(TableReply))
        rows  == input % 5
    IN  test = "cut" =>
        /\ \A part \in Parts :
            LET got   == Received(TableReply, Arrived, part, FALSE)
                table == ShowTable(got.out)
            IN  /\ ~got.ok <=> Arrived = 0 /\ part = <<>>
                /\ got.ok /\ table.ok =>
                    /\ DOMAIN table.out = DOMAIN whole
                    /\ \A key \in DOMAIN whole :
                        \/ table.out[key] = whole[key]
                        \/ /\ Arrived = rows /\ key = TableReply[rows + 1].key
                           /\ BeginningOf(table.out[key], whole[key])
                /\ got.ok /\ table = Panic => Arrived \in 1 .. rows
        /\ ShowTable(Received(TableReply, Arrived, <<>>, TRUE).out) = Good(whole)

(* The words of up to four characters.                                     *)
AgeText ==
    LET chars == <<0, 7, 10, 11, 12, 13, 14, 15>>
        codes == SelectSeq([i \in 1 .. 4 |-> (input \div 9 ^ (i - 1)) % 9], LAMBDA k : k # 0)
    IN  [i \in DOMAIN codes |-> chars[codes[i]]]

(* The same in words: after a digit comes a digit or a unit, before a unit *)
(* a digit; every unit counts for the digits that end before it.           *)
AgeIs(s) ==
    LET unit(i)  == s[i] \in DOMAIN UnitSeconds
        digit(i) == i \in DOMAIN s /\ s[i] \in 0 .. 9
        value(i) == LET v[k \in 0 .. Len(s) + 1] ==
                            IF ~digit(i - 1 - k) THEN 0 ELSE s[i - 1 - k] * 10 ^ k + v[k + 1]
                    IN  v[0]
        sum[i \in 0 .. Len(s)] ==
            IF i = 0 THEN 0 ELSE sum[i - 1] + (IF unit(i) THEN value(i) * UnitSeconds[s[i]] ELSE 0)
        wellFormed ==
            /\ s # <<>>
            /\ \A i \in DOMAIN s :
                /\ s[i] # 15
                /\ digit(i) => i < Len(s) /\ (digit(i + 1) \/ unit(i + 1))
                /\ unit(i) => digit(i - 1)
    IN  IF wellFormed THEN [err |-> FALSE, total |-> sum[Len(s)]] ELSE [err |-> TRUE, total |-> 0]

(* Ages and uptimes such as 0d 0h58m52s: parseHAProxyAge takes exactly the *)
(* texts of numbers with a unit each, apart by spaces, and adds them up.   *)
AgeRead ==
    test = "age" =>
        LET age == parseHAProxyAge(AgeText)
        IN  [err |-> age.err, total |-> age.total] = AgeIs(AgeText)

(* ----------------------------------------- what the run checks, by theme *)

(* The codes of a transponder mean what they were made from: the parity    *)
(* shows the damage of a frame, the two altitude codes and the squawk name *)
(* the same pulses, and an Australian address has its own registration.    *)
CodesRead ==
    /\ CrcDetects /\ CrcIsDivision
    /\ GillhamIsGray /\ AltitudeFieldsAgree /\ SquawkSpellsPulses
    /\ RegistrationsDiffer

(* The description of a frame and its decoding are two pieces of code      *)
(* about the same bits: they agree on the place of every field, on the     *)
(* fields a format has and on the meaning of the tables beside them.       *)
DescribedAsDecoded ==
    HeaderWhereDescribed /\ SquitterWhereDescribed /\ ShownIsDecoded /\ TablesAgree

(* A Comm-B reply, which does not name its register, is read as one the    *)
(* aircraft can have sent and with the values it was filled with.          *)
RegistersRecovered == ResolvedIsOffered /\ EhsRoundTrip

(* A place on the earth survives the program: it is decoded from compact   *)
(* positions to within their resolution, lies in one tile and one MLAT     *)
(* region, and is merged only if it lies ahead of the aircraft.            *)
PositionsPlaced ==
    AirRoundTrip /\ SurfaceRoundTrip /\ OneTile /\ OneRegion /\ OffCourseRejected

(* Messages cut out of a stream of bytes or of text are those that were    *)
(* put in: BEAST frames with their escapes, the fields of an SBS-1 line,   *)
(* the replies and the ages that HAProxy writes.                           *)
StreamsRecovered == BeastRecovered /\ SbsFieldsFound /\ CutTableRefused /\ AgeRead
=============================================================================
