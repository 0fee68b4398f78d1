------------------------------ MODULE Positions ------------------------------
(***************************************************************************)
(* What the code makes of a position: its decoding from two halves, the    *)
(* tile it lies in, and the MLAT server of the region it lies in.          *)
(*                                                                         *)
(* lib/tracker/cpr.go: the arithmetic that turns an even and an odd half,  *)
(* as the transponder encodes them, into a latitude and a longitude.  The  *)
(* life of the halves (when they are kept, paired and dropped) is in       *)
(* module Plane.                                                           *)
(*                                                                         *)
(* The code computes in floating point; here every angle is a fraction     *)
(* with whole numerator and denominator, rounded down to thousandths of a  *)
(* degree where the code compares it with its table.  Resolution is the    *)
(* 131072 (2^17) of the code, a parameter so that a small instance stays   *)
(* within the integers of the checker.                                     *)
(***************************************************************************)
EXTENDS Integers, Sequences, FiniteSets

CONSTANT Resolution

ASSUME ResolutionAssumption == Resolution \in Nat /\ Resolution > 1

(* A failed decode: a place outside the world.                             *)
NoDecode == [lat |-> 999999, lon |-> 999999]

(* NLTable: the latitude, in thousandths of a degree, from which a         *)
(* parallel has fewer than 59, 58, ..., 2 longitude zones.                 *)
NLTable == << 10470, 14828, 18186, 21029, 23545, 25829, 27939, 29911, 31772,
    33540, 35229, 36850, 38412, 39923, 41387, 42809, 44195, 45546, 46867,
    48160, 49428, 50672, 51893, 53095, 54278, 55444, 56593, 57727, 58848,
    59955, 61049, 62132, 63204, 64266, 65318, 66362, 67396, 68423, 69442,
    70455, 71460, 72459, 73452, 74439, 75421, 76397, 77368, 78334, 79294,
    80249, 81198, 82140, 83072, 83992, 84892, 85755, 86535, 87000 >>

AbsMilli(a) == IF a < 0 THEN -a ELSE a

(* getNumLongitudeZone: the zones of the first limit above the latitude.   *)
GetNumLongitudeZone(milli) ==
    59 - Cardinality({i \in DOMAIN NLTable : NLTable[i] <= AbsMilli(milli)})

CprNFunction(milli, isOdd) ==
    LET nl == GetNumLongitudeZone(milli) - isOdd IN IF nl < 1 THEN 1 ELSE nl

(* Mutant: the 0.5 that rounds to the nearest zone forgotten.              *)
RoundedZoneDown(x) == x \div Resolution

(* math.Floor(x / Resolution + 0.5).                                       *)
RoundedZone(x) == (2 * x + Resolution) \div (2 * Resolution)

ComputeLatitudeIndex(evenLat, oddLat) == RoundedZone(59 * evenLat - 60 * oddLat)

(* range / zones * (zone + raw / Resolution) in thousandths of a degree.   *)
Angle(range, zones, zone, raw) ==
    LET a == range * (zone * Resolution + raw)
        b == zones * Resolution
    IN  1000 * (a \div b) + (1000 * (a % b)) \div b

(* computeAirDLatRLat: the latitude by the even and by the odd half.       *)
ComputeRLat(range, evenLat, oddLat) ==
    LET j == ComputeLatitudeIndex(evenLat, oddLat)
    IN  << Angle(range, 60, j % 60, evenLat), Angle(range, 59, j % 59, oddLat) >>

(* Southern latitudes come out as 270 to 360 degrees.                      *)
South(milli) == IF milli >= 270000 THEN milli - 360000 ELSE milli

(* surfacePosQuadrantTwiddle, for one of the two latitudes.                *)
QuadrantTwiddle(milli, refLat) ==
    IF milli = 0
    THEN IF refLat < -45000 THEN -90000 ELSE IF refLat > 45000 THEN 90000 ELSE 0
    ELSE IF milli - refLat > 45000 THEN milli - 90000 ELSE milli

(* Mutant: the quadrant below the reference instead of the nearest.        *)
LongitudeTwiddleBelow(lon, refLon) ==
    LET near == lon + ((refLon - lon) \div 90000) * 90000
    IN  near - ((near + 180000) \div 360000) * 360000

(* surfaceLongitudeTwiddle: the multiple of 90 degrees nearest the         *)
(* reference, brought back to -180 .. 180.                                 *)
LongitudeTwiddle(lon, refLon) ==
    LET near == lon + ((refLon - lon + 45000) \div 90000) * 90000
    IN  near - ((near + 180000) \div 360000) * 360000

(* computeLatLon: decodes by the odd half when the odd half is the older   *)
(* one, by the even half otherwise.                                        *)
ComputeLatLon(range, rlat, evenLon, oddLon, oddOlder) ==
    LET i  == IF oddOlder THEN 1 ELSE 0
        lat == rlat[i + 1]
        nl == GetNumLongitudeZone(lat)
        ni == CprNFunction(lat, i)
        m  == RoundedZone(evenLon * (nl - 1) - oddLon * nl)
    IN  [lat |-> lat,
         lon |-> Angle(range, ni, m % ni, IF oddOlder THEN oddLon ELSE evenLon)]

(* normaliseLatLon.                                                        *)
NormaliseLatLon(loc) ==
    IF loc.lat < -90000 \/ loc.lat > 90000 THEN NoDecode
    ELSE [loc EXCEPT !.lon = IF @ > 180000 THEN @ - 360000 ELSE @]

(* A half of a position: its encoded latitude and longitude.               *)
DecodeGlobalAir(even, odd, oddOlder) ==
    LET r    == ComputeRLat(360, even.lat, odd.lat)
        rlat == << South(r[1]), South(r[2]) >>
    IN  IF GetNumLongitudeZone(rlat[1]) # GetNumLongitudeZone(rlat[2])
        THEN NoDecode
        ELSE NormaliseLatLon(ComputeLatLon(360, rlat, even.lon, odd.lon, oddOlder))

DecodeSurface(even, odd, oddOlder, refLat, refLon) ==
    LET r    == ComputeRLat(90, even.lat, odd.lat)
        rlat == << QuadrantTwiddle(r[1], refLat), QuadrantTwiddle(r[2], refLat) >>
        loc  == ComputeLatLon(90, rlat, even.lon, odd.lon, oddOlder)
    IN  IF \/ refLat = 0 /\ refLon = 0
           \/ \E i \in 1 .. 2 : rlat[i] < -90000 \/ rlat[i] > 90000
           \/ GetNumLongitudeZone(rlat[1]) # GetNumLongitudeZone(rlat[2])
        THEN NoDecode
        ELSE NormaliseLatLon([loc EXCEPT !.lon = LongitudeTwiddle(@, refLon)])

-----------------------------------------------------------------------------
(***************************************************************************)
(* lib/tile_grid: the world cut into tiles.  Every position the tracker    *)
(* publishes carries the name of its tile, the router derives its subjects *)
(* from it and the web socket clients subscribe by it.  Latitudes and      *)
(* longitudes are whole numbers of tenths of a degree; a tile is the       *)
(* quadruple <<South, East, North, West>> of whole degrees.                *)
(***************************************************************************)

(* worldGrid, in the order of the source: tile0 .. tile24, tile25 ..       *)
(* tile49 and tile50 .. tile74.                                            *)
WorldGridA == <<
    <<60, 0, 90, -126>>, <<60, 150, 90, 0>>, <<-90, -126, 90, -180>>,
    <<45, -120, 51, -126>>, <<51, -69, 60, -126>>, <<45, -114, 51, -120>>,
    <<45, -102, 51, -114>>, <<45, -90, 51, -102>>, <<45, -75, 51, -90>>,
    <<45, -69, 51, -75>>, <<42, 18, 48, 12>>, <<42, 24, 48, 18>>,
    <<48, 24, 54, 18>>, <<54, 24, 60, 12>>, <<54, 12, 60, 3>>,
    <<54, 3, 60, -9>>, <<42, 0, 48, -9>>, <<42, 51, 51, 24>>,
    <<51, 51, 60, 24>>, <<30, 90, 60, 51>>, <<30, 120, 60, 90>>,
    <<30, 129, 39, 120>>, <<30, 138, 39, 129>>, <<30, 150, 39, 138>>,
    <<39, 150, 60, 120>> >>

WorldGridB == <<
    <<9, 111, 21, 90>>, <<21, 111, 30, 90>>, <<9, 129, 24, 111>>,
    <<24, 120, 30, 111>>, <<24, 129, 30, 120>>, <<9, 150, 30, 129>>,
    <<9, 69, 30, 51>>, <<9, 90, 30, 69>>, <<-90, 51, -42, -42>>,
    <<-90, 111, 9, 51>>, <<-90, 129, -18, 111>>, <<-18, 160, 9, 111>>,
    <<-90, -90, 9, -126>>, <<-42, 51, 9, -30>>, <<-9, -42, 9, -90>>,
    <<-90, -63, -9, -90>>, <<-21, -42, -9, -63>>, <<-90, -42, -21, -63>>,
    <<-42, -30, 9, -42>>, <<9, -117, 33, -126>>, <<9, -102, 30, -117>>,
    <<9, -90, 27, -102>>, <<24, -84, 30, -90>>, <<9, -69, 18, -90>>,
    <<18, -69, 24, -90>> >>

WorldGridC == <<
    <<36, 18, 42, 6>>, <<36, 30, 42, 18>>, <<9, 6, 42, -9>>, <<9, 30, 36, 6>>,
    <<9, 51, 42, 30>>, <<24, -69, 39, -75>>, <<9, -33, 30, -69>>,
    <<30, -33, 60, -69>>, <<9, -9, 30, -33>>, <<30, -9, 60, -33>>,
    <<33, -117, 45, -126>>, <<30, -102, 45, -117>>, <<27, -90, 45, -102>>,
    <<30, -84, 45, -90>>, <<24, -75, 45, -84>>, <<39, -69, 45, -75>>,
    <<42, 12, 48, 6>>, <<42, 6, 48, 0>>, <<48, 18, 54, 12>>,
    <<48, 12, 54, 6>>, <<48, 6, 54, 0>>, <<48, 0, 54, -9>>,
    <<-90, 160, -18, 129>>, <<-90, 180, 9, 160>>, <<9, 180, 90, 150>> >>

worldGrid == WorldGridA \o WorldGridB \o WorldGridC

TileNames == DOMAIN worldGrid

(* The name lookups give to a position that is in no tile.                 *)
TileUnknown == 0

(* Mutant: the southern edge belongs to the tile as well.                  *)
containsClosed(t, lat, lon) ==
    /\ lat <= 10 * t[3] /\ lat >= 10 * t[1]
    /\ lon >= 10 * t[4] /\ lon < 10 * t[2]

(* contains: the northern edge belongs to the tile and the southern does   *)
(* not, except at the south pole; the western edge belongs to it and the   *)
(* eastern does not.                                                       *)
contains(t, lat, lon) ==
    LET s == IF t[1] = -90 THEN -901 ELSE 10 * t[1]
    IN  /\ lat <= 10 * t[3] /\ lat > s
        /\ lon >= 10 * t[4] /\ lon < 10 * t[2]

InGridLocation(lat, lon, n) == n \in TileNames /\ contains(worldGrid[n], lat, lon)

(* lookupTileManual ranges over a Go map, in any order: where tiles        *)
(* overlap it may give any of them.                                        *)
LookupTileManual(lat, lon) ==
    LET hits == {n \in TileNames : contains(worldGrid[n], lat, lon)}
    IN  IF hits = {} THEN {TileUnknown} ELSE hits

(* The whole degree below: math.Floor.                                     *)
Floor(tenths) == tenths \div 10

(* LookupTile: the table computed by init holds, for each square degree,   *)
(* the tile of its south-west corner.                                      *)
LookupTile(lat, lon) ==
    IF Floor(lat) \in -90 .. 89 /\ Floor(lon) \in -180 .. 179
    THEN LookupTileManual(10 * Floor(lat), 10 * Floor(lon))
    ELSE {TileUnknown}

-----------------------------------------------------------------------------
(***************************************************************************)
(* lib/mlatbridge/mlatservers.go: which multilateration server a feeder's  *)
(* flight information region belongs to.  lib/mlatbridge dials the server  *)
(* of the region, pw_haproxy_api writes the region into the map by which   *)
(* HAProxy routes the feeder: both look the region up in this table.       *)
(***************************************************************************)

(* Mutant: a region of the western United States listed here as well.      *)
Fids_CA_AlaskaTwice == {49, 107, 269, 276, 261, 190, 188, 115, 243}

Fids_CA_Alaska == {
    49, 107, 269, 276, 261, 190, 188, 115}

Fids_US_West == {
    243, 232, 103, 165, 208, 45, 347}

Fids_US_East == {
    185, 138, 112, 125, 353, 91, 180, 355, 93, 358, 74, 354, 128, 352, 60,
    131, 351, 182, 357, 273, 356, 293}

Fids_EU_West == {
    242, 246, 24, 225, 25, 164, 18, 78, 33, 167, 19, 16, 162, 88, 65, 13,
    73, 176, 214, 223, 32, 81, 46, 30}

Fids_EU_Central == {
    20, 251, 111, 14, 336, 334, 255, 26, 147, 226, 21, 27, 271, 136, 15, 77,
    297, 272, 158, 193, 219, 186, 155, 154, 252, 274, 75, 83, 82, 92, 296,
    22, 184, 229, 79, 17, 163, 280, 28, 23, 241, 282, 31, 260, 281, 29, 34,
    250, 59, 12, 130}

Fids_Oceania == {
    179, 80, 344, 124, 198, 218, 305, 266, 306, 132, 151, 249, 303, 304,
    149, 175}

Fids_Asia == {
    171, 170, 340, 346, 349, 150, 329, 338, 194, 71, 332, 331, 328, 327,
    343, 342, 265, 333, 335, 325, 191, 326, 324, 206, 129, 341, 339, 141,
    142, 295, 205, 52, 321, 233, 230, 99, 69, 259, 284, 318, 236, 196, 63,
    257, 153, 319, 108, 258, 279, 64, 323, 44, 264, 322, 57, 207, 101, 55,
    345, 263, 256, 234, 135, 139, 192, 90, 94, 330, 70, 211, 105, 157, 102,
    268, 140, 148, 152, 267, 159, 104, 278, 320, 270, 215, 120, 122, 240,
    117, 123, 254, 248, 67, 277, 245, 222, 127, 113}

Fids_South_America == {
    95, 221, 220, 238, 110, 181, 54, 189, 96, 313, 224, 58, 156, 161, 314,
    315, 316, 118, 307, 72, 11, 89, 212, 119, 39, 201, 183, 145, 217, 239,
    235, 216, 66, 97, 172, 308, 116, 309, 213, 37, 310, 228, 38}

Regions == {"Unknown", "CA_Alaska", "US_West", "US_East", "EU_West",
            "EU_Central", "Oceania", "Asia", "South_America"}

MLATRegionByFID ==
    [CA_Alaska |-> Fids_CA_Alaska,
     US_West |-> Fids_US_West,
     US_East |-> Fids_US_East,
     EU_West |-> Fids_EU_West,
     EU_Central |-> Fids_EU_Central,
     Oceania |-> Fids_Oceania,
     Asia |-> Fids_Asia,
     South_America |-> Fids_South_America]

(* GetMLATRegionByFID and MLATServer range over a Go map, in any order: a  *)
(* fid of two regions may be given either.                                 *)
GetMLATRegionByFID(fid) ==
    LET hits == {r \in DOMAIN MLATRegionByFID : fid \in MLATRegionByFID[r]}
    IN  IF hits = {} THEN {"Unknown"} ELSE hits

(* MLATServers: one server per region, Unknown included; named by it.      *)
MLATServer(fid) == {[server |-> r] : r \in GetMLATRegionByFID(fid)}
=============================================================================
