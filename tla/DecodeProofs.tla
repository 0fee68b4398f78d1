---------------------------- MODULE DecodeProofs ----------------------------
(***************************************************************************)
(* TLAPS proofs about the pure functions of Positions, for every input the *)
(* run Decode counts through and for every place besides: the places the   *)
(* tracker decodes (lib/tracker/cpr.go), the tile a place lies in          *)
(* (lib/tile_grid), the course IsLocationPossible compares, and the region *)
(* an MLAT bridge is chosen by.                                            *)
(*                                                                         *)
(* A half of a position is the fraction s / q of the circle, counted in    *)
(* zones * Resolution parts, without its zone.  Two halves, of one zone    *)
(* more and one zone less, give the zone back because their difference     *)
(* counts the zones; the argument is about quotients and remainders, for   *)
(* any Resolution, and Milli is the place it comes to.                     *)
(***************************************************************************)
EXTENDS MCDecode, SequenceTheorems, FiniteSetTheorems, TLAPS

-----------------------------------------------------------------------------
(* Division with a remainder, as the provers know it.                      *)
LEMMA DivMod ==
    ASSUME NEW a \in Int, NEW d \in Nat \ {0}
    PROVE  /\ a \div d \in Int /\ a % d \in 0 .. d - 1
           /\ a = d * (a \div d) + (a % d)
OBVIOUS

(* There is only one.                                                      *)
LEMMA OneQuotient ==
    ASSUME NEW d \in Nat \ {0}, NEW k \in Int, NEW l \in Int,
           NEW r \in 0 .. d - 1, NEW s \in 0 .. d - 1, d * k + r = d * l + s
    PROVE  k = l /\ r = s
<1>1. PICK e \in Int : e = k - l
  OBVIOUS
<1>2. d * e = s - r
  BY <1>1
<1>3. e = 0
  BY <1>2
<1> QED
  BY <1>1, <1>3

LEMMA DivIs ==
    ASSUME NEW a \in Int, NEW d \in Nat \ {0}, NEW k \in Int, NEW r \in 0 .. d - 1, a = d * k + r
    PROVE  a \div d = k /\ a % d = r
<1>1. a \div d \in Int /\ a % d \in 0 .. d - 1 /\ a = d * (a \div d) + (a % d)
  BY DivMod
<1> QED
  BY <1>1, OneQuotient

LEMMA Division ==
    ASSUME NEW a \in Int, NEW d \in Nat \ {0}
    PROVE  \E k \in Int, r \in 0 .. d - 1 : k = a \div d /\ r = a % d /\ a = d * k + r
<1> DEFINE k == a \div d
           r == a % d
<1>1. k \in Int /\ r \in 0 .. d - 1 /\ a = d * k + r
  BY DivMod
<1> HIDE DEF k, r
<1>2. \E i \in Int, j \in 0 .. d - 1 : i = k /\ j = r /\ a = d * i + j
  BY <1>1
<1> QED
  BY <1>2 DEF k, r

(* The whole number nearest to a / b: what an encoder makes of a fraction. *)
Nearest(a, b) == (2 * a + b) \div (2 * b)

(* It is off by at most half.                                              *)
LEMMA NearestIs ==
    ASSUME NEW a \in Int, NEW b \in Nat \ {0}
    PROVE  /\ Nearest(a, b) \in Int
           /\ 2 * a - 2 * (b * Nearest(a, b)) \in -b .. b - 1
<1>1. 2 * a + b \in Int /\ 2 * b \in Nat \ {0}
  OBVIOUS
<1>2. PICK k \in Int, r \in 0 .. 2 * b - 1 :
        k = (2 * a + b) \div (2 * b) /\ 2 * a + b = (2 * b) * k + r
  BY <1>1, DivMod
<1>3. (2 * b) * k = 2 * (b * k)
  BY <1>2
<1> QED
  BY <1>2, <1>3 DEF Nearest

(* A place, as the fraction s / q of a circle of so many zones, in the     *)
(* numbers an encoder counts by, Resolution to a zone; what it sends of    *)
(* it; and the zone, which it does not send.                               *)
Half(zones, s, q) == Nearest(zones * (Resolution * s), q)
Sent(zones, s, q) == Half(zones, s, q) % Resolution
Zone(zones, s, q) == Half(zones, s, q) \div Resolution

LEMMA HalfType ==
    ASSUME Resolution \in Nat, NEW zones \in Nat, NEW s \in Int, NEW q \in Nat \ {0}
    PROVE  Half(zones, s, q) \in Int
<1>1. zones * (Resolution * s) \in Int
  OBVIOUS
<1> QED
  BY <1>1, NearestIs DEF Half

(* Two halves of one place, of n and of one zone fewer.                    *)
LEMMA IndexIs ==
    ASSUME NEW n \in Nat \ {0}, NEW t \in Int, NEW q \in Nat \ {0},
           NEW e \in Int, e = Nearest(n * t, q),
           NEW o \in Int, o = Nearest((n - 1) * t, q)
    PROVE  2 * ((n - 1) * e - n * o) \in 1 - 2 * n .. 2 * n - 1
<1> DEFINE f == 2 * (n * t) - 2 * (q * e)
           g == 2 * ((n - 1) * t) - 2 * (q * o)
           d == (n - 1) * e - n * o
<1>1. f \in -q .. q - 1 /\ g \in -q .. q - 1
  <2>1. n * t \in Int /\ (n - 1) * t \in Int
    OBVIOUS
  <2> QED
    BY <2>1, NearestIs
<1>2. q * (2 * d) = n * g - (n - 1) * f
  OBVIOUS
<1>3. n * g \in -(n * q) .. n * q /\ (n - 1) * f \in -((n - 1) * q) .. (n - 1) * q
  <2> HIDE DEF f, g
  <2>1. \A m \in Nat, h \in -q .. q : m * h \in -(m * q) .. m * q
    OBVIOUS
  <2> QED
    BY <1>1, <2>1
<1>4. q * (2 * d) \in -((2 * n - 1) * q) .. (2 * n - 1) * q
  <2> HIDE DEF f, g, d
  <2>1. d \in Int /\ f \in Int /\ g \in Int
    BY DEF d, f, g
  <2>2. (2 * n - 1) * q = n * q + (n - 1) * q
    OBVIOUS
  <2> QED
    BY <1>1, <1>2, <1>3, <2>1, <2>2
<1>5. d \in Int
  OBVIOUS
<1> HIDE DEF d
<1>6. ASSUME 2 * d > 2 * n - 1 PROVE FALSE
  <2>1. q * (2 * d) > q * (2 * n - 1)
    BY <1>5, <1>6
  <2> QED
    BY <2>1, <1>4, <1>5
<1>7. ASSUME 2 * d < 1 - 2 * n PROVE FALSE
  <2>1. q * (2 * d) < q * (1 - 2 * n)
    BY <1>5, <1>7
  <2> QED
    BY <2>1, <1>4, <1>5
<1> QED
  BY <1>5, <1>6, <1>7 DEF d

(* RoundedZone is the nearest whole number of zones.                       *)
LEMMA RoundedZoneIs ==
    ASSUME NEW R \in Nat \ {0}, R = Resolution, NEW m \in Int, NEW e \in Int,
           2 * e \in -R .. R - 1
    PROVE  RoundedZone(R * m + e) = m
<1>1. 2 * (R * m + e) + R = (2 * R) * m + (2 * e + R)
  OBVIOUS
<1>2. 2 * (R * m + e) + R \in Int /\ 2 * R \in Nat \ {0} /\ 2 * e + R \in 0 .. 2 * R - 1
  OBVIOUS
<1>3. (2 * (R * m + e) + R) \div (2 * R) = m
  BY <1>1, <1>2, DivIs
<1> QED
  BY <1>3 DEF RoundedZone

(* The remainders of an index that is n of one zone less n - 1 of another. *)
SameZones(j, n, p, y, z) == j % n = y % n /\ j % p = z % p

LEMMA IndexModulo ==
    ASSUME NEW p \in Nat \ {0}, NEW n \in Nat \ {0}, p = n - 1,
           NEW y \in Int, NEW z \in Int, NEW j \in Int, j = n * z - p * y
    PROVE  SameZones(j, n, p, y, z)
<1>1. PICK k \in Int, r \in 0 .. n - 1 : k = y \div n /\ r = y % n /\ y = n * k + r
  BY Division
<1>2. PICK l \in Int, s \in 0 .. p - 1 : l = z \div p /\ s = z % p /\ z = p * l + s
  BY Division
<1>4. PICK c \in Int : c = z - y + k
  OBVIOUS
<1>5. PICK d \in Int : d = z - y + l
  OBVIOUS
<1>6. j = n * c + r
  <2>1. y = n * k + r
    BY <1>1
  <2> QED
    BY <1>4, <2>1
<1>7. j = p * d + s
  <2>1. z = p * l + s
    BY <1>2
  <2> QED
    BY <1>5, <2>1
<1>8. j % n = r
  BY <1>6, DivIs
<1>9. j % p = s
  BY <1>7, DivIs
<1> QED
  BY <1>1, <1>2, <1>8, <1>9 DEF SameZones

LEMMA IndexSum ==
    ASSUME NEW n \in Int, NEW p \in Int, NEW r \in Int,
           NEW y \in Int, NEW u \in Int, NEW z \in Int, NEW v \in Int
    PROVE  p * u - n * v = r * (n * z - p * y) + (p * (r * y + u) - n * (r * z + v))
OBVIOUS

(* What the transponder sends of each half leaves out the zones they lie   *)
(* in; RoundedZone finds how far these are apart, and with that the zone   *)
(* of either half.                                                         *)
RoundedIndex(n, p, s, q) == RoundedZone(p * Sent(n, s, q) - n * Sent(p, s, q))

LEMMA ZonesFound ==
    ASSUME NEW n \in Nat \ {0}, NEW p \in Nat \ {0}, p = n - 1,
           Resolution \in Nat \ {0}, Resolution >= 2 * n,
           NEW s \in Int, NEW q \in Nat \ {0}
    PROVE  SameZones(RoundedIndex(n, p, s, q), n, p, Zone(n, s, q), Zone(p, s, q))
<1>0. PICK e \in Int, o \in Int : e = Half(n, s, q) /\ o = Half(p, s, q)
  BY HalfType
<1>1. PICK y \in Int, u \in 0 .. Resolution - 1 :
        y = e \div Resolution /\ u = e % Resolution /\ e = Resolution * y + u
  BY Division
<1>2. PICK z \in Int, v \in 0 .. Resolution - 1 :
        z = o \div Resolution /\ v = o % Resolution /\ o = Resolution * z + v
  BY Division
<1>3. PICK m \in Int : m = n * z - p * y
  OBVIOUS
<1>4. PICK x \in Int : x = p * e - n * o
  OBVIOUS
<1>5. p * u - n * v = Resolution * m + x
  <2>1. e = Resolution * y + u /\ o = Resolution * z + v
    BY <1>1, <1>2
  <2> QED
    BY <2>1, <1>3, <1>4, IndexSum
<1>6. 2 * x \in 1 - 2 * n .. 2 * n - 1
  <2>1. PICK t \in Int : t = Resolution * s
    OBVIOUS
  <2>2. e = Nearest(n * t, q) /\ o = Nearest((n - 1) * t, q)
    BY <1>0, <2>1 DEF Half
  <2> QED
    BY <2>2, <1>4, IndexIs
<1>7. RoundedZone(Resolution * m + x) = m
  <2>1. 2 * x \in -Resolution .. Resolution - 1
    BY <1>6
  <2> QED
    BY <2>1, RoundedZoneIs
<1>8. RoundedIndex(n, p, s, q) = m
  BY <1>0, <1>1, <1>2, <1>5, <1>7 DEF RoundedIndex, Sent
<1>9. SameZones(m, n, p, y, z)
  BY <1>3, IndexModulo
<1> QED
  BY <1>0, <1>1, <1>2, <1>8, <1>9, Zenon DEF Zone

(* Angle is a whole number of thousandths of a degree, rounded down.       *)
LEMMA AngleIs ==
    ASSUME NEW R \in Nat \ {0}, R = Resolution, NEW range \in Nat, NEW zones \in Nat \ {0},
           NEW zone \in Nat, NEW raw \in Nat
    PROVE  Angle(range, zones, zone, raw) =
           (1000 * (range * (R * zone + raw))) \div (zones * R)
<1> DEFINE a == range * (zone * R + raw)
           b == zones * R
<1>1. a \in Int /\ b \in Nat \ {0}
  OBVIOUS
<1>2. a = range * (R * zone + raw)
  OBVIOUS
<1> HIDE DEF a, b
<1>3. PICK k \in Int, r \in 0 .. b - 1 : k = a \div b /\ r = a % b /\ a = b * k + r
  BY <1>1, Division
<1>4. PICK l \in Int, s \in 0 .. b - 1 : l = (1000 * r) \div b /\ 1000 * r = b * l + s
  BY <1>1, Division
<1>5. 1000 * a = b * (1000 * k + l) + s
  <2>1. b * (1000 * k + l) = 1000 * (b * k) + b * l
    BY <1>1
  <2>2. a = b * k + r
    BY <1>3
  <2>3. 1000 * r = b * l + s
    BY <1>4
  <2> QED
    BY <1>1, <2>1, <2>2, <2>3
<1>6. (1000 * a) \div b = 1000 * k + l
  BY <1>1, <1>5, DivIs
<1>7. Angle(range, zones, zone, raw) = 1000 * (a \div b) + (1000 * (a % b)) \div b
  BY DEF Angle, a, b
<1>8. Angle(range, zones, zone, raw) = (1000 * a) \div b
  <2>1. a \div b = k
    BY <1>3
  <2>2. a % b = r
    BY <1>3
  <2>4. (1000 * r) \div b = l
    BY <1>4
  <2>3. Angle(range, zones, zone, raw) = 1000 * k + l
    BY <2>1, <2>2, <2>4, <1>7
  <2> QED
    BY <2>3, <1>6
<1> QED
  BY <1>2, <1>8 DEF b

(* A half put back into the zone it was taken from.                        *)
LEMMA ZonePutBack ==
    ASSUME NEW R \in Nat \ {0}, NEW zones \in Nat \ {0}, NEW e \in Int
    PROVE  R * ((e \div R) % zones) + (e % R) = e % (zones * R)
<1>1. PICK y \in Int, u \in 0 .. R - 1 : y = e \div R /\ u = e % R /\ e = R * y + u
  BY Division
<1>2. PICK w \in Int, z \in 0 .. zones - 1 : w = y \div zones /\ z = y % zones /\ y = zones * w + z
  BY Division
<1>3. R * z + u \in 0 .. zones * R - 1
  <2>1. R * z \in 0 .. R * (zones - 1)
    OBVIOUS
  <2> QED
    BY <2>1, <1>1
<1>4. e = (zones * R) * w + (R * z + u)
  <2>1. R * (zones * w + z) = (zones * R) * w + R * z
    OBVIOUS
  <2>2. e = R * y + u
    BY <1>1
  <2>3. y = zones * w + z
    BY <1>2
  <2> QED
    BY <2>1, <2>2, <2>3
<1>5. e % (zones * R) = R * z + u
  <2>1. zones * R \in Nat \ {0}
    OBVIOUS
  <2> QED
    BY <1>3, <1>4, <2>1, DivIs
<1> QED
  BY <1>1, <1>2, <1>5

(* The place an encoder has rounded to, in thousandths of a degree.        *)
Milli(range, zones, s, q) ==
    (1000 * (range * (Half(zones, s, q) % (zones * Resolution)))) \div (zones * Resolution)

(* The angle of a half, once its zone is known up to a whole circle.       *)
LEMMA AngleFound ==
    ASSUME Resolution \in Nat \ {0}, NEW range \in Nat, NEW zones \in Nat \ {0},
           NEW s \in Int, NEW q \in Nat \ {0}
    PROVE  Angle(range, zones, Zone(zones, s, q) % zones, Sent(zones, s, q)) =
           Milli(range, zones, s, q)
<1>0. PICK e \in Int : e = Half(zones, s, q)
  BY HalfType
<1>1. PICK y \in Int, u \in 0 .. Resolution - 1 :
        y = e \div Resolution /\ u = e % Resolution /\ e = Resolution * y + u
  BY Division
<1>2. PICK w \in Int, z \in 0 .. zones - 1 : w = y \div zones /\ z = y % zones /\ y = zones * w + z
  BY Division
<1>3. Angle(range, zones, z, u) = (1000 * (range * (Resolution * z + u))) \div (zones * Resolution)
  BY AngleIs
<1>4. Resolution * z + u = e % (zones * Resolution)
  BY <1>1, <1>2, ZonePutBack
<1> QED
  <2>1. y % zones = z /\ y = Zone(zones, s, q) /\ u = Sent(zones, s, q)
    BY <1>0, <1>1, <1>2 DEF Zone, Sent
  <2>2. Milli(range, zones, s, q) = (1000 * (range * (e % (zones * Resolution)))) \div (zones * Resolution)
    BY <1>0 DEF Milli
  <2>3. Milli(range, zones, s, q) = Angle(range, zones, z, u)
    BY <1>3, <1>4, <2>2
  <2> QED
    BY <2>1, <2>3

(* Both latitudes that the decoder computes are the encoded one.           *)
LEMMA LatitudesDecoded ==
    ASSUME Resolution \in Nat, Resolution >= 120, NEW range \in Nat,
           NEW s \in Int, NEW q \in Nat \ {0}
    PROVE  ComputeRLat(range, Sent(60, s, q), Sent(59, s, q)) =
           << Milli(range, 60, s, q), Milli(range, 59, s, q) >>
<1>1. PICK n \in Nat \ {0} : n = 60
  OBVIOUS
<1>2. PICK p \in Nat \ {0} : p = 59
  OBVIOUS
<1>3. Resolution \in Nat \ {0} /\ Resolution >= 2 * n /\ p = n - 1
  BY <1>1, <1>2
<1>4. SameZones(RoundedIndex(n, p, s, q), n, p, Zone(n, s, q), Zone(p, s, q))
  BY <1>3, ZonesFound
<1>6. Angle(range, n, Zone(n, s, q) % n, Sent(n, s, q)) = Milli(range, n, s, q)
  BY <1>3, AngleFound
<1>7. Angle(range, p, Zone(p, s, q) % p, Sent(p, s, q)) = Milli(range, p, s, q)
  BY <1>3, AngleFound
<1> QED
  BY <1>1, <1>2, <1>4, <1>6, <1>7, Zenon DEF ComputeRLat, ComputeLatitudeIndex, RoundedIndex, SameZones

(* Of 58 limits between 59 numbers of zones at least one zone is left.     *)
LEMMA ZonesOfLatitude ==
    ASSUME NEW milli
    PROVE  GetNumLongitudeZone(milli) \in 1 .. 59
<1> DEFINE passed == {i \in DOMAIN NLTable : NLTable[i] <= AbsMilli(milli)}
<1>1. DOMAIN NLTable = 1 .. 58
  BY DEF NLTable
<1>2. IsFiniteSet(1 .. 58) /\ Cardinality(1 .. 58) = 58
  <2>1. PICK k \in Nat : k = 58
    OBVIOUS
  <2>2. IsFiniteSet(1 .. k) /\ Cardinality(1 .. k) = k
    BY FS_Interval
  <2> QED
    BY <2>1, <2>2, Zenon
<1>3. passed \in SUBSET (1 .. 58)
  BY <1>1
<1> HIDE DEF passed
<1>4. Cardinality(passed) \in Nat /\ Cardinality(passed) <= 58
  <2>1. IsFiniteSet(passed) /\ Cardinality(passed) <= Cardinality(1 .. 58)
    BY <1>2, <1>3, FS_Subset, Zenon
  <2> QED
    BY <1>2, <2>1, FS_CardinalityType
<1>5. GetNumLongitudeZone(milli) = 59 - Cardinality(passed)
  BY DEF GetNumLongitudeZone, passed
<1>6. 59 - Cardinality(passed) \in 1 .. 59
  BY <1>4
<1> QED
  BY <1>5, <1>6, Zenon

LEMMA SentType ==
    ASSUME Resolution \in Nat \ {0}, NEW zones \in Nat, NEW s \in Int, NEW q \in Nat \ {0}
    PROVE  Sent(zones, s, q) \in Int /\ Zone(zones, s, q) \in Int
<1>1. PICK e \in Int : e = Half(zones, s, q)
  BY HalfType
<1>2. e % Resolution \in Int /\ e \div Resolution \in Int
  BY DivMod
<1> QED
  BY <1>1, <1>2 DEF Sent, Zone

(* The zones of the odd half, one less than those of the even one unless   *)
(* that would leave none.                                                  *)
ZonesBelow(nl) == IF nl = 1 THEN 1 ELSE nl - 1

(* The longitude is decoded with as many zones as the latitude has, which  *)
(* are those it was encoded with, also near the poles where there is one.  *)
LEMMA LongitudeDecoded ==
    ASSUME Resolution \in Nat, Resolution >= 120, NEW range \in Nat,
           NEW even, NEW odd, NEW n, n = GetNumLongitudeZone(even), n = GetNumLongitudeZone(odd),
           NEW x \in Int, NEW y \in Nat \ {0}, NEW oddOlder \in BOOLEAN
    PROVE  ComputeLatLon(range, <<even, odd>>, Sent(n, x, y), Sent(ZonesBelow(n), x, y), oddOlder) =
           IF oddOlder THEN [lat |-> odd,  lon |-> Milli(range, ZonesBelow(n), x, y)]
                       ELSE [lat |-> even, lon |-> Milli(range, n, x, y)]
<1>1. n \in Nat \ {0} /\ n <= 59 /\ Resolution \in Nat \ {0}
  BY ZonesOfLatitude
<1>2. PICK p \in Nat \ {0} : p = ZonesBelow(n)
  BY <1>1 DEF ZonesBelow
<1>3. PICK i \in Int, j \in Int : i = Sent(n, x, y) /\ j = Sent(p, x, y)
  BY <1>1, <1>2, SentType
<1> DEFINE m == RoundedZone(i * (n - 1) - j * n)
<1>4. CprNFunction(even, 0) = n /\ CprNFunction(odd, 1) = p
  BY <1>1, <1>2 DEF CprNFunction, ZonesBelow
<1>5. m % n = Zone(n, x, y) % n /\ m % p = Zone(p, x, y) % p
  <2>1. CASE n = 1
    <3>1. p = 1
      BY <1>2, <2>1 DEF ZonesBelow
    <3>2. m \in Int
      <4>1. 2 * (i * (n - 1) - j * n) + Resolution \in Int /\ 2 * Resolution \in Nat \ {0}
        BY <1>1
      <4> QED
        BY <4>1, DivMod DEF RoundedZone
    <3>3. Zone(1, x, y) \in Int
      BY <1>1, SentType
    <3>4. \A k \in Int : k % 1 = 0
      OBVIOUS
    <3> HIDE DEF m
    <3> QED
      BY <2>1, <3>1, <3>2, <3>3, <3>4
  <2>2. CASE n # 1
    <3>1. p = n - 1 /\ Resolution >= 2 * n
      BY <1>1, <1>2, <2>2 DEF ZonesBelow
    <3>2. SameZones(RoundedIndex(n, p, x, y), n, p, Zone(n, x, y), Zone(p, x, y))
      BY <1>1, <3>1, ZonesFound
    <3>3. i * (n - 1) - j * n = p * i - n * j
      BY <1>1, <3>1
    <3>4. m = RoundedIndex(n, p, x, y)
      BY <1>3, <3>3 DEF RoundedIndex
    <3> HIDE DEF m
    <3> QED
      BY <3>2, <3>4 DEF SameZones
  <2> QED
    BY <2>1, <2>2
<1> HIDE DEF m
<1>6. /\ Angle(range, n, m % n, i) = Milli(range, n, x, y)
      /\ Angle(range, p, m % p, j) = Milli(range, p, x, y)
  <2>1. Angle(range, n, Zone(n, x, y) % n, Sent(n, x, y)) = Milli(range, n, x, y)
    BY <1>1, AngleFound
  <2>2. Angle(range, p, Zone(p, x, y) % p, Sent(p, x, y)) = Milli(range, p, x, y)
    BY <1>1, AngleFound
  <2> QED
    BY <1>3, <1>5, <2>1, <2>2
<1>7. CASE oddOlder
  <2>1. ComputeLatLon(range, <<even, odd>>, i, j, oddOlder) =
        [lat |-> odd, lon |-> Angle(range, p, m % p, j)]
    BY <1>4, <1>7 DEF ComputeLatLon, m
  <2> QED
    BY <1>2, <1>3, <1>6, <1>7, <2>1
<1>8. CASE ~oddOlder
  <2>1. ComputeLatLon(range, <<even, odd>>, i, j, oddOlder) =
        [lat |-> even, lon |-> Angle(range, n, m % n, i)]
    <3>1. (IF oddOlder THEN 1 ELSE 0) = 0 /\ <<even, odd>>[0 + 1] = even
      BY <1>8
    <3> QED
      BY <1>4, <1>8, <3>1 DEF ComputeLatLon, m
  <2> QED
    BY <1>2, <1>3, <1>6, <1>8, <2>1
<1> QED
  BY <1>7, <1>8

(* m thousandths of a degree, within a circle of range degrees, are place  *)
(* but for c whole circles and a slack.                                    *)
OffBy(c, m, range, place, slack) == Near(m + 1000 * range * c, place, slack)

Locates(m, range, place, slack) ==
    /\ m \in Int /\ m >= 0 /\ m < 1000 * range
    /\ \E c \in Int : OffBy(c, m, range, place, slack)

(* Milli is off a place of s tenths of a degree by the thousandth that it  *)
(* is rounded down to and by half of one of the numbers the encoder counts *)
(* by.                                                                     *)
LEMMA MilliNear ==
    ASSUME Resolution \in Nat \ {0}, NEW range \in Nat \ {0}, NEW zones \in Nat \ {0}, NEW s \in Int,
           NEW slack \in Nat, 500 * range <= (slack - 1) * (zones * Resolution)
    PROVE  Locates(Milli(range, zones, s, 10 * range), range, 100 * s, slack)
<1>1. PICK full \in Nat \ {0} : full = zones * Resolution
  OBVIOUS
<1>2. PICK q \in Nat \ {0} : q = 10 * range
  OBVIOUS
<1>3. PICK h \in Int : h = Half(zones, s, q)
  BY HalfType
<1>4. PICK f \in Int : f = 2 * (full * s) - 2 * (q * h)
  <2>1. full * s \in Int /\ q * h \in Int
    OBVIOUS
  <2>2. 2 * (full * s) - 2 * (q * h) \in Int
    BY <2>1
  <2> QED
    BY <2>2, Zenon
<1>5. f >= -q /\ f <= q
  <2>1. zones * (Resolution * s) \in Int /\ zones * (Resolution * s) = full * s
    BY <1>1
  <2>2. 2 * (full * s) - 2 * (q * h) \in -q .. q - 1
    BY <1>3, <2>1, NearestIs DEF Half
  <2> QED
    BY <1>4, <2>2
<1>6. PICK c \in Int, g \in 0 .. full - 1 : c = h \div full /\ g = h % full /\ h = full * c + g
  BY Division
<1>7. PICK a \in Int : a = 1000 * (range * g)
  OBVIOUS
<1>8. PICK m \in Int, r \in 0 .. full - 1 : m = a \div full /\ r = a % full /\ a = full * m + r
  BY Division
<1>9. Milli(range, zones, s, q) = m
  <2>1. Milli(range, zones, s, q) = (1000 * (range * (h % full))) \div full
    BY <1>1, <1>3 DEF Milli
  <2>2. h % full = g
    BY <1>6
  <2>3. Milli(range, zones, s, q) = a \div full
    BY <1>7, <2>1, <2>2
  <2> QED
    BY <1>8, <2>3
<1>10. h = full * c + g /\ a = full * m + r
  BY <1>6, <1>8
<1>11. m >= 0 /\ m < 1000 * range
  <2>1. range * g >= 0 /\ range * g < range * full
    OBVIOUS
  <2>2. a >= 0 /\ a < full * (1000 * range)
    BY <1>7, <2>1
  <2>3. full * m > -full /\ full * m < full * (1000 * range)
    BY <1>10, <2>2
  <2> QED
    BY <2>3
<1>12. PICK d \in Int : d = m + 1000 * range * c - 100 * s
  OBVIOUS
<1>13. q * (full * d) = -(q * r) - 500 * (range * f)
  <2>1. PICK t \in Int : t = m + 1000 * range * c
    OBVIOUS
  <2>2. full * t = full * m + 1000 * (range * (full * c))
    BY <2>1
  <2>3. 1000 * (range * h) = 1000 * (range * (full * c)) + a
    BY <1>7, <1>10
  <2>4. full * t = 1000 * (range * h) - r
    BY <1>10, <2>2, <2>3
  <2>5. q * (full * t) = 1000 * (range * (q * h)) - q * r
    BY <2>4
  <2>6. 500 * (range * f) = 1000 * (range * (full * s)) - 1000 * (range * (q * h))
    BY <1>4
  <2>7. q * (full * d) = q * (full * t) - 1000 * (range * (full * s))
    BY <1>2, <1>12, <2>1
  <2> QED
    BY <2>5, <2>6, <2>7
<1>14. /\ q * r >= 0 /\ q * r <= q * full
       /\ 500 * (range * f) >= -(q * (500 * range)) /\ 500 * (range * f) <= q * (500 * range)
  <2>1. range * f >= -(range * q) /\ range * f <= range * q
    BY <1>5
  <2>2. q * r >= 0 /\ q * r <= q * full
    OBVIOUS
  <2> QED
    BY <2>1, <2>2
<1>15. q * (full * d) >= q * (-(500 * range + full)) /\ q * (full * d) <= q * (500 * range)
  BY <1>13, <1>14
<1>16. full * d >= -(500 * range + full) /\ full * d <= 500 * range
  BY <1>15
<1>17. 500 * range <= (slack - 1) * full
  BY <1>1
<1>18. full * d >= full * (-slack) /\ full * d <= full * (slack - 1)
  BY <1>16, <1>17
<1>19. d >= -slack /\ d <= slack
  BY <1>18
<1>20. OffBy(c, m, range, 100 * s, slack)
  BY <1>12, <1>19 DEF Near, OffBy
<1>21. Locates(m, range, 100 * s, slack)
  BY <1>11, <1>20 DEF Locates
<1> QED
  BY <1>2, <1>9, <1>21

(* Airborne: an aircraft at s / q of the circle of latitude and x / y of   *)
(* that of longitude sends two halves; what DecodeGlobalAir makes of them  *)
(* is that place, rounded as the encoder rounds, unless the two latitudes  *)
(* lie on either side of a limit of NLTable: then it refuses them.         *)
THEOREM AirPositionDecoded ==
    ASSUME Resolution \in Nat, Resolution >= 120,
           NEW s \in Int, NEW q \in Nat \ {0}, NEW x \in Int, NEW y \in Nat \ {0},
           NEW oddOlder \in BOOLEAN,
           NEW a, a = South(Milli(360, 60, s, q)),
           NEW b, b = South(Milli(360, 59, s, q)),
           NEW n, n = GetNumLongitudeZone(a)
    PROVE  DecodeGlobalAir([lat |-> Sent(60, s, q), lon |-> Sent(n, x, y)],
                             [lat |-> Sent(59, s, q), lon |-> Sent(ZonesBelow(n), x, y)], oddOlder) =
           IF n # GetNumLongitudeZone(b) THEN NoDecode
           ELSE NormaliseLatLon(
                    IF oddOlder THEN [lat |-> b, lon |-> Milli(360, ZonesBelow(n), x, y)]
                                ELSE [lat |-> a, lon |-> Milli(360, n, x, y)])
<1> DEFINE even == [lat |-> Sent(60, s, q), lon |-> Sent(n, x, y)]
           odd  == [lat |-> Sent(59, s, q), lon |-> Sent(ZonesBelow(n), x, y)]
<1>1. ComputeRLat(360, even.lat, odd.lat) = << Milli(360, 60, s, q), Milli(360, 59, s, q) >>
  BY LatitudesDecoded
<1>2. DecodeGlobalAir(even, odd, oddOlder) =
      IF n # GetNumLongitudeZone(b) THEN NoDecode
      ELSE NormaliseLatLon(ComputeLatLon(360, <<a, b>>, even.lon, odd.lon, oddOlder))
  BY <1>1 DEF DecodeGlobalAir
<1>3. ASSUME n = GetNumLongitudeZone(b)
      PROVE  ComputeLatLon(360, <<a, b>>, even.lon, odd.lon, oddOlder) =
             IF oddOlder THEN [lat |-> b, lon |-> Milli(360, ZonesBelow(n), x, y)]
                         ELSE [lat |-> a, lon |-> Milli(360, n, x, y)]
  BY <1>3, LongitudeDecoded
<1> QED
  BY <1>2, <1>3

(* Surface: the halves leave open the quadrant of the latitude and that of *)
(* the longitude, which the reference decides.                             *)
THEOREM SurfacePositionDecoded ==
    ASSUME Resolution \in Nat, Resolution >= 120,
           NEW s \in Int, NEW q \in Nat \ {0}, NEW x \in Int, NEW y \in Nat \ {0},
           NEW oddOlder \in BOOLEAN, NEW refLat, NEW refLon, ~(refLat = 0 /\ refLon = 0),
           NEW a, a = QuadrantTwiddle(Milli(90, 60, s, q), refLat),
           NEW b, b = QuadrantTwiddle(Milli(90, 59, s, q), refLat),
           ~(a < -90000 \/ a > 90000 \/ b < -90000 \/ b > 90000),
           NEW n, n = GetNumLongitudeZone(a)
    PROVE  DecodeSurface([lat |-> Sent(60, s, q), lon |-> Sent(n, x, y)],
                           [lat |-> Sent(59, s, q), lon |-> Sent(ZonesBelow(n), x, y)],
                           oddOlder, refLat, refLon) =
           IF n # GetNumLongitudeZone(b) THEN NoDecode
           ELSE NormaliseLatLon(
                    IF oddOlder
                    THEN [lat |-> b, lon |-> LongitudeTwiddle(Milli(90, ZonesBelow(n), x, y), refLon)]
                    ELSE [lat |-> a, lon |-> LongitudeTwiddle(Milli(90, n, x, y), refLon)])
<1> DEFINE even == [lat |-> Sent(60, s, q), lon |-> Sent(n, x, y)]
           odd  == [lat |-> Sent(59, s, q), lon |-> Sent(ZonesBelow(n), x, y)]
           loc  == ComputeLatLon(90, <<a, b>>, even.lon, odd.lon, oddOlder)
<1>1. ComputeRLat(90, even.lat, odd.lat) = << Milli(90, 60, s, q), Milli(90, 59, s, q) >>
  BY LatitudesDecoded
<1>2. ~ \E i \in 1 .. 2 : <<a, b>>[i] < -90000 \/ <<a, b>>[i] > 90000
  OBVIOUS
<1>3. DecodeSurface(even, odd, oddOlder, refLat, refLon) =
      IF n # GetNumLongitudeZone(b) THEN NoDecode
      ELSE NormaliseLatLon([loc EXCEPT !.lon = LongitudeTwiddle(@, refLon)])
  BY <1>1, <1>2 DEF DecodeSurface
<1>4. ASSUME n = GetNumLongitudeZone(b)
      PROVE  loc = IF oddOlder THEN [lat |-> b, lon |-> Milli(90, ZonesBelow(n), x, y)]
                               ELSE [lat |-> a, lon |-> Milli(90, n, x, y)]
  BY <1>4, LongitudeDecoded
<1>5. ASSUME NEW lat, NEW lon, NEW new
      PROVE  [[lat |-> lat, lon |-> lon] EXCEPT !.lon = new] = [lat |-> lat, lon |-> new]
  OBVIOUS
<1> HIDE DEF loc
<1>6. ASSUME n = GetNumLongitudeZone(b)
      PROVE  [loc EXCEPT !.lon = LongitudeTwiddle(@, refLon)] =
             IF oddOlder
             THEN [lat |-> b, lon |-> LongitudeTwiddle(Milli(90, ZonesBelow(n), x, y), refLon)]
             ELSE [lat |-> a, lon |-> LongitudeTwiddle(Milli(90, n, x, y), refLon)]
  <2>1. CASE oddOlder
    BY <1>4, <1>5, <1>6, <2>1
  <2>2. CASE ~oddOlder
    BY <1>4, <1>5, <1>6, <2>2
  <2> QED
    BY <2>1, <2>2
<1> QED
  BY <1>3, <1>6

(* The multiple of a quadrant, 2 * h, that brings lon nearest to ref,      *)
(* folded into the circle.                                                 *)
LEMMA NearestMultiple ==
    ASSUME NEW h \in Nat \ {0}, NEW lon \in Int, NEW ref \in Int,
           NEW near, near = lon + ((ref - lon + h) \div (2 * h)) * (2 * h),
           NEW turned, turned = near - ((near + 4 * h) \div (8 * h)) * (8 * h)
    PROVE  \E k \in Int, w \in Int :
               /\ turned = lon + (2 * h) * k
               /\ turned - (8 * h) * w - ref > -h /\ turned - (8 * h) * w - ref <= h
               /\ turned \in Int /\ turned >= -(4 * h) /\ turned < 4 * h
<1>1. PICK d \in Nat \ {0}, e \in Nat \ {0} : d = 2 * h /\ e = 8 * h
  OBVIOUS
<1>2. PICK i \in Int, r \in 0 .. d - 1 :
        i = (ref - lon + h) \div d /\ r = (ref - lon + h) % d /\ ref - lon + h = d * i + r
  <2>1. ref - lon + h \in Int
    OBVIOUS
  <2> QED
    BY <2>1, Division
<1>3. near \in Int /\ near = lon + d * i
  BY <1>1, <1>2
<1>4. PICK j \in Int, t \in 0 .. e - 1 :
        j = (near + 4 * h) \div e /\ t = (near + 4 * h) % e /\ near + 4 * h = e * j + t
  <2>1. near + 4 * h \in Int
    BY <1>3
  <2> QED
    BY <2>1, Division
<1>5. turned = near - e * j
  <2>1. (near + 4 * h) \div (8 * h) = j
    BY <1>1, <1>4
  <2> QED
    BY <1>1, <1>3, <2>1
<1>6. turned = lon + d * (i - 4 * j)
  <2>1. e * j = d * (4 * j)
    BY <1>1
  <2> QED
    BY <1>3, <1>5, <2>1
<1>7. turned - e * (-j) - ref > -h /\ turned - e * (-j) - ref <= h
  <2>1. ref - lon + h = d * i + r
    BY <1>2
  <2>2. turned - e * (-j) = near
    BY <1>3, <1>5
  <2> QED
    BY <1>1, <1>3, <2>1, <2>2
<1>8. turned \in Int /\ turned >= -(4 * h) /\ turned < 4 * h
  <2>1. near + 4 * h = e * j + t
    BY <1>4
  <2> QED
    BY <1>1, <1>3, <1>5, <2>1
<1>9. i - 4 * j \in Int /\ -j \in Int
  OBVIOUS
<1> QED
  BY <1>1, <1>6, <1>7, <1>8, <1>9

(* turned is lon moved by whole quadrants to within 45 degrees of ref      *)
(* around the circle, and lies within -180 .. 180.                         *)
TurnedBy(k, w, ref, turned, lon) ==
    /\ turned = lon + 90000 * k
    /\ AbsMilli(turned - 360000 * w - ref) <= 45000
    /\ turned >= -180000 /\ turned < 180000

NearestTo(ref, turned, lon) == \E k, w \in Int : TurnedBy(k, w, ref, turned, lon)

(* The longitude it takes is the decoded one moved to the quadrant that    *)
(* the reference lies in, for every reference.                             *)
THEOREM NearestQuadrant ==
    ASSUME NEW lon \in Int, NEW refLon \in Int
    PROVE  NearestTo(refLon, LongitudeTwiddle(lon, refLon), lon)
<1>1. PICK h \in Nat \ {0} : h = 45000
  BY SMT
<1> DEFINE near   == lon + ((refLon - lon + h) \div (2 * h)) * (2 * h)
           turned == near - ((near + 4 * h) \div (8 * h)) * (8 * h)
<1>2. \E k \in Int, w \in Int :
          /\ turned = lon + (2 * h) * k
          /\ turned - (8 * h) * w - refLon > -h /\ turned - (8 * h) * w - refLon <= h
          /\ turned \in Int /\ turned >= -(4 * h) /\ turned < 4 * h
  BY NearestMultiple
<1>3. LongitudeTwiddle(lon, refLon) = turned
  BY <1>1, SMT DEF LongitudeTwiddle
<1> HIDE DEF turned
<1>4. PICK k \in Int, w \in Int :
          /\ turned = lon + (2 * h) * k
          /\ turned - (8 * h) * w - refLon > -h /\ turned - (8 * h) * w - refLon <= h
          /\ turned \in Int /\ turned >= -(4 * h) /\ turned < 4 * h
  BY <1>2
<1>5. 2 * h = 90000 /\ 4 * h = 180000 /\ 8 * h = 360000
  BY <1>1, SMT
<1>6. turned = lon + 90000 * k /\ turned \in Int /\ turned >= -180000 /\ turned < 180000
  BY <1>4, <1>5, SMT
<1>7. AbsMilli(turned - 360000 * w - refLon) <= 45000
  BY <1>1, <1>4, <1>5, SMT DEF AbsMilli
<1>8. NearestTo(refLon, turned, lon)
  <2>1. TurnedBy(k, w, refLon, turned, lon)
    BY <1>6, <1>7, SMT DEF TurnedBy
  <2> QED
    BY <2>1, SMT DEF NearestTo
<1> QED
  BY <1>3, <1>8, SMT

(* What the run encodes are the halves of a place in tenths of a degree.   *)
LEMMA EncodedIsSent ==
    ASSUME Resolution \in Nat \ {0}, NEW tenths \in Int, NEW zones \in Nat, NEW range \in Nat \ {0}
    PROVE  EncodeFraction(tenths, zones, range) = Sent(zones, tenths, 10 * range)
<1>1. PICK q \in Nat \ {0} : q = 10 * range
  OBVIOUS
<1>2. PICK a \in Int : a = tenths * zones
  OBVIOUS
<1>3. PICK c \in Int, f \in 0 .. q - 1 : c = a \div q /\ f = a % q /\ a = q * c + f
  BY Division
<1>4. PICK x \in Int : x = Resolution * f
  OBVIOUS
<1>5. PICK y \in Int : y = Resolution * c
  OBVIOUS
<1>6. zones * (Resolution * tenths) = q * y + x
  <2>1. a = q * c + f
    BY <1>3
  <2>2. zones * (Resolution * tenths) = Resolution * a
    BY <1>2
  <2>3. Resolution * a = q * (Resolution * c) + Resolution * f
    BY <2>1
  <2> QED
    BY <1>4, <1>5, <2>2, <2>3
<1>7. PICK k \in Int, r \in 0 .. 2 * q - 1 :
        k = (2 * x + q) \div (2 * q) /\ r = (2 * x + q) % (2 * q) /\ 2 * x + q = (2 * q) * k + r
  <2>1. 2 * x + q \in Int /\ 2 * q \in Nat \ {0}
    OBVIOUS
  <2> QED
    BY <2>1, Division
<1>8. Half(zones, tenths, q) = y + k
  <2>1. 2 * x + q = (2 * q) * k + r
    BY <1>7
  <2>2. 2 * (q * y + x) + q = (2 * q) * (y + k) + r
    BY <2>1
  <2>3. 2 * (q * y + x) + q \in Int /\ 2 * q \in Nat \ {0} /\ y + k \in Int
    OBVIOUS
  <2>4. (2 * (q * y + x) + q) \div (2 * q) = y + k
    BY <2>2, <2>3, DivIs
  <2> QED
    BY <1>6, <2>4 DEF Half, Nearest
<1>9. (y + k) % Resolution = k % Resolution
  <2>1. PICK l \in Int, t \in 0 .. Resolution - 1 :
          l = k \div Resolution /\ t = k % Resolution /\ k = Resolution * l + t
    BY Division
  <2>2. k = Resolution * l + t
    BY <2>1
  <2>3. y + k = Resolution * (c + l) + t
    BY <1>5, <2>2
  <2>4. y + k \in Int /\ c + l \in Int
    OBVIOUS
  <2>5. (y + k) % Resolution = t
    BY <2>3, <2>4, DivIs
  <2> QED
    BY <2>1, <2>5
<1>10. EncodeFraction(tenths, zones, range) = k % Resolution
  <2>1. 2 * Resolution * f + 10 * range = 2 * x + q /\ 20 * range = 2 * q
    BY <1>1, <1>4
  <2>2. (tenths * zones) % (10 * range) = f
    BY <1>1, <1>2, <1>3
  <2>3. EncodeFraction(tenths, zones, range) = ((2 * x + q) \div (2 * q)) % Resolution
    BY <2>1, <2>2 DEF EncodeFraction
  <2> QED
    BY <1>7, <2>3
<1>11. Sent(zones, tenths, q) = (y + k) % Resolution
  BY <1>8 DEF Sent
<1> QED
  BY <1>1, <1>9, <1>10, <1>11

(* Near, in inequalities.                                                  *)
LEMMA NearIs ==
    ASSUME NEW a \in Int, NEW b \in Int, NEW k \in Nat
    PROVE  Near(a, b, k) <=> a - b >= -k /\ a - b <= k
BY DEF Near

(* The circle of latitude begins at the equator.                           *)
LEMMA SouthLocated ==
    ASSUME NEW m, NEW place \in Int, place >= -89000, place <= 89000, Locates(m, 360, place, 2)
    PROVE  South(m) \in Int /\ South(m) - place >= -2 /\ South(m) - place <= 2
<1>1. PICK c \in Int : OffBy(c, m, 360, place, 2)
  BY DEF Locates
<1>2. m \in Int /\ m >= 0 /\ m < 360000
  BY SMT DEF Locates
<1>3. PICK t \in Int : t = m + 360000 * c
  BY <1>2, SMT
<1>4. Near(t, place, 2)
  BY <1>1, <1>3, SMT DEF OffBy
<1>5. t - place >= -2 /\ t - place <= 2
  BY <1>4, NearIs
<1>6. c = 0 \/ c = -1
  BY <1>2, <1>3, <1>5, SMT
<1>7. South(m) = t
  BY <1>2, <1>3, <1>5, <1>6, SMT DEF South
<1> QED
  BY <1>5, <1>7

(* Away from the limits of the table a latitude keeps its zones.           *)
LEMMA ZonesNear ==
    ASSUME NEW a \in Int, NEW place \in Int, a - place >= -2, a - place <= 2, ~AtZoneEdge(place)
    PROVE  GetNumLongitudeZone(a) = GetNumLongitudeZone(place)
<1>1. \A i \in DOMAIN NLTable : NLTable[i] \in Int
  BY SMT DEF NLTable
<1>2. PICK u \in Int, v \in Int : u = AbsMilli(a) /\ v = AbsMilli(place)
  BY DEF AbsMilli
<1>3. u - v >= -2 /\ u - v <= 2
  BY <1>2 DEF AbsMilli
<1>4. ASSUME NEW i \in DOMAIN NLTable PROVE NLTable[i] <= u <=> NLTable[i] <= v
  <2>1. PICK limit \in Int : limit = NLTable[i]
    BY <1>1
  <2>2. ~Near(v, limit, 3)
    BY <1>2, <2>1 DEF AtZoneEdge
  <2>3. v - limit < -3 \/ v - limit > 3
    BY <2>2, NearIs
  <2> QED
    BY <1>3, <2>1, <2>3
<1>5. {i \in DOMAIN NLTable : NLTable[i] <= u} = {i \in DOMAIN NLTable : NLTable[i] <= v}
  BY <1>4
<1> QED
  BY <1>2, <1>5, Zenon DEF GetNumLongitudeZone

(* NormaliseLatLon keeps a latitude of the earth, and a longitude but for  *)
(* a whole circle.                                                         *)
LEMMA Normalised ==
    ASSUME NEW lat \in Int, lat >= -90000, lat <= 90000, NEW lon \in Int
    PROVE  NormaliseLatLon([lat |-> lat, lon |-> lon]) =
           [lat |-> lat, lon |-> IF lon > 180000 THEN lon - 360000 ELSE lon]
<1>1. ~(lat < -90000 \/ lat > 90000)
  BY SMT
<1> QED
  BY <1>1, SMT DEF NormaliseLatLon

(* The circle of longitude begins at Greenwich and is cut at the date      *)
(* line.                                                                   *)
LEMMA LongitudeLocated ==
    ASSUME NEW m, NEW place \in Int, place >= -180000, place <= 180000, Locates(m, 360, place, 12)
    PROVE  m \in Int /\ NearLon(IF m > 180000 THEN m - 360000 ELSE m, place, 25)
<1>1. PICK c \in Int : OffBy(c, m, 360, place, 12)
  BY DEF Locates
<1>2. m \in Int /\ m >= 0 /\ m < 360000
  BY SMT DEF Locates
<1>3. PICK t \in Int : t = m + 360000 * c
  BY <1>2, SMT
<1>4. Near(t, place, 12)
  BY <1>1, <1>3, SMT DEF OffBy
<1>5. t - place >= -12 /\ t - place <= 12
  BY <1>4, NearIs
<1>6. c = 0 \/ c = -1
  BY <1>2, <1>3, <1>5, SMT
<1>7. PICK l \in Int : l = IF m > 180000 THEN m - 360000 ELSE m
  BY <1>2, SMT
<1>8. t = l \/ t = l - 360000 \/ t = l + 360000
  BY <1>2, <1>3, <1>6, <1>7, SMT
<1>9. Near(t, place, 25)
  BY <1>5, NearIs
<1> QED
  BY <1>2, <1>7, <1>8, <1>9 DEF NearLon

(* The zones the encoder takes for a longitude.                            *)
LEMMA EncodedZones ==
    ASSUME NEW lat \in Int, NEW n, n = GetNumLongitudeZone(100 * lat)
    PROVE  /\ n \in Nat \ {0} /\ ZonesBelow(n) \in Nat \ {0}
           /\ CprNFunction(100 * lat, 0) = n /\ CprNFunction(100 * lat, 1) = ZonesBelow(n)
<1>1. n \in Nat \ {0}
  BY ZonesOfLatitude
<1> QED
  BY <1>1 DEF CprNFunction, ZonesBelow

(* The halves of the run, as halves of a place in tenths of a degree.      *)
LEMMA EncodedIs ==
    ASSUME Resolution \in Nat \ {0}, NEW lat \in Int, NEW lon \in Int, NEW range \in Nat \ {0},
           NEW n, n = GetNumLongitudeZone(100 * lat)
    PROVE  /\ Encode(lat, lon, 0, range) =
              [lat |-> Sent(60, lat, 10 * range), lon |-> Sent(n, lon, 10 * range)]
           /\ Encode(lat, lon, 1, range) =
              [lat |-> Sent(59, lat, 10 * range), lon |-> Sent(ZonesBelow(n), lon, 10 * range)]
<1>1. /\ n \in Nat \ {0} /\ ZonesBelow(n) \in Nat \ {0}
      /\ CprNFunction(100 * lat, 0) = n /\ CprNFunction(100 * lat, 1) = ZonesBelow(n)
  BY EncodedZones
<1>2. 60 - 0 = 60 /\ 60 - 1 = 59 /\ 60 \in Nat /\ 59 \in Nat
  BY SMT
<1>3. /\ EncodeFraction(lat, 60, range) = Sent(60, lat, 10 * range)
      /\ EncodeFraction(lat, 59, range) = Sent(59, lat, 10 * range)
  BY <1>2, EncodedIsSent
<1>4. /\ EncodeFraction(lon, n, range) = Sent(n, lon, 10 * range)
      /\ EncodeFraction(lon, ZonesBelow(n), range) = Sent(ZonesBelow(n), lon, 10 * range)
  BY <1>1, EncodedIsSent
<1>5. Encode(lat, lon, 0, range) =
      [lat |-> EncodeFraction(lat, 60, range), lon |-> EncodeFraction(lon, n, range)]
  BY <1>1, <1>2 DEF Encode
<1>6. Encode(lat, lon, 1, range) =
      [lat |-> EncodeFraction(lat, 59, range), lon |-> EncodeFraction(lon, ZonesBelow(n), range)]
  BY <1>1, <1>2 DEF Encode
<1> QED
  BY <1>3, <1>4, <1>5, <1>6

(* What is left of a circle in the numbers an encoder counts by.           *)
LEMMA FineEnough ==
    ASSUME Resolution \in Nat, Resolution >= 16384, NEW zones \in Nat \ {0}
    PROVE  /\ zones >= 59 => 500 * 360 <= (2 - 1) * (zones * Resolution)
           /\ 500 * 360 <= (12 - 1) * (zones * Resolution)
<1>1. PICK full \in Nat : full = zones * Resolution
  OBVIOUS
<1>2. full >= Resolution
  BY <1>1
<1>3. zones >= 59 => full >= 59 * Resolution
  BY <1>1
<1> QED
  BY <1>1, <1>2, <1>3, SMT

(* The latitude of a decoded place is one of the two that were computed.   *)
LEMMA LatitudeKept ==
    ASSUME NEW range, NEW a \in Int, NEW b \in Int, NEW x, NEW y, NEW oddOlder \in BOOLEAN,
           NEW loc, loc = ComputeLatLon(range, <<a, b>>, x, y, oddOlder)
    PROVE  loc = [lat |-> IF oddOlder THEN b ELSE a, lon |-> loc.lon]
<1>1. CASE oddOlder
  <2>1. (IF oddOlder THEN 1 ELSE 0) = 1 /\ <<a, b>>[1 + 1] = b
    BY <1>1
  <2> QED
    BY <1>1, <2>1, SMT DEF ComputeLatLon
<1>2. CASE ~oddOlder
  <2>1. (IF oddOlder THEN 1 ELSE 0) = 0 /\ <<a, b>>[0 + 1] = a
    BY <1>2
  <2> QED
    BY <1>2, <2>1, SMT DEF ComputeLatLon
<1> QED
  BY <1>1, <1>2

LEMMA LatitudeNormalised ==
    ASSUME NEW lat \in Int, lat >= -90000, lat <= 90000, NEW lon
    PROVE  NormaliseLatLon([lat |-> lat, lon |-> lon]).lat = lat
<1>1. ~(lat < -90000 \/ lat > 90000)
  BY SMT
<1> QED
  BY <1>1, SMT DEF NormaliseLatLon

(* An airborne position is decoded from its halves for every place in      *)
(* tenths of a degree, to within the resolution RoundTrip names, by either *)
(* half; it is refused, if at all, at the limit of a zone.                 *)
THEOREM AirFound ==
    ASSUME Resolution \in Nat, Resolution >= 16384,
           NEW lat \in Int, lat >= -890, lat <= 890, NEW lon \in Int, lon >= -1800, lon <= 1800,
           NEW oddOlder \in BOOLEAN
    PROVE  RoundTrip(DecodeGlobalAir(Encode(lat, lon, 0, 360), Encode(lat, lon, 1, 360), oddOlder),
                       lat, lon)
<1> DEFINE n    == GetNumLongitudeZone(100 * lat)
           even == [lat |-> Sent(60, lat, 3600), lon |-> Sent(n, lon, 3600)]
           odd  == [lat |-> Sent(59, lat, 3600), lon |-> Sent(ZonesBelow(n), lon, 3600)]
           a    == South(Milli(360, 60, lat, 3600))
           b    == South(Milli(360, 59, lat, 3600))
           r    == DecodeGlobalAir(even, odd, oddOlder)
<1>1. Encode(lat, lon, 0, 360) = even /\ Encode(lat, lon, 1, 360) = odd
  <2>1. 10 * 360 = 3600 /\ 360 \in Nat \ {0} /\ Resolution \in Nat \ {0}
    BY SMT
  <2> QED
    BY <2>1, EncodedIs
<1>2. Resolution \in Nat \ {0} /\ Resolution >= 120 /\ 3600 \in Nat \ {0}
  BY SMT
<1>3. n \in Nat \ {0} /\ ZonesBelow(n) \in Nat \ {0}
  BY EncodedZones
<1>4. \A zones \in {59, 60} : Locates(Milli(360, zones, lat, 3600), 360, 100 * lat, 2)
  <2>1. ASSUME NEW zones \in Nat \ {0}, zones >= 59
        PROVE  Locates(Milli(360, zones, lat, 3600), 360, 100 * lat, 2)
    <3>1. 10 * 360 = 3600 /\ 360 \in Nat \ {0} /\ 2 \in Nat
      BY SMT
    <3>2. 500 * 360 <= (2 - 1) * (zones * Resolution)
      BY <2>1, FineEnough
    <3> QED
      BY <1>2, <3>1, <3>2, MilliNear
  <2> QED
    BY <2>1
<1>5. ASSUME NEW zones \in Nat \ {0}
      PROVE  Locates(Milli(360, zones, lon, 3600), 360, 100 * lon, 12)
  <2>1. 10 * 360 = 3600 /\ 360 \in Nat \ {0} /\ 12 \in Nat
    BY SMT
  <2>2. 500 * 360 <= (12 - 1) * (zones * Resolution)
    BY FineEnough, SMT
  <2> QED
    BY <1>2, <2>1, <2>2, MilliNear, SMT
<1>6. /\ a \in Int /\ a - 100 * lat >= -2 /\ a - 100 * lat <= 2
      /\ b \in Int /\ b - 100 * lat >= -2 /\ b - 100 * lat <= 2
  <2>1. 100 * lat \in Int /\ 100 * lat >= -89000 /\ 100 * lat <= 89000
    BY SMT
  <2> QED
    BY <1>4, <2>1, SouthLocated
<1>7. a >= -90000 /\ a <= 90000 /\ b >= -90000 /\ b <= 90000
  BY <1>6, SMT
<1>8. r = IF GetNumLongitudeZone(a) # GetNumLongitudeZone(b) THEN NoDecode
          ELSE NormaliseLatLon(ComputeLatLon(360, <<a, b>>, even.lon, odd.lon, oddOlder))
  <2>1. 360 \in Nat
    BY SMT
  <2>2. ComputeRLat(360, Sent(60, lat, 3600), Sent(59, lat, 3600)) =
        << Milli(360, 60, lat, 3600), Milli(360, 59, lat, 3600) >>
    BY <1>2, <2>1, LatitudesDecoded
  <2> QED
    BY <2>2, SMT DEF DecodeGlobalAir
<1>9. CASE AtZoneEdge(100 * lat)
  <2>1. SUFFICES ASSUME r # NoDecode PROVE Near(r.lat, 100 * lat, 3)
    BY <1>1, <1>9, <2>1 DEF RoundTrip
  <2>2. r = NormaliseLatLon(ComputeLatLon(360, <<a, b>>, even.lon, odd.lon, oddOlder))
    BY <1>8, <2>1
  <2>3. PICK c \in Int : c = (IF oddOlder THEN b ELSE a) /\ c - 100 * lat >= -3 /\ c - 100 * lat <= 3
                         /\ c >= -90000 /\ c <= 90000
    BY <1>6, <1>7, SMT
  <2>4. PICK loc : loc = ComputeLatLon(360, <<a, b>>, even.lon, odd.lon, oddOlder)
    BY SMT
  <2>5. loc = [lat |-> c, lon |-> loc.lon]
    BY <1>6, <2>3, <2>4, LatitudeKept, SMT
  <2>6. r.lat = c
    BY <2>2, <2>3, <2>4, <2>5, LatitudeNormalised, SMT
  <2> QED
    BY <2>3, <2>6, NearIs, SMT
<1>10. CASE ~AtZoneEdge(100 * lat)
  <2>1. GetNumLongitudeZone(a) = n /\ GetNumLongitudeZone(b) = n
    BY <1>6, <1>10, ZonesNear
  <2>2. PICK z \in Nat \ {0} : z = IF oddOlder THEN ZonesBelow(n) ELSE n
    BY <1>3
  <2>3. PICK c \in Int : c = (IF oddOlder THEN b ELSE a) /\ c - 100 * lat >= -2 /\ c - 100 * lat <= 2
                         /\ c >= -90000 /\ c <= 90000
    BY <1>6, <1>7
  <2>4. ComputeLatLon(360, <<a, b>>, even.lon, odd.lon, oddOlder) =
        [lat |-> c, lon |-> Milli(360, z, lon, 3600)]
    <3>1. 360 \in Nat
      BY SMT
    <3>2. ComputeLatLon(360, <<a, b>>, Sent(n, lon, 3600), Sent(ZonesBelow(n), lon, 3600), oddOlder) =
          IF oddOlder THEN [lat |-> b, lon |-> Milli(360, ZonesBelow(n), lon, 3600)]
                      ELSE [lat |-> a, lon |-> Milli(360, n, lon, 3600)]
      BY <1>2, <2>1, <3>1, LongitudeDecoded
    <3> QED
      BY <2>2, <2>3, <3>2
  <2>5. PICK m \in Int : m = Milli(360, z, lon, 3600) /\ Locates(m, 360, 100 * lon, 12)
    BY <1>5 DEF Locates
  <2>6. NearLon(IF m > 180000 THEN m - 360000 ELSE m, 100 * lon, 25)
    <3>1. 100 * lon \in Int /\ 100 * lon >= -180000 /\ 100 * lon <= 180000
      BY SMT
    <3> QED
      BY <2>5, <3>1, LongitudeLocated
  <2>7. r = [lat |-> c, lon |-> IF m > 180000 THEN m - 360000 ELSE m]
    BY <1>8, <2>1, <2>3, <2>4, <2>5, Normalised
  <2>8. Near(c, 100 * lat, 3)
    BY <2>3, NearIs
  <2>9. r # NoDecode
    BY <2>3, <2>7, SMT DEF NoDecode
  <2> QED
    BY <1>1, <2>6, <2>7, <2>8, <2>9 DEF RoundTrip
<1> QED
  BY <1>9, <1>10

(* The quadrant of the latitude is the one the reference lies nearest to.  *)
LEMMA QuadrantLocated ==
    ASSUME NEW m, NEW place \in Int, place >= -89000, place <= 89000, Locates(m, 90, place, 2),
           NEW ref \in Int, ref - place >= -40000, ref - place <= 40000
    PROVE  /\ QuadrantTwiddle(m, ref) \in Int
           /\ QuadrantTwiddle(m, ref) - place >= -2 /\ QuadrantTwiddle(m, ref) - place <= 2
<1>1. PICK c \in Int : OffBy(c, m, 90, place, 2)
  BY DEF Locates
<1>2. m \in Int /\ m >= 0 /\ m < 90000
  BY SMT DEF Locates
<1>3. PICK t \in Int : t = m + 90000 * c
  BY <1>2, SMT
<1>4. Near(t, place, 2)
  BY <1>1, <1>3, SMT DEF OffBy
<1>5. t - place >= -2 /\ t - place <= 2
  BY <1>4, NearIs
<1>6. c = 0 \/ c = -1
  BY <1>2, <1>3, <1>5, SMT
<1>7. QuadrantTwiddle(m, ref) = t
  BY <1>2, <1>3, <1>5, <1>6, SMT DEF QuadrantTwiddle
<1> QED
  BY <1>5, <1>7

(* So is the quadrant of the longitude.                                    *)
LEMMA TwiddleLocated ==
    ASSUME NEW m, NEW place \in Int, place >= -180000, place <= 180000, Locates(m, 90, place, 12),
           NEW ref \in Int, ref - place >= -40000, ref - place <= 40000
    PROVE  /\ LongitudeTwiddle(m, ref) \in Int
           /\ LongitudeTwiddle(m, ref) < 180000
           /\ NearLon(LongitudeTwiddle(m, ref), place, 25)
<1>1. PICK c \in Int : OffBy(c, m, 90, place, 12)
  BY DEF Locates
<1>2. m \in Int
  BY DEF Locates
<1>3. PICK t \in Int : t = m + 90000 * c
  BY <1>2, SMT
<1>4. Near(t, place, 12)
  BY <1>1, <1>3, SMT DEF OffBy
<1>5. t - place >= -12 /\ t - place <= 12
  BY <1>4, NearIs
<1>6. PICK l : l = LongitudeTwiddle(m, ref)
  BY SMT
<1>7. PICK k \in Int, w \in Int :
          /\ l = m + 90000 * k
          /\ AbsMilli(l - 360000 * w - ref) <= 45000
          /\ l >= -180000 /\ l < 180000
  <2>1. NearestTo(ref, l, m)
    BY <1>2, <1>6, NearestQuadrant, SMT
  <2> QED
    BY <2>1, SMT DEF NearestTo, TurnedBy
<1>8. l \in Int
  BY <1>2, <1>7, SMT
<1>9. l - 360000 * w - ref >= -45000 /\ l - 360000 * w - ref <= 45000
  BY <1>7, <1>8, SMT DEF AbsMilli
<1>10. k = c + 4 * w
  BY <1>2, <1>3, <1>5, <1>7, <1>9, SMT
<1>11. l = t + 360000 * w
  BY <1>2, <1>3, <1>7, <1>10, SMT
<1>12. w = 0 \/ w = 1 \/ w = -1
  BY <1>5, <1>7, <1>8, <1>11, SMT
<1>13. t = l \/ t = l - 360000 \/ t = l + 360000
  BY <1>8, <1>11, <1>12, SMT
<1>14. Near(t, place, 25)
  BY <1>5, NearIs
<1>15. NearLon(l, place, 25)
  BY <1>8, <1>13, <1>14, SMT DEF NearLon
<1> QED
  BY <1>6, <1>7, <1>8, <1>15, SMT

(* So is a surface position, with every reference within 40 degrees.       *)
THEOREM SurfaceFound ==
    ASSUME Resolution \in Nat, Resolution >= 16384,
           NEW lat \in Int, lat >= -890, lat <= 890, NEW lon \in Int, lon >= -1800, lon <= 1800,
           NEW refLat \in Int, refLat - 100 * lat >= -40000, refLat - 100 * lat <= 40000,
           NEW refLon \in Int, refLon - 100 * lon >= -40000, refLon - 100 * lon <= 40000,
           ~(refLat = 0 /\ refLon = 0),
           NEW oddOlder \in BOOLEAN
    PROVE  RoundTrip(DecodeSurface(Encode(lat, lon, 0, 90), Encode(lat, lon, 1, 90),
                                       oddOlder, refLat, refLon), lat, lon)
<1> DEFINE n    == GetNumLongitudeZone(100 * lat)
           even == [lat |-> Sent(60, lat, 900), lon |-> Sent(n, lon, 900)]
           odd  == [lat |-> Sent(59, lat, 900), lon |-> Sent(ZonesBelow(n), lon, 900)]
           a    == QuadrantTwiddle(Milli(90, 60, lat, 900), refLat)
           b    == QuadrantTwiddle(Milli(90, 59, lat, 900), refLat)
           r    == DecodeSurface(even, odd, oddOlder, refLat, refLon)
<1>1. Encode(lat, lon, 0, 90) = even /\ Encode(lat, lon, 1, 90) = odd
  <2>1. 10 * 90 = 900 /\ 90 \in Nat \ {0} /\ Resolution \in Nat \ {0}
    BY SMT
  <2> QED
    BY <2>1, EncodedIs
<1>2. Resolution \in Nat \ {0} /\ Resolution >= 120 /\ 900 \in Nat \ {0}
  BY SMT
<1>3. n \in Nat \ {0} /\ ZonesBelow(n) \in Nat \ {0}
  BY EncodedZones
<1>4. \A zones \in {59, 60} : Locates(Milli(90, zones, lat, 900), 90, 100 * lat, 2)
  <2>1. ASSUME NEW zones \in Nat \ {0}, zones >= 59
        PROVE  Locates(Milli(90, zones, lat, 900), 90, 100 * lat, 2)
    <3>1. 10 * 90 = 900 /\ 90 \in Nat \ {0} /\ 2 \in Nat
      BY SMT
    <3>2. 500 * 90 <= (2 - 1) * (zones * Resolution)
      BY <2>1, FineEnough, SMT
    <3> QED
      BY <1>2, <3>1, <3>2, MilliNear
  <2> QED
    BY <2>1
<1>5. ASSUME NEW zones \in Nat \ {0}
      PROVE  Locates(Milli(90, zones, lon, 900), 90, 100 * lon, 12)
  <2>1. 10 * 90 = 900 /\ 90 \in Nat \ {0} /\ 12 \in Nat
    BY SMT
  <2>2. 500 * 90 <= (12 - 1) * (zones * Resolution)
    BY FineEnough, SMT
  <2> QED
    BY <1>2, <2>1, <2>2, MilliNear, SMT
<1>6. /\ a \in Int /\ a - 100 * lat >= -2 /\ a - 100 * lat <= 2
      /\ b \in Int /\ b - 100 * lat >= -2 /\ b - 100 * lat <= 2
  <2>1. 100 * lat \in Int /\ 100 * lat >= -89000 /\ 100 * lat <= 89000
    BY SMT
  <2> QED
    BY <1>4, <2>1, QuadrantLocated
<1>7. a >= -90000 /\ a <= 90000 /\ b >= -90000 /\ b <= 90000
  BY <1>6, SMT
<1>8. CASE AtZoneEdge(100 * lat)
  <2>1. SUFFICES ASSUME r # NoDecode PROVE Near(r.lat, 100 * lat, 3)
    BY <1>1, <1>8, <2>1 DEF RoundTrip
  <2>2. PICK loc : loc = ComputeLatLon(90, <<a, b>>, even.lon, odd.lon, oddOlder)
    BY SMT
  <2>3. r = NormaliseLatLon([loc EXCEPT !.lon = LongitudeTwiddle(@, refLon)])
    <3>1. 90 \in Nat
      BY SMT
    <3>2. ComputeRLat(90, Sent(60, lat, 900), Sent(59, lat, 900)) =
          << Milli(90, 60, lat, 900), Milli(90, 59, lat, 900) >>
      BY <1>2, <3>1, LatitudesDecoded
    <3> QED
      BY <2>1, <2>2, <3>2, SMT DEF DecodeSurface
  <2>4. PICK c \in Int : c = (IF oddOlder THEN b ELSE a) /\ c - 100 * lat >= -3 /\ c - 100 * lat <= 3
                         /\ c >= -90000 /\ c <= 90000
    BY <1>6, <1>7, SMT
  <2>5. loc = [lat |-> c, lon |-> loc.lon]
    BY <1>6, <2>2, <2>4, LatitudeKept, SMT
  <2>6. [loc EXCEPT !.lon = LongitudeTwiddle(@, refLon)] =
        [lat |-> c, lon |-> LongitudeTwiddle(loc.lon, refLon)]
    BY <2>5
  <2>7. r.lat = c
    BY <2>3, <2>4, <2>6, LatitudeNormalised, SMT
  <2> QED
    BY <2>4, <2>7, NearIs, SMT
<1>9. CASE ~AtZoneEdge(100 * lat)
  <2>1. GetNumLongitudeZone(a) = n /\ GetNumLongitudeZone(b) = n
    BY <1>6, <1>9, ZonesNear
  <2>2. PICK z \in Nat \ {0} : z = IF oddOlder THEN ZonesBelow(n) ELSE n
    BY <1>3
  <2>3. PICK c \in Int : c = (IF oddOlder THEN b ELSE a) /\ c - 100 * lat >= -2 /\ c - 100 * lat <= 2
                         /\ c >= -90000 /\ c <= 90000
    BY <1>6, <1>7
  <2>4. PICK l \in Int : /\ l = LongitudeTwiddle(Milli(90, z, lon, 900), refLon)
                         /\ l < 180000 /\ NearLon(l, 100 * lon, 25)
    <3>1. 100 * lon \in Int /\ 100 * lon >= -180000 /\ 100 * lon <= 180000
      BY SMT
    <3> QED
      BY <1>5, <3>1, TwiddleLocated
  <2>5. r = NormaliseLatLon([lat |-> c, lon |-> l])
    <3>1. ~(a < -90000 \/ a > 90000 \/ b < -90000 \/ b > 90000)
      BY <1>6, <1>7, SMT
    <3>2. r = IF n # GetNumLongitudeZone(b) THEN NoDecode
              ELSE NormaliseLatLon(
                    IF oddOlder
                    THEN [lat |-> b, lon |-> LongitudeTwiddle(Milli(90, ZonesBelow(n), lon, 900), refLon)]
                    ELSE [lat |-> a, lon |-> LongitudeTwiddle(Milli(90, n, lon, 900), refLon)])
      BY <1>2, <2>1, <3>1, SurfacePositionDecoded, SMTT(20)
    <3> QED
      BY <2>1, <2>2, <2>3, <2>4, <3>2
  <2>6. r = [lat |-> c, lon |-> l]
    <3>1. ~(l > 180000)
      BY <2>4, SMT
    <3> QED
      BY <2>3, <2>5, <3>1, Normalised
  <2>7. Near(c, 100 * lat, 3)
    BY <2>3, NearIs
  <2>8. r # NoDecode
    BY <2>3, <2>6, SMT DEF NoDecode
  <2> QED
    BY <1>1, <2>4, <2>6, <2>7, <2>8 DEF RoundTrip
<1> QED
  BY <1>8, <1>9

(* The angle between two directions, the shorter way round.                *)
Course(p, q) == IF Abs(p - q) <= 180 THEN Abs(p - q) ELSE 360 - Abs(p - q)

(* AbsDeltaBearing, whose Go remainder is negative below -180, never makes *)
(* it too small.                                                           *)
LEMMA OffCourse ==
    ASSUME NEW p \in 0 .. 359, NEW q \in 0 .. 359, AbsDeltaBearing(p, q) < 90
    PROVE  Course(p, q) < 90
<1>1. CASE p - q + 180 >= 0 /\ p - q + 180 < 360
  BY <1>1, SMT DEF AbsDeltaBearing, GoMod, Abs, Course
<1>2. CASE p - q + 180 >= 360
  BY <1>2, SMT DEF AbsDeltaBearing, GoMod, Abs, Course
<1>3. CASE p - q + 180 < 0
  BY <1>3, SMT DEF AbsDeltaBearing, GoMod, Abs, Course
<1> QED
  BY <1>1, <1>2, <1>3

(* w is s, of length m, followed by t, of length k.                        *)
IsJoin(w, s, t, m, k) ==
    /\ w = s \o t /\ Len(w) = m + k
    /\ \A i \in 1 .. m : w[i] = s[i]
    /\ \A i \in 1 .. k : w[m + i] = t[i]

(* Two sequences have such a join.                                         *)
LEMMA JoinExists ==
    ASSUME NEW S, NEW s \in Seq(S), NEW t \in Seq(S)
    PROVE  \E w \in Seq(S) : IsJoin(w, s, t, Len(s), Len(t))
<1>1. /\ s \o t \in Seq(S)
      /\ Len(s \o t) = Len(s) + Len(t)
      /\ \A i \in 1 .. Len(s) + Len(t) : (s \o t)[i] = IF i <= Len(s) THEN s[i] ELSE t[i - Len(s)]
  BY ConcatProperties, Zenon
<1>2. PICK w \in Seq(S) : /\ w = s \o t /\ Len(w) = Len(s) + Len(t)
        /\ \A i \in 1 .. Len(s) + Len(t) : w[i] = IF i <= Len(s) THEN s[i] ELSE t[i - Len(s)]
  BY <1>1, Zenon
<1>3. PICK m \in Nat, k \in Nat : m = Len(s) /\ k = Len(t)
  OBVIOUS
<1>4. \A i \in 1 .. m + k : w[i] = IF i <= m THEN s[i] ELSE t[i - m]
  BY <1>2, <1>3, Zenon
<1>5. \A i \in 1 .. m : w[i] = s[i]
  BY <1>4
<1>6. \A i \in 1 .. k : w[m + i] = t[i]
  BY <1>4
<1>7. w = s \o t /\ Len(w) = m + k
  BY <1>2, <1>3, Zenon
<1>8. IsJoin(w, s, t, m, k)
  BY <1>5, <1>6, <1>7, Zenon DEF IsJoin
<1> QED
  BY <1>3, <1>8, Zenon

(* The grid is its three parts, one after the other.                       *)
LEMMA GridIs ==
  /\ DOMAIN worldGrid = 1 .. 75
  /\ \A i \in 1 .. 25 : worldGrid[i] = WorldGridA[i]
  /\ \A i \in 1 .. 25 : worldGrid[25 + i] = WorldGridB[i]
  /\ \A i \in 1 .. 25 : worldGrid[50 + i] = WorldGridC[i]
<1>1. WorldGridA \in Seq(Int \X Int \X Int \X Int) /\ Len(WorldGridA) = 25
  BY SMTT(30) DEF WorldGridA
<1>2. WorldGridB \in Seq(Int \X Int \X Int \X Int) /\ Len(WorldGridB) = 25
  BY SMTT(30) DEF WorldGridB
<1>3. WorldGridC \in Seq(Int \X Int \X Int \X Int) /\ Len(WorldGridC) = 25
  BY SMTT(30) DEF WorldGridC
<1> DEFINE S == Int \X Int \X Int \X Int
<1> HIDE DEF S
<1>5. WorldGridA \in Seq(S) /\ WorldGridB \in Seq(S) /\ WorldGridC \in Seq(S)
  BY <1>1, <1>2, <1>3 DEF S
<1>6. PICK ab \in Seq(S) : IsJoin(ab, WorldGridA, WorldGridB, 25, 25)
  <2>1. \E w \in Seq(S) : IsJoin(w, WorldGridA, WorldGridB, Len(WorldGridA), Len(WorldGridB))
    BY <1>5, JoinExists
  <2> QED
    BY <1>1, <1>2, <2>1, Zenon
<1>7. PICK w \in Seq(S) : IsJoin(w, ab, WorldGridC, 50, 25)
  <2>1. \E w \in Seq(S) : IsJoin(w, ab, WorldGridC, Len(ab), Len(WorldGridC))
    BY <1>5, JoinExists
  <2>2. Len(ab) = 50
    BY <1>6 DEF IsJoin
  <2> QED
    BY <1>3, <2>1, <2>2, Zenon
<1>8. worldGrid = w
  BY <1>6, <1>7, Zenon DEF worldGrid, IsJoin
<1>9. DOMAIN w = 1 .. 75
  <2>1. Len(w) = 50 + 25
    BY <1>7, Zenon DEF IsJoin
  <2>2. DOMAIN w = 1 .. Len(w)
    BY <1>7, LenProperties, Zenon
  <2> QED
    BY <2>1, <2>2
<1>10. /\ \A i \in 1 .. 25 : ab[i] = WorldGridA[i] /\ ab[25 + i] = WorldGridB[i]
       /\ \A i \in 1 .. 50 : w[i] = ab[i]
       /\ \A i \in 1 .. 25 : w[50 + i] = WorldGridC[i]
  BY <1>6, <1>7, Zenon DEF IsJoin
<1>11. ASSUME NEW i \in 1 .. 25
       PROVE  w[i] = WorldGridA[i] /\ w[25 + i] = WorldGridB[i] /\ w[50 + i] = WorldGridC[i]
  <2>1. i \in 1 .. 50 /\ 25 + i \in 1 .. 50
    OBVIOUS
  <2> QED
    BY <1>10, <2>1, Zenon
<1> QED
  BY <1>8, <1>9, <1>11

(* Not both tile p of s and tile q of t; of the tiles of s, only one.      *)
Apart(s, t, p, q, lat, lon) == ~(contains(s[p], lat, lon) /\ contains(t[q], lat, lon))

Single(s, p, q, lat, lon) == (contains(s[p], lat, lon) /\ contains(s[q], lat, lon)) => p = q

(* No position is in two tiles: every pair of boxes is compared.           *)
LEMMA TilesApart ==
    ASSUME NEW lat \in Int, NEW lon \in Int, NEW p \in 1 .. 25, NEW q \in 1 .. 25
    PROVE  /\ Single(WorldGridA, p, q, lat, lon)
           /\ Single(WorldGridB, p, q, lat, lon)
           /\ Single(WorldGridC, p, q, lat, lon)
           /\ Apart(WorldGridA, WorldGridB, p, q, lat, lon)
           /\ Apart(WorldGridA, WorldGridC, p, q, lat, lon)
           /\ Apart(WorldGridB, WorldGridC, p, q, lat, lon)
<1>1. Single(WorldGridA, p, q, lat, lon)
  BY SMTT(30) DEF Single, contains, WorldGridA
<1>2. Single(WorldGridB, p, q, lat, lon)
  BY SMTT(30) DEF Single, contains, WorldGridB
<1>3. Single(WorldGridC, p, q, lat, lon)
  BY SMTT(30) DEF Single, contains, WorldGridC
<1>4. Apart(WorldGridA, WorldGridB, p, q, lat, lon)
  BY SMTT(30) DEF Apart, contains, WorldGridA, WorldGridB
<1>5. Apart(WorldGridA, WorldGridC, p, q, lat, lon)
  BY SMTT(30) DEF Apart, contains, WorldGridA, WorldGridC
<1>6. Apart(WorldGridB, WorldGridC, p, q, lat, lon)
  BY SMTT(30) DEF Apart, contains, WorldGridB, WorldGridC
<1> QED
  BY <1>1, <1>2, <1>3, <1>4, <1>5, <1>6

(* No position is outside of all of them.                                  *)
LEMMA SomeTile ==
    ASSUME NEW lat \in Int, NEW lon \in Int, lat >= -900, lat <= 900, lon >= -1800, lon < 1800
    PROVE  \E i \in 1 .. 25 : \/ contains(WorldGridA[i], lat, lon)
                             \/ contains(WorldGridB[i], lat, lon)
                             \/ contains(WorldGridC[i], lat, lon)
BY SMTT(60) DEF contains, WorldGridA, WorldGridB, WorldGridC

(* Tile n of the whole grid is entry i of one of its three parts.          *)
PartOf(n, i) ==
    \/ n = i /\ worldGrid[n] = WorldGridA[i]
    \/ n = 25 + i /\ worldGrid[n] = WorldGridB[i]
    \/ n = 50 + i /\ worldGrid[n] = WorldGridC[i]

(* Every entry is in one of the parts.                                     *)
LEMMA InPart ==
    ASSUME NEW n \in 1 .. 75
    PROVE  \E i \in 1 .. 25 : PartOf(n, i)
<1>1. CASE n <= 25
  BY <1>1, GridIs DEF PartOf
<1>2. CASE n > 25 /\ n <= 50
  <2>1. n - 25 \in 1 .. 25 /\ n = 25 + (n - 25)
    BY <1>2
  <2> QED
    BY <2>1, GridIs DEF PartOf
<1>3. CASE n > 50
  <2>1. n - 50 \in 1 .. 25 /\ n = 50 + (n - 50)
    BY <1>3
  <2> QED
    BY <2>1, GridIs DEF PartOf
<1> QED
  BY <1>1, <1>2, <1>3

(* The three parts do not overlap either.                                  *)
LEMMA TwoTiles ==
    ASSUME NEW lat \in Int, NEW lon \in Int, NEW i, NEW j,
           InGridLocation(lat, lon, i), InGridLocation(lat, lon, j)
    PROVE  i = j
<1>0. /\ i \in 1 .. 75 /\ contains(worldGrid[i], lat, lon)
      /\ j \in 1 .. 75 /\ contains(worldGrid[j], lat, lon)
  BY GridIs DEF InGridLocation, TileNames
<1>1. PICK k \in 1 .. 25 : PartOf(i, k)
  BY <1>0, InPart
<1>2. PICK l \in 1 .. 25 : PartOf(j, l)
  BY <1>0, InPart
<1>3. /\ Single(WorldGridA, k, l, lat, lon)
      /\ Single(WorldGridB, k, l, lat, lon)
      /\ Single(WorldGridC, k, l, lat, lon)
      /\ Apart(WorldGridA, WorldGridB, k, l, lat, lon) /\ Apart(WorldGridA, WorldGridB, l, k, lat, lon)
      /\ Apart(WorldGridA, WorldGridC, k, l, lat, lon) /\ Apart(WorldGridA, WorldGridC, l, k, lat, lon)
      /\ Apart(WorldGridB, WorldGridC, k, l, lat, lon) /\ Apart(WorldGridB, WorldGridC, l, k, lat, lon)
  BY TilesApart
<1>4. \/ i = k /\ contains(WorldGridA[k], lat, lon)
      \/ i = 25 + k /\ contains(WorldGridB[k], lat, lon)
      \/ i = 50 + k /\ contains(WorldGridC[k], lat, lon)
  BY <1>0, <1>1, SMT DEF PartOf
<1>5. \/ j = l /\ contains(WorldGridA[l], lat, lon)
      \/ j = 25 + l /\ contains(WorldGridB[l], lat, lon)
      \/ j = 50 + l /\ contains(WorldGridC[l], lat, lon)
  BY <1>0, <1>2, SMT DEF PartOf
<1> QED
  BY <1>3, <1>4, <1>5, SMT DEF Single, Apart

(* Some entry of the grid holds the position.                              *)
LEMMA InGrid ==
    ASSUME NEW lat \in Int, NEW lon \in Int, lat >= -900, lat <= 900, lon >= -1800, lon < 1800
    PROVE  \E i : InGridLocation(lat, lon, i) /\ i # TileUnknown
<1>1. PICK i \in 1 .. 25 : \/ contains(WorldGridA[i], lat, lon)
                          \/ contains(WorldGridB[i], lat, lon)
                          \/ contains(WorldGridC[i], lat, lon)
  BY SomeTile
<1>2. i \in 1 .. 75 /\ 25 + i \in 1 .. 75 /\ 50 + i \in 1 .. 75
  OBVIOUS
<1>3. PICK k \in 1 .. 75 : contains(worldGrid[k], lat, lon)
  BY <1>1, <1>2, GridIs
<1>4. TileNames = 1 .. 75 /\ k # TileUnknown
  BY GridIs, SMT DEF TileNames, TileUnknown
<1> QED
  BY <1>3, <1>4 DEF InGridLocation

(* The visit of a Go map finds the only tile there is, in any order.       *)
LEMMA OnlyTile ==
    ASSUME NEW lat, NEW lon, NEW i, InGridLocation(lat, lon, i),
           \A n : InGridLocation(lat, lon, n) => n = i
    PROVE  LookupTileManual(lat, lon) = {i}
<1> DEFINE hits == {n \in TileNames : contains(worldGrid[n], lat, lon)}
<1>1. hits = {i}
  BY Zenon DEF InGridLocation
<1>2. LookupTileManual(lat, lon) = IF hits = {} THEN {TileUnknown} ELSE hits
  BY DEF LookupTileManual
<1> HIDE DEF hits
<1> QED
  BY <1>1, <1>2

(* Every position short of the date line is in exactly one tile.           *)
THEOREM TileFound ==
    ASSUME NEW lat \in Int, NEW lon \in Int, lat >= -900, lat <= 900, lon >= -1800, lon < 1800
    PROVE  Alone(LookupTileManual(lat, lon)) /\ TileUnknown \notin LookupTileManual(lat, lon)
<1>1. PICK i : InGridLocation(lat, lon, i) /\ i # TileUnknown
  BY InGrid
<1>2. \A n : InGridLocation(lat, lon, n) => n = i
  BY <1>1, TwoTiles
<1>3. LookupTileManual(lat, lon) = {i}
  BY <1>1, <1>2, OnlyTile
<1> QED
  BY <1>1, <1>3 DEF Alone

(* No flight information region is listed for two servers.                 *)
LEMMA RegionsApart ==
    ASSUME NEW fid \in Int, NEW r \in DOMAIN MLATRegionByFID, NEW s \in DOMAIN MLATRegionByFID,
           fid \in MLATRegionByFID[r], fid \in MLATRegionByFID[s]
    PROVE  r = s
<1>1. /\ MLATRegionByFID["CA_Alaska"] = Fids_CA_Alaska
      /\ MLATRegionByFID["US_West"] = Fids_US_West
      /\ MLATRegionByFID["US_East"] = Fids_US_East
      /\ MLATRegionByFID["EU_West"] = Fids_EU_West
      /\ MLATRegionByFID["EU_Central"] = Fids_EU_Central
      /\ MLATRegionByFID["Oceania"] = Fids_Oceania
      /\ MLATRegionByFID["Asia"] = Fids_Asia
      /\ MLATRegionByFID["South_America"] = Fids_South_America
      /\ DOMAIN MLATRegionByFID = {"CA_Alaska", "US_West", "US_East", "EU_West", "EU_Central",
                                     "Oceania", "Asia", "South_America"}
  BY DEF MLATRegionByFID
<1>2. fid \in Fids_CA_Alaska =>
        fid \notin Fids_US_West \cup Fids_US_East \cup Fids_EU_West \cup Fids_EU_Central
                   \cup Fids_Oceania \cup Fids_Asia \cup Fids_South_America
  BY SMTT(30) DEF Fids_CA_Alaska, Fids_US_West, Fids_US_East, Fids_EU_West, Fids_EU_Central,
                  Fids_Oceania, Fids_Asia, Fids_South_America
<1>3. fid \in Fids_US_West =>
        fid \notin Fids_US_East \cup Fids_EU_West \cup Fids_EU_Central
                   \cup Fids_Oceania \cup Fids_Asia \cup Fids_South_America
  BY SMTT(30) DEF Fids_US_West, Fids_US_East, Fids_EU_West, Fids_EU_Central,
                  Fids_Oceania, Fids_Asia, Fids_South_America
<1>4. fid \in Fids_US_East =>
        fid \notin Fids_EU_West \cup Fids_EU_Central
                   \cup Fids_Oceania \cup Fids_Asia \cup Fids_South_America
  BY SMTT(30) DEF Fids_US_East, Fids_EU_West, Fids_EU_Central,
                  Fids_Oceania, Fids_Asia, Fids_South_America
<1>5. fid \in Fids_EU_West =>
        fid \notin Fids_EU_Central \cup Fids_Oceania \cup Fids_Asia \cup Fids_South_America
  BY SMTT(30) DEF Fids_EU_West, Fids_EU_Central, Fids_Oceania, Fids_Asia, Fids_South_America
<1>6. fid \in Fids_EU_Central =>
        fid \notin Fids_Oceania \cup Fids_Asia \cup Fids_South_America
  BY SMTT(30) DEF Fids_EU_Central, Fids_Oceania, Fids_Asia, Fids_South_America
<1>7. fid \in Fids_Oceania => fid \notin Fids_Asia \cup Fids_South_America
  BY SMTT(30) DEF Fids_Oceania, Fids_Asia, Fids_South_America
<1>8. fid \in Fids_Asia => fid \notin Fids_South_America
  BY SMTT(30) DEF Fids_Asia, Fids_South_America
<1> QED
  BY <1>1, <1>2, <1>3, <1>4, <1>5, <1>6, <1>7, <1>8, SMTT(30)

(* So GetMLATRegionByFID has one answer, for any fid, Unknown included.    *)
LEMMA RegionOne ==
    ASSUME NEW fid \in Int
    PROVE  \E x : GetMLATRegionByFID(fid) = {x}
<1> DEFINE M == MLATRegionByFID
<1>1. ASSUME NEW r \in DOMAIN M, NEW s \in DOMAIN M, fid \in M[r], fid \in M[s]
      PROVE  r = s
  BY <1>1, RegionsApart
<1> HIDE DEF M
<1>2. CASE \E r \in DOMAIN M : fid \in M[r]
  <2>1. PICK r \in DOMAIN M : fid \in M[r]
    BY <1>2
  <2>2. {s \in DOMAIN M : fid \in M[s]} = {r}
    BY <1>1, <2>1
  <2> QED
    BY <2>2 DEF GetMLATRegionByFID, M
<1>3. CASE ~ \E r \in DOMAIN M : fid \in M[r]
  BY <1>3 DEF GetMLATRegionByFID, M
<1> QED
  BY <1>2, <1>3

(* OneTile: LookupTile, which looks at a corner, finds a tile as well.     *)
LEMMA TilesFound ==
    ASSUME test = "tile" => input \in Int /\ input >= 0 /\ input <= 360
    PROVE  OneTile
<1> SUFFICES ASSUME test = "tile", NEW lon \in -180 .. 179
             PROVE  LET lat == 5 * input - 900 IN
                    /\ Alone(LookupTileManual(lat, 10 * lon))
                    /\ TileUnknown \notin LookupTileManual(lat, 10 * lon)
                    /\ lat < 900 => TileUnknown \notin LookupTile(lat, 10 * lon)
  BY DEF OneTile
<1>1. PICK lat \in Int, l \in Int : lat = 5 * input - 900 /\ l = 10 * lon
  OBVIOUS
<1>2. lat >= -900 /\ lat <= 900 /\ l >= -1800 /\ l < 1800
  BY <1>1, SMT
<1>3. Alone(LookupTileManual(lat, l)) /\ TileUnknown \notin LookupTileManual(lat, l)
  BY <1>2, TileFound
<1>4. ASSUME lat < 900 PROVE TileUnknown \notin LookupTile(lat, l)
  <2>1. PICK k \in Int, r \in 0 .. 9 : k = lat \div 10 /\ r = lat % 10 /\ lat = 10 * k + r
    BY Division
  <2>2. l \div 10 = lon
    BY <1>1, SMT
  <2>3. PICK c \in Int : c = 10 * k
    OBVIOUS
  <2>4. c >= -900 /\ c <= 900 /\ k \in -90 .. 89
    <3>1. lat = 10 * k + r
      BY <2>1
    <3> QED
      BY <1>2, <1>4, <2>3, <3>1, SMT
  <2>5. TileUnknown \notin LookupTileManual(c, l)
    BY <1>2, <2>4, TileFound
  <2>6. Floor(lat) = k /\ Floor(l) = lon
    BY <2>1, <2>2, Zenon DEF Floor
  <2>7. LookupTile(lat, l) = LookupTileManual(c, l)
    BY <1>1, <2>3, <2>4, <2>6, SMT DEF LookupTile
  <2> QED
    BY <2>5, <2>7
<1> QED
  BY <1>1, <1>3, <1>4, SMT

(* OneRegion.                                                              *)
LEMMA RegionsFound ==
    ASSUME input \in Int
    PROVE  OneRegion
<1>1. PICK fid \in Int : fid = input - 1
  OBVIOUS
<1>2. PICK x : GetMLATRegionByFID(fid) = {x}
  BY RegionOne
<1> QED
  BY <1>1, <1>2 DEF OneRegion, Alone

(* OffCourseRejected: IsLocationPossible takes no position 90 degrees or   *)
(* more off the course.                                                    *)
LEMMA CoursesFound ==
    ASSUME test = "bearing" => input \in Int /\ input >= 0 /\ input < 360 * 360
    PROVE  OffCourseRejected
<1> SUFFICES ASSUME test = "bearing", Accepted PROVE Angle360 < 90
  BY DEF OffCourseRejected
<1>1. input \in Int /\ 360 \in Nat \ {0}
  BY SMT
<1>2. PICK p \in Int, q \in 0 .. 359 : p = input \div 360 /\ q = input % 360 /\ input = 360 * p + q
  BY <1>1, Division
<1>3. p \in 0 .. 359
  <2>1. input = 360 * p + q
    BY <1>2, Zenon
  <2> QED
    BY <2>1, SMT
<1>4. AbsDeltaBearing(p, q) < 90
  <2>1. p = input \div 360 /\ q = input % 360
    BY <1>2, Zenon
  <2> QED
    BY <2>1, Zenon DEF Accepted
<1>5. Course(p, q) < 90
  BY <1>3, <1>4, OffCourse
<1>6. Angle360 = Course(p, q)
  BY <1>2, SMT DEF Angle360, Course
<1> QED
  BY <1>5, <1>6

(* AirRoundTrip and SurfaceRoundTrip: the places of the run are among      *)
(* those of AirFound and SurfaceFound.                                     *)
LEMMA AirPlacesFound ==
    ASSUME Resolution \in Nat, Resolution >= 16384,
           test = "air" => input \in Int /\ input >= 0 /\ input < 357 * 52
    PROVE  AirRoundTrip
<1> SUFFICES ASSUME test = "air", NEW oddOlder \in BOOLEAN
             PROVE  LET lat == 5 * (input \div 52) - 890
                        lon == 70 * (input % 52) - 1800
                    IN  RoundTrip(DecodeGlobalAir(Encode(lat, lon, 0, 360), Encode(lat, lon, 1, 360),
                                                      oddOlder), lat, lon)
  BY DEF AirRoundTrip
<1>1. input \in Int /\ 52 \in Nat \ {0}
  OBVIOUS
<1>2. PICK p \in Int, q \in 0 .. 51 : p = input \div 52 /\ q = input % 52 /\ input = 52 * p + q
  BY <1>1, Division
<1>3. PICK lat \in Int, lon \in Int : lat = 5 * p - 890 /\ lon = 70 * q - 1800
  OBVIOUS
<1>4. lat >= -890 /\ lat <= 890 /\ lon >= -1800 /\ lon <= 1800
  <2>1. input = 52 * p + q
    BY <1>2, SMT
  <2>2. p >= 0 /\ p <= 356
    BY <2>1, SMT
  <2> QED
    BY <1>3, <2>2, SMT
<1>5. RoundTrip(DecodeGlobalAir(Encode(lat, lon, 0, 360), Encode(lat, lon, 1, 360), oddOlder), lat, lon)
  BY <1>4, AirFound, SMT
<1> QED
  BY <1>2, <1>3, <1>5, SMT

(* The same of the surface.                                                *)
LEMMA SurfacePlacesFound ==
    ASSUME Resolution \in Nat, Resolution >= 16384,
           test = "surface" => input \in Int /\ input >= 0 /\ input < 177 * 36
    PROVE  SurfaceRoundTrip
<1> SUFFICES ASSUME test = "surface", NEW dlat \in {-40, 0, 40}, NEW dlon \in {-40, 0, 40},
                    NEW oddOlder \in BOOLEAN
             PROVE  LET lat == 10 * (input \div 36) - 880
                        lon == 100 * (input % 36) - 1800
                        refLat == 100 * lat + 1000 * dlat
                        refLon == 100 * lon + 1000 * dlon
                    IN  OnEarth(refLat, refLon) /\ ~(refLat = 0 /\ refLon = 0) =>
                        RoundTrip(DecodeSurface(Encode(lat, lon, 0, 90), Encode(lat, lon, 1, 90),
                                                    oddOlder, refLat, refLon), lat, lon)
  BY SMT DEF SurfaceRoundTrip
<1>1. input \in Int /\ 36 \in Nat \ {0}
  OBVIOUS
<1>2. PICK p \in Int, q \in 0 .. 35 : p = input \div 36 /\ q = input % 36 /\ input = 36 * p + q
  BY <1>1, Division
<1>3. PICK lat \in Int, lon \in Int : lat = 10 * p - 880 /\ lon = 100 * q - 1800
  OBVIOUS
<1>4. lat >= -890 /\ lat <= 890 /\ lon >= -1800 /\ lon <= 1800
  <2>1. input = 36 * p + q
    BY <1>2, SMT
  <2>2. p >= 0 /\ p <= 176
    BY <2>1, SMT
  <2> QED
    BY <1>3, <2>2, SMT
<1>5. PICK refLat \in Int, refLon \in Int : refLat = 100 * lat + 1000 * dlat /\ refLon = 100 * lon + 1000 * dlon
  BY SMT
<1>6. /\ refLat - 100 * lat >= -40000 /\ refLat - 100 * lat <= 40000
      /\ refLon - 100 * lon >= -40000 /\ refLon - 100 * lon <= 40000
  BY <1>5, SMT
<1>7. ~(refLat = 0 /\ refLon = 0) =>
      RoundTrip(DecodeSurface(Encode(lat, lon, 0, 90), Encode(lat, lon, 1, 90),
                                  oddOlder, refLat, refLon), lat, lon)
  BY <1>4, <1>6, SurfaceFound, SMT
<1> QED
  BY <1>2, <1>3, <1>5, <1>7, SMT

(* PositionsPlaced for every input of the run, and for every number of     *)
(* bits a half is encoded in from 14 up, the 17 of the code included: a    *)
(* place on the earth is decoded to itself, lies in one tile and in one    *)
(* MLAT region, and is merged only if it lies ahead of the aircraft.       *)
THEOREM PlacesFound ==
    ASSUME Resolution \in Nat, Resolution >= 16384
    PROVE  Spec => []PositionsPlaced
<1> DEFINE InputOK == test \in DOMAIN Size /\ input \in Nat /\ input < Size[test]
<1>1. Init => InputOK
  BY SMT DEF Init, Size
<1>2. InputOK /\ [Next]_vars => InputOK'
  <2> SUFFICES ASSUME InputOK, [Next]_vars PROVE InputOK'
    OBVIOUS
  <2>1. CASE NextInput
    <3>1. Size[test] \in Nat \ {0}
      BY SMT DEF Size
    <3>2. input' = (input + 1) % Size[test] /\ test' = test
      BY <2>1 DEF NextInput
    <3>3. PICK d \in Nat \ {0} : d = Size[test]
      BY <3>1
    <3>4. PICK i \in Int : i = input + 1
      OBVIOUS
    <3>5. i % d \in 0 .. d - 1
      BY DivMod
    <3>6. input' \in Nat /\ input' < d
      BY <3>2, <3>3, <3>4, <3>5
    <3> QED
      BY <3>2, <3>3, <3>6
  <2>2. CASE UNCHANGED vars
    BY <2>2 DEF vars
  <2> QED
    BY <2>1, <2>2 DEF Next
<1>3. InputOK => PositionsPlaced
  <2> SUFFICES ASSUME InputOK PROVE PositionsPlaced
    OBVIOUS
  <2>1. /\ test = "air" => input < 357 * 52
        /\ test = "surface" => input < 177 * 36
        /\ test = "tile" => input <= 360
        /\ test = "bearing" => input < 360 * 360
    BY SMT DEF Size
  <2>2. input \in Int /\ input >= 0
    OBVIOUS
  <2>3. AirRoundTrip
    BY <2>1, <2>2, AirPlacesFound, SMT
  <2>4. SurfaceRoundTrip
    BY <2>1, <2>2, SurfacePlacesFound, SMT
  <2>5. OneTile
    BY <2>1, <2>2, TilesFound, SMT
  <2>6. OffCourseRejected
    BY <2>1, <2>2, CoursesFound, SMT
  <2> QED
    BY <2>3, <2>4, <2>5, <2>6, RegionsFound DEF PositionsPlaced
<1> HIDE DEF InputOK
<1> QED
  BY <1>1, <1>2, <1>3, PTL DEF Spec
=============================================================================
