---------------------------- MODULE FeederRegions ----------------------------
(***************************************************************************)
(* Which flight information region a feeder stands in: FeederCache.FID and *)
(* Region (lib/feederauth/feedercache.go), which read the feeder, look in  *)
(* a cache and fill it, each under a lock of its own, and the search of    *)
(* lib/icaoregion/locator.go behind them.  The bridge to the MLAT servers  *)
(* and pw_haproxy_api call FID while the list of feeders is refreshed.     *)
(*                                                                         *)
(* A feature of the GeoJSON file is a region with its number and the       *)
(* points it contains; points are (longitude, latitude), as in the file.   *)
(***************************************************************************)
EXTENDS Integers, Sequences

CONSTANTS RegionCallers, RegionFeeders,
          Latitudes, Longitudes,
          Features,      \* the features of the file, in its order
          MaxMoves       \* bound: refreshes that change the place of a feeder

ASSUME RegionAssumption ==
    Features \in Seq([fid : Int, region : STRING, contains : SUBSET (Int \X Int)])

Places == [lat : Latitudes, lon : Longitudes]
Questions == {"fid", "region"}

KnownRegions == {"AFI", "ASIA", "CAR", "EUR", "MID", "NAM", "NAT", "SAM"}

lookupRegion(r) == IF r \in KnownRegions THEN r ELSE "Unknown"

Hits(point) == {i \in DOMAIN Features : point \in Features[i].contains}

First(hits) == CHOOSE i \in hits : \A j \in hits : i <= j

FIDOfPoint(point) ==
    IF Hits(point) = {} THEN -1 ELSE Features[First(Hits(point))].fid

(* Mutant: the search goes on after a hit.                                 *)
RegionOfPointLast(point) ==
    LET hits == Hits(point)
    IN  IF hits = {} THEN "Unknown"
        ELSE lookupRegion(Features[CHOOSE i \in hits : \A j \in hits : i >= j].region)

RegionOfPoint(point) ==
    IF Hits(point) = {} THEN "Unknown" ELSE lookupRegion(Features[First(Hits(point))].region)

(* Mutant: the coordinates the other way about.                            *)
PointSwapped(place) == <<place.lat, place.lon>>

(* RegionOfLatLon and FIDOfLatLon                                          *)
Point(place) == <<place.lon, place.lat>>

Lookup(question, place) ==
    IF question = "fid" THEN FIDOfPoint(Point(place)) ELSE RegionOfPoint(Point(place))

VARIABLES place,      \* per feeder: {its place in the list}, or {} without it
          cached,     \* feederFIDs and feederRegion: per feeder {} or {the answer}
          asking,     \* per caller: its call
          had,        \* history: the places the list has given for a feeder
          moves

regionVars == <<place, cached, asking, had, moves>>

Idle == [at |-> "idle"]

RegionInit ==
    /\ place \in [RegionFeeders -> {{p} : p \in Places}]
    /\ cached = [q \in Questions |-> [k \in RegionFeeders |-> {}]]
    /\ asking = [c \in RegionCallers |-> Idle]
    /\ had = place
    /\ moves = MaxMoves

(* The refresh brings another place, no feeder, or one that was gone.  It  *)
(* leaves both caches as they are.                                         *)
Refresh(k, new) ==
    /\ moves > 0 /\ moves' = moves - 1
    /\ new # place[k] /\ place' = [place EXCEPT ![k] = new]
    /\ had' = [had EXCEPT ![k] = @ \cup new]
    /\ UNCHANGED <<cached, asking>>

(* Get: a feeder that is not found is an error.                            *)
GetFeeder(c, k, q) ==
    /\ asking[c] = Idle
    /\ \E p \in place[k] :
          asking' = [asking EXCEPT ![c] = [at |-> "look", feeder |-> k, question |-> q, place |-> p]]
    /\ UNCHANGED <<place, cached, had, moves>>

(* What the cache holds is the answer.                                     *)
LookInCache(c) ==
    /\ asking[c].at = "look"
    /\ asking' = [asking EXCEPT ![c] =
                     IF cached[asking[c].question][asking[c].feeder] # {}
                     THEN Idle ELSE [@ EXCEPT !.at = "store"]]
    /\ UNCHANGED <<place, cached, had, moves>>

StoreInCache(c) ==
    /\ asking[c].at = "store"
    /\ cached' = [cached EXCEPT ![asking[c].question][asking[c].feeder] =
                     {Lookup(asking[c].question, asking[c].place)}]
    /\ asking' = [asking EXCEPT ![c] = Idle]
    /\ UNCHANGED <<place, had, moves>>

FID(c) == LookInCache(c) \/ StoreInCache(c)

RegionNext ==
    \/ \E k \in RegionFeeders, new \in {{}} \cup {{p} : p \in Places} : Refresh(k, new)
    \/ \E c \in RegionCallers :
          \/ \E k \in RegionFeeders, q \in Questions : GetFeeder(c, k, q)
          \/ FID(c)

(* ------------------------------------------------------------ properties *)

(* The number FID answers with is that of a feature around a place the     *)
(* list gave for that feeder, or -1 where no feature is: callers that race *)
(* with each other and with a refresh do not mix feeders or coordinates.   *)
AroundAPlaceItHad ==
    \A k \in RegionFeeders : \A fid \in cached["fid"][k] : \E p \in had[k] :
        \/ fid = -1 /\ \A i \in DOMAIN Features : <<p.lon, p.lat>> \notin Features[i].contains
        \/ \E i \in DOMAIN Features : Features[i].fid = fid /\ <<p.lon, p.lat>> \in Features[i].contains

(* As long as a feeder has not moved, FID and Region speak of one feature, *)
(* also where two features overlap.                                        *)
OneFeature ==
    \A k \in RegionFeeders : \A fid \in cached["fid"][k], region \in cached["region"][k] :
        (\E p \in Places : had[k] = {p}) =>
           \/ fid = -1 /\ region = "Unknown"
           \/ \E i \in DOMAIN Features : Features[i].fid = fid /\ lookupRegion(Features[i].region) = region
=============================================================================
