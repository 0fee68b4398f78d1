--------------------------- MODULE PlaneLocations ---------------------------
(***************************************************************************)
(* The record pw_router keeps per aircraft (export.PlaneLocation) and the  *)
(* pure functions it applies to it: IsLocationPossible and                 *)
(* MergePlaneLocations of lib/export/types.go, isSignificant of            *)
(* cmd/pw_router/worker.go.                                                *)
(*                                                                         *)
(* A record carries one entry per independently time-stamped group of      *)
(* fields (the Updates struct).  has is the HasXxx flag of the group (for  *)
(* Nav and EHS, HasNav() and HasEHS()), val its value, ts the time stamp;  *)
(* 0 is Go's zero time.  Positions, tiles and call signs are opaque; the   *)
(* great-circle formula is the parameter Bearing.                          *)
(***************************************************************************)
EXTENDS Integers

CONSTANTS
    Icaos,          \* aircraft addresses
    Positions,      \* (lat, lon) pairs
    Tiles,          \* names of grid tiles
    NoTile,         \* the empty TileLocation
    Bearing(_, _),  \* initial bearing between two positions, whole degrees
    TileOf(_),      \* the tile a position lies in (lib/tile_grid)
    SquawkHold      \* time a squawk is held against a 0 (5 s in the code)

ASSUME GeometryAssumption ==
    /\ \A p, q \in Positions : Bearing(p, q) \in 0 .. 359
    /\ \A p \in Positions : TileOf(p) \in Tiles
    /\ NoTile \notin Tiles

ASSUME SquawkHoldAssumption == SquawkHold \in Nat

-----------------------------------------------------------------------------
(* Merging accepts a group only with its Has flag set, except these two.   *)
Unflagged == {"Squawk", "Special"}

(* These groups set the Has flag of the merged record when they are taken. *)
FlagSetting == {"Location", "Heading", "Velocity", "Altitude",
                "VerticalRate", "Nav", "EHS"}

Fields == FlagSetting \union {"FlightStatus", "OnGround"} \union Unflagged

(* The value of a group: degrees, feet, feet per minute, an opaque number, *)
(* or, for Location, a position.                                           *)
Entry == [has : BOOLEAN, val : Int \union Positions, ts : Nat]

NoEntry == [has |-> FALSE, val |-> 0, ts |-> 0]

PlaneLocation ==
    [icao  : Icaos,
     at    : [Fields -> Entry],
     tile  : Tiles \union {NoTile},
     last  : Nat,                     \* LastMsg
     since : Nat,                     \* TrackedSince
     name  : Nat,                     \* the enrichment strings, 0 = empty
     tag   : {"feeder", "repeat", "merged"}]

-----------------------------------------------------------------------------
(* Go's math.Mod keeps the sign of its first argument.                     *)
GoMod(a, b) == IF a >= 0 THEN a % b ELSE -((-a) % b)

Abs(x) == IF x >= 0 THEN x ELSE -x

(* Mutant: the fold around 0 without taking the 180 degrees off again.     *)
AbsDeltaBearingUncentred(heading, bearing) ==
    Abs(GoMod(heading - bearing + 180, 360))

AbsDeltaBearing(heading, bearing) ==
    Abs(GoMod(heading - bearing + 180, 360) - 180)

IsLocationPossible(prev, next) ==
    \/ ~ \A f \in {"Location", "Heading"} : prev.at[f].has /\ next.at[f].has
    \/ prev.at["Location"].val = next.at["Location"].val
    \/ /\ prev.last <= next.last
       /\ prev.at["Location"].ts <= next.at["Location"].ts
       /\ AbsDeltaBearing(prev.at["Heading"].val,
                          Bearing(prev.at["Location"].val,
                                  next.at["Location"].val)) < 90

-----------------------------------------------------------------------------
(* Whether the merge takes next's entry of a group over prev's.            *)
Takes(prev, next, f) ==
    /\ f \notin Unflagged => next.has
    /\ next.ts > prev.ts
    /\ f = "Squawk" /\ next.val = 0 => next.ts > prev.ts + SquawkHold

(* Mutant: the update that is merged last wins.                            *)
MergeEntryLastWins(prev, next, f) ==
    IF f \notin Unflagged => next.has
    THEN [next EXCEPT !.has = f \in FlagSetting \/ prev.has] ELSE prev

MergeEntry(prev, next, f) ==
    IF Takes(prev, next, f)
    THEN [has |-> f \in FlagSetting \/ prev.has,
          val |-> next.val,
          ts  |-> next.ts]
    ELSE prev

(* MergePlaneLocations, once IsLocationPossible holds.  TileLocation, the  *)
(* enrichment strings and LastMsg are not guarded by a time stamp.         *)
Merge(prev, next) ==
    [icao  |-> prev.icao,
     at    |-> [f \in Fields |-> MergeEntry(prev.at[f], next.at[f], f)],
     tile  |-> IF next.tile # NoTile THEN next.tile ELSE prev.tile,
     last  |-> next.last,
     since |-> IF next.since < prev.since THEN next.since ELSE prev.since,
     name  |-> IF next.name # 0 THEN next.name ELSE prev.name,
     tag   |-> "merged"]

-----------------------------------------------------------------------------
SigHeadingChange == 1
SigVerticalRateChange == 180
SigAltitudeChange == 10

(* The change that makes a newer value of a group worth publishing low.    *)
Differs(last, candidate, f) ==
    LET l == last.at[f]
        c == candidate.at[f]
        Both == l.has /\ c.has
    IN  CASE f = "Heading"  -> Both /\ Abs(c.val - l.val) > SigHeadingChange
          [] f = "Velocity" -> Both /\ c.val # l.val
          [] f = "VerticalRate" ->
                Both /\ Abs(c.val - l.val) > SigVerticalRateChange
          [] f = "Altitude" -> Both /\ Abs(c.val - l.val) > SigAltitudeChange
          [] f \in {"FlightStatus", "OnGround", "Special", "Squawk"} ->
                c.val # l.val
          [] f = "Location" -> candidate.tile # last.tile
          [] OTHER -> FALSE

isSignificant(last, candidate) ==
    \/ candidate.at["OnGround"].has /\ candidate.at["OnGround"].val = 1
    \/ \E f \in Fields :
          /\ Differs(last, candidate, f)
          /\ candidate.at[f].ts > last.at[f].ts
=============================================================================
