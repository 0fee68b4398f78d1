------------------------------ MODULE MCTracker ------------------------------
(***************************************************************************)
(* What the frames of one aircraft do to its plane, to its navigation      *)
(* state and to the list of its last frames, and what the tap program      *)
(* shows of many aircraft.  The four are locked apart and read nothing of  *)
(* each other, so a behaviour runs one of them, chosen at the start.       *)
(***************************************************************************)
EXTENDS Plane, Nav, LossyList, TapView

VARIABLE part

vars == <<part, planeVars, navVars, lossyVars, viewVars>>

FrameOf(kind, place, odd, status, has) ==
    [kind |-> kind, place |-> place, odd |-> odd, status |-> status, has |-> has, ts |-> 0]

(* Both halves in the air at 1, one half on the ground at 5, a line of     *)
(* SBS-1, and a frame of every other kind, with the fields that matter.    *)
SomeFrames ==
    {FrameOf("air", 1, FALSE, "", {"Altitude", "Special"}),
     FrameOf("air", 1, TRUE, "", {"Altitude", "Special"}),
     FrameOf("surface", 5, TRUE, "", {"Heading"}),
     FrameOf("surveillance", 5, TRUE, "ground", {"Altitude", "FlightStatus"}),
     FrameOf("sbs", 5, FALSE, "", {}),
     FrameOf("altitude", 1, FALSE, "air", {"Altitude"}),
     FrameOf("allcall", 1, FALSE, "unknown", {"Registration"}),
     FrameOf("ident", 1, FALSE, "", {"FlightNumber", "Category"}),
     FrameOf("velocity", 1, FALSE, "", {"Velocity", "Rate"}),
     FrameOf("emergency", 5, FALSE, "", {"Squawk"}),
     FrameOf("target", 1, FALSE, "", {"Nav"}),
     FrameOf("operational", 1, FALSE, "ground", {"Airframe"}),
     FrameOf("commB", 5, FALSE, "", {"Altitude"})}

NavOf(kind, mcp, fms, qnh, other) ==
    [kind |-> kind, mcp |-> mcp, fms |-> fms, qnh |-> qnh, heading |-> other, modes |-> other]

(* Altitudes within and out of the tolerance of each other, replies with   *)
(* and without values.                                                     *)
SomeNav ==
    {NavOf("tc29", 2, None, None, None), NavOf("tc29", 2, 3, 5, 7),
     NavOf("tc29", None, None, None, 7),
     NavOf("bds40", 1, None, None, 8), NavOf("bds40", 4, 4, 6, 8),
     NavOf("bds40", None, 4, None, None), NavOf("bds40", None, None, None, None),
     NavOf("bds50", None, None, None, 3), NavOf("bds60", None, None, None, 4),
     NavOf("other", None, None, None, None)}

(* No filter, an aircraft, a feeder.                                       *)
SomeFilters ==
    {[icao |-> NoIcao, feeder |-> AnyTag], [icao |-> 1, feeder |-> AnyTag],
     [icao |-> NoIcao, feeder |-> "t1"]}

Init ==
    /\ part \in {"plane", "nav", "frames", "view"}
    /\ PlaneInit /\ NavInit /\ LossyInit /\ ViewInit
    /\ part # "view" => filter = [icao |-> NoIcao, feeder |-> AnyTag]

Next ==
    /\ UNCHANGED part
    /\ \/ part = "plane" /\ PlaneNext /\ UNCHANGED <<navVars, lossyVars, viewVars>>
       \/ part = "nav" /\ NavNext /\ UNCHANGED <<planeVars, lossyVars, viewVars>>
       \/ part = "frames" /\ LossyNext /\ UNCHANGED <<planeVars, navVars, viewVars>>
       \/ part = "view" /\ ViewNext /\ UNCHANGED <<planeVars, navVars, lossyVars>>

Spec == Init /\ [][Next]_vars

(* What is kept of an aircraft comes from what was heard: a position from  *)
(* two halves that were there, each half used once, and of the frames the  *)
(* newest, while workers decode, drop and push beside each other.          *)
RecordsSound == NoPhantom /\ HalvesSpent /\ NewestKept

(* What the tap program shows is what the taps brought: the counts add up, *)
(* only aircraft that were asked for are listed and selected, a row with a *)
(* position has a count, and the log is shown only where it fits.          *)
ViewTrue == Tally /\ OnlyAsked /\ PositionCounted /\ LogsFit
==============================================================================
