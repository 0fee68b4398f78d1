-------------------------------- MODULE Plane --------------------------------
(***************************************************************************)
(* lib/tracker: what the frames of one aircraft do to its Plane.  The      *)
(* workers of decodeQueue handle frames of the same aircraft at the same   *)
(* time; every setter takes the lock of the plane (or of its CprLocation)  *)
(* for itself, so a handler is a script of setters between which other     *)
(* workers run.  Frame number n carries time stamp n: a worker that was    *)
(* held up applies an older frame after a newer one.                       *)
(*                                                                         *)
(* Places lie on a line and stand for latitude and longitude; the pairs    *)
(* of halves that do not belong together (one airborne, one surface)       *)
(* decode to anything.  Texts and numbers of a field are one value.        *)
(***************************************************************************)
EXTENDS Integers, Sequences, FiniteSets

CONSTANTS Workers,      \* decodeWorkerCount goroutines
          Frames,       \* the frames that may be received
          MaxFrames,    \* bound on how many are
          Places,       \* where the aircraft can be, 1, 2, ...
          Ref,          \* the place of the receiver, 0 when not configured
          VelocityCheck,
          Viable,       \* numFramesToBeViable
          PairWindow,   \* 10 s between the halves of a position
          RefWindow,    \* a minute: how old a place may serve as reference
          MaxHistory, Reach,
          TileWidth     \* places per tile

(* The fields of a Plane that frames set; a frame names those it has.      *)
FieldNames == {"Altitude", "Special", "FlightStatus", "Squawk", "FlightNumber", "Category",
               "Heading", "Velocity", "Rate", "Airframe", "Registration", "Nav"}

ASSUME PlaneAssumption ==
    /\ Places \subseteq Nat \ {0} /\ Ref \in Places \cup {0}
    /\ Frames \subseteq [kind : STRING, place : Places, odd : BOOLEAN,
                         status : STRING, has : SUBSET FieldNames, ts : {0}]
    /\ Viable \in Nat /\ PairWindow \in Nat /\ RefWindow \in Nat
    /\ MaxHistory \in Nat /\ Reach \in Nat
    /\ MaxFrames \in Nat /\ TileWidth \in Nat \ {0} /\ VelocityCheck \in BOOLEAN

VARIABLES plane,        \* the Plane
          work,         \* per worker: the frame it handles and what is left to do
          received,     \* frames received so far
          pending,      \* a change was made that no event has announced yet
          used          \* numbers of the frames whose halves made a position

planeVars == <<plane, work, received, pending, used>>

NoHalf == [kind |-> "none", place |-> 0, ts |-> 0]
NoPlace == [place |-> 0, ts |-> -1]
Unset == [val |-> 0, ts |-> 0]

(* newPlane                                                                *)
NewPlane ==
    [lastSeen |-> 0, count |-> 0, onGround |-> FALSE, tile |-> 0,
     fields |-> [f \in FieldNames |-> Unset],
     even |-> NoHalf, odd |-> NoHalf, ref |-> 0,
     loc |-> NoPlace, finished |-> FALSE, history |-> <<>>]

(* HandleModeSFrame: a setter is run for a field the frame has             *)
(* (AltitudeValid, Alert ...), the other steps always. DF0 and 16 are      *)
(* "altitude", DF11 "allcall", DF1 to 5 "surveillance";                    *)
Opt(frame, f) == IF f \in frame.has THEN <<f>> ELSE <<>>

ReplySetters(frame) ==
    CASE frame.kind = "altitude" -> Opt(frame, "Altitude") \o <<"ground">>
      [] frame.kind = "allcall"  -> <<"ground">>
      [] OTHER -> <<"ground">> \o Opt(frame, "Special") \o Opt(frame, "Altitude")
                     \o Opt(frame, "FlightStatus") \o Opt(frame, "Squawk")

(* the types of an extended squitter, of which a surface system status is  *)
(* an "operational" without airframe and a test squawk an "emergency";     *)
SquitterSetters(frame) ==
    CASE frame.kind = "ident" -> Opt(frame, "FlightNumber") \o Opt(frame, "Category")
      [] frame.kind = "surface" -> Opt(frame, "Heading") \o Opt(frame, "Velocity")
                                      \o <<"check", "ground", "half", "ref">>
      [] frame.kind = "air" -> <<"check", "ground", "half">> \o Opt(frame, "Altitude")
                                  \o <<"ref">> \o Opt(frame, "Special")
      [] frame.kind = "velocity" -> <<"ground">> \o Opt(frame, "Heading")
                                       \o Opt(frame, "Velocity") \o Opt(frame, "Rate")
      [] frame.kind = "emergency" -> Opt(frame, "Special") \o Opt(frame, "Squawk")
      [] frame.kind = "target" -> Opt(frame, "Nav")
      [] OTHER -> <<"ground">> \o Opt(frame, "Airframe")

(* the registers of a Comm-B reply (what they do to Nav is in module Nav). *)
CommBSetters(frame) == Opt(frame, "Squawk") \o Opt(frame, "Altitude")
                          \o Opt(frame, "FlightNumber") \o Opt(frame, "Nav")

Replies == {"altitude", "allcall", "surveillance"}
Squitters == {"ident", "surface", "air", "velocity", "emergency", "target", "operational"}

Setters(frame) ==
    CASE frame.kind \in Replies   -> ReplySetters(frame)
      [] frame.kind \in Squitters -> SquitterSetters(frame)
      [] frame.kind = "commB"     -> CommBSetters(frame)
      [] frame.kind = "sbs"       -> <<"add">>
      [] OTHER                    -> <<>>

(* What a handler does for a frame, in order.                              *)
Script(frame) == Opt(frame, "Registration") \o Setters(frame) \o <<"finish">>

(* What a frame says about the ground: positions by their kind, others by  *)
(* their vertical status, which may be missing.                            *)
Says(frame) == IF frame.kind = "surface" THEN "ground"
               ELSE IF frame.kind \in {"air", "velocity"} THEN "air" ELSE frame.status

Idle == [frame |-> NoHalf, todo |-> <<>>, changed |-> FALSE, ground |-> FALSE, loc |-> NoPlace]

TileOf(place) == (place \div TileWidth) + 1

PlaneInit ==
    /\ plane = NewPlane
    /\ work = [w \in Workers |-> Idle]
    /\ received = 0 /\ pending = FALSE /\ used = {}

(* The next step of worker w is s; what it is followed by.                 *)
At(w, s) == work[w].todo # <<>> /\ Head(work[w].todo) = s

Done(w) == [work[w] EXCEPT !.todo = Tail(@)]

(* Mutant: hasChanged is assigned instead of accumulated.                  *)
ChangedOnlyLast(w, todo, changed) ==
    /\ work' = [work EXCEPT ![w] = [todo EXCEPT !.changed = changed]]
    /\ pending' = (pending \/ (changed /\ plane.count > Viable))

(* A setter reports a change: the flag of the handler keeps it, and once   *)
(* the aircraft is viable an event is owed.                                *)
Changed(w, todo, changed) ==
    /\ work' = [work EXCEPT ![w] = [todo EXCEPT !.changed = @ \/ changed]]
    /\ pending' = (pending \/ (changed /\ plane.count > Viable))

(* decodeQueue takes a frame and calls the handler: lastSeen, the message  *)
(* count and, without a tile, the tile of the receiver.                    *)
Begin(w) ==
    /\ work[w].todo = <<>> /\ received < MaxFrames
    /\ received' = received + 1
    /\ \E f \in Frames :
        /\ work' = [work EXCEPT ![w] =
               [Idle EXCEPT !.frame = [f EXCEPT !.ts = received + 1],
                            !.todo = Script(f),
                            !.loc = IF f.kind = "sbs"
                                    THEN [place |-> f.place, ts |-> received + 1] ELSE NoPlace]]
        /\ plane' = [plane EXCEPT !.lastSeen = received + 1, !.count = @ + 1,
                                  !.tile = IF @ = 0 /\ Ref # 0 /\ f.kind # "sbs"
                                           THEN TileOf(Ref) ELSE @]
    /\ UNCHANGED <<pending, used>>

(* A setter stores the value and the time of the frame, whatever is there  *)
(* already, and reports whether the value is another one.                  *)
Put(w, f, changed) ==
    /\ At(w, f)
    /\ plane' = [plane EXCEPT !.fields[f] = [val |-> work[w].frame.place, ts |-> work[w].frame.ts]]
    /\ Changed(w, Done(w), changed)
    /\ UNCHANGED <<received, used>>

Differs(w, f) == plane.fields[f].val # work[w].frame.place

setSpecial(w) == Put(w, "Special", Differs(w, "Special"))
setAltitude(w) == Put(w, "Altitude", Differs(w, "Altitude"))
setFlightStatus(w) == Put(w, "FlightStatus", Differs(w, "FlightStatus"))
setFlightNumber(w) == Put(w, "FlightNumber", Differs(w, "FlightNumber"))
setSquawkIdentity(w) == Put(w, "Squawk", Differs(w, "Squawk"))
setAirFrameCategory(w) == Put(w, "Category", Differs(w, "Category"))
setHeading(w) == Put(w, "Heading", Differs(w, "Heading"))
setVelocity(w) == Put(w, "Velocity", Differs(w, "Velocity"))
setVerticalRate(w) == Put(w, "Rate", Differs(w, "Rate"))
setNav(w) == Put(w, "Nav", Differs(w, "Nav"))

(* These compare pointers to fresh values: always a change.                *)
setRegistration(w) == Put(w, "Registration", TRUE)
setAirFrameWidthLength(w) == Put(w, "Airframe", TRUE)

(* A position frame of the other kind than the last known status drops the *)
(* halves; the test and zeroCpr take the locks one after the other.        *)
CheckGround(w) ==
    /\ At(w, "check")
    /\ work' = [work EXCEPT ![w] =
           [Done(w) EXCEPT !.todo = IF plane.onGround # (work[w].frame.kind = "surface")
                                    THEN <<"zero">> \o @ ELSE @]]
    /\ UNCHANGED <<plane, received, pending, used>>

ZeroCpr(w) ==
    /\ At(w, "zero")
    /\ plane' = [plane EXCEPT !.even = NoHalf, !.odd = NoHalf]
    /\ work' = [work EXCEPT ![w] = Done(w)]
    /\ UNCHANGED <<received, pending, used>>

(* setGroundStatus: on the ground the vertical rate is zeroed after the    *)
(* lock is released, and that change is not reported.                      *)
SetGround(w) ==
    /\ At(w, "ground")
    /\ IF Says(work[w].frame) = "unknown"
       THEN /\ work' = [work EXCEPT ![w] = Done(w)]
            /\ UNCHANGED <<plane, pending>>
       ELSE LET g == Says(work[w].frame) = "ground"
            IN  /\ plane' = [plane EXCEPT !.onGround = g]
                /\ Changed(w, IF g THEN [Done(w) EXCEPT !.todo = <<"level">> \o @] ELSE Done(w),
                           plane.onGround # g)
    /\ UNCHANGED <<received, used>>

SetLevel(w) ==
    /\ At(w, "level")
    /\ plane' = [plane EXCEPT !.fields["Rate"] = [val |-> 0, ts |-> work[w].frame.ts]]
    /\ work' = [work EXCEPT ![w] = Done(w)]
    /\ UNCHANGED <<received, pending, used>>

(* SetEvenLocation, SetOddLocation                                         *)
SetHalf(w) ==
    /\ At(w, "half")
    /\ LET f == work[w].frame
           h == [kind |-> f.kind, place |-> f.place, ts |-> f.ts]
       IN  plane' = IF f.odd THEN [plane EXCEPT !.odd = h] ELSE [plane EXCEPT !.even = h]
    /\ work' = [work EXCEPT ![w] = Done(w)]
    /\ UNCHANGED <<received, pending, used>>

(* decodeCprFilledRefLatLon: the oldest place of the last minute stands in *)
(* for a receiver without position; without any, decoding is left out and  *)
(* counts as a change.                                                     *)
Recent == {i \in 1 .. Len(plane.history) : received - plane.history[i].ts < RefWindow}

Reference ==
    IF Ref # 0 THEN Ref
    ELSE IF Recent = {} THEN 0
    ELSE plane.history[CHOOSE i \in Recent : \A j \in Recent : i <= j].place

(* decodeCpr: sets the reference without a lock, reads the ground status,  *)
(* and canDecode looks for both halves.                                    *)
DecodeCpr(w) ==
    /\ At(w, "ref")
    /\ LET surface == work[w].frame.kind = "surface"
           skip    == surface /\ Reference = 0
           both    == plane.even # NoHalf /\ plane.odd # NoHalf
       IN  /\ plane' = IF skip THEN plane
                       ELSE [plane EXCEPT !.ref = IF surface THEN Reference ELSE 0]
           /\ Changed(w, [Done(w) EXCEPT !.ground = plane.onGround,
                              !.todo = IF ~skip /\ both THEN <<"decode", "add">> \o @ ELSE @],
                      skip \/ ~both)
    /\ UNCHANGED <<received, used>>

(* decode, under the lock of the CprLocation.  A surface position without  *)
(* reference fails and leaves the halves; otherwise they are dropped.      *)
(* decodeGlobalAir and decodeSurface look again for both halves.           *)
Apart(e, o) == IF e.ts < o.ts THEN o.ts - e.ts ELSE e.ts - o.ts

Older(e, o) == IF o.ts < e.ts THEN o ELSE e

(* Mutant: the second look for both halves is left out.                    *)
DecodingsUnchecked(e, o, ground) ==
    IF Apart(e, o) > PairWindow THEN {NoPlace}
    ELSE IF e.kind = o.kind
    THEN {[place |-> Older(e, o).place, ts |-> Older(e, o).ts]}
    ELSE {NoPlace} \cup {[place |-> p, ts |-> Older(e, o).ts] : p \in Places}

Decodings(e, o, ground) ==
    IF e = NoHalf \/ o = NoHalf \/ Apart(e, o) > PairWindow THEN {NoPlace}
    ELSE IF e.kind = o.kind /\ ground = (e.kind = "surface")
    THEN {[place |-> Older(e, o).place, ts |-> Older(e, o).ts]}
    ELSE {NoPlace} \cup {[place |-> p, ts |-> Older(e, o).ts] : p \in Places}

(* Mutant: the even half is kept for the next odd one.                     *)
DropHalvesOdd(p) == [p EXCEPT !.odd = NoHalf]

DropHalves(p) == [p EXCEPT !.even = NoHalf, !.odd = NoHalf]

Decode(w) ==
    /\ At(w, "decode")
    /\ IF work[w].ground /\ plane.ref = 0
       THEN /\ work' = [work EXCEPT ![w] = [Done(w) EXCEPT !.loc = NoPlace]]
            /\ UNCHANGED <<plane, used>>
       ELSE \E loc \in Decodings(plane.even, plane.odd, work[w].ground) :
            /\ work' = [work EXCEPT ![w] = [Done(w) EXCEPT !.loc = loc]]
            /\ plane' = DropHalves(plane)
            /\ used' = IF loc = NoPlace THEN used
                       ELSE used \cup ({plane.even.ts, plane.odd.ts} \ {0})
    /\ UNCHANGED <<received, pending>>

(* addLatLong: the velocity check compares with the last place and the     *)
(* time of the last of the history.                                        *)
T == INSTANCE Track WITH track <- plane.history

(* Mutant: the time that has passed is rounded up to a second more.         *)
TooFarRounded(loc, check) ==
    LET n == Len(plane.history)
    IN  check /\ n > 0 /\ plane.loc.place # 0 /\ plane.history[n].ts < loc.ts
        /\ T!Gap(loc.place, plane.loc.place) > (2 + loc.ts - plane.history[n].ts) * Reach

TooFar(loc, check) ==
    LET n == Len(plane.history)
    IN  check /\ n > 0 /\ plane.loc.place # 0 /\ plane.history[n].ts < loc.ts
        /\ T!Gap(loc.place, plane.loc.place) > (1 + loc.ts - plane.history[n].ts) * Reach

AddLatLong(w) ==
    /\ At(w, "add")
    /\ LET loc == work[w].loc
           sbs == work[w].frame.kind = "sbs"
       IN  IF loc = NoPlace THEN UNCHANGED plane /\ Changed(w, Done(w), FALSE)
           ELSE IF TooFar(loc, sbs \/ VelocityCheck)
           THEN plane' = [plane EXCEPT !.finished = TRUE] /\ Changed(w, Done(w), sbs)
           ELSE /\ plane' = [plane EXCEPT !.loc = loc, !.tile = TileOf(loc.place),
                                          !.history = Append(T!Kept(@), loc)]
                /\ Changed(w, Done(w), TRUE)
    /\ UNCHANGED <<received, used>>

(* The end of the handler: a plane that HAS a tile is given the tile of    *)
(* the receiver, and an event goes to the sink when something changed and  *)
(* the aircraft is viable; HandleSbs1Frame does not ask for that.          *)
Finish(w) ==
    /\ At(w, "finish")
    /\ LET sbs  == work[w].frame.kind = "sbs"
           tile == plane.tile # 0 /\ Ref # 0 /\ ~sbs
       IN  /\ plane' = IF tile THEN [plane EXCEPT !.tile = TileOf(Ref)] ELSE plane
           /\ pending' = IF (work[w].changed \/ tile) /\ (sbs \/ plane.count > Viable)
                         THEN FALSE ELSE pending
    /\ work' = [work EXCEPT ![w] = Idle]
    /\ UNCHANGED <<received, used>>

PlaneNext ==
    \E w \in Workers :
        \/ setSpecial(w) \/ setAltitude(w) \/ setFlightStatus(w) \/ setFlightNumber(w)
        \/ setSquawkIdentity(w) \/ setAirFrameCategory(w) \/ setHeading(w) \/ setVelocity(w)
        \/ setVerticalRate(w) \/ setNav(w) \/ setRegistration(w) \/ setAirFrameWidthLength(w)
        \/ Begin(w) \/ CheckGround(w) \/ ZeroCpr(w) \/ SetGround(w)
        \/ SetLevel(w) \/ SetHalf(w) \/ DecodeCpr(w) \/ Decode(w) \/ AddLatLong(w) \/ Finish(w)

(* ------------------------------------------------------------ properties *)

(* With two workers decoding at once, the second may find the halves gone  *)
(* that canDecode had seen: no position is ever made of halves that are    *)
(* not there, which would put the aircraft at 0, 0 in the year 1970.       *)
NoPhantom == plane.loc = NoPlace \/ (plane.loc.place # 0 /\ plane.loc.ts > 0)

(* A half is spent by the position it made: none goes into two positions.  *)
HalvesSpent == /\ plane.even.ts \notin used /\ plane.odd.ts \notin used

(* What a handler changed on a viable aircraft has been announced to the   *)
(* sink when all handlers are through: no change is forgotten by the flags *)
(* of twenty setters.                                                      *)
ChangesAnnounced == (\A w \in Workers : work[w].todo = <<>>) => ~pending

(* The history is a track: see module Track.                               *)
HistoryIsTrack == T!TSpec
=============================================================================
