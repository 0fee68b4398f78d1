-------------------------------- MODULE CommB --------------------------------
(***************************************************************************)
(* lib/tracker/mode_s/decode-bds.go: the Comm-B registers in a DF20 or     *)
(* DF21 reply.  The reply does not say which register it carries: the      *)
(* decoder infers it from the content, and the tracker settles what stays  *)
(* ambiguous from what it knows of the aircraft.  mb is the MB field, a    *)
(* function from 0 .. 6 to bytes.  The comparison of indicated air speed   *)
(* with Mach number and the distance between two velocities are            *)
(* parameters: they are the standard atmosphere and trigonometry.          *)
(***************************************************************************)
EXTENDS ModeS

EhsRegisters == {"4.0", "5.0", "6.0"}

NoRegister == "0.0"

(* inferCommBMessageType, tested in this order.                            *)
InferCommBMessageType(mb) ==
    CASE mb[0] = 16 /\ Sel(mb[1], 2, 5) = 0 -> "1.0"
      [] /\ Sel(mb[0], 1, 1) = 1
         /\ Sel(mb[3], 0, 4) = 0 /\ mb[4] = 0 /\ mb[5] = 0 /\ mb[6] = 0 -> "1.7"
      [] mb[0] = 32 /\ DecodeFlightNumber([i \in 0 .. 5 |-> mb[i + 1]]) # <<>> -> "2.0"
      [] mb[0] = 48 /\ Sel(mb[3], 2, 2) # 3 /\ Sel(mb[2], 2, 6) + (mb[1] % 2) * 64 < 48 -> "3.0"
      [] OTHER -> NoRegister

(* decodeBds10 and the flags of decodeBds30, by bit.                       *)
Bds10Fields(mb) ==
    [Conf |-> BitAt(mb, 9), OCC |-> BitAt(mb, 15), ModeSver |-> BitsAt(mb, 17, 23),
     Enhanced |-> BitAt(mb, 24), CAP |-> BitAt(mb, 25), ELMUp |-> BitsAt(mb, 26, 28),
     ELMDn |-> BitsAt(mb, 29, 32), IDCap |-> BitAt(mb, 33), SCS |-> BitAt(mb, 34),
     SIC |-> BitAt(mb, 35), GICB |-> BitAt(mb, 36), DTE |-> BitsAt(mb, 41, 56)]

Bds30Fields(mb) ==
    [ARA |-> BitsAt(mb, 9, 22), RAC |-> BitsAt(mb, 23, 26), RAT |-> BitAt(mb, 27),
     MT |-> BitAt(mb, 28), TTI |-> BitsAt(mb, 29, 30)]

(* The threat of a resolution advisory, by its type indicator.             *)
Threat(mb) ==
    LET tti == BitsAt(mb, 29, 30)
        rng == BitsAt(mb, 44, 50)
        brg == BitsAt(mb, 51, 56)
    IN  [icao    |-> IF tti = 1 THEN BitsAt(mb, 31, 54) ELSE NoValue,
         alt     |-> IF tti = 2 THEN DecodeAC13(BitsAt(mb, 31, 43)) ELSE NoValue,
         range   |-> IF tti = 2 /\ rng # 0 THEN rng - 1 ELSE NoValue,
         bearing |-> IF tti = 2 /\ brg \in 1 .. 60 THEN 6 * (brg - 1) + 3 ELSE NoValue]

(* decodeBds17: the registers whose bit is set, in the order of the bits.  *)
gicbRegisters == << "0.5", "0.6", "0.7", "0.8", "0.9", "0.A", "2.0", "2.1",
    "4.0", "4.1", "4.2", "4.3", "4.4", "4.5", "4.8", "5.0", "5.1", "5.2",
    "5.3", "5.4", "5.5", "5.6", "5.F", "6.0" >>

DecodeBds17(mb) == {gicbRegisters[i] : i \in {k \in 1 .. 24 : BitAt(mb, k) = 1}}

Limit(f, bound) == f.v = NoValue \/ (f.v <= bound /\ f.v >= -bound)

(* Five fields make a register when their status bits agree with them, at  *)
(* least one is there and each is within its bounds.                       *)
Register(f, bounds) ==
    /\ \A i \in 1 .. 5 : f[i].ok /\ Limit(f[i], bounds[i])
    /\ \E i \in 1 .. 5 : f[i].v # NoValue

(* decodeBds40: altitudes in units of 16 ft, pressure in tenths of hPa     *)
(* above 800, three mode bits, the source.                                 *)
Bds40(mb) ==
    << StatusField(mb, 1, 2, 13), StatusField(mb, 14, 15, 26),
       StatusField(mb, 27, 28, 39), StatusField(mb, 48, 49, 51),
       StatusField(mb, 54, 55, 56) >>

IsBds40(mb) ==
    /\ BitsAt(mb, 40, 47) = 0 /\ BitsAt(mb, 52, 53) = 0
    /\ Register(Bds40(mb), <<3125, 3125, 4095, 7, 3>>)

(* decodeBds50: roll in 45/256 degrees, track in 90/512, ground speed and  *)
(* true air speed in 2 kt, rate in 8/256 degrees per second.               *)
Bds50(mb) ==
    << SignedField(mb, 1, 2, 11), SignedField(mb, 12, 13, 23),
       StatusField(mb, 24, 25, 34), SignedField(mb, 35, 36, 45),
       StatusField(mb, 46, 47, 56) >>

IsBds50(mb) ==
    LET f == Bds50(mb)
    IN  /\ Register(f, <<199, 1024, 300, 512, 300>>)
        /\ f[3].v = NoValue \/ f[5].v = NoValue \/ (f[3].v - f[5].v) \in -100 .. 100

(* decodeBds60: heading in 90/512 degrees, air speed in kt, Mach in        *)
(* 2.048/512, two vertical rates in 32 ft/min.  agrees: the air speed is   *)
(* what the Mach number makes at the altitude of the reply, within 20 kt,  *)
(* or the altitude is not known.                                           *)
Bds60(mb) ==
    << SignedField(mb, 1, 2, 12), StatusField(mb, 13, 14, 23),
       StatusField(mb, 24, 25, 34), SignedField(mb, 35, 36, 45),
       SignedField(mb, 46, 47, 56) >>

IsBds60(mb, agrees) ==
    LET f == Bds60(mb)
    IN  /\ Register(f, <<1024, 500, 250, 187, 187>>)
        /\ agrees \/ f[2].v = NoValue \/ f[3].v = NoValue

(* decodeEhs                                                               *)
DecodeEhs(mb, agrees) ==
    IF \A i \in 0 .. 6 : mb[i] = 0 THEN {}
    ELSE {r \in EhsRegisters : \/ r = "4.0" /\ IsBds40(mb)
                               \/ r = "5.0" /\ IsBds50(mb)
                               \/ r = "6.0" /\ IsBds60(mb, agrees)}

(* decodeCommB: the register and, when none identifies itself, the         *)
(* candidates; a sole candidate is the register.                           *)
DecodeCommB(mb, agrees) ==
    LET els == InferCommBMessageType(mb)
        c   == IF els = NoRegister THEN DecodeEhs(mb, agrees) ELSE {}
    IN  [candidates |-> c,
         bds |-> IF els = NoRegister /\ Cardinality(c) = 1 THEN CHOOSE r \in c : TRUE ELSE els]

(* The package's ResolveCommB.  known: the 1,7 report of the aircraft, or  *)
(* NoReport.  ok50 and ok60: the register has a speed and a direction;     *)
(* closer50: its velocity is the nearer one to the known velocity.         *)
NoReport == {"no report"}

(* Mutant: speeds compared although a selected altitude is a candidate.    *)
ResolveCommBAnyway(candidates, known, hasVelocity, ok50, ok60, closer50) ==
    LET kept == IF known = NoReport THEN candidates ELSE candidates \cap known
    IN  CASE Cardinality(candidates) = 1 -> CHOOSE r \in candidates : TRUE
          [] Cardinality(candidates) > 1 /\ Cardinality(kept) = 1 -> CHOOSE r \in kept : TRUE
          [] Cardinality(kept) > 1 /\ hasVelocity /\ (ok50 \/ ok60) ->
                 IF ok50 /\ (~ok60 \/ closer50) THEN "5.0" ELSE "6.0"
          [] OTHER -> NoRegister

ResolveCommB(candidates, known, hasVelocity, ok50, ok60, closer50) ==
    LET kept == IF known = NoReport THEN candidates ELSE candidates \cap known
    IN  CASE Cardinality(candidates) = 1 -> CHOOSE r \in candidates : TRUE
          [] Cardinality(candidates) > 1 /\ Cardinality(kept) = 1 -> CHOOSE r \in kept : TRUE
          [] Cardinality(kept) > 1 /\ "4.0" \notin kept /\ hasVelocity /\ (ok50 \/ ok60) ->
                 IF ok50 /\ (~ok60 \/ closer50) THEN "5.0" ELSE "6.0"
          [] OTHER -> NoRegister

(* Frame.ResolveCommB: a register already settled stays.                   *)
FrameResolveCommB(frame, known, hasVelocity, ok50, ok60, closer50) ==
    IF frame.bds # NoRegister THEN frame.bds
    ELSE ResolveCommB(frame.candidates, known, hasVelocity, ok50, ok60, closer50)
=============================================================================
