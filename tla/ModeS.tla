-------------------------------- MODULE ModeS --------------------------------
(***************************************************************************)
(* lib/tracker/mode_s: the Mode S frame.  Reading bits, the downlink       *)
(* format and the length it asks for, the parity check and the rules by    *)
(* which a frame whose address is overlaid with the parity is trusted, and *)
(* the fields of the surveillance replies.  A message is a function from   *)
(* byte number (from 0) to byte.                                           *)
(***************************************************************************)
EXTENDS Integers, Sequences, FiniteSets

(* What stands for a value that is not there.                              *)
NoValue == -9999

(* ------------------------------------------------------------- bits.go - *)

(* (b & mask) >> shift for a mask of width bits.                           *)
Sel(b, shift, width) == (b \div 2 ^ shift) % 2 ^ width

(* A shift whose result is a Go byte: what leaves the byte is lost.        *)
Byte(n) == n % 256

BitAt(msg, b) == Sel(msg[(b - 1) \div 8], 7 - ((b - 1) % 8), 1)

(* bitsAt: bits first .. last, bit 1 the highest of the first byte.        *)
BitsAt(msg, first, last) ==
    LET v[b \in (first - 1) .. last] ==
            IF b < first THEN 0 ELSE 2 * v[b - 1] + BitAt(msg, b)
    IN  v[last]

(* Mutant: the sign bit read as one more bit of the value.                 *)
SignedBitsAtUnsigned(msg, signBit, last) == BitsAt(msg, signBit, last)

SignedBitsAt(msg, signBit, last) ==
    BitsAt(msg, signBit + 1, last)
        - (IF BitAt(msg, signBit) = 1 THEN 2 ^ (last - signBit) ELSE 0)

(* field and signedField: a value with a status bit.  A register whose     *)
(* status is clear while its value is not zero is ruled out: ok is FALSE.  *)
StatusField(mb, status, first, last) ==
    LET raw == BitsAt(mb, first, last)
    IN  IF BitAt(mb, status) = 0 THEN [v |-> NoValue, ok |-> raw = 0]
                                 ELSE [v |-> raw, ok |-> TRUE]

SignedField(mb, status, first, last) ==
    IF BitAt(mb, status) = 0
    THEN [v |-> NoValue, ok |-> BitsAt(mb, first, last) = 0]
    ELSE [v |-> SignedBitsAt(mb, first, last), ok |-> TRUE]

(* --------------------------------------------------------- decode frame - *)

ShortBytes == 7
LongBytes == 14

DownLinkFormat(msg) == IF Sel(msg[0], 6, 2) = 3 THEN 24 ELSE msg[0] \div 8

(* getMessageLengthBytes: formats with bit 0x10 set are long.              *)
MessageLengthBytes(df) == IF Sel(df, 4, 1) = 1 THEN LongBytes ELSE ShortBytes

(* What checkCrc makes of a frame: "ok" or the error it returns.  clean:   *)
(* the parity of a DF11, 17 or 18 is zero.  icao is what the parity of the *)
(* other formats leaves; known and counted are the addresses the tracker   *)
(* has a plane for, and a plane with frameCountThreshold messages.         *)
CheckCrc(df, um, clean, icao, known, counted) ==
    CASE df \in {11, 17, 18} -> IF clean THEN "ok" ELSE "invalid checksum"
      [] df \in {0, 16}      -> IF icao \in counted THEN "ok" ELSE "insufficient frame count"
      [] df \in {4, 5}       -> IF um = 0
                                THEN IF icao \in known THEN "ok" ELSE "not previously seen"
                                ELSE IF icao \in counted THEN "ok" ELSE "unable to determine"
      [] df \in {20, 21, 24} -> IF icao \in known THEN "ok" ELSE "not previously seen"
      [] OTHER               -> "unknown format"

(* Formats whose address is sent in clear; the others leave it to the      *)
(* parity, and every format decodeICAO does not name is refused.           *)
ClearAddress == {11, 17, 18}
ParityAddress == {0, 4, 5, 16, 20, 21}

(* The raw fields of the header, by the name describe.go gives them.       *)
HeaderFields(msg) ==
    [DF |-> msg[0] \div 8,
     CA |-> Sel(msg[0], 0, 3),
     FS |-> Sel(msg[0], 0, 3),
     VS |-> Sel(msg[0], 2, 1),
     CC |-> Sel(msg[0], 1, 1),
     SL |-> Sel(msg[1], 5, 3),
     RI |-> Sel(msg[1], 0, 3) * 2 + Sel(msg[2], 7, 1),
     DR |-> Sel(msg[1], 3, 5),
     UM |-> Sel(msg[1], 0, 3) * 8 + Sel(msg[2], 5, 3),
     AC |-> Sel(msg[2], 0, 5) * 256 + msg[3],
     ID |-> Sel(msg[2], 0, 5) * 256 + msg[3],
     AA |-> (msg[1] * 256 + msg[2]) * 256 + msg[3]]

(* Mutant: the alert on the ground forgotten.                              *)
DecodeFlightStatusAirborne(fs) ==
    [ground |-> IF fs \in {0, 2} THEN "air" ELSE IF fs \in {1, 3} THEN "ground" ELSE "unknown",
     alert  |-> fs \in {2, 4},
     err    |-> fs \in {6, 7}]

(* decodeFlightStatus: the vertical status and the alert bit, or an error. *)
DecodeFlightStatus(fs) ==
    [ground |-> IF fs \in {0, 2} THEN "air" ELSE IF fs \in {1, 3} THEN "ground" ELSE "unknown",
     alert  |-> fs \in {2, 3, 4},
     err    |-> fs \in {6, 7}]

(* decodeCapability: only values 4 and 5 say where the aircraft is.        *)
DecodeCapability(ca) == IF ca = 4 THEN "ground" ELSE IF ca = 5 THEN "air" ELSE "unknown"

DecodeVerticalStatus(vs) == IF vs # 0 THEN "ground" ELSE "air"

DecodeReplyInformation(ri) == ri \in {1, 5, 6, 7, 15}      \* error

DecodeDownLinkRequest(dr) == dr \in 8 .. 14                \* error

(* parse: the error of a frame the parity check has accepted, joined from  *)
(* the decoders its format runs.                                           *)
ParseError(df, h) ==
    \/ df \in {0, 16} /\ DecodeReplyInformation(h.RI)
    \/ df \in {4, 5} /\ (DecodeFlightStatus(h.FS).err \/ DecodeDownLinkRequest(h.DR))
    \/ df \in {20, 21} /\ DecodeFlightStatus(h.FS).err

(* ------------------------------------------------- altitude and squawk - *)

(* decodeID13Field and the identity field: the pulses of a 13-bit code, in *)
(* the order of the message; X is the bit left out.                        *)
PulseOrder == <<"C1", "A1", "C2", "A2", "C4", "A4", "X", "B1", "D1", "B2", "D2", "B4", "D4">>

Pulses(code) == {PulseOrder[i] : i \in {k \in 1 .. 13 : Sel(code, 13 - k, 1) = 1}} \ {"X"}

(* The exclusive or of 2^n - 1 masks, one per pulse received, is a Gray    *)
(* code read from the pulse of the widest mask down.                       *)
Gray(order, pulses) ==
    LET n == Len(order)
        v[k \in 0 .. n] ==
            IF k = 0 THEN 0
            ELSE 2 * v[k - 1] + (Cardinality({i \in 1 .. k : order[i] \in pulses}) % 2)
    IN  v[n]

(* Mutant: odd multiples of 500 ft count the hundreds upwards too.         *)
ModeAToModeCUpwards(pulses) ==
    LET c    == Gray(<<"C1", "C2", "C4">>, pulses)
        ones == IF c = 5 THEN 7 ELSE IF c = 7 THEN 5 ELSE c
    IN  IF "D1" \in pulses \/ pulses \cap {"C1", "C2", "C4"} = {} \/ ones > 5
        THEN NoValue
        ELSE 5 * Gray(<<"D2", "D4", "A1", "A2", "A4", "B1", "B2", "B4">>, pulses) + ones - 13

(* modeAToModeC: hundreds of feet, or NoValue for the -9999 of the code.   *)
ModeAToModeC(pulses) ==
    LET c     == Gray(<<"C1", "C2", "C4">>, pulses)
        ones  == IF c = 5 THEN 7 ELSE IF c = 7 THEN 5 ELSE c
        fives == Gray(<<"D2", "D4", "A1", "A2", "A4", "B1", "B2", "B4">>, pulses)
    IN  IF "D1" \in pulses \/ pulses \cap {"C1", "C2", "C4"} = {} \/ ones > 5
        THEN NoValue
        ELSE 5 * fives + (IF fives % 2 = 1 THEN 6 - ones ELSE ones) - 13

(* decodeAC13: feet, or NoValue for metres and for an invalid code.        *)
DecodeAC13(ac) ==
    IF Sel(ac, 6, 1) = 1 THEN NoValue
    ELSE IF Sel(ac, 4, 1) = 1
    THEN 25 * (Sel(ac, 7, 6) * 32 + Sel(ac, 5, 1) * 16 + Sel(ac, 0, 4)) - 1000
    ELSE LET n == ModeAToModeC(Pulses(ac))
         IN  IF n = NoValue THEN NoValue ELSE IF n < -12 THEN NoValue ELSE 100 * n

(* Mutant: the bits above the missing M bit are not moved up.              *)
DecodeAC12Unmoved(field) ==
    IF Sel(field, 4, 1) = 1
    THEN 25 * (Sel(field, 5, 7) * 16 + Sel(field, 0, 4)) - 1000
    ELSE LET n == ModeAToModeC(Pulses(field))
         IN  IF n = NoValue THEN 0 ELSE IF n < -12 THEN 0 ELSE 100 * n

(* decodeAC12Field: the code without the M bit; an invalid one gives 0.    *)
DecodeAC12(field) ==
    IF Sel(field, 4, 1) = 1
    THEN 25 * (Sel(field, 5, 7) * 16 + Sel(field, 0, 4)) - 1000
    ELSE LET n == ModeAToModeC(Pulses(Sel(field, 6, 6) * 128 + Sel(field, 0, 6)))
         IN  IF n = NoValue THEN 0 ELSE IF n < -12 THEN 0 ELSE 100 * n

(* Mutant: the pulses B and D, interleaved in the second byte, swapped.    *)
DecodeSquawkSwapped(b1, b2) ==
    LET a == Sel(b2, 7, 1) * 4 + Sel(b1, 1, 1) * 2 + Sel(b1, 3, 1)
        d == Sel(b2, 1, 1) * 4 + Sel(b2, 3, 1) * 2 + Sel(b2, 5, 1)
        c == Sel(b1, 0, 1) * 4 + Sel(b1, 2, 1) * 2 + Sel(b1, 4, 1)
        b == Sel(b2, 0, 1) * 4 + Sel(b2, 2, 1) * 2 + Sel(b2, 4, 1)
    IN  1000 * a + 100 * b + 10 * c + d

(* decodeSquawkIdentity: four octal digits written in decimal.  The check  *)
(* of the zero bit tests the number of the byte, not the byte, and never   *)
(* fails.                                                                  *)
DecodeSquawk(b1, b2) ==
    LET a == Sel(b2, 7, 1) * 4 + Sel(b1, 1, 1) * 2 + Sel(b1, 3, 1)
        b == Sel(b2, 1, 1) * 4 + Sel(b2, 3, 1) * 2 + Sel(b2, 5, 1)
        c == Sel(b1, 0, 1) * 4 + Sel(b1, 2, 1) * 2 + Sel(b1, 4, 1)
        d == Sel(b2, 0, 1) * 4 + Sel(b2, 2, 1) * 2 + Sel(b2, 4, 1)
    IN  1000 * a + 100 * b + 10 * c + d

(* ---------------------------------------------------------------- crc.go - *)

(* Words as sets of the numbers of their bits, so that exclusive or is the *)
(* symmetric difference.                                                   *)
Xor(x, y) == (x \ y) \cup (y \ x)
Shl(x, n) == {b + n : b \in x}
Low(x, n) == {b \in x : b < n}

(* modesGeneratorPoly, 0xfff409.                                           *)
Poly == {0, 3, 10} \cup 12 .. 23

(* Mutant: the table is folded seven times instead of eight.               *)
ChecksumTableSeven ==
    [i \in SUBSET (0 .. 7) |->
        LET c[j \in 0 .. 7] ==
                IF j = 0 THEN Shl(i, 16)
                ELSE LET last == c[j - 1]
                     IN  IF 23 \in last THEN Xor(Shl(last, 1), Poly) ELSE Shl(last, 1)
        IN  Low(c[7], 24)]

(* init: the checksum of one byte.                                         *)
ChecksumTable ==
    [i \in SUBSET (0 .. 7) |->
        LET c[j \in 0 .. 8] ==
                IF j = 0 THEN Shl(i, 16)
                ELSE LET last == c[j - 1]
                     IN  IF 23 \in last THEN Xor(Shl(last, 1), Poly) ELSE Shl(last, 1)
        IN  Low(c[8], 24)]

(* calculateCRC over a message given as a set of bit numbers from 1, in    *)
(* the order of bitsAt.                                                    *)
MsgByte(bits, i) == {7 - (b - 8 * i - 1) : b \in bits \cap (8 * i + 1) .. (8 * i + 8)}

CalculateCRC(bits, length) ==
    LET crc[i \in 0 .. length] ==
            IF i = 0 THEN {}
            ELSE LET last  == crc[i - 1]
                     index == Xor(MsgByte(bits, i - 1), {b - 16 : b \in {x \in last : x >= 16}})
                 IN  Low(Xor(Shl(last, 8), ChecksumTable[index]), 24)
    IN  crc[length]

(* The last three bytes: the parity, or the parity overlaid with an        *)
(* address.                                                                *)
ParityField(bits, length) == {8 * length - b : b \in bits \cap (8 * length - 23) .. 8 * length}

(* Mutant: the parity is computed over one byte too few.                   *)
DecodeChecksumShort(bits, length) == Xor(CalculateCRC(bits, length - 4), ParityField(bits, length))

(* decodeModeSChecksum, decodeModeSChecksumAddr and validateAPField all    *)
(* return what the parity leaves: nothing for a clean DF11, 17 or 18, the  *)
(* address for the others.                                                 *)
DecodeChecksum(bits, length) == Xor(CalculateCRC(bits, length - 3), ParityField(bits, length))

(* ------------------------------------------------------------- callsign - *)

(* decodeFlightNumber: eight six-bit characters, aisCharset being the      *)
(* identity on 32 .. 63 and 64 less than ASCII below.                      *)
FlightCodes(b) == [k \in 1 .. 8 |-> BitsAt(b, 6 * k - 5, 6 * k)]

AisValid(c) == c \in 1 .. 26 \/ c \in 45 .. 57 \/ c = 32 \/ c = 0

DecodeFlightNumber(b) ==
    LET codes == FlightCodes(b)
    IN  IF \/ \E k \in 1 .. 8 : ~AisValid(codes[k])
           \/ \E c \in {0, 32, 45} : \A k \in 1 .. 8 : codes[k] = c
        THEN <<>>
        ELSE codes
=============================================================================
