------------------------------- MODULE Streams -------------------------------
(***************************************************************************)
(* How what arrives in pieces is understood: the frames of a feed, and the *)
(* replies of HAProxy.                                                     *)
(*                                                                         *)
(* How the bytes and lines of a feed become frames: the splitter of the    *)
(* beast stream (lib/producer/beast.go), the beast frame                   *)
(* (lib/tracker/beast/main.go), the AVR line (lib/tracker/mode_s/decode.go)*)
(* and the SBS1 line (lib/tracker/sbs1/parse.go).  A stream is a sequence  *)
(* of bytes; of a line only what the code looks at is kept.                *)
(***************************************************************************)
EXTENDS Integers, Sequences, FiniteSets, SequencesExt

(* ---------------------------------------------------------------- beast - *)

Esc == 26

tokenBufLen == 50

(* The length of a message by its type byte 0x31 .. 0x34.                  *)
MsgLen(type) == CASE type = 50 -> 16 [] type = 51 -> 23 [] OTHER -> 11

(* What a call of ScanBeast gives to the scanner: how far to advance and   *)
(* the message found, empty when there is none.                            *)
MoreData == [advance |-> 0, token |-> <<>>]
SkipTo(n) == [advance |-> n, token |-> <<>>]

(* Mutant: an escaped escape is copied as two bytes.                       *)
UnescapeNothing(data, i, len) ==
    [advance |-> i + len - 1, token |-> SubSeq(data, i, i + len - 1)]

(* The copying loop: at[k] is the place in the data of the k-th byte of    *)
(* the token, an escaped escape being passed over.                         *)
Unescape(data, i, len) ==
    LET at[k \in 1 .. len + 1] ==
            IF k = 1 THEN i
            ELSE LET p == at[k - 1]
                 IN  p + (IF data[p] = Esc /\ data[p + 1] = Esc THEN 2 ELSE 1)
    IN  [advance |-> at[len + 1] - 1, token |-> [k \in 1 .. len |-> data[at[k]]]]

(* ScanBeast: a message is only taken when 50 bytes follow its start.      *)
ScanBeast(data) ==
    LET starts == {k \in 1 .. Len(data) : data[k] = Esc}
        i == CHOOSE k \in starts : \A j \in starts : k <= j
    IN  IF starts = {} THEN MoreData
        ELSE IF Len(data) < i - 1 + 11 THEN MoreData
        ELSE CASE data[i + 1] = Esc           -> SkipTo(i + 1)
               [] data[i + 1] \notin 49 .. 52 /\ data[i + 1] # Esc -> SkipTo(i)
               [] data[i + 1] \in 49 .. 52    ->
                      IF Len(data) - i + 1 >= tokenBufLen
                      THEN Unescape(data, i, MsgLen(data[i + 1]))
                      ELSE MoreData

(* bufio.Scanner calls the splitter on what is left until it wants more:   *)
(* the messages of a stream, by the number of calls.                       *)
ScanAll(data, calls) ==
    LET st[n \in 0 .. calls] ==
            IF n = 0 THEN [rest |-> data, tokens |-> <<>>]
            ELSE LET last == st[n - 1]
                     r    == ScanBeast(last.rest)
                 IN  [rest   |-> SubSeq(last.rest, r.advance + 1, Len(last.rest)),
                      tokens |-> IF r.token = <<>> THEN last.tokens
                                 ELSE Append(last.tokens, r.token)]
    IN  st[calls].tokens

(* newFrameInto: what becomes of a message.                                *)
NewBeastFrame(raw) ==
    IF Len(raw) <= 8 THEN "bad beast frame"
    ELSE IF raw[1] # Esc \/ raw[2] \notin 49 .. 52 THEN "bad beast frame"
    ELSE CASE raw[2] = 49 -> "mode ac" [] raw[2] = 52 -> "config" [] OTHER -> "mode s"

(* The Mode S message of the frame: the bytes after the signal level.      *)
BeastBody(raw) == SubSeq(raw, 10, Len(raw))

(* isMlat: the magic time stamp FF 00 4D 4C 41 54.                         *)
IsMlat(raw) == SubSeq(raw, 3, 8) = <<255, 0, 77, 76, 65, 84>>

(* BeastTicksNs: units of 500 ns unless the receiver is a Radarcape.       *)
BeastTicks(raw, isRadarCape) ==
    LET t[k \in 2 .. 8] == IF k = 2 THEN 0 ELSE 256 * t[k - 1] + raw[k]
    IN  IF isRadarCape THEN t[8] ELSE 500 * t[8]

(* ------------------------------------------------------------------ AVR - *)

(* parseIntoRaw and parseRawToMessage on a trimmed line of len characters, *)
(* after its first character: "@" starts a line with a 12 digit time       *)
(* stamp, "*" one without, hex is the line being all hexadecimal digits.   *)
(* The result is the number of bytes of the message, 0 for an error.       *)
AvrBytes(first, len, hex) ==
    LET digits == CASE first = "@" -> len - 13 [] first = "*" -> len - 1 [] OTHER -> len
    IN  IF len < 14 \/ ~hex \/ digits \notin {14, 28} THEN 0 ELSE digits \div 2

(* ----------------------------------------------------------------- SBS1 - *)

(* The fields a message of each kind reads, by number; kinds are the       *)
(* transmission types 1 .. 8 of "MSG", and "SEL", "ID" as 0, "AIR", "STA"  *)
(* and "CLK" as 9.                                                         *)
SbsReads(kind) ==
    CASE kind \in {0, 1} -> {10}
      [] kind = 2 -> {11, 12, 13, 14, 15, 21}
      [] kind = 3 -> {11, 14, 15, 18, 19, 20, 21}
      [] kind = 4 -> {12, 13, 16}
      [] kind = 5 -> {10, 11, 18, 20, 21}
      [] kind = 6 -> {10, 11, 17, 18, 19, 20, 21}
      [] kind = 7 -> {11, 21}
      [] kind = 8 -> {21}
      [] OTHER    -> {}

(* Mutant: the field just past the last one taken for present.             *)
GetFieldPast(n, id) == IF n >= id THEN "field" ELSE ""

(* getField compares with >= where an index needs >: the field just past   *)
(* the last one panics, one further on is empty.                           *)
GetField(n, id) == IF n = id THEN "panic" ELSE IF n > id THEN "field" ELSE ""

(* Parse of a line with n fields whose address field is icao: the fields   *)
(* it found, or how it failed.  icao is "hex", "short" for less than the   *)
(* three bytes icaoStringToInt takes, "other" when not hexadecimal.        *)
SbsParse(n, kind, icao) ==
    LET head == {4, 6, 7}
        got  == {f \in SbsReads(kind) : GetField(n, f) = "field"}
    IN  IF n > 22 THEN [result |-> "error", fields |-> {}]
        ELSE IF GetField(n, 4) = "panic" THEN [result |-> "panic", fields |-> {}]
        ELSE IF n > 4 /\ icao = "short" THEN [result |-> "panic", fields |-> {}]
        ELSE IF n <= 4 \/ icao # "hex" THEN [result |-> "error", fields |-> {}]
        ELSE IF \E f \in head \cup SbsReads(kind) : GetField(n, f) = "panic"
             THEN [result |-> "panic", fields |-> {}]
        ELSE [result |-> "ok", fields |-> got]

-----------------------------------------------------------------------------
(***************************************************************************)
(* lib/haproxy: how the replies of HAProxy's runtime API are understood.   *)
(* A reply is a sequence of trimmed lines, of which only what the regular  *)
(* expressions tell apart is kept: [kind, key, num], with the kinds blank, *)
(* comment (any other line that starts with #), header (of a table), row   *)
(* (of the table, map or list asked for) and junk.  num is the number the  *)
(* line carries: a header's used count, a map's value, 0 or 1 for found,   *)
(* and for a row of a table the sequence of its counters.                  *)
(***************************************************************************)

Bad == [ok |-> FALSE]
Good(out) == [ok |-> TRUE, out |-> out]

(* The program ends: an index outside a slice.                             *)
Panic == [ok |-> FALSE, panic |-> TRUE]

Kinds(lines) == {lines[i].kind : i \in DOMAIN lines}

RowsOf(lines) == SelectSeq(lines, LAMBDA l : l.kind = "row")

(* exec and splitUntilPrompt: everything up to the prompt; when the        *)
(* connection ends before it, whatever bytes have arrived count as the     *)
(* reply: some whole lines and part, the beginning of the next one or <<>>. *)
Received(lines, arrived, part, prompt) ==
    LET got == SubSeq(lines, 1, arrived) \o part
    IN  IF prompt THEN Good(lines) ELSE IF got = <<>> THEN Bad ELSE Good(got)

(* What stands for a counter that was cut off in its name, so that there   *)
(* is no = in it, and right after the =.                                   *)
InItsName == -2
NoDigits == -1

(* A number without its last digits.                                       *)
Shortened(n) == {n \div 10 ^ d : d \in 1 .. 3} \ {0}

(* The beginnings of a row's counters: whole ones, and maybe part of one.  *)
CutCounters(counters) ==
    LET before(k) == SubSeq(counters, 1, k - 1)
    IN  {before(k) : k \in 2 .. Len(counters)} \cup
        UNION {{Append(before(k), n) : n \in {InItsName, NoDigits} \cup Shortened(counters[k])} :
               k \in 1 .. Len(counters)}

(* The beginnings of a line of the reply to show table, as far as the      *)
(* expressions tell them apart; a blank line is followed by the prompt.    *)
CutsOf(line) ==
    {[line EXCEPT !.kind = "junk"]} \cup
    CASE line.kind = "header" -> {[line EXCEPT !.num = n] : n \in Shortened(line.num)}
      [] line.kind = "row"    -> {[line EXCEPT !.num = c] : c \in CutCounters(line.num)}
      [] OTHER                -> {[line EXCEPT !.kind = "blank"]}

(* AddMap, SetMap, DelMap, ShutdownSession: silence is success.            *)
Silent(lines) == Kinds(lines) \subseteq {"blank", "comment"}

(* SetTable, ClearTableEntry: not even a comment.                          *)
Empty(lines) == Kinds(lines) \subseteq {"blank"}

(* The entries of a map or table by key, the last of a key counts.         *)
LastOf(rows) ==
    [k \in {rows[i].key : i \in DOMAIN rows} |->
        LET at == {i \in DOMAIN rows : rows[i].key = k}
        IN  rows[CHOOSE i \in at : \A j \in at : j <= i].num]

(* ShowMaps, ShowTables: a line that is not understood spoils the reply.   *)
ShowMaps(lines) ==
    IF Kinds(lines) \subseteq {"blank", "comment", "row"} THEN Good(LastOf(RowsOf(lines))) ELSE Bad

ShowTables(lines) ==
    IF Kinds(lines) \subseteq {"blank", "header"}
    THEN Good({l \in Range(lines) : l.kind = "header"}) ELSE Bad

(* ShowMap: asks for the maps first.                                       *)
ShowMap(maps, name, lines) ==
    LET known == ShowMaps(maps)
    IN  IF ~known.ok THEN Bad
        ELSE IF name \notin DOMAIN known.out THEN Bad ELSE ShowMaps(lines)

(* GetMap: lines that say found=yes; any other line is passed over.        *)
GetMap(lines) == {l \in Range(lines) : l.kind = "row" /\ l.num = 1}

(* Mutant: the number of rows is not compared with the header.             *)
ShowTableUncounted(lines) ==
    IF lines # <<>> /\ lines[1].kind \notin {"blank", "header"} THEN Bad
    ELSE IF Kinds(Tail(lines)) \subseteq {"blank", "row"} THEN Good(LastOf(RowsOf(lines))) ELSE Bad

(* A line after the first is blank or a row whose counters are all numbers. *)
Understood(line) ==
    \/ line.kind = "blank"
    \/ line.kind = "row" /\ \A k \in DOMAIN line.num : line.num[k] >= 0

(* ShowTable: the first line is the header, unless it is blank; every      *)
(* further line is a row, and there are as many as the header says.  The   *)
(* first line that is not understood is an error, or a panic when one of   *)
(* its counters has no =.                                                  *)
ShowTable(lines) ==
    LET wrong == {i \in 2 .. Len(lines) : ~Understood(lines[i])}
        first == CHOOSE i \in wrong : \A j \in wrong : i <= j
    IN  IF lines = <<>> THEN Good(LastOf(<<>>))
        ELSE IF lines[1].kind \notin {"blank", "header"} THEN Bad
        ELSE IF wrong # {}
        THEN IF lines[first].kind = "row" /\ InItsName \in Range(lines[first].num) THEN Panic ELSE Bad
        ELSE IF Len(RowsOf(lines)) # (IF lines[1].kind = "header" THEN lines[1].num ELSE 0) THEN Bad
        ELSE Good(LastOf(RowsOf(lines)))

(* ---------------------------------------------------------------- an age *)

(* Characters are 0 to 9 for the digits and 10 to 15 for d, h, m, s, space *)
(* and any other.                                                          *)
UnitSeconds == [c \in 10 .. 13 |-> <<86400, 3600, 60, 1>>[c - 9]]

AgeError == [err |-> TRUE, total |-> 0, num |-> 0, open |-> FALSE]

(* One turn of the loop of parseHAProxyAge: open says that the digits of a *)
(* number are being read.                                                  *)
AgeStep(st, c) ==
    IF st.err THEN st
    ELSE IF c \in 0 .. 9
    THEN [st EXCEPT !.num = (IF st.open THEN 10 * st.num ELSE 0) + c, !.open = TRUE]
    ELSE IF st.open
    THEN IF c \in DOMAIN UnitSeconds
         THEN [st EXCEPT !.total = @ + st.num * UnitSeconds[c], !.open = FALSE]
         ELSE AgeError
    ELSE IF c = 14 THEN st ELSE AgeError

(* Mutant: a unit may be missing at the end.                               *)
parseHAProxyAgeLax(s) ==
    IF s = <<>> THEN AgeError
    ELSE FoldLeft(AgeStep, [AgeError EXCEPT !.err = FALSE], s)

parseHAProxyAge(s) ==
    LET end == FoldLeft(AgeStep, [AgeError EXCEPT !.err = FALSE], s)
    IN  IF s = <<>> \/ end.open THEN AgeError ELSE end

(* ShowSess, ShowInfo: lines with an id or a name; the age or uptime of    *)
(* each must be one (here: all have the same).                             *)
ShowSess(lines, age, infoOk) ==
    IF infoOk /\ Kinds(lines) \subseteq {"blank", "row"} /\ (RowsOf(lines) # <<>> => ~parseHAProxyAge(age).err)
    THEN Good(RowsOf(lines)) ELSE Bad

ShowInfo(lines, uptime) ==
    IF Kinds(lines) \subseteq {"blank", "row"} /\ (RowsOf(lines) # <<>> => ~parseHAProxyAge(uptime).err)
    THEN Good(LastOf(RowsOf(lines))) ELSE Bad
=============================================================================
