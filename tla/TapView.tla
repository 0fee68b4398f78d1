------------------------------- MODULE TapView -------------------------------
(***************************************************************************)
(* cmd/ingest_tap: the terminal view over the taps.  Six taps behind the   *)
(* ingest (four NATS queues, two web sockets of lib/ws_protocol) and the   *)
(* tap of the incoming frames call back into the model from goroutines of  *)
(* their own, while the loop of the user interface handles keys, window    *)
(* sizes and the tick that redraws the tables; each source has a mutex of  *)
(* its own, taken and left for every single value of a row.                *)
(*                                                                         *)
(* An aircraft is a number, its address.  The cursor belongs to the table  *)
(* widget, which is not in the repository: Select takes any row.           *)
(***************************************************************************)
EXTENDS Integers, Sequences, FiniteSets, SequencesExt

CONSTANTS Addresses,      \* aircraft, numbers greater than 0
          Tags,           \* feeders
          Filters,        \* [icao, feeder] of the command line, some of them
          Busy,           \* the sources that get updates, of 1 .. 6
          Heights,        \* window heights
          MaxUpdates      \* bound on the messages of all taps

\* planesSource without planesSourceIncoming
Ingest == 1
WSLow == 5
WSHigh == 6
DataSources == Ingest .. WSHigh
WebSockets == {WSLow, WSHigh}

NoIcao == 0                 \* the empty string as address or filter
AnyTag == "any"

ASSUME ViewAssumption ==
    /\ Addresses \subseteq Nat \ {0} /\ IsFiniteSet(Addresses)
    /\ Heights \subseteq Nat

VARIABLES phase,          \* "connect", "taps", "run", "failed", "panic", "quit"
          opened,         \* taps opened so far
          filter,         \* of Filters
          info,           \* per source: sourceInfo
          incoming,       \* handleIncomingData: counts by type and by aircraft
          shown,          \* model.source, rows of planesTable, the selection
          draw,           \* what the tick is doing
          rows,           \* per source: the selected aircraft's row
          screen,         \* the heights of the window, planesTable and logView
          spinning,       \* web sockets whose reader loops on a read error
          updates

viewVars == <<phase, opened, filter, info, incoming, shown, draw, rows, screen, spinning, updates>>

Empty == [count |-> 0, planes |-> {}, frames |-> [a \in Addresses |-> 0], icaos |-> <<>>]
BlankRow == [position |-> FALSE, count |-> 0]
AtRest == [at |-> "idle", source |-> 0]

(* buildTables: no aircraft listed or selected.                            *)
BuildTables == [source |-> WSLow, list |-> <<>>, selected |-> NoIcao]

(* initialModel                                                            *)
ViewInit ==
    /\ phase = "connect" /\ opened = 0
    /\ filter \in Filters
    /\ info = [s \in DataSources |-> Empty]
    /\ incoming = [feeders |-> {}, icaos |-> [a \in {NoIcao} \cup Addresses |-> 0], beast |-> 0, avr |-> 0, sbs1 |-> 0]
    /\ shown = BuildTables
    /\ draw = AtRest /\ rows = [s \in DataSources |-> BlankRow]
    /\ screen = [height |-> 0, planes |-> 10, log |-> 0]
    /\ spinning = {} /\ updates = 0

(* PlaneWatchTapper.Connect: NATS and both web sockets, or the end without *)
(* Disconnect.                                                             *)
ConnectTapper ==
    /\ phase = "connect" /\ phase' \in {"taps", "failed"}
    /\ UNCHANGED <<opened, filter, info, incoming, shown, draw, rows, screen, spinning, updates>>

(* runTui opens one tap after the other and returns at the first error;    *)
(* those opened before call back already.                                  *)
OpenTap ==
    /\ phase = "taps"
    /\ \/ opened < WSHigh /\ opened' = opened + 1 /\ UNCHANGED phase
       \/ opened < WSHigh /\ phase' = "quit" /\ UNCHANGED opened
       \/ opened = WSHigh /\ phase' = "run" /\ UNCHANGED opened
    /\ UNCHANGED <<filter, info, incoming, shown, draw, rows, screen, spinning, updates>>

Calling(s) == phase \in {"taps", "run"} /\ s <= opened /\ s \notin spinning /\ updates < MaxUpdates

(* Mutant: only the feeder of the filter is looked at.                     *)
WantedFromAll(s, loc) ==
    filter.feeder # AnyTag => filter.feeder \in (IF s \in WebSockets THEN loc.tags ELSE {loc.tag})

(* The filters of natsTap (one tag) and of maybeSend (the merged tags).    *)
Wanted(s, loc) ==
    /\ filter.icao # NoIcao => filter.icao = loc.icao
    /\ filter.feeder # AnyTag => filter.feeder \in (IF s \in WebSockets THEN loc.tags ELSE {loc.tag})

Locations == {l \in [icao : Addresses, tag : Tags, tags : SUBSET Tags] : l.tag \in l.tags}

(* sort.Strings: the entries of a list from the least to the greatest.     *)
Orders(p, list) ==
    /\ \A m \in DOMAIN list : \E n \in DOMAIN list : p[n] = m
    /\ \A m, n \in DOMAIN list : m < n => list[p[m]] <= list[p[n]]

Ascending(list) ==
    LET order == CHOOSE p \in [DOMAIN list -> DOMAIN list] : Orders(p, list)
    IN  [n \in DOMAIN list |-> list[order[n]]]

(* Mutant: the aircraft is listed at every update.                         *)
UpdatedListed(i, icao) ==
    [count |-> i.count + 1, planes |-> i.planes \cup {icao},
     frames |-> [i.frames EXCEPT ![icao] = @ + 1],
     icaos |-> Ascending(Append(i.icaos, icao))]

(* sourceInfo.update                                                       *)
Updated(i, icao) ==
    [count |-> i.count + 1, planes |-> i.planes \cup {icao},
     frames |-> [i.frames EXCEPT ![icao] = @ + 1],
     icaos |-> IF i.frames[icao] = 0 THEN Ascending(Append(i.icaos, icao)) ELSE i.icaos]

(* A message of a tap: natsTap's goroutine, or WsClient.reader and the     *)
(* handlers of wsHandler; what does not decode is skipped.                 *)
TapMessage(s) ==
    /\ Calling(s) /\ updates' = updates + 1
    /\ \E loc \in Locations :
           info' = IF Wanted(s, loc) THEN [info EXCEPT ![s] = Updated(@, loc.icao)] ELSE info
    /\ UNCHANGED <<phase, opened, filter, incoming, shown, draw, rows, screen, spinning>>

(* WsClient.reader after the end of its connection: Read fails at once,    *)
(* its message type is not text, and the loop goes on for ever.            *)
ReaderSpins(s) ==
    /\ s \in WebSockets /\ Calling(s) /\ spinning' = spinning \cup {s}
    /\ UNCHANGED <<phase, opened, filter, info, incoming, shown, draw, rows, screen, updates>>

(* handleIncomingData.  An AVR frame is counted when it does not decode    *)
(* (nil == err returns), by the address that was read before the error.    *)
Outcomes(type) == IF type = "sbs1" THEN {TRUE} ELSE BOOLEAN

Counted(type, decodes) == IF type = "avr" THEN ~decodes ELSE decodes

IncomingFrame ==
    /\ phase \in {"taps", "run"} /\ updates < MaxUpdates /\ updates' = updates + 1
    /\ \E type \in {"beast", "avr", "sbs1"}, tag \in Tags, icao \in {NoIcao} \cup Addresses :
       \E decodes \in Outcomes(type) :
           LET heard == [incoming EXCEPT !.feeders = @ \cup {tag}]
           IN  incoming' = IF Counted(type, decodes)
                           THEN [heard EXCEPT !.icaos[icao] = @ + 1, ![type] = @ + 1] ELSE heard
    /\ UNCHANGED <<phase, opened, filter, info, shown, draw, rows, screen, spinning>>

(* ------------------------------------------------ the loop of the program *)

AtLoop == phase = "run" /\ draw.at = "idle"
UnchangedData == UNCHANGED <<opened, filter, info, incoming, spinning, updates>>

(* Update, "Source": through the data sources, past the incoming frames.   *)
KeySource ==
    /\ AtLoop
    /\ shown' = [shown EXCEPT !.source = IF @ = WSHigh THEN Ingest ELSE @ + 1]
    /\ UNCHANGED <<phase, draw, rows, screen>> /\ UnchangedData

(* "Select": the row under the cursor, of the list as it was last drawn;   *)
(* there is none in an empty table, and its first column is read anyway.   *)
KeySelect ==
    /\ AtLoop
    /\ IF shown.list = <<>> THEN phase' = "panic" /\ UNCHANGED shown
       ELSE /\ \E a \in Range(shown.list) : shown' = [shown EXCEPT !.selected = a]
            /\ UNCHANGED phase
    /\ UNCHANGED <<draw, rows, screen>> /\ UnchangedData

KeyQuit ==
    /\ AtLoop /\ phase' = "quit"
    /\ UNCHANGED <<shown, draw, rows, screen>> /\ UnchangedData

(* handleWindowSizing, with headings three lines high.  min(0, n) leaves   *)
(* nothing of a table that does not fit whole.                             *)
HeadingHeight == 3
StatsHeight == 3
SelectedHeight == 9

FitsOrNothing(wanted, top, height) ==
    IF wanted + top <= height THEN wanted ELSE IF height - top < 0 THEN height - top ELSE 0

(* Mutant: the log view starts where the list of aircraft starts.          *)
SizedOver(height) ==
    LET top == StatsHeight + SelectedHeight
        planes == FitsOrNothing(20, top + 3 * HeadingHeight, height)
    IN  [height |-> height, planes |-> planes,
         log |-> FitsOrNothing(15, top + 4 * HeadingHeight, height)]

Sized(height) ==
    LET top == StatsHeight + SelectedHeight
        planes == FitsOrNothing(20, top + 3 * HeadingHeight, height)
    IN  [height |-> height, planes |-> planes,
         log |-> FitsOrNothing(15, top + planes + 4 * HeadingHeight, height)]

Resize ==
    /\ AtLoop /\ \E h \in Heights : screen' = Sized(h)
    /\ UNCHANGED <<phase, shown, draw, rows>> /\ UnchangedData

(* timerTick: updateIncomingStats and updateAircraftTable draw the source  *)
(* that is shown, under its mutex;                                         *)
DrawList ==
    /\ AtLoop
    /\ shown' = [shown EXCEPT !.list = info[shown.source].icaos]
    /\ IF shown.selected = NoIcao
       THEN rows' = [s \in DataSources |-> BlankRow] /\ UNCHANGED draw
       ELSE draw' = [at |-> "first", source |-> Ingest] /\ UNCHANGED rows
    /\ UNCHANGED <<phase, screen>> /\ UnchangedData

Position(s) == rows' = [rows EXCEPT ![s] = [position |-> shown.selected \in info[s].planes, count |-> 0]]
Count(s) == rows' = [rows EXCEPT ![s].count = info[s].frames[shown.selected]]

RowDone == draw' = IF draw.source = WSHigh THEN AtRest ELSE [at |-> "first", source |-> draw.source + 1]

(* Mutant: the number of updates is read before the position.              *)
DrawRowCountFirst ==
    /\ phase = "run" /\ LET s == draw.source IN
       \/ /\ draw.at = "first" /\ draw' = [draw EXCEPT !.at = "second"]
          /\ rows' = [rows EXCEPT ![s] = [position |-> FALSE, count |-> info[s].frames[shown.selected]]]
       \/ /\ draw.at = "second" /\ RowDone
          /\ rows' = [rows EXCEPT ![s].position = shown.selected \in info[s].planes]
    /\ UNCHANGED <<phase, shown, screen>> /\ UnchangedData

(* updateSelectedAircraftTable: a row per source; selectedTableRow takes   *)
(* the mutex for the position (getLoc) and again for the number of         *)
(* updates (numFramesFor).                                                 *)
DrawRow ==
    /\ phase = "run" /\ LET s == draw.source IN
       \/ draw.at = "first" /\ Position(s) /\ draw' = [draw EXCEPT !.at = "second"]
       \/ draw.at = "second" /\ Count(s) /\ RowDone
    /\ UNCHANGED <<phase, shown, screen>> /\ UnchangedData

ViewNext ==
    \/ ConnectTapper \/ OpenTap \/ IncomingFrame
    \/ \E s \in Busy : TapMessage(s)
    \/ \E s \in Busy : ReaderSpins(s)
    \/ KeySource \/ KeySelect \/ KeyQuit \/ Resize \/ DrawList \/ DrawRow

(* ------------------------------------------------------------ properties *)

TotalOf(f) == FoldFunction(+, 0, f)

(* The books of the callbacks agree whatever order they come in: a source  *)
(* lists every aircraft it heard of once and in order, holds a position    *)
(* for exactly those, and its frames add up to the total; the incoming     *)
(* frames by type add up to the frames by aircraft.                        *)
Tally ==
    /\ \A s \in DataSources :
           LET i == info[s]
           IN  /\ \A n \in 1 .. Len(i.icaos) - 1 : i.icaos[n] < i.icaos[n + 1]
               /\ Range(i.icaos) = i.planes
               /\ i.planes = {a \in Addresses : i.frames[a] > 0}
               /\ TotalOf(i.frames) = i.count
    /\ TotalOf(incoming.icaos) = incoming.beast + incoming.avr + incoming.sbs1

(* With an address on the command line no other aircraft gets into the     *)
(* list of any source, on the screen or into the selection, whichever      *)
(* source was shown when the list was drawn and when the key was pressed.  *)
OnlyAsked ==
    filter.icao # NoIcao =>
        /\ \A s \in DataSources : info[s].planes \subseteq {filter.icao}
        /\ Range(shown.list) \subseteq {filter.icao}
        /\ shown.selected \in {NoIcao, filter.icao}

(* A row that shows a position shows at least one update, although updates *)
(* arrive between the two reads of the row.                                *)
PositionCounted ==
    \A s \in DataSources :
        rows[s].position /\ draw # [at |-> "second", source |-> s] => rows[s].count > 0

(* The log is on the screen only where it fits below the tables as they    *)
(* are then sized.                                                         *)
LogsFit ==
    screen.log > 0 =>
        StatsHeight + SelectedHeight + screen.planes + 4 * HeadingHeight + screen.log <= screen.height
=============================================================================
