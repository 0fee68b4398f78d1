# A TLA+ verification project for pw-pipeline

pw-pipeline is the back end of plane.watch. Receivers ("feeders") send raw
Mode S, BEAST, AVR or SBS-1 data; the pipeline authenticates them, decodes and
tracks aircraft, routes the resulting locations and pushes them to browsers.
This directory models the program's own logic, checks it with TLC on small
instances and proves the central invariants with TLAPS for every value of the
constants. Paths below are relative to `src/`.

Run a model with `tlc -config <Run>.cfg <MC module>`, check proofs with
`tlapm <Module>Proofs.tla`. `PROJECT.json` holds the list of runs, the source
lines behind each definition, mutants for the properties, the hazards and the
findings.

## 1. Inventory

    feeder --> HAProxy (maps kept by pw_haproxy_api) --TLS-->
               runway / stunnel --> feederauth (who may connect) --> mlatbridge
                        |                    ^
                        v                    | feeder list, last seen
      producer --> tracker (decode workers,  |
                   dedupe, tap, accounting, -+--> pw_atc_api (database)
                   planes) --> sink                    ^
                                 |                     | searches
                                NATS                   |
                                 |                     |
       ClickHouse <-- pw_router (merge, significance)  |
                                 |  low / high feeds, tiles
                                 v                     |
                            pw_ws_broker --------------+--> web socket clients
                                                            (ingest_tap)

| Component | State it keeps | What is hard | What makes it correct |
|---|---|---|---|
| `cmd/pw_router` | cache of samples by ICAO, a mutex per ICAO, gauges, ClickHouse batches | workers on one aircraft; the sweeper takes no ICAO lock; full channels on shutdown | no merged field lost or made older, each aircraft announced, shutdown ends |
| `lib/export` | none (a record) | timestamps per field, angles | the newest value of each field wins; off-course positions rejected |
| `lib/feederauth`, `lib/icaoregion`, `lib/timing` | feeder list, connected flags, connection times under three RW mutexes; caches of regions | check and mark are separate critical sections; lock order; caches beside a refreshed list | one served connection per counter, flags do not leak, attempts end, regions that belong together |
| `cmd/runway`, `lib/stunnel` | listeners, certificate, contexts, Prometheus counters | one listener fails, files change under a reload, a handshake crosses the shutdown | both doors or none, whole certificates, a signal ends the process |
| `lib/mlatbridge` | two copy loops and a ticker per feeder, a table of regions | short writes, deadlines, who closes what | no byte lost, the bridge of an expelled feeder ends, one server per region |
| `lib/producer`, `lib/tracker` (input), `lib/middleware`, `cmd/pw_ingest` | channels, pooled frames, dedupe list, tap list, counters, wait groups | ownership of pooled frames; two shutdown routines; unlocked lists and tickers | one owner per frame, nothing left behind, lists whole, shutdown ends |
| `lib/tracker` (plane, cpr, nav, frame-list, tracker) | per-aircraft record, CPR halves, history, navigation targets, last frames | two workers apply frames of one aircraft setter by setter and out of order | no phantom position, a history an aircraft can fly, changes announced, only corroborated targets |
| `lib/tracker/mode_s`, `beast`, `sbs1`, `lib/tile_grid` | tables, pools | bit arithmetic, tables written twice, floating-point edges | decoder, describer, encoder and reference agree on every input tried |
| `lib/dedupe`, `forgetfulmap` | maps, one pool of marbles, timers; a B-tree | pooled entries recycled while a reader holds them | a Load returns what was stored under its key; old entries go, young ones stay |
| `lib/sink` | send list, ticker | a plane changes while its record is put together | the bus has the last state of every aircraft |
| `lib/haproxy`, `cmd/pw_haproxy_api` | HAProxy's maps and sessions, map files, one socket | failing commands, restarts, truncated files and replies | valid feeders get in, others get out, the client recovers and closes |
| `cmd/pw_ws_broker`, `lib/nats_io` | global list, clients, subscriptions, batches; connections, channels | a client leaves while a worker sends to it; drops; a silent API | nothing unwanted, twice or missed in a batch; drops counted; searches answered |
| `cmd/pw_atc_api` | queues, a database | error paths without reply, several workers of one queue group | every request is answered (but one), last seen goes forward |
| `cmd/ingest_tap`, `lib/ws_protocol` | taps, tables of a terminal program | callbacks while it draws | books that add up, only what was asked for |

Components interact through NATS subjects, Go channels, process-wide pools and
the shared caches above.

## 2. Modules

| Module | Models | Run |
|---|---|---|
| `PlaneLocations` | `lib/export/types.go`, the significance test of `cmd/pw_router/worker.go` | Router_*, Decode |
| `Router` (`MCRouter`, `RouterProofs`) | `cmd/pw_router` and what it uses of `nats_io`, `clickhouse` and the forgetful map | Router_safety, Router_live |
| `FeederAuth` (`MCFeederAuth`, `FeederAuthProofs`) | `feederauth`, `stunnel.handleIncoming`, runway's customs, the ticker | FeederAuth, FeederAuth_refresh |
| `WsBroker` (`MCWsBroker`, `WsBrokerProofs`) | the list, the fan-out and the clients of `cmd/pw_ws_broker` | WsBroker_safety, WsBroker_live |
| `Ingest` (`MCIngest`, `IngestProofs`) | `producer`, `tracker` input, `dedupe`, `middleware`, the `beast` pool, `cmd/pw_ingest` | Ingest |
| `ForgetfulMap` (`MCForgetfulMap`, `WsBrokerProofs`) | `lib/dedupe/forgetfulmap/map.go` | ForgetfulMap |
| `Plane`, `Track` | `tracker.go`, `plane.go`, the life of CPR halves; `Track` is the abstract history it implements | Tracker |
| `Nav`, `LossyList` | `nav.go`, `frame-list.go` | Tracker |
| `TapView` | `cmd/ingest_tap` (model, tui, planewatch), `lib/ws_protocol/client.go` | Tracker |
| `Sink` | `lib/sink`, `lib/export/location.go` | Services |
| `HaproxyMaps`, `HaproxyClient` | `cmd/pw_haproxy_api`, `lib/haproxy/haproxy.go` | Services |
| `MlatBridge`, `Runway` | `lib/mlatbridge`, `lib/stunnel/listener.go`, `cmd/runway`, the end of the tracker | Services |
| `BTreeFilter`, `FeederRegions` | `lib/dedupe/btree.go`; `FID` and `Region` of `feederauth` with `lib/icaoregion` | Services |
| `Tap`, `Repeater` | the ingest tap from the tapper to the linked list of each pw_ingest; the keep-alive repeater | Bus |
| `AtcApi`, `Accounting` | `cmd/pw_atc_api`; `lib/middleware/accounting.go` composed with it over the bus | Bus |
| `Broker` | the life of `cmd/pw_ws_broker` over `lib/nats_io`: connections, feeds, web server, searches, end | Bus |
| `ModeS`, `Adsb`, `Layout`, `CommB` | `lib/tracker/mode_s` | Decode |
| `Positions` (CPR, tiles, MLAT regions; theorems in `DecodeProofs`), `Streams` (framing of byte streams, HAProxy replies) | pure functions and tables | Decode |
| `MCDecode`, `MCTracker`, `MCServices`, `MCBus` | one run over several independent parts: a behaviour picks a part (or an experiment) in `Init` and leaves the variables of the others alone | |
| `DecodeProofs`, `TrackerProofs`, `ServicesProofs`, `BusProofs` | the theorems about these and the modules they compose | |

### PlaneLocations and Router

`PlaneLocation` is a function from fields to entries (has, val, ts), the three
things `MergePlaneLocations` looks at. `Merge` takes a field by the code's
rule for that field: flagged fields need the flag and a newer timestamp,
Squawk and Special carry no flag, a squawk is held for `SquawkHold`.
`IsLocationPossible` keeps Go's `math.Mod`, which has the sign of its first
argument (`GoMod`).

An update is received, its ICAO is locked, the sample is loaded, merged or
stored, the lock is released, and the messages are published one by one
(`EmitNext`, `Publish`, `AddToStream`): one action for each point at which
another goroutine can come in. `out` and `todo` are the worker's locals. The
eviction is two actions (`SweepDecide`, `SweepDelete`) because the forgetful
map decides, calls the eviction action and deletes without the router's lock.
`Junk` is any message that unmarshals to something the worker drops.

### FeederAuth and FeederRegions

Each connection walks through handshake, `IsValid`, `IsConnected`,
`IsConnectingTooFrequently`, `Get` and `SetConnected`, taking one mutex at a
time except in `SetConnected`, which holds two. The read locks of a check are
one action guarded by the absence of a writer. `populate` takes its three
mutexes in three actions. BEAST connections register a counter and start a
poison pill ticker; MLAT connections dial. A counter is known by key, protocol
and label, as in Prometheus. `Tick` is the passing of time: with `MaxClock` it
bounds the clock. `FeederRegions` has the other two maps of the same cache:
callers read the feeder, the cached answer and store a new one in three steps.

### WsBroker and Broker

`globalListUpdate`, `StartRange`, `VisitClient`, `SendToClient` and `EndRange`
are a worker's fan-out; `SendPanics` is the send on a closed channel together
with the deferred recover. The order in which `sync.Map.Range` visits clients
is any order. The handler is a `select` over commands, locations, ticks and
exit, one action each. `globalList.Range` in a snapshot is one step; a location
stored during it may be seen or not, and the fan-out delivers it either way.
`RequestTypeSendAllSubscribed` is handled but nothing sends it, so it has no
action. `synced`, `known`, `wanted` and `cut` are history variables of the
properties and guard nothing. `Broker` is the process around that: where a
location is "handled" there, WsBroker's fan-out begins.

### Ingest

The kind of the producer (fetcher, listener, files or connection) is chosen in
`Init`; it decides who receives from `cmdChan`, when the reader ends and who
closes the channel. Frames are objects of a pool: `ReadFrame` takes one,
`Release` clears it and gives it back. The tap's queue holds the objects
themselves, as `Handle` queues the pointer: by the time `TapSend` reads one its
worker may have released it and the pool given it to another frame. What that
does to the object is the set `marked`: `hasDecoded` set on a cleared one,
which `NewFrame` does not reset. The producers have no repeater. A worker looks
the payload up in the dedupe list and adds it in separate steps (`HasKey`,
`AddKey`), looks its plane up and stores it in separate steps (`LoadPlane`,
`StorePlane`). `Wait` and `Stop` are two routines that may both get into
`Finish`.

### ForgetfulMap and BTreeFilter

The pool is a bag (how often it holds each marble). `StoreGet` takes a marble,
fresh or pooled, and fills it; `StoreKey` puts it in the map. `Delete` loads,
puts the marble back and only then deletes the key: three steps. A marble that
nothing refers to is garbage and may come back as a new allocation
(`Unreachable`), which keeps the set of marbles finite. Only the sweeper
deletes and `useSyncPool` is true in all of the repository's maps.
`BTreeFilter` keeps the age of a record instead of its time.

### Plane, Track, Nav and LossyList

Every setter of `Plane` takes the plane's lock for itself, so handling a frame
is a script of setters (`Script`) that a worker executes step by step while
other workers execute theirs. Frame n has time stamp n; a worker that is held
up applies an older frame after a newer one. Places lie on a line. `Track` is
what a reader of the history may rely on: it grows by one place, forgets its
oldest, and consecutive places are within reach of each other; `Plane` maps its
history onto it (`T == INSTANCE Track WITH ...`) and `HistoryIsTrack` is that
specification as a property. `Nav` lets a message be `Skew` older than the
clock, which is what two workers can do to each other.

### The services, the bus and the tap program

HAProxy, the NATS client, the database, the operator who renews certificates
and the feeders' clients are external: their actions are marked so in the map.
HAProxy is its maps, sessions and files, may restart and refuse commands. A NATS request goes to
every queue group once. In `Tap` each pw_ingest holds its own doubly linked
list; walkers read one pointer per step. `Accounting` extends `AtcApi`: an
update travels through two bounded queues, the bus and a worker to the table,
for as long as it likes (`AccountTick` waits for nothing); `Restart` is another
pw_ingest process, which knows nothing of the updates of the one before.

### The decoder

`MCDecode` runs an experiment per property: a state is one input (a pair of
directions, a pair of wrong bits, one of the 8,192 codes of thirteen bits, a
bit of a message of each type, a position on a grid, a reply cut
somewhere), `Next` goes to the next. The reference is another definition of the
same thing: division by the generator polynomial for the table-driven CRC, the
Gray property for Gillham's code, the encoder of the standard for CPR, the
tables of `describe.go` for the shifts and masks of `decode-adsb.go`.
Angles are fractions of whole numbers; `Resolution` (131072 in the code) is a
parameter, as the products otherwise leave TLC's integers.

## 3. Runs

Where a property is a conjunction of named parts (the four runs over several
components, and three of the others), each part is stated and explained in the
module of its component, and `PROJECT.json` has a mutant for each part.

### Router

* `Router_safety`: two workers, four updates of one aircraft (a full early one,
  a full late one with a new tile, a partial one and a straggler), one
  droppable message, one eviction, a signal at any time.
  `NewestWins`: a cached sample is field by field at least as new as every
  update merged into it. `NeverOlder`: no step replaces a field by an older
  value. `CacheReported`: a sample in the cache has been published on the low
  feed, or a worker is about to, or the connection was closed first
  (`Announced`), and the gauge never exceeds the cache (`GaugeNotAbove`).
  Two workers suffice for every race on one mutex, four updates for every case
  of the merge (new, significant, insignificant, rejected), one eviction for a
  store on either side of it.
* `Router_live`: ClickHouse on, channels of capacity 1, three updates.
  `WorkersComeBack`, `ShutdownCompletes`.

### FeederAuth

* `FeederAuth`: two BEAST connections and one MLAT connection of one key, a
  refresh that may drop the feeder, one unit of time.
  `OneServedPerCounter`: overtaking in `Authenticate` never leads to two served
  connections under one counter. `FlagAccounted`: a feeder marked connected has
  a connection that will unmark it, or a registration failed.
  `AttemptsSettle`: every attempt is served or refused unless the deadlock
  below has happened. Three connections let one overtake a pair.
* `FeederAuth_refresh` (violation): `populate` and `SetConnected` take
  `muFeedersConnected` and `muFeederConnectionTime` in opposite orders. This is
  the project's finding, quoted in `PROJECT.json` against the comment of the
  ticker that runs the refresh.

### WsBroker

* `WsBroker_safety`: one client sends any two requests, a second one listens;
  both may leave or fail; one worker, two locations of one aircraft, one
  forgetting, channels of capacity 1, with and without batching.
  `ClientStateSound`: a batch holds one location per aircraft and its index
  points at it, and a tile's gauge is at least the number of clients subscribed
  to it. `OnlyWanted`: a batch holds only what the client subscribed to
  or asked for since the last tick. `NoneMissed`: a client that set its tiles
  has got, or has on its way, every recent aircraft on them, unless a fan-out
  was cut. Two requests are the shortest sequence that subscribes and then
  changes the subscription.
* `WsBroker_live`: `FanOutEnds`, `LostClientsLeave`.

### Ingest

* `Ingest`: one producer of each of the four kinds, two decode workers, two
  reads, two pooled frames, a good and a bad payload, one forgetting, queues of
  capacity 1. `Accounted`: a frame is at one place only, the pool included and
  the tap's queue excepted (`OwnedOnce`); what the tap spoils by reading a
  released frame never gets as far as a plane (`UnreadDropped`); and the gauge
  is at least the number of planes (`PlanesCounted`). `DuplicatesOnlyByRace`:
  while it is remembered, a payload passes the filter twice only if two workers
  looked it up before either had added it. `NothingLeftBehind`: when a process
  ends by itself the producers' channels are empty and the workers are done.
  `ShutdownCompletes`: after a signal, or when the input has ended, it ends
  unless a producer cannot be stopped (`Unstoppable`: nobody receives its stop
  command). Two workers and two frames give each race of two routines on one
  frame, key or plane.

### ForgetfulMap

* `ForgetfulMap`: the plane list and the dedupe list with one key each, three
  marbles, two callers, three stores. `SharedOnlyWhileDeleting`: two entries
  share a marble only in the middle of a deletion. `WrongOnlyByDelete`: a Load
  returns the wrong value only when a deletion ran into it. `OldIsForgotten`:
  what stays old is deleted unless the map is stopped. Three marbles are one
  per entry and one in flight; three stores fill both maps and store again.

### Decode

Seventeen experiments, 209,000 inputs. The inputs are complete where the domain
is small (all pairs of whole degrees, all pairs of wrong bits in 112, all
thirteen-bit codes, every bit of every message type and subtype, all
combinations of candidate registers and findings, all FIDs) and a grid
elsewhere: CPR positions at and on either side of the zone edges from pole to
pole with `Resolution` 16384, HAProxy replies of up to four rows of two counters cut
after each line and everywhere in one that the expressions tell apart, texts of
up to four pieces as ages.

* `CodesRead`: parity catches one or two wrong bits and bursts up to 24 bits,
  and is division by the generator; Gillham's code is a Gray code from -1200 to
  126700 ft; the two altitude fields agree; the squawk spells the same pulses;
  registrations do not repeat.
* `DescribedAsDecoded`: what `describe.go` draws and shows is what the decoder
  reads, bit by bit; every bit of a message is drawn once and the counters of
  `formatBitString` have nothing to warn of; the tables of texts agree with the
  code. The differences there are stand in the property by name (velocity
  messages, two rows of the surface status, the alert of a target state) and in
  section 6.
* `RegistersRecovered`: the register chosen for a Comm-B reply is one it can
  be; what an aircraft fills in comes out again.
* `PositionsPlaced`: airborne and surface positions survive encoding (by the
  standard) and decoding (by the code); a position lies in one tile, a region
  has one MLAT server; what lies 90 degrees off the course is not merged.
* `StreamsRecovered`: BEAST frames with escapes and noise between them, fields
  of SBS-1 lines, tables of HAProxy that end early (none that lacks a row is
  taken; what happens to a last row cut in the middle is the exception), ages.

### Tracker

Two workers and three frames out of a set with every kind of frame, of two
places out of each other's reach; navigation messages of every kind with values
within and out of the tolerance, up to three of them; three pushers on a list
of three frames; a view with two aircraft, two tags and three filters. Three
frames are two halves and one that comes between, or two full cycles less one
half; the windows (`PairWindow`, `RefWindow`, `NavExpiry`) are small enough for
a third message to fall out of them.

* `RecordsSound`: no position of halves that are not there, each half used
  once, the newest frames kept.
* `ChangesAnnounced`: what a frame changed is announced when it is done with,
  whatever setters came after.
* `HistoryIsTrack`: `Plane` implements `Track`.
* `Corroborated`: a value taken from a reply that is merely guessed to be
  BDS 4,0 was backed by another message within the expiry.
* `ViewTrue`: sums, filters, positions with their counts and the height of the
  log, while seven taps call back between a tick's drawing steps.

### Services

Seven parts. Sink: two aircraft, two handlers, two changes each. HAProxy: one
feeder whose validity changes, one session id, one fault or restart. Its
client: two callers, three commands, two absences of the server. Bridge: two
bytes each way, the server may stall. Runway: both listeners, one connection,
two issues of the certificate. B-tree: two workers, one key. Regions: two
callers, two feeders that may move once, two overlapping features. One more of
each repeats a situation: the races are between two routines, and one fault is
enough to be in every place.

* `NothingMadeUp`: when handlers and sink are quiet, what was published last is
  the plane as it is (`Settled`); no byte of a bridge is lost or sent twice
  (`NoByteLost`); every handshake is served a whole certificate
  (`ServedWhole`); the filter passes a frame once within its
  age unless two workers raced (`OnceWithinAge`); number and region of a feeder
  are those of a place it had (`AroundAPlaceItHad`, `OneFeature`).
* `DueComesAbout`: every change is sent (`Delivered`), valid feeders are in
  both maps (`MapsAdmit`), sessions of others end (`Expelled`), the client is
  connected again (`ClientRecovers`), old records go (`Forgotten`).
* `EndsWhenTold`: `CloseEnds`, `BridgeEnds`, `BothOrNone`, `ReloadingEnds`,
  `SignalEnds`.

### Bus

Five parts. Tap: two tappers, two pw_ingest, one frame, one time-out. Repeater:
two refreshes. Asks: one requester with a request of any kind at a time, one
failing query, two workers. Updates: accounting with the same two workers, two
feeders, queues of one place, so that one feeder's update finds the other's in
the way, the clock from 1 to 3, a restart of pw_ingest at 2; `Minute` is 1, so
that a feeder is due twice and an update may be late by more than the minute.
Broker: two messages, one error, queues of depth 1.

* `BooksBalance`: the tap list is whole from both ends (`ListIntact`), one
  ticker per aircraft (`OneTicker`), a counted frame is reported or about to be
  (`ReportedOrUnderway`), drops raise the right counter (`DropsReported`).
* `EndsWhenLeft`: `TapTakenBack`, `DisconnectEnds`, `FallsSilent`,
  `WebFailureEnds`.
* `AskedIsAnswered`: `AnsweredUnlessSearch`, `SearchAnswered`, `FeedServed`.
* `PutBackOnlyLate`: last seen of a feeder goes back only by an update that was
  under way for more than a minute, or that was sent before the restart.

## 4. Fairness

* Router: weak fairness of the listener, the stream's drain and the workers
  (goroutines are scheduled); strong fairness of `LockIcao` and `AddToStream`
  (Go mutexes and blocked senders are served in turn).
* FeederAuth: strong fairness of the refresh and of each connection: a Go
  `RWMutex` lets a waiting writer in and starves no reader. Neither new
  connections nor the next refresh are promised.
* WsBroker: strong fairness of fan-out, commands and locations (`select`
  chooses at random among the ready cases), weak fairness of the removal. Neither
  requests nor lost connections are promised.
* Ingest: weak fairness of workers, shutdown routines, the tap's sender and the
  end of a file. Data, signals and the forced exit are not promised; a dial
  returns.
* ForgetfulMap: weak fairness of the sweeper (a timer that is set fires).
* Services: weak fairness of every goroutine's steps and of the tickers that
  start them; strong fairness of one step, the swap of the table of live
  sessions (`Swap`), because HAProxy may be away or refuse whenever it is about
  to happen, but not every time (faults are bounded). HAProxy comes back after
  an absence; that it leaves, that a peer stalls or hangs up, that a
  certificate is renewed or a signal comes is not promised.
* Bus: weak fairness of the goroutines, of the readers of a tap, of tickers
  and time-outs. Nothing is promised of the updates of accounting, of which no
  liveness property speaks. Messages, time-outs of a tap's request, errors of the server,
  failures of the database and signals are not promised.
* Decode and Tracker check no property that needs fairness.

Deadlock is not checked where the environment's budget ends with nothing left
to do (FeederAuth, WsBroker, ForgetfulMap, Tracker, Services, Bus); Router and
Ingest say what a stopped process is and are checked.

## 5. Proofs

All theorems are about `Spec` (its safety part; fairness is not used), for
every value of the constants that meets the `ASSUME` of the module. 31
theorems, in eight modules, state every invariant that a run checks except
four of the run Decode, and every action property that is not about liveness.

The assumptions are the types of the constants, `None` or `Nil` being none of
the values it stands beside, capacities of at least 1, and:

* what is counted is finite: the producers of a process, the clients and
  aircraft of a broker, the pushers of a list, the aircraft of the tap program
  (`IngestAssumption`, `WsBrokerAssumption`, `LossyAssumption`,
  `ViewAssumption`);
* the halves of a position are encoded in at least 14 bits (`Resolution` of
  16384; in the exact statements, 120 parts); the code has 17, which are more
  than TLC's integers hold;
* `AtcApiAssumption`: only accounting publishes on `feeder.update-stats`, as in
  the repository, where nothing else does;
* `LeavesNothing` assumes a decode worker, `HistoryFollows` that the check of
  the velocity is on (every program builds its tracker so), and
  `ShownIsCorroborated` that no message is applied later than the minute after
  which such a message no longer counts (`Skew <= NavExpiry`).

What each invariant needs:

* `RouterProofs`: `TypeCorrect`, `UpdatesNotLost` (`NewestWins`),
  `SamplesNeverOlder` (`NeverOlder`), `CacheIsReported` (`CacheReported`).
  `NewestWins` is not inductive: a worker stores a record it merged from a copy
  it loaded earlier. The invariant adds that locals are set where they are used
  (`LocalsSet`), that a worker between load and store holds the ICAO's mutex
  (`HoldsLock`), and that its copy is the current sample unless the sweeper has
  deleted that (`CopyIsCurrent`); either way the copy covers everything that
  was merged (`CopyCovers`), so storing it again loses nothing. For
  `CacheReported` the copy was announced as well (`CopyAnnounced`), and the
  gauge is counted against the workers and evictions that have still to adjust
  it (`GaugeBooks`).
* `DecodeProofs`: `PlacesFound` (`PositionsPlaced`), for the places, tiles and
  courses that `Router` takes as given. Two halves of one place, of one zone
  more and one zone less, count the zone by their difference; that is shown
  with quotients and remainders for any place and resolution (`RoundedIndex`,
  `ZonesFound`, `ZonePutBack`), so that the decoded angle is the encoded one
  (`AirPositionDecoded`, `SurfacePositionDecoded`, exact), `Milli` of it is
  near the place (`Locates`), and the reference of a surface position picks
  the right quadrant (`NearestQuadrant`). `AirFound` and `SurfaceFound` say so
  for every place in tenths of a degree and every reference within 40 degrees,
  where the run takes some. `TileFound` compares the 75 tiles pair by pair and
  finds one for every position, `RegionsApart` the eight lists of regions.
* `FeederAuthProofs`: `TypeCorrect`, `ServedOnce` (`OneServedPerCounter`),
  `FlagsAccounted` (`FlagAccounted`). What keeps served connections apart is
  not the connected flag, which two connections can both find unset, but the
  counter registry: `ServedIsRegistered` is the strengthening, with
  `DialIsMlat` for the branch that registers nothing.
* `IngestProofs`: `AllAccounted` (`Accounted`), `PassedOnce`
  (`DuplicatesOnlyByRace`), `LeavesNothing` (`NothingLeftBehind`). A frame that
  is not in the pool is with exactly one producer, in one place of one channel,
  or with one worker (`Apart`, `NotOfPool`, `NoneLost`); the tap's queue may
  hold it beside them. What a worker is to store or to handle is never in an
  object the tap has marked (`TInv`): only objects in the pool are marked, and a
  worker that gets one drops it before. A payload is added a
  second time only by a worker that is between its look-up and its insertion
  while another is too, which is when it counts as raced. `SInv` ties the
  closing of channels, the end of the workers and the steps of `Wait` and
  `Stop` together.
* `WsBrokerProofs`: `ClientStateIsSound` (`ClientStateSound`), `SentIsWanted`
  (`OnlyWanted`), `NoneIsMissed` (`NoneMissed`). First what adding to a batch
  does to its list and index (`Indexed`). The gauge is compared with the
  clients that hold a tile (`Holders`). `NoneMissed` needs that a recent
  location that is not known to a subscriber is in its batch, on its way
  through its channel, or ahead of a worker that has not visited the client
  yet, at every step of the fan-out (`FollowInv`).
  The last part of the module is about `ForgetfulMap`, which the list of
  locations is one of: `MapTypeCorrect`, `NotShared`
  (`SharedOnlyWhileDeleting`), `RecallsUnlessDeleted` (`WrongOnlyByDelete`).
  Its invariant gives each marble one owner: the pool (`PoolOwnsAlone`), an
  entry that is not half deleted (`EntryOwnsAlone`) or a caller that is storing
  it (`CallOwnsAlone`); the owner's key is the one the marble's value belongs
  to (`OwnersValue`), and a Load that no deletion has met holds a marble of its
  own key (`LoadIsSafe`). `Underway` ties each routine's locals to its step.
* `TrackerProofs`: `RecordsAreSound` (`RecordsSound`), `ChangesAreAnnounced`
  (`ChangesAnnounced`), `HistoryFollows` (`HistoryIsTrack`: `Plane` implements
  `Track`), `ShownIsCorroborated` (`Corroborated`), `ViewIsTrue` (`ViewTrue`).
  A handler is the list of
  setters it still has to run while other handlers change the same plane, so
  the invariants speak of what is left of each worker's script
  (`ScriptsSound`: at most one half and `finish` at its end), of halves that
  have been used (`HalvesApart`), and of changes nobody announced, which some
  script still ends with (`PendingKnown`). The refinement needs that the plane's
  position is the last of its history (`LocIsLast`). For the view of the tap
  program (`TInv`), sums over its aircraft are taken apart one aircraft at a
  time (`Tally`), the list it selects from is a sorted copy of the aircraft it
  asked for, so that the place of one is the number of those before it
  (`OnlyAsked`), and a row that is between its two reads keeps a position that
  its source still holds.
* `ServicesProofs`: `NothingIsMadeUp` (`NothingMadeUp`). Sink: a field the bus
  does not have as it is was refused, is in a list, or is with a sender that
  will read it again or has read it as it is (`Brings`). Runway: only a
  listener that got its certificate has connections. B-tree: a record's age is
  the time since its last frame, and no record means longer than `MaxAge`.
  Regions: an answer a caller has still to store comes from a place the feeder
  had.
* `BusProofs`: `BooksAlwaysBalance` (`BooksBalance`), `PutBackByLateUpdates`
  (`PutBackOnlyLate`). The tap list is proved intact for any number of conditions:
  what is reached from the head is the least set that `nextItem` does not lead
  out of, and appending or removing changes it by exactly one condition
  (`AppendKeepsIntact`, `RemoveKeepsIntact`). Linking a condition twice would
  break it, and what excludes that is that a tapper asks once to be added
  (`AddedOnce`). `last_seen` is written blindly by any worker of a queue
  group, and nothing is assumed about how long an update takes. What holds is
  that two updates of a feeder by one process are more than `Minute` apart,
  counted from its last report (`AccountInv`): whatever is under way from after
  the restart is the newest or more than a minute behind it (`Behind`,
  `OnlyLate`), so that a worker that writes an earlier time than there is
  writes one of more than a minute ago. `ReportedOrUnderway` needs no order of
  arrival: the newest update that came to an end is kept per feeder
  (`SettledAt`), and the one reported last is it or still under way.

Only model-checked: every liveness property and its fairness (outside the
prover's reach, like ENABLED); and of Decode `CodesRead`, `DescribedAsDecoded`,
`RegistersRecovered` and `StreamsRecovered`. Their definitions are recursive
functions over bits, digits and sequences, whose values for every input need
induction over data, or tables that the run goes through row by row: there the
run is exhaustive already and a proof would only repeat it. The violation
`FeederAuth_refresh` is a counterexample.

## 6. Observed

What the code does and a reader may not expect. The models behave the same way;
a property that is affected says so in its statement or its comment.

Router and export

* The first update of an aircraft is not written to ClickHouse, and a move
  within a tile is not significant (`docs/pw_router/README.md:43`, `:168`).
* Merging takes the tile from a stale update (`lib/export/types.go:335-337`).
* `math.Mod` keeps the sign of its first argument (`types.go:430`): heading 0
  and bearing 271 differ by 89 degrees and are rejected (comment at `:350`).
* Records are published after the mutex is released, so those of one aircraft
  may leave in the opposite order (`cmd/pw_router/worker.go:239`).
* The cache gauge can drift below the cache, the plane gauge above it.

Feeders, runway, MLAT

* A failed BEAST registration leaves its feeder marked connected
  (`cmd/runway/customs.go:165-168`); it is the exception in `FlagAccounted`.
* The poison pill blocks when nobody receives the stop command
  (`lib/producer/common.go:411-413`).
* The error of `feederauth.New` is not looked at (`cmd/runway/main.go:190`); a
  connection whose handshake outlasts `Finish` becomes a producer nobody stops.
* Regions and FIDs are cached for ever, and a feeder without latitude panics
  (`feedercache.go:260`, `:285`).
* With both sides stalled a bridge does not end (`mlatbridge.go:311`).

Tracker, producer, tap

* The tile of the receiver replaces the tile of a decoded position
  (`tracker.go:449`, `:221`).
* Target altitudes stay when their source falls silent (`nav.go:17`).
* Halves of airborne and surface positions may be paired; halves 10 s apart are
  accepted (`checkFrameTiming`; the comment says less than a second).
* Registration and airframe are compared by pointer and always count as
  changed; first frames that change nothing later are never announced.
* Between `Finish` of `Wait` and of `Stop` `middlewareWaiter.Done` may be called
  twice; the tap's queue may be closed while workers send to it, or twice.
* The tap queues a pointer to a pooled frame (`ingest_tap.go:133-134`) that the
  worker releases (`input.go:369`), against the rules of `beast/main.go:172-174`
  and `input.go:345-347`: what is sent may be a cleared frame or the next one,
  and a condition with an address that decodes a cleared frame leaves
  `hasDecoded` set, so that the next frame in it is dropped undecoded. An add that timed out stays for ever; a walker on a
  condition that is unlinked skips the rest of the list.
* `removeProducer` goes by name (`input.go:193`).
* The repeater shares one source tag, is never stopped, keeps a goroutine per
  frame, may stop the new ticker when an old one expires, and with a BEAST
  source (`--ads-c`; `docs/setup/README.md:208` has it for SBS-1 only) puts a
  pooled frame on the channel again after its release (`common.go:366-373`). In
  such a process a frame may have two owners, which `Accounted` does not cover.
* `Range` of the list of last frames leaves out the last one; several pushes at
  once may drop one more than needed.
* The sweep of a forgetful map undoes `Stop` (`forgetfulmap/map.go:263`); a
  Store between decision and deletion is lost; a Load during a deletion may
  return the value of another map (`:237`, comments at `:206`, `:220`).
* A slow worker replaces a newer record of the B-tree by its own; a second
  `Stop` blocks.

Decoder

* The air speed loses its upper bits and the air heading keeps seven;
  `downlinkRequestField` has no entry 20; `getField` panics on a line that ends
  one field early; `describe.go` draws the altitude of a DF0 and the squawk of
  a test message off their place.
* Every velocity message makes `formatBitString` warn that its rows do not add
  up (`describe.go:1018`, `:1032`): the sub tables start at bit 32 again, inside
  a row that starts at 37 (`:178-179`).
* The decoder takes for the vertical accuracy and the cross-check of a surface
  status (`decode-adsb.go:320-322`) bits that `describe.go:330`, `:332` call
  reserved and TRK/HDG.
* `describe.go:834` shows the alert of every type 29 message, which only the
  sub type 0 reads (`decode-adsb.go:249-269`).
* `LookupTile` and `InGridLocation` differ (`docs/tile_grid/README.md:120-125`).

HAProxy

* `DelMap` is called with its arguments swapped (`cmd/pw_haproxy_api/main.go:694`,
  `:711`; header at `:3-7`): entries are removed by the end of sessions only.
* A session id that HAProxy gives again may end a valid session; a checkpoint
  truncates its file before it asks HAProxy.
* A reply that ends early counts as a reply (`lib/haproxy/haproxy.go:206`). Of
  `show map` any part is taken, and may be written as the checkpoint. `show
  table` compares the number of rows, but a last row that is cut is a row: it is
  taken with fewer counters or a number without its last digits, so a feeder's
  byte counts are wrong until the next round, and a row cut in the name of a
  counter panics (`table.go:126`). As the next command on the connection fails,
  only the last of a round's tables can come into the list that way.
* A stream of commands starves the keep-alive (`time.After` in the loop); the
  dial loop does not look at its context; a caller panics on a closed channel.

Sink, bus, API, broker

* Nobody calls `Stop` of the sink; with `sendDelay` 0 it would panic.
* `Stop` of the accounting closes the update queue while it may be sent to.
* Last seen of a feeder is overwritten whatever is there (`pw_atc_api/feeders.go:124`):
  an update that was late by more than a minute, or one of before a restart of
  pw_ingest, puts it back.
* An airport search whose query fails is not answered; an error about a
  malformed request is overwritten; `connectDatabase` does not retry after a
  ping that failed.
* A closing channel cuts a fan-out short for the clients after it
  (`cmd/pw_ws_broker/web.go:970`, comment at `:958`).
* A batch may contain empty entries (`web.go:627`), the subscription gauge
  keeps the subscriptions of a client that left, `GridPlanes` after a
  subscription always answers "Unknown Tile", goroutines of a lost client may
  stay on its command channel (`web.go:490`).
* `NatsErrHandler` reads `sub.Subject` without a subscription
  (`nats_io/nats.go:92`); a failed `Subscribe` leaves a healthy broker without
  that feed (`cmd/pw_ws_broker/nats.go:54`); `NewServer` leaves the incoming
  connection open when the outgoing one fails.
* In the tap program, Select on an empty table panics, an inverted test drops
  AVR frames that decode (`model.go:222`), a table that does not fit gets no
  room (`tui.go:143`), and the reader of `ws_protocol` spins on a read error
  (`client.go:101`).
* `lib/ws_client` waits for some answers on the wrong channel
  (`client.go:138`, `:166`). No program of the repository uses it.

## 7. Not modelled

* `lib/mapping/here` is generated from an API description: 17,263 of the
  40,793 lines, without logic of the program's own. `lib/mapping` wraps it.
* `lib/setup`, `lib/logging`, `lib/monitoring`, `lib/randstr`: flags, log
  output, an HTTP health endpoint, random strings.
* The tools under `cmd/` that read a file and print: recorder, stress,
  website_decode, df_example_finder, example_finder, geojson_utils, plane.path.
* `lib/ws_client` (unused) and the dialling half of `lib/ws_protocol`.
* Getters and texts, the drivers of ClickHouse, PostgreSQL, NATS and TLS; the
  last four appear as external actions.
* Floating point: angles are fractions of whole numbers, places of the tracker
  are points on a line.
* The conditions that the tap matches a queued frame against beside `Tap`, a
  repeater in `Ingest`, a wall clock that is set back, the counters of a row in
  `HaproxyMaps` and the panic over them, two producers of one name, and more than one aircraft in `Plane`, whose planes share nothing.

## 8. Plan

1. Proofs: lemmas about the pure operators that do not need induction and
   are only checked so far: Gillham's code by cases, the registrations.
2. A producer with a repeater in `Ingest`, whose frames may have two owners.
3. An abstract dictionary that ForgetfulMap implements as long as nothing is
   deleted.
