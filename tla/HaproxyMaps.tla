----------------------------- MODULE HaproxyMaps -----------------------------
(***************************************************************************)
(* cmd/pw_haproxy_api: three goroutines on tickers keep HAProxy's maps in  *)
(* step with the list of valid feeders (populateMapsInMemory), build the   *)
(* cache of live feeders (updateLiveFeedersFromHAProxy) and write the maps *)
(* to the files HAProxy reads when it starts (writeMapCheckpoints).  They  *)
(* share HAProxy, whose commands may fail, and the variable Feeders.       *)
(*                                                                         *)
(* HAProxy itself (external) is its two maps, its sessions and their table *)
(* entries; a map is the set of its keys, a session has the address that   *)
(* HAProxy prints as its id, which a later session may get again.          *)
(***************************************************************************)
EXTENDS Integers, Sequences, FiniteSets

CONSTANTS Keys,         \* api keys
          Doubtful,     \* the keys that may become valid or invalid
          SessionIds,
          MaxFaults,    \* bounds: failed commands and restarts of HAProxy,
          MaxListed,    \*   changes of the list of valid feeders,
          MaxConnects   \*   connections of feeders

Kinds == {"BEAST", "MLAT"}

VARIABLES allowed,      \* the feeder cache: valid keys
          hmap,         \* HAProxy's maps: kind -> keys
          sessions,     \* HAProxy's sessions: [id, key, kind, src]
          files,        \* the files behind the maps
          feeders,      \* Feeders: [key, kind, src, id], id 0 when not matched
          fill,         \* populateMapsInMemory
          live,         \* updateLiveFeedersFromHAProxyOnTicker
          point,        \* writeMapCheckpoints
          faults, listed, connects

haVars == <<allowed, hmap, sessions, files, feeders, fill, live, point,
            faults, listed, connects>>

Rest == [at |-> "rest", list |-> {}, todo |-> {}, key |-> "none"]

HaInit ==
    /\ allowed = Keys /\ sessions = {} /\ feeders = {}
    /\ hmap = [k \in Kinds |-> {}] /\ files = [k \in Kinds |-> {}]
    /\ fill = Rest
    /\ live = [at |-> "rest", sess |-> {}, table |-> {}]
    /\ point = "rest"
    /\ faults = 0 /\ listed = 0 /\ connects = 0

(* A command to HAProxy fails.                                             *)
Fault == faults < MaxFaults /\ faults' = faults + 1

(* ------------------------------------------------- HAProxy, the feeders *)

ListChanges ==
    /\ listed < MaxListed /\ listed' = listed + 1
    /\ \E k \in Doubtful : allowed' = IF k \in allowed THEN allowed \ {k} ELSE allowed \cup {k}
    /\ UNCHANGED <<hmap, sessions, files, feeders, fill, live, point, faults, connects>>

FeederConnects ==
    /\ connects < MaxConnects /\ connects' = connects + 1
    /\ \E kind \in Kinds, id \in SessionIds \ {s.id : s \in sessions} :
        \E key \in hmap[kind] :
            sessions' = sessions \cup {[id |-> id, key |-> key, kind |-> kind, src |-> connects + 1]}
    /\ UNCHANGED <<allowed, hmap, files, feeders, fill, live, point, faults, listed>>

FeederLeaves ==
    /\ \E s \in sessions : sessions' = sessions \ {s}
    /\ UNCHANGED <<allowed, hmap, files, feeders, fill, live, point, faults, listed, connects>>

Restart ==
    /\ Fault /\ hmap' = files /\ sessions' = {}
    /\ UNCHANGED <<allowed, files, feeders, fill, live, point, listed, connects>>

(* DelMap(mapName, key): an unknown map is an error and changes nothing.   *)
DelMap(mapName, key) ==
    IF mapName \in Kinds THEN [hmap EXCEPT ![mapName] = @ \ {key}] ELSE hmap

(* -------------------------------------------------- populateMapsInMemory *)

UnchangedFill == UNCHANGED <<allowed, files, feeders, live, point, listed, connects>>

FillStart ==
    /\ fill.at = "rest"
    /\ fill' = [Rest EXCEPT !.at = "next", !.list = allowed, !.todo = allowed]
    /\ UnchangedFill /\ UNCHANGED <<hmap, sessions, faults>>

NextKey ==
    /\ fill.at = "next"
    /\ IF fill.todo = {} THEN fill' = [fill EXCEPT !.at = "delete BEAST"]
       ELSE \E k \in fill.todo :
              fill' = [fill EXCEPT !.at = "add BEAST", !.key = k, !.todo = @ \ {k}]
    /\ UnchangedFill /\ UNCHANGED <<hmap, sessions, faults>>

(* GetMap and AddMap: an error of GetMap leaves the key for this round, an *)
(* error of AddMap is only logged.                                         *)
AddBEAST ==
    /\ fill.at = "add BEAST"
    /\ \/ /\ hmap' = [hmap EXCEPT !["BEAST"] = @ \cup {fill.key}]
          /\ fill' = [fill EXCEPT !.at = "add MLAT"] /\ UNCHANGED faults
       \/ Fault /\ fill' = [fill EXCEPT !.at = "next"] /\ UNCHANGED hmap
       \/ Fault /\ fill' = [fill EXCEPT !.at = "add MLAT"] /\ UNCHANGED hmap
    /\ UnchangedFill /\ UNCHANGED sessions

(* Mutant: a key that is in the BEAST map is taken to be in both.          *)
MissingBoth(key) == key \notin hmap["BEAST"] /\ key \notin hmap["MLAT"]

Missing(key) == key \notin hmap["MLAT"]

(* The region is looked up in the feeder cache, which may have lost the    *)
(* key since the list was taken.                                           *)
AddMLAT ==
    /\ fill.at = "add MLAT"
    /\ fill' = [fill EXCEPT !.at = "next"]
    /\ \/ /\ hmap' = IF Missing(fill.key) /\ fill.key \in allowed
                     THEN [hmap EXCEPT !["MLAT"] = @ \cup {fill.key}] ELSE hmap
          /\ UNCHANGED faults
       \/ Fault /\ UNCHANGED hmap
    /\ UnchangedFill /\ UNCHANGED sessions

(* ShowMap and, for every key that is not on the list, DelMap with the key *)
(* for the name of the map and the backend for the key.  An error of       *)
(* ShowMap ends the round.                                                 *)
Backend == "backend"

Deleted(kind) ==
    IF hmap[kind] \subseteq fill.list THEN hmap
    ELSE DelMap(CHOOSE k \in hmap[kind] \ fill.list : TRUE, Backend)

DeleteKeys(kind, then) ==
    /\ fill.at = "delete " \o kind
    /\ \/ hmap' = Deleted(kind) /\ fill' = [fill EXCEPT !.at = then] /\ UNCHANGED faults
       \/ Fault /\ fill' = Rest /\ UNCHANGED hmap
    /\ UnchangedFill /\ UNCHANGED sessions

(* The read lock of FeedersMu is held from the first to the last of them.  *)
Doomed == {f \in feeders : f.key \notin fill.list}

KillStart ==
    /\ fill.at = "kill"
    /\ fill' = [fill EXCEPT !.at = "killing", !.todo = Doomed]
    /\ UnchangedFill /\ UNCHANGED <<hmap, sessions, faults>>

Kill ==
    /\ fill.at = "killing"
    /\ IF fill.todo = {} THEN fill' = Rest /\ UNCHANGED <<sessions, faults>>
       ELSE \E f \in fill.todo :
              /\ fill' = [fill EXCEPT !.todo = @ \ {f}]
              /\ \/ sessions' = {s \in sessions : s.id # f.id} /\ UNCHANGED faults
                 \/ Fault /\ UNCHANGED sessions
    /\ UnchangedFill /\ UNCHANGED hmap

(* ------------------------------------------ updateLiveFeedersFromHAProxy *)

UnchangedLive == UNCHANGED <<allowed, hmap, sessions, files, fill, point, listed, connects>>

LiveFails ==
    /\ live.at \in {"sess", "BEAST", "MLAT"} /\ Fault
    /\ live' = [live EXCEPT !.at = "rest"] /\ UNCHANGED feeders /\ UnchangedLive

LiveStart ==
    /\ live.at = "rest" /\ live' = [at |-> "sess", sess |-> {}, table |-> {}]
    /\ UNCHANGED <<feeders, faults>> /\ UnchangedLive

(* ShowSess asks for the sessions and then for the info: when the first    *)
(* reply ended early, the second command fails.                            *)
ShowSess ==
    /\ live.at = "sess" /\ live' = [live EXCEPT !.at = "BEAST", !.sess = sessions]
    /\ UNCHANGED <<feeders, faults>> /\ UnchangedLive

(* Of a table only counters of the last row can be lost with the end of a  *)
(* reply (CutTableRefused of MCDecode); they are not kept here.            *)
ShowTable(kind, then) ==
    /\ live.at = kind
    /\ live' = [live EXCEPT !.at = then, !.table = @ \cup {s \in sessions : s.kind = kind}]
    /\ UNCHANGED <<feeders, faults>> /\ UnchangedLive

(* Mutant: the sessions are looked at before the tables are there.         *)
MatchedNever(t) == 0

(* A connection of the table gets the id of the session with its address.  *)
Matched(t) ==
    IF \E s \in live.sess : s.src = t.src
    THEN (CHOOSE s \in live.sess : s.src = t.src).id ELSE 0

Swap ==
    /\ live.at = "swap" /\ fill.at # "killing"
    /\ feeders' = {[key |-> t.key, kind |-> t.kind, src |-> t.src, id |-> Matched(t)] : t \in live.table}
    /\ live' = [at |-> "rest", sess |-> {}, table |-> {}]
    /\ UNCHANGED faults /\ UnchangedLive

(* --------------------------------------------------- writeMapCheckpoints *)

UnchangedPoint == UNCHANGED <<allowed, hmap, sessions, feeders, fill, live, listed, connects>>

(* os.Create truncates the file before ShowMap is asked.                   *)
Truncate(kind) ==
    /\ point = (IF kind = "BEAST" THEN "rest" ELSE "MLAT")
    /\ files' = [files EXCEPT ![kind] = {}] /\ point' = "show " \o kind
    /\ UNCHANGED faults /\ UnchangedPoint

(* A reply that ends early is written for the whole map; the connection is *)
(* gone, so that the other map, whose file is truncated first, fails.      *)
Write(kind) ==
    /\ point = "show " \o kind
    /\ \/ /\ files' = [files EXCEPT ![kind] = hmap[kind]]
          /\ point' = (IF kind = "BEAST" THEN "MLAT" ELSE "rest") /\ UNCHANGED faults
       \/ Fault /\ point' = "rest" /\ UNCHANGED files
       \/ /\ Fault /\ point' = "rest"
          /\ \E some \in SUBSET hmap[kind] : files' = [files EXCEPT !["MLAT"] = {}, ![kind] = some]
    /\ UnchangedPoint

FillStep ==
    \/ FillStart \/ NextKey \/ AddBEAST \/ AddMLAT
    \/ DeleteKeys("BEAST", "delete MLAT") \/ DeleteKeys("MLAT", "kill") \/ KillStart \/ Kill

LiveStep ==
    LiveStart \/ ShowSess \/ ShowTable("BEAST", "MLAT") \/ ShowTable("MLAT", "swap") \/ Swap

PointStep == \E kind \in Kinds : Truncate(kind) \/ Write(kind)

HaNext ==
    \/ ListChanges \/ FeederConnects \/ FeederLeaves \/ Restart
    \/ FillStart \/ NextKey \/ AddBEAST \/ AddMLAT \/ KillStart \/ Kill
    \/ DeleteKeys("BEAST", "delete MLAT") \/ DeleteKeys("MLAT", "kill")
    \/ LiveStart \/ ShowSess \/ ShowTable("BEAST", "MLAT") \/ ShowTable("MLAT", "swap")
    \/ Swap \/ LiveFails
    \/ \E kind \in Kinds : Truncate(kind) \/ Write(kind)

(* ------------------------------------------------------------ properties *)

(* Whatever fails on the way, and even if HAProxy restarts from a file     *)
(* that was just truncated: in the end every valid feeder is in both maps. *)
Admitted == <>[](\A kind \in Kinds : allowed \subseteq hmap[kind])

(* The session of a feeder that is no longer valid does not last: once the *)
(* list and the feeders are quiet, all sessions are of valid feeders.      *)
Expelled == <>[](\A s \in sessions : s.key \in allowed)
=============================================================================
