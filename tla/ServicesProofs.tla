--------------------------- MODULE ServicesProofs ---------------------------
(***************************************************************************)
(* TLAPS proofs about the services around the pipeline, for any number of  *)
(* aircraft, handlers, connections, workers, keys, callers and feeders.    *)
(* NothingMadeUp is not inductive: what it says at rest comes from what    *)
(* the goroutines hold on their way, and each part has an invariant that   *)
(* says it of every state between.                                         *)
(***************************************************************************)
EXTENDS MCServices, WellFoundedInduction, TLAPS

-----------------------------------------------------------------------------
(* The sink.                                                               *)

Fields == {"a", "b"}
Counts == [Fields -> Nat]
Jobs == [at : {"idle", "set", "event", "read", "read2", "publish"},
         icao : Aircraft \cup {"none"}, rec : Counts]
Senders == Handlers \cup {Ticker}

SinkType ==
    /\ craft \in [Aircraft -> Counts] /\ sent \in [Aircraft -> Counts]
    /\ job \in [Senders -> Jobs] /\ sendList \subseteq Aircraft /\ batch \subseteq Aircraft
    /\ \A p \in Senders : job[p].at # "idle" => job[p].icao \in Aircraft

(* What p is doing will bring field f of i to the bus as it is now.        *)
Brings(p, i, f) ==
    /\ job[p].icao = i
    /\ \/ job[p].at \in {"set", "event", "read"}
       \/ job[p].at = "read2" /\ (f = "b" \/ job[p].rec[f] = craft[i][f])
       \/ job[p].at = "publish" /\ job[p].rec[f] = craft[i][f]

(* No record is newer than the plane, and a field that the bus does not    *)
(* have as it is was refused, is in a list, or is on its way.              *)
SinkInv ==
    /\ SinkType
    /\ \A p \in Senders : job[p].at # "idle" =>
          \A f \in Fields : job[p].rec[f] <= craft[job[p].icao][f]
    /\ \A i \in Aircraft, f \in Fields :
          /\ sent[i][f] <= craft[i][f]
          /\ \/ sent[i][f] = craft[i][f]
             \/ i \in sendList \cup batch \cup refused
             \/ \E p \in Senders : Brings(p, i, f)

(* A bridge: no side was given more than was taken from the other.         *)
BridgeInv ==
    /\ arrived \in [Sides -> Int] /\ taken \in [Sides -> Int] /\ forwarded \in [Sides -> Int]
    /\ copy \in [Sides -> {"read", "write", "done"}]
    /\ NoByteLost

(* Runway: a listener that got as far as its certificate keeps one, and    *)
(* only such a listener has connections.                                   *)
LinkStates == {"none", "waiting", "handshake", "producing", "bridged", "gone"}
Links == [at : LinkStates, to : Listeners]

RunwayInv ==
    /\ cert \in [Listeners -> Nat] /\ served \in [Connections -> Nat]
    /\ disk \in Nat /\ issued \in Nat \ {0}
    /\ listener \in [Listeners -> {"new", "loaded", "open", "closing", "returned"}]
    /\ feed \in [Connections -> Links]
    /\ \A l \in Listeners : listener[l] \in {"loaded", "open", "closing"} => cert[l] # 0
    /\ \A c \in Connections : feed[c].at # "none" => cert[feed[c].to] # 0
    /\ ServedWhole

(* The filter: a record is as old as the last frame that was passed, and a *)
(* key has no record only when that is longer ago than matters.            *)
HandleRecords ==
    [at : {"idle", "stamp", "insert"}, key : TreeKeys \cup {CHOOSE k \in TreeKeys : TRUE}, age : Ages]

TreeInv ==
    /\ tree \in [TreeKeys -> Ages \cup {NoRecord}]
    /\ handle \in [TreeWorkers -> HandleRecords]
    /\ \A w \in TreeWorkers : handle[w].at # "idle" => handle[w].key \in TreeKeys
    /\ passing = [k \in TreeKeys |-> IF tree[k] = NoRecord THEN MaxAge + 1 ELSE tree[k]]
    /\ OnceWithinAge

(* The regions: a caller asks with a place that the list gave for its      *)
(* feeder, and what is stored is the answer of the search for such a one.  *)
Call == [at : {"look", "store"}, feeder : RegionFeeders, question : Questions, place : Places]

RegionInv ==
    /\ place \in [RegionFeeders -> SUBSET Places] /\ had \in [RegionFeeders -> SUBSET Places]
    /\ \A k \in RegionFeeders : place[k] \subseteq had[k]
    /\ asking \in [RegionCallers -> {Idle} \cup Call]
    /\ \A c \in RegionCallers : asking[c] # Idle => asking[c].place \in had[asking[c].feeder]
    /\ DOMAIN cached = Questions
    /\ \A q \in Questions :
          /\ DOMAIN cached[q] = RegionFeeders
          /\ \A k \in RegionFeeders : cached[q][k] \subseteq {Lookup(q, p) : p \in had[k]}

IInv == SinkInv /\ BridgeInv /\ RunwayInv /\ TreeInv /\ RegionInv

-----------------------------------------------------------------------------
(* The sink: no step takes a field back, and a step that makes one newer   *)
(* leaves somebody who brings it.                                          *)

LEMMA InitSink == SinkInit => SinkInv
<1> SUFFICES ASSUME SinkInit PROVE SinkInv
  OBVIOUS
<1>1. Zero \in Counts /\ \A f \in Fields : Zero[f] = 0
  BY DEF Zero, Counts, Fields
<1>2. Free \in Jobs /\ Free.at = "idle"
  BY <1>1 DEF Free, Jobs
<1>3. SinkType
  BY <1>1, <1>2 DEF SinkInit, SinkType, Senders
<1> QED
  BY <1>1, <1>2, <1>3 DEF SinkInit, SinkInv, Senders

LEMMA LaterType ==
    ASSUME NEW r \in Counts, NEW s \in Counts
    PROVE  /\ Later(r, s) \in Counts
           /\ \A f \in Fields : Later(r, s)[f] = IF r[f] < s[f] THEN s[f] ELSE r[f]
BY DEF Later, Counts, Fields

(* A step of one sender that leaves the planes and what was sent.          *)
LEMMA SinkMoves ==
    ASSUME SinkInv, NEW p \in Senders, NEW j \in Jobs,
           job' = [job EXCEPT ![p] = j], craft' = craft, sent' = sent,
           sendList' \subseteq Aircraft, batch' \subseteq Aircraft,
           j.at # "idle" => j.icao \in Aircraft /\ \A f \in Fields : j.rec[f] <= craft[j.icao][f],
           sendList \cup batch \cup refused \subseteq
               sendList' \cup batch' \cup refused' \cup
               (IF j.at \in {"set", "event", "read"} THEN {j.icao} ELSE {}),
           \A i \in Aircraft, f \in Fields : Brings(p, i, f) =>
               i \in sendList' \cup batch' \cup refused' \/ Brings(p, i, f)'
    PROVE  SinkInv'
<1>1. job'[p] = j /\ \A q \in Senders \ {p} : job'[q] = job[q]
  BY DEF SinkInv, SinkType
<1>2. SinkType'
  BY <1>1 DEF SinkInv, SinkType
<1>3. \A q \in Senders : job'[q].at # "idle" =>
          \A f \in Fields : job'[q].rec[f] <= craft'[job'[q].icao][f]
  BY <1>1 DEF SinkInv
<1>4. ASSUME NEW i \in Aircraft, NEW f \in Fields
      PROVE  \/ sent'[i][f] = craft'[i][f]
             \/ i \in sendList' \cup batch' \cup refused'
             \/ \E q \in Senders : Brings(q, i, f)'
  <2>1. CASE sent[i][f] = craft[i][f]
    BY <2>1
  <2>2. CASE i \in sendList \cup batch \cup refused
    <3>1. j.at \in {"set", "event", "read"} /\ j.icao = i => Brings(p, i, f)'
      BY <1>1 DEF Brings
    <3> QED
      BY <2>2, <3>1
  <2>3. ASSUME NEW q \in Senders, Brings(q, i, f), q # p
        PROVE  Brings(q, i, f)'
    BY <2>3, <1>1 DEF Brings
  <2> QED
    BY <2>1, <2>2, <2>3 DEF SinkInv
<1>5. \A i \in Aircraft, f \in Fields : sent'[i][f] <= craft'[i][f]
  BY DEF SinkInv
<1> QED
  BY <1>2, <1>3, <1>4, <1>5 DEF SinkInv

(* A handler sets a field of a plane: the sender that did so brings all of *)
(* the plane, and the records of the others stay no newer than it.         *)
LEMMA SinkSets ==
    ASSUME SinkInv, NEW p \in Senders, NEW j \in Jobs, NEW i \in Aircraft, NEW g \in Fields,
           job' = [job EXCEPT ![p] = j], craft' = [craft EXCEPT ![i][g] = @ + 1],
           UNCHANGED <<sent, sendList, batch, refused>>,
           j.at \in {"set", "event"}, j.icao = i,
           job[p].at = "idle" \/ job[p].icao = i,
           \A f \in Fields : j.rec[f] <= craft[i][f]
    PROVE  SinkInv'
<1>1. job'[p] = j /\ \A q \in Senders \ {p} : job'[q] = job[q]
  BY DEF SinkInv, SinkType
<1>2. craft \in [Aircraft -> Counts] /\ sent \in [Aircraft -> Counts] /\ craft' \in [Aircraft -> Counts]
  BY DEF SinkInv, SinkType, Counts
<1>3. /\ craft'[i][g] = craft[i][g] + 1
      /\ \A f \in Fields : f # g => craft'[i][f] = craft[i][f]
      /\ \A k \in Aircraft : k # i => craft'[k] = craft[k]
  BY <1>2 DEF Counts
<1>4. \A k \in Aircraft, f \in Fields : craft[k][f] <= craft'[k][f] /\ craft[k][f] \in Nat /\ craft'[k][f] \in Nat
  BY <1>2, <1>3 DEF Counts
<1>5. SinkType'
  BY <1>1, <1>2 DEF SinkInv, SinkType
<1>6. \A q \in Senders : job'[q].rec \in Counts
  BY <1>5 DEF SinkType, Jobs
<1>7. ASSUME NEW q \in Senders, job'[q].at # "idle", NEW f \in Fields
      PROVE  job'[q].rec[f] <= craft'[job'[q].icao][f]
  <2>1. job'[q].icao \in Aircraft /\ job'[q].rec[f] \in Nat
    BY <1>5, <1>6, <1>7 DEF SinkType, Counts
  <2>2. job'[q].rec[f] <= craft[job'[q].icao][f]
    BY <1>1, <1>7 DEF SinkInv
  <2> QED
    BY <2>1, <2>2, <1>4
<1>8. ASSUME NEW k \in Aircraft, NEW f \in Fields
      PROVE  /\ sent'[k][f] <= craft'[k][f]
             /\ \/ sent'[k][f] = craft'[k][f]
                \/ k \in sendList' \cup batch' \cup refused'
                \/ \E q \in Senders : Brings(q, k, f)'
  <2>1. sent[k][f] <= craft[k][f] /\ sent[k][f] \in Nat
    BY <1>2 DEF SinkInv, Counts
  <2>2. sent'[k][f] <= craft'[k][f]
    BY <2>1, <1>4
  <2>3. CASE k = i
    BY <2>2, <2>3, <1>1 DEF Brings
  <2>4. CASE k # i
    <3>1. craft'[k] = craft[k]
      BY <2>4, <1>3
    <3>2. ASSUME NEW q \in Senders, Brings(q, k, f)
          PROVE  Brings(q, k, f)'
      <4>1. q # p
        BY <3>2, <2>4 DEF Brings
      <4> QED
        BY <4>1, <3>1, <3>2, <1>1 DEF Brings
    <3> QED
      BY <2>2, <3>1, <3>2 DEF SinkInv
  <2> QED
    BY <2>3, <2>4
<1> QED
  BY <1>5, <1>7, <1>8 DEF SinkInv

(* What is published is no newer than the plane, so that the newest of     *)
(* what was published is not either, and it is the plane if the sender     *)
(* brought that.                                                           *)
LEMMA SinkPublishes ==
    ASSUME SinkInv, NEW p \in Senders, Publish(p)
    PROVE  SinkInv'
<1> DEFINE i == job[p].icao
<1>1. i \in Aircraft /\ job[p] \in Jobs /\ job[p].rec \in Counts /\ craft[i] \in Counts /\ sent[i] \in Counts
  BY DEF Publish, SinkInv, SinkType, Jobs
<1>2. Free \in Jobs /\ Free.at = "idle"
  BY DEF Free, Jobs, Zero, Counts, Fields
<1>3. job'[p] = Free /\ \A q \in Senders \ {p} : job'[q] = job[q]
  BY DEF SinkInv, SinkType, Publish
<1>4. craft' = craft /\ sendList' = sendList /\ batch' = batch
  BY DEF Publish
<1>5. \A f \in Fields : job[p].rec[f] <= craft[i][f] /\ sent[i][f] <= craft[i][f]
  BY <1>1 DEF SinkInv, Publish
<1>6. /\ sent' \in [Aircraft -> Counts]
      /\ \A k \in Aircraft : k # i => sent'[k] = sent[k]
      /\ refused \subseteq refused'
      /\ \/ sent' = sent /\ i \in refused'
         \/ sent'[i] = Later(sent[i], job[p].rec)
  <2>1. Later(sent[i], job[p].rec) \in Counts
    BY <1>1, LaterType
  <2> QED
    BY <1>1, <2>1 DEF Publish, SinkInv, SinkType
<1>7. SinkType'
  BY <1>2, <1>3, <1>4, <1>6 DEF SinkInv, SinkType, Publish
<1>8. \A q \in Senders : job'[q].at # "idle" =>
          \A f \in Fields : job'[q].rec[f] <= craft'[job'[q].icao][f]
  BY <1>2, <1>3, <1>4 DEF SinkInv
<1>9. ASSUME NEW q \in Senders, NEW k \in Aircraft, NEW f \in Fields, Brings(q, k, f), q # p
      PROVE  Brings(q, k, f)'
  BY <1>9, <1>3, <1>4 DEF Brings
<1>10. ASSUME NEW k \in Aircraft, NEW f \in Fields
       PROVE  /\ sent'[k][f] <= craft'[k][f]
              /\ \/ sent'[k][f] = craft'[k][f]
                 \/ k \in sendList' \cup batch' \cup refused'
                 \/ \E q \in Senders : Brings(q, k, f)'
  <2>1. CASE k # i
    <3>1. \A q \in Senders : Brings(q, k, f) => q # p
      BY <2>1 DEF Brings
    <3> QED
      BY <2>1, <3>1, <1>4, <1>6, <1>9 DEF SinkInv
  <2>2. CASE k = i /\ sent' = sent /\ i \in refused'
    BY <2>2, <1>4 DEF SinkInv
  <2>3. CASE k = i /\ sent'[i] = Later(sent[i], job[p].rec)
    <3>1. sent'[i][f] = IF sent[i][f] < job[p].rec[f] THEN job[p].rec[f] ELSE sent[i][f]
      BY <2>3, <1>1, LaterType
    <3>2. /\ job[p].rec[f] <= craft[i][f] /\ sent[i][f] <= craft[i][f]
          /\ job[p].rec[f] \in Nat /\ sent[i][f] \in Nat /\ craft[i][f] \in Nat
      BY <1>1, <1>5 DEF Counts
    <3>3. sent'[i][f] <= craft[i][f] /\ sent[i][f] <= sent'[i][f]
      BY <3>1, <3>2
    <3>4. CASE Brings(p, i, f)
      <4>1. job[p].rec[f] = craft[i][f]
        BY <3>4 DEF Brings, Publish
      <4>2. sent'[i][f] = craft[i][f]
        BY <4>1, <3>1, <3>2
      <4> QED
        BY <2>3, <4>2, <3>3, <1>4
    <3>5. CASE sent[i][f] = craft[i][f]
      <4>1. sent'[i][f] = craft[i][f]
        BY <3>5, <3>1, <3>2
      <4> QED
        BY <2>3, <4>1, <3>3, <1>4
    <3>6. CASE i \in sendList \cup batch \cup refused
      BY <2>3, <3>6, <3>3, <1>4, <1>6
    <3>7. ASSUME NEW q \in Senders, Brings(q, i, f), q # p
          PROVE  \E r \in Senders : Brings(r, k, f)'
      BY <2>3, <3>7, <1>9
    <3> QED
      BY <1>1, <2>3, <3>3, <3>4, <3>5, <3>6, <3>7, <1>4 DEF SinkInv
  <2> QED
    BY <2>1, <2>2, <2>3, <1>6
<1> QED
  BY <1>7, <1>8, <1>10 DEF SinkInv

LEMMA SinkReads ==
    ASSUME SinkInv, NEW p \in Senders, ReadField(p)
    PROVE  SinkInv'
<1> DEFINE i == job[p].icao
<1>0. PICK j : j = IF job[p].at = "read" THEN [job[p] EXCEPT !.at = "read2", !.rec.a = craft[i].a]
                   ELSE [job[p] EXCEPT !.at = "publish", !.rec.b = craft[i].b]
  OBVIOUS
<1>1. i \in Aircraft /\ job[p] \in Jobs /\ job[p].rec \in Counts /\ craft[i] \in Counts
  BY DEF ReadField, SinkInv, SinkType, Jobs
<1>2. job' = [job EXCEPT ![p] = j]
  BY <1>0, <1>1 DEF ReadField, SinkInv, SinkType
<1>3. j.icao = i /\ j \in Jobs /\ j.at \in {"read2", "publish"}
  BY <1>0, <1>1 DEF Jobs, Counts, Fields
<1>4. /\ job[p].at = "read" => j.at = "read2" /\ j.rec["a"] = craft[i]["a"] /\ j.rec["b"] = job[p].rec["b"]
      /\ job[p].at # "read" => j.at = "publish" /\ j.rec["b"] = craft[i]["b"] /\ j.rec["a"] = job[p].rec["a"]
  BY <1>0, <1>1 DEF Jobs, Counts, Fields
<1>5. \A f \in Fields : j.rec[f] <= craft[j.icao][f]
  <2>1. \A f \in Fields : job[p].rec[f] <= craft[i][f] /\ craft[i][f] \in Nat
    BY <1>1 DEF SinkInv, ReadField, Counts
  <2> QED
    BY <1>3, <1>4, <2>1 DEF Fields
<1>6. job'[p] = j /\ craft' = craft /\ sent' = sent
      /\ sendList' = sendList /\ batch' = batch /\ refused' = refused
      /\ sendList \subseteq Aircraft /\ batch \subseteq Aircraft
  BY <1>2 DEF SinkInv, SinkType, ReadField
<1>7. ASSUME NEW k \in Aircraft, NEW f \in Fields, Brings(p, k, f)
      PROVE  Brings(p, k, f)'
  BY <1>7, <1>3, <1>4, <1>6 DEF Brings, ReadField, Fields
<1>8. sendList \cup batch \cup refused \subseteq
          sendList' \cup batch' \cup refused' \cup
          (IF j.at \in {"set", "event", "read"} THEN {j.icao} ELSE {})
  BY <1>6
<1>9. sendList' \subseteq Aircraft /\ batch' \subseteq Aircraft
  BY <1>6
<1> QED
  BY <1>1, <1>2, <1>3, <1>5, <1>6, <1>7, <1>8, <1>9, SinkMoves

LEMMA StepSink == ASSUME SinkInv, [SinkNext]_sinkVars PROVE SinkInv'
<1>1. Ticker \in Senders /\ Handlers \subseteq Senders /\ Zero \in Counts
  BY DEF Senders, Zero, Counts, Fields
<1>2. Free \in Jobs /\ Free.at = "idle"
  BY <1>1 DEF Free, Jobs
<1>3. craft \in [Aircraft -> Counts] /\ job \in [Senders -> Jobs]
  BY DEF SinkInv, SinkType
<1>4. ASSUME UNCHANGED <<craft, job, sendList, batch, sent, refused>> PROVE SinkInv'
  BY <1>4 DEF SinkInv, SinkType, Brings
<1>5. ASSUME NEW h \in Handlers, SetFirst(h) PROVE SinkInv'
  <2>1. PICK i \in Aircraft :
            /\ craft' = [craft EXCEPT ![i].a = @ + 1]
            /\ job' = [job EXCEPT ![h] = [at |-> "set", icao |-> i, rec |-> Zero]]
    BY <1>5 DEF SetFirst
  <2> DEFINE j == [at |-> "set", icao |-> i, rec |-> Zero]
  <2>2. j \in Jobs /\ j.at = "set" /\ j.icao = i
    BY <1>1 DEF Jobs
  <2>3. \A f \in Fields : j.rec[f] <= craft[i][f]
    BY <1>3 DEF Zero, Counts, Fields
  <2>4. UNCHANGED <<sent, sendList, batch, refused>> /\ job[h].at = "idle" /\ "a" \in Fields
    BY <1>5 DEF SetFirst, Fields
  <2> QED
    BY <1>1, <2>1, <2>2, <2>3, <2>4, SinkSets
<1>6. ASSUME NEW h \in Handlers, SetSecond(h) PROVE SinkInv'
  <2> DEFINE i == job[h].icao
             j == [job[h] EXCEPT !.at = "event"]
  <2>1. job[h] \in Jobs /\ i \in Aircraft
    BY <1>1, <1>6 DEF SetSecond, SinkInv, SinkType
  <2>2. j \in Jobs /\ j.at = "event" /\ j.icao = i /\ j.rec = job[h].rec
    BY <2>1 DEF Jobs
  <2>3. \A f \in Fields : j.rec[f] <= craft[i][f]
    BY <1>1, <1>6, <2>2 DEF SetSecond, SinkInv
  <2>4. /\ job' = [job EXCEPT ![h] = j] /\ craft' = [craft EXCEPT ![i]["b"] = @ + 1]
        /\ UNCHANGED <<sent, sendList, batch, refused>> /\ "b" \in Fields
    BY <1>6, <1>3, <1>1 DEF SetSecond, Fields
  <2> HIDE DEF j
  <2> QED
    BY <1>1, <2>1, <2>2, <2>3, <2>4, SinkSets
<1>7. ASSUME NEW h \in Handlers, OnEvent(h) PROVE SinkInv'
  <2> DEFINE i == job[h].icao
             j == [job[h] EXCEPT !.at = "read"]
  <2>1. job[h] \in Jobs /\ i \in Aircraft /\ \A f \in Fields : job[h].rec[f] <= craft[i][f]
    BY <1>1, <1>7 DEF OnEvent, SinkInv, SinkType
  <2>2. j \in Jobs /\ j.at = "read" /\ j.icao = i /\ j.rec = job[h].rec
    BY <2>1 DEF Jobs
  <2>3. UNCHANGED <<craft, batch, sent, refused>> /\ sendList \subseteq Aircraft /\ batch \subseteq Aircraft
    BY <1>7 DEF OnEvent, SinkInv, SinkType
  <2>4. CASE sendList' = Listed(i) /\ job' = [job EXCEPT ![h] = Free]
    <3>1. sendList \subseteq sendList' /\ i \in sendList' /\ sendList' \subseteq Aircraft
      BY <2>1, <2>4 DEF Listed, SinkInv, SinkType
    <3>2. \A k \in Aircraft, f \in Fields : Brings(h, k, f) => k \in sendList'
      BY <3>1 DEF Brings
    <3> QED
      BY <1>1, <1>2, <2>3, <2>4, <3>1, <3>2, SinkMoves
  <2>5. CASE job' = [job EXCEPT ![h] = j] /\ UNCHANGED sendList
    <3>1. job'[h] = j
      BY <1>1, <1>3, <2>5
    <3>2. ASSUME NEW k \in Aircraft, NEW f \in Fields, Brings(h, k, f)
          PROVE  Brings(h, k, f)'
      BY <3>1, <3>2, <2>2 DEF Brings
    <3> HIDE DEF j
    <3>3. sendList \cup batch \cup refused \subseteq
              sendList' \cup batch' \cup refused' \cup
              (IF j.at \in {"set", "event", "read"} THEN {j.icao} ELSE {})
      BY <2>3, <2>5
    <3>4. sendList' \subseteq Aircraft /\ batch' \subseteq Aircraft
      BY <2>3, <2>5
    <3> QED
      BY <1>1, <2>1, <2>2, <2>3, <2>5, <3>2, <3>3, <3>4, SinkMoves
  <2>6. \/ job' = [job EXCEPT ![h] = j] /\ UNCHANGED sendList
        \/ sendList' = Listed(i) /\ job' = [job EXCEPT ![h] = Free]
    BY <1>7, <1>1, <1>3 DEF OnEvent
  <2> QED
    BY <2>4, <2>5, <2>6
<1>8. ASSUME SwapList PROVE SinkInv'
  <2>1. /\ UNCHANGED <<craft, job, sent, refused>> /\ sendList \cup batch \subseteq sendList' \cup batch'
        /\ sendList' \subseteq Aircraft /\ batch' \subseteq Aircraft
    BY <1>8 DEF SwapList, SinkInv, SinkType
  <2> QED
    BY <2>1 DEF SinkInv, SinkType, Brings
<1>9. ASSUME NextOfBatch PROVE SinkInv'
  <2>1. PICK i \in batch :
            /\ batch' = batch \ {i}
            /\ job' = [job EXCEPT ![Ticker] = [at |-> "read", icao |-> i, rec |-> Zero]]
    BY <1>9 DEF NextOfBatch
  <2> DEFINE j == [at |-> "read", icao |-> i, rec |-> Zero]
  <2>2. UNCHANGED <<craft, sendList, sent, refused>> /\ job[Ticker].at = "idle"
    BY <1>9 DEF NextOfBatch
  <2>3. i \in Aircraft /\ sendList' \subseteq Aircraft /\ batch' \subseteq Aircraft
    BY <2>1, <2>2 DEF SinkInv, SinkType
  <2>4. j \in Jobs /\ j.at = "read" /\ j.icao = i /\ \A f \in Fields : j.rec[f] <= craft[i][f]
    BY <1>1, <1>3, <2>3 DEF Jobs, Zero, Counts, Fields
  <2>5. \A k \in Aircraft, f \in Fields : ~ Brings(Ticker, k, f)
    BY <2>2 DEF Brings
  <2> QED
    BY <1>1, <2>1, <2>2, <2>3, <2>4, <2>5, SinkMoves
<1>10. ASSUME Connected \/ ConnectFails \/ CloseDest \/ StopTicker PROVE SinkInv'
  BY <1>4, <1>10 DEF Connected, ConnectFails, CloseDest, StopTicker, UnchangedData
<1>11. ASSUME UNCHANGED sinkVars PROVE SinkInv'
  BY <1>4, <1>11 DEF sinkVars
<1> QED
  BY <1>1, <1>5, <1>6, <1>7, <1>8, <1>9, <1>10, <1>11, SinkReads, SinkPublishes DEF SinkNext

(* At rest nothing is in a list and nobody is on the way.                  *)
LEMMA SinkSettled == ASSUME SinkInv PROVE Settled
<1> SUFFICES ASSUME sendList = {}, batch = {}, \A p \in DOMAIN job : job[p].at = "idle", refused = {}
             PROVE  sent = craft
  BY DEF Settled
<1>1. craft \in [Aircraft -> Counts] /\ sent \in [Aircraft -> Counts] /\ DOMAIN job = Senders
  BY DEF SinkInv, SinkType
<1>2. \A p \in Senders, i \in Aircraft, f \in Fields : ~ Brings(p, i, f)
  BY <1>1 DEF Brings
<1>3. \A i \in Aircraft : \A f \in Fields : sent[i][f] = craft[i][f]
  BY <1>2 DEF SinkInv
<1>4. \A i \in Aircraft : sent[i] \in Counts /\ craft[i] \in Counts
  BY <1>1
<1>5. \A i \in Aircraft : sent[i] = craft[i]
  BY <1>3, <1>4 DEF Counts
<1> QED
  BY <1>1, <1>5

-----------------------------------------------------------------------------
(* The bridge.                                                             *)

LEMMA InitBridge == BridgeInit => BridgeInv
BY DEF BridgeInit, BridgeInv, NoByteLost

LEMMA StepBridge == ASSUME BridgeInv, [BridgeNext]_bridgeVars PROVE BridgeInv'
<1>1. ASSUME UNCHANGED <<taken, forwarded, copy>>, arrived' \in [Sides -> Int]
      PROVE  BridgeInv'
  BY <1>1 DEF BridgeInv, NoByteLost
<1>2. ASSUME Invalidated \/ Poison \/ UNCHANGED bridgeVars PROVE BridgeInv'
  BY <1>1, <1>2 DEF BridgeInv, Invalidated, Poison, bridgeVars
<1>3. ASSUME NEW s \in Sides, Sends(s) \/ Stalls(s) \/ Hangup(s) PROVE BridgeInv'
  <2>1. arrived' \in [Sides -> Int] /\ UNCHANGED <<taken, forwarded, copy>>
    BY <1>3 DEF BridgeInv, Sends, Stalls, Hangup
  <2> QED
    BY <2>1, <1>1
<1>4. ASSUME NEW s \in Sides, SeesCancel(s) \/ ReadFails(s) \/ WriteFails(s) PROVE BridgeInv'
  BY <1>4 DEF BridgeInv, NoByteLost, SeesCancel, ReadFails, WriteFails, End
<1>5. ASSUME NEW s \in Sides, Reads(s) PROVE BridgeInv'
  <2>1. PICK n \in taken[s] + 1 .. arrived[s] : taken' = [taken EXCEPT ![s] = n]
    BY <1>5 DEF Reads
  <2>2. taken[s] \in Int /\ arrived[s] \in Int
    BY DEF BridgeInv
  <2>3. n \in Int
    BY <2>2
  <2> QED
    BY <1>5, <2>1, <2>3 DEF BridgeInv, NoByteLost, Reads
<1>6. ASSUME NEW s \in Sides, Writes(s) PROVE BridgeInv'
  <2>1. PICK n \in forwarded[s] + 1 .. taken[s] :
            forwarded' = [forwarded EXCEPT ![s] = n] /\ copy' = AfterWrite(s, n)
    BY <1>6 DEF Writes
  <2>2. taken[s] \in Int /\ forwarded[s] \in Int
    BY DEF BridgeInv
  <2>3. n \in Int
    BY <2>2
  <2> QED
    BY <1>6, <2>1, <2>3 DEF BridgeInv, NoByteLost, Writes, AfterWrite
<1> QED
  BY <1>2, <1>3, <1>4, <1>5, <1>6 DEF BridgeNext

-----------------------------------------------------------------------------
(* Runway: a certificate is replaced only by one that loads.               *)

LEMMA InitRunway == RunwayInit => RunwayInv
BY DEF RunwayInit, RunwayInv, ServedWhole, NoLink, Listeners, Links, LinkStates

RunwayUses == <<cert, served, disk, issued, listener, feed>>

LEMMA StepRunway == ASSUME RunwayInv, [RunwayNext]_runwayVars PROVE RunwayInv'
<1>1. ASSUME UNCHANGED RunwayUses PROVE RunwayInv'
  BY <1>1 DEF RunwayInv, RunwayUses, ServedWhole
<1>2. ASSUME NEW l \in Listeners, StartListener(l) PROVE RunwayInv'
  <2>1. /\ UNCHANGED <<disk, issued, served, feed>> /\ listener[l] = "new"
        /\ \/ listener' = [listener EXCEPT ![l] = "returned"] /\ cert' = cert
           \/ disk # 0 /\ listener' = [listener EXCEPT ![l] = "loaded"] /\ cert' = [cert EXCEPT ![l] = disk]
    BY <1>2 DEF StartListener, Returned, feedVars
  <2>2. \A c \in Connections : feed[c].to \in Listeners
    BY DEF RunwayInv, Links
  <2>3. CASE cert' = cert
    BY <2>1, <2>3 DEF RunwayInv, ServedWhole
  <2>4. CASE disk # 0 /\ listener' = [listener EXCEPT ![l] = "loaded"] /\ cert' = [cert EXCEPT ![l] = disk]
    <3>1. /\ cert' \in [Listeners -> Nat]
          /\ listener' \in [Listeners -> {"new", "loaded", "open", "closing", "returned"}]
      BY <2>4 DEF RunwayInv
    <3>2. \A k \in Listeners : cert[k] # 0 \/ k = l => cert'[k] # 0
      BY <2>4 DEF RunwayInv
    <3>3. \A k \in Listeners : listener'[k] \in {"loaded", "open", "closing"} => cert'[k] # 0
      BY <2>4, <3>2 DEF RunwayInv
    <3> QED
      BY <2>1, <2>2, <3>1, <3>2, <3>3 DEF RunwayInv, ServedWhole
  <2> QED
    BY <2>1, <2>3, <2>4
<1>3. ASSUME NEW l \in Listeners, Listen(l) PROVE RunwayInv'
  <2>1. /\ UNCHANGED <<cert, disk, issued, served, feed>> /\ listener[l] = "loaded"
        /\ \E at \in {"open", "returned"} : listener' = [listener EXCEPT ![l] = at]
    BY <1>3 DEF Listen, Returned, feedVars
  <2> QED
    BY <2>1 DEF RunwayInv, ServedWhole
<1>4. ASSUME NEW l \in Listeners, CloseListener(l) PROVE RunwayInv'
  <2>1. /\ UNCHANGED <<cert, disk, issued, served>> /\ listener[l] = "open"
        /\ listener' = [listener EXCEPT ![l] = "closing"]
    BY <1>4 DEF CloseListener
  <2>2. \A c \in Connections : feed[c] \in Links
    BY DEF RunwayInv
  <2>3. \A c \in Connections :
            \/ feed'[c] = feed[c]
            \/ feed[c].at = "waiting" /\ feed'[c] = [at |-> "gone", to |-> l] /\ feed[c].to = l
    BY <1>4 DEF CloseListener
  <2>4. \A c \in Connections :
            /\ feed'[c].to = feed[c].to /\ feed'[c] \in Links
            /\ feed[c].at = "none" => feed'[c].at = "none"
    BY <2>2, <2>3 DEF Links, LinkStates
  <2>5. feed' \in [Connections -> Links]
    BY <2>4, <1>4 DEF CloseListener
  <2> QED
    BY <2>1, <2>4, <2>5 DEF RunwayInv, ServedWhole
<1>5. ASSUME NEW l \in Listeners, ReloadCertificate(l) PROVE RunwayInv'
  BY <1>5 DEF RunwayInv, ServedWhole, ReloadCertificate, feedVars
<1>6. ASSUME NEW l \in Listeners, TickerEnds(l) \/ AcceptClosed(l) PROVE RunwayInv'
  BY <1>1, <1>6 DEF TickerEnds, AcceptClosed, RunwayUses, feedVars
<1>7. ASSUME NEW l \in Listeners, ListenReturns(l) PROVE RunwayInv'
  BY <1>7 DEF RunwayInv, ServedWhole, ListenReturns, Returned, feedVars
(* A connection goes on where it is.                                       *)
<1>8. ASSUME NEW c \in Connections, feed[c].at # "none",
             NEW at \in LinkStates, feed' = [feed EXCEPT ![c].at = at],
             UNCHANGED <<cert, disk, issued, listener>>,
             served' = served \/ served' = [served EXCEPT ![c] = cert[feed[c].to]]
      PROVE  RunwayInv'
  <2>1. feed[c] \in Links /\ cert[feed[c].to] \in Nat \ {0}
    BY <1>8 DEF RunwayInv, Links
  <2>2. feed'[c].to = feed[c].to /\ \A d \in Connections : d # c => feed'[d] = feed[d]
    BY <2>1, <1>8 DEF RunwayInv, Links
  <2>3. feed' \in [Connections -> Links]
    BY <2>1, <1>8 DEF RunwayInv, Links
  <2>4. served' \in [Connections -> Nat] /\ ServedWhole'
    BY <2>1, <1>8 DEF RunwayInv, ServedWhole
  <2>5. \A d \in Connections : feed'[d].at # "none" => cert'[feed'[d].to] # 0
    BY <2>1, <2>2, <1>8 DEF RunwayInv
  <2> QED
    BY <2>3, <2>4, <2>5, <1>8 DEF RunwayInv
<1>9. ASSUME NEW c \in Connections, Accept(c) PROVE RunwayInv'
  BY <1>8, <1>9 DEF Accept, listenVars, LinkStates
<1>10. ASSUME NEW c \in Connections, HandleIncoming(c) PROVE RunwayInv'
  <2>1. PICK at \in {Handler(feed[c].to), "gone"} : feed' = [feed EXCEPT ![c].at = at]
    BY <1>10 DEF HandleIncoming
  <2>2. at \in LinkStates /\ feed[c].at # "none"
    BY <1>10 DEF Handler, HandleIncoming, LinkStates
  <2>3. UNCHANGED <<cert, disk, issued, listener>> /\ served' = [served EXCEPT ![c] = cert[feed[c].to]]
    BY <1>10 DEF HandleIncoming, listenVars
  <2> QED
    BY <2>1, <2>2, <2>3, <1>8
<1>11. ASSUME NEW c \in Connections, Leave(c) \/ ProducerStops(c) PROVE RunwayInv'
  BY <1>8, <1>11 DEF Leave, ProducerStops, Producers, listenVars, LinkStates
<1>12. ASSUME NEW c \in Connections, NEW l \in Listeners, Connect(c, l) PROVE RunwayInv'
  <2>1. /\ UNCHANGED <<cert, disk, issued, listener, served>> /\ listener[l] = "open"
        /\ feed' = [feed EXCEPT ![c] = [at |-> "waiting", to |-> l]]
    BY <1>12 DEF Connect, listenVars
  <2> QED
    BY <2>1 DEF RunwayInv, ServedWhole, Links, LinkStates
<1>13. ASSUME Renew PROVE RunwayInv'
  <2>1. UNCHANGED <<cert, listener, served, feed>> /\ disk' \in Nat /\ issued' \in Nat \ {0}
    BY <1>13 DEF Renew, RunwayInv, listenVars, feedVars
  <2> QED
    BY <2>1 DEF RunwayInv, ServedWhole
<1>14. ASSUME Signal \/ EndStep \/ ForceExit \/ MainStep PROVE RunwayInv'
  BY <1>1, <1>14 DEF Signal, EndStep, ForceExit, MainStep, StopFinishes, StopDrained, CancelAfterStop,
                     UnchangedWork, RunwayUses, listenVars, feedVars
<1>15. ASSUME UNCHANGED runwayVars PROVE RunwayInv'
  BY <1>1, <1>15 DEF runwayVars, RunwayUses
<1> QED
  BY <1>2, <1>3, <1>4, <1>5, <1>6, <1>7, <1>9, <1>10, <1>11, <1>12, <1>13, <1>14, <1>15
     DEF RunwayNext, ListenerStep, ConnectionStep

-----------------------------------------------------------------------------
(* The filter: a record is swept when the last frame is long ago.          *)

LEMMA InitTree == TreeInit => TreeInv
<1> SUFFICES ASSUME TreeInit PROVE TreeInv
  OBVIOUS
<1>1. 0 \in Ages /\ MaxAge + 1 \in Ages
  BY TreeAssumption DEF Ages
<1>2. (CHOOSE k \in TreeKeys : TRUE) \in TreeKeys \cup {CHOOSE k \in TreeKeys : TRUE}
  OBVIOUS
<1>3. handle \in [TreeWorkers -> HandleRecords]
  BY <1>1, <1>2 DEF TreeInit, HandleRecords
<1> QED
  BY <1>1, <1>3 DEF TreeInit, TreeInv, OnceWithinAge

LEMMA StepTree == ASSUME TreeInv, [TreeNext]_treeVars PROVE TreeInv'
<1>1. /\ 0 \in Ages /\ MaxAge + 1 \in Ages /\ MaxAge \in Nat /\ NoRecord \notin Ages
      /\ \A a \in Ages : a \in Int /\ Older(a) \in Ages
      /\ Older(MaxAge + 1) = MaxAge + 1
  BY TreeAssumption DEF Ages, NoRecord, Older
<1>2. ASSUME NEW w \in TreeWorkers, NEW k \in TreeKeys, Look(w, k) PROVE TreeInv'
  <2>1. UNCHANGED <<tree, passing>>
    BY <1>2 DEF Look
  <2>2. CASE UNCHANGED <<handle, early>>
    BY <2>1, <2>2 DEF TreeInv, OnceWithinAge
  <2>3. CASE ~ Has(k)
    <3>1. passing[k] = MaxAge + 1
      BY <2>3 DEF Has, TreeInv
    <3>2. early' = early
      BY <1>1, <1>2, <2>3, <3>1 DEF Look
    <3>3. handle' = [handle EXCEPT ![w] = [at |-> "stamp", key |-> k, age |-> 0]]
      BY <1>2, <2>3 DEF Look
    <3>4. [at |-> "stamp", key |-> k, age |-> 0] \in HandleRecords
      BY <1>1 DEF HandleRecords
    <3> QED
      BY <2>1, <3>2, <3>3, <3>4 DEF TreeInv, OnceWithinAge
  <2> QED
    BY <1>2, <2>2, <2>3 DEF Look
<1>3. ASSUME NEW w \in TreeWorkers, Stamp(w) PROVE TreeInv'
  <2>1. handle[w] \in HandleRecords
    BY DEF TreeInv
  <2>2. [handle[w] EXCEPT !.at = "insert"] \in HandleRecords
    BY <2>1 DEF HandleRecords
  <2>3. handle' \in [TreeWorkers -> HandleRecords]
    BY <1>3, <2>2 DEF TreeInv, Stamp
  <2>4. \A v \in TreeWorkers : handle'[v].at # "idle" => handle'[v].key \in TreeKeys
    BY <1>3, <2>1 DEF TreeInv, Stamp, HandleRecords
  <2> QED
    BY <1>3, <2>3, <2>4 DEF TreeInv, OnceWithinAge, Stamp
<1>4. ASSUME NEW w \in TreeWorkers, ReplaceOrInsert(w) PROVE TreeInv'
  <2>1. handle[w] \in HandleRecords /\ handle[w].key \in TreeKeys /\ handle[w].age \in Ages
    BY <1>4 DEF TreeInv, ReplaceOrInsert, HandleRecords
  <2>2. [handle[w] EXCEPT !.at = "idle"] \in HandleRecords
    BY <2>1 DEF HandleRecords
  <2>3. handle' \in [TreeWorkers -> HandleRecords]
    BY <1>4, <2>2 DEF TreeInv, ReplaceOrInsert
  <2>4. \A v \in TreeWorkers : handle'[v].at # "idle" => handle'[v].key \in TreeKeys
    BY <1>4, <2>1 DEF TreeInv, ReplaceOrInsert, HandleRecords
  <2>5. /\ tree' = [tree EXCEPT ![handle[w].key] = handle[w].age]
        /\ passing' = [passing EXCEPT ![handle[w].key] = handle[w].age]
        /\ early' = early
    BY <1>4 DEF ReplaceOrInsert
  <2>6. tree' \in [TreeKeys -> Ages \cup {NoRecord}]
    BY <2>1, <2>5 DEF TreeInv
  <2>7. passing' = [k \in TreeKeys |-> IF tree'[k] = NoRecord THEN MaxAge + 1 ELSE tree'[k]]
    BY <1>1, <2>1, <2>5 DEF TreeInv
  <2> QED
    BY <2>3, <2>4, <2>5, <2>6, <2>7 DEF TreeInv, OnceWithinAge
<1>5. ASSUME Sweep PROVE TreeInv'
  <2>1. /\ tree' = [k \in TreeKeys |-> IF Old(k) THEN NoRecord ELSE tree[k]]
        /\ UNCHANGED <<handle, passing, early>>
    BY <1>5 DEF Sweep
  <2>2. \A k \in TreeKeys : Old(k) => tree[k] = MaxAge + 1
    BY TreeAssumption DEF Old, TreeInv, Ages, NoRecord
  <2>3. \A k \in TreeKeys : passing'[k] = IF tree'[k] = NoRecord THEN MaxAge + 1 ELSE tree'[k]
    BY <1>1, <2>1, <2>2 DEF TreeInv
  <2>4. passing' = [k \in TreeKeys |-> IF tree'[k] = NoRecord THEN MaxAge + 1 ELSE tree'[k]]
    BY <2>1, <2>3 DEF TreeInv
  <2>5. tree' \in [TreeKeys -> Ages \cup {NoRecord}]
    BY <2>1 DEF TreeInv
  <2> QED
    BY <2>1, <2>4, <2>5 DEF TreeInv, OnceWithinAge
<1>6. ASSUME TreeTick PROVE TreeInv'
  <2>1. tree' = [k \in TreeKeys |-> IF tree[k] = NoRecord THEN NoRecord ELSE Older(tree[k])]
    BY <1>6 DEF TreeTick
  <2>2. passing' = [k \in TreeKeys |-> Older(passing[k])] /\ early' = early
    BY <1>6 DEF TreeTick
  <2>3. tree' \in [TreeKeys -> Ages \cup {NoRecord}]
    BY <1>1, <2>1 DEF TreeInv
  <2>4. \A k \in TreeKeys : Older(passing[k]) = IF tree'[k] = NoRecord THEN MaxAge + 1 ELSE tree'[k]
    BY <1>1, <2>1 DEF TreeInv
  <2>5. \A w \in TreeWorkers : handle[w] \in HandleRecords
    BY DEF TreeInv
  <2>6. \A w \in TreeWorkers :
            /\ handle'[w] \in HandleRecords
            /\ handle'[w].at = handle[w].at /\ handle'[w].key = handle[w].key
    BY <1>1, <1>6, <2>5 DEF TreeTick, HandleRecords
  <2>7. handle' \in [TreeWorkers -> HandleRecords]
    BY <1>6, <2>6 DEF TreeTick
  <2> QED
    BY <2>2, <2>3, <2>4, <2>6, <2>7 DEF TreeInv, OnceWithinAge
<1>7. ASSUME CallStop \/ StopSweeper \/ UNCHANGED treeVars PROVE TreeInv'
  BY <1>7 DEF TreeInv, OnceWithinAge, CallStop, StopSweeper, treeVars
<1> QED
  BY <1>2, <1>3, <1>4, <1>5, <1>6, <1>7 DEF TreeNext, HandleStep

-----------------------------------------------------------------------------
(* The regions: the search takes the first feature around the point.       *)

LEMMA FirstIsHit ==
    ASSUME NEW pt, Hits(pt) # {}
    PROVE  First(Hits(pt)) \in Hits(pt)
<1>1. Hits(pt) \subseteq Nat
  BY RegionAssumption DEF Hits
<1>2. PICK i \in Hits(pt) : \A j \in Hits(pt) : <<j, i>> \notin OpToRel(<, Nat)
  BY <1>1, NatLessThanWellFounded, WFMin
<1>3. ASSUME NEW j \in Hits(pt) PROVE i <= j
  <2>1. i \in Nat /\ j \in Nat
    BY <1>1
  <2>2. ~ (j < i)
    BY <1>2, <2>1 DEF OpToRel
  <2> QED
    BY <2>1, <2>2
<1> DEFINE hits == Hits(pt)
<1>4. \E h \in hits : \A j \in hits : h <= j
  BY <1>3
<1> HIDE DEF hits
<1>5. First(hits) \in hits
  BY <1>4 DEF First
<1> QED
  BY <1>5 DEF hits

LEMMA InitRegion == RegionInit => RegionInv
BY DEF RegionInit, RegionInv, Idle

LEMMA StepRegion == ASSUME RegionInv, [RegionNext]_regionVars PROVE RegionInv'
<1>1. ASSUME NEW k \in RegionFeeders, NEW new \in {{}} \cup {{p} : p \in Places}, Refresh(k, new)
      PROVE  RegionInv'
  <2>1. /\ place' = [place EXCEPT ![k] = new] /\ had' = [had EXCEPT ![k] = @ \cup new]
        /\ UNCHANGED <<cached, asking>> /\ new \subseteq Places
    BY <1>1 DEF Refresh
  <2>2. /\ place' \in [RegionFeeders -> SUBSET Places] /\ had' \in [RegionFeeders -> SUBSET Places]
        /\ \A j \in RegionFeeders : place'[j] \subseteq had'[j] /\ had[j] \subseteq had'[j]
    BY <2>1 DEF RegionInv
  <2>3. \A c \in RegionCallers : asking[c] # Idle => asking[c].feeder \in RegionFeeders
    BY DEF RegionInv, Call
  <2>4. \A c \in RegionCallers : asking'[c] # Idle => asking'[c].place \in had'[asking'[c].feeder]
    BY <2>1, <2>2, <2>3 DEF RegionInv
  <2>5. ASSUME NEW q \in Questions, NEW j \in RegionFeeders
        PROVE  cached'[q][j] \subseteq {Lookup(q, p) : p \in had'[j]}
    BY <2>1, <2>2 DEF RegionInv
  <2> QED
    BY <2>1, <2>2, <2>4, <2>5 DEF RegionInv
<1>2. ASSUME NEW c \in RegionCallers, NEW k \in RegionFeeders, NEW q \in Questions, GetFeeder(c, k, q)
      PROVE  RegionInv'
  <2>1. PICK p \in place[k] : asking' =
            [asking EXCEPT ![c] = [at |-> "look", feeder |-> k, question |-> q, place |-> p]]
    BY <1>2 DEF GetFeeder
  <2>2. p \in Places /\ p \in had[k] /\ UNCHANGED <<place, cached, had>>
    BY <1>2 DEF GetFeeder, RegionInv
  <2>3. [at |-> "look", feeder |-> k, question |-> q, place |-> p] \in Call
    BY <2>2 DEF Call
  <2> QED
    BY <2>1, <2>2, <2>3 DEF RegionInv
<1>3. ASSUME NEW c \in RegionCallers, asking[c] # Idle
      PROVE  /\ asking[c] \in Call /\ asking[c].feeder \in RegionFeeders /\ asking[c].question \in Questions
             /\ asking[c].place \in had[asking[c].feeder]
  BY <1>3 DEF RegionInv, Call
<1>4. ASSUME NEW c \in RegionCallers, LookInCache(c) PROVE RegionInv'
  <2>1. asking[c] # Idle
    BY <1>4 DEF LookInCache, Idle
  <2>2. asking[c] \in Call
    BY <1>3, <2>1
  <2> DEFINE hit == cached[asking[c].question][asking[c].feeder] # {}
  <2>3. PICK r : r = IF hit THEN Idle ELSE [asking[c] EXCEPT !.at = "store"]
    BY Zenon
  <2>4. r = Idle \/ (r \in Call /\ r.place = asking[c].place /\ r.feeder = asking[c].feeder)
    BY <2>2, <2>3 DEF Call
  <2> HIDE DEF hit
  <2>5. asking' = [asking EXCEPT ![c] = r] /\ UNCHANGED <<place, cached, had>>
    BY <1>4, <2>3 DEF LookInCache, RegionInv, hit
  <2>6. \A d \in RegionCallers : asking'[d] # Idle => asking'[d].place \in had[asking'[d].feeder]
    BY <1>3, <2>1, <2>4, <2>5 DEF RegionInv
  <2> QED
    BY <2>4, <2>5, <2>6 DEF RegionInv
<1>5. ASSUME NEW c \in RegionCallers, StoreInCache(c) PROVE RegionInv'
  <2>1. asking[c] # Idle
    BY <1>5 DEF StoreInCache, Idle
  <2> DEFINE k == asking[c].feeder
             q == asking[c].question
  <2>2. k \in RegionFeeders /\ q \in Questions /\ asking[c].place \in had[k]
    BY <1>3, <2>1
  <2>3. /\ cached' = [cached EXCEPT ![q][k] = {Lookup(q, asking[c].place)}]
        /\ asking' = [asking EXCEPT ![c] = Idle] /\ UNCHANGED <<place, had>>
    BY <1>5 DEF StoreInCache
  <2>4. DOMAIN cached' = Questions /\ \A r \in Questions : DOMAIN cached'[r] = RegionFeeders
    BY <2>2, <2>3 DEF RegionInv
  <2>5. ASSUME NEW r \in Questions, NEW j \in RegionFeeders
        PROVE  cached'[r][j] \subseteq {Lookup(r, p) : p \in had'[j]}
    <3>1. CASE r = q /\ j = k
      <4>1. cached'[r][j] = {Lookup(q, asking[c].place)}
        BY <2>2, <2>3, <3>1 DEF RegionInv
      <4> QED
        BY <2>2, <2>3, <3>1, <4>1
    <3>2. CASE ~(r = q /\ j = k)
      <4>1. cached'[r][j] = cached[r][j]
        BY <2>2, <2>3, <3>2 DEF RegionInv
      <4> QED
        BY <2>3, <4>1 DEF RegionInv
    <3> QED
      BY <3>1, <3>2
  <2> QED
    BY <2>3, <2>4, <2>5 DEF RegionInv
<1>6. ASSUME UNCHANGED regionVars PROVE RegionInv'
  BY <1>6 DEF RegionInv, regionVars
<1> QED
  BY <1>1, <1>2, <1>4, <1>5, <1>6 DEF RegionNext, FID

(* What the caches hold is of one feature around a place of the feeder.    *)
LEMMA RegionsAgree == ASSUME RegionInv PROVE AroundAPlaceItHad /\ OneFeature
<1>1. "fid" \in Questions /\ "region" \in Questions
  BY DEF Questions
<1>2. ASSUME NEW k \in RegionFeeders, NEW fid \in cached["fid"][k]
      PROVE  \E p \in had[k] : fid = FIDOfPoint(Point(p))
  BY <1>1, <1>2 DEF RegionInv, Lookup
<1>3. ASSUME NEW k \in RegionFeeders, NEW region \in cached["region"][k]
      PROVE  \E p \in had[k] : region = RegionOfPoint(Point(p))
  BY <1>1, <1>3 DEF RegionInv, Lookup
<1>4. AroundAPlaceItHad
  <2> SUFFICES ASSUME NEW k \in RegionFeeders, NEW fid \in cached["fid"][k]
      PROVE  \E p \in had[k] :
        \/ fid = -1 /\ \A i \in DOMAIN Features : <<p.lon, p.lat>> \notin Features[i].contains
        \/ \E i \in DOMAIN Features : Features[i].fid = fid /\ <<p.lon, p.lat>> \in Features[i].contains
    BY DEF AroundAPlaceItHad
  <2>1. PICK p \in had[k] : fid = FIDOfPoint(Point(p))
    BY <1>2
  <2>2. CASE Hits(Point(p)) = {}
    BY <2>1, <2>2 DEF FIDOfPoint, Hits, Point
  <2>3. CASE Hits(Point(p)) # {}
    <3>1. First(Hits(Point(p))) \in Hits(Point(p))
      BY <2>3, FirstIsHit
    <3>2. fid = Features[First(Hits(Point(p)))].fid
      BY <2>1, <2>3 DEF FIDOfPoint
    <3> QED
      BY <3>1, <3>2 DEF Hits, Point
  <2> QED
    BY <2>2, <2>3
<1>5. OneFeature
  <2> SUFFICES ASSUME NEW k \in RegionFeeders, NEW fid \in cached["fid"][k],
                      NEW region \in cached["region"][k], NEW p \in Places, had[k] = {p}
      PROVE  \/ fid = -1 /\ region = "Unknown"
             \/ \E i \in DOMAIN Features : Features[i].fid = fid /\ lookupRegion(Features[i].region) = region
    BY DEF OneFeature
  <2>1. fid = FIDOfPoint(Point(p)) /\ region = RegionOfPoint(Point(p))
    BY <1>2, <1>3
  <2>2. CASE Hits(Point(p)) = {}
    BY <2>1, <2>2 DEF FIDOfPoint, RegionOfPoint
  <2>3. CASE Hits(Point(p)) # {}
    <3>1. First(Hits(Point(p))) \in DOMAIN Features
      BY <2>3, FirstIsHit DEF Hits
    <3> QED
      BY <2>1, <2>3, <3>1 DEF FIDOfPoint, RegionOfPoint
  <2> QED
    BY <2>2, <2>3
<1> QED
  BY <1>4, <1>5

-----------------------------------------------------------------------------
(* Whatever goroutines of whatever service run: the bus has every change   *)
(* once the sink is at rest, a bridge has passed on every byte it took, a  *)
(* handshake was served a whole certificate, the filter passes no frame a  *)
(* second time within its age, and a feeder's region is that of a feature  *)
(* around one of its places.                                               *)
THEOREM NothingIsMadeUp == Spec => []NothingMadeUp
<1>1. Init => IInv
  BY InitSink, InitBridge, InitRunway, InitTree, InitRegion DEF Init, IInv
<1>2. IInv /\ [Next]_vars => IInv'
  <2> SUFFICES ASSUME IInv, [Next]_vars PROVE IInv'
    OBVIOUS
  <2>1. [SinkNext]_sinkVars /\ [BridgeNext]_bridgeVars
    BY DEF Next, Only, vars
  <2>2. [RunwayNext]_runwayVars /\ [TreeNext]_treeVars /\ [RegionNext]_regionVars
    BY DEF Next, Only, vars
  <2> QED
    BY <2>1, <2>2, StepSink, StepBridge, StepRunway, StepTree, StepRegion DEF IInv
<1>3. IInv => NothingMadeUp
  BY SinkSettled, RegionsAgree DEF IInv, NothingMadeUp, BridgeInv, RunwayInv, TreeInv
<1> QED
  BY <1>1, <1>2, <1>3, PTL DEF Spec
=============================================================================
