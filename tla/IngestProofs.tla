---------------------------- MODULE IngestProofs ----------------------------
(***************************************************************************)
(* TLAPS proofs about Ingest, for any number of producers, workers, pooled *)
(* frames and payloads.  The variables fall into five groups that the      *)
(* invariant relates only within the group: the frames and who has them,   *)
(* the planes and their gauge, the dedupe filter, the shutdown, the tap.   *)
(***************************************************************************)
EXTENDS Ingest, FiniteSetTheorems, SequenceTheorems, WellFoundedInduction, TLAPS

-----------------------------------------------------------------------------
(* The frames.                                                             *)

frameVars == <<pool, content, hold, out, at, obj>>

FrameType ==
    /\ pool \subseteq Objects
    /\ content \in [Objects -> Payloads \union {None}]
    /\ hold \in [Producers -> Objects \union {None}]
    /\ out \in [Producers -> Seq(Objects)]
    /\ at \in [Crew -> {"take", "check", "add", "tap", "load", "store",
                        "handle", "done"}]
    /\ obj \in [Crew -> Objects \union {None}]
    /\ \A p \in Producers : Len(out[p]) <= OutCap

(* A worker has a frame while it is at work on one.                        *)
WorkerHas ==
    \A w \in Crew : at[w] \in {"take", "done"} <=> obj[w] = None

(* What is in use says something, and has an address where one is needed.  *)
InUseRead ==
    /\ \A o \in Objects \ pool : content[o] \in Payloads
    /\ \A w \in Crew : at[w] = "store" => IcaoOf[content[obj[w]]] # None

(* Nobody has a frame of the pool.                                         *)
NotOfPool ==
    /\ \A p \in Producers : hold[p] \notin pool
    /\ \A p \in Producers : \A i \in 1 .. Len(out[p]) : out[p][i] \notin pool
    /\ \A w \in Crew : obj[w] \notin pool

(* No two have the same frame.                                             *)
Apart ==
    /\ \A p, q \in Producers : hold[p] # None /\ hold[p] = hold[q] => p = q
    /\ \A p, q \in Producers : \A i \in 1 .. Len(out[p]), j \in 1 .. Len(out[q]) :
          out[p][i] = out[q][j] => p = q /\ i = j
    /\ \A v, w \in Crew : obj[v] # None /\ obj[v] = obj[w] => v = w
    /\ \A p, q \in Producers : \A i \in 1 .. Len(out[p]) : out[p][i] # hold[q]
    /\ \A p \in Producers : \A i \in 1 .. Len(out[p]) : \A w \in Crew : out[p][i] # obj[w]
    /\ \A p \in Producers : \A w \in Crew : hold[p] # None => hold[p] # obj[w]

(* What is not in the pool somebody has.                                   *)
HasIt(o) ==
    \/ \E p \in Producers : hold[p] = o
    \/ \E p \in Producers : \E i \in 1 .. Len(out[p]) : out[p][i] = o
    \/ \E w \in Crew : obj[w] = o

NoneLost == \A o \in Objects \ pool : HasIt(o)

FInv == FrameType /\ WorkerHas /\ InUseRead /\ NotOfPool /\ Apart /\ NoneLost

-----------------------------------------------------------------------------
(* The planes and their gauge.                                             *)
countVars == <<planeList, currentPlanes, evicting, forgetsLeft>>

CInv ==
    /\ planeList \subseteq Icaos /\ IsFiniteSet(planeList)
    /\ currentPlanes \in Nat /\ forgetsLeft \in Nat
    /\ evicting \in Icaos \union {None}
    /\ PlanesCounted

(* The dedupe filter: what was added is remembered, and a payload that is  *)
(* on its way to be added a second time has been raced for.                *)
DInv ==
    /\ seen \subseteq Payloads /\ raced \subseteq Payloads
    /\ passed \in [Payloads -> Nat]
    /\ \A k \in Payloads : passed[k] > 0 => k \in seen
    /\ \A k \in Payloads :
          \/ passed[k] > 1
          \/ passed[k] > 0 /\ \E w \in Crew : Adds(w, k)
          \/ \E v, w \in Crew : v # w /\ Adds(v, k) /\ Adds(w, k)
          => k \in raced

(* The shutdown: a worker that is done has left nothing on the channel of  *)
(* its producer, and Wait has waited for all of them.                      *)
SInv ==
    /\ closed \subseteq Producers /\ gone \subseteq Producers
    /\ ctl \in [Routines -> {"idle", "producers", "check", "start",
                             "stopping", "drain", "returned"}]
    /\ ctl["Wait"] \notin {"idle", "producers"} => gone = Producers
    /\ ctl["Wait"] # "idle"
    /\ \A w \in Crew : at[w] = "done" => w[1] \in closed /\ out[w[1]] = << >>
    /\ \A p \in gone : WorkersDone(p)
    /\ exited = "clean" => gone = Producers

(* The types of the other variables.                                       *)
RestType ==
    /\ kind \in [Producers -> Kinds]
    /\ reader \in [Producers -> {"dial", "read", "end"}]
    /\ readsLeft \in [Producers -> Nat]
    /\ life \in [Producers -> {"run", "exit", "cleanup", "ended"}]
    /\ commands \subseteq Producers
    /\ tapped \in BOOLEAN /\ tapOpen \in BOOLEAN
    /\ producers \in Seq(Producers)
    /\ finishDone \in BOOLEAN /\ stopCalls \subseteq Routines \X Stoppable
    /\ exited \in {"no", "clean", "forced", "panic"}

(* The tap: it may hold and mark any frame, but only a frame of the pool   *)
(* becomes a marked one, which is never one that a worker has.             *)
TInv ==
    /\ tapQueue \in Seq(Objects) /\ Len(tapQueue) <= TapCap
    /\ marked \subseteq Objects
    /\ UnreadDropped

IInv == FInv /\ CInv /\ DInv /\ SInv /\ RestType /\ TInv

-----------------------------------------------------------------------------
(* The steps of the frames.                                                *)

LEMMA NoneApart ==
    /\ None \notin Objects /\ None \notin Payloads /\ None \notin Icaos
    /\ \A w \in Crew : w[1] \in Producers
  BY IngestAssumption DEF Crew

LEMMA InitFInv == Init => FInv
<1> SUFFICES ASSUME Init PROVE FInv
  OBVIOUS
<1>1. /\ pool = Objects /\ content = [o \in Objects |-> None]
      /\ hold = [p \in Producers |-> None] /\ out = [p \in Producers |-> << >>]
      /\ at = [w \in Crew |-> "take"] /\ obj = [w \in Crew |-> None]
  BY DEF Init
<1>2. \A p \in Producers : out[p] = << >> /\ Len(out[p]) = 0
  BY <1>1
<1>3. FrameType
  <2>1. out \in [Producers -> Seq(Objects)]
    BY <1>1
  <2> QED
    BY <1>1, <1>2, <2>1, IngestAssumption DEF FrameType
<1>4. WorkerHas /\ InUseRead /\ NoneLost
  BY <1>1 DEF WorkerHas, InUseRead, NoneLost
<1>5. NotOfPool /\ Apart
  BY <1>1, <1>2, NoneApart DEF NotOfPool, Apart
<1> QED
  BY <1>3, <1>4, <1>5 DEF FInv

LEMMA SameFrames == ASSUME FInv, UNCHANGED frameVars PROVE FInv'
  BY DEF FInv, frameVars, FrameType, WorkerHas, InUseRead, NotOfPool, Apart,
         NoneLost, HasIt

(* A worker goes on with the frame it has.                                 *)
LEMMA GoOn ==
    ASSUME FInv, NEW w \in Crew, at[w] \notin {"take", "done"},
           NEW x \in {"check", "add", "tap", "load", "store", "handle"},
           x = "store" => IcaoOf[content[obj[w]]] # None,
           Goto(w, x), UNCHANGED <<pool, content, hold, out, obj>>
    PROVE  FInv'
<1>1. /\ at' \in [Crew -> {"take", "check", "add", "tap", "load", "store",
                           "handle", "done"}]
      /\ at'[w] = x /\ \A v \in Crew \ {w} : at'[v] = at[v]
  BY DEF Goto, FInv, FrameType
<1>2. FrameType' /\ NotOfPool' /\ Apart' /\ NoneLost'
  BY <1>1 DEF FInv, FrameType, NotOfPool, Apart, NoneLost, HasIt
<1>3. WorkerHas'
  BY <1>1 DEF FInv, WorkerHas
<1>4. InUseRead'
  BY <1>1 DEF FInv, InUseRead
<1> QED
  BY <1>2, <1>3, <1>4 DEF FInv

LEMMA WorkerEnds ==
    ASSUME FInv, NEW w \in Crew, at[w] = "take", Goto(w, "done"),
           UNCHANGED <<pool, content, hold, out, obj>>
    PROVE  FInv'
<1>1. /\ at' \in [Crew -> {"take", "check", "add", "tap", "load", "store",
                           "handle", "done"}]
      /\ at'[w] = "done" /\ \A v \in Crew \ {w} : at'[v] = at[v]
  BY DEF Goto, FInv, FrameType
<1>2. FrameType'
  BY <1>1 DEF FInv, FrameType
<1>3. NotOfPool' /\ Apart' /\ NoneLost'
  BY DEF FInv, NotOfPool, Apart, NoneLost, HasIt
<1>4. WorkerHas' /\ InUseRead'
  BY <1>1 DEF FInv, WorkerHas, InUseRead
<1> QED
  BY <1>2, <1>3, <1>4 DEF FInv

(* A worker gives its frame back.                                          *)
LEMMA GivesBack ==
    ASSUME FInv, NEW w \in Crew, at[w] \notin {"take", "done"}, Release(w),
           Goto(w, "take"), UNCHANGED <<hold, out>>
    PROVE  FInv'
<1> DEFINE o == obj[w]
<1>1. o \in Objects /\ o # None /\ o \notin pool
  BY NoneApart DEF FInv, FrameType, WorkerHas, NotOfPool
<1>2. /\ at' \in [Crew -> {"take", "check", "add", "tap", "load", "store",
                           "handle", "done"}]
      /\ at'[w] = "take" /\ \A v \in Crew \ {w} : at'[v] = at[v]
      /\ obj' \in [Crew -> Objects \union {None}]
      /\ obj'[w] = None /\ \A v \in Crew \ {w} : obj'[v] = obj[v] /\ obj[v] # o
      /\ pool' = pool \union {o}
      /\ content' \in [Objects -> Payloads \union {None}]
      /\ \A u \in Objects \ {o} : content'[u] = content[u]
  BY <1>1 DEF Goto, Release, FInv, FrameType, Apart
<1>3. /\ \A p \in Producers : hold[p] # o
      /\ \A p \in Producers : \A i \in 1 .. Len(out[p]) : out[p][i] # o
  BY <1>1 DEF FInv, Apart
<1> HIDE DEF o
<1>4. FrameType'
  BY <1>1, <1>2 DEF FInv, FrameType
<1>5. WorkerHas'
  BY <1>1, <1>2 DEF FInv, WorkerHas
<1>6. InUseRead'
  <2>1. \A u \in Objects \ pool' : content'[u] \in Payloads
    BY <1>2 DEF FInv, InUseRead
  <2>2. ASSUME NEW v \in Crew, at'[v] = "store" PROVE IcaoOf[content'[obj'[v]]] # None
    <3>1. v # w /\ obj'[v] = obj[v] /\ at[v] = "store" /\ obj[v] # o
      BY <1>2, <2>2
    <3>2. obj[v] \in Objects
      BY <3>1 DEF FInv, FrameType, WorkerHas
    <3> QED
      BY <1>2, <3>1, <3>2 DEF FInv, InUseRead
  <2> QED
    BY <2>1, <2>2 DEF InUseRead
<1>7. NotOfPool'
  BY <1>1, <1>2, <1>3, NoneApart DEF FInv, FrameType, NotOfPool
<1>8. Apart'
  <2>1. \A v \in Crew : obj'[v] # None => v # w /\ obj'[v] = obj[v]
    BY <1>2
  <2>2. \A p, q \in Producers : hold'[p] # None /\ hold'[p] = hold'[q] => p = q
    BY DEF FInv, Apart
  <2>3. \A p, q \in Producers : \A i \in 1 .. Len(out'[p]), j \in 1 .. Len(out'[q]) :
           out'[p][i] = out'[q][j] => p = q /\ i = j
    BY DEF FInv, Apart
  <2>4. \A u, v \in Crew : obj'[u] # None /\ obj'[u] = obj'[v] => u = v
    BY <2>1 DEF FInv, Apart
  <2>5. \A p, q \in Producers : \A i \in 1 .. Len(out'[p]) : out'[p][i] # hold'[q]
    BY DEF FInv, Apart
  <2>6. \A p \in Producers : \A i \in 1 .. Len(out'[p]) : \A v \in Crew :
           out'[p][i] # obj'[v]
    <3> TAKE p \in Producers
    <3> TAKE i \in 1 .. Len(out'[p])
    <3> TAKE v \in Crew
    <3>1. out[p][i] \in Objects
      BY ElementOfSeq DEF FInv, FrameType
    <3> QED
      BY <1>2, <3>1, NoneApart DEF FInv, Apart
  <2>7. \A p \in Producers : \A v \in Crew : hold'[p] # None => hold'[p] # obj'[v]
    BY <1>2 DEF FInv, Apart
  <2> QED
    BY <2>2, <2>3, <2>4, <2>5, <2>6, <2>7 DEF Apart
<1>9. NoneLost'
  <2> SUFFICES ASSUME NEW u \in Objects \ pool' PROVE HasIt(u)'
    BY DEF NoneLost
  <2>1. u \in Objects \ pool /\ u # o
    BY <1>2
  <2>2. HasIt(u)
    BY <2>1 DEF FInv, NoneLost
  <2> QED
    BY <1>2, <2>1, <2>2 DEF HasIt, o
<1> QED
  BY <1>4, <1>5, <1>6, <1>7, <1>8, <1>9 DEF FInv

(* A reader fills a frame of the pool.                                     *)
LEMMA Fills ==
    ASSUME FInv, NEW p \in Producers, ReadFrame(p)
    PROVE  FInv'
<1>1. PICK o \in pool, k \in Payloads :
        /\ hold[p] = None /\ pool' = pool \ {o}
        /\ content' = [content EXCEPT ![o] = k]
        /\ hold' = [hold EXCEPT ![p] = o]
        /\ out' = out /\ at' = at /\ obj' = obj
  BY DEF ReadFrame, workVars
<1>2. /\ o \in Objects /\ o # None
      /\ hold' \in [Producers -> Objects \union {None}]
      /\ hold'[p] = o /\ \A q \in Producers \ {p} : hold'[q] = hold[q]
      /\ content' \in [Objects -> Payloads \union {None}]
      /\ content'[o] = k /\ \A u \in Objects \ {o} : content'[u] = content[u]
  BY <1>1, NoneApart DEF FInv, FrameType
<1>3. /\ \A q \in Producers : hold[q] # o
      /\ \A q \in Producers : \A i \in 1 .. Len(out[q]) : out[q][i] # o
      /\ \A w \in Crew : obj[w] # o
  BY <1>1 DEF FInv, NotOfPool
<1>4. FrameType' /\ WorkerHas'
  BY <1>1, <1>2 DEF FInv, FrameType, WorkerHas
<1>5. InUseRead'
  <2>1. \A u \in Objects \ pool' : content'[u] \in Payloads
    BY <1>1, <1>2 DEF FInv, InUseRead
  <2>2. ASSUME NEW v \in Crew, at'[v] = "store" PROVE IcaoOf[content'[obj'[v]]] # None
    <3>1. obj'[v] = obj[v] /\ at[v] = "store" /\ obj[v] # o
      BY <1>1, <1>3, <2>2
    <3>2. obj[v] \in Objects
      BY <3>1 DEF FInv, FrameType, WorkerHas
    <3> QED
      BY <1>2, <3>1, <3>2 DEF FInv, InUseRead
  <2> QED
    BY <2>1, <2>2 DEF InUseRead
<1>6. NotOfPool'
  BY <1>1, <1>2, <1>3 DEF FInv, NotOfPool
<1>7. Apart'
  <2>1. \A q, r \in Producers : hold'[q] # None /\ hold'[q] = hold'[r] => q = r
    BY <1>2, <1>3 DEF FInv, Apart
  <2>2. \A q, r \in Producers : \A i \in 1 .. Len(out'[q]) : out'[q][i] # hold'[r]
    BY <1>1, <1>2, <1>3 DEF FInv, Apart
  <2>3. \A q \in Producers : \A w \in Crew : hold'[q] # None => hold'[q] # obj'[w]
    BY <1>1, <1>2, <1>3 DEF FInv, Apart
  <2> QED
    BY <1>1, <2>1, <2>2, <2>3 DEF FInv, Apart
<1>8. NoneLost'
  <2> SUFFICES ASSUME NEW u \in Objects \ pool' PROVE HasIt(u)'
    BY DEF NoneLost
  <2>1. CASE u = o
    BY <1>2, <2>1 DEF HasIt
  <2>2. CASE u # o
    <3>1. HasIt(u)
      BY <1>1, <2>2 DEF FInv, NoneLost
    <3>2. \A q \in Producers : hold[q] = u => hold'[q] = u
      BY <1>1, <1>2, NoneApart
    <3> QED
      BY <1>1, <3>1, <3>2 DEF HasIt
  <2> QED
    BY <2>1, <2>2
<1> QED
  BY <1>4, <1>5, <1>6, <1>7, <1>8 DEF FInv

(* A reader's frame goes on the channel.                                   *)
LEMMA Sends ==
    ASSUME FInv, NEW p \in Producers, hold[p] # None, Len(out[p]) < OutCap,
           out' = [out EXCEPT ![p] = Append(@, hold[p])],
           hold' = [hold EXCEPT ![p] = None], UNCHANGED <<pool, content, at, obj>>
    PROVE  FInv'
<1> DEFINE o == hold[p]
           n == Len(out[p]) + 1
<1>1. /\ o \in Objects /\ o # None /\ o \notin pool
      /\ out[p] \in Seq(Objects) /\ Len(out[p]) \in Nat
  BY NoneApart, LenProperties DEF FInv, FrameType, NotOfPool
<1>2. /\ hold' \in [Producers -> Objects \union {None}]
      /\ hold'[p] = None /\ \A q \in Producers \ {p} : hold'[q] = hold[q] /\ hold[q] # o
      /\ \A q \in Producers \ {p} : out'[q] = out[q]
      /\ out'[p] = Append(out[p], o)
  BY <1>1 DEF FInv, FrameType, Apart
<1>3. /\ out'[p] \in Seq(Objects) /\ Len(out'[p]) = n
      /\ out'[p][n] = o /\ \A i \in 1 .. Len(out[p]) : out'[p][i] = out[p][i]
  BY <1>1, <1>2, AppendProperties
<1>4. /\ \A q \in Producers : \A i \in 1 .. Len(out[q]) : out[q][i] # o
      /\ \A w \in Crew : obj[w] # o
  BY <1>1 DEF FInv, Apart
<1>5. \A q \in Producers : \A i \in 1 .. Len(out'[q]) :
          \/ i \in 1 .. Len(out[q]) /\ out'[q][i] = out[q][i]
          \/ q = p /\ i = n /\ out'[q][i] = o
  BY <1>1, <1>2, <1>3
<1> HIDE DEF o, n
<1>6. FrameType'
  <2>1. \A q \in Producers : out'[q] \in Seq(Objects) /\ Len(out'[q]) <= OutCap
    BY <1>1, <1>2, <1>3, IngestAssumption DEF FInv, FrameType, n
  <2> QED
    BY <1>2, <2>1 DEF FInv, FrameType
<1>7. WorkerHas' /\ InUseRead'
  BY DEF FInv, WorkerHas, InUseRead
<1>8. NotOfPool'
  BY <1>1, <1>2, <1>5, NoneApart DEF FInv, FrameType, NotOfPool
<1>9. Apart'
  <2>1. \A q, r \in Producers : hold'[q] # None /\ hold'[q] = hold'[r] => q = r
    BY <1>2 DEF FInv, Apart
  <2>2. \A q, r \in Producers : \A i \in 1 .. Len(out'[q]), j \in 1 .. Len(out'[r]) :
           out'[q][i] = out'[r][j] => q = r /\ i = j
    BY <1>4, <1>5 DEF FInv, Apart
  <2>3. \A q, r \in Producers : \A i \in 1 .. Len(out'[q]) : out'[q][i] # hold'[r]
    <3> TAKE q, r \in Producers
    <3> TAKE i \in 1 .. Len(out'[q])
    <3>1. CASE i \in 1 .. Len(out[q]) /\ out'[q][i] = out[q][i]
      <4>1. out[q][i] \in Objects /\ out[q][i] # hold[r]
        BY <3>1, ElementOfSeq DEF FInv, FrameType, Apart
      <4> QED
        BY <1>2, <3>1, <4>1, NoneApart
    <3>2. CASE out'[q][i] = o
      BY <1>1, <1>2, <3>2
    <3> QED
      BY <1>5, <3>1, <3>2
  <2>4. \A q \in Producers : \A i \in 1 .. Len(out'[q]) : \A w \in Crew : out'[q][i] # obj'[w]
    BY <1>4, <1>5 DEF FInv, Apart
  <2>5. \A q \in Producers : \A w \in Crew : hold'[q] # None => hold'[q] # obj'[w]
    BY <1>2 DEF FInv, Apart
  <2>6. \A v, w \in Crew : obj'[v] # None /\ obj'[v] = obj'[w] => v = w
    BY DEF FInv, Apart
  <2> QED
    BY <2>1, <2>2, <2>3, <2>4, <2>5, <2>6 DEF Apart
<1>10. NoneLost'
  <2> SUFFICES ASSUME NEW u \in Objects \ pool' PROVE HasIt(u)'
    BY DEF NoneLost
  <2>1. CASE u = o
    <3>1. n \in 1 .. Len(out'[p])
      BY <1>1, <1>3 DEF n
    <3> QED
      BY <1>3, <2>1, <3>1 DEF HasIt
  <2>2. CASE u # o
    <3>1. HasIt(u)
      BY DEF FInv, NoneLost
    <3>2. ASSUME NEW q \in Producers, NEW i \in 1 .. Len(out[q]), out[q][i] = u
          PROVE  HasIt(u)'
      <4>1. i \in 1 .. Len(out'[q]) /\ out'[q][i] = out[q][i]
        BY <1>1, <1>2, <1>3 DEF n
      <4> QED
        BY <3>2, <4>1 DEF HasIt
    <3>3. \A q \in Producers : hold[q] = u => hold'[q] = u
      BY <1>2, <2>2 DEF o
    <3> QED
      BY <3>1, <3>2, <3>3 DEF HasIt
  <2> QED
    BY <2>1, <2>2
<1> QED
  BY <1>6, <1>7, <1>8, <1>9, <1>10 DEF FInv

(* A reader's frame is garbage: the channel is closed.                     *)
LEMMA Discards ==
    ASSUME FInv, NEW p \in Producers, hold[p] # None,
           pool' = pool \union {hold[p]},
           content' = [content EXCEPT ![hold[p]] = None],
           hold' = [hold EXCEPT ![p] = None], UNCHANGED <<out, at, obj>>
    PROVE  FInv'
<1> DEFINE o == hold[p]
<1>1. o \in Objects /\ o # None /\ o \notin pool
  BY DEF FInv, FrameType, NotOfPool
<1>2. /\ hold' \in [Producers -> Objects \union {None}]
      /\ hold'[p] = None /\ \A q \in Producers \ {p} : hold'[q] = hold[q] /\ hold[q] # o
      /\ content' \in [Objects -> Payloads \union {None}]
      /\ \A u \in Objects \ {o} : content'[u] = content[u]
      /\ pool' = pool \union {o}
  BY <1>1 DEF FInv, FrameType, Apart
<1>3. /\ \A q \in Producers : \A i \in 1 .. Len(out[q]) : out[q][i] # o
      /\ \A w \in Crew : obj[w] # o
  BY <1>1 DEF FInv, Apart
<1> HIDE DEF o
<1>4. FrameType' /\ WorkerHas'
  BY <1>1, <1>2 DEF FInv, FrameType, WorkerHas
<1>5. InUseRead'
  <2>1. \A u \in Objects \ pool' : content'[u] \in Payloads
    BY <1>2 DEF FInv, InUseRead
  <2>2. ASSUME NEW v \in Crew, at'[v] = "store" PROVE IcaoOf[content'[obj'[v]]] # None
    <3>1. obj[v] \in Objects /\ obj[v] # o
      BY <1>3, <2>2 DEF FInv, FrameType, WorkerHas
    <3> QED
      BY <1>2, <2>2, <3>1 DEF FInv, InUseRead
  <2> QED
    BY <2>1, <2>2 DEF InUseRead
<1>6. NotOfPool'
  <2>1. \A q \in Producers : hold'[q] \notin pool'
    BY <1>1, <1>2, NoneApart DEF FInv, FrameType, NotOfPool
  <2> QED
    BY <1>2, <1>3, <2>1 DEF FInv, NotOfPool
<1>7. Apart'
  <2>1. \A q \in Producers : hold'[q] # None => hold'[q] = hold[q]
    BY <1>2
  <2>2. \A q, r \in Producers : \A i \in 1 .. Len(out[q]) : out[q][i] # hold'[r]
    <3> TAKE q, r \in Producers
    <3> TAKE i \in 1 .. Len(out[q])
    <3>1. out[q][i] \in Objects /\ out[q][i] # hold[r]
      BY ElementOfSeq DEF FInv, FrameType, Apart
    <3> QED
      BY <2>1, <3>1, NoneApart
  <2> QED
    BY <2>1, <2>2 DEF FInv, Apart
<1>8. NoneLost'
  <2> SUFFICES ASSUME NEW u \in Objects \ pool' PROVE HasIt(u)'
    BY DEF NoneLost
  <2>1. u # o /\ HasIt(u)
    BY <1>2 DEF FInv, NoneLost
  <2>2. \A q \in Producers : hold[q] = u => hold'[q] = u
    BY <1>2, <2>1 DEF o
  <2> QED
    BY <2>1, <2>2 DEF HasIt
<1> QED
  BY <1>4, <1>5, <1>6, <1>7, <1>8 DEF FInv

(* A worker takes the first frame of the channel of its producer: it keeps *)
(* it, or gives it back because it does not decode.                        *)
LEMMA TakesFirst ==
    ASSUME FInv, NEW w \in Crew, Take(w) PROVE FInv'
<1> DEFINE p == w[1]
           o == Head(out[p])
<1>1. /\ p \in Producers /\ out[p] # << >> /\ out[p] \in Seq(Objects)
      /\ Len(out[p]) \in Nat /\ 1 \in 1 .. Len(out[p]) /\ o = out[p][1]
      /\ o \in Objects
  <2>1. p \in Producers /\ out[p] # << >>
    BY NoneApart DEF Take
  <2>2. out[p] \in Seq(Objects)
    BY <2>1 DEF FInv, FrameType
  <2> HIDE DEF p
  <2> QED
    BY <2>1, <2>2, EmptySeq, HeadTailProperties
<1>2. /\ obj[w] = None /\ at[w] = "take" /\ hold' = hold
      /\ out' = [out EXCEPT ![p] = Tail(@)]
  BY DEF Take, FInv, WorkerHas, prodVars
<1>3. /\ out' \in [Producers -> Seq(Objects)]
      /\ Len(out'[p]) \in Nat /\ Len(out[p]) = Len(out'[p]) + 1
      /\ \A i \in 1 .. Len(out'[p]) : out'[p][i] = out[p][i + 1]
      /\ \A q \in Producers \ {p} : out'[q] = out[q]
  <2>1. /\ Tail(out[p]) \in Seq(Objects) /\ Len(Tail(out[p])) = Len(out[p]) - 1
        /\ \A i \in 1 .. Len(out[p]) - 1 : Tail(out[p])[i] = out[p][i + 1]
    <3> HIDE DEF p
    <3> QED
      BY <1>1, HeadTailProperties
  <2>2. /\ out' \in [Producers -> Seq(Objects)] /\ out'[p] = Tail(out[p])
        /\ \A q \in Producers \ {p} : out'[q] = out[q]
    BY <1>1, <1>2, <2>1 DEF FInv, FrameType
  <2> HIDE DEF p
  <2> QED
    BY <1>1, <2>1, <2>2
<1> HIDE DEF p, o
<1>4. o # None /\ o \notin pool
  BY <1>1, NoneApart DEF FInv, NotOfPool
<1>5. /\ \A q \in Producers : hold[q] # o
      /\ \A v \in Crew : obj[v] # o
      /\ \A q \in Producers : \A i \in 1 .. Len(out'[q]) : out'[q][i] # o
  <2>1. ASSUME NEW q \in Producers, NEW i \in 1 .. Len(out'[q]) PROVE out'[q][i] # o
    <3>1. CASE q = p
      <4>1. i \in 1 .. Len(out'[p]) /\ out'[q][i] = out'[p][i]
        BY <3>1
      <4>2. i + 1 \in 1 .. Len(out[p]) /\ out'[p][i] = out[p][i + 1] /\ i + 1 # 1
        BY <1>1, <1>3, <4>1
      <4> QED
        BY <1>1, <4>1, <4>2 DEF FInv, Apart
    <3>2. CASE q # p
      <4>1. i \in 1 .. Len(out[q]) /\ out'[q][i] = out[q][i]
        BY <1>3, <3>2
      <4> QED
        BY <1>1, <3>2, <4>1 DEF FInv, Apart
    <3> QED
      BY <3>1, <3>2
  <2> QED
    BY <1>1, <2>1 DEF FInv, Apart
<1>6. \A q \in Producers : \A i \in 1 .. Len(out'[q]) :
          LET j == IF q = p THEN i + 1 ELSE i
          IN  j \in 1 .. Len(out[q]) /\ out'[q][i] = out[q][j]
  <2> TAKE q \in Producers
  <2> TAKE i \in 1 .. Len(out'[q])
  <2>1. CASE q = p
    BY <1>1, <1>3, <2>1
  <2>2. CASE q # p
    BY <1>3, <2>2
  <2> QED
    BY <2>1, <2>2
<1>7. \A q \in Producers : Len(out'[q]) <= OutCap
  <2> TAKE q \in Producers
  <2>1. Len(out[q]) <= OutCap /\ OutCap \in Nat
    BY IngestAssumption DEF FInv, FrameType
  <2>2. CASE q = p
    BY <1>1, <1>3, <2>1, <2>2
  <2>3. CASE q # p
    BY <1>3, <2>1, <2>3
  <2> QED
    BY <2>2, <2>3
<1>8. \A q, r \in Producers : \A i \in 1 .. Len(out'[q]), j \in 1 .. Len(out'[r]) :
          out'[q][i] = out'[r][j] => q = r /\ i = j
  <2> TAKE q, r \in Producers
  <2> TAKE i \in 1 .. Len(out'[q]), j \in 1 .. Len(out'[r])
  <2> HAVE out'[q][i] = out'[r][j]
  <2> DEFINE m == IF q = p THEN i + 1 ELSE i
             n == IF r = p THEN j + 1 ELSE j
  <2>1. /\ m \in 1 .. Len(out[q]) /\ out'[q][i] = out[q][m]
        /\ n \in 1 .. Len(out[r]) /\ out'[r][j] = out[r][n]
    BY <1>6
  <2>2. q = r /\ m = n
    <3> HIDE DEF m, n
    <3>1. out[q][m] = out[r][n]
      BY <2>1
    <3> QED
      BY <2>1, <3>1 DEF FInv, Apart
  <2> QED
    BY <2>2
<1>9. /\ \A q \in Producers : \A i \in 1 .. Len(out'[q]) : out'[q][i] \notin pool
      /\ \A q, r \in Producers : \A i \in 1 .. Len(out'[q]) : out'[q][i] # hold[r]
      /\ \A q \in Producers : \A i \in 1 .. Len(out'[q]) : \A v \in Crew :
            out'[q][i] # obj[v]
  <2>1. \A q \in Producers : \A i \in 1 .. Len(out'[q]) :
           \E j \in 1 .. Len(out[q]) : out'[q][i] = out[q][j]
    BY <1>6
  <2> QED
    BY <2>1 DEF FInv, NotOfPool, Apart
<1>10. ASSUME NEW u, u # o, HasIt(u)
       PROVE  \/ \E q \in Producers : hold[q] = u
              \/ \E q \in Producers : \E i \in 1 .. Len(out'[q]) : out'[q][i] = u
              \/ \E v \in Crew : obj[v] = u
  <2>1. ASSUME NEW q \in Producers, NEW i \in 1 .. Len(out[q]), out[q][i] = u
        PROVE  \E j \in 1 .. Len(out'[q]) : out'[q][j] = u
    <3>1. CASE q = p
      <4>1. i # 1
        BY <1>1, <1>10, <2>1, <3>1
      <4>2. i \in 1 .. Len(out[p]) /\ out[p][i] = u
        BY <2>1, <3>1
      <4>3. i - 1 \in 1 .. Len(out'[p]) /\ (i - 1) + 1 = i
        BY <1>1, <1>3, <4>1, <4>2
      <4>4. out'[p][i - 1] = u
        BY <1>3, <4>2, <4>3
      <4> QED
        BY <3>1, <4>3, <4>4
    <3>2. CASE q # p
      BY <1>3, <2>1, <3>2
    <3> QED
      BY <3>1, <3>2
  <2> QED
    BY <1>10, <2>1 DEF HasIt
<1>11. CASE content[o] \in Bad /\ o \notin marked
  <2>1. /\ pool' = pool \union {o} /\ content' = [content EXCEPT ![o] = None]
        /\ at' = at /\ obj' = obj
    BY <1>11 DEF Take, workVars, o, p
  <2>2. /\ content' \in [Objects -> Payloads \union {None}]
        /\ \A u \in Objects \ {o} : content'[u] = content[u]
    BY <1>1, <2>1 DEF FInv, FrameType
  <2>3. FrameType' /\ WorkerHas'
    BY <1>1, <1>2, <1>3, <1>7, <2>1, <2>2 DEF FInv, FrameType, WorkerHas
  <2>4. InUseRead'
    <3>1. \A u \in Objects \ pool' : content'[u] \in Payloads
      BY <2>1, <2>2 DEF FInv, InUseRead
    <3>2. ASSUME NEW v \in Crew, at'[v] = "store" PROVE IcaoOf[content'[obj'[v]]] # None
      <4>1. obj[v] \in Objects /\ obj[v] # o
        BY <1>5, <2>1, <3>2 DEF FInv, FrameType, WorkerHas
      <4> QED
        BY <2>1, <2>2, <3>2, <4>1 DEF FInv, InUseRead
    <3> QED
      BY <3>1, <3>2 DEF InUseRead
  <2>5. NotOfPool'
    BY <1>2, <1>5, <1>9, <2>1, SMTT(30) DEF FInv, NotOfPool
  <2>6. Apart'
    BY <1>2, <1>8, <1>9, <2>1 DEF FInv, Apart
  <2>7. NoneLost'
    <3> SUFFICES ASSUME NEW u \in Objects \ pool' PROVE HasIt(u)'
      BY DEF NoneLost
    <3>1. u # o /\ HasIt(u)
      BY <2>1 DEF FInv, NoneLost
    <3> QED
      BY <1>2, <1>10, <2>1, <3>1 DEF HasIt
  <2> QED
    BY <2>3, <2>4, <2>5, <2>6, <2>7 DEF FInv
<1>12. CASE ~(content[o] \in Bad /\ o \notin marked)
  <2>1. /\ obj' = [obj EXCEPT ![w] = o] /\ at' = [at EXCEPT ![w] = "check"]
        /\ pool' = pool /\ content' = content
    BY <1>12 DEF Take, poolVars, Goto, o, p
  <2>2. /\ obj' \in [Crew -> Objects \union {None}] /\ obj'[w] = o
        /\ \A v \in Crew \ {w} : obj'[v] = obj[v]
        /\ at' \in [Crew -> {"take", "check", "add", "tap", "load", "store",
                             "handle", "done"}]
        /\ at'[w] = "check" /\ \A v \in Crew \ {w} : at'[v] = at[v]
    BY <1>1, <2>1 DEF FInv, FrameType
  <2>3. FrameType'
    BY <1>2, <1>3, <1>7, <2>1, <2>2 DEF FInv, FrameType
  <2>4. WorkerHas'
    BY <1>4, <2>2 DEF FInv, WorkerHas
  <2>5. InUseRead'
    BY <2>1, <2>2 DEF FInv, InUseRead
  <2>6. NotOfPool'
    BY <1>2, <1>4, <1>9, <2>1, <2>2 DEF FInv, NotOfPool
  <2>7. Apart'
    <3>1. \A u, v \in Crew : obj'[u] # None /\ obj'[u] = obj'[v] => u = v
      BY <1>5, <2>2 DEF FInv, Apart
    <3>2. \A q \in Producers : \A i \in 1 .. Len(out'[q]) : \A v \in Crew :
             out'[q][i] # obj'[v]
      BY <1>5, <1>9, <2>2
    <3>3. \A q \in Producers : \A v \in Crew : hold'[q] # None => hold'[q] # obj'[v]
      BY <1>2, <1>5, <2>2 DEF FInv, Apart
    <3>4. \A q, r \in Producers : hold'[q] # None /\ hold'[q] = hold'[r] => q = r
      BY <1>2 DEF FInv, Apart
    <3>5. \A q, r \in Producers : \A i \in 1 .. Len(out'[q]) : out'[q][i] # hold'[r]
      BY <1>2, <1>9
    <3> QED
      BY <1>8, <3>1, <3>2, <3>3, <3>4, <3>5 DEF Apart
  <2>8. NoneLost'
    <3> SUFFICES ASSUME NEW u \in Objects \ pool' PROVE HasIt(u)'
      BY DEF NoneLost
    <3>1. CASE u = o
      BY <2>2, <3>1 DEF HasIt
    <3>2. CASE u # o
      <4>1. HasIt(u)
        BY <2>1 DEF FInv, NoneLost
      <4>2. u # None /\ \A v \in Crew : obj[v] = u => obj'[v] = u
        BY <1>2, <2>2, NoneApart
      <4> QED
        BY <1>2, <1>10, <3>2, <4>1, <4>2 DEF HasIt
    <3> QED
      BY <3>1, <3>2
  <2> QED
    BY <2>3, <2>4, <2>5, <2>6, <2>7, <2>8 DEF FInv
<1> QED
  BY <1>11, <1>12

LEMMA StepFInv == ASSUME FInv, [Next]_vars PROVE FInv'
<1>1. ASSUME NEW p \in Producers, AddEvent(p) PROVE FInv'
  BY <1>1, Sends, Discards DEF AddEvent, poolVars, workVars
<1>2. ASSUME NEW p \in Producers,
             Dial(p) \/ EndOfData(p) \/ readFiles(p) \/ ListenFails(p) \/ Shut(p)
      PROVE  UNCHANGED frameVars
  <2>1. CASE Dial(p) \/ EndOfData(p) \/ readFiles(p) \/ ListenFails(p)
    BY <2>1 DEF Dial, EndOfData, readFiles, ListenFails, frameVars, poolVars, workVars
  <2>2. CASE Shut(p)
    BY <2>2 DEF Shut, Stop, CloseConnection, Cleanup, removeProducer, frameVars,
                poolVars, workVars, prodVars
  <2> QED
    BY <1>2, <2>1, <2>2
<1>3. ASSUME NEW w \in Crew, decodeQueue(w) PROVE FInv'
  <2>1. CASE Take(w)
    BY <2>1, TakesFirst
  <2>2. CASE EndOfQueue(w)
    BY <2>2, WorkerEnds DEF EndOfQueue, poolVars, prodVars
  <2>3. CASE HasKey(w)
    BY <2>3, GivesBack, GoOn DEF HasKey, poolVars, prodVars
  <2>4. CASE AddKey(w)
    BY <2>4, GoOn DEF AddKey, poolVars, prodVars
  <2>5. CASE Tap(w)
    BY <2>5, GoOn, SameFrames DEF Tap, poolVars, prodVars, frameVars
  <2>6. CASE LoadPlane(w)
    <3>1. CASE IcaoOf[content[obj[w]]] = None \/ obj[w] \in marked
      BY <2>6, <3>1, GivesBack DEF LoadPlane, prodVars
    <3>2. CASE ~(IcaoOf[content[obj[w]]] = None \/ obj[w] \in marked)
      BY <2>6, <3>2, GoOn DEF LoadPlane, poolVars, prodVars
    <3> QED
      BY <3>1, <3>2
  <2>7. CASE StorePlane(w)
    BY <2>7, GoOn DEF StorePlane, poolVars, prodVars
  <2>8. CASE HandleFrame(w)
    BY <2>8, GivesBack DEF HandleFrame, prodVars
  <2> QED
    BY <1>3, <2>1, <2>2, <2>3, <2>4, <2>5, <2>6, <2>7, <2>8 DEF decodeQueue
<1>4. ASSUME \/ TapRequest \/ TapSend \/ DeletePlane
             \/ \E k \in Payloads : ForgetKey(k)
             \/ \E i \in Icaos : EvictPlane(i)
      PROVE  UNCHANGED frameVars
  BY <1>4 DEF TapRequest, TapSend, DeletePlane, ForgetKey, EvictPlane, frameVars,
              poolVars, prodVars, workVars
<1>5. ASSUME \/ Signal \/ WaitForProducers \/ ForceExit
             \/ \E r \in Routines : Finish(r)
      PROVE  UNCHANGED frameVars
  BY <1>5 DEF Signal, WaitForProducers, ForceExit, Finish, FinishCheck, FinishStart,
              CloseTap, FinishEnd, Drained, LeaveTracker, frameVars, poolVars,
              prodVars, workVars
<1>6. CASE UNCHANGED vars
  BY <1>6, SameFrames DEF vars, frameVars, poolVars, prodVars, workVars
<1> QED
  BY <1>1, <1>2, <1>3, <1>4, <1>5, <1>6, Fills, SameFrames DEF Next, Terminated

LEMMA FramesOwned == ASSUME FInv PROVE OwnedOnce
<1> SUFFICES ASSUME NEW o \in Objects
             PROVE  Cardinality(Places(o)) = IF o \in pool THEN 0 ELSE 1
  BY DEF OwnedOnce
<1>1. \A p \in Producers : /\ Len(out[p]) \in Nat /\ Len(out[p]) <= OutCap
                           /\ OutCap \in Nat
  BY LenProperties, IngestAssumption DEF FInv, FrameType
<1>2. ASSUME NEW x
      PROVE  x \in Places(o) <=>
                \/ \E p \in Producers : hold[p] = o /\ x = <<"reader", p>>
                \/ \E p \in Producers : \E i \in 1 .. Len(out[p]) :
                      out[p][i] = o /\ x = <<"channel", <<p, i>>>>
                \/ \E w \in Crew : obj[w] = o /\ x = <<"worker", w>>
  <2>1. ASSUME NEW y \in Producers \X (1 .. OutCap), y[2] <= Len(out[y[1]]),
               out[y[1]][y[2]] = o, x = <<"channel", y>>
        PROVE  \E p \in Producers : \E i \in 1 .. Len(out[p]) :
                  out[p][i] = o /\ x = <<"channel", <<p, i>>>>
    <3>1. y[1] \in Producers /\ y[2] \in 1 .. Len(out[y[1]]) /\ y = <<y[1], y[2]>>
      BY <1>1, <2>1
    <3> QED
      BY <2>1, <3>1
  <2>2. ASSUME NEW p \in Producers, NEW i \in 1 .. Len(out[p]),
               out[p][i] = o, x = <<"channel", <<p, i>>>>
        PROVE  \E y \in Producers \X (1 .. OutCap) :
                  y[2] <= Len(out[y[1]]) /\ out[y[1]][y[2]] = o /\ x = <<"channel", y>>
    <3>1. <<p, i>> \in Producers \X (1 .. OutCap) /\ i <= Len(out[p])
      BY <1>1
    <3> QED
      BY <2>2, <3>1
  <2> QED
    BY <2>1, <2>2 DEF Places
<1>3. CASE o \in pool
  <2>1. Places(o) = {}
    BY <1>2, <1>3 DEF FInv, NotOfPool
  <2> QED
    BY <1>3, <2>1, FS_EmptySet
<1>4. CASE o \notin pool
  <2>1. o # None
    BY NoneApart
  <2>2. ASSUME NEW x \in Places(o), NEW y \in Places(o) PROVE x = y
    <3>1. CASE \E p \in Producers : hold[p] = o /\ x = <<"reader", p>>
      BY <1>2, <2>1, <3>1 DEF FInv, Apart
    <3>2. CASE \E p \in Producers : \E i \in 1 .. Len(out[p]) :
                  out[p][i] = o /\ x = <<"channel", <<p, i>>>>
      BY <1>2, <2>1, <3>2 DEF FInv, Apart
    <3>3. CASE \E w \in Crew : obj[w] = o /\ x = <<"worker", w>>
      BY <1>2, <2>1, <3>3 DEF FInv, Apart
    <3> QED
      BY <1>2, <3>1, <3>2, <3>3
  <2>3. PICK x : x \in Places(o)
    <3>1. HasIt(o)
      BY <1>4 DEF FInv, NoneLost
    <3>2. CASE \E p \in Producers : hold[p] = o
      BY <1>2, <3>2
    <3>3. CASE \E p \in Producers : \E i \in 1 .. Len(out[p]) : out[p][i] = o
      BY <1>2, <3>3
    <3>4. CASE \E w \in Crew : obj[w] = o
      BY <1>2, <3>4
    <3> QED
      BY <3>1, <3>2, <3>3, <3>4 DEF HasIt
  <2>4. Places(o) = {x}
    BY <2>2, <2>3
  <2> QED
    BY <1>4, <2>4, FS_Singleton
<1> QED
  BY <1>3, <1>4

-----------------------------------------------------------------------------
(* The steps of the planes.                                                *)

LEMMA InitCInv == Init => CInv
<1> SUFFICES ASSUME Init PROVE CInv
  OBVIOUS
<1>1. /\ planeList = {} /\ currentPlanes = 0 /\ evicting = None
      /\ forgetsLeft = MaxForgets
  BY DEF Init
<1>2. IsFiniteSet({}) /\ Cardinality({} \ {None}) = 0 /\ IsFiniteSet(planeList)
  <2>1. {} \ {None} = {}
    OBVIOUS
  <2> QED
    BY <1>1, <2>1, FS_EmptySet
<1> QED
  BY <1>1, <1>2, IngestAssumption DEF CInv, PlanesCounted

LEMMA SameCount == ASSUME CInv, UNCHANGED countVars PROVE CInv'
  BY DEF CInv, countVars, PlanesCounted

(* The plane a worker stores is one of an address.                         *)
LEMMA StoredHasIcao ==
    ASSUME FInv, NEW w \in Crew, at[w] = "store"
    PROVE  IcaoOf[content[obj[w]]] \in Icaos
<1>1. obj[w] \in Objects \ pool
  BY DEF FInv, FrameType, WorkerHas, NotOfPool
<1>2. content[obj[w]] \in Payloads
  BY <1>1 DEF FInv, InUseRead
<1> QED
  BY <1>2, IngestAssumption DEF FInv, InUseRead

LEMMA StoreCounted ==
    ASSUME FInv, CInv, NEW w \in Crew, StorePlane(w) PROVE CInv'
<1> DEFINE i == IcaoOf[content[obj[w]]]
<1>1. /\ currentPlanes' = currentPlanes + 1 /\ planeList' = planeList \union {i}
      /\ evicting' = evicting /\ forgetsLeft' = forgetsLeft /\ i \in Icaos
  BY StoredHasIcao DEF StorePlane
<1> HIDE DEF i
<1>2. /\ IsFiniteSet(planeList') /\ IsFiniteSet(planeList \ {evicting})
      /\ IsFiniteSet(planeList' \ {evicting})
  BY <1>1, FS_AddElement, FS_RemoveElement DEF CInv
<1>3. Cardinality(planeList' \ {evicting}) <= Cardinality(planeList \ {evicting}) + 1
  <2>1. CASE i = evicting
    <3>1. planeList' \ {evicting} = planeList \ {evicting}
      BY <1>1, <2>1
    <3> QED
      BY <1>2, <3>1, FS_CardinalityType, SMTT(30)
  <2>2. CASE i # evicting
    <3>1. planeList' \ {evicting} = (planeList \ {evicting}) \union {i}
      BY <1>1, <2>2
    <3> QED
      BY <1>2, <3>1, FS_CardinalityType, FS_AddElement, SMTT(30)
  <2> QED
    BY <2>1, <2>2
<1>4. /\ Cardinality(planeList \ {evicting}) \in Nat
      /\ Cardinality(planeList' \ {evicting}) \in Nat
  BY <1>2, FS_CardinalityType
<1>5. PlanesCounted'
  BY <1>1, <1>3, <1>4 DEF CInv, PlanesCounted
<1> QED
  BY <1>1, <1>2, <1>5 DEF CInv

LEMMA EvictCounted ==
    ASSUME CInv, NEW i \in Icaos, EvictPlane(i) PROVE CInv'
<1>1. /\ evicting = None /\ i \in planeList /\ evicting' = i /\ forgetsLeft > 0
      /\ currentPlanes' = currentPlanes - 1 /\ forgetsLeft' = forgetsLeft - 1
      /\ planeList' = planeList
  BY DEF EvictPlane
<1>2. planeList \ {evicting} = planeList
  BY <1>1, NoneApart DEF CInv
<1>3. /\ Cardinality(planeList) \in Nat /\ Cardinality(planeList \ {i}) \in Nat
      /\ Cardinality(planeList \ {i}) = Cardinality(planeList) - 1
  BY <1>1, FS_RemoveElement, FS_CardinalityType DEF CInv
<1>4. Cardinality(planeList) <= currentPlanes
  BY <1>2 DEF CInv, PlanesCounted
<1>5. PlanesCounted' /\ currentPlanes' \in Nat /\ forgetsLeft' \in Nat
  BY <1>1, <1>3, <1>4 DEF CInv, PlanesCounted
<1> QED
  BY <1>1, <1>5 DEF CInv

LEMMA DeleteCounted == ASSUME CInv, DeletePlane PROVE CInv'
<1>1. /\ planeList' = planeList \ {evicting} /\ evicting' = None
      /\ currentPlanes' = currentPlanes /\ forgetsLeft' = forgetsLeft
  BY DEF DeletePlane
<1>2. planeList' \ {evicting'} = planeList \ {evicting} /\ IsFiniteSet(planeList')
  BY <1>1, NoneApart, FS_RemoveElement DEF CInv
<1> QED
  BY <1>1, <1>2 DEF CInv, PlanesCounted

LEMMA StepCInv == ASSUME FInv, CInv, [Next]_vars PROVE CInv'
<1>1. ASSUME NEW p \in Producers, \/ Dial(p) \/ ReadFrame(p) \/ AddEvent(p)
                                  \/ EndOfData(p) \/ readFiles(p)
                                  \/ ListenFails(p) \/ Shut(p)
      PROVE  UNCHANGED countVars
  BY <1>1 DEF Dial, ReadFrame, AddEvent, EndOfData, readFiles, ListenFails, Shut,
              Stop, CloseConnection, Cleanup, removeProducer, countVars, planeVars
<1>2. ASSUME NEW w \in Crew, decodeQueue(w) PROVE CInv'
  <2>1. CASE StorePlane(w)
    BY <2>1, StoreCounted
  <2>2. CASE ~StorePlane(w)
    BY <1>2, <2>2, SameCount DEF decodeQueue, Take, EndOfQueue, HasKey, AddKey, Tap,
         LoadPlane, HandleFrame, countVars, planeVars
  <2> QED
    BY <2>1, <2>2
<1>3. ASSUME TapRequest \/ TapSend PROVE UNCHANGED countVars
  BY <1>3 DEF TapRequest, TapSend, countVars, planeVars
<1>4. ASSUME NEW k \in Payloads, ForgetKey(k) PROVE CInv'
  BY <1>4 DEF ForgetKey, planeVars, CInv, PlanesCounted
<1>5. ASSUME \/ Signal \/ WaitForProducers \/ ForceExit
             \/ \E r \in Routines : Finish(r)
      PROVE  UNCHANGED countVars
  BY <1>5 DEF Signal, WaitForProducers, ForceExit, Finish, FinishCheck, FinishStart,
              CloseTap, FinishEnd, Drained, LeaveTracker, countVars, planeVars
<1>6. CASE UNCHANGED vars
  BY <1>6, SameCount DEF vars, countVars, planeVars
<1> QED
  BY <1>1, <1>2, <1>3, <1>4, <1>5, <1>6, SameCount, EvictCounted, DeleteCounted
  DEF Next, Terminated

-----------------------------------------------------------------------------
(* The steps of the dedupe filter.                                         *)

LEMMA InitDInv == Init => DInv
<1> SUFFICES ASSUME Init PROVE DInv
  OBVIOUS
<1>1. /\ seen = {} /\ raced = {} /\ passed = [k \in Payloads |-> 0]
      /\ \A w \in Crew : at[w] # "add"
  BY DEF Init
<1> QED
  BY <1>1 DEF DInv, Adds

(* No worker has come to add a payload.                                    *)
Fewer == \A v \in Crew : \A k \in Payloads : Adds(v, k)' => Adds(v, k)

LEMMA FewerDInv ==
    ASSUME DInv, Fewer, UNCHANGED <<seen, passed, raced>> PROVE DInv'
<1>1. \A k \in Payloads :
          \/ passed'[k] > 1
          \/ passed'[k] > 0 /\ \E w \in Crew : Adds(w, k)'
          \/ \E v, w \in Crew : v # w /\ Adds(v, k)' /\ Adds(w, k)'
          => k \in raced'
  BY DEF DInv, Fewer
<1> QED
  BY <1>1 DEF DInv

LEMMA MovesOn ==
    ASSUME FInv, NEW w \in Crew, NEW x, x # "add", Goto(w, x),
           UNCHANGED content, \A v \in Crew \ {w} : obj'[v] = obj[v]
    PROVE  Fewer
<1> SUFFICES ASSUME NEW v \in Crew, NEW k \in Payloads, Adds(v, k)'
             PROVE  Adds(v, k)
  BY DEF Fewer
<1>1. v # w /\ at[v] = "add" /\ obj'[v] = obj[v]
  BY DEF Adds, Goto, FInv, FrameType
<1> QED
  BY <1>1 DEF Adds

(* The frame of a worker that is about to add a payload stays as it is.    *)
LEMMA StepFewer ==
    ASSUME FInv, [Next]_vars, \A w \in Crew : ~HasKey(w)
    PROVE  Fewer
<1>1. ASSUME UNCHANGED <<at, obj, content>> PROVE Fewer
  BY <1>1 DEF Fewer, Adds
<1>2. ASSUME NEW o, UNCHANGED <<at, obj>>, o \notin {obj[w] : w \in Crew},
             \A u \in Objects \ {o} : content'[u] = content[u]
      PROVE  Fewer
  <2> SUFFICES ASSUME NEW v \in Crew, NEW k \in Payloads, Adds(v, k)'
               PROVE  Adds(v, k)
    BY DEF Fewer
  <2>1. at[v] = "add" /\ obj[v] \in Objects /\ obj[v] # o
    BY <1>2 DEF Adds, FInv, FrameType, WorkerHas
  <2> QED
    BY <1>2, <2>1 DEF Adds
<1>3. ASSUME NEW p \in Producers, ReadFrame(p) \/ AddEvent(p) PROVE Fewer
  <2>1. CASE ReadFrame(p)
    <3>1. PICK o \in pool : /\ UNCHANGED <<at, obj>>
                            /\ \E k \in Payloads : content' = [content EXCEPT ![o] = k]
      BY <2>1 DEF ReadFrame, workVars
    <3>2. o \notin {obj[w] : w \in Crew}
      BY DEF FInv, NotOfPool
    <3> QED
      BY <1>2, <3>1, <3>2 DEF FInv, FrameType
  <2>2. CASE AddEvent(p)
    <3>1. hold[p] # None /\ UNCHANGED <<at, obj>>
      BY <2>2 DEF AddEvent, workVars
    <3>2. hold[p] \notin {obj[w] : w \in Crew}
      BY <3>1 DEF FInv, Apart
    <3>3. content' = content \/ content' = [content EXCEPT ![hold[p]] = None]
      BY <2>2 DEF AddEvent, poolVars
    <3> QED
      BY <1>1, <1>2, <3>1, <3>2, <3>3 DEF FInv, FrameType
  <2> QED
    BY <1>3, <2>1, <2>2
<1>4. ASSUME NEW p \in Producers, \/ Dial(p) \/ EndOfData(p) \/ readFiles(p)
                                  \/ ListenFails(p) \/ Shut(p)
      PROVE  UNCHANGED <<at, obj, content>>
  BY <1>4 DEF Dial, EndOfData, readFiles, ListenFails, Shut, Stop, CloseConnection,
              Cleanup, removeProducer, poolVars, workVars
<1>5. ASSUME NEW w \in Crew, at[w] \notin {"take", "done"}, Release(w), Goto(w, "take")
      PROVE  Fewer
  <2> SUFFICES ASSUME NEW v \in Crew, NEW k \in Payloads, Adds(v, k)'
               PROVE  Adds(v, k)
    BY DEF Fewer
  <2>1. v # w /\ at[v] = "add" /\ obj'[v] = obj[v]
    BY <1>5 DEF Adds, Goto, Release, FInv, FrameType
  <2>2. obj[v] \in Objects /\ obj[v] # obj[w]
    BY <1>5, <2>1, NoneApart DEF FInv, FrameType, WorkerHas, Apart
  <2>3. content'[obj[v]] = content[obj[v]]
    BY <1>5, <2>2 DEF Release, FInv, FrameType
  <2> QED
    BY <2>1, <2>3 DEF Adds
<1>7. ASSUME NEW w \in Crew, Take(w) PROVE Fewer
  <2> DEFINE o == Head(out[w[1]])
  <2>1. /\ w[1] \in Producers /\ out[w[1]] # << >> /\ out[w[1]] \in Seq(Objects)
    BY <1>7, NoneApart DEF Take, FInv, FrameType
  <2>2. 1 \in 1 .. Len(out[w[1]]) /\ o = out[w[1]][1]
    BY <2>1, EmptySeq, HeadTailProperties
  <2>3. o \notin {obj[v] : v \in Crew}
    BY <2>1, <2>2 DEF FInv, Apart
  <2>4. CASE content[o] \in Bad /\ o \notin marked
    <3>1. UNCHANGED <<at, obj>> /\ content' = [content EXCEPT ![o] = None]
      BY <1>7, <2>4 DEF Take, workVars
    <3> QED
      BY <1>2, <2>3, <3>1 DEF FInv, FrameType
  <2>5. CASE ~(content[o] \in Bad /\ o \notin marked)
    BY <1>7, <2>5, MovesOn DEF Take, poolVars, FInv, FrameType
  <2> QED
    BY <2>4, <2>5
<1>8. ASSUME NEW w \in Crew, decodeQueue(w) PROVE Fewer
  <2>1. CASE EndOfQueue(w) \/ AddKey(w) \/ StorePlane(w)
    BY <2>1, MovesOn DEF EndOfQueue, AddKey, StorePlane, poolVars
  <2>2. CASE Tap(w)
    <3>1. UNCHANGED <<obj, content>> /\ (Goto(w, "load") \/ UNCHANGED at)
      BY <2>2 DEF Tap, poolVars
    <3> QED
      BY <1>1, <3>1, MovesOn
  <2>3. CASE LoadPlane(w)
    <3>1. CASE IcaoOf[content[obj[w]]] = None \/ obj[w] \in marked
      BY <1>5, <2>3, <3>1 DEF LoadPlane
    <3>2. CASE ~(IcaoOf[content[obj[w]]] = None \/ obj[w] \in marked)
      <4>1. /\ UNCHANGED <<content, obj>>
            /\ Goto(w, IF IcaoOf[content[obj[w]]] \in planeList THEN "handle" ELSE "store")
        BY <2>3, <3>2 DEF LoadPlane, poolVars
      <4> QED
        BY <4>1, MovesOn
    <3> QED
      BY <3>1, <3>2
  <2>4. CASE HandleFrame(w)
    BY <1>5, <2>4 DEF HandleFrame
  <2> QED
    BY <1>7, <1>8, <2>1, <2>2, <2>3, <2>4 DEF decodeQueue
<1>9. ASSUME \/ TapRequest \/ TapSend \/ DeletePlane
             \/ \E k \in Payloads : ForgetKey(k)
             \/ \E i \in Icaos : EvictPlane(i)
      PROVE  UNCHANGED <<at, obj, content>>
  BY <1>9 DEF TapRequest, TapSend, DeletePlane, ForgetKey, EvictPlane, poolVars, workVars
<1>10. ASSUME \/ Signal \/ WaitForProducers \/ ForceExit
              \/ \E r \in Routines : Finish(r)
       PROVE  UNCHANGED <<at, obj, content>>
  BY <1>10 DEF Signal, WaitForProducers, ForceExit, Finish, FinishCheck, FinishStart,
               CloseTap, FinishEnd, Drained, LeaveTracker, poolVars, workVars
<1>11. CASE UNCHANGED vars
  BY <1>1, <1>11 DEF vars, poolVars, workVars
<1> QED
  BY <1>1, <1>3, <1>4, <1>8, <1>9, <1>10, <1>11 DEF Next, Terminated

LEMMA LookedUp == ASSUME FInv, DInv, NEW w \in Crew, HasKey(w) PROVE DInv'
<1>1. /\ obj[w] \in Objects /\ content[obj[w]] \in Payloads
      /\ seen' = seen /\ passed' = passed /\ at[w] = "check"
  BY DEF HasKey, FInv, FrameType, WorkerHas, NotOfPool, InUseRead
<1>k. PICK k \in Payloads : k = content[obj[w]]
  BY <1>1
<1>2. CASE k \in seen
  <2>1. Release(w) /\ Goto(w, "take") /\ raced' = raced
    BY <1>2, <1>k DEF HasKey
  <2>2. Fewer
    <3> SUFFICES ASSUME NEW v \in Crew, NEW m \in Payloads, Adds(v, m)'
                 PROVE  Adds(v, m)
      BY DEF Fewer
    <3>1. v # w /\ at[v] = "add" /\ obj'[v] = obj[v]
      BY <2>1 DEF Adds, Goto, Release, FInv, FrameType
    <3>2. obj[v] \in Objects /\ obj[v] # obj[w]
      BY <1>1, <3>1, NoneApart DEF FInv, FrameType, WorkerHas, Apart
    <3>3. content'[obj[v]] = content[obj[v]]
      BY <2>1, <3>2 DEF Release, FInv, FrameType
    <3> QED
      BY <3>1, <3>3 DEF Adds
  <2> QED
    BY <1>1, <2>1, <2>2, FewerDInv
<1>3. CASE k \notin seen
  <2>1. /\ at' = [at EXCEPT ![w] = "add"] /\ obj' = obj /\ content' = content
        /\ raced' = IF \E v \in Crew \ {w} : Adds(v, k)
                    THEN raced \union {k} ELSE raced
    BY <1>3, <1>k DEF HasKey, Goto, poolVars
  <2>2. \A v \in Crew \ {w} : \A m \in Payloads : Adds(v, m)' => Adds(v, m)
    BY <2>1 DEF Adds, FInv, FrameType
  <2>3. \A m \in Payloads : Adds(w, m)' => m = k
    BY <1>k, <2>1 DEF Adds
  <2>4. passed[k] = 0
    BY <1>1, <1>3 DEF DInv
  <2>5. raced' \subseteq Payloads /\ raced \subseteq raced'
    BY <1>1, <2>1 DEF DInv
  <2>6. ASSUME NEW m \in Payloads,
               \/ passed'[m] > 1
               \/ passed'[m] > 0 /\ \E v \in Crew : Adds(v, m)'
               \/ \E u, v \in Crew : u # v /\ Adds(u, m)' /\ Adds(v, m)'
        PROVE  m \in raced'
    <3>1. CASE m = k
      <4>1. PICK u, v \in Crew : u # v /\ Adds(u, k)' /\ Adds(v, k)'
        BY <1>1, <2>4, <2>6, <3>1
      <4>2. \E x \in Crew \ {w} : Adds(x, k)
        BY <1>1, <2>2, <4>1
      <4> QED
        BY <2>1, <3>1, <4>2
    <3>2. CASE m # k
      <4>1. \A v \in Crew : Adds(v, m)' => Adds(v, m)
        BY <2>2, <2>3, <3>2
      <4>2. m \in raced
        BY <1>1, <2>6, <4>1 DEF DInv
      <4> QED
        BY <2>5, <4>2
    <3> QED
      BY <3>1, <3>2
  <2> QED
    BY <1>1, <2>5, <2>6 DEF DInv
<1> QED
  BY <1>2, <1>3

LEMMA Added == ASSUME FInv, DInv, NEW w \in Crew, AddKey(w), Fewer PROVE DInv'
<1>k. PICK k \in Payloads : k = content[obj[w]]
  BY DEF AddKey, FInv, FrameType, WorkerHas, NotOfPool, InUseRead
<1>1. /\ Adds(w, k)
      /\ seen' = seen \union {k} /\ passed' = [passed EXCEPT ![k] = @ + 1]
      /\ raced' = raced /\ ~Adds(w, k)'
  BY <1>k DEF AddKey, Adds, Goto, FInv, FrameType
<1>2. /\ passed' \in [Payloads -> Nat] /\ passed'[k] = passed[k] + 1
      /\ \A m \in Payloads \ {k} : passed'[m] = passed[m]
      /\ \A m \in Payloads : passed[m] \in Nat
  BY <1>1 DEF DInv
<1>3. ASSUME NEW m \in Payloads,
             \/ passed'[m] > 1
             \/ passed'[m] > 0 /\ \E v \in Crew : Adds(v, m)'
             \/ \E u, v \in Crew : u # v /\ Adds(u, m)' /\ Adds(v, m)'
      PROVE  m \in raced
  <2>1. CASE m = k
    <3>1. CASE passed'[m] > 1
      <4>1. passed[k] > 0
        BY <1>2, <2>1, <3>1
      <4> QED
        BY <1>1, <2>1, <4>1 DEF DInv
    <3>2. CASE \E v \in Crew : Adds(v, m)'
      <4>1. \E v \in Crew : v # w /\ Adds(v, k)
        BY <1>1, <2>1, <3>2 DEF Fewer
      <4> QED
        BY <1>1, <2>1, <4>1 DEF DInv
    <3> QED
      BY <1>3, <3>1, <3>2
  <2>2. CASE m # k
    <3>1. passed'[m] = passed[m]
      BY <1>2, <2>2
    <3> QED
      BY <1>3, <3>1 DEF DInv, Fewer
  <2> QED
    BY <2>1, <2>2
<1>4. \A m \in Payloads : passed'[m] > 0 => m \in seen'
  BY <1>1, <1>2 DEF DInv
<1> QED
  BY <1>1, <1>2, <1>3, <1>4 DEF DInv

LEMMA Forgotten ==
    ASSUME DInv, NEW k \in Payloads, ForgetKey(k), Fewer PROVE DInv'
<1>1. /\ seen' = seen \ {k} /\ passed' = [passed EXCEPT ![k] = 0]
      /\ raced' = IF \E v, w \in Crew : v # w /\ Adds(v, k) /\ Adds(w, k)
                  THEN raced ELSE raced \ {k}
  BY DEF ForgetKey
<1>2. /\ passed' \in [Payloads -> Nat] /\ passed'[k] = 0
      /\ \A m \in Payloads \ {k} : passed'[m] = passed[m]
      /\ raced' \subseteq Payloads /\ raced \ {k} \subseteq raced'
  BY <1>1 DEF DInv
<1>3. ASSUME NEW m \in Payloads,
             \/ passed'[m] > 1
             \/ passed'[m] > 0 /\ \E v \in Crew : Adds(v, m)'
             \/ \E u, v \in Crew : u # v /\ Adds(u, m)' /\ Adds(v, m)'
      PROVE  m \in raced'
  <2>1. CASE m = k
    <3>1. PICK u, v \in Crew : u # v /\ Adds(u, k)' /\ Adds(v, k)'
      BY <1>2, <1>3, <2>1
    <3>2. u # v /\ Adds(u, k) /\ Adds(v, k)
      BY <3>1 DEF Fewer
    <3>3. k \in raced /\ raced' = raced
      BY <1>1, <3>2 DEF DInv
    <3> QED
      BY <2>1, <3>3
  <2>2. CASE m # k
    <3>1. passed'[m] = passed[m]
      BY <1>2, <2>2
    <3>2. m \in raced
      BY <1>3, <3>1 DEF DInv, Fewer
    <3> QED
      BY <1>2, <2>2, <3>2
  <2> QED
    BY <2>1, <2>2
<1>4. \A m \in Payloads : passed'[m] > 0 => m \in seen'
  BY <1>1, <1>2 DEF DInv
<1> QED
  BY <1>1, <1>2, <1>3, <1>4 DEF DInv

LEMMA StepDInv == ASSUME FInv, DInv, [Next]_vars PROVE DInv'
<1>1. CASE \E w \in Crew : HasKey(w)
  BY <1>1, LookedUp
<1>2. CASE \E w \in Crew : AddKey(w)
  <2>1. Fewer
    BY <1>2, MovesOn DEF AddKey, poolVars
  <2> QED
    BY <1>2, <2>1, Added
<1>3. CASE \E k \in Payloads : ForgetKey(k)
  <2>1. Fewer
    BY <1>3 DEF ForgetKey, Fewer, Adds, poolVars, workVars
  <2> QED
    BY <1>3, <2>1, Forgotten
<1>4. CASE /\ ~\E w \in Crew : HasKey(w) \/ AddKey(w)
           /\ ~\E k \in Payloads : ForgetKey(k)
  <2>1. Fewer
    BY <1>4, StepFewer
  <2>2. ASSUME NEW p \in Producers, \/ Dial(p) \/ ReadFrame(p) \/ AddEvent(p)
                                    \/ EndOfData(p) \/ readFiles(p)
                                    \/ ListenFails(p) \/ Shut(p)
        PROVE  UNCHANGED dedupeVars
    BY <2>2 DEF Dial, ReadFrame, AddEvent, EndOfData, readFiles, ListenFails, Shut,
                Stop, CloseConnection, Cleanup, removeProducer
  <2>3. ASSUME NEW w \in Crew, decodeQueue(w) PROVE UNCHANGED dedupeVars
    BY <1>4, <2>3 DEF decodeQueue, Take, EndOfQueue, Tap, LoadPlane, StorePlane, HandleFrame
  <2>4. ASSUME TapRequest \/ TapSend \/ DeletePlane \/ \E i \in Icaos : EvictPlane(i)
        PROVE  UNCHANGED dedupeVars
    BY <2>4 DEF TapRequest, TapSend, DeletePlane, EvictPlane
  <2>5. ASSUME \/ Signal \/ WaitForProducers \/ ForceExit
               \/ \E r \in Routines : Finish(r)
        PROVE  UNCHANGED dedupeVars
    BY <2>5 DEF Signal, WaitForProducers, ForceExit, Finish, FinishCheck, FinishStart,
                CloseTap, FinishEnd, Drained, LeaveTracker
  <2>6. UNCHANGED dedupeVars
    BY <1>4, <2>2, <2>3, <2>4, <2>5 DEF Next, Terminated, vars
  <2> QED
    BY <2>1, <2>6, FewerDInv DEF dedupeVars
<1> QED
  BY <1>1, <1>2, <1>3, <1>4

-----------------------------------------------------------------------------
(* The steps of the shutdown.                                              *)

LEMMA InitSInv == Init => SInv
  BY DEF Init, SInv, Routines

LEMMA SameSInv ==
    ASSUME SInv, UNCHANGED <<closed, gone, ctl, exited, at, out>> PROVE SInv'
  BY DEF SInv, WorkersDone

LEMMA StepSInv == ASSUME FInv, SInv, [Next]_vars PROVE SInv'
<1>0. ASSUME NEW p \in Producers, NEW n \in Workers
      PROVE  <<p, n>> \in Crew /\ <<p, n>>[1] = p
  BY DEF Crew
<1>1. ASSUME NEW p \in Producers, \/ Dial(p) \/ ReadFrame(p) \/ EndOfData(p)
                                  \/ readFiles(p) \/ ListenFails(p) \/ Stop(p)
                                  \/ CloseConnection(p)
      PROVE  UNCHANGED <<closed, gone, ctl, exited, at, out>>
  BY <1>1 DEF Dial, ReadFrame, EndOfData, readFiles, ListenFails, Stop,
              CloseConnection, workVars, ctlVars
<1>2. ASSUME NEW p \in Producers, AddEvent(p) PROVE SInv'
  <2>1. UNCHANGED <<closed, gone, ctl, exited, at>>
    BY <1>2 DEF AddEvent, workVars, ctlVars
  <2>2. \A q \in closed : out'[q] = out[q]
    BY <1>2 DEF AddEvent, FInv, FrameType, SInv
  <2> QED
    BY <2>1, <2>2 DEF SInv, WorkersDone
<1>3. ASSUME NEW p \in Producers, Cleanup(p) PROVE SInv'
  BY <1>3 DEF Cleanup, SInv, WorkersDone, workVars, ctlVars
<1>4. ASSUME NEW p \in Producers, removeProducer(p) PROVE SInv'
  BY <1>4 DEF removeProducer, SInv, WorkersDone, workVars, prodVars
<1>5. ASSUME NEW w \in Crew, at[w] # "done", NEW x, x # "done", Goto(w, x),
             UNCHANGED <<closed, gone, ctl>>, exited' = exited \/ exited' # "clean",
             \A p \in Producers : p # w[1] => out'[p] = out[p],
             out'[w[1]] = out[w[1]] \/ out[w[1]] # << >>
      PROVE  SInv'
  <2>1. /\ \A v \in Crew \ {w} : at'[v] = at[v]
        /\ \A v \in Crew : v[1] \in Producers
    BY <1>5, NoneApart DEF Goto, FInv, FrameType
  <2>2. at'[w] # "done"
    BY <1>5 DEF Goto, FInv, FrameType
  <2>3. ASSUME NEW v \in Crew, at'[v] = "done" PROVE v[1] \in closed /\ out'[v[1]] = << >>
    <3>1. v # w /\ at[v] = "done"
      BY <2>1, <2>2, <2>3
    <3>2. v[1] \in closed /\ out[v[1]] = << >>
      BY <3>1 DEF SInv
    <3> QED
      BY <1>5, <2>1, <3>2
  <2>4. ASSUME NEW p \in gone PROVE WorkersDone(p)'
    <3>1. \A n \in Workers : at[<<p, n>>] = "done" /\ <<p, n>> \in Crew
      BY <1>0, <2>4 DEF SInv, WorkersDone
    <3>2. \A n \in Workers : at'[<<p, n>>] = "done"
      BY <1>5, <2>1, <3>1
    <3> QED
      BY <3>2 DEF WorkersDone
  <2> QED
    BY <1>5, <2>3, <2>4 DEF SInv
<1>6. ASSUME NEW w \in Crew, decodeQueue(w) PROVE SInv'
  <2>1. CASE Take(w)
    <3>1. UNCHANGED <<closed, gone, ctl, exited>>
      BY <2>1 DEF Take, ctlVars
    <3>2. /\ at[w] = "take" /\ out[w[1]] # << >> /\ w[1] \in Producers
          /\ \A p \in Producers : p # w[1] => out'[p] = out[p]
      BY <2>1, NoneApart DEF Take, FInv, FrameType
    <3>3. Goto(w, "check") \/ Goto(w, "take")
      BY <2>1, <3>2 DEF Take, workVars, Goto, FInv, FrameType
    <3> QED
      BY <1>5, <3>1, <3>2, <3>3
  <2>2. CASE EndOfQueue(w)
    <3>1. /\ UNCHANGED <<closed, gone, ctl, exited, out>>
          /\ at[w] = "take" /\ out[w[1]] = << >> /\ w[1] \in closed
          /\ at' = [at EXCEPT ![w] = "done"]
      BY <2>2 DEF EndOfQueue, prodVars, ctlVars, Goto
    <3>2. \A v \in Crew : at'[v] = "done" <=> v = w \/ at[v] = "done"
      BY <3>1 DEF FInv, FrameType
    <3>3. ASSUME NEW p \in gone PROVE WorkersDone(p)'
      BY <1>0, <3>2, <3>3 DEF SInv, WorkersDone
    <3> QED
      BY <3>1, <3>2, <3>3 DEF SInv
  <2>3. CASE HasKey(w) \/ AddKey(w) \/ LoadPlane(w) \/ StorePlane(w) \/ HandleFrame(w)
    <3>1. UNCHANGED <<closed, gone, ctl, exited, out>> /\ at[w] # "done"
      BY <2>3 DEF HasKey, AddKey, LoadPlane, StorePlane, HandleFrame, prodVars, ctlVars
    <3>2. \E x \in {"add", "tap", "handle", "store", "take"} : Goto(w, x)
      BY <2>3 DEF HasKey, AddKey, LoadPlane, StorePlane, HandleFrame
    <3> QED
      BY <1>5, <3>1, <3>2
  <2>4. CASE Tap(w)
    <3>1. UNCHANGED <<closed, gone, ctl, out>> /\ at[w] = "tap"
      BY <2>4 DEF Tap, prodVars, ctlVars
    <3>2. CASE tapped /\ ~tapOpen
      BY <2>4, <3>1, <3>2 DEF Tap, SInv, WorkersDone
    <3>3. CASE ~(tapped /\ ~tapOpen)
      BY <1>5, <2>4, <3>1, <3>3 DEF Tap
    <3> QED
      BY <3>2, <3>3
  <2> QED
    BY <1>6, <2>1, <2>2, <2>3, <2>4 DEF decodeQueue
<1>7. ASSUME \/ TapRequest \/ TapSend \/ DeletePlane
             \/ \E k \in Payloads : ForgetKey(k)
             \/ \E i \in Icaos : EvictPlane(i)
      PROVE  UNCHANGED <<closed, gone, ctl, exited, at, out>>
  BY <1>7 DEF TapRequest, TapSend, DeletePlane, ForgetKey, EvictPlane, prodVars,
              workVars, ctlVars
<1>8. ASSUME \/ Signal \/ WaitForProducers \/ ForceExit
             \/ \E r \in Routines : Finish(r)
      PROVE  SInv'
  <2>1. UNCHANGED <<closed, gone, at, out>>
    BY <1>8 DEF Signal, WaitForProducers, ForceExit, Finish, FinishCheck, FinishStart,
                CloseTap, FinishEnd, Drained, LeaveTracker, prodVars, workVars
  <2>2. /\ ctl' \in [Routines -> {"idle", "producers", "check", "start",
                                  "stopping", "drain", "returned"}]
        /\ ctl'["Wait"] \notin {"idle", "producers"} => gone = Producers
        /\ ctl'["Wait"] # "idle"
        /\ exited' = "clean" => exited = "clean" \/ gone = Producers
    BY <1>8 DEF Signal, WaitForProducers, ForceExit, Finish, FinishCheck, FinishStart,
                CloseTap, FinishEnd, Drained, Proceed, SInv, Routines
  <2> QED
    BY <2>1, <2>2 DEF SInv, WorkersDone
<1>9. CASE UNCHANGED vars
  BY <1>9, SameSInv DEF vars, prodVars, workVars, ctlVars
<1> QED
  BY <1>1, <1>2, <1>3, <1>4, <1>6, <1>7, <1>8, <1>9, SameSInv DEF Next, Terminated, Shut

LEMMA NothingLeft == ASSUME SInv, Workers # {} PROVE NothingLeftBehind
<1> SUFFICES ASSUME exited = "clean"
             PROVE  /\ \A p \in Producers : out[p] = << >>
                    /\ \A w \in Crew : at[w] = "done"
  BY DEF NothingLeftBehind
<1>1. \A p \in Producers : \A n \in Workers :
          <<p, n>> \in Crew /\ <<p, n>>[1] = p /\ at[<<p, n>>] = "done"
  BY DEF SInv, WorkersDone, Crew
<1>2. \A w \in Crew : \E p \in Producers : \E n \in Workers : w = <<p, n>>
  BY DEF Crew
<1>3. \A p \in Producers : out[p] = << >>
  BY <1>1 DEF SInv
<1> QED
  BY <1>1, <1>2, <1>3

-----------------------------------------------------------------------------
(* The types of the other variables.                                       *)

LEMMA LeastExists ==
    ASSUME NEW S \in SUBSET Nat, S # {}
    PROVE  \E i \in S : \A j \in S : i <= j
<1>1. PICK i \in S : \A j \in S : <<j, i>> \notin OpToRel(<, Nat)
  BY NatLessThanWellFounded, WFMin
<1>2. \A j \in S : ~ (j < i)
  BY <1>1 DEF OpToRel
<1> QED
  BY <1>2

LEMMA SetToSeqType == ASSUME NEW S, IsFiniteSet(S) PROVE SetToSeq(S) \in Seq(S)
<1>1. Cardinality(S) \in Nat /\ ExistsBijection(1 .. Cardinality(S), S)
  BY FS_CardinalityType
<1>2. \E f \in [1 .. Cardinality(S) -> S] : IsInjective(f)
  BY <1>1 DEF ExistsBijection, Bijection, Injection
<1>3. SetToSeq(S) \in [1 .. Cardinality(S) -> S]
  BY <1>2 DEF SetToSeq
<1> QED
  BY <1>1, <1>3

LEMMA RemoveAtType ==
    ASSUME NEW S, NEW s \in Seq(S), NEW i \in 1 .. Len(s)
    PROVE  RemoveAt(s, i) \in Seq(S) /\ Len(RemoveAt(s, i)) = Len(s) - 1
<1>1. Len(s) \in Nat /\ \A j \in 1 .. Len(s) : s[j] \in S
  BY LenProperties, ElementOfSeq
<1>2. SubSeq(s, 1, i - 1) \in Seq(S) /\ Len(SubSeq(s, 1, i - 1)) = i - 1
  <2>1. \A j \in 1 .. i - 1 : s[j] \in S
    BY <1>1
  <2> QED
    BY <1>1, <2>1, SubSeqProperties
<1>3. SubSeq(s, i + 1, Len(s)) \in Seq(S) /\ Len(SubSeq(s, i + 1, Len(s))) = Len(s) - i
  <2>1. \A j \in i + 1 .. Len(s) : s[j] \in S
    BY <1>1
  <2> QED
    BY <1>1, <2>1, SubSeqProperties
<1>4. RemoveAt(s, i) = SubSeq(s, 1, i - 1) \o SubSeq(s, i + 1, Len(s))
  BY DEF RemoveAt
<1>5. RemoveAt(s, i) \in Seq(S) /\ Len(RemoveAt(s, i)) = (i - 1) + (Len(s) - i)
  BY <1>2, <1>3, <1>4, ConcatProperties
<1> QED
  BY <1>1, <1>5

LEMMA RemovedType ==
    ASSUME RestType, NEW p \in Producers, removeProducer(p)
    PROVE  producers' \in Seq(Producers)
<1> DEFINE same == {k \in DOMAIN producers : NameOf[producers[k]] = NameOf[p]}
           first == CHOOSE k \in same : \A j \in same : k <= j
<1>1. producers \in Seq(Producers) /\ same \subseteq 1 .. Len(producers)
      /\ Len(producers) \in Nat
  BY DEF RestType
<1>2. producers' = IF same = {} THEN producers ELSE RemoveAt(producers, first)
  BY DEF removeProducer
<1>3. CASE same # {}
  <2>1. same \in SUBSET Nat
    BY <1>1
  <2>2. \E k \in same : \A j \in same : k <= j
    <3> HIDE DEF same
    <3> QED
      BY <1>3, <2>1, LeastExists
  <2>3. first \in same
    <3> HIDE DEF same
    <3> QED
      BY <2>2
  <2> HIDE DEF same, first
  <2> QED
    BY <1>1, <1>2, <1>3, <2>3, RemoveAtType
<1> QED
  BY <1>1, <1>2, <1>3

LEMMA InitRestType == Init => RestType
<1> SUFFICES ASSUME Init PROVE RestType
  OBVIOUS
<1>1. producers \in Seq(Producers)
  BY SetToSeqType, IngestAssumption DEF Init
<1>2. kind \in [Producers -> Kinds] /\ readsLeft \in [Producers -> Nat]
  BY IngestAssumption DEF Init
<1>3. /\ reader \in [Producers -> {"dial", "read", "end"}]
      /\ life \in [Producers -> {"run", "exit", "cleanup", "ended"}]
      /\ commands \subseteq Producers
  BY DEF Init
<1>4. tapped \in BOOLEAN /\ tapOpen \in BOOLEAN /\ finishDone \in BOOLEAN
  BY DEF Init
<1>6. stopCalls \subseteq Routines \X Stoppable
  BY Zenon DEF Init
<1>7. exited \in {"no", "clean", "forced", "panic"}
  BY DEF Init
<1> QED
  BY <1>1, <1>2, <1>3, <1>4, <1>6, <1>7 DEF RestType

LEMMA StepRestType == ASSUME RestType, [Next]_vars PROVE RestType'
<1> DEFINE others == <<tapped, tapOpen, producers, finishDone, stopCalls, exited>>
<1>1. ASSUME NEW p \in Producers, \/ Dial(p) \/ ReadFrame(p) \/ AddEvent(p)
                                  \/ EndOfData(p) \/ readFiles(p)
                                  \/ ListenFails(p) \/ CloseConnection(p) \/ Cleanup(p)
      PROVE  RestType'
  <2>1. UNCHANGED others /\ kind' = kind /\ commands' \subseteq commands
    BY <1>1 DEF Dial, ReadFrame, AddEvent, EndOfData, readFiles, ListenFails,
                CloseConnection, Cleanup, tapVars, ctlVars
  <2>2. reader' \in [Producers -> {"dial", "read", "end"}]
    BY <1>1 DEF Dial, ReadFrame, AddEvent, EndOfData, readFiles, ListenFails,
                CloseConnection, Cleanup, RestType
  <2>3. life' \in [Producers -> {"run", "exit", "cleanup", "ended"}]
    BY <1>1 DEF Dial, ReadFrame, AddEvent, EndOfData, readFiles, ListenFails,
                CloseConnection, Cleanup, RestType
  <2>4. readsLeft' \in [Producers -> Nat]
    <3>1. CASE ReadFrame(p)
      BY <3>1 DEF ReadFrame, RestType
    <3>2. CASE readsLeft' = readsLeft
      BY <3>2 DEF RestType
    <3> QED
      BY <1>1, <3>1, <3>2 DEF Dial, AddEvent, EndOfData, readFiles, ListenFails,
         CloseConnection, Cleanup
  <2> QED
    BY <2>1, <2>2, <2>3, <2>4 DEF RestType
<1>2. ASSUME NEW p \in Producers, Stop(p) PROVE RestType'
  <2>1. /\ UNCHANGED <<kind, reader, readsLeft, tapped, tapOpen, producers,
                       finishDone, exited>>
        /\ commands' \subseteq commands /\ stopCalls' \subseteq stopCalls
    BY <1>2 DEF Stop, tapVars
  <2>2. life' \in [Producers -> {"run", "exit", "cleanup", "ended"}]
    BY <1>2 DEF Stop, RestType
  <2> QED
    BY <2>1, <2>2 DEF RestType
<1>3. ASSUME NEW p \in Producers, removeProducer(p) PROVE RestType'
  <2>1. UNCHANGED <<kind, reader, readsLeft, life, commands, tapped, tapOpen,
                    finishDone, stopCalls, exited>>
    BY <1>3 DEF removeProducer, prodVars, tapVars
  <2> QED
    BY <1>3, <2>1, RemovedType DEF RestType
<1>4. ASSUME NEW w \in Crew, decodeQueue(w) PROVE RestType'
  <2>1. UNCHANGED <<kind, reader, readsLeft, life, commands, tapped, tapOpen, producers,
                    finishDone, stopCalls>>
    BY <1>4 DEF decodeQueue, Take, EndOfQueue, HasKey, AddKey, Tap, LoadPlane,
                StorePlane, HandleFrame, prodVars, tapVars, ctlVars
  <2>2. exited' \in {"no", "clean", "forced", "panic"}
    <3>1. CASE Tap(w)
      BY <3>1 DEF Tap, RestType
    <3>2. CASE exited' = exited
      BY <3>2 DEF RestType
    <3> QED
      BY <1>4, <3>1, <3>2 DEF decodeQueue, Take, EndOfQueue, HasKey, AddKey,
         LoadPlane, StorePlane, HandleFrame
  <2> QED
    BY <2>1, <2>2 DEF RestType
<1>5. ASSUME TapRequest \/ TapSend PROVE RestType'
  <2>1. UNCHANGED <<kind, reader, readsLeft, life, commands, tapOpen, producers,
                    finishDone, stopCalls, exited>>
    BY <1>5 DEF TapRequest, TapSend, prodVars, ctlVars
  <2>2. tapped' \in BOOLEAN
    <3>1. CASE TapRequest
      BY <3>1 DEF TapRequest
    <3>2. CASE TapSend
      BY <3>2 DEF TapSend, RestType
    <3> QED
      BY <1>5, <3>1, <3>2
  <2> QED
    BY <2>1, <2>2 DEF RestType
<1>6. ASSUME \/ DeletePlane \/ \E k \in Payloads : ForgetKey(k)
             \/ \E i \in Icaos : EvictPlane(i)
      PROVE  UNCHANGED <<prodVars, tapVars, ctlVars, exited>>
  BY <1>6 DEF DeletePlane, ForgetKey, EvictPlane
<1>7. ASSUME \/ Signal \/ WaitForProducers \/ ForceExit
             \/ \E r \in Routines : Finish(r)
      PROVE  RestType'
  <2>1. UNCHANGED <<kind, reader, readsLeft, life, commands, tapped, producers>>
    BY <1>7 DEF Signal, WaitForProducers, ForceExit, Finish, FinishCheck, FinishStart,
                CloseTap, FinishEnd, Drained, LeaveTracker, prodVars
  <2>2. /\ tapOpen' \in BOOLEAN /\ finishDone' \in BOOLEAN
        /\ exited' \in {"no", "clean", "forced", "panic"}
    BY <1>7 DEF Signal, WaitForProducers, ForceExit, Finish, FinishCheck, FinishStart,
                CloseTap, FinishEnd, Drained, RestType
  <2>3. stopCalls' \subseteq Routines \X Stoppable
    <3>1. ASSUME NEW r \in Routines, FinishStart(r) PROVE stopCalls' \subseteq Routines \X Stoppable
      <4>1. \A i \in 1 .. Len(producers) : producers[i] \in Producers
        BY ElementOfSeq DEF RestType
      <4>2. Range(producers) \subseteq Producers
        BY <4>1 DEF Range, RestType
      <4> QED
        BY <3>1, <4>2 DEF FinishStart, Stoppable, RestType
    <3>2. ASSUME NEW r \in Routines, Finish(r), ~FinishStart(r)
          PROVE  stopCalls' \subseteq stopCalls
      BY <3>2 DEF Finish, FinishCheck, CloseTap, FinishEnd, Drained
    <3>3. ASSUME Signal \/ WaitForProducers \/ ForceExit PROVE stopCalls' = stopCalls
      BY <3>3 DEF Signal, WaitForProducers, ForceExit
    <3> QED
      BY <1>7, <3>1, <3>2, <3>3 DEF RestType
  <2> QED
    BY <2>1, <2>2, <2>3 DEF RestType
<1>8. ASSUME UNCHANGED <<prodVars, tapVars, ctlVars, exited>> PROVE RestType'
  BY <1>8 DEF RestType, prodVars, tapVars, ctlVars
<1>9. CASE UNCHANGED vars
  BY <1>8, <1>9 DEF vars
<1> QED
  BY <1>1, <1>2, <1>3, <1>4, <1>5, <1>6, <1>7, <1>8, <1>9 DEF Next, Terminated, Shut

-----------------------------------------------------------------------------
(* The tap.                                                                *)

LEMMA InitTInv == Init => TInv
  BY IngestAssumption DEF Init, TInv, UnreadDropped

(* A step that marks nothing and in which no worker comes to a plane.      *)
LEMMA MarksNothing ==
    ASSUME TInv, tapQueue' = tapQueue, marked' \subseteq marked,
           \A w \in Crew : at'[w] \in {"store", "handle"} =>
                            at[w] \in {"store", "handle"} /\ obj'[w] = obj[w]
    PROVE  TInv'
  BY DEF TInv, UnreadDropped

LEMMA StepTInv == ASSUME FInv, TInv, [Next]_vars PROVE TInv'
<1>1. ASSUME NEW p \in Producers, \/ Dial(p) \/ ReadFrame(p) \/ AddEvent(p)
                                  \/ EndOfData(p) \/ readFiles(p)
                                  \/ ListenFails(p) \/ Shut(p)
      PROVE  TInv'
  <2>1. UNCHANGED <<at, obj, tapQueue>> /\ marked' \subseteq marked
    BY <1>1 DEF Dial, ReadFrame, AddEvent, EndOfData, readFiles, ListenFails, Shut, Stop,
                CloseConnection, Cleanup, removeProducer, poolVars, workVars, tapVars
  <2> QED
    BY <2>1, MarksNothing
<1>2. ASSUME NEW w \in Crew, decodeQueue(w) PROVE TInv'
  <2>1. ASSUME NEW x \in {"take", "check", "add", "tap", "load", "done"}, at' = [at EXCEPT ![w] = x],
               \A v \in Crew \ {w} : obj'[v] = obj[v],
               tapQueue' = tapQueue, marked' \subseteq marked
        PROVE  TInv'
    BY <2>1, MarksNothing DEF FInv, FrameType
  <2>2. \A v \in Crew \ {w} : obj'[v] = obj[v]
    BY <1>2 DEF decodeQueue, Take, EndOfQueue, HasKey, AddKey, Tap, LoadPlane, StorePlane,
                HandleFrame, Release, workVars, FInv, FrameType
  <2>3. marked' \subseteq marked
    BY <1>2 DEF decodeQueue, Take, EndOfQueue, HasKey, AddKey, Tap, LoadPlane, StorePlane,
                HandleFrame, Release, poolVars
  <2>4. CASE \/ Take(w) \/ EndOfQueue(w) \/ HasKey(w) \/ AddKey(w) \/ HandleFrame(w)
    <3>1. tapQueue' = tapQueue
      BY <2>4 DEF Take, EndOfQueue, HasKey, AddKey, HandleFrame, tapVars
    <3>2. UNCHANGED workVars \/ \E x \in {"take", "check", "add", "tap", "load", "done"} : at' = [at EXCEPT ![w] = x]
      BY <2>4 DEF Take, EndOfQueue, HasKey, AddKey, HandleFrame, Goto
    <3> QED
      BY <2>1, <2>2, <2>3, <3>1, <3>2, MarksNothing DEF workVars
  <2>5. CASE Tap(w)
    <3>1. obj[w] \in Objects /\ UNCHANGED <<obj, marked>>
      BY <2>5 DEF Tap, poolVars, FInv, FrameType, WorkerHas
    <3>2. \A v \in Crew : at'[v] \in {"store", "handle"} => at[v] \in {"store", "handle"}
      BY <2>5 DEF Tap, Goto, FInv, FrameType
    <3>3. tapQueue' \in Seq(Objects) /\ Len(tapQueue') <= TapCap
      <4>1. CASE tapQueue' = tapQueue
        BY <4>1 DEF TInv
      <4>2. CASE tapQueue' = Append(tapQueue, obj[w]) /\ Len(tapQueue) < TapCap
        BY <3>1, <4>2, AppendProperties, LenProperties, IngestAssumption DEF TInv
      <4> QED
        BY <2>5, <4>1, <4>2 DEF Tap
    <3> QED
      BY <3>1, <3>2, <3>3 DEF TInv, UnreadDropped
  <2>6. CASE LoadPlane(w)
    <3>1. tapQueue' = tapQueue
      BY <2>6 DEF LoadPlane, tapVars
    <3>2. CASE IcaoOf[content[obj[w]]] = None \/ obj[w] \in marked
      BY <2>1, <2>2, <2>3, <2>6, <3>1, <3>2 DEF LoadPlane, Goto
    <3>3. CASE ~(IcaoOf[content[obj[w]]] = None \/ obj[w] \in marked)
      <4>1. UNCHANGED <<obj, marked>> /\ obj[w] \notin marked
        BY <2>6, <3>3 DEF LoadPlane, poolVars
      <4>2. \A v \in Crew \ {w} : at'[v] = at[v]
        BY <2>6, <3>3 DEF LoadPlane, Goto, FInv, FrameType
      <4> QED
        BY <3>1, <4>1, <4>2 DEF TInv, UnreadDropped
    <3> QED
      BY <3>2, <3>3
  <2>7. CASE StorePlane(w)
    <3>1. UNCHANGED <<tapQueue, obj, marked>> /\ at[w] = "store"
      BY <2>7 DEF StorePlane, tapVars, poolVars
    <3>2. \A v \in Crew \ {w} : at'[v] = at[v]
      BY <2>7 DEF StorePlane, Goto, FInv, FrameType
    <3> QED
      BY <3>1, <3>2 DEF TInv, UnreadDropped
  <2> QED
    BY <1>2, <2>4, <2>5, <2>6, <2>7 DEF decodeQueue
<1>3. CASE TapSend
  <2>1. PICK i \in 1 .. Len(tapQueue) :
           /\ tapQueue' = RemoveAt(tapQueue, i)
           /\ marked' \in {marked, IF tapped /\ tapQueue[i] \in pool
                                   THEN marked \union {tapQueue[i]} ELSE marked}
    BY <1>3 DEF TapSend
  <2>2. /\ tapQueue' \in Seq(Objects) /\ Len(tapQueue') <= TapCap
    BY <2>1, RemoveAtType, LenProperties, IngestAssumption DEF TInv
  <2>3. marked' \subseteq marked \union pool
    BY <2>1
  <2>4. UNCHANGED <<at, obj>>
    BY <1>3 DEF TapSend, workVars
  <2> QED
    BY <2>2, <2>3, <2>4 DEF TInv, UnreadDropped, FInv, FrameType, NotOfPool
<1>4. ASSUME \/ TapRequest \/ DeletePlane
             \/ \E k \in Payloads : ForgetKey(k)
             \/ \E i \in Icaos : EvictPlane(i)
             \/ Signal \/ WaitForProducers \/ ForceExit
             \/ \E r \in Routines : Finish(r)
      PROVE  UNCHANGED <<tapQueue, marked, at, obj>>
  BY <1>4 DEF TapRequest, DeletePlane, ForgetKey, EvictPlane, Signal, WaitForProducers,
              ForceExit, Finish, FinishCheck, FinishStart, CloseTap, FinishEnd, Drained,
              LeaveTracker, poolVars, workVars, tapVars
<1>5. CASE UNCHANGED vars
  BY <1>5, MarksNothing DEF vars, poolVars, workVars, tapVars
<1> QED
  BY <1>1, <1>2, <1>3, <1>4, <1>5, MarksNothing DEF Next, Terminated

LEMMA TypesHold == ASSUME IInv PROVE TypeOK
<1>1. {tapped, tapOpen} \subseteq BOOLEAN
  BY DEF IInv, RestType
<1> QED
  BY <1>1 DEF IInv, FInv, FrameType, CInv, DInv, SInv, RestType, TInv, TypeOK

-----------------------------------------------------------------------------
LEMMA Invariant == Spec => []IInv
<1>1. Init => IInv
  BY InitFInv, InitCInv, InitDInv, InitSInv, InitRestType, InitTInv DEF IInv
<1>2. IInv /\ [Next]_vars => IInv'
  BY StepFInv, StepCInv, StepDInv, StepSInv, StepRestType, StepTInv DEF IInv
<1> QED
  BY <1>1, <1>2, PTL DEF Spec

(* A pooled frame has one owner among producers, channels and workers at   *)
(* any time, whoever releases, drops or discards it; the tap, which keeps  *)
(* frames after their release, spoils none that comes to a plane; and no   *)
(* plane goes uncounted (input.go, beast/main.go, ingest_tap.go).          *)
THEOREM AllAccounted == Spec => []Accounted
<1>1. IInv => Accounted
  BY TypesHold, FramesOwned DEF IInv, CInv, TInv, Accounted
<1> QED
  BY <1>1, Invariant, PTL

(* The dedupe filter passes a message twice only when two workers looked   *)
(* it up before either had added it (dedupe.go).                           *)
THEOREM PassedOnce == Spec => []DuplicatesOnlyByRace
<1>1. IInv => DuplicatesOnlyByRace
  BY DEF IInv, DInv, DuplicatesOnlyByRace
<1> QED
  BY <1>1, Invariant, PTL

(* When Wait returns every frame that was queued is through the workers,   *)
(* of which each producer has at least one (tracker.go, input.go).         *)
THEOREM LeavesNothing == ASSUME Workers # {} PROVE Spec => []NothingLeftBehind
<1>1. IInv => NothingLeftBehind
  BY NothingLeft DEF IInv
<1> QED
  BY <1>1, Invariant, PTL
=============================================================================
